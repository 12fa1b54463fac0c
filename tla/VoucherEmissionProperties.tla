---------------------- MODULE VoucherEmissionProperties ----------------------
(* What the emission path promises.  README.md says under which faults.    *)
EXTENDS VoucherEmission

\* The lock's purpose: two requests never spend each other's number.  When a
\* process is about to ask ARCA for a CAE, the number it computed from
\* FECompUltimoAutorizado is still the next one (voucher-emission.service.ts
\* runs the read and the request under one runExclusive).
ChosenNumberIsNext ==
  \A p \in Procs : pc[p] \in {"solicit", "freshSolicit"} =>
    number[p] = NextNumber(Work(p))

\* A Voucher row carries the CAE of an authorisation ARCA really gave under
\* that number, for an invoice of the same total and recipient: recovery and
\* the adoption after a duplicate never staple one invoice's CAE on another.
RecordedAsAuthorized ==
  \A i \in Issuers : \A n \in 1..(MaxNumber + 1) :
    vouchers[i][n] # None =>
      /\ n <= Len(arca[CuitOf[i]])
      /\ LooksOf[vouchers[i][n]] = LooksOf[arca[CuitOf[i]][n]]

\* Why: with one issuer per series and no late request, whoever asks for a
\* CAE has the next number, and whoever records one has its own document's.
AuthorizedAlike(d, n) ==
  n \in 1..Len(Authorized(d)) /\ LooksOf[d] = LooksOf[Authorized(d)[n]]
SeriesInv ==
  /\ late = {}
  /\ \A p \in Procs : pc[p] \in {"solicit", "freshSolicit", "duplicate"} =>
       number[p] = NextNumber(Work(p))
  /\ \A p \in Procs : pc[p] \in {"confirm", "record"} => AuthorizedAlike(Work(p), number[p])
  /\ RecordedAsAuthorized

\* p knows authorisation n of its document: it is about to record it, or about
\* to write down in the queue that it tried that number.
InHand(p, n) ==
  /\ number[p] = n
  /\ pc[p] \in {"confirm", "record", "enqueue", "bump"}

\* An authorisation ARCA gave is never orphaned: it is recorded, or somebody
\* still knows to ask for it (the process that got it, the queued row with the
\* attempted number), or a user discarded the row that knew.
NoCaeOrphaned ==
  \A c \in Cuits : \A n \in 1..Len(arca[c]) :
    LET d == arca[c][n] IN
    \/ vouchers[IssuerOf[d]][n] = d
    \/ row[d].status # "NONE" /\ row[d].attempted = n
    \/ \E p \in Procs : Work(p) = d /\ InHand(p, n)
    \/ d \in abandoned

\* An Idempotency-Key spends at most one CAE, however often and however
\* concurrently it is posted and whatever the queue retries.
OneCaePerKey ==
  \A d \in Keyed :
    Cardinality({n \in 1..Len(Authorized(d)) : Authorized(d)[n] = d}) <= 1

\* Why both hold as long as a series has one issuer, nothing fails but ARCA's
\* answers and the network (Tolerated), and nobody posts a key again whose row
\* FAILED (NotAfterFailure): who asks ARCA works on a document ARCA knows
\* nothing of, and whoever carries an authorisation carries the only one its
\* document has.
Tolerated == {"network", "reply", "date", "rejection"}

\* A key looked up under the lock has not FAILED, and no user discarded its row.
NotAfterFailure ==
  \A r \in Requests : DocOf[r] \in Keyed /\ pc[r] = "replay" =>
    row[DocOf[r]].status # "FAILED" /\ DocOf[r] \notin abandoned

Granted(d, n) == n \in 1..Len(Authorized(d)) /\ Authorized(d)[n] = d
Ungranted(d) == \A n \in 1..MaxNumber : ~Granted(d, n)
OnlyGrant(d, n) == \A m \in 1..MaxNumber : Granted(d, m) => m = n

AskingLabels == {"last", "solicit", "duplicate", "freshLast", "freshSolicit"}
EntryLabels == {"idle", "waiting", "replay"}
NothingStored(d) == row[d].status = "NONE" /\ idem[d] = 0 /\ d \notin abandoned

\* p has its document to itself: the scheduler's row, the document of the one
\* request posted for it, the key that was looked up under the lock.
Looked == Inside \ {"replay"}
Owns(p) == IF p = Scheduler THEN job # None
           ELSE pc[p] # "done" /\ (DocOf[p] \in Keyed => pc[p] \in Looked)

CarriesOnce(p) ==
  LET d == Work(p) IN
  /\ p \in Requests /\ Owns(p) => NothingStored(d)
  /\ p \in Requests /\ Owns(p) /\ pc[p] # "idempotency" =>
       \A n \in 1..(MaxNumber + 1) : vouchers[IssuerOf[d]][n] # d
  /\ \/ pc[p] \in AskingLabels
     \/ p \in Requests /\ Owns(p) /\ pc[p] \in EntryLabels
     => Ungranted(d)
  /\ pc[p] \in {"confirm", "record"} =>
       \/ Granted(d, number[p]) /\ vouchers[IssuerOf[d]][number[p]] = None
       \/ p = Scheduler /\ row[d].attempted = number[p]
  /\ p = Scheduler /\ pc[p] = "bump" => OnlyGrant(d, row[d].attempted)
  /\ p = Scheduler /\ pc[p] \in {"confirm", "record", "idempotency", "complete"} =>
       OnlyGrant(d, number[p])

StoredOnce ==
  /\ \A c \in Cuits : \A n \in 1..Len(arca[c]) : CuitFor(arca[c][n]) = c
  /\ \A d \in Docs : \A m, n \in 1..MaxNumber : Granted(d, m) /\ Granted(d, n) => m = n
  /\ \A d \in abandoned : row[d].status = "NONE"
  \* A document is in the queue and recorded only while it is being dequeued.
  /\ \A d \in Docs : row[d].status # "NONE" =>
       /\ (\E n \in 1..(MaxNumber + 1) : vouchers[IssuerOf[d]][n] = d) =>
            job = d /\ pc[Scheduler] \in {"idempotency", "complete"}
       /\ idem[d] # 0 => job = d /\ pc[Scheduler] = "complete"

\* A key's voucher has its idempotency record, or is about to.
RecordedHasKey ==
  \A d \in Keyed : \A n \in 1..(MaxNumber + 1) : vouchers[IssuerOf[d]][n] = d =>
    idem[d] # 0 \/ \E p \in Procs : Work(p) = d /\ pc[p] = "idempotency"

OnceInv ==
  StoredOnce /\ RecordedHasKey /\ NoCaeOrphaned /\ \A p \in Procs : CarriesOnce(p)

\* Whoever was answered 201 has a Voucher row, and a replayed key leads to the
\* voucher of that same key: what findReplayedVoucher reads back is its own.
IssuedIsRecorded ==
  /\ \A r \in Requests : answer[r] = "issued" =>
       \E n \in 1..(MaxNumber + 1) : vouchers[IssuerOf[DocOf[r]]][n] = DocOf[r]
  /\ \A d \in Docs : idem[d] # 0 => vouchers[IssuerOf[d]][idem[d]] = d

\* Between the two creates of IssuedVoucherRecorder.record, and until the row is
\* deleted, the process has its own document's voucher behind it.
RecordInv ==
  /\ \A p \in Procs : pc[p] \in {"idempotency", "complete"} =>
       vouchers[IssuerOf[Work(p)]][number[p]] = Work(p)
  /\ IssuedIsRecorded

\* The scheduler works from a snapshot read before it waited for the lock: the
\* rows it holds are still PENDING when it gets to them, so complete, bump and
\* fail always find the row they were computed from.
SnapshotStaysPending ==
  \A d \in batch \cup ({job} \ {None}) : row[d].status = "PENDING"

\* A queued invoice leaves the table only as a recorded voucher, unless it
\* had FAILED and its user discarded it.
DequeuedIsRecorded ==
  \A d \in Docs : row[d].status = "PENDING" /\ row'[d].status = "NONE" =>
    \E n \in 1..(MaxNumber + 1) : vouchers[IssuerOf[d]][n] = d
QueuedNeverDropped == [][DequeuedIsRecorded]_vars

\* The control invariant the others rest on.  Whoever is past runExclusive
\* holds its issuer's lock; the scheduler has a row in hand exactly while it
\* waits for or holds the lock, and that row is out of its snapshot.
LockHeld == \A p \in Procs : pc[p] \in Inside => holder[IssuerOf[Work(p)]] = p
SchedulerHasRow ==
  /\ job # None <=> pc[Scheduler] \in Inside \cup {"waiting"}
  /\ job \notin batch
NumberChosen == \A p \in Procs : pc[p] \in Numbered => number[p] # 0
ControlInv == ControlTypeOK /\ LockHeld /\ SchedulerHasRow /\ NumberChosen

\* A PENDING row has retries left, so bump never counts past the policy.
RetriesLeft == \A d \in Docs : row[d].status = "PENDING" => row[d].retries < MaxRetries

\* The lock, the scheduler's snapshot and the retry counter agree at every
\* step of every interleaving.
EmissionInv == ControlInv /\ DataTypeOK /\ RetriesLeft /\ SnapshotStaysPending

\* What the author of a document can know of it: its voucher, once there, says
\* more than a row that outlived it.
HasVoucher(d) == \E n \in 1..(MaxNumber + 1) : vouchers[IssuerOf[d]][n] = d
RowFate == [NONE |-> "unissued", PENDING |-> "queued", FAILED |-> "failed"]
Fate(d) == IF HasVoucher(d) THEN "issued" ELSE RowFate[row[d].status]

Promised == INSTANCE Issuing
  WITH Requests <- Requests, Docs <- Docs, DocOf <- DocOf,
       fate <- [d \in Docs |-> Fate(d)], answer <- answer

\* Seen by its authors, the emission path under every fault is Issuing: no
\* crash, lost reply or database failure, between the request, the queue and
\* the scheduler, takes an issued document back, loses a queued one or gives
\* a request an answer that was not true of its document.
ImplementsIssuing == Promised!Spec

\* Every admitted request gets an answer.
RequestsAnswered ==
  \A r \in Requests : pc[r] = "waiting" ~> pc[r] = "done"

\* Whatever waits in the queue is retried by itself: a row whose retry is due
\* is eventually the one the scheduler works on.
DueRowsTried ==
  \A d \in Docs : row[d].status = "PENDING" /\ row[d].due ~>
                    job = d \/ row[d].status # "PENDING"

\* Every queued invoice is settled: issued, or FAILED and left to its user.
QueueSettles ==
  \A d \in Docs : row[d].status = "PENDING" ~> row[d].status # "PENDING"
=============================================================================
