--------------------------- MODULE VoucherEmission ---------------------------
(***************************************************************************)
(* Issuing an electronic invoice through ARCA: the HTTP request that emits *)
(* it, the queue of invoices ARCA could not answer for, the scheduler that *)
(* retries that queue, and what a user may do to a queued invoice          *)
(* (services/api/src/vouchers).  Every await of the code is a point where  *)
(* the other processes may move.                                           *)
(*                                                                         *)
(* A document (Docs) is the invoice its author wants once; a keyed one     *)
(* travels with an Idempotency-Key, so the key is the document, and        *)
(* several requests may carry it.  Each CUIT has one numbering series.     *)
(* ARCA is external: `arca' holds what it authorised, in number order, and *)
(* the CAE of an authorisation is its position.  Amounts, dates and texts  *)
(* are reduced to LooksOf, the (total, recipient) pair the code compares.  *)
(*                                                                         *)
(* A definition named Mutant_x is not part of the model: it is a plausible *)
(* slip in the definition after it, used to show a property notices it.    *)
(***************************************************************************)
EXTENDS Naturals, Sequences, FiniteSets

CONSTANTS
  Requests,   \* HTTP emissions, one POST each
  Docs,       \* invoices
  Issuers,    \* rows of the Issuer table: the lock's key
  Cuits,      \* taxpayers: ARCA's numbering
  Looks,      \* what matchesPendingVoucher can tell apart
  DocOf, IssuerOf, CuitOf, LooksOf,
  Keyed,      \* the documents sent with an Idempotency-Key
  Scheduler,  \* the one VoucherRetryScheduler
  None,
  MaxRetries, \* policy.maxRetries (8 in the code)
  BatchSize,  \* RETRY_BATCH_SIZE (25 in the code)
  MaxNumber,  \* bound: ARCA stops answering once it authorised this many
  Faults,     \* the kinds of fault the environment may inject
  MaxFaults   \* bound: how many of them

FaultKinds == {"network", "reply", "retryReply", "late", "date", "rejection",
               "query", "onboardingDb", "recordDb", "idempotencyDb", "queueDb", "crash"}

ASSUME ConstantsOK ==
  /\ DocOf \in [Requests -> Docs]
  /\ IssuerOf \in [Docs -> Issuers]
  /\ CuitOf \in [Issuers -> Cuits]
  /\ LooksOf \in [Docs -> Looks]
  /\ Keyed \subseteq Docs
  /\ \A r, s \in Requests : DocOf[r] = DocOf[s] => r = s \/ DocOf[r] \in Keyed
  /\ Scheduler \notin Requests
  /\ None \notin Requests \cup {Scheduler} \cup Docs
  /\ MaxRetries \in Nat \ {0} /\ BatchSize \in Nat \ {0}
  /\ MaxNumber \in Nat \ {0} /\ MaxFaults \in Nat
  /\ Faults \subseteq FaultKinds

Procs == Requests \cup {Scheduler}

VARIABLES
  pc,        \* where each process is
  number,    \* its candidate number; 0 is the code's attemptedNumber = null
  job,       \* the queued document the scheduler is on
  batch,     \* what is left of its findDue snapshot
  holder,    \* the process inside runExclusive, per issuer
  answer,    \* what each request was told
  arca,      \* per CUIT, the documents ARCA authorised, in number order
  late,      \* requests abandoned by the API that ARCA has yet to process
  vouchers,  \* Voucher rows: @@unique([salesPointId, voucherType, number])
  idem,      \* IdempotencyRecord rows: the number recorded for the key, or 0
  row,       \* PendingVoucher rows
  abandoned, \* history: documents whose queued row a user discarded
  faults     \* history: faults injected so far

control == <<pc, number, job, batch, holder, answer>>
tables == <<vouchers, idem, row>>
vars == <<control, arca, late, tables, abandoned, faults>>

Statuses == {"NONE", "PENDING", "FAILED"}
Rows == [status : Statuses, attempted : 0..(MaxNumber + 1),
         retries : 0..MaxRetries, due : BOOLEAN]
NoRow == [status |-> "NONE", attempted |-> 0, retries |-> 0, due |-> FALSE]

\* Between these labels a process holds its issuer's lock.
\* Those of Numbered come after it chose a number.
Numbered == {"solicit", "duplicate", "freshLast", "freshSolicit", "confirm",
             "record", "idempotency", "complete"}
Inside == Numbered \cup {"replay", "recover", "last", "enqueue", "bump", "fail"}
Labels == Inside \cup {"idle", "waiting", "next", "done"}
Answers == {"none", "issued", "queued", "rejected", "error"}

ControlTypeOK ==
  /\ pc \in [Procs -> Labels]
  /\ number \in [Procs -> 0..(MaxNumber + 1)]
  /\ job \in Docs \cup {None}
  /\ batch \in SUBSET Docs
  /\ holder \in [Issuers -> Procs \cup {None}]
  /\ answer \in [Requests -> Answers]

DataTypeOK ==
  /\ arca \in [Cuits -> Seq(Docs)]
  /\ \A c \in Cuits : Len(arca[c]) <= MaxNumber
  /\ late \in SUBSET [doc : Docs, number : 1..(MaxNumber + 1)]
  /\ vouchers \in [Issuers -> [1..(MaxNumber + 1) -> Docs \cup {None}]]
  /\ idem \in [Docs -> 0..(MaxNumber + 1)]
  /\ row \in [Docs -> Rows]
  /\ abandoned \in SUBSET Docs
  /\ faults \in 0..MaxFaults

TypeOK == ControlTypeOK /\ DataTypeOK

Init ==
  /\ pc = [p \in Procs |-> "idle"]
  /\ number = [p \in Procs |-> 0]
  /\ job = None
  /\ batch = {}
  /\ holder = [i \in Issuers |-> None]
  /\ answer = [r \in Requests |-> "none"]
  /\ arca = [c \in Cuits |-> <<>>]
  /\ late = {}
  /\ vouchers = [i \in Issuers |-> [n \in 1..(MaxNumber + 1) |-> None]]
  /\ idem = [d \in Docs |-> 0]
  /\ row = [d \in Docs |-> NoRow]
  /\ abandoned = {}
  /\ faults = 0

-----------------------------------------------------------------------------
(* Helpers *)

\* The document p works on.
Work(p) == IF p = Scheduler THEN job ELSE DocOf[p]
CuitFor(d) == CuitOf[IssuerOf[d]]
Authorized(d) == arca[CuitFor(d)]
NextNumber(d) == Len(Authorized(d)) + 1

Fault(kind) == kind \in Faults /\ faults < MaxFaults /\ faults' = faults + 1
NoFault == UNCHANGED faults

\* runExclusive's finally: whatever p held is free again.
Mutant_NoFinally(p) == holder
Released(p) == [i \in Issuers |-> IF holder[i] = p THEN None ELSE holder[i]]

Goto(p, label, n) ==
  /\ pc' = [pc EXCEPT ![p] = label]
  /\ number' = [number EXCEPT ![p] = n]
  /\ UNCHANGED <<job, batch, holder, answer>>

\* Request r leaves with answer a.
Respond(r, a) ==
  /\ pc' = [pc EXCEPT ![r] = "done"]
  /\ number' = [number EXCEPT ![r] = 0]
  /\ answer' = [answer EXCEPT ![r] = a]
  /\ holder' = Released(r)
  /\ UNCHANGED <<job, batch>>

\* processPending returned: the loop goes on to the next row of the snapshot.
NextPending ==
  /\ pc' = [pc EXCEPT ![Scheduler] = "next"]
  /\ number' = [number EXCEPT ![Scheduler] = 0]
  /\ job' = None
  /\ holder' = Released(Scheduler)
  /\ UNCHANGED <<batch, answer>>

\* An exception nobody in the service catches: the request answers 500, the
\* scheduler gives up the rest of its snapshot and waits for the next tick.
Throw(p) ==
  IF p = Scheduler
  THEN /\ pc' = [pc EXCEPT ![p] = "idle"]
       /\ number' = [number EXCEPT ![p] = 0]
       /\ job' = None /\ batch' = {}
       /\ holder' = Released(p)
       /\ UNCHANGED answer
  ELSE Respond(p, "error")

\* ArcaRejectionError: final for the request, permanent for a queued row.
Reject(p) == IF p = Scheduler THEN Goto(p, "fail", 0) ELSE Respond(p, "rejected")

\* Any other error: a request is queued, a queued row is put off.
Defer(p, n) == Goto(p, IF p = Scheduler THEN "bump" ELSE "enqueue", n)

-----------------------------------------------------------------------------
(* The request up to the lock *)

\* replayOrQueued, three reads no one's write can split harmfully: the copy
\* that decides runs under the lock.
Mutant_NoReplay(d) == "miss"
Replay(d) ==
  CASE d \in Keyed /\ idem[d] # 0 -> "issued"
    [] d \in Keyed /\ idem[d] = 0 /\ row[d].status = "PENDING" -> "queued"
    [] OTHER -> "miss"

Post(r) ==
  /\ pc[r] = "idle"
  /\ IF Replay(DocOf[r]) = "miss" THEN Goto(r, "waiting", 0)
                                 ELSE Respond(r, Replay(DocOf[r]))
  /\ UNCHANGED <<arca, late, tables, abandoned, faults>>

Mutant_NoLock(i) == TRUE
LockFree(i) == holder[i] = None

\* runExclusive admits p.  Who is admitted first is left open here.
Acquire(p) ==
  LET i == IssuerOf[Work(p)] IN
  /\ pc[p] = "waiting"
  /\ LockFree(i)
  /\ holder' = [holder EXCEPT ![i] = p]
  /\ pc' = [pc EXCEPT ![p] = IF p = Scheduler THEN "recover" ELSE "replay"]
  /\ UNCHANGED <<number, job, batch, answer, arca, late, tables, abandoned, faults>>

ReplayInside(r) ==
  /\ pc[r] = "replay"
  /\ IF Replay(DocOf[r]) = "miss" THEN Goto(r, "last", 0)
                                 ELSE Respond(r, Replay(DocOf[r]))
  /\ UNCHANGED <<arca, late, tables, abandoned, faults>>

-----------------------------------------------------------------------------
(* Asking ARCA *)

Mutant_NoMatch(d, authorized) == TRUE
MatchesPendingVoucher(d, authorized) == LooksOf[d] = LooksOf[authorized]

\* A queued row that got as far as a number: adopt ARCA's authorisation of
\* that number when it looks like this document, otherwise ask for a new one.
\* FECompConsultar's errors are not read: an error counts as "no such voucher".
RecoverAlreadyAuthorized ==
  LET attempted == row[job].attempted
      found == /\ attempted \in 1..Len(Authorized(job))
               /\ MatchesPendingVoucher(job, Authorized(job)[attempted])
  IN /\ pc[Scheduler] = "recover"
     /\ \/ /\ found
           /\ Goto(Scheduler, "record", attempted) /\ NoFault
        \/ ~found /\ Goto(Scheduler, "last", 0) /\ NoFault
        \/ attempted # 0 /\ Fault("network") /\ Defer(Scheduler, 0)
        \/ attempted # 0 /\ Fault("query") /\ Goto(Scheduler, "last", 0)
     /\ UNCHANGED <<arca, late, tables, abandoned>>

\* FECompUltimoAutorizado, first for the number and again after a duplicate.
GetLastAuthorized(p) ==
  /\ pc[p] \in {"last", "freshLast"}
  /\ \/ /\ Goto(p, IF pc[p] = "last" THEN "solicit" ELSE "freshSolicit",
                NextNumber(Work(p)))
        /\ NoFault
     \/ Fault("network") /\ Defer(p, number[p])
     \/ Fault("rejection") /\ Reject(p)
  /\ UNCHANGED <<arca, late, tables, abandoned>>

Grantable(d, n) == n = NextNumber(d) /\ n <= MaxNumber
Grant(d) == arca' = [arca EXCEPT ![CuitFor(d)] = Append(@, d)]

\* FECAESolicitar: ARCA authorises and the reply arrives.
CaeGranted(p) ==
  /\ pc[p] \in {"solicit", "freshSolicit"}
  /\ Grantable(Work(p), number[p])
  /\ Grant(Work(p))
  /\ Goto(p, "confirm", number[p])
  /\ UNCHANGED <<late, tables, abandoned, faults>>

\* ARCA authorises and the reply is lost.
CaeReplyLost(p) ==
  /\ pc[p] \in {"solicit", "freshSolicit"}
  /\ Grantable(Work(p), number[p])
  /\ Fault(IF p = Scheduler THEN "retryReply" ELSE "reply")
  /\ Grant(Work(p))
  /\ Defer(p, number[p])
  /\ UNCHANGED <<late, tables, abandoned>>

\* The request never reaches ARCA, or ARCA is down.
CaeRequestLost(p) ==
  /\ pc[p] \in {"solicit", "freshSolicit"}
  /\ \/ Fault("network")
     \/ NextNumber(Work(p)) > MaxNumber /\ NoFault
  /\ Defer(p, number[p])
  /\ UNCHANGED <<arca, late, tables, abandoned>>

\* The API's connection breaks while the request is still on its way.
CaeRequestLate(p) ==
  /\ pc[p] \in {"solicit", "freshSolicit"}
  /\ Fault("late")
  /\ late' = late \cup {[doc |-> Work(p), number |-> number[p]]}
  /\ Defer(p, number[p])
  /\ UNCHANGED <<arca, tables, abandoned>>

\* Rejection 10016: the number, or the date, is not the next to authorise.
\* Looked into once; the second one is an ordinary rejection.
DuplicateNumber(p) ==
  /\ pc[p] \in {"solicit", "freshSolicit"}
  /\ \/ number[p] # NextNumber(Work(p)) /\ NoFault
     \/ Fault("date")
  /\ IF pc[p] = "solicit" THEN Goto(p, "duplicate", number[p]) ELSE Reject(p)
  /\ UNCHANGED <<arca, late, tables, abandoned>>

CaeRejected(p) ==
  /\ pc[p] \in {"solicit", "freshSolicit"}
  /\ Fault("rejection")
  /\ Reject(p)
  /\ UNCHANGED <<arca, late, tables, abandoned>>

\* IssuerOnboardingService.diagnose reads and writes the issuer's status when
\* ARCA denies the delegation; if that fails, its error replaces the rejection.
DiagnosisFails(p) ==
  /\ pc[p] \in {"last", "solicit", "freshLast", "freshSolicit"}
  /\ Fault("onboardingDb")
  /\ Defer(p, 0)
  /\ UNCHANGED <<arca, late, tables, abandoned>>

\* After a duplicate: take the CAE ARCA holds under that number, whoever's it
\* is, or fall back to a fresh number.
QueryDuplicate(p) ==
  /\ pc[p] = "duplicate"
  /\ \/ /\ number[p] <= Len(Authorized(Work(p)))
        /\ Goto(p, "confirm", number[p]) /\ NoFault
     \/ /\ number[p] > Len(Authorized(Work(p)))
        /\ Goto(p, "freshLast", number[p]) /\ NoFault
     \/ Fault("network") /\ Defer(p, number[p])
     \/ Fault("query") /\ Goto(p, "freshLast", number[p])
  /\ UNCHANGED <<arca, late, tables, abandoned>>

\* IssuerOnboardingService.confirm writes the issuer's status with the CAE
\* already granted; its failure is not a CaeAttemptError, so the number is lost.
ConfirmOnboarding(p) ==
  /\ pc[p] = "confirm"
  /\ \/ Goto(p, "record", number[p]) /\ NoFault
     \/ Fault("onboardingDb") /\ Defer(p, 0)
  /\ UNCHANGED <<arca, late, tables, abandoned>>

-----------------------------------------------------------------------------
(* Recording the authorisation *)

CreateVoucher(p) ==
  LET d == Work(p) IN
  /\ pc[p] = "record"
  /\ \/ /\ vouchers[IssuerOf[d]][number[p]] = None
        /\ vouchers' = [vouchers EXCEPT ![IssuerOf[d]][number[p]] = d]
        /\ Goto(p, "idempotency", number[p]) /\ NoFault
     \/ /\ vouchers[IssuerOf[d]][number[p]] # None  \* unique constraint
        /\ Throw(p) /\ NoFault /\ UNCHANGED vouchers
     \/ Fault("recordDb") /\ Throw(p) /\ UNCHANGED vouchers
  /\ UNCHANGED <<arca, late, idem, row, abandoned>>

\* The voucher an idempotency record points to.
Mutant_RowNumber(p) == row[Work(p)].attempted
RecordedNumber(p) == number[p]

\* The key's record, then the answer (or, for the scheduler, the dequeue).
CreateIdempotencyRecord(p) ==
  LET d == Work(p)
      Recorded == IF p = Scheduler THEN Goto(p, "complete", number[p])
                                   ELSE Respond(p, "issued")
  IN /\ pc[p] = "idempotency"
     /\ \/ d \notin Keyed /\ Recorded /\ NoFault /\ UNCHANGED idem
        \/ /\ d \in Keyed /\ idem[d] = 0
           /\ idem' = [idem EXCEPT ![d] = RecordedNumber(p)]
           /\ Recorded /\ NoFault
        \/ /\ d \in Keyed /\ idem[d] # 0  \* unique constraint
           /\ Throw(p) /\ NoFault /\ UNCHANGED idem
        \/ d \in Keyed /\ Fault("idempotencyDb") /\ Throw(p) /\ UNCHANGED idem
     /\ UNCHANGED <<arca, late, vouchers, row, abandoned>>

-----------------------------------------------------------------------------
(* The queue *)

Mutant_AttemptForgotten(r) == 0
AttemptedNumber(r) == number[r]

\* Any error of the create taken for the unique constraint.
Mutant_CatchAll(r) ==
  LET d == DocOf[r] IN
  /\ pc[r] = "enqueue"
  /\ \/ /\ row[d].status = "NONE"
        /\ row' = [row EXCEPT ![d] = [status |-> "PENDING", retries |-> 0,
                      attempted |-> AttemptedNumber(r), due |-> FALSE]]
        /\ NoFault
     \/ row[d].status # "NONE" /\ NoFault /\ UNCHANGED row
     \/ Fault("queueDb") /\ UNCHANGED row
  /\ Respond(r, "queued")
  /\ UNCHANGED <<arca, late, vouchers, idem, abandoned>>
\* The create, or on the key's unique constraint the row already there.
Enqueue(r) ==
  LET d == DocOf[r] IN
  /\ pc[r] = "enqueue"
  /\ \/ /\ row[d].status = "NONE"
        /\ row' = [row EXCEPT ![d] = [status |-> "PENDING", retries |-> 0,
                      attempted |-> AttemptedNumber(r), due |-> FALSE]]
        /\ Respond(r, "queued") /\ NoFault
     \/ /\ row[d].status # "NONE"
        /\ Respond(r, "queued") /\ NoFault /\ UNCHANGED row
     \/ Fault("queueDb") /\ Throw(r) /\ UNCHANGED row
  /\ UNCHANGED <<arca, late, vouchers, idem, abandoned>>

\* Exponential backoff: the row sleeps until its nextRetryAt.
BackoffElapsed(d) ==
  /\ row[d].status = "PENDING" /\ ~row[d].due
  /\ row' = [row EXCEPT ![d].due = TRUE]
  /\ UNCHANGED <<control, arca, late, vouchers, idem, abandoned, faults>>

Mutant_FirstRetryOnly == {d \in Docs : row[d].status = "PENDING" /\ row[d].due
                              /\ row[d].retries = 0}
Due == {d \in Docs : row[d].status = "PENDING" /\ row[d].due}

\* The interval fires and findDue takes its snapshot, in no order.
Tick ==
  /\ pc[Scheduler] = "idle"
  /\ Due # {}
  /\ batch' \in {taken \in SUBSET Due : Cardinality(taken) = BatchSize}
               \cup (IF Cardinality(Due) <= BatchSize THEN {Due} ELSE {})
  /\ pc' = [pc EXCEPT ![Scheduler] = "next"]
  /\ UNCHANGED <<number, job, holder, answer, arca, late, tables, abandoned, faults>>

NextRow ==
  /\ pc[Scheduler] = "next"
  /\ \/ \E d \in batch :
          /\ job' = d
          /\ batch' = batch \ {d}
          /\ pc' = [pc EXCEPT ![Scheduler] = "waiting"]
     \/ /\ batch = {}
        /\ pc' = [pc EXCEPT ![Scheduler] = "idle"]
        /\ UNCHANGED <<job, batch>>
  /\ UNCHANGED <<number, holder, answer, arca, late, tables, abandoned, faults>>

\* PendingVoucherQueue.bump and fail write the row the scheduler works on.
Mutant_OneTooMany(retries) == retries > MaxRetries
Exhausted(retries) == retries >= MaxRetries
Bump ==
  LET retries == row[job].retries + 1 IN
  /\ pc[Scheduler] = "bump"
  /\ \/ /\ row' = [row EXCEPT ![job].retries = retries,
                              ![job].due = Exhausted(retries) /\ @,
                              ![job].status = IF Exhausted(retries)
                                              THEN "FAILED" ELSE @]
        /\ NextPending /\ NoFault
     \/ Fault("queueDb") /\ Throw(Scheduler) /\ UNCHANGED row
  /\ UNCHANGED <<arca, late, vouchers, idem, abandoned>>

FailRow ==
  /\ pc[Scheduler] = "fail"
  /\ \/ /\ row' = [row EXCEPT ![job].status = "FAILED",
                              ![job].retries = @ + 1]
        /\ NextPending /\ NoFault
     \/ Fault("queueDb") /\ Throw(Scheduler) /\ UNCHANGED row
  /\ UNCHANGED <<arca, late, vouchers, idem, abandoned>>

Complete ==
  /\ pc[Scheduler] = "complete"
  /\ \/ /\ row' = [row EXCEPT ![job] = NoRow]
        /\ NextPending /\ NoFault
     \/ Fault("queueDb") /\ Throw(Scheduler) /\ UNCHANGED row
  /\ UNCHANGED <<arca, late, vouchers, idem, abandoned>>

\* updateMany and deleteMany are conditional on the row having FAILED.
Mutant_AnyStatus(d) == row[d].status # "NONE"
Failed(d) == row[d].status = "FAILED"

UserRetry(d) ==
  /\ Failed(d)
  /\ row' = [row EXCEPT ![d].status = "PENDING", ![d].retries = 0, ![d].due = TRUE]
  /\ UNCHANGED <<control, arca, late, vouchers, idem, abandoned, faults>>

UserDiscard(d) ==
  /\ Failed(d)
  /\ row' = [row EXCEPT ![d] = NoRow]
  /\ abandoned' = abandoned \cup {d}
  /\ UNCHANGED <<control, arca, late, vouchers, idem, faults>>

-----------------------------------------------------------------------------
(* The environment *)

\* ARCA gets to a request the API gave up on.
LateArrival(m) ==
  /\ m \in late
  /\ late' = late \ {m}
  /\ IF Grantable(m.doc, m.number) THEN Grant(m.doc) ELSE UNCHANGED arca
  /\ UNCHANGED <<control, tables, abandoned, faults>>

\* The process dies and restarts: memory is lost, ARCA and the tables stay.
Crash ==
  /\ Fault("crash")
  /\ pc' = [p \in Procs |-> IF p = Scheduler THEN "idle"
                            ELSE IF pc[p] = "idle" THEN "idle" ELSE "done"]
  /\ holder' = [i \in Issuers |-> None]
  /\ number' = [p \in Procs |-> 0]
  /\ job' = None /\ batch' = {}
  /\ UNCHANGED <<answer, arca, late, tables, abandoned>>

\* Nothing left to do but what users may decide.
Quiescent ==
  /\ \A r \in Requests : pc[r] = "done"
  /\ pc[Scheduler] = "idle" /\ late = {}
  /\ \A d \in Docs : row[d].status # "PENDING"
  /\ UNCHANGED vars

-----------------------------------------------------------------------------

\* What a process does once it has the CPU, the lock aside.
Step(p) ==
  \/ GetLastAuthorized(p) \/ CaeGranted(p) \/ CaeReplyLost(p)
  \/ CaeRequestLost(p) \/ CaeRequestLate(p) \/ DuplicateNumber(p)
  \/ CaeRejected(p) \/ DiagnosisFails(p) \/ QueryDuplicate(p)
  \/ ConfirmOnboarding(p)
  \/ CreateVoucher(p) \/ CreateIdempotencyRecord(p)

RequestStep(r) == ReplayInside(r) \/ Enqueue(r) \/ Step(r)
SchedulerStep ==
  \/ Tick \/ NextRow \/ RecoverAlreadyAuthorized
  \/ Bump \/ FailRow \/ Complete \/ Step(Scheduler)

Next ==
  \/ \E r \in Requests : Post(r) \/ RequestStep(r)
  \/ \E p \in Procs : Acquire(p)
  \/ SchedulerStep
  \/ \E d \in Docs : BackoffElapsed(d) \/ UserRetry(d) \/ UserDiscard(d)
  \/ \E m \in late : LateArrival(m)
  \/ Crash
  \/ Quiescent

Spec == Init /\ [][Next]_vars

\* The event loop runs every ready continuation, each call to ARCA and to
\* PostgreSQL ends one way or the other, the interval keeps firing, and the
\* lock serves its waiters in arrival order, so none waits forever.  Nobody
\* has to post, retry or discard, and ARCA need not process a late request.
Fairness ==
  /\ \A r \in Requests : WF_vars(RequestStep(r))
  /\ WF_vars(SchedulerStep)
  /\ \A p \in Procs : SF_vars(Acquire(p))
  /\ \A d \in Docs : WF_vars(BackoffElapsed(d))

FairSpec == Spec /\ Fairness
=============================================================================
