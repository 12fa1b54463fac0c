----------------------------- MODULE CaeOnce_proofs -----------------------------
(***************************************************************************)
(* No CAE is lost and no document costs two, for any number of documents,  *)
(* requests, issuers and retries: under what conditions, and why.          *)
(***************************************************************************)
EXTENDS VoucherEmission_proofs, FiniteSetTheorems

USE ConstantsOK DEF ConstantsOK, Procs

Conditions == SeriesHasOneIssuer /\ Faults \subseteq Tolerated

PriorInv == EmissionInv /\ RecordInv /\ SeriesInv

Stored == <<vouchers, idem, row, abandoned>>

-----------------------------------------------------------------------------
(* No two processes own the same document. *)

LEMMA GrantedFits ==
  ASSUME DataTypeOK, NEW d \in Docs, NEW n, Granted(d, n)
  PROVE  n \in 1..MaxNumber
<1>1. CuitFor(d) \in Cuits
  BY DEF CuitFor
<1> QED
  BY <1>1 DEF DataTypeOK, Granted, Authorized

LEMMA OnlyTolerated ==
  ASSUME Conditions, NEW kind, Fault(kind)
  PROVE  kind \in Tolerated
BY DEF Conditions, Fault

LEMMA InsideOwns ==
  ASSUME EmissionInv, NEW p \in Procs, pc[p] \in Looked
  PROVE  Owns(p) /\ Work(p) \in Docs
BY WorkIsDoc DEF Owns, EmissionInv, ControlInv, SchedulerHasRow, Looked, Inside, Numbered

LEMMA OwnerHasDoc ==
  ASSUME EmissionInv, NEW p \in Procs, Owns(p)
  PROVE  Work(p) \in Docs
BY DEF Owns, Work, EmissionInv, ControlInv, ControlTypeOK

LEMMA OwnDocuments ==
  ASSUME EmissionInv, OnceInv, NEW p \in Procs, NEW q \in Procs, p # q, Owns(p), Owns(q)
  PROVE  Work(p) # Work(q)
<1>1. ASSUME NEW r \in Requests, Owns(r), job # None
      PROVE  DocOf[r] # job
  <2>1. row[DocOf[r]].status = "NONE"
    BY <1>1 DEF OnceInv, CarriesOnce, NothingStored, Work
  <2>2. row[job].status = "PENDING"
    BY <1>1 DEF EmissionInv, SnapshotStaysPending
  <2> QED
    BY <2>1, <2>2
<1>2. ASSUME NEW r \in Requests, NEW s \in Requests, r # s, Owns(r), Owns(s), DocOf[r] = DocOf[s]
      PROVE  FALSE
  <2>1. DocOf[r] \in Keyed
    BY <1>2
  <2>2. pc[r] \in Inside /\ pc[s] \in Inside
    BY <1>2, <2>1 DEF Owns, Looked
  <2>3. holder[IssuerOf[DocOf[r]]] = r /\ holder[IssuerOf[DocOf[r]]] = s
    BY <1>2, <2>2 DEF EmissionInv, ControlInv, LockHeld, Work
  <2> QED
    BY <1>2, <2>3
<1> QED
  BY <1>1, <1>2 DEF Owns, Work

\* A process with no document to itself has nothing to carry.
LEMMA StaysEmptyHanded ==
  ASSUME EmissionInv, NEW p \in Procs, OthersStay(p), NEW q \in Procs, q # p, ~Owns(q)
  PROVE  CarriesOnce(q)'
<1>1. pc'[q] = pc[q] /\ Work(q)' = Work(q) /\ pc[q] \notin Looked
  BY InsideOwns DEF OthersStay
<1>2. ~Owns(q)'
  BY <1>1 DEF Owns, Work
<1> QED
  BY <1>1, <1>2 DEF CarriesOnce, Looked, Inside, Numbered, AskingLabels

\* What p does leaves the records of the keys that are not its own as they were.
LEMMA KeysKept ==
  ASSUME RecordedHasKey, UNCHANGED <<vouchers, idem>>, NEW p \in Procs, OthersStay(p),
         pc[p] = "idempotency" => pc'[p] = pc[p] /\ Work(p)' = Work(p)
  PROVE  RecordedHasKey'
<1> SUFFICES ASSUME NEW d \in Keyed, NEW n \in 1..(MaxNumber + 1), vouchers[IssuerOf[d]][n] = d,
                    idem[d] = 0
             PROVE  \E q \in Procs : Work(q)' = d /\ pc'[q] = "idempotency"
  BY DEF RecordedHasKey
<1>1. PICK q \in Procs : Work(q) = d /\ pc[q] = "idempotency"
  BY DEF RecordedHasKey
<1>2. Work(q)' = d /\ pc'[q] = "idempotency"
  BY <1>1 DEF OthersStay
<1> QED
  BY <1>2

\* The scheduler's row tells of whatever ARCA granted its document.
LEMMA RowKnowsGrant ==
  ASSUME EmissionInv, OnceInv, pc[Scheduler] = "recover"
  PROVE  OnlyGrant(job, row[job].attempted)
<1> SUFFICES ASSUME NEW n \in 1..MaxNumber, Granted(job, n)
             PROVE  n = row[job].attempted
  BY DEF OnlyGrant
<1>1. /\ job \in Docs /\ row[job].status = "PENDING" /\ CuitFor(job) \in Cuits
  BY RowInHand DEF Inside, Numbered, CuitFor
<1>2. n \in 1..Len(arca[CuitFor(job)]) /\ arca[CuitFor(job)][n] = job
  BY DEF Granted, Authorized
<1>3. \/ vouchers[IssuerOf[job]][n] = job
      \/ row[job].status # "NONE" /\ row[job].attempted = n
      \/ \E p \in Procs : Work(p) = job /\ InHand(p, n)
      \/ job \in abandoned
  BY <1>1, <1>2 DEF OnceInv, NoCaeOrphaned
<1>4. vouchers[IssuerOf[job]][n] # job
  BY <1>1, pc[Scheduler] = "recover" DEF OnceInv, StoredOnce
<1>5. ~ \E p \in Procs : Work(p) = job /\ InHand(p, n)
  <2> SUFFICES ASSUME NEW p \in Procs, Work(p) = job, InHand(p, n)
               PROVE  FALSE
    OBVIOUS
  <2>1. p # Scheduler /\ Owns(p)
    BY InsideOwns DEF InHand, Looked, Inside, Numbered
  <2>2. Owns(Scheduler) /\ Work(Scheduler) = job
    BY InsideOwns DEF Looked, Inside, Work
  <2> QED
    BY <2>1, <2>2, OwnDocuments
<1>6. job \notin abandoned
  BY <1>1 DEF OnceInv, StoredOnce
<1> QED
  BY <1>3, <1>4, <1>5, <1>6

-----------------------------------------------------------------------------
(* Steps that change neither ARCA's register nor a table. *)

Handed(p, n) ==
  \/ InHand(p, n)' /\ Work(p)' = Work(p)
  \/ row[Work(p)].status # "NONE" /\ row[Work(p)].attempted = n

LEMMA OnceUntouched ==
  ASSUME OnceInv, NEW p \in Procs, OthersStay(p), UNCHANGED arca, UNCHANGED Stored,
         CarriesOnce(p)',
         \A n : InHand(p, n) /\ Granted(Work(p), n) => Handed(p, n),
         pc[p] \notin {"idempotency", "complete"}
  PROVE  OnceInv'
<1> USE DEF Stored
<1>1. \A q \in Procs : CarriesOnce(q)'
  <2> SUFFICES ASSUME NEW q \in Procs, q # p PROVE CarriesOnce(q)'
    OBVIOUS
  <2>1. CarriesOnce(q) /\ pc'[q] = pc[q] /\ number'[q] = number[q] /\ Work(q)' = Work(q)
    BY DEF OnceInv, OthersStay
  <2>2. Owns(q)' <=> Owns(q)
    BY <2>1 DEF Owns, Work
  <2> QED
    BY <2>1, <2>2 DEF CarriesOnce, NothingStored, Ungranted, OnlyGrant, Granted, Authorized
<1>2. StoredOnce'
  <2>1. \/ job' = job /\ pc'[Scheduler] = pc[Scheduler]
        \/ p = Scheduler
    BY DEF OthersStay, Work
  <2>2. pc[Scheduler] \in {"idempotency", "complete"} =>
          /\ job' = job /\ pc'[Scheduler] \in {"idempotency", "complete"}
          /\ pc[Scheduler] = "complete" => pc'[Scheduler] = "complete"
    BY <2>1
  <2>3. \A d \in Docs : row[d].status # "NONE" =>
          /\ (\E n \in 1..(MaxNumber + 1) : vouchers[IssuerOf[d]][n] = d) =>
               job = d /\ pc[Scheduler] \in {"idempotency", "complete"}
          /\ idem[d] # 0 => job = d /\ pc[Scheduler] = "complete"
    BY DEF OnceInv, StoredOnce
  <2> QED
    BY <2>2, <2>3 DEF OnceInv, StoredOnce, Granted, Authorized
<1>3. NoCaeOrphaned'
  <2> SUFFICES ASSUME NEW c \in Cuits, NEW n \in 1..Len(arca[c])
               PROVE  \/ vouchers[IssuerOf[arca[c][n]]][n] = arca[c][n]
                      \/ row[arca[c][n]].status # "NONE" /\ row[arca[c][n]].attempted = n
                      \/ \E q \in Procs : Work(q)' = arca[c][n] /\ InHand(q, n)'
                      \/ arca[c][n] \in abandoned
    BY DEF NoCaeOrphaned
  <2> DEFINE d == arca[c][n]
  <2>1. ASSUME NEW q \in Procs, Work(q) = d, InHand(q, n)
        PROVE  \/ row[d].status # "NONE" /\ row[d].attempted = n
               \/ \E s \in Procs : Work(s)' = d /\ InHand(s, n)'
    <3>1. CASE q # p
      <4>1. Work(q)' = d /\ InHand(q, n)'
        BY <2>1, <3>1 DEF OthersStay, InHand
      <4> QED
        BY <4>1
    <3>2. CASE q = p
      <4>1. Granted(Work(p), n)
        BY <2>1, <3>2 DEF Granted, Authorized, OnceInv, StoredOnce
      <4>2. Handed(p, n)
        BY <2>1, <3>2, <4>1
      <4> QED
        BY <2>1, <3>2, <4>2 DEF Handed
    <3> QED
      BY <3>1, <3>2
  <2> QED
    BY <2>1 DEF OnceInv, NoCaeOrphaned
<1>4. RecordedHasKey'
  BY KeysKept DEF OnceInv
<1> QED
  BY <1>1, <1>2, <1>3, <1>4 DEF OnceInv

\* p goes on asking ARCA for a document ARCA knows nothing of, or puts it off.
LEMMA AskOnward ==
  ASSUME OnceInv, NEW p \in Procs, Owns(p), Ungranted(Work(p)),
         pc[p] \in AskingLabels \cup EntryLabels \cup {"recover"},
         OthersStay(p), Work(p)' = Work(p), UNCHANGED arca, UNCHANGED Stored,
         pc'[p] \in AskingLabels \cup EntryLabels \cup {"enqueue", "bump", "fail"}
  PROVE  OnceInv'
<1> USE DEF Stored
<1>1. CarriesOnce(p)'
  <2>1. CarriesOnce(p)
    BY DEF OnceInv
  <2>2. Ungranted(Work(p))'
    BY DEF Ungranted, Granted, Authorized
  <2>3. OnlyGrant(Work(p), row[Work(p)].attempted)'
    BY <2>2 DEF Ungranted, OnlyGrant
  <2> QED
    BY <2>1, <2>2, <2>3 DEF CarriesOnce, NothingStored, AskingLabels, EntryLabels
<1>2. \A n : ~InHand(p, n)
  BY DEF InHand, AskingLabels, EntryLabels
<1> QED
  BY <1>1, <1>2, OnceUntouched DEF AskingLabels, EntryLabels

\* p is through with a document it has nothing of in its hand.
LEMMA PutDown ==
  ASSUME OnceInv, NEW p \in Procs, OthersStay(p), UNCHANGED arca, UNCHANGED Stored,
         pc[p] \notin {"idempotency", "complete"},
         \A n : InHand(p, n) /\ Granted(Work(p), n) =>
           row[Work(p)].status # "NONE" /\ row[Work(p)].attempted = n,
         \/ pc'[p] = "done"
         \/ p = Scheduler /\ pc'[p] \in {"idle", "next", "waiting", "recover", "fail"}
  PROVE  OnceInv'
<1>1. CarriesOnce(p)'
  BY DEF CarriesOnce, AskingLabels, EntryLabels, Owns
<1> QED
  BY <1>1, OnceUntouched DEF Handed

-----------------------------------------------------------------------------
(* ARCA grants a CAE. *)

LEMMA GrantOnce ==
  ASSUME EmissionInv, SeriesInv, OnceInv, Conditions,
         NEW p \in Procs, pc[p] \in {"solicit", "freshSolicit"},
         Grantable(Work(p), number[p]), Grant(Work(p)),
         OthersStay(p), Work(p)' = Work(p), number'[p] = number[p], UNCHANGED Stored,
         \/ pc'[p] = "confirm"
         \/ p # Scheduler /\ pc'[p] = "enqueue"
  PROVE  OnceInv'
<1> USE DEF Stored
<1>0. PICK d \in Docs : d = Work(p)
  BY InsideOwns DEF Looked, Inside, Numbered
<1> DEFINE c == CuitFor(d)
<1>1. PICK n \in 1..MaxNumber : n = number[p] /\ n = Len(arca[c]) + 1
  <2>1. c \in Cuits
    BY DEF CuitFor
  <2> QED
    BY <1>0, <2>1 DEF Grantable, NextNumber, Authorized, EmissionInv, DataTypeOK
<1>2. /\ c \in Cuits /\ arca \in [Cuits -> Seq(Docs)]
      /\ arca' = [arca EXCEPT ![c] = Append(arca[c], d)]
  BY <1>0 DEF Grant, CuitFor, EmissionInv, DataTypeOK
<1>3. \A k \in Cuits : k # c => arca'[k] = arca[k]
  BY <1>2
<1>4. /\ Len(arca'[c]) = n /\ arca'[c][n] = d
      /\ \A m \in 1..Len(arca[c]) : arca'[c][m] = arca[c][m]
  BY <1>1, <1>2
<1>5. Ungranted(d)
  BY <1>0 DEF OnceInv, CarriesOnce, AskingLabels
<1>6. \A e \in Docs : \A m \in 1..MaxNumber :
        Granted(e, m)' <=> Granted(e, m) \/ (e = d /\ m = n)
  <2> SUFFICES ASSUME NEW e \in Docs, NEW m \in 1..MaxNumber
               PROVE  Granted(e, m)' <=> Granted(e, m) \/ (e = d /\ m = n)
    OBVIOUS
  <2>1. CuitFor(e) \in Cuits
    BY DEF CuitFor
  <2>2. CASE CuitFor(e) # c
    BY <1>3, <2>1, <2>2 DEF Granted, Authorized, CuitFor
  <2>3. CASE CuitFor(e) = c
    <3>1. Authorized(e)' = arca'[c] /\ Authorized(e) = arca[c]
      BY <2>3 DEF Authorized, CuitFor
    <3>2. Len(arca[c]) \in Nat
      BY <1>2
    <3> QED
      BY <1>1, <1>4, <3>1, <3>2 DEF Granted
  <2> QED
    BY <2>2, <2>3
<1>7. vouchers[IssuerOf[d]][n] = None
  <2>1. vouchers[IssuerOf[d]][n] # None => n <= Len(arca[c])
    BY DEF SeriesInv, RecordedAsAuthorized, CuitFor
  <2>2. Len(arca[c]) \in Nat
    BY <1>2
  <2> QED
    BY <1>1, <2>1, <2>2
<1>8. \A q \in Procs : CarriesOnce(q)'
  <2>1. CarriesOnce(p)'
    <3>1. CarriesOnce(p)
      BY DEF OnceInv
    <3>2. Granted(d, n)' /\ OnlyGrant(d, n)'
      BY <1>5, <1>6 DEF OnlyGrant, Ungranted
    <3>3. pc[p] # "done" /\ pc[p] # "idempotency"
      OBVIOUS
    <3>4. Owns(p)
      BY InsideOwns DEF Looked, Inside, Numbered
    <3> QED
      BY <1>0, <1>1, <1>7, <3>1, <3>2, <3>3, <3>4
         DEF CarriesOnce, NothingStored, AskingLabels, EntryLabels
  <2>2. ASSUME NEW q \in Procs, q # p PROVE CarriesOnce(q)'
    <3>1. CarriesOnce(q) /\ pc'[q] = pc[q] /\ number'[q] = number[q] /\ Work(q)' = Work(q)
      BY <2>2 DEF OnceInv, OthersStay
    <3>2. CASE Owns(q)
      <4>1. PICK e \in Docs : e = Work(q)
        BY <3>2, OwnerHasDoc
      <4>2. e # d
        BY <1>0, <2>2, <3>2, <4>1, OwnDocuments, InsideOwns DEF Looked, Inside, Numbered
      <4>3. \A m \in 1..MaxNumber : Granted(e, m)' <=> Granted(e, m)
        BY <1>6, <4>2
      <4>4. /\ Ungranted(e) => Ungranted(e)'
            /\ \A m : OnlyGrant(e, m) => OnlyGrant(e, m)'
        BY <4>3 DEF Ungranted, OnlyGrant
      <4>5. PICK m : m = number[q] /\ m = number'[q]
        BY <3>1
      <4>6. Granted(e, m) => Granted(e, m)'
        <5>1. Granted(e, m) => m \in 1..MaxNumber
          BY GrantedFits DEF EmissionInv
        <5> QED
          BY <4>3, <5>1
      <4>7. CarriesOnce(q)
        BY <3>1
      <4>8. e = Work(q)' /\ pc'[q] = pc[q] /\ number'[q] = number[q]
        BY <3>1, <4>1
      <4> QED
        BY <3>2, <4>1, <4>4, <4>5, <4>6, <4>7, <4>8 DEF CarriesOnce, NothingStored
    <3>3. CASE ~Owns(q)
      BY <2>2, <3>3, StaysEmptyHanded
    <3> QED
      BY <3>2, <3>3
  <2> QED
    BY <2>1, <2>2
<1>9. StoredOnce'
  <2>1. \A k \in Cuits : \A m \in 1..Len(arca'[k]) : CuitFor(arca'[k][m]) = k
    <3> SUFFICES ASSUME NEW k \in Cuits, NEW m \in 1..Len(arca'[k])
                 PROVE  CuitFor(arca'[k][m]) = k
      OBVIOUS
    <3>1. \A j \in 1..Len(arca[k]) : CuitFor(arca[k][j]) = k
      BY DEF OnceInv, StoredOnce
    <3>2. CASE k # c
      BY <1>3, <3>1, <3>2
    <3>3. CASE k = c /\ m = n
      BY <1>4, <3>3
    <3>4. CASE k = c /\ m # n
      <4>1. m \in 1..Len(arca[c])
        BY <1>1, <1>2, <1>4, <3>4
      <4> QED
        BY <1>4, <3>1, <3>4, <4>1
    <3> QED
      BY <3>2, <3>3, <3>4
  <2>2. \A e \in Docs : \A l, m \in 1..MaxNumber : Granted(e, l)' /\ Granted(e, m)' => l = m
    BY <1>5, <1>6 DEF OnceInv, StoredOnce, Ungranted
  <2>3. /\ \A e \in abandoned' : row'[e].status = "NONE"
        /\ \A e \in Docs : row'[e].status # "NONE" =>
             /\ (\E m \in 1..(MaxNumber + 1) : vouchers'[IssuerOf[e]][m] = e) =>
                  job' = e /\ pc'[Scheduler] \in {"idempotency", "complete"}
             /\ idem'[e] # 0 => job' = e /\ pc'[Scheduler] = "complete"
    <3>1. pc[Scheduler] \in {"idempotency", "complete"} =>
            job' = job /\ pc'[Scheduler] = pc[Scheduler]
      BY DEF OthersStay, Work
    <3> QED
      BY <3>1 DEF OnceInv, StoredOnce
  <2> QED
    BY <2>1, <2>2, <2>3 DEF StoredOnce, CuitFor
<1>10. NoCaeOrphaned'
  <2> SUFFICES ASSUME NEW k \in Cuits, NEW m \in 1..Len(arca'[k]), NEW e, e = arca'[k][m]
               PROVE  \/ vouchers[IssuerOf[e]][m] = e
                      \/ row[e].status # "NONE" /\ row[e].attempted = m
                      \/ \E q \in Procs : Work(q)' = e /\ InHand(q, m)'
                      \/ e \in abandoned
    BY DEF NoCaeOrphaned
  <2>1. CASE k = c /\ m = n
    <3>1. Work(p)' = e /\ InHand(p, m)'
      BY <1>0, <1>1, <1>4, <2>1 DEF InHand
    <3> QED
      BY <3>1
  <2>2. CASE ~(k = c /\ m = n)
    <3>1. m \in 1..Len(arca[k]) /\ arca[k][m] = e
      BY <1>1, <1>2, <1>3, <1>4, <2>2
    <3>2. \/ vouchers[IssuerOf[e]][m] = e
          \/ row[e].status # "NONE" /\ row[e].attempted = m
          \/ \E q \in Procs : Work(q) = e /\ InHand(q, m)
          \/ e \in abandoned
      BY <3>1 DEF OnceInv, NoCaeOrphaned
    <3>3. ASSUME NEW q \in Procs, Work(q) = e, InHand(q, m)
          PROVE  Work(q)' = e /\ InHand(q, m)'
      <4>1. q # p
        BY <3>3 DEF InHand
      <4> QED
        BY <3>3, <4>1 DEF OthersStay, InHand
    <3> QED
      BY <3>2, <3>3
  <2> QED
    BY <2>1, <2>2
<1>11. RecordedHasKey'
  BY KeysKept DEF OnceInv
<1> QED
  BY <1>8, <1>9, <1>10, <1>11 DEF OnceInv

-----------------------------------------------------------------------------
(* The steps that ask ARCA. *)

LEMMA GotoAsks ==
  ASSUME EmissionInv, OnceInv, NEW p \in Procs, Owns(p), Ungranted(Work(p)),
         pc[p] \in AskingLabels \cup EntryLabels \cup {"recover"},
         UNCHANGED arca, UNCHANGED Stored, NEW n,
         NEW label \in AskingLabels \cup EntryLabels \cup {"enqueue", "bump", "fail"},
         Goto(p, label, n)
  PROVE  OnceInv'
BY GotoMoves, AskOnward DEF EmissionInv

LEMMA DeferAsks ==
  ASSUME EmissionInv, OnceInv, NEW p \in Procs, Owns(p), Ungranted(Work(p)),
         pc[p] \in AskingLabels \cup EntryLabels \cup {"recover"},
         UNCHANGED arca, UNCHANGED Stored, NEW n, Defer(p, n)
  PROVE  OnceInv'
BY GotoAsks DEF Defer

LEMMA RespondPutsDown ==
  ASSUME EmissionInv, OnceInv, NEW r \in Requests, NEW a, Respond(r, a),
         pc[r] \in AskingLabels \cup EntryLabels, UNCHANGED arca, UNCHANGED Stored
  PROVE  OnceInv'
<1>1. OthersStay(r) /\ pc'[r] = "done"
  BY RespondMoves DEF EmissionInv
<1>2. \A n : ~InHand(r, n)
  BY DEF InHand, AskingLabels, EntryLabels
<1> QED
  BY <1>1, <1>2, PutDown DEF AskingLabels, EntryLabels

LEMMA RejectAsks ==
  ASSUME EmissionInv, OnceInv, NEW p \in Procs, Ungranted(Work(p)),
         pc[p] \in AskingLabels, UNCHANGED arca, UNCHANGED Stored, Reject(p)
  PROVE  OnceInv'
<1>1. Owns(p)
  BY InsideOwns DEF Looked, Inside, Numbered, AskingLabels
<1> QED
  BY <1>1, GotoAsks, RespondPutsDown DEF Reject

LEMMA AskingOnce ==
  ASSUME PriorInv, OnceInv, Conditions, NEW p \in Procs, Step(p),
         ~CreateVoucher(p), ~CreateIdempotencyRecord(p)
  PROVE  OnceInv'
<1> USE DEF tables, Stored
<1>0. EmissionInv /\ ControlInv /\ SeriesInv
  BY DEF PriorInv, EmissionInv
<1>1. pc[p] \in AskingLabels => Owns(p) /\ Ungranted(Work(p))
  BY <1>0, InsideOwns DEF OnceInv, CarriesOnce, Looked, Inside, Numbered, AskingLabels
<1>2. CASE GetLastAuthorized(p)
  <2>1. pc[p] \in AskingLabels /\ UNCHANGED arca /\ UNCHANGED Stored
    BY <1>2 DEF GetLastAuthorized, AskingLabels
  <2>2. \/ Goto(p, "solicit", NextNumber(Work(p)))
        \/ Goto(p, "freshSolicit", NextNumber(Work(p)))
        \/ Defer(p, number[p])
        \/ Reject(p)
    BY <1>2 DEF GetLastAuthorized
  <2> QED
    BY <1>0, <1>1, <2>1, <2>2, GotoAsks, DeferAsks, RejectAsks DEF AskingLabels
<1>3. CASE CaeGranted(p)
  <2>1. /\ OthersStay(p) /\ pc'[p] = "confirm" /\ number'[p] = number[p]
        /\ Work(p)' = Work(p)
    BY <1>0, <1>3, GotoMoves DEF CaeGranted
  <2>2. /\ pc[p] \in {"solicit", "freshSolicit"} /\ UNCHANGED Stored
        /\ Grantable(Work(p), number[p]) /\ Grant(Work(p))
    BY <1>3 DEF CaeGranted
  <2> QED
    BY <1>0, <2>1, <2>2, GrantOnce
<1>4. CASE CaeReplyLost(p)
  <2>1. p # Scheduler
    BY <1>4, OnlyTolerated DEF CaeReplyLost, Tolerated
  <2>2. /\ OthersStay(p) /\ pc'[p] = "enqueue" /\ number'[p] = number[p]
        /\ Work(p)' = Work(p)
    BY <1>0, <1>4, <2>1, GotoMoves DEF CaeReplyLost, Defer
  <2> QED
    BY <1>0, <1>4, <2>1, <2>2, GrantOnce DEF CaeReplyLost
<1>5. CASE CaeRequestLost(p)
  <2>1. pc[p] \in AskingLabels /\ UNCHANGED arca /\ UNCHANGED Stored
    BY <1>5 DEF CaeRequestLost, AskingLabels
  <2> QED
    BY <1>0, <1>1, <1>5, <2>1, DeferAsks DEF CaeRequestLost
<1>6. ~CaeRequestLate(p) /\ ~DiagnosisFails(p)
  BY OnlyTolerated DEF CaeRequestLate, DiagnosisFails, Tolerated
<1>7. CASE DuplicateNumber(p) \/ CaeRejected(p)
  <2>1. pc[p] \in AskingLabels /\ UNCHANGED arca /\ UNCHANGED Stored
    BY <1>7 DEF DuplicateNumber, CaeRejected, AskingLabels
  <2>2. Goto(p, "duplicate", number[p]) \/ Reject(p)
    BY <1>7 DEF DuplicateNumber, CaeRejected
  <2> QED
    BY <1>0, <1>1, <2>1, <2>2, GotoAsks, RejectAsks DEF AskingLabels
<1>8. CASE QueryDuplicate(p)
  <2>1. pc[p] \in AskingLabels /\ UNCHANGED arca /\ UNCHANGED Stored
    BY <1>8 DEF QueryDuplicate, AskingLabels
  <2>2. ~(number[p] <= Len(Authorized(Work(p))))
    <3>1. number[p] = Len(Authorized(Work(p))) + 1
      BY <1>0, <1>8 DEF QueryDuplicate, SeriesInv, NextNumber
    <3>2. Work(p) \in Docs /\ CuitFor(Work(p)) \in Cuits
      BY <1>0, <1>8, WorkIsDoc DEF QueryDuplicate, Inside, Numbered
    <3>3. Len(Authorized(Work(p))) \in Nat
      BY <1>0, <3>2 DEF EmissionInv, DataTypeOK, Authorized
    <3> QED
      BY <3>1, <3>3
  <2>3. Goto(p, "freshLast", number[p]) \/ Defer(p, number[p])
    BY <1>8, <2>2 DEF QueryDuplicate
  <2> QED
    BY <1>0, <1>1, <2>1, <2>3, GotoAsks, DeferAsks DEF AskingLabels
<1>9. CASE ConfirmOnboarding(p)
  <2>1. Goto(p, "record", number[p]) /\ UNCHANGED arca /\ UNCHANGED Stored /\ pc[p] = "confirm"
    BY <1>9, OnlyTolerated DEF ConfirmOnboarding, Tolerated
  <2>2. /\ OthersStay(p) /\ pc'[p] = "record" /\ number'[p] = number[p]
        /\ Work(p)' = Work(p)
    BY <1>0, <2>1, GotoMoves
  <2>3. CarriesOnce(p)'
    <3>1. CarriesOnce(p)
      BY DEF OnceInv
    <3>2. Owns(p)
      BY <1>0, <2>1, InsideOwns DEF Looked, Inside, Numbered
    <3> QED
      BY <2>1, <2>2, <3>1, <3>2 DEF CarriesOnce, NothingStored, Granted, Authorized, OnlyGrant,
         AskingLabels, EntryLabels
  <2>4. \A n : InHand(p, n) => Handed(p, n)
    BY <2>2 DEF InHand, Handed
  <2> QED
    BY <2>1, <2>2, <2>3, <2>4, OnceUntouched
<1> QED
  BY <1>2, <1>3, <1>4, <1>5, <1>6, <1>7, <1>8, <1>9 DEF Step

LEMMA RecoveringOnce ==
  ASSUME PriorInv, OnceInv, Conditions, RecoverAlreadyAuthorized
  PROVE  OnceInv'
<1> DEFINE attempted == row[job].attempted
<1> USE DEF tables, Stored
<1>0. /\ EmissionInv /\ ControlInv /\ pc[Scheduler] = "recover" /\ Work(Scheduler) = job
      /\ OnlyGrant(job, attempted) /\ job \in Docs
      /\ UNCHANGED arca /\ UNCHANGED Stored
  BY RowKnowsGrant, RowInHand
     DEF PriorInv, EmissionInv, RecoverAlreadyAuthorized, Work, Inside, Numbered
<1>1. CASE Goto(Scheduler, "record", attempted)
  <2>1. /\ OthersStay(Scheduler) /\ pc'[Scheduler] = "record"
        /\ number'[Scheduler] = attempted /\ Work(Scheduler)' = job
    BY <1>0, <1>1, GotoMoves
  <2>2. CarriesOnce(Scheduler)'
    BY <1>0, <2>1 DEF CarriesOnce, OnlyGrant, Granted, Authorized, AskingLabels
  <2>3. \A n : ~InHand(Scheduler, n)
    BY <1>0 DEF InHand
  <2> QED
    BY <1>0, <2>1, <2>2, <2>3, OnceUntouched
<1>2. CASE Goto(Scheduler, "last", 0) /\ ~(/\ attempted \in 1..Len(Authorized(job))
                                           /\ MatchesPendingVoucher(job, Authorized(job)[attempted]))
  <2>1. Ungranted(job)
    BY <1>0, <1>2 DEF Ungranted, OnlyGrant, Granted, MatchesPendingVoucher
  <2>2. Owns(Scheduler)
    BY <1>0, InsideOwns DEF Looked, Inside
  <2> QED
    BY <1>0, <1>2, <2>1, <2>2, GotoAsks DEF AskingLabels
<1>3. CASE Defer(Scheduler, 0)
  <2>1. /\ OthersStay(Scheduler) /\ pc'[Scheduler] = "bump" /\ Work(Scheduler)' = job
    BY <1>0, <1>3, GotoMoves DEF Defer
  <2>2. CarriesOnce(Scheduler)'
    BY <1>0, <2>1 DEF CarriesOnce, OnlyGrant, Granted, Authorized, AskingLabels
  <2>3. \A n : ~InHand(Scheduler, n)
    BY <1>0 DEF InHand
  <2> QED
    BY <1>0, <2>1, <2>2, <2>3, OnceUntouched
<1> QED
  BY <1>1, <1>2, <1>3, OnlyTolerated DEF RecoverAlreadyAuthorized, Tolerated

-----------------------------------------------------------------------------
(* Recording. *)

LEMMA CreateVoucherOnce ==
  ASSUME PriorInv, OnceInv, Conditions, NEW p \in Procs, CreateVoucher(p)
  PROVE  OnceInv'
<1>0. /\ EmissionInv /\ ControlInv /\ pc[p] = "record" /\ Owns(p)
      /\ UNCHANGED <<arca, idem, row, abandoned>>
  BY InsideOwns DEF PriorInv, EmissionInv, CreateVoucher, Looked, Inside, Numbered
<1>1. PICK d \in Docs, n \in 1..(MaxNumber + 1) : d = Work(p) /\ n = number[p]
  BY <1>0, InsideOwns, NumberedInside DEF Looked, Inside, Numbered
<1> DEFINE i == IssuerOf[d]
<1>2. /\ i \in Issuers
      /\ vouchers \in [Issuers -> [1..(MaxNumber + 1) -> Docs \cup {None}]]
  BY <1>0 DEF EmissionInv, DataTypeOK
<1>3. CarriesOnce(p)
  BY DEF OnceInv
<1>4. CASE vouchers[i][n] # None /\ Throw(p) /\ UNCHANGED vouchers
  <2>1. p = Scheduler /\ row[d].attempted = n
    BY <1>0, <1>1, <1>3, <1>4 DEF CarriesOnce
  <2>2. row[d].status # "NONE"
    BY <1>0, <1>1, <2>1, RowInHand DEF Work, Inside, Numbered
  <2>3. OthersStay(p) /\ pc'[p] \in {"idle", "done"}
    BY <1>0, <1>4, ThrowMoves
  <2>4. \A m : InHand(p, m) => row[Work(p)].status # "NONE" /\ row[Work(p)].attempted = m
    BY <1>1, <2>1, <2>2 DEF InHand
  <2> QED
    BY <1>0, <1>4, <2>1, <2>3, <2>4, PutDown DEF Stored
<1>5. CASE /\ vouchers[i][n] = None
           /\ vouchers' = [vouchers EXCEPT ![i][n] = d]
           /\ Goto(p, "idempotency", n)
  <2>1. /\ OthersStay(p) /\ pc'[p] = "idempotency" /\ number'[p] = n /\ Work(p)' = d
    BY <1>0, <1>1, <1>5, GotoMoves
  <2>2. vouchers'[i][n] = d
    BY <1>1, <1>2, <1>5
  <2>3. \A j \in Issuers : \A m \in 1..(MaxNumber + 1) :
          vouchers'[j][m] # vouchers[j][m] => j = i /\ m = n
    BY <1>1, <1>2, <1>5
  <2>4. \A j \in Issuers : j # i => vouchers'[j] = vouchers[j]
    BY <1>2, <1>5
  <2>5. \A e \in Docs : e # d => \A m \in 1..(MaxNumber + 1) :
          vouchers'[IssuerOf[e]][m] = e <=> vouchers[IssuerOf[e]][m] = e
    BY <1>1, <1>2, <1>5
  <2>6. \A q \in Procs : CarriesOnce(q)'
    <3>1. CarriesOnce(p)'
      BY <1>0, <1>1, <1>3, <2>1
         DEF CarriesOnce, NothingStored, OnlyGrant, Granted, Authorized, AskingLabels, EntryLabels
    <3>2. ASSUME NEW q \in Procs, q # p PROVE CarriesOnce(q)'
      <4>1. CarriesOnce(q) /\ pc'[q] = pc[q] /\ number'[q] = number[q] /\ Work(q)' = Work(q)
        BY <2>1, <3>2 DEF OnceInv, OthersStay
      <4>2. CASE Owns(q)
        <5>1. PICK e \in Docs : e = Work(q)
          BY <1>0, <4>2, OwnerHasDoc
        <5>2. e # d
          BY <1>0, <1>1, <3>2, <4>2, <5>1, OwnDocuments
        <5>3. \A m \in 1..(MaxNumber + 1) :
                vouchers'[IssuerOf[e]][m] = e <=> vouchers[IssuerOf[e]][m] = e
          BY <2>5, <5>2
        <5>4. pc[q] \in {"confirm", "record"} => vouchers'[IssuerOf[e]] = vouchers[IssuerOf[e]]
          <6> SUFFICES ASSUME pc[q] \in {"confirm", "record"} PROVE IssuerOf[e] # i
            BY <2>4
          <6>1. holder[IssuerOf[e]] = q /\ holder[i] = p
            BY <1>0, <1>1, <5>1 DEF ControlInv, LockHeld, Inside, Numbered
          <6> QED
            BY <3>2, <6>1
        <5>5. e = Work(q)' /\ pc'[q] = pc[q] /\ number'[q] = number[q]
          BY <4>1, <5>1
        <5> QED
          BY <1>0, <4>1, <4>2, <5>1, <5>3, <5>4, <5>5
             DEF CarriesOnce, NothingStored, Ungranted, OnlyGrant, Granted, Authorized
      <4>3. CASE ~Owns(q)
        BY <1>0, <2>1, <3>2, <4>3, StaysEmptyHanded
      <4> QED
        BY <4>2, <4>3
    <3> QED
      BY <3>1, <3>2
  <2>7. StoredOnce'
    <3>1. ASSUME NEW e \in Docs, row[e].status # "NONE"
          PROVE  /\ (\E m \in 1..(MaxNumber + 1) : vouchers'[IssuerOf[e]][m] = e) =>
                      job' = e /\ pc'[Scheduler] \in {"idempotency", "complete"}
                 /\ idem[e] # 0 => job' = e /\ pc'[Scheduler] = "complete"
      <4>1. /\ (\E m \in 1..(MaxNumber + 1) : vouchers[IssuerOf[e]][m] = e) =>
                 job = e /\ pc[Scheduler] \in {"idempotency", "complete"}
            /\ idem[e] # 0 => job = e /\ pc[Scheduler] = "complete"
        BY <3>1 DEF OnceInv, StoredOnce
      <4>2. CASE p = Scheduler
        <5>1. job = d /\ job' = d
          BY <1>1, <2>1, <4>2 DEF Work
        <5> QED
          BY <1>0, <2>1, <2>5, <4>1, <4>2, <5>1
      <4>3. CASE p # Scheduler
        <5>1. job' = job /\ pc'[Scheduler] = pc[Scheduler]
          BY <2>1, <4>3 DEF OthersStay, Work
        <5>2. row[d].status = "NONE"
          BY <1>0, <1>1, <1>3, <4>3 DEF CarriesOnce, NothingStored
        <5> QED
          BY <2>5, <3>1, <4>1, <5>1, <5>2
      <4> QED
        BY <4>2, <4>3
    <3> QED
      BY <1>0, <3>1 DEF OnceInv, StoredOnce, Granted, Authorized
  <2>8. NoCaeOrphaned'
    <3> SUFFICES ASSUME NEW c \in Cuits, NEW m \in 1..Len(arca[c]), NEW e \in Docs, e = arca[c][m]
                 PROVE  \/ vouchers'[IssuerOf[e]][m] = e
                        \/ row[e].status # "NONE" /\ row[e].attempted = m
                        \/ \E q \in Procs : Work(q)' = e /\ InHand(q, m)'
                        \/ e \in abandoned
      <4>1. \A c \in Cuits : \A m \in 1..Len(arca[c]) : arca[c][m] \in Docs
        BY <1>0 DEF EmissionInv, DataTypeOK
      <4> QED
        BY <1>0, <4>1 DEF NoCaeOrphaned
    <3>1. m \in 1..(MaxNumber + 1)
      BY <1>0 DEF EmissionInv, DataTypeOK
    <3>2. CASE vouchers[IssuerOf[e]][m] = e
      <4>1. ~(IssuerOf[e] = i /\ m = n)
        BY <1>5, <3>2
      <4> QED
        BY <2>3, <3>1, <3>2, <4>1
    <3>3. CASE \E q \in Procs : Work(q) = e /\ InHand(q, m)
      <4>1. PICK q \in Procs : Work(q) = e /\ InHand(q, m)
        BY <3>3
      <4>2. CASE q # p
        <5>1. Work(q)' = e /\ InHand(q, m)'
          BY <2>1, <4>1, <4>2 DEF OthersStay, InHand
        <5> QED
          BY <5>1
      <4>3. CASE q = p
        BY <1>1, <2>2, <4>1, <4>3 DEF InHand
      <4> QED
        BY <4>2, <4>3
    <3> QED
      BY <3>2, <3>3 DEF OnceInv, NoCaeOrphaned
  <2>9. RecordedHasKey'
    <3> SUFFICES ASSUME NEW e \in Keyed, NEW m \in 1..(MaxNumber + 1),
                        vouchers'[IssuerOf[e]][m] = e, idem[e] = 0
                 PROVE  \E q \in Procs : Work(q)' = e /\ pc'[q] = "idempotency"
      BY <1>0 DEF RecordedHasKey
    <3>1. CASE e = d
      BY <2>1, <3>1
    <3>2. CASE e # d
      <4>1. vouchers[IssuerOf[e]][m] = e
        BY <2>5, <3>2
      <4>2. PICK q \in Procs : Work(q) = e /\ pc[q] = "idempotency"
        BY <4>1 DEF OnceInv, RecordedHasKey
      <4>3. Work(q)' = e /\ pc'[q] = "idempotency"
        BY <1>0, <2>1, <4>2 DEF OthersStay
      <4> QED
        BY <4>3
    <3> QED
      BY <3>1, <3>2
  <2> QED
    BY <2>6, <2>7, <2>8, <2>9 DEF OnceInv
<1> QED
  BY <1>1, <1>4, <1>5, OnlyTolerated DEF CreateVoucher, Tolerated

LEMMA CreateIdempotencyRecordOnce ==
  ASSUME PriorInv, OnceInv, Conditions, NEW p \in Procs, CreateIdempotencyRecord(p)
  PROVE  OnceInv'
<1>0. /\ EmissionInv /\ ControlInv /\ pc[p] = "idempotency" /\ Owns(p)
      /\ UNCHANGED <<arca, vouchers, row, abandoned>>
  BY InsideOwns DEF PriorInv, EmissionInv, CreateIdempotencyRecord, Looked, Inside, Numbered
<1>1. PICK d \in Docs : d = Work(p)
  BY <1>0, InsideOwns DEF Looked, Inside, Numbered
<1>2. CarriesOnce(p) /\ idem \in [Docs -> 0..(MaxNumber + 1)]
  BY <1>0 DEF OnceInv, EmissionInv, DataTypeOK
<1>3. idem[d] = 0
  <2>1. CASE p = Scheduler
    <3>1. row[d].status # "NONE"
      BY <1>0, <1>1, <2>1, RowInHand DEF Work, Inside, Numbered
    <3> QED
      BY <1>0, <2>1, <3>1 DEF OnceInv, StoredOnce
  <2>2. CASE p # Scheduler
    BY <1>0, <1>1, <1>2, <2>2 DEF CarriesOnce, NothingStored
  <2> QED
    BY <2>1, <2>2
<1>4. /\ \A e \in Docs : e # d => idem'[e] = idem[e]
      /\ IF p = Scheduler THEN Goto(p, "complete", number[p]) ELSE Respond(p, "issued")
  BY <1>1, <1>2, <1>3, OnlyTolerated DEF CreateIdempotencyRecord, Tolerated
<1>5. /\ OthersStay(p)
      /\ p = Scheduler => pc'[p] = "complete" /\ number'[p] = number[p] /\ Work(p)' = d /\ job' = d
      /\ p # Scheduler => pc'[p] = "done"
  BY <1>0, <1>1, <1>4, GotoMoves, RespondMoves DEF Work
<1>6. \A q \in Procs : CarriesOnce(q)'
  <2>1. CarriesOnce(p)'
    <3>1. CASE p = Scheduler
      BY <1>0, <1>1, <1>2, <1>5, <3>1
         DEF CarriesOnce, OnlyGrant, Granted, Authorized, AskingLabels, EntryLabels
    <3>2. CASE p # Scheduler
      BY <1>5, <3>2 DEF CarriesOnce, AskingLabels, EntryLabels, Owns
    <3> QED
      BY <3>1, <3>2
  <2>2. ASSUME NEW q \in Procs, q # p PROVE CarriesOnce(q)'
    <3>1. CarriesOnce(q) /\ pc'[q] = pc[q] /\ number'[q] = number[q] /\ Work(q)' = Work(q)
      BY <1>5, <2>2 DEF OnceInv, OthersStay
    <3>2. ASSUME q \in Requests, Owns(q)
          PROVE  Work(q) \in Docs /\ idem'[Work(q)] = idem[Work(q)]
      <4>1. Work(q) \in Docs
        BY <3>2 DEF Work
      <4>2. Work(q) # d
        BY <1>0, <1>1, <2>2, <3>2, OwnDocuments
      <4> QED
        BY <1>4, <4>1, <4>2
    <3>3. Owns(q)' <=> Owns(q)
      BY <3>1 DEF Owns, Work
    <3> QED
      BY <1>0, <3>1, <3>2, <3>3
         DEF CarriesOnce, NothingStored, Ungranted, OnlyGrant, Granted, Authorized
  <2> QED
    BY <2>1, <2>2
<1>7. StoredOnce'
  <2>1. ASSUME NEW e \in Docs, row[e].status # "NONE"
        PROVE  /\ (\E m \in 1..(MaxNumber + 1) : vouchers[IssuerOf[e]][m] = e) =>
                    job' = e /\ pc'[Scheduler] \in {"idempotency", "complete"}
               /\ idem'[e] # 0 => job' = e /\ pc'[Scheduler] = "complete"
    <3>1. /\ (\E m \in 1..(MaxNumber + 1) : vouchers[IssuerOf[e]][m] = e) =>
               job = e /\ pc[Scheduler] \in {"idempotency", "complete"}
          /\ idem[e] # 0 => job = e /\ pc[Scheduler] = "complete"
      BY <2>1 DEF OnceInv, StoredOnce
    <3>2. CASE p = Scheduler
      <4>1. job = d
        BY <1>1, <3>2 DEF Work
      <4> QED
        BY <1>0, <1>4, <1>5, <3>1, <3>2, <4>1
    <3>3. CASE p # Scheduler
      <4>1. job' = job /\ pc'[Scheduler] = pc[Scheduler]
        BY <1>5, <3>3 DEF OthersStay, Work
      <4>2. e # d
        BY <1>0, <1>1, <1>2, <2>1, <3>3 DEF CarriesOnce, NothingStored
      <4> QED
        BY <1>4, <3>1, <4>1, <4>2
    <3> QED
      BY <3>2, <3>3
  <2> QED
    BY <1>0, <2>1 DEF OnceInv, StoredOnce, Granted, Authorized
<1>8. NoCaeOrphaned'
  <2>1. \A q \in Procs : \A m : InHand(q, m) => InHand(q, m)' /\ Work(q)' = Work(q)
    BY <1>0, <1>5 DEF InHand, OthersStay
  <2> QED
    BY <1>0, <2>1 DEF OnceInv, NoCaeOrphaned
<1>9. RecordedHasKey'
  <2> SUFFICES ASSUME NEW e \in Keyed, NEW m \in 1..(MaxNumber + 1),
                      vouchers[IssuerOf[e]][m] = e, idem'[e] = 0
               PROVE  \E q \in Procs : Work(q)' = e /\ pc'[q] = "idempotency"
    BY <1>0 DEF RecordedHasKey
  <2>1. e # d
    <3>1. number[p] # 0
      BY <1>0 DEF ControlInv, NumberChosen, Numbered
    <3>2. d \in Keyed => idem' = [idem EXCEPT ![d] = number[p]]
      BY <1>0, <1>1, <1>3, OnlyTolerated DEF CreateIdempotencyRecord, RecordedNumber, Tolerated
    <3> QED
      BY <1>2, <3>1, <3>2
  <2>2. PICK q \in Procs : Work(q) = e /\ pc[q] = "idempotency"
    BY <1>4, <2>1 DEF OnceInv, RecordedHasKey
  <2>3. Work(q)' = e /\ pc'[q] = "idempotency"
    BY <1>1, <1>5, <2>1, <2>2 DEF OthersStay
  <2> QED
    BY <2>3
<1> QED
  BY <1>6, <1>7, <1>8, <1>9 DEF OnceInv

-----------------------------------------------------------------------------
(* The request's way in and the scheduler's way round. *)

\* A key the lookup does not know: nothing is stored of it, and nobody else
\* has it in hand, so ARCA granted it nothing.
LEMMA UnknownKey ==
  ASSUME EmissionInv, OnceInv, NotAfterFailure, NEW r \in Requests, DocOf[r] \in Keyed,
         pc[r] = "replay", Replay(DocOf[r]) = "miss", NEW d \in Docs, d = DocOf[r]
  PROVE  /\ NothingStored(d) /\ Ungranted(d)
         /\ \A n \in 1..(MaxNumber + 1) : vouchers[IssuerOf[d]][n] # d
<1>1. idem[d] = 0 /\ row[d].status # "PENDING"
  BY DEF Replay
<1>2. NothingStored(d)
  <2>1. row[d].status \in Statuses
    BY DEF EmissionInv, DataTypeOK, Rows
  <2> QED
    BY <1>1, <2>1 DEF NotAfterFailure, NothingStored, Statuses
<1>3. ASSUME NEW q \in Procs, Work(q) = d, pc[q] \in Inside PROVE q = r
  <2>1. holder[IssuerOf[d]] = q /\ holder[IssuerOf[d]] = r
    BY <1>3 DEF EmissionInv, ControlInv, LockHeld, Work, Inside
  <2> QED
    BY <2>1
<1>4. ASSUME NEW n \in 1..(MaxNumber + 1) PROVE vouchers[IssuerOf[d]][n] # d
  <2> SUFFICES ASSUME vouchers[IssuerOf[d]][n] = d PROVE FALSE
    OBVIOUS
  <2>1. PICK q \in Procs : Work(q) = d /\ pc[q] = "idempotency"
    BY <1>1 DEF OnceInv, RecordedHasKey
  <2> QED
    BY <1>3, <2>1 DEF Inside, Numbered
<1>5. Ungranted(d)
  <2> SUFFICES ASSUME NEW n \in 1..MaxNumber, Granted(d, n) PROVE FALSE
    BY DEF Ungranted
  <2>1. CuitFor(d) \in Cuits /\ n \in 1..Len(arca[CuitFor(d)]) /\ arca[CuitFor(d)][n] = d
    BY DEF Granted, Authorized, CuitFor
  <2>2. \/ vouchers[IssuerOf[d]][n] = d
        \/ row[d].status # "NONE" /\ row[d].attempted = n
        \/ \E q \in Procs : Work(q) = d /\ InHand(q, n)
        \/ d \in abandoned
    BY <2>1 DEF OnceInv, NoCaeOrphaned
  <2>3. n \in 1..(MaxNumber + 1)
    OBVIOUS
  <2> QED
    BY <1>2, <1>3, <1>4, <2>2, <2>3 DEF NothingStored, InHand, Inside, Numbered
<1> QED
  BY <1>2, <1>4, <1>5

LEMMA LookOnce ==
  ASSUME EmissionInv, OnceInv, NotAfterFailure, NEW r \in Requests, DocOf[r] \in Keyed,
         ReplayInside(r), Goto(r, "last", 0)
  PROVE  OnceInv'
<1> USE DEF tables, Stored
<1>1. pc[r] = "replay" /\ UNCHANGED arca /\ UNCHANGED Stored
  BY DEF ReplayInside
<1>2. /\ OthersStay(r) /\ pc'[r] = "last" /\ Work(r)' = Work(r)
  BY GotoMoves DEF EmissionInv
<1>3. Replay(DocOf[r]) = "miss"
  BY <1>2 DEF ReplayInside, Respond, EmissionInv, ControlInv, ControlTypeOK
<1>4. PICK d \in Docs : d = DocOf[r] /\ d = Work(r)
  BY DEF Work
<1>5. /\ NothingStored(d) /\ Ungranted(d)
      /\ \A n \in 1..(MaxNumber + 1) : vouchers[IssuerOf[d]][n] # d
  BY <1>1, <1>3, <1>4, UnknownKey
<1>6. CarriesOnce(r)'
  BY <1>1, <1>2, <1>4, <1>5 DEF CarriesOnce, NothingStored, Ungranted, Granted, Authorized
<1>7. \A n : ~InHand(r, n)
  BY <1>1 DEF InHand
<1> QED
  BY <1>1, <1>2, <1>6, <1>7, OnceUntouched

LEMMA PostOnce ==
  ASSUME EmissionInv, OnceInv, NotAfterFailure, NEW r \in Requests, Post(r) \/ ReplayInside(r)
  PROVE  OnceInv'
<1> USE DEF tables, Stored
<1>1. /\ pc[r] \in EntryLabels /\ UNCHANGED arca /\ UNCHANGED Stored
      /\ \/ Goto(r, "waiting", 0)
         \/ Goto(r, "last", 0) /\ ReplayInside(r)
         \/ Respond(r, Replay(DocOf[r]))
  BY DEF Post, ReplayInside, EntryLabels
<1>2. CASE DocOf[r] \notin Keyed
  <2>1. Owns(r) /\ Ungranted(Work(r))
    BY <1>1, <1>2 DEF OnceInv, CarriesOnce, Owns, EntryLabels
  <2> QED
    BY <1>1, <2>1, GotoAsks, RespondPutsDown DEF EntryLabels, AskingLabels
<1>3. CASE DocOf[r] \in Keyed /\ Goto(r, "waiting", 0)
  <2>1. OthersStay(r) /\ pc'[r] = "waiting"
    BY <1>3, GotoMoves DEF EmissionInv
  <2>2. CarriesOnce(r)'
    BY <1>3, <2>1 DEF CarriesOnce, Owns, Looked, Inside, Numbered, AskingLabels
  <2>3. \A n : ~InHand(r, n)
    BY <1>1 DEF InHand, EntryLabels
  <2> QED
    BY <1>1, <2>1, <2>2, <2>3, OnceUntouched DEF EntryLabels
<1> QED
  BY <1>1, <1>2, <1>3, LookOnce, RespondPutsDown

LEMMA AcquireOnce ==
  ASSUME EmissionInv, OnceInv, NEW p \in Procs, Acquire(p)
  PROVE  OnceInv'
<1> USE DEF tables, Stored
<1>1. /\ OthersStay(p) /\ Work(p)' = Work(p) /\ pc[p] = "waiting"
      /\ pc'[p] = IF p = Scheduler THEN "recover" ELSE "replay"
      /\ UNCHANGED arca /\ UNCHANGED Stored
  BY DEF Acquire, EmissionInv, ControlInv, ControlTypeOK, OthersStay, Work
<1>2. CASE p = Scheduler
  BY <1>1, <1>2, PutDown DEF InHand
<1>3. CASE p # Scheduler /\ DocOf[p] \notin Keyed
  <2>1. Owns(p) /\ Ungranted(Work(p))
    BY <1>1, <1>3 DEF OnceInv, CarriesOnce, Owns, EntryLabels
  <2> QED
    BY <1>1, <1>3, <2>1, AskOnward DEF EntryLabels
<1>4. CASE p # Scheduler /\ DocOf[p] \in Keyed
  <2>1. CarriesOnce(p)'
    BY <1>1, <1>4 DEF CarriesOnce, Owns, Looked, AskingLabels
  <2>2. \A n : ~InHand(p, n)
    BY <1>1 DEF InHand
  <2> QED
    BY <1>1, <2>1, <2>2, OnceUntouched
<1> QED
  BY <1>2, <1>3, <1>4

LEMMA TickOnce ==
  ASSUME EmissionInv, OnceInv, Tick \/ NextRow
  PROVE  OnceInv'
<1>1. /\ OthersStay(Scheduler) /\ pc[Scheduler] \in {"idle", "next"}
      /\ pc'[Scheduler] \in {"idle", "next", "waiting"}
      /\ UNCHANGED arca /\ UNCHANGED Stored
  BY DEF Tick, NextRow, EmissionInv, ControlInv, ControlTypeOK, OthersStay, Work, tables, Stored
<1> QED
  BY <1>1, PutDown DEF InHand

-----------------------------------------------------------------------------
(* The queue. *)

\* Every document is in the queue, or out of it, as before, and its row knows
\* of the same attempt.
RowsKept ==
  \A d \in Docs : /\ row'[d].attempted = row[d].attempted
                  /\ row'[d].status = "NONE" <=> row[d].status = "NONE"

LEMMA OnceRowsKept ==
  ASSUME EmissionInv, OnceInv, NEW p \in Procs, OthersStay(p), RowsKept,
         UNCHANGED <<arca, vouchers, idem, abandoned>>, CarriesOnce(p)',
         \A n : InHand(p, n) /\ Granted(Work(p), n) => Handed(p, n),
         pc[p] = "idempotency" => pc'[p] = pc[p] /\ Work(p)' = Work(p),
         p = Scheduler /\ pc[p] \in {"idempotency", "complete"} =>
           job' = job /\ pc'[p] = pc[p]
  PROVE  OnceInv'
<1>1. \A q \in Procs : CarriesOnce(q)'
  <2> SUFFICES ASSUME NEW q \in Procs, q # p PROVE CarriesOnce(q)'
    OBVIOUS
  <2>1. CarriesOnce(q) /\ pc'[q] = pc[q] /\ number'[q] = number[q] /\ Work(q)' = Work(q)
    BY DEF OnceInv, OthersStay
  <2>2. CASE ~Owns(q)
    BY <2>2, StaysEmptyHanded
  <2>3. CASE Owns(q)
    <3>1. PICK d \in Docs : d = Work(q)
      BY <2>3, OwnerHasDoc
    <3>2. /\ row'[d].attempted = row[d].attempted
          /\ row'[d].status = "NONE" <=> row[d].status = "NONE"
      BY DEF RowsKept
    <3>3. d = Work(q)'
      BY <2>1, <3>1
    <3> QED
      BY <2>1, <2>3, <3>1, <3>2, <3>3
         DEF CarriesOnce, NothingStored, Ungranted, OnlyGrant, Granted, Authorized
  <2> QED
    BY <2>2, <2>3
<1>2. StoredOnce'
  <2>1. pc[Scheduler] \in {"idempotency", "complete"} =>
          job' = job /\ pc'[Scheduler] = pc[Scheduler]
    BY DEF OthersStay, Work
  <2>2. abandoned \subseteq Docs
    BY DEF EmissionInv, DataTypeOK
  <2> QED
    BY <2>1, <2>2 DEF OnceInv, StoredOnce, RowsKept, Granted, Authorized
<1>3. NoCaeOrphaned'
  <2> SUFFICES ASSUME NEW c \in Cuits, NEW n \in 1..Len(arca[c]), NEW d \in Docs, d = arca[c][n]
               PROVE  \/ vouchers[IssuerOf[d]][n] = d
                      \/ row'[d].status # "NONE" /\ row'[d].attempted = n
                      \/ \E q \in Procs : Work(q)' = d /\ InHand(q, n)'
                      \/ d \in abandoned
    <3>1. \A c \in Cuits : \A n \in 1..Len(arca[c]) : arca[c][n] \in Docs
      BY DEF EmissionInv, DataTypeOK
    <3> QED
      BY <3>1 DEF NoCaeOrphaned
  <2>1. ASSUME NEW q \in Procs, Work(q) = d, InHand(q, n)
        PROVE  \/ row[d].status # "NONE" /\ row[d].attempted = n
               \/ \E s \in Procs : Work(s)' = d /\ InHand(s, n)'
    <3>1. CASE q # p
      <4>1. Work(q)' = d /\ InHand(q, n)'
        BY <2>1, <3>1 DEF OthersStay, InHand
      <4> QED
        BY <4>1
    <3>2. CASE q = p
      <4>1. Granted(Work(p), n)
        BY <2>1, <3>2 DEF Granted, Authorized, OnceInv, StoredOnce
      <4>2. Handed(p, n)
        BY <2>1, <3>2, <4>1
      <4> QED
        BY <2>1, <3>2, <4>2 DEF Handed
    <3> QED
      BY <3>1, <3>2
  <2> QED
    BY <2>1 DEF OnceInv, NoCaeOrphaned, RowsKept
<1>4. RecordedHasKey'
  BY KeysKept DEF OnceInv
<1> QED
  BY <1>1, <1>2, <1>3, <1>4 DEF OnceInv

LEMMA PutOffOnce ==
  ASSUME EmissionInv, OnceInv, Conditions, Bump \/ FailRow
  PROVE  OnceInv'
<1>1. /\ job \in Docs /\ row[job].status = "PENDING" /\ row \in [Docs -> Rows]
      /\ pc[Scheduler] \in {"bump", "fail"} /\ UNCHANGED <<arca, vouchers, idem, abandoned>>
  BY RowInHand DEF Bump, FailRow, EmissionInv, DataTypeOK, Inside
<1>2. ~Fault("queueDb")
  BY OnlyTolerated DEF Tolerated
<1>3. RowsKept
  <2>1. CASE Bump
    <3> DEFINE retries == row[job].retries + 1
    <3>1. row' = [row EXCEPT ![job].retries = retries,
                             ![job].due = Exhausted(retries) /\ @,
                             ![job].status = IF Exhausted(retries) THEN "FAILED" ELSE @]
      BY <1>2, <2>1 DEF Bump
    <3>2. row'[job].status \in {"FAILED", "PENDING"} /\ row'[job].attempted = row[job].attempted
      BY <1>1, <3>1 DEF Rows
    <3>3. \A d \in Docs : d # job => row'[d] = row[d]
      BY <1>1, <3>1
    <3> QED
      BY <1>1, <3>2, <3>3 DEF RowsKept
  <2>2. CASE FailRow
    <3>1. row' = [row EXCEPT ![job].status = "FAILED", ![job].retries = @ + 1]
      BY <1>2, <2>2 DEF FailRow
    <3>2. row'[job].status = "FAILED" /\ row'[job].attempted = row[job].attempted
      BY <1>1, <3>1 DEF Rows
    <3>3. \A d \in Docs : d # job => row'[d] = row[d]
      BY <1>1, <3>1
    <3> QED
      BY <1>1, <3>2, <3>3 DEF RowsKept
  <2> QED
    BY <2>1, <2>2
<1>4. OthersStay(Scheduler) /\ pc'[Scheduler] = "next"
  BY <1>2, NextPendingMoves DEF Bump, FailRow, EmissionInv
<1>5. CarriesOnce(Scheduler)'
  BY <1>4 DEF CarriesOnce, AskingLabels
<1>6. ASSUME NEW n, InHand(Scheduler, n), Granted(Work(Scheduler), n)
      PROVE  Handed(Scheduler, n)
  <2>1. OnlyGrant(job, row[job].attempted) /\ Granted(job, n)
    BY <1>1, <1>6 DEF OnceInv, CarriesOnce, Work, InHand
  <2>2. n = row[job].attempted
    BY <1>1, <2>1, GrantedFits DEF OnlyGrant, EmissionInv
  <2> QED
    BY <1>1, <2>2 DEF Handed, Work
<1> QED
  BY <1>1, <1>3, <1>4, <1>5, <1>6, OnceRowsKept

LEMMA RowAgainOnce ==
  ASSUME EmissionInv, OnceInv, NEW e \in Docs, BackoffElapsed(e) \/ UserRetry(e)
  PROVE  OnceInv'
<1>1. UNCHANGED <<arca, vouchers, idem, abandoned>> /\ UNCHANGED control
  BY DEF BackoffElapsed, UserRetry
<1>2. RowsKept
  <2>1. row \in [Docs -> Rows] /\ row[e].status \in {"PENDING", "FAILED"}
    BY DEF EmissionInv, DataTypeOK, BackoffElapsed, UserRetry, Failed
  <2>2. CASE BackoffElapsed(e)
    BY <2>1, <2>2 DEF BackoffElapsed, RowsKept, Rows
  <2>3. CASE UserRetry(e)
    <3>1. row' = [row EXCEPT ![e].status = "PENDING", ![e].retries = 0, ![e].due = TRUE]
      BY <2>3 DEF UserRetry
    <3>2. row'[e].status = "PENDING" /\ row'[e].attempted = row[e].attempted
      BY <2>1, <3>1 DEF Rows
    <3>3. \A d \in Docs : d # e => row'[d] = row[d]
      BY <2>1, <3>1
    <3> QED
      BY <2>1, <3>2, <3>3 DEF RowsKept
  <2> QED
    BY <2>2, <2>3
<1>3. OthersStay(Scheduler) /\ job' = job /\ pc'[Scheduler] = pc[Scheduler]
      /\ Work(Scheduler)' = Work(Scheduler) /\ number'[Scheduler] = number[Scheduler]
  BY <1>1 DEF control, OthersStay, Work
<1>4. CarriesOnce(Scheduler)'
  <2>1. CASE pc[Scheduler] \notin Inside
    BY <1>3, <2>1 DEF CarriesOnce, Inside, Numbered, AskingLabels
  <2>2. CASE pc[Scheduler] \in Inside
    <3>1. job \in Docs
      BY <2>2, RowInHand
    <3>2. row'[job].attempted = row[job].attempted /\ CarriesOnce(Scheduler)
      BY <1>2, <3>1 DEF RowsKept, OnceInv
    <3> QED
      BY <1>1, <1>3, <3>1, <3>2 DEF CarriesOnce, Ungranted, OnlyGrant, Granted, Authorized, Work
  <2> QED
    BY <2>1, <2>2
<1>5. \A n : InHand(Scheduler, n) => Handed(Scheduler, n)
  BY <1>3 DEF Handed, InHand, Work
<1> QED
  BY <1>1, <1>2, <1>3, <1>4, <1>5, OnceRowsKept

LEMMA EnqueueOnce ==
  ASSUME EmissionInv, OnceInv, Conditions, NEW r \in Requests, Enqueue(r)
  PROVE  OnceInv'
<1>0. ControlInv /\ pc[r] = "enqueue" /\ UNCHANGED <<arca, vouchers, idem, abandoned>>
  BY DEF EmissionInv, Enqueue
<1>1. PICK d \in Docs : d = DocOf[r] /\ d = Work(r)
  BY DEF Work
<1>2. NothingStored(d) /\ \A n \in 1..(MaxNumber + 1) : vouchers[IssuerOf[d]][n] # d
  <2>1. Owns(r)
    BY <1>0, InsideOwns DEF Looked, Inside
  <2> QED
    BY <1>0, <1>1, <2>1 DEF OnceInv, CarriesOnce
<1>3. /\ row' = [row EXCEPT ![d] = [status |-> "PENDING", retries |-> 0,
                    attempted |-> number[r], due |-> FALSE]]
      /\ Respond(r, "queued")
  BY <1>1, <1>2, OnlyTolerated DEF Enqueue, AttemptedNumber, NothingStored, Tolerated
<1>4. /\ row'[d].status = "PENDING" /\ row'[d].attempted = number[r]
      /\ \A e \in Docs : e # d => row'[e] = row[e]
  BY <1>3 DEF EmissionInv, DataTypeOK
<1>5. OthersStay(r) /\ pc'[r] = "done"
  BY <1>0, <1>3, RespondMoves
<1>6. \A q \in Procs : CarriesOnce(q)'
  <2>1. CarriesOnce(r)'
    BY <1>5 DEF CarriesOnce, AskingLabels, EntryLabels, Owns
  <2>2. ASSUME NEW q \in Procs, q # r PROVE CarriesOnce(q)'
    <3>1. CarriesOnce(q) /\ pc'[q] = pc[q] /\ number'[q] = number[q] /\ Work(q)' = Work(q)
      BY <1>5, <2>2 DEF OnceInv, OthersStay
    <3>2. CASE Owns(q)
      <4>1. PICK e \in Docs : e = Work(q)
        BY <3>2, OwnerHasDoc
      <4>2. e # d
        BY <1>0, <1>1, <2>2, <3>2, <4>1, OwnDocuments, InsideOwns DEF Looked, Inside
      <4>3. row'[e] = row[e] /\ e = Work(q)'
        BY <1>4, <3>1, <4>1, <4>2
      <4> QED
        BY <1>0, <3>1, <3>2, <4>1, <4>3
           DEF CarriesOnce, NothingStored, Ungranted, OnlyGrant, Granted, Authorized
    <3>3. CASE ~Owns(q)
      BY <1>5, <2>2, <3>3, StaysEmptyHanded
    <3> QED
      BY <3>2, <3>3
  <2> QED
    BY <2>1, <2>2
<1>7. StoredOnce'
  <2>1. job' = job /\ pc'[Scheduler] = pc[Scheduler]
    BY <1>5 DEF OthersStay, Work
  <2>2. \A e \in Docs : row'[e].status # "NONE" =>
          /\ (\E n \in 1..(MaxNumber + 1) : vouchers[IssuerOf[e]][n] = e) =>
               job' = e /\ pc'[Scheduler] \in {"idempotency", "complete"}
          /\ idem[e] # 0 => job' = e /\ pc'[Scheduler] = "complete"
    BY <1>2, <1>4, <2>1 DEF NothingStored, OnceInv, StoredOnce
  <2>3. \A e \in abandoned : row'[e].status = "NONE"
    BY <1>2, <1>4 DEF NothingStored, OnceInv, StoredOnce, EmissionInv, DataTypeOK
  <2> QED
    BY <1>0, <2>2, <2>3 DEF OnceInv, StoredOnce, Granted, Authorized
<1>8. NoCaeOrphaned'
  <2> SUFFICES ASSUME NEW c \in Cuits, NEW n \in 1..Len(arca[c]), NEW e \in Docs, e = arca[c][n]
               PROVE  \/ vouchers[IssuerOf[e]][n] = e
                      \/ row'[e].status # "NONE" /\ row'[e].attempted = n
                      \/ \E q \in Procs : Work(q)' = e /\ InHand(q, n)'
                      \/ e \in abandoned
    <3>1. \A c \in Cuits : \A n \in 1..Len(arca[c]) : arca[c][n] \in Docs
      BY DEF EmissionInv, DataTypeOK
    <3> QED
      BY <1>0, <3>1 DEF NoCaeOrphaned
  <2>1. ASSUME NEW q \in Procs, Work(q) = e, InHand(q, n)
        PROVE  \/ row'[e].status # "NONE" /\ row'[e].attempted = n
               \/ \E s \in Procs : Work(s)' = e /\ InHand(s, n)'
    <3>1. CASE q # r
      <4>1. Work(q)' = e /\ InHand(q, n)'
        BY <1>5, <2>1, <3>1 DEF OthersStay, InHand
      <4> QED
        BY <4>1
    <3>2. CASE q = r
      BY <1>1, <1>4, <2>1, <3>2 DEF InHand
    <3> QED
      BY <3>1, <3>2
  <2>2. row[e].status # "NONE" => row'[e] = row[e]
    BY <1>2, <1>4 DEF NothingStored
  <2> QED
    BY <2>1, <2>2 DEF OnceInv, NoCaeOrphaned
<1>9. RecordedHasKey'
  BY <1>0, <1>5, KeysKept DEF OnceInv
<1> QED
  BY <1>6, <1>7, <1>8, <1>9 DEF OnceInv

LEMMA CompleteOnce ==
  ASSUME PriorInv, OnceInv, Conditions, Complete
  PROVE  OnceInv'
<1>0. /\ EmissionInv /\ ControlInv /\ pc[Scheduler] = "complete"
      /\ UNCHANGED <<arca, vouchers, idem, abandoned>>
  BY DEF PriorInv, EmissionInv, Complete
<1>1. PICK d \in Docs, n \in 1..(MaxNumber + 1) : d = job /\ n = number[Scheduler]
  BY <1>0, RowInHand, NumberedInside DEF Inside, Numbered
<1>2. OnlyGrant(d, n) /\ vouchers[IssuerOf[d]][n] = d
  BY <1>0, <1>1 DEF OnceInv, CarriesOnce, Work, PriorInv, RecordInv
<1>3. row' = [row EXCEPT ![d] = NoRow] /\ NextPending
  BY <1>1, OnlyTolerated DEF Complete, Tolerated
<1>4. row'[d].status = "NONE" /\ \A e \in Docs : e # d => row'[e] = row[e]
  BY <1>0, <1>3 DEF EmissionInv, DataTypeOK, NoRow
<1>5. OthersStay(Scheduler) /\ pc'[Scheduler] = "next"
  BY <1>0, <1>3, NextPendingMoves
<1>6. \A q \in Procs : CarriesOnce(q)'
  <2>1. CarriesOnce(Scheduler)'
    BY <1>5 DEF CarriesOnce, AskingLabels, EntryLabels
  <2>2. ASSUME NEW q \in Requests PROVE CarriesOnce(q)'
    <3>1. CarriesOnce(q) /\ pc'[q] = pc[q] /\ number'[q] = number[q] /\ Work(q)' = Work(q)
      BY <1>5 DEF OnceInv, OthersStay
    <3>2. CASE Owns(q)
      <4>1. PICK e \in Docs : e = Work(q)
        BY DEF Work
      <4>2. e # d
        <5>1. Owns(Scheduler) /\ Work(Scheduler) = d
          BY <1>1 DEF Owns, Work
        <5> QED
          BY <1>0, <3>2, <4>1, <5>1, OwnDocuments
      <4>3. row'[e] = row[e] /\ e = Work(q)'
        BY <1>4, <3>1, <4>1, <4>2
      <4> QED
        BY <1>0, <3>1, <3>2, <4>1, <4>3
           DEF CarriesOnce, NothingStored, Ungranted, OnlyGrant, Granted, Authorized
    <3>3. CASE ~Owns(q)
      BY <1>0, <1>5, <3>3, StaysEmptyHanded
    <3> QED
      BY <3>2, <3>3
  <2> QED
    BY <2>1, <2>2
<1>7. StoredOnce'
  <2>1. \A e \in Docs : row'[e].status # "NONE" =>
          /\ ~ \E m \in 1..(MaxNumber + 1) : vouchers[IssuerOf[e]][m] = e
          /\ idem[e] = 0
    BY <1>1, <1>4 DEF OnceInv, StoredOnce
  <2>2. \A e \in abandoned : row'[e].status = "NONE"
    BY <1>0, <1>4 DEF OnceInv, StoredOnce, EmissionInv, DataTypeOK
  <2> QED
    BY <1>0, <2>1, <2>2 DEF OnceInv, StoredOnce, Granted, Authorized
<1>8. NoCaeOrphaned'
  <2> SUFFICES ASSUME NEW c \in Cuits, NEW m \in 1..Len(arca[c]), NEW e \in Docs, e = arca[c][m]
               PROVE  \/ vouchers[IssuerOf[e]][m] = e
                      \/ row'[e].status # "NONE" /\ row'[e].attempted = m
                      \/ \E q \in Procs : Work(q)' = e /\ InHand(q, m)'
                      \/ e \in abandoned
    <3>1. \A c \in Cuits : \A m \in 1..Len(arca[c]) : arca[c][m] \in Docs
      BY <1>0 DEF EmissionInv, DataTypeOK
    <3> QED
      BY <1>0, <3>1 DEF NoCaeOrphaned
  <2>1. CASE e = d
    <3>1. Granted(d, m)
      BY ZenonT(40), <2>1 DEF Granted, Authorized, OnceInv, StoredOnce
    <3>2. m = n
      BY <1>0, <1>2, <3>1, GrantedFits DEF OnlyGrant, EmissionInv
    <3> QED
      BY <1>2, <2>1, <3>2
  <2>2. CASE e # d
    <3>1. ASSUME NEW q \in Procs, Work(q) = e, InHand(q, m)
          PROVE  \E s \in Procs : Work(s)' = e /\ InHand(s, m)'
      <4>1. q # Scheduler
        BY <1>0, <3>1 DEF InHand
      <4>2. Work(q)' = e /\ InHand(q, m)'
        BY <1>5, <3>1, <4>1 DEF OthersStay, InHand
      <4> QED
        BY <4>2
    <3> QED
      BY <1>4, <2>2, <3>1 DEF OnceInv, NoCaeOrphaned
  <2> QED
    BY <2>1, <2>2
<1>9. RecordedHasKey'
  BY <1>0, <1>5, KeysKept DEF OnceInv
<1> QED
  BY <1>6, <1>7, <1>8, <1>9 DEF OnceInv

LEMMA UserDiscardOnce ==
  ASSUME EmissionInv, OnceInv, NEW d \in Docs, UserDiscard(d)
  PROVE  OnceInv'
<1>1. /\ UNCHANGED <<arca, vouchers, idem>> /\ UNCHANGED control
      /\ row[d].status = "FAILED" /\ d # job /\ abandoned' = abandoned \cup {d}
  BY FailedIsNotInHand DEF UserDiscard, Failed
<1>2. row'[d].status = "NONE" /\ \A e \in Docs : e # d => row'[e] = row[e]
  BY DEF UserDiscard, EmissionInv, DataTypeOK, NoRow
<1>3. \A q \in Procs : CarriesOnce(q)'
  <2> SUFFICES ASSUME NEW q \in Procs PROVE CarriesOnce(q)'
    OBVIOUS
  <2>1. CarriesOnce(q) /\ pc'[q] = pc[q] /\ number'[q] = number[q] /\ Work(q)' = Work(q)
    BY <1>1 DEF OnceInv, control, Work
  <2>2. CASE Owns(q)
    <3>1. PICK e \in Docs : e = Work(q)
      BY <2>2, OwnerHasDoc
    <3>2. e # d
      <4>1. CASE q = Scheduler
        BY <1>1, <3>1, <4>1 DEF Work
      <4>2. CASE q # Scheduler
        BY <1>1, <2>1, <2>2, <3>1, <4>2 DEF CarriesOnce, NothingStored
      <4> QED
        BY <4>1, <4>2
    <3>3. row'[e] = row[e] /\ e = Work(q)' /\ (e \in abandoned' <=> e \in abandoned)
      BY <1>1, <1>2, <2>1, <3>1, <3>2
    <3> QED
      BY <1>1, <2>1, <2>2, <3>1, <3>3
         DEF CarriesOnce, NothingStored, Ungranted, OnlyGrant, Granted, Authorized
  <2>3. CASE ~Owns(q)
    <3>1. pc[q] \notin Looked
      BY <2>3, InsideOwns
    <3>2. ~Owns(q)'
      BY <1>1, <2>3 DEF control, Owns
    <3> QED
      BY <2>1, <3>1, <3>2 DEF CarriesOnce, Looked, Inside, Numbered, AskingLabels
  <2> QED
    BY <2>2, <2>3
<1>4. StoredOnce'
  <2>1. job' = job /\ pc' = pc
    BY <1>1 DEF control
  <2>2. \A e \in abandoned' : row'[e].status = "NONE"
    BY <1>1, <1>2 DEF OnceInv, StoredOnce, EmissionInv, DataTypeOK
  <2>3. \A e \in Docs : row'[e].status # "NONE" =>
          /\ (\E m \in 1..(MaxNumber + 1) : vouchers[IssuerOf[e]][m] = e) =>
               job' = e /\ pc'[Scheduler] \in {"idempotency", "complete"}
          /\ idem[e] # 0 => job' = e /\ pc'[Scheduler] = "complete"
    BY <1>2, <2>1 DEF OnceInv, StoredOnce
  <2> QED
    BY <1>1, <2>2, <2>3 DEF OnceInv, StoredOnce, Granted, Authorized
<1>5. NoCaeOrphaned'
  <2>1. \A c \in Cuits : \A m \in 1..Len(arca[c]) : arca[c][m] \in Docs
    BY DEF EmissionInv, DataTypeOK
  <2>2. \A q \in Procs : \A m : Work(q)' = Work(q) /\ (InHand(q, m) => InHand(q, m)')
    BY <1>1 DEF control, Work, InHand
  <2> QED
    BY <1>1, <1>2, <2>1, <2>2 DEF OnceInv, NoCaeOrphaned
<1>6. RecordedHasKey'
  BY <1>1 DEF OnceInv, RecordedHasKey, control, Work
<1> QED
  BY <1>3, <1>4, <1>5, <1>6 DEF OnceInv

-----------------------------------------------------------------------------

LEMMA NextOnce ==
  ASSUME PriorInv, OnceInv, Conditions, NotAfterFailure, [Next]_vars
  PROVE  OnceInv'
<1>0. EmissionInv /\ SeriesInv
  BY DEF PriorInv
<1>1. ASSUME NEW p \in Procs, Step(p) PROVE OnceInv'
  BY <1>1, AskingOnce, CreateVoucherOnce, CreateIdempotencyRecordOnce
<1>2. ASSUME NEW r \in Requests, Post(r) \/ ReplayInside(r) \/ Enqueue(r) PROVE OnceInv'
  BY <1>0, <1>2, PostOnce, EnqueueOnce
<1>3. ASSUME NEW p \in Procs, Acquire(p) PROVE OnceInv'
  BY <1>0, <1>3, AcquireOnce
<1>4. CASE Tick \/ NextRow \/ RecoverAlreadyAuthorized
  BY <1>0, <1>4, TickOnce, RecoveringOnce
<1>5. CASE Bump \/ FailRow \/ Complete
  BY <1>0, <1>5, PutOffOnce, CompleteOnce
<1>6. ASSUME NEW d \in Docs, BackoffElapsed(d) \/ UserRetry(d) \/ UserDiscard(d)
      PROVE  OnceInv'
  BY <1>0, <1>6, RowAgainOnce, UserDiscardOnce
<1>7. ASSUME NEW m \in late, LateArrival(m) PROVE OnceInv'
  BY <1>0, <1>7 DEF SeriesInv
<1>8. ~Crash
  BY OnlyTolerated DEF Crash, Tolerated
<1>9. CASE UNCHANGED vars
  <2>1. \A p \in Procs : CarriesOnce(p)'
    BY <1>9 DEF vars, control, tables, OnceInv, CarriesOnce, NothingStored, Ungranted,
       OnlyGrant, Granted, Authorized, Work, Owns
  <2>2. StoredOnce' /\ RecordedHasKey' /\ NoCaeOrphaned'
    BY <1>9 DEF vars, control, tables, OnceInv, StoredOnce, RecordedHasKey, NoCaeOrphaned,
       Granted, Authorized, Work, InHand
  <2> QED
    BY <2>1, <2>2 DEF OnceInv
<1> QED
  BY <1>1, <1>2, <1>3, <1>4, <1>5, <1>6, <1>7, <1>8, <1>9
     DEF Next, RequestStep, SchedulerStep, Quiescent

LEMMA OnceInvariant ==
  ASSUME Conditions
  PROVE  Spec /\ []NotAfterFailure => []OnceInv
<1>1. Init => OnceInv
  <2> SUFFICES ASSUME Init PROVE OnceInv
    OBVIOUS
  <2>1. \A c \in Cuits : Len(arca[c]) = 0
    BY DEF Init
  <2>2. \A d \in Docs : \A n : ~Granted(d, n)
    BY <2>1 DEF Granted, Authorized, CuitFor
  <2>3. StoredOnce /\ RecordedHasKey /\ NoCaeOrphaned
    BY <2>1, <2>2 DEF Init, StoredOnce, RecordedHasKey, NoCaeOrphaned, NoRow
  <2>4. \A p \in Procs : CarriesOnce(p)
    <3>1. ASSUME NEW r \in Requests PROVE CarriesOnce(r)
      BY <2>2 DEF Init, CarriesOnce, NothingStored, NoRow, Ungranted, Work, AskingLabels,
         EntryLabels
    <3>2. CarriesOnce(Scheduler)
      BY DEF Init, CarriesOnce, AskingLabels
    <3> QED
      BY <3>1, <3>2
  <2> QED
    BY <2>3, <2>4 DEF OnceInv
<1>2. PriorInv /\ NotAfterFailure /\ OnceInv /\ [Next]_vars => OnceInv'
  BY NextOnce
<1>3. Spec => []SeriesInv
  BY SeriesInvariant DEF Conditions, Tolerated
<1> QED
  BY <1>1, <1>2, <1>3, RecordInvariant, PTL DEF Spec, PriorInv

\* No authorisation ARCA gave is lost sight of, for any number of documents,
\* requests, posts of a key, issuers, retries and lost answers: as long as a
\* series has one issuer, nothing fails but ARCA's answers to requests and the
\* network, and no key is looked up again once its row FAILED.
THEOREM NoCaeIsLost ==
  ASSUME Conditions
  PROVE  Spec /\ []NotAfterFailure => []NoCaeOrphaned
<1>1. OnceInv => NoCaeOrphaned
  BY DEF OnceInv
<1> QED
  BY <1>1, OnceInvariant, PTL

LEMMA AtMostOne ==
  ASSUME NEW S, \A m, n \in S : m = n
  PROVE  Cardinality(S) <= 1
<1>1. CASE S = {}
  BY <1>1, FS_EmptySet
<1>2. ASSUME NEW n \in S PROVE Cardinality(S) <= 1
  <2>1. S = {n}
    OBVIOUS
  <2>2. Cardinality({n}) = 1
    BY FS_Singleton
  <2>3. Cardinality(S) = 1
    BY <2>1, <2>2
  <2> QED
    BY <2>3
<1> QED
  BY <1>1, <1>2

\* Under the same conditions a key spends one CAE, however often and however
\* concurrently it is posted and whatever the queue retries.
THEOREM KeySpendsOneCae ==
  ASSUME Conditions
  PROVE  Spec /\ []NotAfterFailure => []OneCaePerKey
<1>1. EmissionInv /\ OnceInv => OneCaePerKey
  <2> SUFFICES ASSUME EmissionInv, OnceInv, NEW d \in Keyed
               PROVE  Cardinality({n \in 1..Len(Authorized(d)) : Authorized(d)[n] = d}) <= 1
    BY DEF OneCaePerKey
  <2> DEFINE granted == {n \in 1..Len(Authorized(d)) : Authorized(d)[n] = d}
  <2>1. \A m, n \in granted : m = n
    <3>1. \A n \in granted : Granted(d, n) /\ n \in 1..MaxNumber
      BY GrantedFits DEF Granted, EmissionInv
    <3> QED
      BY <3>1 DEF OnceInv, StoredOnce
  <2> HIDE DEF granted
  <2>2. Cardinality(granted) <= 1
    BY <2>1, AtMostOne
  <2> QED
    BY <2>2 DEF granted
<1> QED
  BY <1>1, OnceInvariant, EmissionInvariant, PTL
=================================================================================
