------------------------ MODULE VoucherEmission_proofs ------------------------
(***************************************************************************)
(* What the emission path keeps for any number of requests, documents,     *)
(* issuers, retries and faults.                                            *)
(***************************************************************************)
EXTENDS VoucherEmissionProperties, TLAPS

USE ConstantsOK DEF ConstantsOK, Procs

-----------------------------------------------------------------------------
(* Control: the ways a process moves on inside its issuer's lock. *)

\* The scheduler keeps its row or puts it down; its snapshot only shrinks.
KeepsRows == job' \in {job, None} /\ batch' \subseteq batch

LEMMA WorkIsDoc ==
  ASSUME ControlInv, NEW p \in Procs, pc[p] \in Inside
  PROVE  Work(p) \in Docs /\ IssuerOf[Work(p)] \in Issuers /\ CuitFor(Work(p)) \in Cuits
BY DEF ControlInv, ControlTypeOK, SchedulerHasRow, Work, CuitFor

\* finally frees nobody else's lock.
LEMMA OthersStayLocked ==
  ASSUME ControlInv, NEW p \in Procs, NEW q \in Procs, q # p, pc[q] \in Inside
  PROVE  Released(p)[IssuerOf[Work(q)]] = q
BY WorkIsDoc DEF ControlInv, LockHeld, Released

LEMMA GotoKeepsControl ==
  ASSUME ControlInv, NEW p \in Procs, pc[p] \in Inside,
         NEW label \in Inside, NEW n \in 0..(MaxNumber + 1),
         label \in Numbered => n # 0,
         Goto(p, label, n)
  PROVE  ControlInv' /\ KeepsRows
<1> USE DEF ControlInv, ControlTypeOK, Goto
<1>1. ControlTypeOK'
  BY DEF Labels
<1>2. LockHeld'
  BY DEF LockHeld, Work
<1>3. SchedulerHasRow'
  BY DEF SchedulerHasRow
<1>4. NumberChosen'
  BY DEF NumberChosen
<1> QED
  BY <1>1, <1>2, <1>3, <1>4 DEF KeepsRows

LEMMA RespondKeepsControl ==
  ASSUME ControlInv, NEW r \in Requests, NEW a \in Answers, Respond(r, a)
  PROVE  ControlInv' /\ KeepsRows
<1> USE DEF ControlInv, ControlTypeOK, Respond
<1>1. ControlTypeOK'
  BY DEF Labels, Released
<1>2. LockHeld'
  BY OthersStayLocked DEF LockHeld, Work, Inside, Numbered
<1>3. SchedulerHasRow'
  BY DEF SchedulerHasRow
<1>4. NumberChosen'
  BY DEF NumberChosen, Numbered
<1> QED
  BY <1>1, <1>2, <1>3, <1>4 DEF KeepsRows

LEMMA NextPendingKeepsControl ==
  ASSUME ControlInv, NextPending
  PROVE  ControlInv' /\ KeepsRows
<1> USE DEF ControlInv, ControlTypeOK, NextPending
<1>1. ControlTypeOK'
  BY DEF Labels, Released
<1>2. LockHeld'
  BY OthersStayLocked DEF LockHeld, Work, Inside, Numbered
<1>3. SchedulerHasRow'
  BY DEF SchedulerHasRow, Inside, Numbered
<1>4. NumberChosen'
  BY DEF NumberChosen, Numbered
<1> QED
  BY <1>1, <1>2, <1>3, <1>4 DEF KeepsRows

LEMMA ThrowKeepsControl ==
  ASSUME ControlInv, NEW p \in Procs, Throw(p)
  PROVE  ControlInv' /\ KeepsRows
<1>1. CASE p = Scheduler
  <2> USE <1>1 DEF ControlInv, ControlTypeOK, Throw
  <2>1. ControlTypeOK'
    BY DEF Labels, Released
  <2>2. LockHeld'
    BY OthersStayLocked DEF LockHeld, Work, Inside, Numbered
  <2>3. SchedulerHasRow'
    BY DEF SchedulerHasRow, Inside, Numbered
  <2>4. NumberChosen'
    BY DEF NumberChosen, Numbered
  <2> QED
    BY <2>1, <2>2, <2>3, <2>4 DEF KeepsRows
<1>2. CASE p # Scheduler
  BY <1>2, RespondKeepsControl DEF Throw, Answers
<1> QED
  BY <1>1, <1>2

LEMMA RejectKeepsControl ==
  ASSUME ControlInv, NEW p \in Procs, pc[p] \in Inside, Reject(p)
  PROVE  ControlInv' /\ KeepsRows
<1>1. CASE p = Scheduler
  BY <1>1, GotoKeepsControl DEF Reject, Inside, Numbered
<1>2. CASE p # Scheduler
  BY <1>2, RespondKeepsControl DEF Reject, Answers
<1> QED
  BY <1>1, <1>2

LEMMA DeferKeepsControl ==
  ASSUME ControlInv, NEW p \in Procs, pc[p] \in Inside,
         NEW n \in 0..(MaxNumber + 1), Defer(p, n)
  PROVE  ControlInv' /\ KeepsRows
BY GotoKeepsControl DEF Defer, Inside, Numbered

-----------------------------------------------------------------------------
(* The emission invariant, action by action. *)

\* What remains to show of a step that leaves the queue alone.
LEMMA QueueUntouched ==
  ASSUME EmissionInv, ControlInv', KeepsRows, DataTypeOK', UNCHANGED row
  PROVE  EmissionInv'
BY DEF EmissionInv, KeepsRows, RetriesLeft, SnapshotStaysPending

LEMMA FaultCounted ==
  ASSUME DataTypeOK, NEW kind, Fault(kind) \/ NoFault
  PROVE  faults' \in 0..MaxFaults
BY DEF DataTypeOK, Fault, NoFault

LEMMA NumberFits ==
  ASSUME EmissionInv, NEW p \in Procs, pc[p] \in Inside
  PROVE  NextNumber(Work(p)) \in 1..(MaxNumber + 1)
BY WorkIsDoc DEF EmissionInv, DataTypeOK, NextNumber, Authorized

LEMMA PostKeeps ==
  ASSUME EmissionInv, NEW r \in Requests, Post(r)
  PROVE  EmissionInv'
<1> USE DEF EmissionInv, Post
<1>1. CASE Replay(DocOf[r]) = "miss"
  <2> USE <1>1 DEF ControlInv, ControlTypeOK, Goto
  <2>1. ControlTypeOK'
    BY DEF Labels
  <2>2. LockHeld'
    BY DEF LockHeld, Work, Inside, Numbered
  <2>3. SchedulerHasRow'
    BY DEF SchedulerHasRow
  <2>4. NumberChosen'
    BY DEF NumberChosen, Numbered
  <2>5. DataTypeOK' /\ UNCHANGED row /\ KeepsRows
    BY DEF DataTypeOK, tables, KeepsRows
  <2> QED
    BY <2>1, <2>2, <2>3, <2>4, <2>5, QueueUntouched
<1>2. CASE Replay(DocOf[r]) # "miss"
  <2>1. Replay(DocOf[r]) \in Answers
    BY <1>2 DEF Replay, Answers
  <2>2. DataTypeOK' /\ UNCHANGED row
    BY DEF DataTypeOK, tables
  <2> QED
    BY <1>2, <2>1, <2>2, RespondKeepsControl, QueueUntouched
<1> QED
  BY <1>1, <1>2

LEMMA ReplayInsideKeeps ==
  ASSUME EmissionInv, NEW r \in Requests, ReplayInside(r)
  PROVE  EmissionInv'
<1>1. DataTypeOK' /\ UNCHANGED row
  BY DEF EmissionInv, DataTypeOK, tables, ReplayInside
<1>2. ControlInv' /\ KeepsRows
  <2>1. CASE Replay(DocOf[r]) = "miss"
    BY <2>1, GotoKeepsControl DEF EmissionInv, ReplayInside, Inside, Numbered
  <2>2. CASE Replay(DocOf[r]) # "miss"
    <3>1. Replay(DocOf[r]) \in Answers
      BY <2>2 DEF Replay, Answers
    <3> QED
      BY <2>2, <3>1, RespondKeepsControl DEF EmissionInv, ReplayInside
  <2> QED
    BY <2>1, <2>2
<1> QED
  BY <1>1, <1>2, QueueUntouched

LEMMA AcquireKeeps ==
  ASSUME EmissionInv, NEW p \in Procs, Acquire(p)
  PROVE  EmissionInv'
<1> USE DEF EmissionInv, ControlInv, ControlTypeOK, Acquire
<1>1. Work(p) \in Docs /\ IssuerOf[Work(p)] \in Issuers
  BY DEF Work, SchedulerHasRow
<1>2. pc'[p] \in {"recover", "replay"} /\ \A q \in Procs : q # p => pc'[q] = pc[q]
  OBVIOUS
<1>3. ControlTypeOK'
  BY <1>1 DEF Labels, Inside
<1>4. LockHeld'
  <2> SUFFICES ASSUME NEW q \in Procs, pc'[q] \in Inside
               PROVE  holder'[IssuerOf[Work(q)']] = q
    BY DEF LockHeld
  <2>0. Work(q)' = Work(q)
    BY DEF Work
  <2>1. CASE q = p
    BY <2>0, <2>1, <1>1
  <2>2. CASE q # p
    <3>1. holder[IssuerOf[Work(q)]] = q /\ IssuerOf[Work(q)] \in Issuers
      BY <2>2, <1>2, WorkIsDoc DEF LockHeld
    <3>2. holder[IssuerOf[Work(p)]] = None
      BY DEF LockFree
    <3> QED
      BY <2>0, <2>2, <3>1, <3>2
  <2> QED
    BY <2>1, <2>2
<1>5. SchedulerHasRow'
  BY <1>2 DEF SchedulerHasRow, Inside
<1>6. NumberChosen'
  BY <1>2 DEF NumberChosen, Numbered
<1>7. DataTypeOK' /\ UNCHANGED row /\ KeepsRows
  BY DEF DataTypeOK, tables, KeepsRows
<1> QED
  BY <1>3, <1>4, <1>5, <1>6, <1>7, QueueUntouched

-----------------------------------------------------------------------------
(* ... asking ARCA ... *)

LEMMA RecoverKeeps ==
  ASSUME EmissionInv, RecoverAlreadyAuthorized
  PROVE  EmissionInv'
<1>1. DataTypeOK' /\ UNCHANGED row
  <2>1. faults' \in 0..MaxFaults
    BY FaultCounted DEF EmissionInv, RecoverAlreadyAuthorized
  <2> QED
    BY <2>1 DEF EmissionInv, DataTypeOK, tables, RecoverAlreadyAuthorized
<1>2. pc[Scheduler] \in Inside /\ Scheduler \in Procs
  BY DEF RecoverAlreadyAuthorized, Inside
<1>3. Len(Authorized(job)) <= MaxNumber /\ Len(Authorized(job)) \in Nat
  BY <1>2, WorkIsDoc DEF EmissionInv, DataTypeOK, Authorized, Work
<1>4. ControlInv' /\ KeepsRows
  <2>1. CASE /\ row[job].attempted \in 1..Len(Authorized(job))
             /\ Goto(Scheduler, "record", row[job].attempted)
    BY <2>1, <1>2, <1>3, GotoKeepsControl DEF EmissionInv, Inside, Numbered
  <2>2. CASE Goto(Scheduler, "last", 0)
    BY <2>2, <1>2, GotoKeepsControl DEF EmissionInv, Inside, Numbered
  <2>3. CASE Defer(Scheduler, 0)
    BY <2>3, <1>2, DeferKeepsControl DEF EmissionInv
  <2> QED
    BY <2>1, <2>2, <2>3 DEF RecoverAlreadyAuthorized
<1> QED
  BY <1>1, <1>4, QueueUntouched

LEMMA GetLastAuthorizedKeeps ==
  ASSUME EmissionInv, NEW p \in Procs, GetLastAuthorized(p)
  PROVE  EmissionInv'
<1>1. DataTypeOK' /\ UNCHANGED row
  <2>1. faults' \in 0..MaxFaults
    BY FaultCounted DEF EmissionInv, GetLastAuthorized
  <2> QED
    BY <2>1 DEF EmissionInv, DataTypeOK, tables, GetLastAuthorized
<1>2. pc[p] \in Inside /\ number[p] \in 0..(MaxNumber + 1)
  BY DEF EmissionInv, ControlInv, ControlTypeOK, GetLastAuthorized, Inside, Numbered
<1>3. ControlInv' /\ KeepsRows
  <2>1. CASE Goto(p, IF pc[p] = "last" THEN "solicit" ELSE "freshSolicit", NextNumber(Work(p)))
    BY <2>1, <1>2, NumberFits, GotoKeepsControl DEF EmissionInv, Inside, Numbered
  <2>2. CASE Defer(p, number[p])
    BY <2>2, <1>2, DeferKeepsControl DEF EmissionInv
  <2>3. CASE Reject(p)
    BY <2>3, <1>2, RejectKeepsControl DEF EmissionInv
  <2> QED
    BY <2>1, <2>2, <2>3 DEF GetLastAuthorized
<1> QED
  BY <1>1, <1>3, QueueUntouched

\* Where a number has been chosen, it is one.
LEMMA NumberedInside ==
  ASSUME EmissionInv, NEW p \in Procs, pc[p] \in Numbered
  PROVE  pc[p] \in Inside /\ number[p] \in 1..(MaxNumber + 1)
BY DEF EmissionInv, ControlInv, ControlTypeOK, NumberChosen, Inside

\* ARCA numbers one more document.
LEMMA GrantKeepsSeries ==
  ASSUME EmissionInv, NEW d \in Docs, NEW n \in Nat, Grantable(d, n), Grant(d)
  PROVE  /\ arca' \in [Cuits -> Seq(Docs)]
         /\ \A c \in Cuits : Len(arca'[c]) <= MaxNumber
<1> DEFINE c == CuitFor(d)
<1>1. c \in Cuits /\ arca[c] \in Seq(Docs)
  BY DEF EmissionInv, DataTypeOK, CuitFor
<1>2. arca' = [arca EXCEPT ![c] = Append(arca[c], d)]
  BY DEF Grant
<1>3. Append(arca[c], d) \in Seq(Docs) /\ Len(Append(arca[c], d)) = Len(arca[c]) + 1
  BY <1>1
<1>4. Len(arca[c]) + 1 <= MaxNumber
  BY DEF Grantable, NextNumber, Authorized
<1> QED
  BY <1>1, <1>2, <1>3, <1>4 DEF EmissionInv, DataTypeOK

LEMMA CaeGrantedKeeps ==
  ASSUME EmissionInv, NEW p \in Procs, CaeGranted(p)
  PROVE  EmissionInv'
<1>1. pc[p] \in Inside /\ number[p] \in 1..(MaxNumber + 1)
  BY NumberedInside DEF CaeGranted, Numbered
<1>2. DataTypeOK' /\ UNCHANGED row
  <2>1. /\ arca' \in [Cuits -> Seq(Docs)]
        /\ \A c \in Cuits : Len(arca'[c]) <= MaxNumber
    BY <1>1, WorkIsDoc, GrantKeepsSeries DEF EmissionInv, CaeGranted
  <2> QED
    BY <2>1 DEF EmissionInv, DataTypeOK, tables, CaeGranted
<1>3. ControlInv' /\ KeepsRows
  BY <1>1, GotoKeepsControl DEF EmissionInv, CaeGranted, Inside, Numbered
<1> QED
  BY <1>2, <1>3, QueueUntouched

LEMMA CaeReplyLostKeeps ==
  ASSUME EmissionInv, NEW p \in Procs, CaeReplyLost(p)
  PROVE  EmissionInv'
<1>1. pc[p] \in Inside /\ number[p] \in 1..(MaxNumber + 1)
  BY NumberedInside DEF CaeReplyLost, Numbered
<1>2. faults' \in 0..MaxFaults
  BY FaultCounted DEF EmissionInv, CaeReplyLost
<1>3. DataTypeOK' /\ UNCHANGED row
  <2>1. /\ arca' \in [Cuits -> Seq(Docs)]
        /\ \A c \in Cuits : Len(arca'[c]) <= MaxNumber
    BY <1>1, WorkIsDoc, GrantKeepsSeries DEF EmissionInv, CaeReplyLost
  <2> QED
    BY <1>2, <2>1 DEF EmissionInv, DataTypeOK, tables, CaeReplyLost
<1>4. ControlInv' /\ KeepsRows
  BY <1>1, DeferKeepsControl DEF EmissionInv, CaeReplyLost
<1> QED
  BY <1>3, <1>4, QueueUntouched

LEMMA CaeRequestLostKeeps ==
  ASSUME EmissionInv, NEW p \in Procs, CaeRequestLost(p)
  PROVE  EmissionInv'
<1>1. pc[p] \in Inside /\ number[p] \in 1..(MaxNumber + 1)
  BY NumberedInside DEF CaeRequestLost, Numbered
<1>2. faults' \in 0..MaxFaults
  BY FaultCounted DEF EmissionInv, CaeRequestLost
<1>3. DataTypeOK' /\ UNCHANGED row
  BY <1>2 DEF EmissionInv, DataTypeOK, tables, CaeRequestLost
<1>4. ControlInv' /\ KeepsRows
  BY <1>1, DeferKeepsControl DEF EmissionInv, CaeRequestLost
<1> QED
  BY <1>3, <1>4, QueueUntouched

LEMMA CaeRequestLateKeeps ==
  ASSUME EmissionInv, NEW p \in Procs, CaeRequestLate(p)
  PROVE  EmissionInv'
<1>1. pc[p] \in Inside /\ number[p] \in 1..(MaxNumber + 1)
  BY NumberedInside DEF CaeRequestLate, Numbered
<1>2. faults' \in 0..MaxFaults
  BY FaultCounted DEF EmissionInv, CaeRequestLate
<1>3. DataTypeOK' /\ UNCHANGED row
  <2>1. [doc |-> Work(p), number |-> number[p]] \in [doc : Docs, number : 1..(MaxNumber + 1)]
    BY <1>1, WorkIsDoc DEF EmissionInv
  <2> QED
    BY <1>2, <2>1 DEF EmissionInv, DataTypeOK, tables, CaeRequestLate
<1>4. ControlInv' /\ KeepsRows
  BY <1>1, DeferKeepsControl DEF EmissionInv, CaeRequestLate
<1> QED
  BY <1>3, <1>4, QueueUntouched

LEMMA DuplicateNumberKeeps ==
  ASSUME EmissionInv, NEW p \in Procs, DuplicateNumber(p)
  PROVE  EmissionInv'
<1>1. pc[p] \in Inside /\ number[p] \in 1..(MaxNumber + 1)
  BY NumberedInside DEF DuplicateNumber, Numbered
<1>2. faults' \in 0..MaxFaults
  BY FaultCounted DEF EmissionInv, DuplicateNumber
<1>3. DataTypeOK' /\ UNCHANGED row
  BY <1>2 DEF EmissionInv, DataTypeOK, tables, DuplicateNumber
<1>4. ControlInv' /\ KeepsRows
  BY <1>1, GotoKeepsControl, RejectKeepsControl DEF EmissionInv, DuplicateNumber, Inside, Numbered
<1> QED
  BY <1>3, <1>4, QueueUntouched

LEMMA CaeRejectedKeeps ==
  ASSUME EmissionInv, NEW p \in Procs, CaeRejected(p)
  PROVE  EmissionInv'
<1>1. pc[p] \in Inside
  BY DEF CaeRejected, Inside, Numbered
<1>2. faults' \in 0..MaxFaults
  BY FaultCounted DEF EmissionInv, CaeRejected
<1>3. DataTypeOK' /\ UNCHANGED row
  BY <1>2 DEF EmissionInv, DataTypeOK, tables, CaeRejected
<1>4. ControlInv' /\ KeepsRows
  BY <1>1, RejectKeepsControl DEF EmissionInv, CaeRejected
<1> QED
  BY <1>3, <1>4, QueueUntouched

LEMMA DiagnosisFailsKeeps ==
  ASSUME EmissionInv, NEW p \in Procs, DiagnosisFails(p)
  PROVE  EmissionInv'
<1>1. pc[p] \in Inside
  BY DEF DiagnosisFails, Inside, Numbered
<1>2. faults' \in 0..MaxFaults
  BY FaultCounted DEF EmissionInv, DiagnosisFails
<1>3. DataTypeOK' /\ UNCHANGED row
  BY <1>2 DEF EmissionInv, DataTypeOK, tables, DiagnosisFails
<1>4. ControlInv' /\ KeepsRows
  BY <1>1, DeferKeepsControl DEF EmissionInv, DiagnosisFails
<1> QED
  BY <1>3, <1>4, QueueUntouched

LEMMA QueryDuplicateKeeps ==
  ASSUME EmissionInv, NEW p \in Procs, QueryDuplicate(p)
  PROVE  EmissionInv'
<1>1. pc[p] \in Inside /\ number[p] \in 1..(MaxNumber + 1)
  BY NumberedInside DEF QueryDuplicate, Numbered
<1>2. faults' \in 0..MaxFaults
  BY FaultCounted DEF EmissionInv, QueryDuplicate
<1>3. DataTypeOK' /\ UNCHANGED row
  BY <1>2 DEF EmissionInv, DataTypeOK, tables, QueryDuplicate
<1>4. ControlInv' /\ KeepsRows
  BY <1>1, GotoKeepsControl, DeferKeepsControl DEF EmissionInv, QueryDuplicate, Inside, Numbered
<1> QED
  BY <1>3, <1>4, QueueUntouched

LEMMA ConfirmOnboardingKeeps ==
  ASSUME EmissionInv, NEW p \in Procs, ConfirmOnboarding(p)
  PROVE  EmissionInv'
<1>1. pc[p] \in Inside /\ number[p] \in 1..(MaxNumber + 1)
  BY NumberedInside DEF ConfirmOnboarding, Numbered
<1>2. faults' \in 0..MaxFaults
  BY FaultCounted DEF EmissionInv, ConfirmOnboarding
<1>3. DataTypeOK' /\ UNCHANGED row
  BY <1>2 DEF EmissionInv, DataTypeOK, tables, ConfirmOnboarding
<1>4. ControlInv' /\ KeepsRows
  BY <1>1, GotoKeepsControl, DeferKeepsControl DEF EmissionInv, ConfirmOnboarding, Inside, Numbered
<1> QED
  BY <1>3, <1>4, QueueUntouched

-----------------------------------------------------------------------------
(* ... recording, and the queue ... *)

LEMMA CreateVoucherKeeps ==
  ASSUME EmissionInv, NEW p \in Procs, CreateVoucher(p)
  PROVE  EmissionInv'
<1>1. pc[p] \in Inside /\ number[p] \in 1..(MaxNumber + 1)
  BY NumberedInside DEF CreateVoucher, Numbered
<1>2. faults' \in 0..MaxFaults
  BY FaultCounted DEF EmissionInv, CreateVoucher
<1>3. vouchers' \in [Issuers -> [1..(MaxNumber + 1) -> Docs \cup {None}]]
  <2> DEFINE i == IssuerOf[Work(p)]
             Series == [1..(MaxNumber + 1) -> Docs \cup {None}]
  <2>1. i \in Issuers /\ Work(p) \in Docs /\ vouchers \in [Issuers -> Series]
    BY <1>1, WorkIsDoc DEF EmissionInv, DataTypeOK
  <2>2. [vouchers[i] EXCEPT ![number[p]] = Work(p)] \in Series
    BY <2>1, <1>1
  <2>3. [vouchers EXCEPT ![i] = [vouchers[i] EXCEPT ![number[p]] = Work(p)]] \in [Issuers -> Series]
    <3> HIDE DEF i, Series
    <3> QED BY <2>1, <2>2
  <2>4. \/ vouchers' = [vouchers EXCEPT ![i] = [vouchers[i] EXCEPT ![number[p]] = Work(p)]]
        \/ vouchers' = vouchers
    BY DEF CreateVoucher
  <2> HIDE DEF i, Series
  <2>5. vouchers' \in [Issuers -> Series]
    BY <2>1, <2>3, <2>4
  <2> QED
    BY <2>5 DEF Series
<1>4. DataTypeOK' /\ UNCHANGED row
  BY <1>2, <1>3 DEF EmissionInv, DataTypeOK, CreateVoucher
<1>5. ControlInv' /\ KeepsRows
  BY <1>1, GotoKeepsControl, ThrowKeepsControl DEF EmissionInv, CreateVoucher, Inside, Numbered
<1> QED
  BY <1>4, <1>5, QueueUntouched

LEMMA CreateIdempotencyRecordKeeps ==
  ASSUME EmissionInv, NEW p \in Procs, CreateIdempotencyRecord(p)
  PROVE  EmissionInv'
<1>1. pc[p] \in Inside /\ number[p] \in 1..(MaxNumber + 1)
  BY NumberedInside DEF CreateIdempotencyRecord, Numbered
<1>2. faults' \in 0..MaxFaults
  BY FaultCounted DEF EmissionInv, CreateIdempotencyRecord
<1>3. DataTypeOK' /\ UNCHANGED row
  <2>1. idem' \in [Docs -> 0..(MaxNumber + 1)]
    <3>1. number[p] \in 0..(MaxNumber + 1) /\ idem \in [Docs -> 0..(MaxNumber + 1)]
      BY <1>1 DEF EmissionInv, DataTypeOK
    <3>2. idem' = idem \/ idem' = [idem EXCEPT ![Work(p)] = number[p]]
      BY DEF CreateIdempotencyRecord, RecordedNumber
    <3> QED
      BY <3>1, <3>2
  <2> QED
    BY <1>2, <2>1 DEF EmissionInv, DataTypeOK, CreateIdempotencyRecord
<1>4. ControlInv' /\ KeepsRows
  <2>1. CASE Throw(p)
    BY <2>1, ThrowKeepsControl DEF EmissionInv
  <2>2. CASE p = Scheduler /\ Goto(p, "complete", number[p])
    BY <2>2, <1>1, GotoKeepsControl DEF EmissionInv, Inside, Numbered
  <2>3. CASE p # Scheduler /\ Respond(p, "issued")
    BY <2>3, RespondKeepsControl DEF EmissionInv, Answers
  <2> QED
    BY <2>1, <2>2, <2>3 DEF CreateIdempotencyRecord
<1> QED
  BY <1>3, <1>4, QueueUntouched

\* A row stays a row when a field is rewritten.
LEMMA RowFields ==
  ASSUME NEW written \in Rows
  PROVE  /\ \A status \in Statuses : [written EXCEPT !.status = status] \in Rows
         /\ \A retries \in 0..MaxRetries : [written EXCEPT !.retries = retries] \in Rows
         /\ \A due \in BOOLEAN : [written EXCEPT !.due = due] \in Rows
BY DEF Rows

\* A step that writes the row of d only, and leaves it PENDING if the
\* scheduler still holds it.
LEMMA OneRowWritten ==
  ASSUME EmissionInv, ControlInv', KeepsRows, DataTypeOK', NEW d \in Docs,
         \A e \in Docs : e # d => row'[e] = row[e],
         row'[d].status = "PENDING" => row'[d].retries < MaxRetries,
         row'[d].status # "PENDING" => d \notin batch' /\ d # job'
  PROVE  EmissionInv'
<1>1. RetriesLeft'
  BY DEF EmissionInv, RetriesLeft
<1>2. batch \subseteq Docs /\ job \in Docs \cup {None}
  BY DEF EmissionInv, ControlInv, ControlTypeOK
<1>3. SnapshotStaysPending'
  BY <1>2 DEF EmissionInv, KeepsRows, SnapshotStaysPending
<1> QED
  BY <1>1, <1>3 DEF EmissionInv

\* The scheduler's own row is PENDING and has retries left.
LEMMA RowInHand ==
  ASSUME EmissionInv, pc[Scheduler] \in Inside \cup {"waiting"}
  PROVE  /\ job \in Docs /\ job \notin batch
         /\ row[job].status = "PENDING" /\ row[job].retries \in 0..(MaxRetries - 1)
BY DEF EmissionInv, ControlInv, ControlTypeOK, SchedulerHasRow, SnapshotStaysPending,
       RetriesLeft, DataTypeOK, Rows

LEMMA EnqueueKeeps ==
  ASSUME EmissionInv, NEW r \in Requests, Enqueue(r)
  PROVE  EmissionInv'
<1> DEFINE d == DocOf[r]
<1>1. ControlInv' /\ KeepsRows
  BY RespondKeepsControl, ThrowKeepsControl DEF EmissionInv, Enqueue, Answers
<1>2. faults' \in 0..MaxFaults
  BY FaultCounted DEF EmissionInv, Enqueue
<1>3. number[r] \in 0..(MaxNumber + 1)
  BY DEF EmissionInv, ControlInv, ControlTypeOK
<1>4. CASE UNCHANGED row
  <2>1. DataTypeOK'
    BY <1>2, <1>4 DEF EmissionInv, DataTypeOK, Enqueue
  <2> QED
    BY <1>1, <1>4, <2>1, QueueUntouched
<1>5. CASE /\ row[d].status = "NONE"
           /\ row' = [row EXCEPT ![d] = [status |-> "PENDING", retries |-> 0,
                          attempted |-> AttemptedNumber(r), due |-> FALSE]]
  <2>1. DataTypeOK'
    BY <1>2, <1>3, <1>5 DEF EmissionInv, DataTypeOK, Enqueue, AttemptedNumber, Rows, Statuses
  <2>2. /\ row'[d].status = "PENDING" /\ row'[d].retries < MaxRetries
        /\ \A e \in Docs : e # d => row'[e] = row[e]
    BY <1>5 DEF EmissionInv, DataTypeOK, Rows
  <2> QED
    BY <1>1, <2>1, <2>2, OneRowWritten
<1> QED
  BY <1>4, <1>5 DEF Enqueue

\* Steps outside the processes.
LEMMA ControlUntouched ==
  ASSUME EmissionInv, UNCHANGED control
  PROVE  ControlInv' /\ KeepsRows
BY DEF EmissionInv, ControlInv, ControlTypeOK, LockHeld, SchedulerHasRow, NumberChosen,
       control, KeepsRows, Work

LEMMA BackoffElapsedKeeps ==
  ASSUME EmissionInv, NEW d \in Docs, BackoffElapsed(d)
  PROVE  EmissionInv'
<1>1. DataTypeOK'
  <2>1. row[d] \in Rows /\ row \in [Docs -> Rows]
    BY DEF EmissionInv, DataTypeOK
  <2>2. [row[d] EXCEPT !.due = TRUE] \in Rows
    BY <2>1 DEF Rows
  <2>3. row' = [row EXCEPT ![d] = [row[d] EXCEPT !.due = TRUE]]
    BY DEF BackoffElapsed
  <2> QED
    BY <2>1, <2>2, <2>3 DEF EmissionInv, DataTypeOK, BackoffElapsed
<1>2. /\ row'[d].status = row[d].status /\ row'[d].retries = row[d].retries
      /\ \A e \in Docs : e # d => row'[e] = row[e]
  BY DEF EmissionInv, DataTypeOK, Rows, BackoffElapsed
<1> QED
  BY <1>1, <1>2, ControlUntouched, OneRowWritten DEF BackoffElapsed, EmissionInv, RetriesLeft

\* Only a FAILED row is a user's to change, and the scheduler holds none.
LEMMA FailedIsNotInHand ==
  ASSUME EmissionInv, NEW d \in Docs, Failed(d)
  PROVE  d \notin batch /\ d # job
BY DEF EmissionInv, SnapshotStaysPending, Failed

LEMMA UserRetryKeeps ==
  ASSUME EmissionInv, NEW d \in Docs, UserRetry(d)
  PROVE  EmissionInv'
<1>1. DataTypeOK'
  <2> DEFINE reset == [row[d] EXCEPT !.retries = 0]
             due == [reset EXCEPT !.due = TRUE]
             retried == [due EXCEPT !.status = "PENDING"]
  <2>1. row[d] \in Rows /\ row \in [Docs -> Rows]
    BY DEF EmissionInv, DataTypeOK
  <2>2. reset \in Rows
    BY <2>1, RowFields
  <2>3. due \in Rows
    BY <2>2, RowFields
  <2>4. retried \in Rows
    BY <2>3, RowFields DEF Statuses
  <2>5. row' = [row EXCEPT ![d] = retried]
    BY <2>1 DEF UserRetry
  <2>6. row' \in [Docs -> Rows]
    <3> HIDE DEF retried
    <3> QED
      BY <2>1, <2>4, <2>5
  <2> QED
    BY <2>6 DEF EmissionInv, DataTypeOK, UserRetry
<1>2. /\ row'[d].status = "PENDING" /\ row'[d].retries < MaxRetries
      /\ \A e \in Docs : e # d => row'[e] = row[e]
  BY DEF EmissionInv, DataTypeOK, Rows, UserRetry
<1> QED
  BY <1>1, <1>2, ControlUntouched, OneRowWritten DEF UserRetry

LEMMA UserDiscardKeeps ==
  ASSUME EmissionInv, NEW d \in Docs, UserDiscard(d)
  PROVE  EmissionInv'
<1>1. DataTypeOK'
  BY DEF EmissionInv, DataTypeOK, Rows, UserDiscard, NoRow, Statuses
<1>2. /\ row'[d].status = "NONE"
      /\ \A e \in Docs : e # d => row'[e] = row[e]
  BY DEF EmissionInv, DataTypeOK, UserDiscard, NoRow
<1>3. d \notin batch /\ d # job /\ UNCHANGED <<batch, job>>
  BY FailedIsNotInHand DEF UserDiscard, control
<1> QED
  BY <1>1, <1>2, <1>3, ControlUntouched, OneRowWritten DEF UserDiscard

LEMMA TickKeeps ==
  ASSUME EmissionInv, Tick
  PROVE  EmissionInv'
<1> USE DEF Tick, EmissionInv, ControlInv
<1>1. batch' \subseteq Due /\ Due \subseteq Docs
  BY DEF Due
<1>2. job = None /\ pc' = [pc EXCEPT ![Scheduler] = "next"]
  BY DEF SchedulerHasRow, Inside, Numbered
<1>3. ControlTypeOK'
  BY <1>1 DEF ControlTypeOK, Labels
<1>4. LockHeld'
  BY <1>2 DEF LockHeld, Work, ControlTypeOK, Inside, Numbered
<1>5. SchedulerHasRow'
  BY <1>1, <1>2 DEF SchedulerHasRow, ControlTypeOK, Inside, Numbered
<1>6. NumberChosen'
  BY <1>2 DEF NumberChosen, ControlTypeOK, Numbered
<1>7. DataTypeOK' /\ RetriesLeft'
  BY DEF DataTypeOK, RetriesLeft, tables
<1>8. SnapshotStaysPending'
  BY <1>1, <1>2 DEF SnapshotStaysPending, Due, tables
<1> QED
  BY <1>3, <1>4, <1>5, <1>6, <1>7, <1>8

LEMMA NextRowKeeps ==
  ASSUME EmissionInv, NextRow
  PROVE  EmissionInv'
<1> USE DEF NextRow, EmissionInv, ControlInv
<1>1. job = None /\ batch \subseteq Docs
  BY DEF SchedulerHasRow, ControlTypeOK, Inside, Numbered
<1>2. ControlTypeOK'
  BY <1>1 DEF ControlTypeOK, Labels
<1>3. LockHeld'
  BY DEF LockHeld, Work, ControlTypeOK, Inside, Numbered
<1>4. SchedulerHasRow'
  BY <1>1 DEF SchedulerHasRow, ControlTypeOK, Inside, Numbered
<1>5. NumberChosen'
  BY DEF NumberChosen, ControlTypeOK, Numbered
<1>6. DataTypeOK' /\ RetriesLeft'
  BY DEF DataTypeOK, RetriesLeft, tables
<1>7. SnapshotStaysPending'
  BY <1>1 DEF SnapshotStaysPending, tables
<1> QED
  BY <1>2, <1>3, <1>4, <1>5, <1>6, <1>7

LEMMA BumpKeeps ==
  ASSUME EmissionInv, Bump
  PROVE  EmissionInv'
<1> DEFINE retries == row[job].retries + 1
           counted == [row[job] EXCEPT !.retries = retries]
           slept == [counted EXCEPT !.due = Exhausted(retries) /\ row[job].due]
           bumped == [slept EXCEPT !.status = IF Exhausted(retries) THEN "FAILED" ELSE "PENDING"]
<1>1. /\ job \in Docs /\ row[job].status = "PENDING"
      /\ row \in [Docs -> Rows] /\ retries \in 0..MaxRetries /\ row[job].due \in BOOLEAN
  <2>1. pc[Scheduler] \in Inside
    BY DEF Bump, Inside
  <2>2. /\ job \in Docs /\ row[job].status = "PENDING"
        /\ row[job].retries \in 0..(MaxRetries - 1) /\ row \in [Docs -> Rows]
    BY <2>1, RowInHand DEF EmissionInv, DataTypeOK
  <2>3. row[job].due \in BOOLEAN
    BY <2>2 DEF Rows
  <2> QED
    BY <2>2, <2>3
<1>2. faults' \in 0..MaxFaults
  BY FaultCounted DEF EmissionInv, Bump
<1>3. CASE NextPending /\ row' = [row EXCEPT ![job].retries = retries,
                                    ![job].due = Exhausted(retries) /\ @,
                                    ![job].status = IF Exhausted(retries) THEN "FAILED" ELSE @]
  <2>1. row' = [row EXCEPT ![job] = bumped]
    BY <1>1, <1>3 DEF Rows
  <2>2. bumped \in Rows
    <3>1. counted \in Rows
      BY <1>1, RowFields
    <3>2. slept \in Rows
      BY <1>1, <3>1, RowFields
    <3> QED
      BY <3>2, RowFields DEF Statuses
  <2>3. DataTypeOK'
    BY <1>1, <1>2, <2>1, <2>2 DEF EmissionInv, DataTypeOK, Bump
  <2>4. /\ \A e \in Docs : e # job => row'[e] = row[e]
        /\ row'[job].status = "PENDING" => row'[job].retries < MaxRetries
    BY <1>1, <2>1, <2>2 DEF Rows, Exhausted
  <2>5. ControlInv' /\ KeepsRows
    BY <1>3, NextPendingKeepsControl DEF EmissionInv
  <2>6. job \notin batch' /\ job # job'
    BY <1>1, <1>3, RowInHand DEF NextPending, Bump, Inside
  <2> QED
    BY <1>1, <2>3, <2>4, <2>5, <2>6, OneRowWritten
<1>4. CASE Throw(Scheduler) /\ UNCHANGED row
  <2>1. DataTypeOK'
    BY <1>2, <1>4 DEF EmissionInv, DataTypeOK, Bump
  <2> QED
    BY <1>4, <2>1, ThrowKeepsControl, QueueUntouched DEF EmissionInv
<1> QED
  BY <1>3, <1>4 DEF Bump

LEMMA FailRowKeeps ==
  ASSUME EmissionInv, FailRow
  PROVE  EmissionInv'
<1> DEFINE ended == [row[job] EXCEPT !.status = "FAILED"]
           failed == [ended EXCEPT !.retries = row[job].retries + 1]
<1>1. /\ job \in Docs /\ row[job].status = "PENDING"
      /\ row \in [Docs -> Rows] /\ row[job].retries + 1 \in 0..MaxRetries
  <2>1. pc[Scheduler] \in Inside
    BY DEF FailRow, Inside
  <2> QED
    BY <2>1, RowInHand DEF EmissionInv, DataTypeOK
<1>2. faults' \in 0..MaxFaults
  BY FaultCounted DEF EmissionInv, FailRow
<1>3. CASE NextPending /\ row' = [row EXCEPT ![job].status = "FAILED", ![job].retries = @ + 1]
  <2>1. row' = [row EXCEPT ![job] = failed]
    BY <1>1, <1>3 DEF Rows
  <2>2. failed \in Rows
    <3>1. ended \in Rows
      BY <1>1, RowFields DEF Statuses
    <3> QED
      BY <1>1, <3>1, RowFields
  <2>3. DataTypeOK'
    BY <1>1, <1>2, <2>1, <2>2 DEF EmissionInv, DataTypeOK, FailRow
  <2>4. /\ \A e \in Docs : e # job => row'[e] = row[e]
        /\ row'[job].status # "PENDING"
    BY <1>1, <2>1, <2>2 DEF Rows
  <2>5. ControlInv' /\ KeepsRows
    BY <1>3, NextPendingKeepsControl DEF EmissionInv
  <2>6. job \notin batch' /\ job # job'
    BY <1>1, <1>3, RowInHand DEF NextPending, FailRow, Inside
  <2> QED
    BY <1>1, <2>3, <2>4, <2>5, <2>6, OneRowWritten
<1>4. CASE Throw(Scheduler) /\ UNCHANGED row
  <2>1. DataTypeOK'
    BY <1>2, <1>4 DEF EmissionInv, DataTypeOK, FailRow
  <2> QED
    BY <1>4, <2>1, ThrowKeepsControl, QueueUntouched DEF EmissionInv
<1> QED
  BY <1>3, <1>4 DEF FailRow

LEMMA CompleteKeeps ==
  ASSUME EmissionInv, Complete
  PROVE  EmissionInv'
<1>1. job \in Docs /\ row[job].status = "PENDING" /\ row \in [Docs -> Rows]
  BY RowInHand DEF EmissionInv, DataTypeOK, Complete, Inside, Numbered
<1>2. faults' \in 0..MaxFaults
  BY FaultCounted DEF EmissionInv, Complete
<1>3. CASE NextPending /\ row' = [row EXCEPT ![job] = NoRow]
  <2>1. DataTypeOK'
    BY <1>1, <1>2, <1>3 DEF EmissionInv, DataTypeOK, Complete, NoRow, Rows, Statuses
  <2>2. /\ \A e \in Docs : e # job => row'[e] = row[e]
        /\ row'[job].status # "PENDING"
    BY <1>1, <1>3 DEF NoRow
  <2>3. ControlInv' /\ KeepsRows
    BY <1>3, NextPendingKeepsControl DEF EmissionInv
  <2>4. job \notin batch' /\ job # job'
    BY <1>1, <1>3, RowInHand DEF NextPending, Complete, Inside, Numbered
  <2> QED
    BY <1>1, <2>1, <2>2, <2>3, <2>4, OneRowWritten
<1>4. CASE Throw(Scheduler) /\ UNCHANGED row
  <2>1. DataTypeOK'
    BY <1>2, <1>4 DEF EmissionInv, DataTypeOK, Complete
  <2> QED
    BY <1>4, <2>1, ThrowKeepsControl, QueueUntouched DEF EmissionInv
<1> QED
  BY <1>3, <1>4 DEF Complete

-----------------------------------------------------------------------------
(* ... and the environment. *)

LEMMA LateArrivalKeeps ==
  ASSUME EmissionInv, NEW m \in late, LateArrival(m)
  PROVE  EmissionInv'
<1>1. m.doc \in Docs /\ m.number \in Nat
  BY DEF EmissionInv, DataTypeOK
<1>2. /\ arca' \in [Cuits -> Seq(Docs)]
      /\ \A c \in Cuits : Len(arca'[c]) <= MaxNumber
  <2>1. CASE Grantable(m.doc, m.number)
    BY <1>1, <2>1, GrantKeepsSeries DEF LateArrival
  <2>2. CASE ~Grantable(m.doc, m.number)
    BY <2>2 DEF LateArrival, EmissionInv, DataTypeOK
  <2> QED
    BY <2>1, <2>2
<1>3. DataTypeOK' /\ UNCHANGED row
  BY <1>2 DEF EmissionInv, DataTypeOK, tables, LateArrival
<1> QED
  BY <1>3, ControlUntouched, QueueUntouched DEF LateArrival

LEMMA CrashKeeps ==
  ASSUME EmissionInv, Crash
  PROVE  EmissionInv'
<1> USE DEF Crash
<1>1. faults' \in 0..MaxFaults
  BY FaultCounted DEF EmissionInv
<1>2. DataTypeOK' /\ UNCHANGED row
  BY <1>1 DEF EmissionInv, DataTypeOK, tables
<1>3. \A p \in Procs : pc'[p] \in {"idle", "done"}
  OBVIOUS
<1>4. ControlTypeOK'
  BY DEF EmissionInv, ControlInv, ControlTypeOK, Labels
<1>5. LockHeld' /\ SchedulerHasRow' /\ NumberChosen'
  BY <1>3 DEF LockHeld, SchedulerHasRow, NumberChosen, Inside, Numbered
<1> QED
  BY <1>2, <1>4, <1>5, QueueUntouched DEF ControlInv, KeepsRows

-----------------------------------------------------------------------------

LEMMA StepKeeps ==
  ASSUME EmissionInv, NEW p \in Procs, Step(p)
  PROVE  EmissionInv'
BY GetLastAuthorizedKeeps, CaeGrantedKeeps, CaeReplyLostKeeps, CaeRequestLostKeeps,
   CaeRequestLateKeeps, DuplicateNumberKeeps, CaeRejectedKeeps, DiagnosisFailsKeeps,
   QueryDuplicateKeeps, ConfirmOnboardingKeeps, CreateVoucherKeeps,
   CreateIdempotencyRecordKeeps DEF Step

LEMMA RequestStepKeeps ==
  ASSUME EmissionInv, NEW r \in Requests, RequestStep(r)
  PROVE  EmissionInv'
BY ReplayInsideKeeps, EnqueueKeeps, StepKeeps DEF RequestStep

LEMMA SchedulerStepKeeps ==
  ASSUME EmissionInv, SchedulerStep
  PROVE  EmissionInv'
BY TickKeeps, NextRowKeeps, RecoverKeeps, BumpKeeps, FailRowKeeps, CompleteKeeps,
   StepKeeps DEF SchedulerStep

LEMMA StutterKeeps ==
  ASSUME EmissionInv, UNCHANGED vars
  PROVE  EmissionInv'
<1>1. DataTypeOK' /\ UNCHANGED row /\ UNCHANGED control
  BY DEF vars, tables, EmissionInv, DataTypeOK
<1> QED
  BY <1>1, ControlUntouched, QueueUntouched

\* The lock, the snapshot and the counters agree in every reachable state,
\* whatever the requests, issuers, retries and faults.
THEOREM EmissionInvariant == Spec => []EmissionInv
<1>1. Init => EmissionInv
  <2> SUFFICES ASSUME Init PROVE EmissionInv
    OBVIOUS
  <2> USE DEF Init
  <2>1. ControlInv
    BY DEF ControlInv, ControlTypeOK, LockHeld, SchedulerHasRow, NumberChosen,
           Labels, Inside, Numbered, Answers
  <2>2. DataTypeOK
    BY DEF DataTypeOK, NoRow, Rows, Statuses
  <2>3. RetriesLeft /\ SnapshotStaysPending
    BY DEF RetriesLeft, SnapshotStaysPending, NoRow
  <2> QED
    BY <2>1, <2>2, <2>3 DEF EmissionInv
<1>2. EmissionInv /\ [Next]_vars => EmissionInv'
  <2> SUFFICES ASSUME EmissionInv, [Next]_vars PROVE EmissionInv'
    OBVIOUS
  <2>1. CASE \E r \in Requests : Post(r) \/ RequestStep(r)
    BY <2>1, PostKeeps, RequestStepKeeps
  <2>2. CASE \E p \in Procs : Acquire(p)
    BY <2>2, AcquireKeeps
  <2>3. CASE SchedulerStep
    BY <2>3, SchedulerStepKeeps
  <2>4. CASE \E d \in Docs : BackoffElapsed(d) \/ UserRetry(d) \/ UserDiscard(d)
    BY <2>4, BackoffElapsedKeeps, UserRetryKeeps, UserDiscardKeeps
  <2>5. CASE \E m \in late : LateArrival(m)
    BY <2>5, LateArrivalKeeps
  <2>6. CASE Crash
    BY <2>6, CrashKeeps
  <2>7. CASE UNCHANGED vars
    BY <2>7, StutterKeeps
  <2> QED
    BY <2>1, <2>2, <2>3, <2>4, <2>5, <2>6, <2>7 DEF Next, Quiescent
<1> QED
  BY <1>1, <1>2, PTL DEF Spec

\* Every variable keeps its type: numbers stay within what ARCA may assign,
\* retry counters within the policy.
THEOREM TypeCorrect == Spec => []TypeOK
BY EmissionInvariant, PTL DEF EmissionInv, ControlInv, TypeOK

\* What the scheduler read before waiting for the lock still holds when it
\* gets it: its rows are PENDING.
THEOREM SnapshotIsCurrent == Spec => []SnapshotStaysPending
BY EmissionInvariant, PTL DEF EmissionInv

-----------------------------------------------------------------------------
(* Where a step leaves its process, and that it leaves the others alone. *)

OthersStay(p) ==
  \A q \in Procs : q # p =>
    pc'[q] = pc[q] /\ number'[q] = number[q] /\ Work(q)' = Work(q)

LEMMA GotoMoves ==
  ASSUME ControlInv, NEW p \in Procs, NEW label, NEW n, Goto(p, label, n)
  PROVE  /\ OthersStay(p) /\ UNCHANGED answer
         /\ pc'[p] = label /\ number'[p] = n /\ Work(p)' = Work(p)
BY DEF ControlInv, ControlTypeOK, Goto, OthersStay, Work

LEMMA RespondMoves ==
  ASSUME ControlInv, NEW r \in Requests, NEW a, Respond(r, a)
  PROVE  /\ OthersStay(r) /\ pc'[r] = "done"
         /\ answer'[r] = a /\ \A s \in Requests : s # r => answer'[s] = answer[s]
BY DEF ControlInv, ControlTypeOK, Respond, OthersStay, Work

LEMMA NextPendingMoves ==
  ASSUME ControlInv, NextPending
  PROVE  OthersStay(Scheduler) /\ pc'[Scheduler] = "next" /\ UNCHANGED answer
BY DEF ControlInv, ControlTypeOK, NextPending, OthersStay, Work

LEMMA ThrowMoves ==
  ASSUME ControlInv, NEW p \in Procs, Throw(p)
  PROVE  /\ OthersStay(p) /\ pc'[p] \in {"idle", "done"}
         /\ \A s \in Requests : answer'[s] \in {answer[s], "error"}
<1>1. CASE p = Scheduler
  BY <1>1 DEF ControlInv, ControlTypeOK, Throw, OthersStay, Work
<1>2. CASE p # Scheduler
  BY <1>2, RespondMoves DEF Throw
<1> QED
  BY <1>1, <1>2

LEMMA RejectMoves ==
  ASSUME ControlInv, NEW p \in Procs, Reject(p)
  PROVE  /\ OthersStay(p) /\ pc'[p] \in {"fail", "done"}
         /\ \A s \in Requests : answer'[s] \in {answer[s], "rejected"}
BY GotoMoves, RespondMoves DEF Reject

LEMMA DeferMoves ==
  ASSUME ControlInv, NEW p \in Procs, NEW n, Defer(p, n)
  PROVE  OthersStay(p) /\ pc'[p] \in {"bump", "enqueue"} /\ UNCHANGED answer
BY GotoMoves DEF Defer

-----------------------------------------------------------------------------
(* What is recorded stays recorded under the right document. *)

\* Nobody starts recording and nobody is answered 201.
Quiet ==
  /\ \A p \in Procs : pc'[p] \in {"idempotency", "complete"} =>
       pc'[p] = pc[p] /\ number'[p] = number[p] /\ Work(p)' = Work(p)
  /\ \A r \in Requests : answer'[r] = "issued" => answer[r] = "issued"

LEMMA QuietKeepsRecords ==
  ASSUME RecordInv, Quiet, UNCHANGED <<vouchers, idem>>
  PROVE  RecordInv'
BY DEF RecordInv, IssuedIsRecorded, Quiet

LEMMA StepIsQuiet ==
  ASSUME EmissionInv, NEW p \in Procs, Step(p), ~CreateVoucher(p), ~CreateIdempotencyRecord(p)
  PROVE  Quiet /\ UNCHANGED <<vouchers, idem>>
<1> USE DEF EmissionInv, tables
<1>1. CASE GetLastAuthorized(p)
  BY <1>1, GotoMoves, DeferMoves, RejectMoves DEF GetLastAuthorized, Quiet, OthersStay
<1>2. CASE CaeGranted(p)
  BY <1>2, GotoMoves DEF CaeGranted, Quiet, OthersStay
<1>3. CASE CaeReplyLost(p) \/ CaeRequestLost(p) \/ CaeRequestLate(p) \/ DiagnosisFails(p)
  BY <1>3, DeferMoves DEF CaeReplyLost, CaeRequestLost, CaeRequestLate, DiagnosisFails,
     Quiet, OthersStay
<1>4. CASE DuplicateNumber(p) \/ CaeRejected(p)
  BY <1>4, GotoMoves, RejectMoves DEF DuplicateNumber, CaeRejected, Quiet, OthersStay
<1>5. CASE QueryDuplicate(p) \/ ConfirmOnboarding(p)
  BY <1>5, GotoMoves, DeferMoves DEF QueryDuplicate, ConfirmOnboarding, Quiet, OthersStay
<1> QED
  BY <1>1, <1>2, <1>3, <1>4, <1>5 DEF Step

LEMMA CreateVoucherRecords ==
  ASSUME EmissionInv, RecordInv, NEW p \in Procs, CreateVoucher(p)
  PROVE  RecordInv'
<1> DEFINE d == Work(p)
           i == IssuerOf[d]
           n == number[p]
<1>1. CASE Throw(p) /\ UNCHANGED vouchers
  <2>1. Quiet
    BY <1>1, ThrowMoves DEF EmissionInv, Quiet, OthersStay
  <2> QED
    BY <1>1, <2>1, QuietKeepsRecords DEF CreateVoucher
<1>2. CASE /\ vouchers[i][n] = None
           /\ vouchers' = [vouchers EXCEPT ![i][n] = d]
           /\ Goto(p, "idempotency", n)
  <2>1. /\ d \in Docs /\ i \in Issuers /\ n \in 1..(MaxNumber + 1)
        /\ vouchers \in [Issuers -> [1..(MaxNumber + 1) -> Docs \cup {None}]]
    BY WorkIsDoc, NumberedInside DEF EmissionInv, DataTypeOK, CreateVoucher, Numbered
  <2>2. vouchers'[i][n] = d
    BY <2>1, <1>2
  <2>3. \A j \in Issuers : \A m \in 1..(MaxNumber + 1) :
          vouchers[j][m] # None => vouchers'[j][m] = vouchers[j][m]
    BY <2>1, <1>2
  <2>4. /\ OthersStay(p) /\ UNCHANGED answer
        /\ pc'[p] = "idempotency" /\ number'[p] = n /\ Work(p)' = d
    BY <1>2, GotoMoves DEF EmissionInv
  <2>5. \A q \in Procs : pc'[q] \in {"idempotency", "complete"} =>
          vouchers'[IssuerOf[Work(q)']][number'[q]] = Work(q)'
    <3> SUFFICES ASSUME NEW q \in Procs, q # p, pc'[q] \in {"idempotency", "complete"}
                 PROVE  vouchers'[IssuerOf[Work(q)']][number'[q]] = Work(q)'
      BY <2>2, <2>4
    <3>1. pc[q] \in Numbered /\ pc'[q] = pc[q] /\ number'[q] = number[q] /\ Work(q)' = Work(q)
      BY <2>4 DEF OthersStay, Numbered
    <3>2. Work(q) \in Docs /\ IssuerOf[Work(q)] \in Issuers /\ number[q] \in 1..(MaxNumber + 1)
      BY <3>1, WorkIsDoc, NumberedInside DEF EmissionInv
    <3>3. vouchers[IssuerOf[Work(q)]][number[q]] = Work(q)
      BY <3>1 DEF RecordInv
    <3> QED
      BY <3>1, <3>2, <3>3, <2>3
  <2>6. IssuedIsRecorded'
    <3>1. idem' = idem /\ idem \in [Docs -> 0..(MaxNumber + 1)]
      BY DEF CreateVoucher, EmissionInv, DataTypeOK
    <3>2. \A e \in Docs : idem'[e] # 0 => vouchers'[IssuerOf[e]][idem'[e]] = e
      BY <3>1, <2>3 DEF RecordInv, IssuedIsRecorded
    <3>3. \A r \in Requests : answer'[r] = "issued" =>
            \E m \in 1..(MaxNumber + 1) : vouchers'[IssuerOf[DocOf[r]]][m] = DocOf[r]
      <4> SUFFICES ASSUME NEW r \in Requests, answer'[r] = "issued"
                   PROVE  \E m \in 1..(MaxNumber + 1) : vouchers'[IssuerOf[DocOf[r]]][m] = DocOf[r]
        OBVIOUS
      <4>1. PICK m \in 1..(MaxNumber + 1) : vouchers[IssuerOf[DocOf[r]]][m] = DocOf[r]
        BY <2>4 DEF RecordInv, IssuedIsRecorded
      <4> WITNESS m \in 1..(MaxNumber + 1)
      <4> QED
        BY <4>1, <2>3
    <3> QED
      BY <3>2, <3>3 DEF IssuedIsRecorded
  <2> QED
    BY <2>5, <2>6 DEF RecordInv
<1> QED
  BY <1>1, <1>2 DEF CreateVoucher

LEMMA CreateIdempotencyRecordRecords ==
  ASSUME EmissionInv, RecordInv, NEW p \in Procs, CreateIdempotencyRecord(p)
  PROVE  RecordInv'
<1> DEFINE d == Work(p)
<1>1. CASE Throw(p) /\ UNCHANGED idem
  <2>1. Quiet
    BY <1>1, ThrowMoves DEF EmissionInv, Quiet, OthersStay
  <2> QED
    BY <1>1, <2>1, QuietKeepsRecords DEF CreateIdempotencyRecord
<1>2. CASE /\ idem' \in {idem, [idem EXCEPT ![d] = number[p]]}
           /\ IF p = Scheduler THEN Goto(p, "complete", number[p]) ELSE Respond(p, "issued")
  <2>1. d \in Docs /\ number[p] \in 1..(MaxNumber + 1) /\ idem \in [Docs -> 0..(MaxNumber + 1)]
    BY WorkIsDoc, NumberedInside DEF EmissionInv, DataTypeOK, CreateIdempotencyRecord, Numbered
  <2>2. vouchers[IssuerOf[d]][number[p]] = d /\ UNCHANGED vouchers
    BY DEF RecordInv, CreateIdempotencyRecord
  <2>3. \A e \in Docs : idem'[e] # 0 => vouchers'[IssuerOf[e]][idem'[e]] = e
    BY <1>2, <2>1, <2>2 DEF RecordInv, IssuedIsRecorded
  <2>4. CASE p = Scheduler
    <3>1. /\ OthersStay(p) /\ UNCHANGED answer
          /\ pc'[p] = "complete" /\ number'[p] = number[p] /\ Work(p)' = d
      BY <1>2, <2>4, GotoMoves DEF EmissionInv
    <3>2. \A q \in Procs : pc'[q] \in {"idempotency", "complete"} =>
            vouchers'[IssuerOf[Work(q)']][number'[q]] = Work(q)'
      BY <2>2, <3>1 DEF RecordInv, OthersStay
    <3> QED
      BY <2>2, <2>3, <3>1, <3>2 DEF RecordInv, IssuedIsRecorded
  <2>5. CASE p # Scheduler
    <3>0. p \in Requests /\ d = DocOf[p]
      BY <2>5 DEF Work
    <3>1. /\ OthersStay(p) /\ pc'[p] = "done"
          /\ \A r \in Requests : r # p => answer'[r] = answer[r]
      BY <1>2, <2>5, <3>0, RespondMoves DEF EmissionInv
    <3>2. \A q \in Procs : pc'[q] \in {"idempotency", "complete"} =>
            vouchers'[IssuerOf[Work(q)']][number'[q]] = Work(q)'
      BY <2>2, <3>1 DEF RecordInv, OthersStay
    <3>3. \A r \in Requests : answer'[r] = "issued" =>
            \E m \in 1..(MaxNumber + 1) : vouchers'[IssuerOf[DocOf[r]]][m] = DocOf[r]
      BY <2>1, <2>2, <3>0, <3>1 DEF RecordInv, IssuedIsRecorded
    <3> QED
      BY <2>3, <3>2, <3>3 DEF RecordInv, IssuedIsRecorded
  <2> QED
    BY <2>4, <2>5
<1> QED
  BY <1>1, <1>2 DEF CreateIdempotencyRecord, RecordedNumber

\* A replay answers 201 with the voucher its key's record points to.
LEMMA ReplayRecords ==
  ASSUME EmissionInv, RecordInv, NEW r \in Requests, Replay(DocOf[r]) # "miss",
         Respond(r, Replay(DocOf[r])), UNCHANGED <<vouchers, idem>>
  PROVE  RecordInv'
<1> DEFINE d == DocOf[r]
<1>1. /\ OthersStay(r) /\ pc'[r] = "done" /\ answer'[r] = Replay(d)
      /\ \A s \in Requests : s # r => answer'[s] = answer[s]
  BY RespondMoves DEF EmissionInv
<1>2. \A q \in Procs : pc'[q] \in {"idempotency", "complete"} =>
        vouchers'[IssuerOf[Work(q)']][number'[q]] = Work(q)'
  BY <1>1 DEF RecordInv, OthersStay
<1>3. Replay(d) = "issued" => idem[d] # 0
  BY DEF Replay
<1>4. idem[d] \in 0..(MaxNumber + 1) /\ d \in Docs
  BY DEF EmissionInv, DataTypeOK
<1>5. \A s \in Requests : answer'[s] = "issued" =>
        \E m \in 1..(MaxNumber + 1) : vouchers'[IssuerOf[DocOf[s]]][m] = DocOf[s]
  BY <1>1, <1>3, <1>4 DEF RecordInv, IssuedIsRecorded
<1> QED
  BY <1>2, <1>5 DEF RecordInv, IssuedIsRecorded

LEMMA NextKeepsRecords ==
  ASSUME EmissionInv, RecordInv, [Next]_vars
  PROVE  RecordInv'
<1>1. ASSUME NEW p \in Procs, Step(p) PROVE RecordInv'
  BY <1>1, StepIsQuiet, QuietKeepsRecords, CreateVoucherRecords, CreateIdempotencyRecordRecords
<1>2. ASSUME NEW r \in Requests, Post(r) PROVE RecordInv'
  <2>1. CASE Replay(DocOf[r]) = "miss"
    <3>1. Quiet
      BY <1>2, <2>1, GotoMoves DEF Post, EmissionInv, Quiet, OthersStay
    <3> QED
      BY <1>2, <3>1, QuietKeepsRecords DEF Post, tables
  <2>2. CASE Replay(DocOf[r]) # "miss"
    BY <1>2, <2>2, ReplayRecords DEF Post, tables
  <2> QED
    BY <2>1, <2>2
<1>3. ASSUME NEW r \in Requests, ReplayInside(r) PROVE RecordInv'
  <2>1. CASE Replay(DocOf[r]) = "miss"
    <3>1. Quiet
      BY <1>3, <2>1, GotoMoves DEF ReplayInside, EmissionInv, Quiet, OthersStay
    <3> QED
      BY <1>3, <3>1, QuietKeepsRecords DEF ReplayInside, tables
  <2>2. CASE Replay(DocOf[r]) # "miss"
    BY <1>3, <2>2, ReplayRecords DEF ReplayInside, tables
  <2> QED
    BY <2>1, <2>2
<1>4. ASSUME NEW r \in Requests, Enqueue(r) PROVE RecordInv'
  <2>1. Quiet
    BY <1>4, RespondMoves, ThrowMoves DEF Enqueue, EmissionInv, Quiet, OthersStay
  <2> QED
    BY <1>4, <2>1, QuietKeepsRecords DEF Enqueue
<1>5. ASSUME NEW p \in Procs, Acquire(p) PROVE RecordInv'
  <2>1. Quiet
    BY <1>5 DEF Acquire, EmissionInv, ControlInv, ControlTypeOK, Quiet, Work
  <2> QED
    BY <1>5, <2>1, QuietKeepsRecords DEF Acquire, tables
<1>6. CASE Tick \/ NextRow
  <2>1. Quiet
    BY <1>6 DEF Tick, NextRow, EmissionInv, ControlInv, ControlTypeOK, Quiet, Work
  <2> QED
    BY <1>6, <2>1, QuietKeepsRecords DEF Tick, NextRow, tables
<1>7. CASE RecoverAlreadyAuthorized
  <2>1. Quiet
    BY <1>7, GotoMoves, DeferMoves DEF RecoverAlreadyAuthorized, EmissionInv, Quiet, OthersStay
  <2> QED
    BY <1>7, <2>1, QuietKeepsRecords DEF RecoverAlreadyAuthorized, tables
<1>8. CASE Bump \/ FailRow \/ Complete
  <2>1. Quiet
    BY <1>8, NextPendingMoves, ThrowMoves DEF Bump, FailRow, Complete, EmissionInv, Quiet, OthersStay
  <2> QED
    BY <1>8, <2>1, QuietKeepsRecords DEF Bump, FailRow, Complete
<1>9. ASSUME NEW d \in Docs, BackoffElapsed(d) \/ UserRetry(d) \/ UserDiscard(d)
      PROVE  RecordInv'
  BY <1>9, QuietKeepsRecords DEF BackoffElapsed, UserRetry, UserDiscard, control, Quiet, Work
<1>10. ASSUME NEW m \in late, LateArrival(m) PROVE RecordInv'
  BY <1>10, QuietKeepsRecords DEF LateArrival, control, tables, Quiet, Work
<1>11. CASE Crash
  <2>1. Quiet
    BY <1>11 DEF Crash, Quiet
  <2> QED
    BY <1>11, <2>1, QuietKeepsRecords DEF Crash, tables
<1>12. CASE UNCHANGED vars
  BY <1>12, QuietKeepsRecords DEF vars, control, tables, Quiet, Work
<1> QED
  BY <1>1, <1>2, <1>3, <1>4, <1>5, <1>6, <1>7, <1>8, <1>9, <1>10, <1>11, <1>12
     DEF Next, RequestStep, SchedulerStep, Quiescent

LEMMA RecordInvariant == Spec => [](EmissionInv /\ RecordInv)
<1>1. Init => RecordInv
  BY DEF Init, RecordInv, IssuedIsRecorded
<1> QED
  BY <1>1, NextKeepsRecords, EmissionInvariant, PTL DEF Spec

\* A 201, also a replayed one, has its own document's voucher behind it.
THEOREM IssuedHasItsVoucher == Spec => []IssuedIsRecorded
BY RecordInvariant, PTL DEF RecordInv

LEMMA CompleteIsRecorded ==
  ASSUME EmissionInv, RecordInv, Complete
  PROVE  DequeuedIsRecorded
<1>1. /\ job \in Docs /\ number[Scheduler] \in 1..(MaxNumber + 1)
      /\ vouchers[IssuerOf[job]][number[Scheduler]] = job
  BY RowInHand, NumberedInside DEF Complete, RecordInv, Work, Inside, Numbered
<1>2. \A d \in Docs : d # job => row'[d] = row[d]
  BY <1>1 DEF Complete, EmissionInv, DataTypeOK
<1> QED
  BY <1>1, <1>2 DEF DequeuedIsRecorded

LEMMA OthersDequeueNothing ==
  ASSUME EmissionInv, [Next]_vars, ~Complete, NEW d \in Docs, row[d].status = "PENDING"
  PROVE  row'[d].status # "NONE"
<1>0. row \in [Docs -> Rows]
  BY DEF EmissionInv, DataTypeOK
<1>1. ASSUME NEW p \in Procs, Step(p) PROVE row'[d].status # "NONE"
  BY <1>1 DEF Step, GetLastAuthorized, CaeGranted, CaeReplyLost, CaeRequestLost,
     CaeRequestLate, DuplicateNumber, CaeRejected, DiagnosisFails, QueryDuplicate,
     ConfirmOnboarding, CreateVoucher, CreateIdempotencyRecord, tables
<1>2. ASSUME NEW r \in Requests, Post(r) \/ ReplayInside(r) PROVE row'[d].status # "NONE"
  BY <1>2 DEF Post, ReplayInside, tables
<1>3. ASSUME NEW r \in Requests, Enqueue(r) PROVE row'[d].status # "NONE"
  BY <1>0, <1>3 DEF Enqueue
<1>4. ASSUME NEW p \in Procs, Acquire(p) PROVE row'[d].status # "NONE"
  BY <1>4 DEF Acquire, tables
<1>5. CASE Tick \/ NextRow \/ RecoverAlreadyAuthorized \/ Crash
  BY <1>5 DEF Tick, NextRow, RecoverAlreadyAuthorized, Crash, tables
<1>6. CASE Bump
  <2>1. CASE UNCHANGED row
    BY <2>1
  <2>2. CASE row' = [row EXCEPT ![job].retries = row[job].retries + 1,
                       ![job].due = Exhausted(row[job].retries + 1) /\ @,
                       ![job].status = IF Exhausted(row[job].retries + 1) THEN "FAILED" ELSE @]
    <3>1. job \in Docs /\ row[job].status = "PENDING"
      BY <1>6, RowInHand DEF Bump, Inside
    <3>2. row'[job].status \in {"FAILED", "PENDING"}
      BY <2>2, <3>1, <1>0 DEF Rows
    <3>3. d # job => row'[d] = row[d]
      BY <2>2, <3>1, <1>0
    <3> QED
      BY <3>2, <3>3
  <2> QED
    BY <1>6, <2>1, <2>2 DEF Bump
<1>7. CASE FailRow
  BY <1>0, <1>7 DEF FailRow, Rows
<1>8. ASSUME NEW e \in Docs, BackoffElapsed(e) \/ UserRetry(e) \/ UserDiscard(e)
      PROVE  row'[d].status # "NONE"
  <2>1. CASE e = d
    <3>1. BackoffElapsed(d)
      BY <1>8, <2>1 DEF UserRetry, UserDiscard, Failed
    <3> QED
      BY <3>1, <1>0 DEF BackoffElapsed, Rows
  <2>2. CASE e # d
    <3>1. row'[d] = row[d]
      BY <1>0, <1>8, <2>2 DEF BackoffElapsed, UserRetry, UserDiscard
    <3> QED
      BY <3>1
  <2> QED
    BY <2>1, <2>2
<1>9. ASSUME NEW m \in late, LateArrival(m) PROVE row'[d].status # "NONE"
  BY <1>9 DEF LateArrival, tables
<1>10. CASE UNCHANGED vars
  BY <1>10 DEF vars, tables
<1> QED
  BY <1>1, <1>2, <1>3, <1>4, <1>5, <1>6, <1>7, <1>8, <1>9, <1>10
     DEF Next, RequestStep, SchedulerStep, Quiescent

\* A queued invoice leaves the queue only with its voucher recorded, or
\* through a user once it FAILED.
THEOREM QueueKeepsItsRows == Spec => QueuedNeverDropped
<1>1. EmissionInv /\ RecordInv /\ [Next]_vars => [DequeuedIsRecorded]_vars
  BY CompleteIsRecorded, OthersDequeueNothing DEF DequeuedIsRecorded
<1> QED
  BY <1>1, RecordInvariant, PTL DEF Spec, QueuedNeverDropped

-----------------------------------------------------------------------------
(* One issuer per numbering series and no request ARCA processes late: the *)
(* issuer's lock then covers the series, and each CAE goes to its own.     *)

SeriesHasOneIssuer == \A i, j \in Issuers : CuitOf[i] = CuitOf[j] => i = j

\* Two processes past the lock of one series are one process.
LEMMA SeriesIsLocked ==
  ASSUME EmissionInv, SeriesHasOneIssuer, NEW p \in Procs, NEW q \in Procs,
         pc[p] \in Inside, pc[q] \in Inside, CuitFor(Work(p)) = CuitFor(Work(q))
  PROVE  p = q
<1>1. /\ IssuerOf[Work(p)] \in Issuers /\ IssuerOf[Work(q)] \in Issuers
  BY WorkIsDoc DEF EmissionInv
<1>2. IssuerOf[Work(p)] = IssuerOf[Work(q)]
  BY <1>1 DEF SeriesHasOneIssuer, CuitFor
<1> QED
  BY <1>2 DEF EmissionInv, ControlInv, LockHeld

\* Where a process stands with respect to its series.
Placed(p) ==
  /\ pc[p] \in {"solicit", "freshSolicit", "duplicate"} => number[p] = NextNumber(Work(p))
  /\ pc[p] \in {"confirm", "record"} => AuthorizedAlike(Work(p), number[p])

\* A step that leaves the series alone has only its own process to account for.
LEMMA SeriesUntouched ==
  ASSUME SeriesInv, NEW p \in Procs, OthersStay(p), Placed(p)',
         UNCHANGED <<arca, late, vouchers>>
  PROVE  SeriesInv'
<1>1. \A q \in Procs : Placed(q)'
  <2> SUFFICES ASSUME NEW q \in Procs, q # p PROVE Placed(q)'
    OBVIOUS
  <2>1. Placed(q) /\ pc'[q] = pc[q] /\ number'[q] = number[q] /\ Work(q)' = Work(q)
    BY DEF SeriesInv, Placed, OthersStay
  <2> QED
    BY <2>1 DEF Placed, NextNumber, AuthorizedAlike, Authorized
<1> QED
  BY <1>1 DEF SeriesInv, Placed, RecordedAsAuthorized

\* One more authorisation: what was recorded or in hand is where it was.
LEMMA SeriesGrows ==
  ASSUME EmissionInv, SeriesInv, SeriesHasOneIssuer, NEW p \in Procs, pc[p] \in Inside,
         OthersStay(p), Grant(Work(p)), Placed(p)', UNCHANGED <<late, vouchers>>
  PROVE  SeriesInv'
<1> DEFINE c == CuitFor(Work(p))
<1>1. Work(p) \in Docs /\ c \in Cuits /\ arca \in [Cuits -> Seq(Docs)]
  BY WorkIsDoc DEF EmissionInv, DataTypeOK
<1>2. \A k \in Cuits : \A n \in 1..Len(arca[k]) :
        n \in 1..Len(arca'[k]) /\ arca'[k][n] = arca[k][n]
  BY <1>1 DEF Grant
<1>3. \A k \in Cuits : k # c => arca'[k] = arca[k]
  BY <1>1 DEF Grant
<1>4. \A q \in Procs : Placed(q)'
  <2> SUFFICES ASSUME NEW q \in Procs, q # p PROVE Placed(q)'
    OBVIOUS
  <2>1. Placed(q) /\ pc'[q] = pc[q] /\ number'[q] = number[q] /\ Work(q)' = Work(q)
    BY DEF SeriesInv, Placed, OthersStay
  <2>2. ASSUME pc[q] \in {"solicit", "freshSolicit", "duplicate"}
        PROVE  number'[q] = NextNumber(Work(q))'
    <3>1. pc[q] \in Inside
      BY <2>2 DEF Inside, Numbered
    <3>2. CuitFor(Work(q)) # c /\ CuitFor(Work(q)) \in Cuits
      BY <3>1, SeriesIsLocked, WorkIsDoc DEF EmissionInv
    <3> QED
      BY <2>1, <2>2, <3>2, <1>3 DEF Placed, NextNumber, Authorized, CuitFor
  <2>3. ASSUME pc[q] \in {"confirm", "record"}
        PROVE  AuthorizedAlike(Work(q), number[q])'
    <3>1. CuitFor(Work(q)) \in Cuits
      BY <2>3, WorkIsDoc DEF EmissionInv, Inside, Numbered
    <3> QED
      BY <2>1, <2>3, <3>1, <1>2 DEF Placed, AuthorizedAlike, Authorized, CuitFor
  <2> QED
    BY <2>1, <2>2, <2>3 DEF Placed
<1>5. RecordedAsAuthorized'
  <2> SUFFICES ASSUME NEW i \in Issuers, NEW n \in 1..(MaxNumber + 1), vouchers[i][n] # None
               PROVE  /\ n <= Len(arca'[CuitOf[i]])
                      /\ LooksOf[vouchers[i][n]] = LooksOf[arca'[CuitOf[i]][n]]
    BY DEF RecordedAsAuthorized
  <2>1. /\ n <= Len(arca[CuitOf[i]])
        /\ LooksOf[vouchers[i][n]] = LooksOf[arca[CuitOf[i]][n]]
    BY DEF SeriesInv, RecordedAsAuthorized
  <2>2. CuitOf[i] \in Cuits /\ n \in 1..Len(arca[CuitOf[i]])
    BY <2>1, <1>1
  <2>3. n \in 1..Len(arca'[CuitOf[i]]) /\ arca'[CuitOf[i]][n] = arca[CuitOf[i]][n]
    BY <2>2, <1>2
  <2> QED
    BY <2>1, <2>3
<1> QED
  BY <1>4, <1>5 DEF SeriesInv, Placed

LEMMA StepKeepsSeries ==
  ASSUME EmissionInv, SeriesInv, SeriesHasOneIssuer, "late" \notin Faults,
         NEW p \in Procs, Step(p)
  PROVE  SeriesInv'
<1> USE DEF tables, Fault
<1>0. ControlInv /\ (pc[p] \in Numbered => pc[p] \in Inside /\ number[p] \in 1..(MaxNumber + 1))
  BY NumberedInside DEF EmissionInv
<1>1. CASE GetLastAuthorized(p)
  <2>1. OthersStay(p) /\ UNCHANGED <<arca, late, vouchers>>
    BY <1>0, <1>1, GotoMoves, DeferMoves, RejectMoves DEF GetLastAuthorized
  <2>2. Placed(p)'
    <3>1. CASE Goto(p, IF pc[p] = "last" THEN "solicit" ELSE "freshSolicit", NextNumber(Work(p)))
      BY <1>0, <2>1, <3>1, GotoMoves DEF Placed, NextNumber, Authorized
    <3>2. CASE Defer(p, number[p]) \/ Reject(p)
      BY <1>0, <3>2, DeferMoves, RejectMoves DEF Placed
    <3> QED
      BY <1>1, <3>1, <3>2 DEF GetLastAuthorized
  <2> QED
    BY <2>1, <2>2, SeriesUntouched
<1>2. CASE CaeGranted(p)
  <2> DEFINE d == Work(p)
  <2>1. /\ OthersStay(p) /\ Grant(d) /\ UNCHANGED <<late, vouchers>>
        /\ pc'[p] = "confirm" /\ number'[p] = number[p] /\ Work(p)' = d
    BY <1>0, <1>2, GotoMoves DEF CaeGranted
  <2>2. pc[p] \in Inside /\ number[p] = Len(Authorized(d)) + 1
    BY <1>0, <1>2 DEF CaeGranted, Numbered, Grantable, NextNumber
  <2>3. d \in Docs /\ CuitFor(d) \in Cuits /\ arca \in [Cuits -> Seq(Docs)]
    BY <2>2, WorkIsDoc DEF EmissionInv, DataTypeOK
  <2>4. Authorized(d)' = Append(Authorized(d), d) /\ Authorized(d) \in Seq(Docs)
    BY <2>1, <2>3 DEF Grant, Authorized, CuitFor
  <2>5. AuthorizedAlike(d, number[p])'
    <3>1. Authorized(d)'[number[p]] = d /\ number[p] \in 1..Len(Authorized(d)')
      BY <2>2, <2>3, <2>4
    <3> QED
      BY <3>1, <2>1 DEF AuthorizedAlike
  <2>6. Placed(p)'
    BY <2>1, <2>5 DEF Placed, AuthorizedAlike, Authorized, CuitFor
  <2> QED
    BY <2>1, <2>2, <2>6, SeriesGrows
<1>3. CASE CaeReplyLost(p)
  <2>1. /\ OthersStay(p) /\ Grant(Work(p)) /\ UNCHANGED <<late, vouchers>>
        /\ pc'[p] \in {"bump", "enqueue"} /\ pc[p] \in Inside
    BY <1>0, <1>3, DeferMoves DEF CaeReplyLost, Numbered
  <2> QED
    BY <2>1, SeriesGrows DEF Placed
<1>4. CASE CaeRequestLost(p) \/ DiagnosisFails(p)
  <2>1. /\ OthersStay(p) /\ UNCHANGED <<arca, late, vouchers>>
        /\ pc'[p] \in {"bump", "enqueue"}
    BY <1>0, <1>4, DeferMoves DEF CaeRequestLost, DiagnosisFails
  <2> QED
    BY <2>1, SeriesUntouched DEF Placed
<1>5. CASE CaeRequestLate(p)
  BY <1>5 DEF CaeRequestLate
<1>6. CASE DuplicateNumber(p)
  <2>1. OthersStay(p) /\ UNCHANGED <<arca, late, vouchers>>
    BY <1>0, <1>6, GotoMoves, RejectMoves DEF DuplicateNumber
  <2>2. Placed(p)'
    <3>1. CASE pc[p] = "solicit" /\ Goto(p, "duplicate", number[p])
      BY <1>0, <2>1, <3>1, GotoMoves DEF SeriesInv, Placed, NextNumber, Authorized
    <3>2. CASE Reject(p)
      BY <1>0, <3>2, RejectMoves DEF Placed
    <3> QED
      BY <1>6, <3>1, <3>2 DEF DuplicateNumber
  <2> QED
    BY <2>1, <2>2, SeriesUntouched
<1>7. CASE CaeRejected(p)
  <2>1. /\ OthersStay(p) /\ UNCHANGED <<arca, late, vouchers>>
        /\ pc'[p] \in {"fail", "done"}
    BY <1>0, <1>7, RejectMoves DEF CaeRejected
  <2> QED
    BY <2>1, SeriesUntouched DEF Placed
<1>8. CASE QueryDuplicate(p)
  \* The number is still the next one, so ARCA has nothing under it to adopt.
  <2>1. number[p] = Len(Authorized(Work(p))) + 1
    BY <1>8 DEF QueryDuplicate, SeriesInv, NextNumber
  <2>2. Len(Authorized(Work(p))) \in Nat
    BY <1>0, <1>8, WorkIsDoc DEF QueryDuplicate, Numbered, EmissionInv, DataTypeOK, Authorized
  <2>3. /\ OthersStay(p) /\ UNCHANGED <<arca, late, vouchers>>
        /\ pc'[p] \in {"freshLast", "bump", "enqueue"}
    BY <1>0, <1>8, <2>1, <2>2, GotoMoves, DeferMoves DEF QueryDuplicate
  <2> QED
    BY <2>3, SeriesUntouched DEF Placed
<1>9. CASE ConfirmOnboarding(p)
  <2>1. OthersStay(p) /\ UNCHANGED <<arca, late, vouchers>>
    BY <1>0, <1>9, GotoMoves, DeferMoves DEF ConfirmOnboarding
  <2>2. Placed(p)'
    <3>1. CASE Goto(p, "record", number[p])
      BY <1>0, <1>9, <2>1, <3>1, GotoMoves
         DEF ConfirmOnboarding, SeriesInv, Placed, AuthorizedAlike, Authorized
    <3>2. CASE Defer(p, 0)
      BY <1>0, <3>2, DeferMoves DEF Placed
    <3> QED
      BY <1>9, <3>1, <3>2 DEF ConfirmOnboarding
  <2> QED
    BY <2>1, <2>2, SeriesUntouched
<1>10. CASE CreateIdempotencyRecord(p)
  <2>1. /\ OthersStay(p) /\ UNCHANGED <<arca, late, vouchers>>
        /\ pc'[p] \in {"complete", "idle", "done"}
    <3>1. CASE p = Scheduler
      BY <1>0, <1>10, <3>1, GotoMoves, ThrowMoves DEF CreateIdempotencyRecord
    <3>2. CASE p # Scheduler
      BY <1>0, <1>10, <3>2, RespondMoves, ThrowMoves DEF CreateIdempotencyRecord
    <3> QED
      BY <3>1, <3>2
  <2> QED
    BY <2>1, SeriesUntouched DEF Placed
<1>11. CASE CreateVoucher(p)
  <2> DEFINE d == Work(p)
             i == IssuerOf[d]
             n == number[p]
  <2>1. /\ OthersStay(p) /\ UNCHANGED <<arca, late>>
        /\ pc'[p] \in {"idempotency", "idle", "done"}
    BY <1>0, <1>11, GotoMoves, ThrowMoves DEF CreateVoucher
  <2>2. CASE UNCHANGED vouchers
    BY <2>1, <2>2, SeriesUntouched DEF Placed
  <2>3. CASE vouchers' = [vouchers EXCEPT ![i][n] = d]
    <3>1. /\ d \in Docs /\ i \in Issuers /\ n \in 1..(MaxNumber + 1)
          /\ vouchers \in [Issuers -> [1..(MaxNumber + 1) -> Docs \cup {None}]]
      BY <1>0, <1>11, WorkIsDoc DEF EmissionInv, DataTypeOK, CreateVoucher, Numbered
    <3>2. AuthorizedAlike(d, n)
      BY <1>11 DEF SeriesInv, CreateVoucher
    <3>3. n <= Len(arca[CuitOf[i]]) /\ LooksOf[d] = LooksOf[arca[CuitOf[i]][n]]
      BY <3>2 DEF AuthorizedAlike, Authorized, CuitFor
    <3>4. \A j \in Issuers : \A m \in 1..(MaxNumber + 1) :
            IF j = i /\ m = n THEN vouchers'[j][m] = d ELSE vouchers'[j][m] = vouchers[j][m]
      BY <2>3, <3>1
    <3>5. RecordedAsAuthorized'
      BY <2>1, <3>3, <3>4 DEF SeriesInv, RecordedAsAuthorized
    <3>6. \A q \in Procs : Placed(q)'
      <4>1. Placed(p)'
        BY <2>1 DEF Placed
      <4>2. ASSUME NEW q \in Procs, q # p PROVE Placed(q)'
        <5>1. Placed(q) /\ pc'[q] = pc[q] /\ number'[q] = number[q] /\ Work(q)' = Work(q)
          BY <2>1, <4>2 DEF SeriesInv, Placed, OthersStay
        <5> QED
          BY <5>1, <2>1 DEF Placed, NextNumber, AuthorizedAlike, Authorized
      <4> QED
        BY <4>1, <4>2
    <3> QED
      BY <2>1, <3>5, <3>6 DEF SeriesInv, Placed
  <2> QED
    BY <1>11, <2>2, <2>3 DEF CreateVoucher
<1> QED
  BY <1>1, <1>2, <1>3, <1>4, <1>5, <1>6, <1>7, <1>8, <1>9, <1>10, <1>11 DEF Step

LEMMA NextKeepsSeries ==
  ASSUME EmissionInv, SeriesInv, SeriesHasOneIssuer, "late" \notin Faults, [Next]_vars
  PROVE  SeriesInv'
<1> USE DEF tables
<1>0. ControlInv
  BY DEF EmissionInv
<1>1. ASSUME NEW p \in Procs, Step(p) PROVE SeriesInv'
  BY <1>1, StepKeepsSeries
<1>2. ASSUME NEW r \in Requests, Post(r) \/ ReplayInside(r) PROVE SeriesInv'
  <2>1. OthersStay(r) /\ pc'[r] \in {"waiting", "last", "done"}
    BY <1>0, <1>2, GotoMoves, RespondMoves DEF Post, ReplayInside
  <2> QED
    BY <1>2, <2>1, SeriesUntouched DEF Placed, Post, ReplayInside
<1>3. ASSUME NEW r \in Requests, Enqueue(r) PROVE SeriesInv'
  <2>1. OthersStay(r) /\ pc'[r] \in {"idle", "done"}
    BY <1>0, <1>3, RespondMoves, ThrowMoves DEF Enqueue
  <2> QED
    BY <1>3, <2>1, SeriesUntouched DEF Placed, Enqueue
<1>4. ASSUME NEW p \in Procs, Acquire(p) PROVE SeriesInv'
  <2>1. OthersStay(p) /\ pc'[p] \in {"recover", "replay"}
    BY <1>0, <1>4 DEF Acquire, ControlInv, ControlTypeOK, OthersStay, Work
  <2> QED
    BY <1>4, <2>1, SeriesUntouched DEF Placed, Acquire
<1>5. CASE Tick \/ NextRow
  <2>1. OthersStay(Scheduler) /\ pc'[Scheduler] \in {"next", "waiting", "idle"}
    BY <1>0, <1>5 DEF Tick, NextRow, ControlInv, ControlTypeOK, OthersStay, Work
  <2> QED
    BY <1>5, <2>1, SeriesUntouched DEF Placed, Tick, NextRow
<1>6. CASE RecoverAlreadyAuthorized
  <2>1. OthersStay(Scheduler)
    BY <1>0, <1>6, GotoMoves, DeferMoves DEF RecoverAlreadyAuthorized
  <2>2. Placed(Scheduler)'
    <3> DEFINE attempted == row[job].attempted
    <3>1. CASE /\ attempted \in 1..Len(Authorized(job))
               /\ MatchesPendingVoucher(job, Authorized(job)[attempted])
               /\ Goto(Scheduler, "record", attempted)
      <4>1. /\ pc'[Scheduler] = "record" /\ number'[Scheduler] = attempted
            /\ Work(Scheduler)' = job /\ UNCHANGED arca
        BY <1>0, <1>6, <3>1, GotoMoves DEF RecoverAlreadyAuthorized, Work
      <4>2. AuthorizedAlike(job, attempted)
        BY <3>1 DEF AuthorizedAlike, MatchesPendingVoucher
      <4> QED
        BY <4>1, <4>2 DEF Placed, AuthorizedAlike, Authorized
    <3>2. CASE Goto(Scheduler, "last", 0) \/ Defer(Scheduler, 0)
      BY <1>0, <3>2, GotoMoves, DeferMoves DEF Placed
    <3> QED
      BY <1>6, <3>1, <3>2 DEF RecoverAlreadyAuthorized
  <2> QED
    BY <1>6, <2>1, <2>2, SeriesUntouched DEF RecoverAlreadyAuthorized
<1>7. CASE Bump \/ FailRow \/ Complete
  <2>1. OthersStay(Scheduler) /\ pc'[Scheduler] \in {"next", "idle", "done"}
    BY <1>0, <1>7, NextPendingMoves, ThrowMoves DEF Bump, FailRow, Complete
  <2> QED
    BY <1>7, <2>1, SeriesUntouched DEF Placed, Bump, FailRow, Complete
<1>8. ASSUME NEW d \in Docs, BackoffElapsed(d) \/ UserRetry(d) \/ UserDiscard(d)
      PROVE  SeriesInv'
  <2>1. UNCHANGED <<control, arca, late, vouchers>>
    BY <1>8 DEF BackoffElapsed, UserRetry, UserDiscard
  <2> QED
    BY <2>1 DEF control, SeriesInv, NextNumber, AuthorizedAlike, Authorized, Work, RecordedAsAuthorized
<1>9. ASSUME NEW m \in late, LateArrival(m) PROVE SeriesInv'
  BY <1>9 DEF SeriesInv
<1>10. CASE Crash
  <2>1. \A p \in Procs : pc'[p] \in {"idle", "done"}
    BY <1>10 DEF Crash
  <2>2. UNCHANGED <<arca, late, vouchers>>
    BY <1>10 DEF Crash
  <2> QED
    BY <2>1, <2>2 DEF SeriesInv, RecordedAsAuthorized
<1>11. CASE UNCHANGED vars
  <2>1. UNCHANGED <<control, arca, late, vouchers>>
    BY <1>11 DEF vars
  <2> QED
    BY <2>1 DEF control, SeriesInv, NextNumber, AuthorizedAlike, Authorized, Work, RecordedAsAuthorized
<1> QED
  BY <1>1, <1>2, <1>3, <1>4, <1>5, <1>6, <1>7, <1>8, <1>9, <1>10, <1>11
     DEF Next, RequestStep, SchedulerStep, Quiescent

LEMMA SeriesInvariant ==
  ASSUME SeriesHasOneIssuer, "late" \notin Faults
  PROVE  Spec => []SeriesInv
<1>1. Init => SeriesInv
  BY DEF Init, SeriesInv, RecordedAsAuthorized
<1>2. EmissionInv /\ SeriesInv /\ [Next]_vars => SeriesInv'
  BY NextKeepsSeries
<1> QED
  BY <1>1, <1>2, EmissionInvariant, PTL DEF Spec

\* The lock does its job: when a process asks for a CAE, the number it
\* computed is still the next of its series, whatever else runs and crashes.
THEOREM NumberIsStillNext ==
  ASSUME SeriesHasOneIssuer, "late" \notin Faults
  PROVE  Spec => []ChosenNumberIsNext
<1>1. SeriesInv => ChosenNumberIsNext
  BY DEF SeriesInv, ChosenNumberIsNext
<1> QED
  BY <1>1, SeriesInvariant, PTL

\* No Voucher row carries the CAE of an invoice of another total or recipient.
THEOREM VouchersMatchArca ==
  ASSUME SeriesHasOneIssuer, "late" \notin Faults
  PROVE  Spec => []RecordedAsAuthorized
<1>1. SeriesInv => RecordedAsAuthorized
  BY DEF SeriesInv
<1> QED
  BY <1>1, SeriesInvariant, PTL

-----------------------------------------------------------------------------
(* The emission path implements Issuing, for any number of requests,          *)
(* documents, issuers, retries and faults of every kind: who answers, and when *)

\* A request that is not done was told nothing yet.
Unanswered == \A r \in Requests : pc[r] # "done" => answer[r] = "none"

\* A step of p that answers nobody.
Silent(p) ==
  /\ pc[p] # "done" /\ UNCHANGED answer
  /\ \A q \in Procs : q # p => pc'[q] = pc[q]

\* A step that ends request r with answer a.
Speaks(r, a) ==
  /\ r \in Requests /\ pc[r] # "done" /\ pc'[r] = "done"
  /\ answer' = [answer EXCEPT ![r] = a]
  /\ \A q \in Procs : q # r => pc'[q] = pc[q]

Refuses(p) == Silent(p) \/ \E a \in Promised!Refusals : Speaks(p, a)

LEMMA GotoIsSilent ==
  ASSUME ControlInv, NEW p \in Procs, pc[p] # "done", NEW label, NEW n, Goto(p, label, n)
  PROVE  Silent(p)
BY DEF ControlInv, ControlTypeOK, Goto, Silent

LEMMA RespondSpeaks ==
  ASSUME ControlInv, NEW r \in Requests, pc[r] # "done", NEW a, Respond(r, a)
  PROVE  Speaks(r, a)
BY DEF ControlInv, ControlTypeOK, Respond, Speaks

LEMMA NextPendingIsSilent ==
  ASSUME ControlInv, pc[Scheduler] # "done", NextPending
  PROVE  Silent(Scheduler)
BY DEF ControlInv, ControlTypeOK, NextPending, Silent

LEMMA ThrowRefuses ==
  ASSUME ControlInv, NEW p \in Procs, pc[p] # "done", Throw(p)
  PROVE  Refuses(p)
<1>1. CASE p = Scheduler
  BY <1>1 DEF ControlInv, ControlTypeOK, Throw, Silent, Refuses
<1>2. CASE p # Scheduler
  <2>1. Speaks(p, "error")
    BY <1>2, RespondSpeaks DEF Throw
  <2> QED
    BY <2>1 DEF Refuses, Promised!Refusals
<1> QED
  BY <1>1, <1>2

LEMMA RejectRefuses ==
  ASSUME ControlInv, NEW p \in Procs, pc[p] # "done", Reject(p)
  PROVE  Refuses(p)
<1>1. CASE p = Scheduler
  BY <1>1, GotoIsSilent DEF Reject, Refuses
<1>2. CASE p # Scheduler
  <2>1. Speaks(p, "rejected")
    BY <1>2, RespondSpeaks DEF Reject
  <2> QED
    BY <2>1 DEF Refuses, Promised!Refusals
<1> QED
  BY <1>1, <1>2

LEMMA DeferIsSilent ==
  ASSUME ControlInv, NEW p \in Procs, pc[p] # "done", NEW n, Defer(p, n)
  PROVE  Silent(p)
BY GotoIsSilent DEF Defer

\* What asks ARCA touches no table and answers nothing but a refusal.
LEMMA StepRefuses ==
  ASSUME ControlInv, NEW p \in Procs, Step(p), ~CreateVoucher(p), ~CreateIdempotencyRecord(p)
  PROVE  Refuses(p) /\ UNCHANGED <<vouchers, row>>
<1> USE DEF tables
<1>1. CASE GetLastAuthorized(p)
  BY <1>1, GotoIsSilent, DeferIsSilent, RejectRefuses DEF GetLastAuthorized, Refuses
<1>2. CASE CaeGranted(p)
  BY <1>2, GotoIsSilent DEF CaeGranted, Refuses
<1>3. CASE CaeReplyLost(p) \/ CaeRequestLost(p) \/ CaeRequestLate(p) \/ DiagnosisFails(p)
  BY <1>3, DeferIsSilent DEF CaeReplyLost, CaeRequestLost, CaeRequestLate, DiagnosisFails,
     Refuses
<1>4. CASE DuplicateNumber(p) \/ CaeRejected(p)
  BY <1>4, GotoIsSilent, RejectRefuses DEF DuplicateNumber, CaeRejected, Refuses
<1>5. CASE QueryDuplicate(p) \/ ConfirmOnboarding(p)
  BY <1>5, GotoIsSilent, DeferIsSilent DEF QueryDuplicate, ConfirmOnboarding, Refuses
<1> QED
  BY <1>1, <1>2, <1>3, <1>4, <1>5 DEF Step

-----------------------------------------------------------------------------
(* What each kind of step is, seen by the authors. *)

promised == <<[d \in Docs |-> Fate(d)], answer>>
Kept == Unanswered' /\ [Promised!Next]_promised

LEMMA SameFate ==
  ASSUME NEW d \in Docs, UNCHANGED vouchers, row'[d].status = row[d].status
  PROVE  Fate(d)' = Fate(d)
BY DEF Fate, RowFate, HasVoucher

LEMMA SilentKeeps ==
  ASSUME Unanswered, NEW p \in Procs, Silent(p), UNCHANGED <<vouchers, row>>
  PROVE  Kept
<1>1. Unanswered'
  BY DEF Unanswered, Silent
<1>2. UNCHANGED promised
  BY SameFate DEF Silent, promised
<1> QED
  BY <1>1, <1>2 DEF Kept

LEMMA SpeaksOnce ==
  ASSUME ControlTypeOK, Unanswered, NEW r \in Requests, NEW a, Speaks(r, a)
  PROVE  Unanswered' /\ Promised!Reply(r, a)
BY DEF ControlTypeOK, Unanswered, Speaks, Promised!Reply

\* An answer that was true when it was given.
LEMMA TrueAnswerKeeps ==
  ASSUME ControlTypeOK, Unanswered, NEW r \in Requests, NEW a, Speaks(r, a),
         UNCHANGED <<vouchers, row>>,
         \/ a \in Promised!Refusals
         \/ a = "issued" /\ Fate(DocOf[r]) = "issued"
         \/ a = "queued" /\ Fate(DocOf[r]) # "unissued"
  PROVE  Kept
<1>1. Unanswered' /\ Promised!Reply(r, a)
  BY SpeaksOnce
<1>2. [d \in Docs |-> Fate(d)]' = [d \in Docs |-> Fate(d)]
  BY SameFate
<1>3. Promised!Report(r)
  BY <1>1, <1>2 DEF Promised!Report
<1> QED
  BY <1>1, <1>3 DEF Kept, Promised!Next

LEMMA RefusesKeeps ==
  ASSUME ControlTypeOK, Unanswered, NEW p \in Procs, Refuses(p), UNCHANGED <<vouchers, row>>
  PROVE  Kept
BY SilentKeeps, TrueAnswerKeeps DEF Refuses, Speaks

\* One row written, nobody answered.
LEMMA RowKeeps ==
  ASSUME Unanswered, Unanswered', NEW d \in Docs,
         UNCHANGED <<vouchers, answer>>,
         \A e \in Docs : e # d => row'[e] = row[e],
         \/ HasVoucher(d)
         \/ row'[d].status = row[d].status
         \/ row[d].status = "PENDING" /\ row'[d].status = "FAILED"
         \/ row[d].status = "FAILED" /\ row'[d].status \in {"PENDING", "NONE"}
  PROVE  Kept
<1> DEFINE f == [e \in Docs |-> Fate(e)]
<1>1. \A e \in Docs : e # d => Fate(e)' = Fate(e)
  BY SameFate
<1>2. CASE HasVoucher(d) \/ row'[d].status = row[d].status
  <2>1. Fate(d)' = Fate(d)
    BY <1>2, SameFate DEF Fate, RowFate, HasVoucher
  <2> QED
    BY <1>1, <2>1 DEF Kept, promised
<1>3. CASE /\ ~HasVoucher(d) /\ row[d].status = "PENDING" /\ row'[d].status = "FAILED"
  <2>1. Fate(d) = "queued" /\ Fate(d)' = "failed"
    BY <1>3 DEF Fate, RowFate, HasVoucher
  <2>2. f' = [f EXCEPT ![d] = "failed"]
    BY <1>1, <2>1
  <2>3. Promised!GiveUp(d)
    BY <2>1, <2>2 DEF Promised!GiveUp, Promised!Becomes
  <2> QED
    BY <2>3 DEF Kept, Promised!Next
<1>4. CASE /\ ~HasVoucher(d) /\ row[d].status = "FAILED"
           /\ row'[d].status = "PENDING"
  <2>1. Fate(d) = "failed" /\ Fate(d)' = "queued"
    BY <1>4 DEF Fate, RowFate, HasVoucher
  <2>2. f' = [f EXCEPT ![d] = "queued"]
    BY <1>1, <2>1
  <2>3. Promised!Reopen(d)
    BY <2>1, <2>2 DEF Promised!Reopen, Promised!Becomes
  <2> QED
    BY <2>3 DEF Kept, Promised!Next
<1>5. CASE /\ ~HasVoucher(d) /\ row[d].status = "FAILED"
           /\ row'[d].status = "NONE"
  <2>1. Fate(d) = "failed" /\ Fate(d)' = "unissued"
    BY <1>5 DEF Fate, RowFate, HasVoucher
  <2>2. f' = [f EXCEPT ![d] = "unissued"]
    BY <1>1, <2>1
  <2>3. Promised!Discard(d)
    BY <2>1, <2>2 DEF Promised!Discard, Promised!Becomes
  <2> QED
    BY <2>3 DEF Kept, Promised!Next
<1> QED
  BY <1>2, <1>3, <1>4, <1>5

-----------------------------------------------------------------------------
(* The steps. *)

\* The voucher's row: its document is issued from now on, the others stay.
LEMMA CreateVoucherIssues ==
  ASSUME EmissionInv, Unanswered, NEW p \in Procs, CreateVoucher(p)
  PROVE  Kept
<1>0. PICK d \in Docs : d = Work(p)
  BY WorkIsDoc DEF EmissionInv, CreateVoucher, Inside, Numbered
<1> DEFINE i == IssuerOf[d]
           n == number[p]
<1>1. CASE Throw(p) /\ UNCHANGED vouchers
  <2>1. Refuses(p)
    BY <1>1, ThrowRefuses DEF CreateVoucher, EmissionInv
  <2> QED
    BY <1>1, <2>1, RefusesKeeps DEF CreateVoucher, EmissionInv, ControlInv
<1>2. CASE /\ vouchers[i][n] = None
           /\ vouchers' = [vouchers EXCEPT ![i][n] = d]
           /\ Goto(p, "idempotency", n)
  <2>1. /\ d \in Docs /\ i \in Issuers /\ n \in 1..(MaxNumber + 1)
        /\ vouchers \in [Issuers -> [1..(MaxNumber + 1) -> Docs \cup {None}]]
    BY <1>0, WorkIsDoc, NumberedInside DEF EmissionInv, DataTypeOK, CreateVoucher, Numbered
  <2>2. Silent(p)
    BY <1>2, GotoIsSilent DEF CreateVoucher, EmissionInv
  <2>3. Unanswered' /\ UNCHANGED <<answer, row>>
    BY <2>2 DEF Unanswered, Silent, CreateVoucher
  <2>4. HasVoucher(d)'
    <3>1. vouchers'[i][n] = d
      BY <2>1, <1>2
    <3> QED
      BY <2>1, <3>1 DEF HasVoucher
  <2>5. \A e \in Docs : e # d => (HasVoucher(e)' <=> HasVoucher(e))
    <3> SUFFICES ASSUME NEW e \in Docs, e # d
                 PROVE  HasVoucher(e)' <=> HasVoucher(e)
      OBVIOUS
    <3>1. \A m \in 1..(MaxNumber + 1) :
            vouchers'[IssuerOf[e]][m] = e <=> vouchers[IssuerOf[e]][m] = e
      BY <2>1, <1>2
    <3> QED
      BY <3>1 DEF HasVoucher
  <2>6. Fate(d)' = "issued" /\ \A e \in Docs : e # d => Fate(e)' = Fate(e)
    BY <2>3, <2>4, <2>5 DEF Fate, RowFate
  <2>7. CASE HasVoucher(d)
    <3>1. Fate(d) = "issued"
      BY <2>7 DEF Fate
    <3> QED
      BY <2>1, <2>3, <2>6, <3>1 DEF Kept, promised
  <2>8. CASE ~HasVoucher(d)
    <3>1. row[d].status \in Statuses
      BY <2>1 DEF EmissionInv, DataTypeOK, Rows
    <3>2. Fate(d) \in {"unissued", "queued", "failed"}
      BY <2>8, <3>1 DEF Fate, RowFate, Statuses
    <3>3. [e \in Docs |-> Fate(e)]' = [[e \in Docs |-> Fate(e)] EXCEPT ![d] = "issued"]
      BY <2>6
    <3>4. Promised!Issue(d)
      BY <2>1, <2>3, <3>2, <3>3 DEF Promised!Issue, Promised!Becomes
    <3> QED
      BY <2>1, <2>3, <3>4 DEF Kept, Promised!Next
  <2> QED
    BY <2>7, <2>8
<1> QED
  BY <1>0, <1>1, <1>2 DEF CreateVoucher

LEMMA CreateIdempotencyRecordAnswers ==
  ASSUME EmissionInv, RecordInv, Unanswered, NEW p \in Procs, CreateIdempotencyRecord(p)
  PROVE  Kept
<1>0. /\ pc[p] = "idempotency" /\ UNCHANGED <<vouchers, row>>
      /\ ControlInv /\ ControlTypeOK
  BY DEF CreateIdempotencyRecord, EmissionInv, ControlInv
<1>1. CASE Throw(p)
  BY <1>0, <1>1, ThrowRefuses, RefusesKeeps
<1>2. CASE p = Scheduler /\ Goto(p, "complete", number[p])
  BY <1>0, <1>2, GotoIsSilent, SilentKeeps
<1>3. CASE p # Scheduler /\ Respond(p, "issued")
  <2>1. /\ p \in Requests /\ Work(p) = DocOf[p]
        /\ number[p] \in 1..(MaxNumber + 1)
    BY <1>0, <1>3, NumberedInside DEF Work, Numbered
  <2>2. Fate(DocOf[p]) = "issued"
    BY <1>0, <2>1 DEF RecordInv, Fate, HasVoucher
  <2> QED
    BY <1>0, <1>3, <2>1, <2>2, RespondSpeaks, TrueAnswerKeeps
<1> QED
  BY <1>1, <1>2, <1>3 DEF CreateIdempotencyRecord

\* A replay tells what it read: the key's voucher, or its row still PENDING.
LEMMA ReplayIsTrue ==
  ASSUME EmissionInv, RecordInv, Unanswered, NEW r \in Requests, pc[r] # "done",
         UNCHANGED <<vouchers, row>>, NEW label, NEW n,
         IF Replay(DocOf[r]) = "miss" THEN Goto(r, label, n) ELSE Respond(r, Replay(DocOf[r]))
  PROVE  Kept
<1> DEFINE d == DocOf[r]
<1>0. ControlInv /\ ControlTypeOK /\ d \in Docs
  BY DEF EmissionInv, ControlInv
<1>1. CASE Replay(d) = "miss"
  BY <1>0, <1>1, GotoIsSilent, SilentKeeps
<1>2. CASE Replay(d) = "issued"
  <2>1. idem[d] # 0 /\ idem[d] \in 0..(MaxNumber + 1)
    BY <1>0, <1>2 DEF Replay, EmissionInv, DataTypeOK
  <2>2. Fate(d) = "issued"
    BY <1>0, <2>1 DEF RecordInv, IssuedIsRecorded, Fate, HasVoucher
  <2> QED
    BY <1>0, <1>2, <2>2, RespondSpeaks, TrueAnswerKeeps
<1>3. CASE Replay(d) = "queued"
  <2>1. row[d].status = "PENDING"
    BY <1>3 DEF Replay
  <2>2. Fate(d) # "unissued"
    BY <2>1 DEF Fate, RowFate
  <2> QED
    BY <1>0, <1>3, <2>2, RespondSpeaks, TrueAnswerKeeps
<1> QED
  BY <1>1, <1>2, <1>3 DEF Replay

\* The 503 of a queued request: its document is queued by the same step, or
\* was already known.
LEMMA EnqueueAnswers ==
  ASSUME EmissionInv, Unanswered, NEW r \in Requests, Enqueue(r)
  PROVE  Kept
<1> DEFINE d == DocOf[r]
<1>0. /\ ControlInv /\ ControlTypeOK /\ d \in Docs /\ row[d].status \in Statuses
      /\ row \in [Docs -> Rows] /\ pc[r] # "done" /\ UNCHANGED vouchers
  BY DEF EmissionInv, ControlInv, DataTypeOK, Rows, Enqueue
<1>1. CASE Throw(r) /\ UNCHANGED row
  BY <1>0, <1>1, ThrowRefuses, RefusesKeeps
<1>2. CASE row[d].status # "NONE" /\ Respond(r, "queued") /\ UNCHANGED row
  <2>1. Fate(d) # "unissued"
    BY <1>0, <1>2 DEF Fate, RowFate, Statuses
  <2> QED
    BY <1>0, <1>2, <2>1, RespondSpeaks, TrueAnswerKeeps
<1>3. CASE /\ row[d].status = "NONE" /\ Respond(r, "queued")
           /\ row' = [row EXCEPT ![d] = [status |-> "PENDING", retries |-> 0,
                                         attempted |-> AttemptedNumber(r), due |-> FALSE]]
  <2>1. Unanswered' /\ Promised!Reply(r, "queued")
    BY <1>0, <1>3, RespondSpeaks, SpeaksOnce
  <2>2. row'[d].status = "PENDING" /\ \A e \in Docs : e # d => row'[e] = row[e]
    BY <1>0, <1>3
  <2>3. \A e \in Docs : e # d => Fate(e)' = Fate(e)
    BY <1>0, <2>2, SameFate
  <2>4. CASE HasVoucher(d)
    <3>1. Fate(d) = "issued" /\ Fate(d)' = "issued"
      BY <1>0, <2>4 DEF Fate, HasVoucher
    <3>2. UNCHANGED [e \in Docs |-> Fate(e)]
      BY <2>3, <3>1
    <3>3. Promised!Report(r)
      BY <1>0, <2>1, <3>1, <3>2 DEF Promised!Report
    <3> QED
      BY <2>1, <3>3 DEF Kept, Promised!Next
  <2>5. CASE ~HasVoucher(d)
    <3>1. Fate(d) = "unissued" /\ Fate(d)' = "queued"
      BY <1>0, <1>3, <2>2, <2>5 DEF Fate, RowFate, HasVoucher
    <3>2. [e \in Docs |-> Fate(e)]' = [[e \in Docs |-> Fate(e)] EXCEPT ![d] = "queued"]
      BY <2>3, <3>1
    <3>3. Promised!Queue(r)
      BY <1>0, <2>1, <3>1, <3>2 DEF Promised!Queue, Promised!Becomes
    <3> QED
      BY <2>1, <3>3 DEF Kept, Promised!Next
  <2> QED
    BY <2>4, <2>5
<1> QED
  BY <1>1, <1>2, <1>3 DEF Enqueue

\* The scheduler writes the row in its hand, or gives its snapshot up.
LEMMA SchedulerWrites ==
  ASSUME EmissionInv, RecordInv, Unanswered, Bump \/ FailRow \/ Complete
  PROVE  Kept
<1>0. /\ job \in Docs /\ row[job].status = "PENDING" /\ row \in [Docs -> Rows]
      /\ pc[Scheduler] # "done" /\ UNCHANGED vouchers /\ ControlInv /\ ControlTypeOK
  BY RowInHand DEF Bump, FailRow, Complete, Inside, Numbered, EmissionInv, ControlInv,
     DataTypeOK
<1>1. CASE Throw(Scheduler) /\ UNCHANGED row
  BY <1>0, <1>1, ThrowRefuses, RefusesKeeps
<1>2. CASE NextPending
  <2>1. Silent(Scheduler)
    BY <1>0, <1>2, NextPendingIsSilent
  <2>2. Unanswered' /\ UNCHANGED answer
    BY <2>1 DEF Unanswered, Silent
  <2>3. PICK d \in Docs : d = job
    BY <1>0
  <2>4. \A e \in Docs : e # d => row'[e] = row[e]
    BY <1>0, <2>3 DEF Bump, FailRow, Complete
  <2>5. \/ HasVoucher(d)
        \/ row'[d].status \in {"PENDING", "FAILED"}
    <3>1. CASE Complete
      <4>1. /\ number[Scheduler] \in 1..(MaxNumber + 1)
            /\ vouchers[IssuerOf[job]][number[Scheduler]] = job
        BY <3>1, NumberedInside DEF Complete, EmissionInv, RecordInv, Work, Numbered
      <4> QED
        BY <2>3, <4>1 DEF HasVoucher
    <3>2. CASE FailRow
      BY <1>0, <2>3, <3>2 DEF FailRow, Rows
    <3>3. CASE Bump
      <4>1. CASE UNCHANGED row
        BY <1>0, <2>3, <4>1
      <4>2. CASE row' = [row EXCEPT ![job].retries = row[job].retries + 1,
                           ![job].due = Exhausted(row[job].retries + 1) /\ @,
                           ![job].status = IF Exhausted(row[job].retries + 1)
                                           THEN "FAILED" ELSE @]
        BY <1>0, <2>3, <4>2 DEF Rows
      <4> QED
        BY <3>3, <4>1, <4>2 DEF Bump
    <3> QED
      BY <3>1, <3>2, <3>3
  <2> QED
    BY <1>0, <2>2, <2>3, <2>4, <2>5, RowKeeps
<1> QED
  BY <1>1, <1>2 DEF Bump, FailRow, Complete

LEMMA SchedulerReads ==
  ASSUME EmissionInv, Unanswered, Tick \/ NextRow \/ RecoverAlreadyAuthorized
  PROVE  Kept
<1>0. ControlInv /\ ControlTypeOK /\ UNCHANGED <<vouchers, row>>
  BY DEF EmissionInv, ControlInv, Tick, NextRow, RecoverAlreadyAuthorized, tables
<1>1. Silent(Scheduler)
  <2>1. CASE Tick \/ NextRow
    BY <1>0, <2>1 DEF ControlTypeOK, Tick, NextRow, Silent
  <2>2. CASE RecoverAlreadyAuthorized
    BY <1>0, <2>2, GotoIsSilent, DeferIsSilent DEF RecoverAlreadyAuthorized
  <2> QED
    BY <2>1, <2>2
<1> QED
  BY <1>0, <1>1, SilentKeeps

\* Time and users write one row each, in the transitions its author may see.
LEMMA AuthorsWrite ==
  ASSUME EmissionInv, Unanswered, NEW d \in Docs,
         BackoffElapsed(d) \/ UserRetry(d) \/ UserDiscard(d)
  PROVE  Kept
<1>1. row \in [Docs -> Rows] /\ Unanswered' /\ UNCHANGED <<vouchers, answer>>
  BY DEF EmissionInv, DataTypeOK, BackoffElapsed, UserRetry, UserDiscard, control, Unanswered
<1>2. \A e \in Docs : e # d => row'[e] = row[e]
  BY <1>1 DEF BackoffElapsed, UserRetry, UserDiscard
<1>3. \/ row'[d].status = row[d].status
      \/ row[d].status = "FAILED" /\ row'[d].status \in {"PENDING", "NONE"}
  BY <1>1 DEF BackoffElapsed, UserRetry, UserDiscard, Failed, NoRow, Rows
<1> QED
  BY <1>1, <1>2, <1>3, RowKeeps

LEMMA NextIsPromised ==
  ASSUME EmissionInv, RecordInv, Unanswered, [Next]_vars
  PROVE  Kept
<1>0. ControlInv /\ ControlTypeOK
  BY DEF EmissionInv, ControlInv
<1>1. ASSUME NEW p \in Procs, Step(p) PROVE Kept
  <2>1. CASE CreateVoucher(p)
    BY <2>1, CreateVoucherIssues
  <2>2. CASE CreateIdempotencyRecord(p)
    BY <2>2, CreateIdempotencyRecordAnswers
  <2>3. CASE ~CreateVoucher(p) /\ ~CreateIdempotencyRecord(p)
    BY <1>0, <1>1, <2>3, StepRefuses, RefusesKeeps
  <2> QED
    BY <2>1, <2>2, <2>3
<1>2. ASSUME NEW r \in Requests, Post(r) PROVE Kept
  <2>1. /\ pc[r] # "done" /\ UNCHANGED <<vouchers, row>>
        /\ IF Replay(DocOf[r]) = "miss" THEN Goto(r, "waiting", 0)
                                        ELSE Respond(r, Replay(DocOf[r]))
    BY <1>2 DEF Post, tables
  <2> QED
    BY <2>1, ReplayIsTrue
<1>3. ASSUME NEW r \in Requests, ReplayInside(r) PROVE Kept
  <2>1. /\ pc[r] # "done" /\ UNCHANGED <<vouchers, row>>
        /\ IF Replay(DocOf[r]) = "miss" THEN Goto(r, "last", 0)
                                        ELSE Respond(r, Replay(DocOf[r]))
    BY <1>3 DEF ReplayInside, tables
  <2> QED
    BY <2>1, ReplayIsTrue
<1>4. ASSUME NEW r \in Requests, Enqueue(r) PROVE Kept
  BY <1>4, EnqueueAnswers
<1>5. ASSUME NEW p \in Procs, Acquire(p) PROVE Kept
  <2>1. Silent(p) /\ UNCHANGED <<vouchers, row>>
    BY <1>0, <1>5 DEF ControlTypeOK, Acquire, Silent, tables
  <2> QED
    BY <2>1, SilentKeeps
<1>6. CASE Tick \/ NextRow \/ RecoverAlreadyAuthorized
  BY <1>6, SchedulerReads
<1>7. CASE Bump \/ FailRow \/ Complete
  BY <1>7, SchedulerWrites
<1>8. ASSUME NEW d \in Docs, BackoffElapsed(d) \/ UserRetry(d) \/ UserDiscard(d)
      PROVE  Kept
  BY <1>8, AuthorsWrite
<1>9. CASE (\E m \in late : LateArrival(m)) \/ UNCHANGED vars
  <2>1. UNCHANGED <<pc, answer, vouchers, row>>
    BY <1>9 DEF LateArrival, vars, control, tables
  <2> QED
    BY <2>1, SameFate DEF Kept, promised, Unanswered
<1>10. CASE Crash
  <2>1. UNCHANGED <<answer, vouchers, row>>
    BY <1>10 DEF Crash, tables
  <2>2. Unanswered'
    BY <1>10, <2>1 DEF Crash, Unanswered
  <2> QED
    BY <2>1, <2>2, SameFate DEF Kept, promised
<1> QED
  BY <1>1, <1>2, <1>3, <1>4, <1>5, <1>6, <1>7, <1>8, <1>9, <1>10
     DEF Next, RequestStep, SchedulerStep, Quiescent

\* Every step of the emission path, whatever fails in it, is a step or a
\* stutter of what its authors were promised: an issued document stays issued,
\* a queued one is issued or fails, and a request is answered once, truly.
THEOREM IssuingRefinement == Spec => ImplementsIssuing
<1>1. Init => Unanswered /\ Promised!Init
  BY DEF Init, Unanswered, Promised!Init, Fate, RowFate, HasVoucher, NoRow
<1>2. EmissionInv /\ RecordInv /\ Unanswered /\ [Next]_vars
        => Unanswered' /\ [Promised!Next]_<<[d \in Docs |-> Fate(d)], answer>>
  BY NextIsPromised DEF Kept, promised
<1> QED
  BY <1>1, <1>2, RecordInvariant, PTL DEF Spec, ImplementsIssuing, Promised!Spec
===============================================================================
