--------------------------- MODULE Reconciliation ---------------------------
(* ReconciliationService.checkNumbering: the last numbers ARCA has against    *)
(* the largest ones stored, while invoices go on being issued.  It asks WSFE  *)
(* about every group of stored vouchers, of exports too.                      *)
(* Invoices reach ARCA and the table in separate steps, and some never the    *)
(* second: which ones, and why, is modelled in VoucherEmission.               *)
EXTENDS Integers, Sequences, FiniteSets, FiniteSetsExt, SequencesExt

CONSTANTS
  Groups,        \* pairs of a sales point and a voucher type
  ExportGroups,  \* the groups WSFE knows nothing of
  MaxNumber      \* bound on the numbers of a group

ASSUME ReconciliationConstants == IsFiniteSet(Groups) /\ MaxNumber \in Nat

VARIABLES
  atArca,        \* external: the last number authorised in each group
  stored,        \* the numbers in the voucher table
  check,         \* the check that runs
  report         \* the last report, with what was true when it started

reconciliationVars == <<atArca, stored, check, report>>

NoCheck == [step |-> "idle", groups |-> <<>>, statuses |-> <<>>,
            before |-> [group \in Groups |-> 0]]

ReconciliationInit ==
  /\ atArca = [group \in Groups |-> 0]
  /\ stored = [group \in Groups |-> {}]
  /\ check = NoCheck
  /\ report = [statuses |-> <<>>, before |-> atArca, answer |-> "none"]

AuthoriseNumber(group) ==
  /\ atArca[group] < MaxNumber
  /\ atArca' = [atArca EXCEPT ![group] = @ + 1]
  /\ UNCHANGED <<stored, check, report>>

StoreNumber(group) ==
  \E number \in 1..atArca[group] \ stored[group] :
    /\ stored' = [stored EXCEPT ![group] = @ \cup {number}]
    /\ UNCHANGED <<atArca, check, report>>

\* Mutant: the stored vouchers are counted.
Mutant_LastInDatabase(group) == Cardinality(stored[group])

LastInDatabase(group) == Max(stored[group])

\* groupBy: nothing is asked of ARCA about a group with no row.
GroupRows ==
  LET groups == {group \in Groups : stored[group] # {}}
      found == [group \in groups |-> [group |-> group, last |-> LastInDatabase(group)]]
  IN /\ check.step = "idle"
     /\ \/ /\ groups = {}
           /\ report' = [statuses |-> <<>>, before |-> atArca, answer |-> "ok"]
           /\ UNCHANGED check
        \/ /\ groups # {}
           /\ check' = [step |-> "auth", groups |-> SetToSeq({found[g] : g \in groups}),
                        statuses |-> <<>>, before |-> atArca]
           /\ UNCHANGED report
     /\ UNCHANGED <<atArca, stored>>

CheckAuth ==
  /\ check.step = "auth"
  /\ check' = [check EXCEPT !.step = "asking"]
  /\ UNCHANGED <<atArca, stored, report>>

NumberingStatus(group, lastInDatabase, lastInArca) ==
  [group |-> group, lastInDatabase |-> lastInDatabase, lastInArca |-> lastInArca,
   missingInDatabase |-> IF lastInArca > lastInDatabase THEN lastInArca - lastInDatabase ELSE 0]

\* WSFE's answer: for a group of exports it has no vouchers to count.
AskArca ==
  /\ check.step = "asking" /\ check.groups # <<>>
  /\ LET asked == Head(check.groups)
         last == IF asked.group \in ExportGroups THEN 0 ELSE atArca[asked.group]
     IN check' = [check EXCEPT !.groups = Tail(@),
                    !.statuses = Append(@, NumberingStatus(asked.group, asked.last, last))]
  /\ UNCHANGED <<atArca, stored, report>>

\* One error, of the ticket or of one group, and the whole check ends in it.
CheckFails ==
  /\ check.step \in {"auth", "asking"}
  /\ report' = [statuses |-> <<>>, before |-> check.before, answer |-> "error"]
  /\ check' = NoCheck
  /\ UNCHANGED <<atArca, stored>>

CheckEnds ==
  /\ check.step = "asking" /\ check.groups = <<>>
  /\ report' = [statuses |-> check.statuses, before |-> check.before, answer |-> "ok"]
  /\ check' = NoCheck
  /\ UNCHANGED <<atArca, stored>>

ReconciliationNext ==
  \/ \E group \in Groups : AuthoriseNumber(group) \/ StoreNumber(group)
  \/ GroupRows \/ CheckAuth \/ AskArca \/ CheckFails \/ CheckEnds

ReconciliationSpec == ReconciliationInit /\ [][ReconciliationNext]_reconciliationVars
-----------------------------------------------------------------------------
(* Properties *)

ReconciliationTypeOK ==
  /\ \A group \in Groups : stored[group] \subseteq 1..atArca[group]
  /\ check.step \in {"idle", "auth", "asking"}
  /\ report.answer \in {"none", "ok", "error"}

\* A report accounts for every voucher of a domestic group that ARCA had
\* authorised before the check and that is above the group's largest row, and
\* counts none that ARCA has not authorised.  What it cannot show, a voucher
\* missing below the largest row, a group with no row and any export, is what
\* reconciliation.service.ts:34,51 leaves out.
MissingIsReported ==
  \A i \in DOMAIN report.statuses :
    LET status == report.statuses[i]
    IN IF status.group \in ExportGroups THEN status.missingInDatabase = 0
       ELSE /\ status.missingInDatabase >=
                 Cardinality({n \in 1..report.before[status.group] : n > status.lastInDatabase})
            /\ status.lastInArca <= atArca[status.group]
            /\ status.lastInDatabase \in stored[status.group]
            /\ status.missingInDatabase = status.lastInArca - status.lastInDatabase
=============================================================================
