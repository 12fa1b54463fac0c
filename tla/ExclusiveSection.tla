-------------------------- MODULE ExclusiveSection --------------------------
(***************************************************************************)
(* What IssuerLockService.runExclusive promises its callers: of the tasks  *)
(* that share a key, one at a time runs.                                   *)
(***************************************************************************)
CONSTANTS Tasks, Keys, KeyOf

VARIABLE stage

Stages == {"outside", "waiting", "inside", "left"}

Init == stage = [t \in Tasks |-> "outside"]

Move(t, from, to) ==
  /\ stage[t] = from
  /\ stage' = [stage EXCEPT ![t] = to]

Join(t) == Move(t, "outside", "waiting")
Admit(t) ==
  /\ \A u \in Tasks : KeyOf[u] = KeyOf[t] => stage[u] # "inside"
  /\ Move(t, "waiting", "inside")
Leave(t) == Move(t, "inside", "left")

Next == \E t \in Tasks : Join(t) \/ Admit(t) \/ Leave(t)

Spec == Init /\ [][Next]_stage
=============================================================================
