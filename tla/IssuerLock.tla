----------------------------- MODULE IssuerLock -----------------------------
(***************************************************************************)
(* IssuerLockService (services/api/src/vouchers/issuer-lock.service.ts): a *)
(* lock per issuer made of a chain of promises.  `tails' maps an issuer to *)
(* the promise of its last caller; a caller awaits the promise it found    *)
(* there and leaves its own.  That promise settles, in a later microtask,  *)
(* once its predecessor's has and its own task has returned or thrown.     *)
(* A promise is named by the call (a task) that made it.                   *)
(***************************************************************************)
EXTENDS Naturals

CONSTANTS
  Tasks,   \* calls of runExclusive
  Keys,    \* issuer ids
  KeyOf,   \* the key of each call
  None     \* no entry in the map: Promise.resolve()

ASSUME LockAssumption ==
  /\ KeyOf \in [Tasks -> Keys]
  /\ None \notin Tasks

VARIABLES
  stage,     \* outside, waiting (await previous), inside (its task), left
  previous,  \* the promise each call awaits
  tails,     \* the map
  settled,   \* the tails that have settled
  ticket,    \* history: each call's place in the arrivals at its key
  arrivals   \* history: how many calls each key has seen

vars == <<stage, previous, tails, settled, ticket, arrivals>>

Stages == {"outside", "waiting", "inside", "left"}

TypeOK ==
  /\ stage \in [Tasks -> Stages]
  /\ previous \in [Tasks -> Tasks \cup {None}]
  /\ tails \in [Keys -> Tasks \cup {None}]
  /\ settled \in SUBSET Tasks
  /\ ticket \in [Tasks -> Nat]
  /\ arrivals \in [Keys -> Nat]

Init ==
  /\ stage = [t \in Tasks |-> "outside"]
  /\ previous = [t \in Tasks |-> None]
  /\ tails = [k \in Keys |-> None]
  /\ settled = {}
  /\ ticket = [t \in Tasks |-> 0]
  /\ arrivals = [k \in Keys |-> 0]

\* Up to the await the code runs without interruption.
Register(t) ==
  LET k == KeyOf[t] IN
  /\ stage[t] = "outside"
  /\ stage' = [stage EXCEPT ![t] = "waiting"]
  /\ previous' = [previous EXCEPT ![t] = tails[k]]
  /\ tails' = [tails EXCEPT ![k] = t]
  /\ arrivals' = [arrivals EXCEPT ![k] = @ + 1]
  /\ ticket' = [ticket EXCEPT ![t] = arrivals[k] + 1]
  /\ UNCHANGED settled

Mutant_NoAwait(t) == TRUE
PreviousSettled(t) == previous[t] = None \/ previous[t] \in settled

Start(t) ==
  /\ stage[t] = "waiting"
  /\ PreviousSettled(t)
  /\ stage' = [stage EXCEPT ![t] = "inside"]
  /\ UNCHANGED <<previous, tails, settled, ticket, arrivals>>

Mutant_AlwaysDelete(t) == [tails EXCEPT ![KeyOf[t]] = None]
TailsWithout(t) ==
  IF tails[KeyOf[t]] = t THEN [tails EXCEPT ![KeyOf[t]] = None] ELSE tails

\* The task returned or threw: finally releases it and cleans the map.
Finish(t) ==
  /\ stage[t] = "inside"
  /\ stage' = [stage EXCEPT ![t] = "left"]
  /\ tails' = TailsWithout(t)
  /\ UNCHANGED <<previous, settled, ticket, arrivals>>

Mutant_SettleOnlyTail(t) == stage[t] = "left" /\ tails[KeyOf[t]] = t
Released(t) == stage[t] = "left"

\* previous.then(() => current)
Settle(t) ==
  /\ t \notin settled
  /\ Released(t)
  /\ PreviousSettled(t)
  /\ settled' = settled \cup {t}
  /\ UNCHANGED <<stage, previous, tails, ticket, arrivals>>

Idle == (\A t \in Tasks : t \in settled) /\ UNCHANGED vars

Next == (\E t \in Tasks : Register(t) \/ Start(t) \/ Finish(t) \/ Settle(t)) \/ Idle

Spec == Init /\ [][Next]_vars

\* Promises settle and continuations run; every emission ends, with an answer
\* or an error.  Nobody has to call.
Fairness == \A t \in Tasks : WF_vars(Start(t)) /\ WF_vars(Finish(t)) /\ WF_vars(Settle(t))

FairSpec == Spec /\ Fairness

-----------------------------------------------------------------------------

\* "La emisión toma un lock por emisor": two tasks of a key never overlap.
MutualExclusion ==
  \A t, u \in Tasks :
    t # u /\ KeyOf[t] = KeyOf[u] => ~(stage[t] = "inside" /\ stage[u] = "inside")

\* The lock is fair: whoever got in found everyone who arrived before it at
\* that issuer gone, so the scheduler and the requests cannot starve another.
ArrivalOrder ==
  \A t, u \in Tasks :
    /\ KeyOf[t] = KeyOf[u] /\ stage[t] # "outside" /\ ticket[t] < ticket[u]
    /\ stage[u] \in {"inside", "left"}
    => stage[t] = "left"

\* The map does not grow: an entry is a call of that issuer still to leave, so
\* an issuer nobody is emitting for has none.
MapForgets ==
  \A k \in Keys : tails[k] # None =>
    KeyOf[tails[k]] = k /\ stage[tails[k]] \in {"waiting", "inside"}

-----------------------------------------------------------------------------
(* Why those hold: the chain of promises is a queue. *)

\* t has called runExclusive for the issuer k.
Called(t, k) == KeyOf[t] = k /\ stage[t] # "outside"

\* A ticket is the place of one call.
TicketsUnique ==
  /\ \A t \in Tasks : ticket[t] <= arrivals[KeyOf[t]]
  /\ \A t, u \in Tasks :
       Called(t, KeyOf[u]) /\ Called(u, KeyOf[u]) /\ ticket[t] = ticket[u] => t = u

\* What a call awaits is the call just before it; with nothing to await, all
\* the earlier ones are gone.
AwaitsPredecessor ==
  \A t, v \in Tasks :
    Called(t, KeyOf[t]) /\ Called(v, KeyOf[t]) /\ ticket[v] < ticket[t] =>
      IF previous[t] = None THEN stage[v] = "left"
      ELSE /\ Called(previous[t], KeyOf[t])
           /\ ticket[v] <= ticket[previous[t]]

\* A tail settles when its call and all those before it are gone.
SettledMeansGone ==
  \A u \in settled : \A v \in Tasks :
    /\ Called(u, KeyOf[u])
    /\ Called(v, KeyOf[u]) /\ ticket[v] <= ticket[u] => stage[v] = "left"

\* The map's entry is the last call, and it is missing only when all are gone.
TailIsLast ==
  \A k \in Keys : \A v \in Tasks :
    Called(v, k) =>
      IF tails[k] = None THEN stage[v] = "left"
      ELSE Called(tails[k], k) /\ ticket[v] <= ticket[tails[k]]

\* The chain of promises is a first-in first-out queue per issuer: each call
\* awaits the one before it and the map names the last one still in it.
PromiseChainIsQueue ==
  /\ TypeOK /\ TicketsUnique /\ AwaitsPredecessor /\ SettledMeansGone
  /\ TailIsLast /\ MapForgets /\ ArrivalOrder

\* Every caller gets its turn.
EveryoneServed == \A t \in Tasks : stage[t] = "waiting" ~> stage[t] = "left"

Abstract == INSTANCE ExclusiveSection
  WITH Tasks <- Tasks, Keys <- Keys, KeyOf <- KeyOf, stage <- stage

\* The chain of promises is an exclusive section.
ImplementsExclusiveSection == Abstract!Spec
=============================================================================
