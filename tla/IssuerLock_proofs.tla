-------------------------- MODULE IssuerLock_proofs --------------------------
(***************************************************************************)
(* The promise chain of IssuerLockService, for any number of calls and     *)
(* issuers: it is a queue, so it excludes, serves in order of arrival,     *)
(* cleans its map and implements ExclusiveSection.                         *)
(***************************************************************************)
EXTENDS IssuerLock, TLAPS

USE DEF Called

\* Every variable keeps its type.
LEMMA TypeCorrect == Spec => []TypeOK
<1>1. Init => TypeOK
  BY DEF Init, TypeOK, Stages
<1>2. TypeOK /\ [Next]_vars => TypeOK'
  <2> SUFFICES ASSUME TypeOK, [Next]_vars
               PROVE  TypeOK'
    OBVIOUS
  <2> USE LockAssumption DEF TypeOK, Stages
  <2>1. ASSUME NEW t \in Tasks, Register(t)
        PROVE  TypeOK'
    BY <2>1 DEF Register
  <2>2. ASSUME NEW t \in Tasks, Start(t)
        PROVE  TypeOK'
    BY <2>2 DEF Start
  <2>3. ASSUME NEW t \in Tasks, Finish(t)
        PROVE  TypeOK'
    BY <2>3 DEF Finish, TailsWithout
  <2>4. ASSUME NEW t \in Tasks, Settle(t)
        PROVE  TypeOK'
    BY <2>4 DEF Settle
  <2>5. CASE UNCHANGED vars
    BY <2>5 DEF vars
  <2> QED
    BY <2>1, <2>2, <2>3, <2>4, <2>5 DEF Next, Idle
<1> QED
  BY <1>1, <1>2, PTL DEF Spec

-----------------------------------------------------------------------------
(* One lemma per action: each keeps the queue. *)

\* A new call takes the last place.
LEMMA RegisterKeepsQueue ==
  ASSUME NEW t \in Tasks, PromiseChainIsQueue, TypeOK', Register(t)
  PROVE  PromiseChainIsQueue'
<1> DEFINE k == KeyOf[t]
<1> USE LockAssumption DEF PromiseChainIsQueue, TypeOK, Stages, Register
<1>1. /\ ticket'[t] = arrivals[k] + 1
      /\ stage'[t] = "waiting"
      /\ previous'[t] = tails[k]
      /\ arrivals'[k] = arrivals[k] + 1
      /\ tails'[k] = t
  OBVIOUS
<1>2. \A v \in Tasks : v # t =>
        /\ stage'[v] = stage[v] /\ ticket'[v] = ticket[v]
        /\ previous'[v] = previous[v]
  OBVIOUS
<1>3. \A v \in Tasks : KeyOf[v] = k => ticket[v] <= arrivals[k]
  BY DEF TicketsUnique
<1>4. \A j \in Keys : j # k => tails'[j] = tails[j] /\ arrivals'[j] = arrivals[j]
  OBVIOUS
<1>5. stage[t] = "outside" /\ settled' = settled
  OBVIOUS
<1>6. TicketsUnique'
  BY <1>1, <1>2, <1>3, <1>4 DEF TicketsUnique
<1>7. AwaitsPredecessor'
  <2> SUFFICES ASSUME NEW u \in Tasks, NEW v \in Tasks,
                      Called(u, KeyOf[u])', Called(v, KeyOf[u])', ticket'[v] < ticket'[u]
               PROVE  IF previous'[u] = None THEN stage'[v] = "left"
                      ELSE /\ Called(previous[u], KeyOf[u])'
                           /\ ticket'[v] <= ticket'[previous'[u]]
    BY DEF AwaitsPredecessor
  <2>1. CASE u = t
    BY <2>1, <1>1, <1>2, <1>5 DEF TailIsLast
  <2>2. CASE u # t
    <3>1. v # t
      BY <2>2, <1>1, <1>2, <1>3
    <3>2. IF previous[u] = None THEN stage[v] = "left"
          ELSE Called(previous[u], KeyOf[u]) /\ ticket[v] <= ticket[previous[u]]
      BY <2>2, <3>1, <1>2 DEF AwaitsPredecessor
    <3> QED
      BY <2>2, <3>1, <3>2, <1>2, <1>5
  <2> QED
    BY <2>1, <2>2
<1>8. SettledMeansGone'
  BY <1>1, <1>2, <1>3, <1>5 DEF SettledMeansGone
<1>9. TailIsLast' /\ MapForgets'
  BY <1>1, <1>2, <1>3, <1>4, <1>5 DEF TailIsLast, MapForgets
<1>10. ArrivalOrder'
  BY <1>1, <1>2, <1>3 DEF ArrivalOrder
<1> QED
  BY <1>6, <1>7, <1>8, <1>9, <1>10

\* Whoever stops waiting finds every earlier call gone.
LEMMA AdmittedFindsEarlierGone ==
  ASSUME NEW t \in Tasks, PromiseChainIsQueue, stage[t] # "outside", PreviousSettled(t),
         NEW v \in Tasks, Called(v, KeyOf[t]), ticket[v] < ticket[t]
  PROVE  stage[v] = "left"
BY LockAssumption DEF PromiseChainIsQueue, TypeOK, PreviousSettled, AwaitsPredecessor, SettledMeansGone

LEMMA StartKeepsQueue ==
  ASSUME NEW t \in Tasks, PromiseChainIsQueue, TypeOK', Start(t)
  PROVE  PromiseChainIsQueue'
<1> USE LockAssumption DEF PromiseChainIsQueue, TypeOK, Stages
<1>1. /\ stage[t] = "waiting" /\ stage'[t] = "inside"
      /\ \A v \in Tasks : v # t => stage'[v] = stage[v]
  BY DEF Start
<1>2. UNCHANGED <<previous, tails, settled, ticket, arrivals>>
  BY DEF Start
<1>3. \A v \in Tasks : Called(v, KeyOf[t]) /\ ticket[v] < ticket[t] => stage[v] = "left"
  BY <1>1, AdmittedFindsEarlierGone DEF Start
<1>4. TicketsUnique'
  BY <1>1, <1>2 DEF TicketsUnique
<1>5. AwaitsPredecessor'
  BY <1>1, <1>2 DEF AwaitsPredecessor
<1>6. SettledMeansGone'
  BY <1>1, <1>2 DEF SettledMeansGone
<1>7. TailIsLast' /\ MapForgets'
  BY <1>1, <1>2 DEF TailIsLast, MapForgets
<1>8. ArrivalOrder'
  BY <1>1, <1>2, <1>3 DEF ArrivalOrder
<1> QED
  BY <1>4, <1>5, <1>6, <1>7, <1>8

\* The last call to leave empties the map's entry.
LEMMA FinishKeepsQueue ==
  ASSUME NEW t \in Tasks, PromiseChainIsQueue, TypeOK', Finish(t)
  PROVE  PromiseChainIsQueue'
<1> USE LockAssumption DEF PromiseChainIsQueue, TypeOK, Stages
<1>1. /\ stage[t] = "inside" /\ stage'[t] = "left"
      /\ \A v \in Tasks : v # t => stage'[v] = stage[v]
  BY DEF Finish
<1>2. UNCHANGED <<previous, settled, ticket, arrivals>>
  BY DEF Finish
<1>3. \A v \in Tasks : Called(v, KeyOf[t]) /\ ticket[v] < ticket[t] => stage[v] = "left"
  BY <1>1 DEF ArrivalOrder
<1>4. TicketsUnique'
  BY <1>1, <1>2 DEF TicketsUnique
<1>5. AwaitsPredecessor'
  BY <1>1, <1>2 DEF AwaitsPredecessor
<1>6. SettledMeansGone'
  BY <1>1, <1>2 DEF SettledMeansGone
<1>7. TailIsLast' /\ MapForgets'
  <2>1. CASE tails[KeyOf[t]] = t
    <3>1. \A v \in Tasks : Called(v, KeyOf[t]) /\ v # t => stage[v] = "left"
      <4> SUFFICES ASSUME NEW v \in Tasks, Called(v, KeyOf[t]), v # t
                   PROVE  stage[v] = "left"
        OBVIOUS
      <4>1. ticket[v] <= ticket[t]
        BY <2>1 DEF TailIsLast
      <4>2. ticket[v] # ticket[t]
        BY <1>1 DEF TicketsUnique
      <4> QED
        BY <4>1, <4>2, <1>3
    <3>2. tails' = [tails EXCEPT ![KeyOf[t]] = None]
      BY <2>1 DEF Finish, TailsWithout
    <3>3. TailIsLast'
      BY <1>1, <1>2, <3>1, <3>2 DEF TailIsLast
    <3>4. MapForgets'
      BY <1>1, <3>2 DEF MapForgets
    <3> QED
      BY <3>3, <3>4
  <2>2. CASE tails[KeyOf[t]] # t
    <3>1. tails' = tails
      BY <2>2 DEF Finish, TailsWithout
    <3>2. TailIsLast'
      BY <1>1, <1>2, <3>1 DEF TailIsLast
    <3>3. MapForgets'
      BY <1>1, <2>2, <3>1 DEF MapForgets
    <3> QED
      BY <3>2, <3>3
  <2> QED
    BY <2>1, <2>2
<1>8. ArrivalOrder'
  BY <1>1, <1>2, <1>3 DEF ArrivalOrder
<1> QED
  BY <1>4, <1>5, <1>6, <1>7, <1>8

LEMMA SettleKeepsQueue ==
  ASSUME NEW t \in Tasks, PromiseChainIsQueue, TypeOK', Settle(t)
  PROVE  PromiseChainIsQueue'
<1> USE LockAssumption DEF PromiseChainIsQueue, TypeOK, Stages
<1>1. stage[t] = "left" /\ settled' = settled \cup {t}
  BY DEF Settle, Released
<1>2. UNCHANGED <<stage, previous, tails, ticket, arrivals>>
  BY DEF Settle
<1>3. \A v \in Tasks : Called(v, KeyOf[t]) /\ ticket[v] <= ticket[t] => stage[v] = "left"
  <2> SUFFICES ASSUME NEW v \in Tasks, Called(v, KeyOf[t]), ticket[v] <= ticket[t]
               PROVE  stage[v] = "left"
    OBVIOUS
  <2>1. CASE ticket[v] = ticket[t]
    BY <2>1, <1>1 DEF TicketsUnique
  <2>2. CASE ticket[v] < ticket[t]
    BY <2>2, <1>1 DEF ArrivalOrder
  <2> QED
    BY <2>1, <2>2
<1>4. TicketsUnique' /\ AwaitsPredecessor' /\ TailIsLast' /\ MapForgets' /\ ArrivalOrder'
  BY <1>2 DEF TicketsUnique, AwaitsPredecessor, TailIsLast, MapForgets, ArrivalOrder
<1>5. SettledMeansGone'
  BY <1>1, <1>2, <1>3 DEF SettledMeansGone
<1> QED
  BY <1>4, <1>5

-----------------------------------------------------------------------------

\* The inductive invariant: the promises of each issuer's calls form a
\* first-in first-out queue whose last element is the map's entry.
THEOREM ChainIsQueue == Spec => []PromiseChainIsQueue
<1>1. Init => PromiseChainIsQueue
  BY LockAssumption DEF Init, PromiseChainIsQueue, TypeOK, Stages, TicketsUnique,
     AwaitsPredecessor, SettledMeansGone, TailIsLast, MapForgets, ArrivalOrder
<1>2. PromiseChainIsQueue /\ TypeOK' /\ [Next]_vars => PromiseChainIsQueue'
  <2> SUFFICES ASSUME PromiseChainIsQueue, TypeOK', [Next]_vars
               PROVE  PromiseChainIsQueue'
    OBVIOUS
  <2>1. CASE UNCHANGED vars
    BY <2>1 DEF vars, PromiseChainIsQueue, TypeOK, TicketsUnique,
       AwaitsPredecessor, SettledMeansGone, TailIsLast, MapForgets, ArrivalOrder
  <2>2. CASE \E t \in Tasks : Register(t) \/ Start(t) \/ Finish(t) \/ Settle(t)
    BY <2>2, RegisterKeepsQueue, StartKeepsQueue, FinishKeepsQueue, SettleKeepsQueue
  <2> QED
    BY <2>1, <2>2 DEF Next, Idle
<1> QED
  BY <1>1, <1>2, TypeCorrect, PTL DEF Spec

\* Tasks of one issuer never overlap: were two inside, the earlier of them
\* would have left.
THEOREM Exclusion == Spec => []MutualExclusion
<1>1. PromiseChainIsQueue => MutualExclusion
  <2> SUFFICES ASSUME PromiseChainIsQueue, NEW t \in Tasks, NEW u \in Tasks, t # u,
                      KeyOf[t] = KeyOf[u], stage[t] = "inside", stage[u] = "inside"
               PROVE  FALSE
    BY DEF MutualExclusion
  <2>1. ticket[t] # ticket[u]
    BY DEF PromiseChainIsQueue, TicketsUnique
  <2>2. ticket[t] \in Nat /\ ticket[u] \in Nat
    BY DEF PromiseChainIsQueue, TypeOK
  <2>3. ~(ticket[t] < ticket[u]) /\ ~(ticket[u] < ticket[t])
    BY DEF PromiseChainIsQueue, ArrivalOrder
  <2> QED
    BY <2>1, <2>2, <2>3
<1> QED
  BY <1>1, ChainIsQueue, PTL

\* A call that got in found everyone who came before it at its issuer gone.
THEOREM FirstComeFirstServed == Spec => []ArrivalOrder
BY ChainIsQueue, PTL DEF PromiseChainIsQueue

\* No entry outlives the calls of its issuer.
THEOREM NoEntryLeaks == Spec => []MapForgets
BY ChainIsQueue, PTL DEF PromiseChainIsQueue

\* Every step of the chain of promises is a step, or a stutter, of the
\* exclusive section its callers count on.
THEOREM LockRefinement == Spec => ImplementsExclusiveSection
<1>1. Init => Abstract!Init
  BY DEF Init, Abstract!Init
<1>2. PromiseChainIsQueue /\ [Next]_vars => [Abstract!Next]_stage
  <2> SUFFICES ASSUME PromiseChainIsQueue, [Next]_vars
               PROVE  [Abstract!Next]_stage
    OBVIOUS
  <2>1. ASSUME NEW t \in Tasks, Register(t)
        PROVE  Abstract!Next
    BY <2>1 DEF Register, Abstract!Next, Abstract!Join, Abstract!Move
  <2>2. ASSUME NEW t \in Tasks, Start(t)
        PROVE  Abstract!Next
    <3>1. \A u \in Tasks : KeyOf[u] = KeyOf[t] => stage[u] # "inside"
      <4> SUFFICES ASSUME NEW u \in Tasks, KeyOf[u] = KeyOf[t], stage[u] = "inside"
                   PROVE  FALSE
        OBVIOUS
      <4>1. stage[t] = "waiting" /\ PreviousSettled(t)
        BY <2>2 DEF Start
      <4>2. ticket[u] # ticket[t]
        BY <4>1 DEF PromiseChainIsQueue, TicketsUnique
      <4>3. ~(ticket[u] < ticket[t])
        BY <4>1, AdmittedFindsEarlierGone
      <4>4. ~(ticket[t] < ticket[u])
        BY <4>1 DEF PromiseChainIsQueue, ArrivalOrder
      <4>5. ticket[t] \in Nat /\ ticket[u] \in Nat
        BY DEF PromiseChainIsQueue, TypeOK
      <4> QED
        BY <4>2, <4>3, <4>4, <4>5
    <3> QED
      BY <2>2, <3>1 DEF Start, Abstract!Next, Abstract!Admit, Abstract!Move
  <2>3. ASSUME NEW t \in Tasks, Finish(t)
        PROVE  Abstract!Next
    BY <2>3 DEF Finish, Abstract!Next, Abstract!Leave, Abstract!Move
  <2>4. ASSUME NEW t \in Tasks, Settle(t)
        PROVE  UNCHANGED stage
    BY <2>4 DEF Settle
  <2>5. CASE UNCHANGED vars
    BY <2>5 DEF vars
  <2> QED
    BY <2>1, <2>2, <2>3, <2>4, <2>5 DEF Next, Idle
<1> QED
  BY <1>1, <1>2, ChainIsQueue, PTL DEF Spec, ImplementsExclusiveSection, Abstract!Spec
=============================================================================
