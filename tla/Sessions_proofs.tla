--------------------------- MODULE Sessions_proofs ---------------------------
(***************************************************************************)
(* Proofs about Sessions, for any number of calls and pairs.               *)
(***************************************************************************)
EXTENDS SessionsProperties, TLAPS

USE SessionConstantsOK DEF Pairs, Pair

\* Records a step may give a call.
LEMMA HandlerRecords ==
  /\ NoHandler \in Handlers
  /\ \A at \in HandlerLabels, token, pair \in Pair :
       /\ [at |-> at, token |-> token, pair |-> pair] \in Handlers
       /\ [NoHandler EXCEPT !.at = at, !.token = token] \in Handlers
  /\ \A h \in Handlers, at \in HandlerLabels : [h EXCEPT !.at = at] \in Handlers
<1>1. NoHandler = [at |-> "idle", token |-> None, pair |-> None] /\ None \in Pair /\ "idle" \in HandlerLabels
  BY DEF NoHandler, HandlerLabels
<1>2. Handlers = [at : HandlerLabels, token : Pair, pair : Pair]
  BY DEF Handlers
<1> HIDE DEF Pair, HandlerLabels
<1> QED BY ONLY <1>1, <1>2

LEMMA TaskRecords ==
  /\ NoTask \in Tasks
  /\ \A at \in Labels, kind \in Kinds, access \in Pair :
       /\ [NoTask EXCEPT !.at = at, !.kind = kind] \in Tasks
       /\ [NoTask EXCEPT !.at = at, !.kind = kind, !.access = access] \in Tasks
  /\ \A t \in Tasks, at \in Labels, p \in Pair, next \in {"show", "retry"} :
       /\ [t EXCEPT !.at = at] \in Tasks
       /\ [t EXCEPT !.at = at, !.access = None] \in Tasks
       /\ [t EXCEPT !.at = at, !.pair = p] \in Tasks
       /\ [t EXCEPT !.at = at, !.pair = p, !.next = next] \in Tasks
       /\ [NoTask EXCEPT !.at = at, !.kind = t.kind] \in Tasks
       /\ [NoTask EXCEPT !.at = at, !.kind = t.kind, !.retried = TRUE, !.access = p] \in Tasks
<1>1. NoTask \in Tasks /\ None \in Pair
  BY DEF Tasks, NoTask, Labels
<1>2. ASSUME NEW at \in Labels, NEW kind \in Kinds, NEW access \in Pair
      PROVE  /\ [NoTask EXCEPT !.at = at, !.kind = kind] \in Tasks
             /\ [NoTask EXCEPT !.at = at, !.kind = kind, !.access = access] \in Tasks
  BY DEF Tasks, NoTask
<1>3. ASSUME NEW t \in Tasks, NEW at \in Labels, NEW p \in Pair, NEW next \in {"show", "retry"}
      PROVE  /\ [t EXCEPT !.at = at] \in Tasks
             /\ [t EXCEPT !.at = at, !.access = None] \in Tasks
             /\ [t EXCEPT !.at = at, !.pair = p] \in Tasks
             /\ [t EXCEPT !.at = at, !.pair = p, !.next = next] \in Tasks
  BY DEF Tasks
<1>4. ASSUME NEW t \in Tasks, NEW at \in Labels, NEW p \in Pair
      PROVE  /\ [NoTask EXCEPT !.at = at, !.kind = t.kind] \in Tasks
             /\ [NoTask EXCEPT !.at = at, !.kind = t.kind, !.retried = TRUE, !.access = p] \in Tasks
  BY DEF Tasks, NoTask
<1> QED BY <1>1, <1>2, <1>3, <1>4

LEMMA InitInv == Init => SessionsInv
<1> SUFFICES ASSUME Init PROVE SessionsInv
  OBVIOUS
<1>1. TypeOK
  <2>1. handler \in [Calls -> Handlers] /\ task \in [Calls -> Tasks]
    BY HandlerRecords, TaskRecords DEF Init
  <2>2. row \in [Pairs -> RowStates] /\ parent \in [Pairs -> Pair]
    BY DEF Init, RowStates
  <2>3. mem \in [access : Pair, refresh : Pair] /\ store \in [access : Pair, refresh : Pair, user : BOOLEAN]
    BY DEF Init
  <2>4. user \in BOOLEAN /\ crossed \in BOOLEAN
    BY Zenon DEF Init
  <2>5. issued \in 0..MaxPairs /\ stale \in 0..MaxPairs /\ left \in SUBSET Pairs /\ contested \in SUBSET Pairs
    BY DEF Init
  <2> QED BY <2>1, <2>2, <2>3, <2>4, <2>5 DEF TypeOK
<1>2. ASSUME NEW c \in Calls PROVE HandlerShape(handler[c]) /\ TaskShape(c)
  BY DEF Init, HandlerShape, TaskShape, Known, HandlersOf, Forgetting, At, Serving, NoTask, NoHandler,
         HandlerLabels, Answers, Keeping
<1> QED BY <1>1, <1>2 DEF Init, SessionsInv, DeviceKnown, Known

\* What a step of call c may do to handler and task.
LEMMA CallsTyped ==
  ASSUME TypeOK, NEW c \in Calls,
         \/ handler' = handler
         \/ \E h \in Handlers : handler' = [handler EXCEPT ![c] = h],
         \/ task' = task
         \/ \E t \in Tasks : task' = [task EXCEPT ![c] = t]
  PROVE  handler' \in [Calls -> Handlers] /\ task' \in [Calls -> Tasks]
<1>1. handler \in [Calls -> Handlers] /\ task \in [Calls -> Tasks]
  BY DEF TypeOK
<1>2. handler' \in [Calls -> Handlers]
  BY ONLY <1>1, c \in Calls, handler' = handler \/ \E h \in Handlers : handler' = [handler EXCEPT ![c] = h]
<1>3. task' \in [Calls -> Tasks]
  BY ONLY <1>1, c \in Calls, task' = task \/ \E t \in Tasks : task' = [task EXCEPT ![c] = t]
<1> QED BY <1>2, <1>3

LEMMA HandlingTyped ==
  ASSUME SessionsInv, NEW c \in Calls, Handling(c) PROVE TypeOK'
<1> USE DEF Serving
<1>0. TypeOK /\ HandlerShape(handler[c]) /\ handler[c] \in Handlers /\ handler[c].token \in Pair
  BY DEF SessionsInv, TypeOK, Handlers
<1>1. ASSUME NEW label \in Answers, NEW t \in Pair, NEW p \in Pair, Answer(c, label, t, p)
      PROVE  \E h \in Handlers : handler' = [handler EXCEPT ![c] = h]
  BY <1>1, HandlerRecords DEF Answer, Answers, HandlerLabels
<1>2. ASSUME NEW label \in HandlerLabels, handler' = [handler EXCEPT ![c].at = label]
      PROVE  \E h \in Handlers : handler' = [handler EXCEPT ![c] = h]
  <2>1. handler' = [handler EXCEPT ![c] = [handler[c] EXCEPT !.at = label]]
    BY <1>2
  <2> QED BY <1>0, <2>1, HandlerRecords
<1>3. CASE Find(c)
  <2>1. handler[c].token \in Pairs
    BY <1>0, <1>3 DEF Find, HandlerShape
  <2>2. \E h \in Handlers : handler' = [handler EXCEPT ![c] = h]
    BY <1>0, <1>1, <1>2, <1>3 DEF Find, HandlerLabels, Answers
  <2>3. contested' \in SUBSET Pairs
    BY <1>0, <1>3, <2>1 DEF Find, TypeOK
  <2> QED BY <1>0, <1>3, <2>2, <2>3, CallsTyped DEF Find, TypeOK, device
<1>4. CASE Revoke(c)
  <2>1. \E h \in Handlers : handler' = [handler EXCEPT ![c] = h]
    BY <1>2, <1>4 DEF Revoke, HandlerLabels
  <2>2. row' \in [Pairs -> RowStates]
    BY <1>0, <1>4 DEF Revoke, TypeOK, RowStates
  <2> QED BY <1>0, <1>4, <2>1, <2>2, CallsTyped DEF Revoke, TypeOK, device
<1>5. CASE EmitirTokens(c)
  <2>1. issued' \in 0..MaxPairs /\ issued + 1 \in Pairs
    BY <1>0, <1>5 DEF EmitirTokens, TypeOK
  <2>2. \E h \in Handlers : handler' = [handler EXCEPT ![c] = h]
    BY <1>1, <1>5, <2>1 DEF EmitirTokens, Answers
  <2>3. row' \in [Pairs -> RowStates] /\ parent' \in [Pairs -> Pair]
    BY <1>0, <1>5 DEF EmitirTokens, TypeOK, RowStates
  <2> QED BY <1>0, <1>5, <2>1, <2>2, <2>3, CallsTyped DEF EmitirTokens, TypeOK, device
<1>6. CASE LogOut(c)
  <2>1. handler[c].token \in Pairs
    BY <1>0, <1>6 DEF LogOut, HandlerShape
  <2>2. \E h \in Handlers : handler' = [handler EXCEPT ![c] = h]
    BY <1>1, <1>6 DEF LogOut, Answers
  <2>3. row' \in [Pairs -> RowStates] /\ left' \in SUBSET Pairs /\ contested' \in SUBSET Pairs
    BY <1>0, <1>6, <2>1 DEF LogOut, TypeOK, RowStates
  <2> QED BY <1>0, <1>6, <2>2, <2>3, CallsTyped DEF LogOut, TypeOK, device
<1>7. CASE HandlerFails(c)
  <2>1. \E h \in Handlers : handler' = [handler EXCEPT ![c] = h]
    BY <1>1, <1>7 DEF HandlerFails, Answers
  <2> QED BY <1>0, <1>7, <2>1, CallsTyped DEF HandlerFails, TypeOK, api, device
<1> QED BY <1>3, <1>4, <1>5, <1>6, <1>7 DEF Handling

\* The three shapes of a new task.
LEMMA TaskUpdates ==
  ASSUME TypeOK, NEW c \in Calls
  PROVE  /\ \A label \in Labels : Goto(c, label) => \E t \in Tasks : task' = [task EXCEPT ![c] = t]
         /\ End(c) => \E t \in Tasks : task' = [task EXCEPT ![c] = t]
         /\ \A t \in Tasks : task' = [task EXCEPT ![c] = t] => \E u \in Tasks : task' = [task EXCEPT ![c] = u]
<1>1. ASSUME NEW label \in Labels, Goto(c, label) PROVE \E t \in Tasks : task' = [task EXCEPT ![c] = t]
  <2>1. task' = [task EXCEPT ![c] = [task[c] EXCEPT !.at = label]] /\ task[c] \in Tasks
    BY <1>1 DEF Goto, TypeOK
  <2> QED BY <2>1, TaskRecords
<1> QED BY <1>1, TaskRecords DEF End

LEMMA HandlerUpdates ==
  ASSUME TypeOK, NEW c \in Calls
  PROVE  /\ \A label \in HandlerLabels, t \in Pair :
              Ask(c, label, t) => \E h \in Handlers : handler' = [handler EXCEPT ![c] = h]
         /\ handler' = [handler EXCEPT ![c] = NoHandler] => \E h \in Handlers : handler' = [handler EXCEPT ![c] = h]
         /\ handler' = [handler EXCEPT ![c] = Dropped(c)] => \E h \in Handlers : handler' = [handler EXCEPT ![c] = h]
<1>1. ASSUME NEW label \in HandlerLabels, NEW t \in Pair, Ask(c, label, t)
      PROVE  \E h \in Handlers : handler' = [handler EXCEPT ![c] = h]
  BY <1>1, HandlerRecords DEF Ask
<1>2. Dropped(c) \in Handlers
  BY HandlerRecords DEF Dropped, TypeOK
<1> QED BY <1>1, <1>2, HandlerRecords

LEMMA SessionTyped ==
  ASSUME TypeOK, NEW c \in Calls, task[c] \in Tasks
  PROVE  /\ \A p \in Pairs, next \in {"show", "retry"} : SetSession(c, p, next) => TypeOK'
         /\ ClearSession(c) /\ (handler' = handler \/ handler' = [handler EXCEPT ![c] = NoHandler]) => TypeOK'
<1>1. ASSUME NEW p \in Pairs, NEW next \in {"show", "retry"}, SetSession(c, p, next) PROVE TypeOK'
  <2>1. task' = [task EXCEPT ![c] = [task[c] EXCEPT !.at = "keepAccess", !.pair = p, !.next = next]]
    BY <1>1 DEF SetSession
  <2>2. \E t \in Tasks : task' = [task EXCEPT ![c] = t]
    BY <2>1, TaskRecords DEF Labels, Keeping
  <2>3. \E h \in Handlers : handler' = [handler EXCEPT ![c] = h]
    BY <1>1, HandlerUpdates DEF SetSession
  <2>4. mem' \in [access : Pair, refresh : Pair] /\ crossed' \in BOOLEAN
    <3>1. mem' \in [access : Pair, refresh : Pair]
      BY <1>1 DEF SetSession
    <3>2. crossed' \in BOOLEAN
      BY <1>1, Zenon DEF SetSession, TypeOK
    <3> QED BY <3>1, <3>2
  <2> QED BY <1>1, <2>2, <2>3, <2>4, CallsTyped DEF SetSession, TypeOK, api
<1>2. ASSUME ClearSession(c), handler' = handler \/ handler' = [handler EXCEPT ![c] = NoHandler]
      PROVE  TypeOK'
  <2>1. task' = [task EXCEPT ![c] = [NoTask EXCEPT !.at = "forgetAccess", !.kind = task[c].kind]]
    BY <1>2 DEF ClearSession
  <2>2. \E t \in Tasks : task' = [task EXCEPT ![c] = t]
    BY <2>1, TaskRecords DEF Labels, Forgetting
  <2>3. handler' = handler \/ \E h \in Handlers : handler' = [handler EXCEPT ![c] = h]
    BY <1>2, HandlerUpdates
  <2>4. mem' \in [access : Pair, refresh : Pair]
    BY <1>2 DEF ClearSession, Cleared, TypeOK
  <2>5. crossed' \in BOOLEAN
    BY <1>2, Zenon DEF ClearSession, TypeOK
  <2> QED BY <1>2, <2>2, <2>3, <2>4, <2>5, CallsTyped DEF ClearSession, TypeOK, api
<1> QED BY <1>1, <1>2

LEMMA RequestingTyped ==
  ASSUME SessionsInv, NEW c \in Calls, Requesting(c) PROVE TypeOK'
<1> USE DEF Serving
<1>0. /\ TypeOK /\ TaskShape(c) /\ task[c] \in Tasks
      /\ mem.access \in Pair /\ mem.refresh \in Pair /\ handler[c].pair \in Pair
  BY DEF SessionsInv, TypeOK, Handlers
<1>1. ASSUME \/ task' = task
             \/ \E t \in Tasks : task' = [task EXCEPT ![c] = t],
             \/ handler' = handler
             \/ \E h \in Handlers : handler' = [handler EXCEPT ![c] = h],
             UNCHANGED <<api, stale, mem, store, user, crossed>>
      PROVE  TypeOK'
  BY <1>0, <1>1, CallsTyped DEF TypeOK, api
<1>2. CASE StartQuery(c)
  <2>1. \E t \in Tasks : task' = [task EXCEPT ![c] = t]
    BY <1>0, <1>2, TaskRecords DEF StartQuery, Labels, Kinds
  <2> QED BY <1>1, <1>2, <2>1 DEF StartQuery
<1>3. CASE StartLogin(c)
  <2>1. \E t \in Tasks : task' = [task EXCEPT ![c] = t]
    BY <1>0, <1>3, TaskRecords DEF StartLogin, Labels, Kinds
  <2> QED BY <1>1, <1>3, <2>1 DEF StartLogin
<1>4. CASE StartLogout(c)
  <2>1. \E t \in Tasks : task' = [task EXCEPT ![c] = t]
    BY <1>0, <1>4, TaskRecords DEF StartLogout, Labels, Kinds
  <2>2. handler' = handler \/ \E h \in Handlers : handler' = [handler EXCEPT ![c] = h]
    BY <1>0, <1>4, HandlerUpdates DEF StartLogout, HandlerLabels
  <2> QED BY <1>1, <1>4, <2>1, <2>2 DEF StartLogout
<1>5. CASE TryRefresh(c)
  <2>1. task' = [task EXCEPT ![c] = [task[c] EXCEPT !.at = "refreshing", !.access = None]]
    BY <1>5 DEF TryRefresh
  <2>2. \E t \in Tasks : task' = [task EXCEPT ![c] = t]
    BY <1>0, <2>1, TaskRecords DEF Labels
  <2>3. \E h \in Handlers : handler' = [handler EXCEPT ![c] = h]
    BY <1>0, <1>5, HandlerUpdates DEF TryRefresh, HandlerLabels
  <2> QED BY <1>1, <1>5, <2>2, <2>3 DEF TryRefresh
<1>6. CASE RequestEnds(c)
  BY <1>0, <1>1, <1>6, HandlerUpdates, TaskUpdates DEF RequestEnds
<1>7. CASE CredentialsAccepted(c)
  <2>1. \E h \in Handlers : handler' = [handler EXCEPT ![c] = h]
    BY <1>0, <1>7, HandlerUpdates DEF CredentialsAccepted, HandlerLabels
  <2> QED BY <1>1, <1>7, <2>1 DEF CredentialsAccepted, device
<1>8. CASE SignedIn(c)
  BY <1>0, <1>8, SessionTyped DEF SignedIn, TaskShape, At
<1>9. CASE Refreshed(c)
  BY <1>0, <1>9, SessionTyped DEF Refreshed, TaskShape, At
<1>10. CASE RefreshRejected(c)
  BY <1>0, <1>10, SessionTyped DEF RefreshRejected
<1>11. CASE AnswerLost(c)
  BY <1>0, <1>1, <1>11, HandlerUpdates, TaskUpdates DEF AnswerLost
<1>12. CASE RequestLost(c)
  BY <1>0, <1>1, <1>12, HandlerUpdates, TaskUpdates DEF RequestLost
<1>13. CASE Leave(c)
  BY <1>0, <1>13, SessionTyped DEF Leave
<1> QED
  BY <1>2, <1>3, <1>4, <1>5, <1>6, <1>7, <1>8, <1>9, <1>10, <1>11, <1>12, <1>13 DEF Requesting

LEMMA StoringTyped ==
  ASSUME SessionsInv, NEW c \in Calls, Storing(c) PROVE TypeOK'
<1>0. /\ TypeOK /\ TaskShape(c) /\ task[c] \in Tasks /\ task[c].pair \in Pair
      /\ mem.access \in Pair /\ store \in [access : Pair, refresh : Pair, user : BOOLEAN]
  BY DEF SessionsInv, TypeOK, Tasks
<1>1. ASSUME \E t \in Tasks : task' = [task EXCEPT ![c] = t],
             store' \in [access : Pair, refresh : Pair, user : BOOLEAN], user' \in BOOLEAN,
             UNCHANGED <<api, stale, handler, mem, crossed>>
      PROVE  TypeOK'
  BY <1>0, <1>1, CallsTyped DEF TypeOK, api
<1>2. UNCHANGED user => user' \in BOOLEAN
  BY <1>0 DEF TypeOK
<1>3. CASE KeepAccess(c)
  BY <1>0, <1>1, <1>2, <1>3, TaskUpdates DEF KeepAccess, Labels, Keeping
<1>4. CASE KeepRefresh(c)
  <2>1. task' = [task EXCEPT ![c] = [task[c] EXCEPT !.at = "keepUser", !.pair = None]]
    BY <1>4 DEF KeepRefresh
  <2>2. \E t \in Tasks : task' = [task EXCEPT ![c] = t]
    BY <1>0, <2>1, TaskRecords DEF Labels, Keeping
  <2> QED BY <1>0, <1>1, <1>2, <1>4, <2>2 DEF KeepRefresh
<1>5. CASE KeepUser(c)
  <2>1. CASE End(c)
    BY <1>0, <1>1, <1>2, <1>5, <2>1, TaskUpdates DEF KeepUser
  <2>2. CASE task' = [task EXCEPT ![c] = [NoTask EXCEPT !.at = "asking", !.kind = task[c].kind,
                                           !.retried = TRUE, !.access = mem.access]]
    <3>1. \E t \in Tasks : task' = [task EXCEPT ![c] = t]
      BY <1>0, <2>2, TaskRecords DEF Labels
    <3> QED BY <1>0, <1>1, <1>2, <1>5, <3>1 DEF KeepUser
  <2> QED BY <1>5, <2>1, <2>2 DEF KeepUser
<1>6. CASE ForgetAccess(c)
  BY <1>0, <1>1, <1>2, <1>6, TaskUpdates DEF ForgetAccess, Labels, Forgetting
<1>7. CASE ForgetRefresh(c)
  BY <1>0, <1>1, <1>2, <1>7, TaskUpdates DEF ForgetRefresh, Labels, Forgetting
<1>8. CASE ForgetUser(c)
  BY <1>0, <1>1, <1>8, TaskUpdates DEF ForgetUser
<1> QED BY <1>3, <1>4, <1>5, <1>6, <1>7, <1>8 DEF Storing

LEMMA RestTyped ==
  ASSUME SessionsInv PROVE
  /\ \A p \in Pairs : RefreshExpires(p) => TypeOK'
  /\ AccessExpires => TypeOK'
  /\ Restart => TypeOK'
<1>0. TypeOK
  BY DEF SessionsInv
<1>1. ASSUME NEW p \in Pairs, RefreshExpires(p) PROVE TypeOK'
  <2>1. row' \in [Pairs -> RowStates]
    BY <1>0, <1>1 DEF RefreshExpires, TypeOK, RowStates
  <2> QED BY <1>0, <1>1, <2>1 DEF RefreshExpires, TypeOK, device
<1>2. ASSUME AccessExpires PROVE TypeOK'
  BY <1>0, <1>2 DEF AccessExpires, TypeOK, api, device
<1>3. ASSUME Restart PROVE TypeOK'
  <2>1. \A c \in Calls : Dropped(c) \in Handlers
    BY <1>0, HandlerRecords DEF TypeOK, Dropped
  <2>2. handler' \in [Calls -> Handlers] /\ task' \in [Calls -> Tasks]
    BY <1>3, <2>1, TaskRecords DEF Restart
  <2>3. mem' \in [access : Pair, refresh : Pair]
    BY <1>0, <1>3 DEF Restart, TypeOK
  <2>4. user' \in BOOLEAN /\ crossed' \in BOOLEAN
    BY <1>0, <1>3, Zenon DEF Restart, TypeOK
  <2> QED BY <1>0, <1>3, <2>2, <2>3, <2>4 DEF Restart, TypeOK, api
<1> QED BY <1>1, <1>2, <1>3

LEMMA StutterTyped == ASSUME TypeOK, UNCHANGED vars PROVE TypeOK'
BY DEF TypeOK, vars, api, device

LEMMA TypeStep == ASSUME SessionsInv, Next PROVE TypeOK'
BY HandlingTyped, RequestingTyped, StoringTyped, RestTyped DEF Next
-----------------------------------------------------------------------------
\* How the API's rows go on, whoever moves.
Onward ==
  /\ issued <= issued'
  /\ \A p \in Pairs : row'[p] = "absent" <=> p > issued'
  /\ \A t \in Pairs : row[t] = "revoked" => row'[t] = "revoked"
  /\ \A t \in Pairs : t <= issued /\ row[t] # "live" => row'[t] # "live"

LEMMA HandlingRows ==
  ASSUME SessionsInv, NEW c \in Calls, Handling(c) PROVE Onward
<1>0. /\ TypeOK /\ HandlerShape(handler[c])
      /\ \A p \in Pairs : row[p] = "absent" <=> p > issued
      /\ issued \in 0..MaxPairs /\ row \in [Pairs -> RowStates]
  BY DEF SessionsInv, TypeOK
<1>1. CASE Find(c) \/ HandlerFails(c)
  BY <1>0, <1>1 DEF Find, HandlerFails, Onward, api
<1>2. CASE Revoke(c)
  <2>1. handler[c].token \in Pairs /\ handler[c].token <= issued
    BY <1>0, <1>2 DEF Revoke, Serving, HandlerShape, Known
  <2> QED BY <1>0, <1>2, <2>1 DEF Revoke, Onward
<1>3. CASE EmitirTokens(c)
  BY <1>0, <1>3 DEF EmitirTokens, Onward
<1>4. CASE LogOut(c)
  <2>1. handler[c].token \in Pairs /\ handler[c].token <= issued
    BY <1>0, <1>4 DEF LogOut, Serving, HandlerShape, Known
  <2> QED BY <1>0, <1>4, <2>1 DEF LogOut, Onward
<1> QED BY <1>1, <1>2, <1>3, <1>4 DEF Handling

LEMMA RowsUntouched ==
  ASSUME SessionsInv, UNCHANGED <<issued, row>> PROVE Onward
BY DEF SessionsInv, TypeOK, Onward

LEMMA RequestingRows ==
  ASSUME SessionsInv, NEW c \in Calls, Requesting(c) \/ Storing(c) PROVE Onward
<1>1. UNCHANGED <<issued, row>>
  BY DEF Requesting, Storing, StartQuery, StartLogin, StartLogout, TryRefresh, RequestEnds,
     CredentialsAccepted, SignedIn, Refreshed, RefreshRejected, AnswerLost, RequestLost, Leave,
     SetSession, ClearSession, KeepAccess, KeepRefresh, KeepUser, ForgetAccess, ForgetRefresh,
     ForgetUser, api
<1> QED BY <1>1, RowsUntouched

LEMMA RestRows ==
  ASSUME SessionsInv PROVE
  /\ \A p \in Pairs : RefreshExpires(p) => Onward
  /\ AccessExpires \/ Restart \/ UNCHANGED vars => Onward
<1>1. ASSUME NEW p \in Pairs, RefreshExpires(p) PROVE Onward
  BY <1>1 DEF SessionsInv, TypeOK, RefreshExpires, Onward
<1>2. ASSUME AccessExpires \/ Restart \/ UNCHANGED vars PROVE Onward
  <2>1. UNCHANGED <<issued, row>>
    BY <1>2 DEF AccessExpires, Restart, vars, api
  <2> QED BY <2>1, RowsUntouched
<1> QED BY <1>1, <1>2

\* A call that did not move keeps its shape.
LEMMA OthersShape ==
  ASSUME SessionsInv, Onward, TypeOK', NEW d \in Calls, handler'[d] = handler[d], task'[d] = task[d]
  PROVE  HandlerShape(handler[d])' /\ TaskShape(d)'
<1>1. HandlerShape(handler[d]) /\ TaskShape(d) /\ TypeOK /\ handler[d] \in Handlers /\ task[d] \in Tasks
  BY DEF SessionsInv, TypeOK
<1>2. \A p \in Pair : Known(p) => Known(p)'
  BY <1>1 DEF Onward, Known, TypeOK
<1>3. HandlerShape(handler[d])'
  <2>1. handler[d].token \in Pair /\ handler[d].pair \in Pair
    BY <1>1 DEF Handlers
  <2>2. handler[d].at = "create" /\ handler[d].token # None => row'[handler[d].token] = "revoked"
    BY <1>1, <2>1 DEF HandlerShape, Onward
  <2>3. handler[d].at = "refused" => row'[handler[d].token] # "live"
    BY <1>1, <2>1 DEF HandlerShape, Onward, Known
  <2> QED BY <1>1, <1>2, <2>1, <2>2, <2>3 DEF HandlerShape
<1>4. TaskShape(d)'
  <2>1. task[d].pair \in Pair
    BY <1>1 DEF Tasks
  <2> QED BY <1>1, <1>2, <2>1 DEF TaskShape, At, Serving, HandlersOf, Forgetting
<1> QED BY <1>3, <1>4

LEMMA CallStep ==
  ASSUME SessionsInv, Onward, TypeOK', NEW c \in Calls,
         \A d \in Calls \ {c} : handler'[d] = handler[d] /\ task'[d] = task[d],
         HandlerShape(handler[c])', TaskShape(c)', DeviceKnown'
  PROVE  SessionsInv'
<1>1. ASSUME NEW d \in Calls PROVE HandlerShape(handler[d])' /\ TaskShape(d)'
  BY OthersShape
<1>2. (\A p \in Pairs : row[p] = "absent" <=> p > issued)'
  BY DEF Onward
<1> QED BY <1>1, <1>2 DEF SessionsInv

LEMMA HandlingShape ==
  ASSUME SessionsInv, NEW c \in Calls, Handling(c) PROVE SessionsInv'
<1> DEFINE at == handler[c].at  token == handler[c].token
<1>0. /\ Onward /\ TypeOK /\ TypeOK' /\ HandlerShape(handler[c]) /\ TaskShape(c) /\ DeviceKnown
      /\ handler[c] \in Handlers /\ task[c] \in Tasks /\ handler \in [Calls -> Handlers]
      /\ issued \in Nat /\ issued' \in Nat
  BY HandlingRows, HandlingTyped DEF SessionsInv, TypeOK
<1>1. UNCHANGED device
  BY DEF Handling, Find, Revoke, EmitirTokens, LogOut, HandlerFails
<1>2. DeviceKnown'
  BY <1>0, <1>1 DEF DeviceKnown, Known, Onward, device, TypeOK
<1>3. \A d \in Calls \ {c} : handler'[d] = handler[d] /\ task'[d] = task[d]
  BY <1>0, <1>1 DEF Handling, Find, Revoke, EmitirTokens, LogOut, HandlerFails, Answer, device
<1>4. /\ at \in {"find", "revoke"} => task[c].at \in {"refreshing", "idle"}
      /\ at = "create" => task[c].at \in {"asking", "refreshing", "idle"}
      /\ at = "logout" => task[c].at \in {"leaving", "idle"} \cup Keeping \cup Forgetting
  BY <1>0 DEF TaskShape, HandlersOf, Forgetting, Answers, Tasks, Labels, HandlerLabels
<1>5. Known(task[c].pair)'
  BY <1>0, <1>1 DEF TaskShape, Known, Onward, device, Tasks
<1>6. ASSUME handler'[c].at \in HandlersOf(task[c].at),
             handler'[c].at = "granted" /\ ~At(c, "leaving") => handler'[c].pair \in Pairs
      PROVE  TaskShape(c)'
  BY <1>0, <1>1, <1>5, <1>6 DEF TaskShape, device, At, Serving
<1>7. ASSUME HandlerShape(handler[c])', TaskShape(c)' PROVE SessionsInv'
  BY <1>0, <1>2, <1>3, <1>7, CallStep
<1>8. HandlerShape(NoHandler)' /\ NoHandler.at = "idle"
  BY DEF HandlerShape, NoHandler, Known
<1>9. CASE Find(c)
  <2>1. token \in Pairs /\ token <= issued /\ token <= issued' /\ UNCHANGED row
    BY <1>0, <1>9 DEF Find, Serving, HandlerShape, Known, Onward
  <2>2. CASE Usable(token)
    <3>1. handler'[c] = [handler[c] EXCEPT !.at = "revoke"]
      BY <1>0, <1>9, <2>2 DEF Find
    <3>2. HandlerShape(handler[c])'
      BY <1>0, <2>1, <3>1 DEF HandlerShape, Handlers, Known, Onward
    <3> QED BY <1>0, <1>4, <1>6, <1>7, <1>9, <3>1, <3>2 DEF Find, Serving, HandlersOf, Forgetting, Handlers, Answers, HandlerLabels
  <2>3. CASE ~Usable(token)
    <3>1. handler'[c] = IF Waiting(c) THEN [at |-> "refused", token |-> token, pair |-> None] ELSE NoHandler
      BY <1>0, <1>9, <2>3 DEF Find, Answer
    <3>2. HandlerShape(handler[c])'
      BY <1>8, <2>1, <2>3, <3>1 DEF HandlerShape, Known, Usable
    <3> QED BY <1>0, <1>4, <1>6, <1>7, <1>8, <1>9, <3>1, <3>2
            DEF Find, Serving, HandlersOf, Forgetting, Waiting, Answers, HandlerLabels
  <2> QED BY <2>2, <2>3
<1>10. CASE Revoke(c)
  <2>1. handler'[c] = [handler[c] EXCEPT !.at = "create"] /\ token \in Pairs /\ row'[token] = "revoked"
    BY <1>0, <1>10 DEF Revoke, Serving, HandlerShape, TypeOK
  <2>2. HandlerShape(handler[c])'
    BY <1>0, <2>1 DEF HandlerShape, Handlers, Known, Onward
  <2> QED BY <1>0, <1>4, <1>6, <1>7, <1>10, <2>1, <2>2 DEF Revoke, Serving, HandlersOf, Forgetting, Handlers, Answers, HandlerLabels
<1>11. CASE EmitirTokens(c)
  <2>1. /\ handler'[c] = IF Waiting(c) THEN [at |-> "granted", token |-> None, pair |-> issued + 1] ELSE NoHandler
        /\ issued + 1 \in Pairs /\ issued' = issued + 1
    BY <1>0, <1>11 DEF EmitirTokens, Answer, TypeOK
  <2>2. HandlerShape(handler[c])'
    BY <1>0, <1>8, <2>1 DEF HandlerShape, Known
  <2> QED BY <1>0, <1>4, <1>6, <1>7, <1>8, <1>11, <2>1, <2>2
          DEF EmitirTokens, Serving, HandlersOf, Forgetting, Waiting, Answers, HandlerLabels
<1>12. CASE LogOut(c)
  <2>1. handler'[c] = IF Waiting(c) THEN [at |-> "granted", token |-> None, pair |-> None] ELSE NoHandler
    BY <1>0, <1>12 DEF LogOut, Answer
  <2>2. HandlerShape(handler[c])'
    BY <1>0, <1>8, <2>1 DEF HandlerShape, Known
  <2> QED BY <1>0, <1>4, <1>6, <1>7, <1>8, <1>12, <2>1, <2>2
          DEF LogOut, Serving, At, HandlersOf, Waiting, Answers, HandlerLabels, Keeping, Forgetting
<1>13. CASE HandlerFails(c)
  <2>1. handler'[c] = IF Waiting(c) THEN [at |-> "failed", token |-> None, pair |-> None] ELSE NoHandler
    BY <1>0, <1>13 DEF HandlerFails, Answer
  <2>2. HandlerShape(handler[c])'
    BY <1>0, <1>8, <2>1 DEF HandlerShape, Known
  <2> QED BY <1>0, <1>4, <1>6, <1>7, <1>8, <1>13, <2>1, <2>2
          DEF HandlerFails, HandlersOf, Waiting, Answers, HandlerLabels, Keeping, Forgetting
<1> QED BY <1>9, <1>10, <1>11, <1>12, <1>13 DEF Handling

\* A step of the app at c, from what it leaves in c's handler and task.
LEMMA AppShape ==
  ASSUME SessionsInv, TypeOK', Onward, NEW c \in Calls, UNCHANGED issued,
         \A d \in Calls \ {c} : handler'[d] = handler[d] /\ task'[d] = task[d],
         handler'[c] = NoHandler \/ handler'[c] = handler[c]
           \/ (handler'[c].at = "create" /\ handler'[c].token = None /\ handler'[c].pair = None)
           \/ (\E t \in Pairs : t <= issued /\ handler'[c].token = t /\ handler'[c].pair = None
                                 /\ handler'[c].at \in {"find", "logout"}),
         task'[c].at = "idle" => task'[c] = NoTask,
         handler'[c].at \in HandlersOf(task'[c].at),
         handler'[c].at = "granted" /\ task'[c].at # "leaving" => handler'[c].pair \in Pairs,
         task'[c].at \in {"keepAccess", "keepRefresh"} => task'[c].pair \in Pairs,
         task'[c].at \in Keeping => task'[c].next \in {"show", "retry"},
         Known(task'[c].pair), DeviceKnown'
  PROVE  SessionsInv'
<1>1. HandlerShape(NoHandler)'
  BY DEF HandlerShape, NoHandler, Known
<1>2. handler'[c] = handler[c] => HandlerShape(handler[c])'
  <2> SUFFICES ASSUME handler'[c] = handler[c] PROVE HandlerShape(handler[c])'
    OBVIOUS
  <2>1. HandlerShape(handler[c]) /\ handler[c] \in Handlers /\ issued \in Nat /\ issued' \in Nat
    BY DEF SessionsInv, TypeOK
  <2>2. \A p \in Pair : Known(p) => Known(p)'
    BY <2>1 DEF Known, Onward
  <2>3. handler[c].token \in Pair /\ handler[c].pair \in Pair
    BY <2>1 DEF Handlers
  <2>4. handler[c].at = "create" /\ handler[c].token # None => row'[handler[c].token] = "revoked"
    BY <2>1, <2>3 DEF HandlerShape, Onward
  <2>5. handler[c].at = "refused" => row'[handler[c].token] # "live"
    BY <2>1, <2>3 DEF HandlerShape, Onward, Known
  <2> QED BY <2>1, <2>2, <2>3, <2>4, <2>5 DEF HandlerShape
<1>3. ASSUME NEW t \in Pairs, t <= issued, handler'[c].token = t, handler'[c].pair = None,
             handler'[c].at \in {"find", "logout"}
      PROVE  HandlerShape(handler[c])'
  BY <1>3 DEF HandlerShape, Known
<1>4. ASSUME handler'[c].at = "create", handler'[c].token = None, handler'[c].pair = None
      PROVE  HandlerShape(handler[c])'
  BY <1>4 DEF HandlerShape, Known
<1>5. HandlerShape(handler[c])'
  BY <1>1, <1>2, <1>3, <1>4
<1>6. TaskShape(c)'
  BY DEF TaskShape, Known, At, Serving
<1> QED BY <1>5, <1>6, CallStep

\* A call that ends, one that begins to clear the session, one that begins to keep it.
LEMMA EndShape ==
  ASSUME SessionsInv, TypeOK', Onward, NEW c \in Calls, UNCHANGED issued, DeviceKnown',
         \A d \in Calls \ {c} : handler'[d] = handler[d] /\ task'[d] = task[d],
         task'[c] = NoTask,
         handler'[c] = NoHandler \/ (handler'[c] = handler[c] /\ handler[c].at \notin Answers)
  PROVE  SessionsInv'
<1>1. /\ task'[c].at = "idle" /\ task'[c].pair = None
      /\ NoHandler.at = "idle" /\ handler[c] \in Handlers
  BY DEF NoTask, NoHandler, SessionsInv, TypeOK
<1>2. handler'[c].at \in HandlersOf(task'[c].at) /\ handler'[c].at # "granted"
  BY <1>1 DEF HandlersOf, Forgetting, Handlers, HandlerLabels, Answers
<1>3. Known(task'[c].pair)
  BY <1>1 DEF Known
<1>4. handler'[c] = NoHandler \/ handler'[c] = handler[c]
  OBVIOUS
<1>5. task'[c].at \notin Keeping /\ task'[c].at \notin {"keepAccess", "keepRefresh"}
  BY <1>1 DEF Keeping
<1> QED BY <1>1, <1>2, <1>3, <1>4, <1>5, AppShape

LEMMA ClearShape ==
  ASSUME SessionsInv, TypeOK', Onward, NEW c \in Calls, ClearSession(c),
         \A d \in Calls \ {c} : handler'[d] = handler[d] /\ task'[d] = task[d],
         handler'[c] = NoHandler \/ (handler'[c] = handler[c] /\ handler[c].at = "logout")
  PROVE  SessionsInv'
<1>0. task \in [Calls -> Tasks] /\ mem \in [access : Pair, refresh : Pair]
  BY DEF SessionsInv, TypeOK
<1>1. /\ task'[c].at = "forgetAccess" /\ task'[c].pair = None
      /\ NoHandler.at = "idle"
  BY <1>0 DEF NoTask, NoHandler, ClearSession
<1>2. handler'[c].at \in HandlersOf(task'[c].at) /\ handler'[c].at # "granted"
  BY <1>1 DEF HandlersOf, Keeping, Forgetting
<1>3. UNCHANGED <<issued, store>> /\ mem'.refresh = None
  BY <1>0 DEF ClearSession, Cleared, api
<1>4. DeviceKnown' /\ Known(task'[c].pair)
  BY <1>1, <1>3 DEF SessionsInv, DeviceKnown, Known
<1>5. handler'[c] = NoHandler \/ handler'[c] = handler[c]
  OBVIOUS
<1>6. task'[c].at \notin Keeping
  BY <1>1 DEF Keeping
<1>7. task'[c].at \notin {"keepAccess", "keepRefresh"} /\ task'[c].at # "idle" /\ UNCHANGED issued
  BY <1>1, <1>3
<1> QED BY <1>1, <1>2, <1>4, <1>5, <1>6, <1>7, AppShape

LEMMA SetShape ==
  ASSUME SessionsInv, TypeOK', Onward, NEW c \in Calls, NEW p \in Pairs, p <= issued,
         NEW next \in {"show", "retry"}, SetSession(c, p, next)
  PROVE  SessionsInv'
<1>0. task \in [Calls -> Tasks] /\ handler \in [Calls -> Handlers]
  BY DEF SessionsInv, TypeOK
<1>1. task' = [task EXCEPT ![c] = [task[c] EXCEPT !.at = "keepAccess", !.pair = p, !.next = next]]
  BY DEF SetSession
<1>2. /\ task'[c].at = "keepAccess" /\ task'[c].pair = p /\ task'[c].next = next
      /\ handler'[c] = NoHandler /\ NoHandler.at = "idle"
  BY <1>0, <1>1 DEF NoHandler, SetSession, Tasks
<1>3. \A d \in Calls \ {c} : handler'[d] = handler[d] /\ task'[d] = task[d]
  BY <1>0, <1>1 DEF SetSession
<1>4. UNCHANGED <<issued, store>> /\ mem'.refresh = p
  BY DEF SetSession, api
<1>5. DeviceKnown' /\ Known(task'[c].pair)
  BY <1>2, <1>4 DEF SessionsInv, DeviceKnown, Known
<1>6. handler'[c].at \in HandlersOf(task'[c].at) /\ handler'[c].at # "granted"
  BY <1>2 DEF HandlersOf, Keeping, Forgetting
<1>7. UNCHANGED issued
  BY <1>4
<1> QED BY <1>2, <1>3, <1>5, <1>6, <1>7, AppShape

LEMMA RequestingShape ==
  ASSUME SessionsInv, NEW c \in Calls, Requesting(c) PROVE SessionsInv'
<1>0. /\ Onward /\ TypeOK /\ TypeOK' /\ HandlerShape(handler[c]) /\ TaskShape(c) /\ DeviceKnown
      /\ handler[c] \in Handlers /\ task[c] \in Tasks
      /\ handler \in [Calls -> Handlers] /\ task \in [Calls -> Tasks]
      /\ Known(None) /\ mem.refresh \in Pair
  BY RequestingRows, RequestingTyped DEF SessionsInv, TypeOK, Known
<1>1. ASSUME UNCHANGED <<issued, mem, store>>,
             \A d \in Calls \ {c} : handler'[d] = handler[d] /\ task'[d] = task[d],
             handler'[c] = NoHandler \/ handler'[c] = handler[c]
               \/ (handler'[c].at = "create" /\ handler'[c].token = None /\ handler'[c].pair = None)
               \/ (\E t \in Pairs : t <= issued /\ handler'[c].token = t /\ handler'[c].pair = None
                                     /\ handler'[c].at \in {"find", "logout"}),
             task'[c].at \in {"asking", "refreshing", "leaving"},
             handler'[c].at \in HandlersOf(task'[c].at) \ Answers,
             Known(task'[c].pair)
      PROVE  SessionsInv'
  <2>1. DeviceKnown' /\ UNCHANGED issued
    BY <1>0, <1>1 DEF DeviceKnown, Known
  <2>2. handler'[c].at # "granted"
    BY <1>1 DEF Answers
  <2>3. task'[c].at \notin Keeping /\ task'[c].at \notin {"keepAccess", "keepRefresh"} /\ task'[c].at # "idle"
    BY <1>1 DEF Keeping
  <2> QED BY <1>0, <1>1, <2>1, <2>2, <2>3, AppShape
<1>14. ASSUME UNCHANGED <<issued, mem, store>> PROVE DeviceKnown'
  BY <1>0, <1>14 DEF DeviceKnown, Known
<1>2. CASE StartQuery(c)
  <2>1. /\ task'[c] = [NoTask EXCEPT !.at = "asking", !.kind = "query", !.access = mem.access]
        /\ handler'[c] = NoHandler
    BY <1>0, <1>2 DEF StartQuery, Free
  <2>2. task'[c].at = "asking" /\ task'[c].pair = None /\ handler'[c].at = "idle"
    BY <2>1 DEF NoTask, NoHandler
  <2> QED BY <1>0, <1>1, <1>2, <2>1, <2>2 DEF StartQuery, api, HandlersOf, Forgetting, Answers
<1>3. CASE StartLogin(c)
  <2>1. /\ task'[c] = [NoTask EXCEPT !.at = "asking", !.kind = "login"]
        /\ handler'[c] = NoHandler
    BY <1>0, <1>3 DEF StartLogin, Free
  <2>2. task'[c].at = "asking" /\ task'[c].pair = None /\ handler'[c].at = "idle"
    BY <2>1 DEF NoTask, NoHandler
  <2> QED BY <1>0, <1>1, <1>3, <2>1, <2>2 DEF StartLogin, api, HandlersOf, Forgetting, Answers
<1>4. CASE StartLogout(c)
  <2>1. task'[c] = [NoTask EXCEPT !.at = "leaving", !.kind = "logout"]
    BY <1>0, <1>4 DEF StartLogout
  <2>2. task'[c].at = "leaving" /\ task'[c].pair = None
    BY <2>1 DEF NoTask
  <2>3. UNCHANGED <<issued, mem, store>> /\ \A d \in Calls \ {c} : handler'[d] = handler[d] /\ task'[d] = task[d]
    BY <1>0, <1>4 DEF StartLogout, Ask, api
  <2>4. CASE mem.refresh = None
    BY <1>0, <1>1, <1>4, <2>2, <2>3, <2>4 DEF StartLogout, Free, NoHandler, HandlersOf, Forgetting, Answers
  <2>5. CASE mem.refresh # None
    <3>1. handler'[c].at = "logout" /\ handler'[c].token = mem.refresh /\ handler'[c].pair = None
      BY <1>0, <1>4, <2>5 DEF StartLogout, Ask, NoHandler
    <3>2. mem.refresh \in Pairs /\ mem.refresh <= issued
      BY <1>0, <2>5 DEF DeviceKnown, Known
    <3>3. handler'[c].at \in HandlersOf(task'[c].at) \ Answers
      BY <2>2, <3>1 DEF HandlersOf, Forgetting, Answers
    <3> QED BY <1>0, <1>1, <2>2, <2>3, <3>1, <3>2, <3>3
  <2> QED BY <2>4, <2>5
<1>5. CASE TryRefresh(c)
  <2>1. task' = [task EXCEPT ![c] = [task[c] EXCEPT !.at = "refreshing", !.access = None]]
    BY <1>5 DEF TryRefresh
  <2>2. task'[c].at = "refreshing" /\ task'[c].pair = task[c].pair
    BY <1>0, <2>1 DEF Tasks
  <2>3. handler'[c].at = "find" /\ handler'[c].token = mem.refresh /\ handler'[c].pair = None
    BY <1>0, <1>5 DEF TryRefresh, Ask, NoHandler
  <2>4. mem.refresh \in Pairs /\ mem.refresh <= issued
    BY <1>0, <1>5 DEF TryRefresh, MayRefresh, DeviceKnown, Known
  <2>5. handler'[c].at \in HandlersOf(task'[c].at) \ Answers
    BY <2>2, <2>3 DEF HandlersOf, Forgetting, Answers
  <2>6. UNCHANGED <<issued, mem, store>> /\ \A d \in Calls \ {c} : handler'[d] = handler[d] /\ task'[d] = task[d]
    BY <1>0, <1>5, <2>1 DEF TryRefresh, Ask, api
  <2> QED BY <1>0, <1>1, <2>2, <2>3, <2>4, <2>5, <2>6 DEF TaskShape
<1>6. CASE RequestEnds(c)
  BY <1>0, <1>14, <1>6, EndShape DEF RequestEnds, End, api
<1>7. CASE CredentialsAccepted(c)
  <2>1. UNCHANGED <<issued, mem, store, task>> /\ \A d \in Calls \ {c} : handler'[d] = handler[d] /\ task'[d] = task[d]
    BY <1>0, <1>7 DEF CredentialsAccepted, Ask, api, device
  <2>2. handler'[c].at = "create" /\ handler'[c].token = None /\ handler'[c].pair = None
    BY <1>0, <1>7 DEF CredentialsAccepted, Ask, NoHandler
  <2>3. handler'[c].at = "create" /\ task'[c].at = "asking"
    BY <1>7, <2>1, <2>2 DEF CredentialsAccepted, At, NoHandler
  <2>4. handler'[c].at \in HandlersOf(task'[c].at) \ Answers
    BY <2>3 DEF HandlersOf, Forgetting, Answers
  <2> QED BY <1>0, <1>1, <2>1, <2>2, <2>3, <2>4 DEF TaskShape
<1>8. ASSUME SignedIn(c) \/ Refreshed(c)
      PROVE  handler[c].pair \in Pairs /\ handler[c].pair <= issued
  BY <1>0, <1>8 DEF SignedIn, Refreshed, TaskShape, HandlerShape, Known, At
<1>9. CASE SignedIn(c) \/ Refreshed(c)
  BY <1>0, <1>8, <1>9, SetShape DEF SignedIn, Refreshed
<1>10. CASE RefreshRejected(c)
  BY <1>0, <1>10, ClearShape DEF RefreshRejected, ClearSession
<1>11. CASE AnswerLost(c)
  BY <1>0, <1>14, <1>11, EndShape DEF AnswerLost, Dropped, End, api
<1>12. CASE RequestLost(c)
  BY <1>0, <1>14, <1>12, EndShape DEF RequestLost, End, api
<1>13. CASE Leave(c)
  <2>1. \A d \in Calls \ {c} : handler'[d] = handler[d] /\ task'[d] = task[d]
    BY <1>0, <1>13 DEF Leave, ClearSession
  <2>2. handler'[c] = NoHandler \/ (handler'[c] = handler[c] /\ handler[c].at = "logout")
    BY <1>0, <1>13 DEF Leave, Serving
  <2> QED BY <1>0, <1>13, <2>1, <2>2, ClearShape DEF Leave
<1> QED
  BY <1>2, <1>3, <1>4, <1>5, <1>6, <1>7, <1>9, <1>10, <1>11, <1>12, <1>13 DEF Requesting
LEMMA StoringShape ==
  ASSUME SessionsInv, NEW c \in Calls, Storing(c) PROVE SessionsInv'
<1>0. /\ Onward /\ TypeOK /\ TypeOK' /\ TaskShape(c) /\ DeviceKnown
      /\ handler[c] \in Handlers /\ task[c] \in Tasks
      /\ handler \in [Calls -> Handlers] /\ task \in [Calls -> Tasks]
      /\ mem \in [access : Pair, refresh : Pair]
      /\ store \in [access : Pair, refresh : Pair, user : BOOLEAN]
  BY RequestingRows, StoringTyped DEF SessionsInv, TypeOK
<1>1. UNCHANGED <<issued, mem, handler>>
  BY DEF Storing, KeepAccess, KeepRefresh, KeepUser, ForgetAccess, ForgetRefresh, ForgetUser, api
<1>2. /\ task[c].at \in Keeping => handler[c].at = "idle"
      /\ task[c].at \in Forgetting => handler[c].at \in {"idle", "logout"}
  BY <1>0 DEF TaskShape, HandlersOf, Keeping, Forgetting
<1>3. ASSUME task' = [task EXCEPT ![c] = task'[c]], DeviceKnown',
             task[c].at \in Keeping \cup Forgetting,
             task'[c].at \in {"keepRefresh", "keepUser", "forgetRefresh", "forgetUser"},
             task'[c].pair = task[c].pair \/ (task'[c].at = "keepUser" /\ task'[c].pair = None),
             task'[c].at = "keepRefresh" => task[c].at = "keepAccess",
             task'[c].at \in Keeping => task[c].at \in Keeping /\ task'[c].next = task[c].next
      PROVE  SessionsInv'
  <2>1. /\ handler'[c] = handler[c] /\ UNCHANGED issued
        /\ \A d \in Calls \ {c} : handler'[d] = handler[d] /\ task'[d] = task[d]
    BY <1>0, <1>1, <1>3
  <2>2. handler'[c].at = "idle" \/ (handler'[c].at = "logout" /\ task'[c].at \in Forgetting)
    BY <1>2, <1>3, <2>1 DEF Keeping, Forgetting
  <2>3. handler'[c].at \in HandlersOf(task'[c].at) /\ handler'[c].at # "granted"
    BY <1>3, <2>2 DEF HandlersOf, Forgetting
  <2>4. Known(task'[c].pair)
    BY <1>0, <1>3 DEF TaskShape, Known
  <2>5. task'[c].at \in {"keepAccess", "keepRefresh"} => task'[c].pair \in Pairs
    BY <1>0, <1>3 DEF TaskShape
  <2>6. task'[c].at \in Keeping => task'[c].next \in {"show", "retry"}
    BY <1>0, <1>3 DEF TaskShape
  <2>7. task'[c].at # "idle"
    BY <1>3
  <2> QED BY <1>0, <1>3, <2>1, <2>3, <2>4, <2>5, <2>6, <2>7, AppShape
<1>4. ASSUME NEW label \in Labels, Goto(c, label)
      PROVE  /\ task'[c].at = label /\ task'[c].pair = task[c].pair /\ task'[c].next = task[c].next
             /\ task' = [task EXCEPT ![c] = task'[c]]
  <2>1. task' = [task EXCEPT ![c] = [task[c] EXCEPT !.at = label]]
    BY <1>4 DEF Goto
  <2> QED BY <1>0, <2>1 DEF Tasks
<1>5. CASE KeepAccess(c)
  <2>1. DeviceKnown'
    BY <1>0, <1>1, <1>5 DEF KeepAccess, DeviceKnown, Known
  <2> QED BY <1>0, <1>3, <1>4, <1>5, <2>1 DEF KeepAccess, At, Labels, Keeping
<1>6. CASE KeepRefresh(c)
  <2>1. task' = [task EXCEPT ![c] = [task[c] EXCEPT !.at = "keepUser", !.pair = None]]
    BY <1>6 DEF KeepRefresh
  <2>2. /\ task'[c].at = "keepUser" /\ task'[c].pair = None /\ task'[c].next = task[c].next
        /\ task' = [task EXCEPT ![c] = task'[c]]
    BY <1>0, <2>1 DEF Tasks
  <2>3. store'.refresh = task[c].pair
    BY <1>0, <1>6 DEF KeepRefresh
  <2>4. DeviceKnown'
    BY <1>0, <1>1, <2>3 DEF DeviceKnown, Known, TaskShape
  <2> QED BY <1>0, <1>3, <1>6, <2>2, <2>4 DEF KeepRefresh, At, Keeping
<1>7. CASE KeepUser(c)
  <2>1. DeviceKnown'
    BY <1>0, <1>1, <1>7 DEF KeepUser, DeviceKnown, Known
  <2>2. task[c].at = "keepUser" /\ handler'[c] = handler[c]
    BY <1>1, <1>7 DEF KeepUser, At
  <2>3. handler[c].at = "idle"
    BY <1>2, <2>2 DEF Keeping
  <2>4. CASE End(c)
    <3>1. task'[c] = NoTask /\ \A d \in Calls \ {c} : handler'[d] = handler[d] /\ task'[d] = task[d]
      BY <1>0, <1>1, <2>4 DEF End
    <3> QED BY <1>0, <1>1, <2>1, <2>2, <2>3, <3>1, EndShape DEF Answers
  <2>5. CASE task' = [task EXCEPT ![c] = [NoTask EXCEPT !.at = "asking", !.kind = task[c].kind,
                                           !.retried = TRUE, !.access = mem.access]]
    <3>1. /\ task'[c].at = "asking" /\ task'[c].pair = None /\ UNCHANGED issued
          /\ \A d \in Calls \ {c} : handler'[d] = handler[d] /\ task'[d] = task[d]
      BY <1>0, <1>1, <2>5 DEF NoTask
    <3> QED BY <1>0, <1>1, <2>1, <2>2, <2>3, <3>1, AppShape DEF Known, HandlersOf, Forgetting, Keeping
  <2> QED BY <1>7, <2>4, <2>5 DEF KeepUser
<1>8. CASE ForgetAccess(c)
  <2>1. DeviceKnown'
    BY <1>0, <1>1, <1>8 DEF ForgetAccess, DeviceKnown, Known
  <2> QED BY <1>0, <1>3, <1>4, <1>8, <2>1 DEF ForgetAccess, At, Labels, Keeping, Forgetting
<1>9. CASE ForgetRefresh(c)
  <2>1. store'.refresh = None
    BY <1>0, <1>9 DEF ForgetRefresh
  <2>2. DeviceKnown'
    BY <1>0, <1>1, <2>1 DEF DeviceKnown, Known
  <2> QED BY <1>0, <1>3, <1>4, <1>9, <2>2 DEF ForgetRefresh, At, Labels, Keeping, Forgetting
<1>10. CASE ForgetUser(c)
  <2>1. DeviceKnown'
    BY <1>0, <1>1, <1>10 DEF ForgetUser, DeviceKnown, Known
  <2>2. task[c].at = "forgetUser"
    BY <1>10 DEF ForgetUser, At
  <2>3. handler[c].at \in {"idle", "logout"}
    BY <1>2, <2>2 DEF Forgetting
  <2>4. task'[c] = NoTask /\ \A d \in Calls \ {c} : handler'[d] = handler[d] /\ task'[d] = task[d]
    BY <1>0, <1>1, <1>10 DEF ForgetUser, End
  <2> QED BY <1>0, <1>1, <2>1, <2>3, <2>4, EndShape DEF Answers
<1> QED BY <1>5, <1>6, <1>7, <1>8, <1>9, <1>10 DEF Storing
LEMMA RestShape ==
  ASSUME SessionsInv,
         Restart \/ AccessExpires \/ (\E p \in Pairs : RefreshExpires(p)) \/ UNCHANGED vars
  PROVE  SessionsInv'
<1>0. /\ Onward /\ TypeOK /\ TypeOK' /\ DeviceKnown
      /\ handler \in [Calls -> Handlers] /\ task \in [Calls -> Tasks]
  BY RestRows, RestTyped, StutterTyped DEF SessionsInv, TypeOK
<1>1. CASE AccessExpires \/ (\E p \in Pairs : RefreshExpires(p)) \/ UNCHANGED vars
  <2>1. UNCHANGED <<issued, handler, mem, store, task>>
    BY <1>1 DEF AccessExpires, RefreshExpires, vars, api, device
  <2>2. ASSUME NEW c \in Calls PROVE HandlerShape(handler[c])' /\ TaskShape(c)'
    BY <1>0, <2>1, OthersShape
  <2>3. DeviceKnown'
    BY <1>0, <2>1 DEF DeviceKnown, Known
  <2> QED BY <1>0, <2>2, <2>3 DEF SessionsInv, Onward
<1>2. CASE Restart
  <2>1. UNCHANGED <<issued, row, store>> /\ mem' = [access |-> store.access, refresh |-> store.refresh]
    BY <1>2 DEF Restart, api
  <2>2. DeviceKnown'
    BY <1>0, <2>1 DEF DeviceKnown, Known
  <2>3. ASSUME NEW c \in Calls PROVE HandlerShape(handler[c])' /\ TaskShape(c)'
    <3>1. /\ task'[c] = NoTask
          /\ handler'[c] = NoHandler \/ (handler'[c] = handler[c] /\ handler[c].at \notin Answers)
      BY <1>0, <1>2 DEF Restart, Dropped
    <3>2. HandlerShape(handler[c]) /\ handler[c] \in Handlers
      BY <1>0 DEF SessionsInv
    <3>3. HandlerShape(handler[c])'
      <4>1. HandlerShape(NoHandler)'
        BY DEF HandlerShape, NoHandler, Known
      <4>2. handler'[c] = handler[c] => HandlerShape(handler[c])'
        BY <2>1, <3>2 DEF HandlerShape, Known
      <4> QED BY <3>1, <4>1, <4>2
    <3>4. /\ task'[c].at = "idle" /\ task'[c].pair = None /\ NoHandler.at = "idle"
      BY <3>1 DEF NoTask, NoHandler
    <3>5. handler'[c].at \in HandlerLabels \ Answers
      BY <3>1, <3>2, <3>4 DEF Handlers, HandlerLabels, Answers
    <3>6. TaskShape(c)'
      <4>1. handler'[c].at \in HandlersOf(task'[c].at) /\ handler'[c].at # "granted"
        BY <3>4, <3>5 DEF HandlersOf, Forgetting, Answers
      <4>2. task'[c].at \notin Keeping /\ task'[c].at \notin {"keepAccess", "keepRefresh"}
        BY <3>4 DEF Keeping
      <4> QED BY <3>1, <3>4, <4>1, <4>2 DEF TaskShape, At, Serving, Known
    <3> QED BY <3>3, <3>6
  <2> QED BY <1>0, <2>2, <2>3 DEF SessionsInv, Onward
<1> QED BY <1>1, <1>2

LEMMA SessionsStep == SessionsInv /\ [Next]_vars => SessionsInv'
BY HandlingShape, RequestingShape, StoringShape, RestShape DEF Next

\* No token is sent before it was issued, no call waits for an answer that
\* cannot come, and a handler about to create a pair in exchange for a token
\* has revoked that token.
THEOREM SessionsCorrect == Spec => []SessionsInv
BY InitInv, SessionsStep, PTL DEF Spec

\* A session that is still good is not taken from the app by a refusal of
\* its own token.
THEOREM SignOutsHaveAReason == Spec => SignedOutForAReason
<1>1. SessionsInv /\ [Next]_vars
        => [\A c \in Calls : Rejected(c) /\ handler[c].token = mem.refresh
              => row[mem.refresh] # "live"]_vars
  BY DEF SessionsInv, HandlerShape, Rejected, Serving
<1> QED BY <1>1, SessionsCorrect, PTL DEF Spec, SignedOutForAReason
-----------------------------------------------------------------------------
\* Where nothing new begins to use t, and nothing comes of t.
LEMMA NothingNew ==
  ASSUME NEW t \in Pairs, Taken(t), t \notin contested => Held(t) /\ Ends(t),
         row[t] = "revoked" => row'[t] = "revoked",
         Heirs(t)' \subseteq Heirs(t), t \in left' => t \in left, contested \subseteq contested',
         \A c \in Calls : InUse(c, t)' => InUse(c, t)
  PROVE  Taken(t)' /\ (t \notin contested' => Held(t)' /\ Ends(t)')
<1>1. Taken(t)'
  BY DEF Taken
<1>2. ASSUME t \notin contested' PROVE Held(t)' /\ Ends(t)'
  <2>1. Held(t) /\ Ends(t)
    BY <1>2
  <2>2. Held(t)'
    BY <2>1 DEF Held
  <2>3. Ends(t)'
    BY <2>1 DEF Ends, AtMostOne
  <2> QED BY <2>2, <2>3
<1> QED BY <1>1, <1>2

LEMMA TokensInitially ==
  Init => \A t \in Pairs : Taken(t) /\ (t \notin contested => Held(t) /\ Ends(t))
BY DEF Init, Taken, Held, Ends, AtMostOne, Heirs, InUse, NoHandler

LEMMA TokensUnderHandling ==
  ASSUME SessionsInv, NEW c \in Calls, Handling(c), NEW t \in Pairs,
         Taken(t), t \notin contested => Held(t) /\ Ends(t)
  PROVE  Taken(t)' /\ (t \notin contested' => Held(t)' /\ Ends(t)')
<1> DEFINE s == handler[c].token
<1>0. /\ TypeOK /\ HandlerShape(handler[c]) /\ handler \in [Calls -> Handlers]
      /\ row \in [Pairs -> RowStates] /\ parent \in [Pairs -> Pair] /\ issued \in 0..MaxPairs
      /\ \A p \in Pairs : row[p] = "absent" <=> p > issued
      /\ \A d \in Calls : handler[d].at = "create" /\ handler[d].token = t => row[t] = "revoked"
  <2>1. /\ TypeOK /\ HandlerShape(handler[c])
        /\ \A p \in Pairs : row[p] = "absent" <=> p > issued
        /\ \A d \in Calls : HandlerShape(handler[d])
    BY DEF SessionsInv
  <2>2. /\ handler \in [Calls -> Handlers] /\ row \in [Pairs -> RowStates]
        /\ parent \in [Pairs -> Pair] /\ issued \in 0..MaxPairs
    BY <2>1 DEF TypeOK
  <2>3. ASSUME NEW d \in Calls, handler[d].at = "create", handler[d].token = t PROVE row[t] = "revoked"
    BY <2>1, <2>3 DEF HandlerShape
  <2> QED BY <2>1, <2>2, <2>3
<1>1. ASSUME NEW label, NEW token, NEW pair, label \in Answers, Answer(c, label, token, pair)
      PROVE  \A d \in Calls : InUse(d, t)' => d # c /\ InUse(d, t)
  BY <1>0, <1>1 DEF Answer, InUse, Answers, NoHandler
<1>2. CASE Find(c)
  <2>1. UNCHANGED <<row, parent, left>> /\ contested \subseteq contested'
    BY <1>2 DEF Find
  <2>2. CASE ~Usable(s) \/ s # t
    <3>1. \A d \in Calls : InUse(d, t)' => InUse(d, t)
      <4>1. CASE ~Usable(s)
        BY <1>1, <1>2, <4>1 DEF Find, Answers
      <4>2. CASE Usable(s) /\ s # t
        <5>1. handler' = [handler EXCEPT ![c] = [handler[c] EXCEPT !.at = "revoke"]]
          BY <1>2, <4>2 DEF Find
        <5>2. handler'[c].token = s
          BY <1>0, <5>1 DEF Handlers
        <5> QED BY <1>0, <4>2, <5>1, <5>2 DEF InUse
      <4> QED BY <2>2, <4>1, <4>2
    <3> QED BY <2>1, <3>1, NothingNew DEF Heirs
  <2>3. CASE Usable(s) /\ s = t
    <3>1. row[t] = "live" /\ Heirs(t) = {} /\ t \notin left
      BY <2>3 DEF Usable, Taken
    <3>2. Taken(t)'
      BY <2>1, <3>1 DEF Taken, Heirs
    <3>3. ASSUME t \notin contested' PROVE Held(t)' /\ Ends(t)'
      <4>1. Holding(c, t) = {} /\ t \notin contested
        BY <1>2, <2>3, <3>3 DEF Find
      <4>2. \A d \in Calls \ {c} : ~InUse(d, t)
        BY <1>0, <3>1, <4>1 DEF Holding, InUse, Serving
      <4>3. \A d \in Calls : InUse(d, t)' => d = c
        BY <1>0, <1>2, <2>3, <4>2 DEF Find, InUse
      <4>4. Heirs(t)' = {} /\ t \notin left'
        BY <2>1, <3>1 DEF Heirs
      <4> QED BY <4>3, <4>4 DEF Held, Ends, AtMostOne
    <3> QED BY <3>2, <3>3
  <2> QED BY <2>2, <2>3
<1>3. CASE Revoke(c)
  <2>1. handler' = [handler EXCEPT ![c] = [handler[c] EXCEPT !.at = "create"]]
    BY <1>3 DEF Revoke
  <2>2. \A d \in Calls : InUse(d, t)' => InUse(d, t)
    BY <1>0, <1>3, <2>1 DEF InUse, Revoke, Serving, Handlers
  <2>3. row[t] = "revoked" => row'[t] = "revoked"
    BY <1>0, <1>3 DEF Revoke
  <2> QED BY <1>3, <2>2, <2>3, NothingNew DEF Revoke, Heirs
<1>4. CASE EmitirTokens(c)
  <2>1. /\ issued + 1 \in Pairs /\ Known(s) /\ UNCHANGED <<left, contested>>
        /\ row' = [row EXCEPT ![issued + 1] = "live"]
        /\ parent' = [parent EXCEPT ![issued + 1] = s]
    BY <1>0, <1>4 DEF EmitirTokens, HandlerShape
  <2>2. \A d \in Calls : InUse(d, t)' => d # c /\ InUse(d, t)
    BY <1>1, <1>4 DEF EmitirTokens, Answers
  <2>3. row[t] = "revoked" => row'[t] = "revoked"
    BY <1>0, <2>1
  <2>4. CASE s # t
    <3>1. Heirs(t)' \subseteq Heirs(t)
      BY <1>0, <2>1, <2>4 DEF Heirs
    <3> QED BY <2>1, <2>2, <2>3, <3>1, NothingNew
  <2>5. CASE s = t
    <3>1. InUse(c, t) /\ row[t] = "revoked"
      BY <1>0, <1>4, <2>5 DEF InUse, EmitirTokens, Serving
    <3>2. Taken(t)'
      BY <2>3, <3>1 DEF Taken
    <3>3. ASSUME t \notin contested' PROVE Held(t)' /\ Ends(t)'
      <4>1. Heirs(t) = {} /\ t \notin left /\ \A d \in Calls : InUse(d, t) => d = c
        BY <2>1, <3>1, <3>3 DEF Held
      <4>2. \A d \in Calls : ~InUse(d, t)'
        BY <2>2, <4>1
      <4>3. \A p \in Heirs(t)' : p = issued + 1
        BY <1>0, <2>1, <4>1 DEF Heirs
      <4> QED BY <2>1, <4>1, <4>2, <4>3 DEF Held, Ends, AtMostOne
    <3> QED BY <3>2, <3>3
  <2> QED BY <2>4, <2>5
<1>5. CASE LogOut(c)
  <2>1. s \in Pairs /\ handler[c].at = "logout"
    BY <1>0, <1>5 DEF LogOut, Serving, HandlerShape
  <2>2. \A d \in Calls : InUse(d, t)' => InUse(d, t)
    BY <1>1, <1>5 DEF LogOut, Answers
  <2>3. Heirs(t)' = Heirs(t) /\ contested \subseteq contested'
    BY <1>5 DEF LogOut, Heirs
  <2>4. row[t] = "revoked" => row'[t] = "revoked"
    BY <1>0, <1>5, <2>1 DEF LogOut
  <2>5. CASE ~(s = t /\ row[t] \in {"live", "expired"})
    <3>1. t \in left' => t \in left
      BY <1>5, <2>5 DEF LogOut
    <3> QED BY <2>2, <2>3, <2>4, <3>1, NothingNew
  <2>6. CASE s = t /\ row[t] \in {"live", "expired"}
    <3>1. row'[t] = "revoked" /\ Heirs(t) = {}
      BY <1>0, <1>5, <2>6 DEF LogOut, Taken
    <3>2. ASSUME t \notin contested' PROVE Held(t)' /\ Ends(t)'
      <4>1. Holding(c, t) = {}
        BY <1>5, <2>6, <3>2 DEF LogOut
      <4>2. \A d \in Calls : ~InUse(d, t)
        BY <1>0, <2>1, <2>6, <4>1 DEF Holding, InUse, Serving
      <4> QED BY <2>2, <2>3, <3>1, <4>2 DEF Held, Ends, AtMostOne
    <3> QED BY <3>1, <3>2 DEF Taken
  <2> QED BY <2>5, <2>6
<1>6. CASE HandlerFails(c)
  <2>1. \A d \in Calls : InUse(d, t)' => InUse(d, t)
    BY <1>1, <1>6 DEF HandlerFails, Answers
  <2> QED BY <1>6, <2>1, NothingNew DEF HandlerFails, api, Heirs
<1> QED BY <1>2, <1>3, <1>4, <1>5, <1>6 DEF Handling

\* The app begins no exchange: it asks for a search, a login or a logout.
LEMMA TokensUnderApp ==
  ASSUME SessionsInv, NEW c \in Calls, Requesting(c) \/ Storing(c), NEW t \in Pairs,
         Taken(t), t \notin contested => Held(t) /\ Ends(t)
  PROVE  Taken(t)' /\ (t \notin contested' => Held(t)' /\ Ends(t)')
<1>0. handler \in [Calls -> Handlers]
  BY DEF SessionsInv, TypeOK
<1>1. UNCHANGED api
  BY DEF Requesting, Storing, StartQuery, StartLogin, StartLogout, TryRefresh, RequestEnds,
     CredentialsAccepted, SignedIn, Refreshed, RefreshRejected, AnswerLost, RequestLost, Leave,
     SetSession, ClearSession, KeepAccess, KeepRefresh, KeepUser, ForgetAccess, ForgetRefresh,
     ForgetUser
<1>2. ASSUME NEW label, NEW token, Ask(c, label, token), label \in {"find", "logout"} \/ token = None
      PROVE  \A d \in Calls : InUse(d, t)' => InUse(d, t)
  BY <1>0, <1>2 DEF Ask, InUse, NoHandler
<1>3. handler' = handler \/ handler' = [handler EXCEPT ![c] = NoHandler]
        => \A d \in Calls : InUse(d, t)' => InUse(d, t)
  BY <1>0 DEF InUse, NoHandler
<1>4. handler' = [handler EXCEPT ![c] = Dropped(c)]
        => \A d \in Calls : InUse(d, t)' => InUse(d, t)
  BY <1>0 DEF InUse, NoHandler, Dropped
<1>5. CASE Storing(c)
  <2>1. handler' = handler
    BY <1>5 DEF Storing, KeepAccess, KeepRefresh, KeepUser, ForgetAccess, ForgetRefresh, ForgetUser
  <2> QED BY <1>1, <1>3, <2>1, NothingNew DEF api, Heirs
<1>6. CASE Requesting(c)
  <2>1. CASE \/ StartQuery(c) \/ StartLogin(c) \/ RequestEnds(c) \/ SignedIn(c) \/ Refreshed(c)
             \/ RefreshRejected(c) \/ RequestLost(c) \/ Leave(c)
    <3>1. handler' = handler \/ handler' = [handler EXCEPT ![c] = NoHandler]
      BY <2>1 DEF StartQuery, StartLogin, RequestEnds, SignedIn, Refreshed, RefreshRejected,
         RequestLost, Leave, SetSession
    <3> QED BY <1>1, <1>3, <3>1, NothingNew DEF api, Heirs
  <2>2. CASE AnswerLost(c)
    BY <1>1, <1>4, <2>2, NothingNew DEF AnswerLost, api, Heirs
  <2>3. CASE StartLogout(c) \/ TryRefresh(c) \/ CredentialsAccepted(c)
    <3>1. \A d \in Calls : InUse(d, t)' => InUse(d, t)
      BY <1>2, <1>3, <2>3 DEF StartLogout, TryRefresh, CredentialsAccepted
    <3> QED BY <1>1, <3>1, NothingNew DEF api, Heirs
  <2> QED BY <1>6, <2>1, <2>2, <2>3 DEF Requesting
<1> QED BY <1>5, <1>6

LEMMA TokensUnderRest ==
  ASSUME SessionsInv, NEW t \in Pairs, Taken(t), t \notin contested => Held(t) /\ Ends(t),
         Restart \/ AccessExpires \/ (\E p \in Pairs : RefreshExpires(p)) \/ UNCHANGED vars
  PROVE  Taken(t)' /\ (t \notin contested' => Held(t)' /\ Ends(t)')
<1>0. handler \in [Calls -> Handlers] /\ row \in [Pairs -> RowStates]
  BY DEF SessionsInv, TypeOK
<1>1. UNCHANGED <<parent, left, contested>> /\ (row[t] = "revoked" => row'[t] = "revoked")
  BY <1>0 DEF Restart, AccessExpires, RefreshExpires, vars, api
<1>2. \A d \in Calls : InUse(d, t)' => InUse(d, t)
  <2>1. CASE Restart
    BY <1>0, <2>1 DEF Restart, Dropped, InUse, NoHandler
  <2>2. CASE handler' = handler
    BY <2>2 DEF InUse
  <2> QED BY <2>1, <2>2 DEF AccessExpires, RefreshExpires, vars
<1> QED BY <1>1, <1>2, NothingNew DEF Heirs

\* A refresh token is exchanged once, or logged out and never exchanged,
\* unless two handlers had found it good before either revoked it.
THEOREM TokensEndOneWay == Spec => []EndsOneWay
<1>1. Init => TokensInv
  BY TokensInitially DEF TokensInv
<1>2. SessionsInv /\ TokensInv /\ [Next]_vars => TokensInv'
  BY TokensUnderHandling, TokensUnderApp, TokensUnderRest DEF Next, TokensInv
<1>3. TokensInv => EndsOneWay
  BY DEF EndsOneWay, TokensInv
<1> QED BY <1>1, <1>2, <1>3, SessionsCorrect, PTL DEF Spec
-----------------------------------------------------------------------------
\* What a step does to the device as long as writers have not overlapped.
LEMMA DeviceInitially == Init => DeviceInv
<1> SUFFICES ASSUME Init PROVE DeviceInv
  OBVIOUS
<1>1. \A c \in Calls : ~Writing(c) /\ ~At(c, "refreshing")
  BY DEF Init, Writing, Keeping, Forgetting, At, NoTask
<1>2. /\ mem = [access |-> store.access, refresh |-> store.refresh]
      /\ store.access = store.refresh /\ store.access = None
  BY DEF Init
<1>3. user = FALSE /\ store.user = FALSE
  BY DEF Init
<1>4. Settled
  <2>1. (store.access # None) = FALSE
    BY <1>2
  <2> QED BY <1>2, <1>3, <2>1, Zenon DEF Settled
<1> QED BY <1>1, <1>4, Zenon DEF DeviceInv

\* Nothing is written, and c neither was nor becomes a writer or refreshes.
LEMMA DeviceStays ==
  ASSUME DeviceInv, NEW c \in Calls, task \in [Calls -> Tasks], UNCHANGED <<mem, store, user, crossed>>,
         ~Writing(c), ~Writing(c)', ~At(c, "refreshing")',
         \A d \in Calls \ {c} : task'[d] = task[d]
  PROVE  DeviceInv'
<1>1. \A d \in Calls : Writing(d)' <=> Writing(d)
  BY DEF Writing
<1>2. ASSUME NEW d \in Calls, Writing(d), Midway(d) PROVE Midway(d)'
  <2>1. d # c
    BY <1>2
  <2> QED BY <1>2, <2>1 DEF Midway, At
<1>3. Settled => Settled'
  BY DEF Settled
<1>4. Signing => Signing'
  BY DEF Signing, Writing
<1>5. \A d \in Calls : At(d, "refreshing")' => At(d, "refreshing")
  BY DEF At
<1>6. \A d \in Calls : task'[d].at \in Forgetting => task[d].at \in Forgetting
  BY DEF Writing
<1> QED BY <1>1, <1>2, <1>3, <1>4, <1>5, <1>6 DEF DeviceInv

LEMMA DeviceUnderRequests ==
  ASSUME SessionsInv, DeviceInv, NEW c \in Calls, Requesting(c) PROVE DeviceInv'
<1>0. /\ task \in [Calls -> Tasks] /\ mem \in [access : Pair, refresh : Pair]
      /\ store \in [access : Pair, refresh : Pair, user : BOOLEAN]
      /\ TaskShape(c) /\ TaskShape(c)'
  BY RequestingShape DEF SessionsInv, TypeOK
<1>1. CASE StartQuery(c)
  BY <1>0, <1>1, DeviceStays DEF StartQuery, Free, Writing, At, NoTask, Keeping, Forgetting
<1>2. CASE StartLogin(c)
  BY <1>0, <1>2, DeviceStays DEF StartLogin, Free, Writing, At, NoTask, Keeping, Forgetting
<1>3. CASE StartLogout(c)
  BY <1>0, <1>3, DeviceStays DEF StartLogout, Free, Writing, At, NoTask, Keeping, Forgetting
<1>4. CASE RequestEnds(c) \/ AnswerLost(c) \/ RequestLost(c)
  BY <1>0, <1>4, DeviceStays DEF RequestEnds, AnswerLost, RequestLost, End, Writing, At, NoTask, Keeping, Forgetting
<1>5. CASE CredentialsAccepted(c)
  BY <1>0, <1>5, DeviceStays DEF CredentialsAccepted, device, Writing, At, Keeping, Forgetting
<1>6. CASE TryRefresh(c)
  <2>1. task' = [task EXCEPT ![c] = [task[c] EXCEPT !.at = "refreshing", !.access = None]]
    BY <1>6 DEF TryRefresh
  <2>2. task'[c].at = "refreshing" /\ \A d \in Calls \ {c} : task'[d] = task[d]
    BY <1>0, <2>1 DEF Tasks
  <2>3. ~Writing(c) /\ ~Writing(c)' /\ mem.refresh # None /\ UNCHANGED <<mem, store, user, crossed>>
    BY <1>6, <2>2 DEF TryRefresh, Unauthorized, MayRefresh, Writing, At, Keeping, Forgetting
  <2> SUFFICES ASSUME ~crossed' PROVE DeviceInv'
    BY DEF DeviceInv
  <2>4. /\ \A d, e \in Calls : Writing(d) /\ Writing(e) => d = e
        /\ \A d \in Calls : Writing(d) => Midway(d)
        /\ (\A d \in Calls : ~Writing(d)) => Settled
    BY <2>3 DEF DeviceInv
  <2>5. \A d \in Calls : Writing(d)' <=> Writing(d)
    BY <2>2, <2>3 DEF Writing
  <2>6. \A d \in Calls : Writing(d) => Midway(d)'
    BY <2>2, <2>3, <2>4 DEF Midway, At
  <2>7. Settled => Settled'
    BY <2>3 DEF Settled
  <2>8. \A d \in Calls : task[d].at \notin Forgetting
    BY <2>3, <2>4 DEF Midway, Writing
  <2>9. user \/ Signing
    <3>1. CASE \A d \in Calls : ~Writing(d)
      BY <1>0, <2>3, <2>4, <3>1 DEF Settled
    <3>2. ASSUME NEW d \in Calls, Writing(d) PROVE user \/ Signing
      <4>1. task[d].at \in Keeping /\ TaskShape(d)
        BY <2>8, <3>2 DEF Writing, SessionsInv
      <4> QED BY <2>4, <3>2, <4>1 DEF TaskShape, Midway, Signing
    <3> QED BY <3>1, <3>2
  <2>10. Signing => Signing'
    BY <2>2, <2>3 DEF Signing, Writing
  <2>11. \A d \in Calls : task'[d].at \notin Forgetting
    BY <2>2, <2>8 DEF Forgetting
  <2> QED BY <2>3, <2>4, <2>5, <2>6, <2>7, <2>9, <2>10, <2>11 DEF DeviceInv
<1>7. ASSUME NEW p \in Pairs, NEW next \in {"show", "retry"}, SetSession(c, p, next),
             At(c, "asking") \/ At(c, "refreshing"), next = "retry" => At(c, "refreshing")
      PROVE  DeviceInv'
  <2> SUFFICES ASSUME ~crossed' PROVE DeviceInv'
    BY DEF DeviceInv
  <2>1. task' = [task EXCEPT ![c] = [task[c] EXCEPT !.at = "keepAccess", !.pair = p, !.next = next]]
    BY <1>7 DEF SetSession
  <2>2. /\ task'[c].at = "keepAccess" /\ task'[c].pair = p /\ task'[c].next = next
        /\ \A d \in Calls \ {c} : task'[d] = task[d]
    BY <1>0, <2>1 DEF Tasks
  <2>3. /\ ~crossed /\ UNCHANGED <<store, user>> /\ mem'.access = p /\ mem'.refresh = p
        /\ \A d \in Calls \ {c} : ~Writing(d)
    BY <1>7 DEF SetSession
  <2>4. ~Writing(c)
    BY <1>7 DEF Writing, At, Keeping, Forgetting
  <2>5. \A d \in Calls : Writing(d)' <=> d = c
    BY <2>2, <2>3 DEF Writing, Keeping, Forgetting
  <2>6. ~Signing
    BY <2>3, <2>4 DEF Signing, Writing
  <2>7. \A d \in Calls : At(d, "refreshing") => user
    BY <2>3, <2>6 DEF DeviceInv
  <2>8. Midway(c)'
    BY <1>7, <2>2, <2>3, <2>7 DEF Midway, At, Keeping, Forgetting
  <2>9. \A d \in Calls : At(d, "refreshing")' => user'
    BY <2>2, <2>3, <2>7 DEF At
  <2>10. \A d \in Calls : task'[d].at \notin Forgetting
    BY <2>2, <2>3 DEF Writing, Forgetting
  <2> QED BY <2>5, <2>8, <2>9, <2>10 DEF DeviceInv
<1>8. ASSUME SignedIn(c) \/ Refreshed(c) PROVE handler[c].pair \in Pairs
  BY <1>0, <1>8 DEF SignedIn, Refreshed, TaskShape, At
<1>9. CASE SignedIn(c) \/ Refreshed(c)
  <2>1. CASE SignedIn(c)
    <3>1. SetSession(c, handler[c].pair, "show") /\ At(c, "asking")
      BY <2>1 DEF SignedIn
    <3>2. handler[c].pair \in Pairs /\ "show" \in {"show", "retry"} /\ "show" # "retry"
      BY <1>8, <2>1
    <3> QED BY <1>7, <3>1, <3>2
  <2>2. CASE Refreshed(c)
    <3>1. SetSession(c, handler[c].pair, "retry") /\ At(c, "refreshing")
      BY <2>2 DEF Refreshed
    <3> QED BY <1>7, <1>8, <2>2, <3>1
  <2> QED BY <1>9, <2>1, <2>2
<1>10. CASE RefreshRejected(c) \/ Leave(c)
  <2> SUFFICES ASSUME ~crossed' PROVE DeviceInv'
    BY DEF DeviceInv
  <2>1. ClearSession(c) /\ ~Writing(c)
    BY <1>10 DEF RefreshRejected, Leave, Writing, At, Keeping, Forgetting
  <2>2. /\ task'[c].at = "forgetAccess"
        /\ \A d \in Calls \ {c} : task'[d] = task[d]
    BY <1>0, <2>1 DEF ClearSession, NoTask
  <2>3. /\ ~crossed /\ UNCHANGED <<store, user>> /\ mem' = [access |-> None, refresh |-> None]
        /\ \A d \in Calls \ {c} : ~Writing(d) /\ ~Pending(d)
    BY <1>0, <2>1 DEF ClearSession, Cleared
  <2>4. \A d \in Calls : Writing(d)' <=> d = c
    BY <2>2, <2>3 DEF Writing, Keeping, Forgetting
  <2>5. Midway(c)'
    BY <2>2, <2>3 DEF Midway, At, Keeping, Forgetting
  <2>6. \A d \in Calls : ~At(d, "refreshing")'
    BY <2>2, <2>3 DEF At, Pending
  <2> QED BY <2>4, <2>5, <2>6 DEF DeviceInv
<1> QED BY <1>1, <1>2, <1>3, <1>4, <1>5, <1>6, <1>9, <1>10 DEF Requesting
\* A write to the store, by the only writer.
LEMMA DeviceUnderStoring ==
  ASSUME SessionsInv, DeviceInv, NEW c \in Calls, Storing(c) PROVE DeviceInv'
<1>0. /\ task \in [Calls -> Tasks] /\ mem \in [access : Pair, refresh : Pair]
      /\ store \in [access : Pair, refresh : Pair, user : BOOLEAN]
      /\ TaskShape(c)
  BY DEF SessionsInv, TypeOK
<1>1. Writing(c) /\ UNCHANGED <<mem, crossed>>
  BY DEF Storing, KeepAccess, KeepRefresh, KeepUser, ForgetAccess, ForgetRefresh, ForgetUser,
     Writing, At, Keeping, Forgetting
<1> SUFFICES ASSUME ~crossed' PROVE DeviceInv'
  BY DEF DeviceInv
<1>2. /\ Midway(c) /\ \A d \in Calls : Writing(d) => d = c
      /\ \A d, e \in Calls : At(d, "refreshing") => (user \/ Signing) /\ task[e].at \notin Forgetting
  BY <1>1 DEF DeviceInv
\* c goes on writing
<1>3. ASSUME \A d \in Calls \ {c} : task'[d] = task[d], Writing(c)', Midway(c)', UNCHANGED user,
             task[c].at \in Keeping => task'[c].at \in Keeping /\ task'[c].next = task[c].next,
             task'[c].at \in Forgetting => task[c].at \in Forgetting
      PROVE  DeviceInv'
  <2>1. \A d \in Calls : Writing(d)' => d = c
    BY <1>2, <1>3 DEF Writing
  <2>2. \A d \in Calls : At(d, "refreshing")' => At(d, "refreshing")
    BY <1>3 DEF At, Writing, Keeping, Forgetting
  <2>3. Signing => Signing'
    BY <1>2, <1>3 DEF Signing, Writing
  <2>4. \A d \in Calls : task'[d].at \in Forgetting => task[d].at \in Forgetting
    BY <1>3
  <2> QED BY <1>2, <1>3, <2>1, <2>2, <2>3, <2>4 DEF DeviceInv
\* c was the last
<1>4. ASSUME \A d \in Calls \ {c} : task'[d] = task[d], ~Writing(c)', ~At(c, "refreshing")',
             Settled', user' \/ task[c].at \in Forgetting
      PROVE  DeviceInv'
  <2>1. \A d \in Calls : ~Writing(d)'
    BY <1>2, <1>4 DEF Writing
  <2>2. \A d \in Calls : At(d, "refreshing")' => At(d, "refreshing")
    BY <1>4 DEF At
  <2>3. \A d \in Calls : At(d, "refreshing")' => user'
    BY <1>2, <1>4, <2>2
  <2>4. \A d \in Calls : task'[d].at \notin Forgetting
    BY <2>1 DEF Writing
  <2> QED BY <1>4, <2>1, <2>3, <2>4 DEF DeviceInv
<1>5. ASSUME NEW label \in Labels, Goto(c, label)
      PROVE  /\ task'[c].at = label /\ task'[c].pair = task[c].pair /\ task'[c].next = task[c].next
             /\ \A d \in Calls \ {c} : task'[d] = task[d]
  <2>1. task' = [task EXCEPT ![c] = [task[c] EXCEPT !.at = label]]
    BY <1>5 DEF Goto
  <2> QED BY <1>0, <2>1 DEF Tasks
<1>6. CASE KeepAccess(c)
  <2>1. /\ task[c].at = "keepAccess" /\ task'[c].at = "keepRefresh" /\ task'[c].pair = task[c].pair
        /\ task'[c].next = task[c].next /\ \A d \in Calls \ {c} : task'[d] = task[d]
    BY <1>5, <1>6 DEF KeepAccess, At, Labels, Keeping
  <2>2. store'.access = task[c].pair /\ UNCHANGED user
    BY <1>0, <1>6 DEF KeepAccess
  <2>3. Midway(c)'
    BY <1>1, <1>2, <2>1, <2>2 DEF Midway, At, Keeping, Forgetting
  <2> QED BY <1>3, <2>1, <2>2, <2>3 DEF Writing, Keeping, Forgetting
<1>7. CASE KeepRefresh(c)
  <2>1. task' = [task EXCEPT ![c] = [task[c] EXCEPT !.at = "keepUser", !.pair = None]]
    BY <1>7 DEF KeepRefresh
  <2>2. /\ task[c].at = "keepRefresh" /\ task'[c].at = "keepUser"
        /\ task'[c].next = task[c].next /\ \A d \in Calls \ {c} : task'[d] = task[d]
    BY <1>0, <1>7, <2>1 DEF KeepRefresh, At, Tasks
  <2>3. store'.refresh = task[c].pair /\ store'.access = store.access /\ UNCHANGED user
    BY <1>0, <1>7 DEF KeepRefresh
  <2>4. Midway(c)'
    BY <1>1, <1>2, <2>2, <2>3 DEF Midway, At, Keeping, Forgetting
  <2> QED BY <1>3, <2>2, <2>3, <2>4 DEF Writing, Keeping, Forgetting
<1>8. CASE KeepUser(c)
  <2>1. /\ task[c].at = "keepUser" /\ task'[c].at \in {"idle", "asking"}
        /\ \A d \in Calls \ {c} : task'[d] = task[d]
    <3>1. CASE End(c)
      BY <1>0, <1>8, <3>1 DEF KeepUser, At, End, NoTask
    <3>2. CASE task' = [task EXCEPT ![c] = [NoTask EXCEPT !.at = "asking", !.kind = task[c].kind,
                                            !.retried = TRUE, !.access = mem.access]]
      BY <1>0, <1>8, <3>2 DEF KeepUser, At, NoTask
    <3> QED BY <1>8, <3>1, <3>2 DEF KeepUser
  <2>2. /\ mem.access \in Pairs /\ mem.refresh = mem.access
        /\ store.access = mem.access /\ store.refresh = mem.access
    BY <1>2, <2>1 DEF Midway, At, Keeping
  <2>3. user' = TRUE
    BY <1>0, <1>2, <1>8, <2>1 DEF KeepUser, Midway, Keeping, SessionsInv, TypeOK
  <2>4. /\ store'.access = mem.access /\ store'.refresh = mem.access /\ store'.user = TRUE
    BY <1>0, <1>8, <2>2 DEF KeepUser
  <2>5. Settled'
    <3>1. mem' = [access |-> store'.access, refresh |-> store'.refresh]
      BY <1>0, <1>1, <2>2, <2>4
    <3>2. (store'.access # None) = TRUE
      BY <2>2, <2>4
    <3> QED BY <2>3, <2>4, <3>1, <3>2, Zenon DEF Settled
  <2>6. ~Writing(c)' /\ ~At(c, "refreshing")'
    BY <2>1 DEF Writing, At, Keeping, Forgetting
  <2> QED BY <1>4, <2>1, <2>3, <2>5, <2>6
<1>9. CASE ForgetAccess(c)
  <2>1. /\ task[c].at = "forgetAccess" /\ task'[c].at = "forgetRefresh"
        /\ \A d \in Calls \ {c} : task'[d] = task[d]
    BY <1>5, <1>9 DEF ForgetAccess, At, Labels, Forgetting
  <2>2. store'.access = None /\ UNCHANGED user
    BY <1>0, <1>9 DEF ForgetAccess
  <2>3. Midway(c)'
    BY <1>1, <1>2, <2>1, <2>2 DEF Midway, At, Keeping, Forgetting
  <2> QED BY <1>3, <2>1, <2>2, <2>3 DEF Writing, Keeping, Forgetting
<1>10. CASE ForgetRefresh(c)
  <2>1. /\ task[c].at = "forgetRefresh" /\ task'[c].at = "forgetUser"
        /\ \A d \in Calls \ {c} : task'[d] = task[d]
    BY <1>5, <1>10 DEF ForgetRefresh, At, Labels, Forgetting
  <2>2. store'.refresh = None /\ store'.access = store.access /\ UNCHANGED user
    BY <1>0, <1>10 DEF ForgetRefresh
  <2>3. Midway(c)'
    BY <1>1, <1>2, <2>1, <2>2 DEF Midway, At, Keeping, Forgetting
  <2> QED BY <1>3, <2>1, <2>2, <2>3 DEF Writing, Keeping, Forgetting
<1>11. CASE ForgetUser(c)
  <2>1. /\ task[c].at = "forgetUser" /\ task'[c].at = "idle"
        /\ \A d \in Calls \ {c} : task'[d] = task[d]
    BY <1>0, <1>11 DEF ForgetUser, At, End, NoTask
  <2>2. /\ mem = [access |-> None, refresh |-> None]
        /\ store.access = None /\ store.refresh = None
    BY <1>2, <2>1 DEF Midway, At, Forgetting
  <2>3. user' = FALSE /\ store'.user = FALSE /\ store'.access = None /\ store'.refresh = None
    BY <1>0, <1>11, <2>2 DEF ForgetUser
  <2>4. Settled'
    <3>1. (store'.access # None) = FALSE
      BY <2>3
    <3> QED BY <1>1, <2>2, <2>3, <3>1, Zenon DEF Settled
  <2>5. ~Writing(c)' /\ ~At(c, "refreshing")' /\ task[c].at \in Forgetting
    BY <2>1 DEF Writing, At, Keeping, Forgetting
  <2> QED BY <1>4, <2>1, <2>4, <2>5
<1> QED BY <1>6, <1>7, <1>8, <1>9, <1>10, <1>11 DEF Storing

LEMMA DeviceUntouched == ASSUME DeviceInv, UNCHANGED device PROVE DeviceInv'
BY DEF DeviceInv, device, Writing, Midway, Settled, Signing, At

LEMMA DeviceRestarted == ASSUME SessionsInv, DeviceInv, Restart PROVE DeviceInv'
<1> SUFFICES ASSUME ~crossed' PROVE DeviceInv'
  BY DEF DeviceInv
<1>0. store \in [access : Pair, refresh : Pair, user : BOOLEAN]
  BY DEF SessionsInv, TypeOK
<1>1. ~crossed /\ \A c \in Calls : ~Writing(c)
  BY DEF Restart
<1>2. Settled
  BY <1>1 DEF DeviceInv
<1>3. \A c \in Calls : task'[c].at = "idle"
  BY DEF Restart, NoTask
<1>4. Settled'
  <2>1. user' = (store.access # None)
    BY <1>2, Zenon DEF Restart, Settled
  <2> QED BY <1>2, <2>1, Zenon DEF Restart, Settled
<1>5. \A c \in Calls : ~Writing(c)' /\ ~At(c, "refreshing")'
  BY <1>3 DEF Writing, At, Keeping, Forgetting
<1> QED BY <1>4, <1>5, Zenon DEF DeviceInv

\* Memory, store and screen agree once every call has ended, unless two
\* writers of the session overlapped or one was killed.
THEOREM DeviceSettles == Spec => []SettledDevice
<1>1. SessionsInv /\ DeviceInv /\ [Next]_vars => DeviceInv'
  <2>1. ASSUME NEW c \in Calls, Handling(c) PROVE UNCHANGED device
    BY <2>1 DEF Handling, Find, Revoke, EmitirTokens, LogOut, HandlerFails
  <2>2. ASSUME AccessExpires \/ (\E p \in Pairs : RefreshExpires(p)) \/ UNCHANGED vars
        PROVE  UNCHANGED device
    BY <2>2 DEF AccessExpires, RefreshExpires, vars
  <2> QED
    BY <2>1, <2>2, DeviceUntouched, DeviceRestarted, DeviceUnderRequests, DeviceUnderStoring DEF Next
<1>2. DeviceInv => SettledDevice
  BY DEF DeviceInv, SettledDevice, Quiet, Writing, NoTask, Keeping, Forgetting
<1> QED BY <1>1, <1>2, DeviceInitially, SessionsCorrect, PTL DEF Spec
=============================================================================
