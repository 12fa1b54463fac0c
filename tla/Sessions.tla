------------------------------ MODULE Sessions ------------------------------
(***************************************************************************)
(* The session of one installation of the app: what it keeps in memory and *)
(* in the secure store (apps/mobile/src/lib/api.ts, auth-context.tsx), and *)
(* the refresh tokens of the API (services/api/src/auth).                  *)
(*                                                                         *)
(* Every sign-in and every rotation issues a pair: a JWT, which the API    *)
(* cannot revoke, and a refresh token, which is good for one rotation.     *)
(* Pairs are numbered in the order the API creates them; both halves carry *)
(* the pair's number.                                                      *)
(*                                                                         *)
(* The app may have several calls under way.  A call waits at each await   *)
(* (the API's answer, each write to the store) and the others go on in     *)
(* between; its answer may be lost, and the app may be killed, while the   *)
(* API's handler goes on.  A handler awaits each of its queries.           *)
(*                                                                         *)
(* A definition named Mutant_x is not part of the model: it is a plausible *)
(* slip in the definition after it, used to show a property notices it.    *)
(***************************************************************************)
EXTENDS Naturals

CONSTANTS
  Calls,   \* the calls the app can have under way; one that ended may start again
  None,
  MaxPairs \* bound: the pairs issued; beyond it creating one fails

ASSUME SessionConstantsOK == MaxPairs \in Nat /\ None \notin 0..MaxPairs

VARIABLES
  issued,    \* pairs created so far
  row,       \* the RefreshToken row of each pair
  parent,    \* history: the pair whose refresh token was exchanged for this one
  left,      \* history: pairs logged out by POST /auth/logout
  contested, \* history: refresh tokens in use by two handlers at once
  stale,     \* the JWTs of pairs 1..stale have expired: all live equally long
  handler,   \* what the API is doing for each call
  mem,       \* accessToken, refreshToken of api.ts
  store,     \* ACCESS_KEY, REFRESH_KEY, USER_KEY
  user,      \* the user of auth-context.tsx, or not
  task,      \* what each call is doing in the app
  crossed    \* history: two writers of the session overlapped, or one was killed

api == <<issued, row, parent, left, contested>>
device == <<mem, store, user, task, crossed>>
vars == <<api, stale, handler, device>>

Pairs == 1..MaxPairs
Pair == Pairs \cup {None}
RowStates == {"absent", "live", "revoked", "expired"}

HandlerLabels == {"idle", "find", "revoke", "create", "logout", "granted", "refused", "failed"}
Handlers == [at : HandlerLabels, token : Pair, pair : Pair]
NoHandler == [at |-> "idle", token |-> None, pair |-> None]

Keeping == {"keepAccess", "keepRefresh", "keepUser"}
Forgetting == {"forgetAccess", "forgetRefresh", "forgetUser"}
Labels == {"idle", "asking", "refreshing", "leaving"} \cup Keeping \cup Forgetting
Kinds == {"query", "login", "logout"}
\* access: the token sent; pair: the one being stored; next: what follows it.
Tasks == [at : Labels, kind : Kinds \cup {None}, retried : BOOLEAN, access : Pair,
          pair : Pair, next : {"show", "retry", None}]
NoTask == [at |-> "idle", kind |-> None, retried |-> FALSE, access |-> None,
           pair |-> None, next |-> None]

TypeOK ==
  /\ issued \in 0..MaxPairs
  /\ row \in [Pairs -> RowStates]
  /\ parent \in [Pairs -> Pair]
  /\ left \in SUBSET Pairs
  /\ contested \in SUBSET Pairs
  /\ stale \in 0..MaxPairs
  /\ handler \in [Calls -> Handlers]
  /\ mem \in [access : Pair, refresh : Pair]
  /\ store \in [access : Pair, refresh : Pair, user : BOOLEAN]
  /\ user \in BOOLEAN
  /\ task \in [Calls -> Tasks]
  /\ crossed \in BOOLEAN

Init ==
  /\ issued = 0
  /\ row = [p \in Pairs |-> "absent"]
  /\ parent = [p \in Pairs |-> None]
  /\ left = {} /\ contested = {} /\ stale = 0
  /\ handler = [c \in Calls |-> NoHandler]
  /\ mem = [access |-> None, refresh |-> None]
  /\ store = [access |-> None, refresh |-> None, user |-> FALSE]
  /\ user = FALSE
  /\ task = [c \in Calls |-> NoTask]
  /\ crossed = FALSE
-----------------------------------------------------------------------------
----------------------------- (* the API's handlers *) ---------------------------
Serving(c, label) == handler[c].at = label
Answers == {"granted", "refused", "failed"}
\* The answer reaches whoever still waits for it.
Waiting(c) == task[c].at \in {"asking", "refreshing", "leaving"}
Answer(c, label, token, pair) ==
  handler' = [handler EXCEPT ![c] =
    IF Waiting(c) THEN [at |-> label, token |-> token, pair |-> pair] ELSE NoHandler]
Dropped(c) == IF handler[c].at \in Answers THEN NoHandler ELSE handler[c]
\* Calls other than c that have read token t as live and not yet revoked it.
Holding(c, t) == {d \in Calls \ {c} : Serving(d, "revoke") /\ handler[d].token = t}

Mutant_Usable(t) == row[t] # "expired"               \* revokedAt is not looked at
MutantLife_Usable(t) == row[t] = "live" /\ t > stale \* expires with the JWT
Usable(t) == row[t] = "live"

Find(c) ==
  LET t == handler[c].token IN
  /\ Serving(c, "find")
  /\ IF Usable(t)
     THEN /\ handler' = [handler EXCEPT ![c].at = "revoke"]
          /\ contested' = IF Holding(c, t) = {} THEN contested ELSE contested \cup {t}
     ELSE Answer(c, "refused", t, None) /\ UNCHANGED contested
  /\ UNCHANGED <<issued, row, parent, left, stale, device>>

Revoke(c) ==
  /\ Serving(c, "revoke")
  /\ row' = [row EXCEPT ![handler[c].token] = "revoked"]
  /\ handler' = [handler EXCEPT ![c].at = "create"]
  /\ UNCHANGED <<issued, parent, left, contested, stale, device>>

EmitirTokens(c) ==
  LET p == issued + 1 IN
  /\ Serving(c, "create")
  /\ issued < MaxPairs
  /\ issued' = p
  /\ row' = [row EXCEPT ![p] = "live"]
  /\ parent' = [parent EXCEPT ![p] = handler[c].token]
  /\ Answer(c, "granted", None, p)
  /\ UNCHANGED <<left, contested, stale, device>>

\* updateMany: only a row not revoked yet.
LogOut(c) ==
  LET t == handler[c].token
      mine == row[t] \in {"live", "expired"} IN
  /\ Serving(c, "logout")
  /\ row' = IF mine THEN [row EXCEPT ![t] = "revoked"] ELSE row
  /\ left' = IF mine THEN left \cup {t} ELSE left
  /\ contested' = IF mine /\ Holding(c, t) # {} THEN contested \cup {t} ELSE contested
  /\ Answer(c, "granted", None, None)
  /\ UNCHANGED <<issued, parent, stale, device>>

\* The rate limit's 429, a failed query, a crash: no answer the app can use.
HandlerFails(c) ==
  /\ handler[c].at \in {"find", "revoke", "create", "logout"}
  /\ Answer(c, "failed", None, None)
  /\ UNCHANGED <<api, stale, device>>

AccessExpires ==
  /\ stale < issued
  /\ stale' = stale + 1
  /\ UNCHANGED <<api, handler, device>>

\* 30 days against the JWT's hour: the refresh token outlives the JWT.
RefreshExpires(p) ==
  /\ row[p] = "live" /\ p <= stale
  /\ row' = [row EXCEPT ![p] = "expired"]
  /\ UNCHANGED <<issued, parent, left, contested, stale, handler, device>>

------------------------------- (* the app's calls *) ------------------------------
At(c, label) == task[c].at = label
Goto(c, label) == task' = [task EXCEPT ![c].at = label]
End(c) == task' = [task EXCEPT ![c] = NoTask]
Free(c) == task[c] = NoTask /\ handler[c] = NoHandler
Ask(c, label, token) ==
  handler' = [handler EXCEPT ![c] = [NoHandler EXCEPT !.at = label, !.token = token]]
Writing(c) == task[c].at \in Keeping \cup Forgetting
\* c may still replace the session it found.
Pending(c) == At(c, "refreshing") \/ (At(c, "asking") /\ task[c].kind = "login")

StartQuery(c) ==
  /\ Free(c) /\ user
  /\ task' = [task EXCEPT ![c] = [NoTask EXCEPT !.at = "asking", !.kind = "query",
                                                !.access = mem.access]]
  /\ UNCHANGED <<api, stale, handler, mem, store, user, crossed>>

\* The login screen disables its button while it waits; register is alike.
StartLogin(c) ==
  /\ Free(c) /\ ~user
  /\ \A d \in Calls : task[d].kind # "login"
  /\ task' = [task EXCEPT ![c] = [NoTask EXCEPT !.at = "asking", !.kind = "login"]]
  /\ UNCHANGED <<api, stale, handler, mem, store, user, crossed>>

\* setSession and clearSession: memory at once, then the store key by key.
SetSession(c, p, next) ==
  /\ mem' = [access |-> p, refresh |-> p]
  /\ task' = [task EXCEPT ![c].at = "keepAccess", ![c].pair = p, ![c].next = next]
  /\ crossed' = (crossed \/ \E d \in Calls \ {c} : Writing(d))
  /\ handler' = [handler EXCEPT ![c] = NoHandler]
  /\ UNCHANGED <<api, stale, store, user>>

Mutant_Cleared(m) == [m EXCEPT !.access = None] \* the refresh token stays
Cleared(m) == [m EXCEPT !.access = None, !.refresh = None]

ClearSession(c) ==
  /\ mem' = Cleared(mem)
  /\ task' = [task EXCEPT ![c] = [NoTask EXCEPT !.at = "forgetAccess", !.kind = task[c].kind]]
  /\ crossed' = (crossed \/ \E d \in Calls \ {c} : Writing(d) \/ Pending(d))
  /\ UNCHANGED <<api, stale, store, user>>

\* A 401: no valid JWT, or wrong credentials.
Unauthorized(c) ==
  /\ At(c, "asking") /\ Serving(c, "idle")
  /\ task[c].kind = "query" => task[c].access \in {None} \cup 1..stale

Mutant_MayRefresh(c) == ~task[c].retried \* also with no token to send
MayRefresh(c) == ~task[c].retried /\ mem.refresh # None

TryRefresh(c) ==
  /\ Unauthorized(c) /\ MayRefresh(c)
  /\ Ask(c, "find", mem.refresh)
  /\ task' = [task EXCEPT ![c].at = "refreshing", ![c].access = None]
  /\ UNCHANGED <<api, stale, mem, store, user, crossed>>

\* The request ends: answered, refused for good, or lost on the way.
RequestEnds(c) ==
  /\ At(c, "asking")
  /\ Serving(c, "idle") \/ Serving(c, "failed")
  /\ End(c)
  /\ handler' = [handler EXCEPT ![c] = NoHandler]
  /\ UNCHANGED <<api, stale, mem, store, user, crossed>>

CredentialsAccepted(c) ==
  /\ At(c, "asking") /\ task[c].kind = "login" /\ Serving(c, "idle")
  /\ Ask(c, "create", None)
  /\ UNCHANGED <<api, stale, device>>

SignedIn(c) == At(c, "asking") /\ Serving(c, "granted") /\ SetSession(c, handler[c].pair, "show")
Refreshed(c) == At(c, "refreshing") /\ Serving(c, "granted") /\ SetSession(c, handler[c].pair, "retry")

\* Whatever the reason, tryRefresh says false.
RefreshRejected(c) ==
  /\ At(c, "refreshing")
  /\ handler[c].at \in {"refused", "failed"}
  /\ handler' = [handler EXCEPT ![c] = NoHandler]
  /\ ClearSession(c)

\* fetch throws while the handler runs: the call ends, the handler does not.
AnswerLost(c) ==
  /\ At(c, "refreshing") \/ (At(c, "asking") /\ ~Serving(c, "idle"))
  /\ End(c)
  /\ handler' = [handler EXCEPT ![c] = Dropped(c)]
  /\ UNCHANGED <<api, stale, mem, store, user, crossed>>

\* As AnswerLost, but the request never reached the API.
RequestLost(c) ==
  /\ At(c, "refreshing") /\ Serving(c, "find")
  /\ End(c)
  /\ handler' = [handler EXCEPT ![c] = NoHandler]
  /\ UNCHANGED <<api, stale, mem, store, user, crossed>>

StartLogout(c) ==
  /\ Free(c) /\ user
  /\ task' = [task EXCEPT ![c] = [NoTask EXCEPT !.at = "leaving", !.kind = "logout"]]
  /\ IF mem.refresh = None THEN UNCHANGED handler ELSE Ask(c, "logout", mem.refresh)
  /\ UNCHANGED <<api, stale, mem, store, user, crossed>>

\* Answered, failed, lost, or never sent: logout clears the session all the
\* same.  If only the answer was lost, the handler goes on.
Leave(c) ==
  /\ At(c, "leaving")
  /\ \/ handler' = [handler EXCEPT ![c] = NoHandler]
     \/ Serving(c, "logout") /\ UNCHANGED handler
  /\ ClearSession(c)

KeepAccess(c) ==
  /\ At(c, "keepAccess")
  /\ store' = [store EXCEPT !.access = task[c].pair]
  /\ Goto(c, "keepRefresh")
  /\ UNCHANGED <<api, stale, handler, mem, user, crossed>>

KeepRefresh(c) ==
  /\ At(c, "keepRefresh")
  /\ store' = [store EXCEPT !.refresh = task[c].pair]
  /\ task' = [task EXCEPT ![c].at = "keepUser", ![c].pair = None]
  /\ UNCHANGED <<api, stale, handler, mem, user, crossed>>

\* Then a sign-in shows the user, and a refreshed call is made again.
KeepUser(c) ==
  /\ At(c, "keepUser")
  /\ store' = [store EXCEPT !.user = TRUE]
  /\ \/ task[c].next = "show" /\ user' = TRUE /\ End(c)
     \/ /\ task[c].next = "retry"
        /\ task' = [task EXCEPT ![c] = [NoTask EXCEPT !.at = "asking", !.kind = task[c].kind,
                                                      !.retried = TRUE, !.access = mem.access]]
        /\ UNCHANGED user
  /\ UNCHANGED <<api, stale, handler, mem, crossed>>

ForgetAccess(c) ==
  /\ At(c, "forgetAccess")
  /\ store' = [store EXCEPT !.access = None]
  /\ Goto(c, "forgetRefresh")
  /\ UNCHANGED <<api, stale, handler, mem, user, crossed>>

ForgetRefresh(c) ==
  /\ At(c, "forgetRefresh")
  /\ store' = [store EXCEPT !.refresh = None]
  /\ Goto(c, "forgetUser")
  /\ UNCHANGED <<api, stale, handler, mem, user, crossed>>

\* Then onUnauthorized or logout takes the user back to the login screen.
ForgetUser(c) ==
  /\ At(c, "forgetUser")
  /\ store' = [store EXCEPT !.user = FALSE]
  /\ user' = FALSE
  /\ End(c)
  /\ UNCHANGED <<api, stale, handler, mem, crossed>>

\* The app is killed and started again: loadSession, before any screen asks.
Restart ==
  /\ mem' = [access |-> store.access, refresh |-> store.refresh]
  /\ user' = (store.access # None /\ store.user)
  /\ task' = [c \in Calls |-> NoTask]
  /\ handler' = [c \in Calls |-> Dropped(c)]
  /\ crossed' = (crossed \/ \E c \in Calls : Writing(c))
  /\ UNCHANGED <<api, stale, store>>
-----------------------------------------------------------------------------
Handling(c) ==
  Find(c) \/ Revoke(c) \/ EmitirTokens(c) \/ LogOut(c) \/ HandlerFails(c)

Requesting(c) ==
  \/ StartQuery(c) \/ StartLogin(c) \/ StartLogout(c) \/ TryRefresh(c) \/ RequestEnds(c)
  \/ CredentialsAccepted(c) \/ SignedIn(c) \/ Refreshed(c) \/ RefreshRejected(c)
  \/ AnswerLost(c) \/ RequestLost(c) \/ Leave(c)

Storing(c) ==
  \/ KeepAccess(c) \/ KeepRefresh(c) \/ KeepUser(c)
  \/ ForgetAccess(c) \/ ForgetRefresh(c) \/ ForgetUser(c)

Next ==
  \/ \E c \in Calls : Handling(c) \/ Requesting(c) \/ Storing(c)
  \/ \E p \in Pairs : RefreshExpires(p)
  \/ AccessExpires \/ Restart

Spec == Init /\ [][Next]_vars
=============================================================================
