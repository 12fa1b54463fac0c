------------------------- MODULE SessionsProperties -------------------------
(***************************************************************************)
(* What Sessions must satisfy.  Calls that overlap do break the session in *)
(* this code, so a property names the overlap it excludes (contested,      *)
(* crossed), and holds whatever else fails, is lost or is killed.          *)
(***************************************************************************)
EXTENDS Sessions

(* The types, and what a call and its handler hold at each step: nothing is *)
(* sent to /auth/refresh or /auth/logout without a token, every token       *)
(* around was issued, and one in "create" is good for nothing any more.     *)
Known(p) == p = None \/ p <= issued
HandlerShape(h) ==
  /\ h.at \in {"find", "revoke", "logout", "refused"} => h.token \in Pairs
  /\ h.at = "create" /\ h.token # None => row[h.token] = "revoked"
  /\ h.at = "refused" => row[h.token] # "live"
  /\ Known(h.token) /\ Known(h.pair)
HandlersOf(label) ==
  CASE label = "asking" -> {"idle", "create", "granted", "failed"}
    [] label = "refreshing" -> {"find", "revoke", "create"} \cup Answers
    [] label = "leaving" -> {"idle", "logout", "granted", "failed"}
    [] label = "idle" -> HandlerLabels \ Answers
    [] label \in Forgetting -> {"idle", "logout"}
    [] OTHER -> {"idle"}
TaskShape(c) ==
  /\ At(c, "idle") => task[c] = NoTask
  /\ handler[c].at \in HandlersOf(task[c].at)
  /\ Serving(c, "granted") /\ ~At(c, "leaving") => handler[c].pair \in Pairs
  /\ task[c].at \in {"keepAccess", "keepRefresh"} => task[c].pair \in Pairs
  /\ task[c].at \in Keeping => task[c].next \in {"show", "retry"}
  /\ Known(task[c].pair)
DeviceKnown == Known(mem.refresh) /\ Known(store.refresh)
SessionsInv ==
  /\ TypeOK
  /\ \A p \in Pairs : row[p] = "absent" <=> p > issued
  /\ \A c \in Calls : HandlerShape(handler[c]) /\ TaskShape(c)
  /\ DeviceKnown

Heirs(t) == {p \in Pairs : parent[p] = t}
AtMostOne(S) == \A p, q \in S : p = q

(* AuthService.refresh and logout: a refresh token ends in one way, with    *)
(* one pair in exchange or logged out and nothing in exchange, unless two   *)
(* handlers had found it good before either revoked it.                     *)
Ends(t) == AtMostOne(Heirs(t)) /\ (t \in left => Heirs(t) = {})
EndsOneWay == \A t \in Pairs \ contested : Ends(t)

(* api.ts: a call whose refresh is refused takes the session away.  If it   *)
(* sent the token the app still holds, that session was over at the API.    *)
Rejected(c) == At(c, "refreshing") /\ Serving(c, "refused") /\ mem'.refresh = None
SignedOutForAReason ==
  [][\A c \in Calls : Rejected(c) /\ handler[c].token = mem.refresh
       => row[mem.refresh] # "live"]_vars

(* Once every call has ended, memory, store and screen tell the same story: *)
(* one pair and its user, or nothing at all.                                *)
Settled ==
  /\ mem = [access |-> store.access, refresh |-> store.refresh]
  /\ store.access = store.refresh
  /\ user = (store.access # None)
  /\ store.user = user
Quiet == \A c \in Calls : task[c] = NoTask
SettledDevice == Quiet /\ ~crossed => Settled
-----------------------------------------------------------------------------
(* The strengthenings the proofs need.                                      *)

\* A refresh token that anything came of is revoked; one handler at a time
\* works on a token, and nothing has come of it yet.
InUse(c, t) == handler[c].at \in {"revoke", "create"} /\ handler[c].token = t
Taken(t) == Heirs(t) # {} \/ t \in left => row[t] = "revoked"
Held(t) ==
  \A c \in Calls : InUse(c, t) =>
    Heirs(t) = {} /\ t \notin left /\ \A d \in Calls : InUse(d, t) => d = c
TokensInv == \A t \in Pairs : Taken(t) /\ (t \notin contested => Held(t) /\ Ends(t))

\* How far a writer got, when it is the only one.
Midway(c) ==
  /\ task[c].at \in Keeping =>
       /\ mem.access \in Pairs /\ mem.refresh = mem.access
       /\ ~At(c, "keepUser") => task[c].pair = mem.access
       /\ ~At(c, "keepAccess") => store.access = mem.access
       /\ At(c, "keepUser") => store.refresh = mem.access
       /\ task[c].next = "retry" => user
  /\ task[c].at \in Forgetting =>
       /\ mem = [access |-> None, refresh |-> None]
       /\ ~At(c, "forgetAccess") => store.access = None
       /\ At(c, "forgetUser") => store.refresh = None
Signing == \E c \in Calls : task[c].at \in Keeping /\ task[c].next = "show"
DeviceInv ==
  ~crossed =>
    /\ \A c, d \in Calls : Writing(c) /\ Writing(d) => c = d
    /\ \A c \in Calls : Writing(c) => Midway(c)
    /\ (\A c \in Calls : ~Writing(c)) => Settled
    /\ \A c, d \in Calls : At(c, "refreshing") =>
         (user \/ Signing) /\ task[d].at \notin Forgetting
=============================================================================
