----------------------------- MODULE PushTokens -----------------------------
(* The push token of a phone: the app registers it when its main layout       *)
(* mounts and takes it back when the user logs out; the API keeps one row per *)
(* token.  Requests travel on their own: an app that restarts forgets those   *)
(* it sent, and the API may still act on them.                                *)
EXTENDS Integers, Sequences, FiniteSets

CONSTANTS
  NoUser,
  Users,
  MaxPushCalls   \* bound on the requests ever made

ASSUME PushConstants == NoUser \notin Users /\ MaxPushCalls \in Nat

VARIABLES
  pushTokens,    \* the row of each token: its user, or NoUser when there is none
  phone,         \* the phone that has the token
  pushCalls,     \* requests in order: register and remove
  strayed        \* history: what may leave the row behind the phone's session

pushVars == <<pushTokens, phone, pushCalls, strayed>>

PushTypeOK ==
  /\ pushTokens \in Users \cup {NoUser}
  /\ phone.session \in Users \cup {NoUser}
  /\ phone.logout \in {"no", "removing", "closing"}
  /\ strayed \in BOOLEAN /\ Len(pushCalls) <= MaxPushCalls

PushInit ==
  /\ pushTokens = NoUser
  /\ phone = [installed |-> TRUE, session |-> NoUser, stored |-> FALSE,
              logout |-> "no", registered |-> FALSE]
  /\ pushCalls = <<>> /\ strayed = FALSE

PushRoom == Len(pushCalls) < MaxPushCalls

\* "asking": for the permission; "sent": with the session's access token;
\* "done": the API has acted; "over": nothing will come of it any more.
Call(kind, user, step) == [kind |-> kind, user |-> user, step |-> step, awaited |-> TRUE]

Pending(call) == call.step \in {"asking", "sent", "done"}

\* Registrations under way, and removals that would take the user's own row.
Unsettled(user, calls) ==
  \E c \in calls :
    /\ Pending(pushCalls[c])
    /\ pushCalls[c].kind = "register" \/ pushCalls[c].user = user

Ended(c) == [pushCalls EXCEPT ![c].step = "over"]

-----------------------------------------------------------------------------
(* The app *)

\* Signing in, or starting with a session kept, mounts the layout.
Mount(user) ==
  /\ PushRoom
  /\ pushCalls' = Append(pushCalls, Call("register", NoUser, "asking"))
  /\ phone' = [phone EXCEPT !.session = user, !.logout = "no", !.registered = FALSE]

SignIn(user) ==
  /\ phone.installed /\ phone.session = NoUser
  /\ Mount(user)
  /\ strayed' = (strayed \/ Unsettled(user, DOMAIN pushCalls))
  /\ UNCHANGED pushTokens

NoPermission(c) ==
  /\ pushCalls[c].step = "asking"
  /\ pushCalls' = Ended(c)
  /\ UNCHANGED <<pushTokens, phone, strayed>>

\* The request goes with whatever session there is by then.
SendRegistration(c) ==
  /\ pushCalls[c].step = "asking"
  /\ pushCalls' = IF phone.session = NoUser THEN Ended(c)
                  ELSE [pushCalls EXCEPT ![c].step = "sent", ![c].user = phone.session]
  /\ UNCHANGED <<pushTokens, phone, strayed>>

\* registerPushToken answered: the preference remembers the token.
RememberToken(c) ==
  /\ pushCalls[c].kind = "register" /\ pushCalls[c].step = "done" /\ pushCalls[c].awaited
  /\ phone' = [phone EXCEPT !.stored = TRUE,
                            !.registered = @ \/ pushCalls[c].user = phone.session]
  /\ pushCalls' = Ended(c)
  /\ strayed' = (strayed \/ pushCalls[c].user # phone.session)
  /\ UNCHANGED pushTokens

\* The answer of a request the app still waits for does not come.
LoseAnswer(c) ==
  /\ pushCalls[c].step \in {"sent", "done"} /\ pushCalls[c].awaited
  /\ pushCalls' = [pushCalls EXCEPT ![c].awaited = FALSE,
                     ![c].step = IF pushCalls[c].step = "done" THEN "over" ELSE "sent"]
  /\ IF pushCalls[c].kind = "remove"
     THEN phone' = [phone EXCEPT !.stored = FALSE, !.logout = "closing"]
     ELSE UNCHANGED phone
  /\ strayed' = TRUE
  /\ UNCHANGED pushTokens

\* unregisterPushNotifications: with no token remembered nothing is asked.
Logout ==
  /\ phone.session # NoUser /\ phone.logout = "no"
  /\ strayed' = (strayed \/ Unsettled(phone.session, DOMAIN pushCalls))
  /\ \/ /\ phone.stored /\ PushRoom
        /\ phone' = [phone EXCEPT !.logout = "removing"]
        /\ pushCalls' = Append(pushCalls, Call("remove", phone.session, "sent"))
     \/ /\ ~phone.stored
        /\ phone' = [phone EXCEPT !.logout = "closing"]
        /\ UNCHANGED pushCalls
  /\ UNCHANGED pushTokens

\* The answer of the removal; the token is forgotten whatever it says.
ForgetToken(c) ==
  /\ pushCalls[c].kind = "remove" /\ pushCalls[c].step = "done" /\ pushCalls[c].awaited
  /\ pushCalls' = Ended(c)
  /\ phone' = [phone EXCEPT !.stored = FALSE, !.logout = "closing"]
  /\ UNCHANGED <<pushTokens, strayed>>

CloseSession ==
  /\ phone.logout = "closing"
  /\ phone' = [phone EXCEPT !.session = NoUser, !.logout = "no", !.registered = FALSE]
  /\ strayed' = (strayed \/ Unsettled(NoUser, DOMAIN pushCalls))
  /\ UNCHANGED <<pushTokens, pushCalls>>

\* A refresh is refused: the session goes without a logout.
SessionRefused ==
  /\ phone.session # NoUser /\ phone.logout = "no"
  /\ phone' = [phone EXCEPT !.session = NoUser, !.registered = FALSE]
  /\ strayed' = TRUE
  /\ UNCHANGED <<pushTokens, pushCalls>>

Restart ==
  /\ phone.installed /\ \E c \in DOMAIN pushCalls : Pending(pushCalls[c])
  /\ LET left == [c \in DOMAIN pushCalls |->
                    [pushCalls[c] EXCEPT !.awaited = FALSE,
                       !.step = IF @ = "sent" THEN "sent" ELSE "over"]]
     IN IF phone.session = NoUser
        THEN pushCalls' = left /\ UNCHANGED phone
        ELSE /\ PushRoom
             /\ pushCalls' = Append(left, Call("register", NoUser, "asking"))
             /\ phone' = [phone EXCEPT !.logout = "no", !.registered = FALSE]
  /\ strayed' = TRUE
  /\ UNCHANGED pushTokens

\* A new installation has another token.
Uninstall ==
  /\ phone.installed
  /\ phone' = [phone EXCEPT !.installed = FALSE, !.session = NoUser, !.stored = FALSE,
                            !.registered = FALSE, !.logout = "no"]
  /\ pushCalls' = [c \in DOMAIN pushCalls |->
                     [pushCalls[c] EXCEPT !.awaited = FALSE,
                        !.step = IF @ = "sent" THEN "sent" ELSE "over"]]
  /\ strayed' = TRUE
  /\ UNCHANGED pushTokens

-----------------------------------------------------------------------------
(* The API *)

removed(user) == IF pushTokens = user THEN NoUser ELSE pushTokens

\* An upsert by token gives it to the user; a removal names user and token.
Serve(c) ==
  /\ pushCalls[c].step = "sent"
  /\ pushTokens' = IF pushCalls[c].kind = "register" THEN pushCalls[c].user
                   ELSE removed(pushCalls[c].user)
  /\ pushCalls' = [pushCalls EXCEPT ![c].step = IF pushCalls[c].awaited THEN "done" ELSE "over"]
  /\ strayed' = IF pushCalls[c].kind = "register" /\ pushCalls[c].awaited
                    /\ pushCalls[c].user = phone.session /\ phone.logout = "no"
                 THEN Unsettled(phone.session, DOMAIN pushCalls \ {c}) ELSE strayed
  /\ UNCHANGED phone

\* notifyIssuerOwner, send: the ticket of a phone that is gone removes its row;
\* any failure is only logged.
NotifyOwner(user) ==
  /\ pushTokens = user
  /\ pushTokens' = IF phone.installed THEN pushTokens ELSE NoUser
  /\ UNCHANGED <<phone, pushCalls, strayed>>

PushNext ==
  \/ \E user \in Users : SignIn(user) \/ NotifyOwner(user)
  \/ \E c \in DOMAIN pushCalls :
       \/ NoPermission(c) \/ SendRegistration(c) \/ RememberToken(c)
       \/ LoseAnswer(c) \/ ForgetToken(c) \/ Serve(c)
  \/ Logout \/ CloseSession \/ SessionRefused \/ Restart \/ Uninstall

PushSpec == PushInit /\ [][PushNext]_pushVars
-----------------------------------------------------------------------------
(* Properties *)

\* With every answer arrived and no request left from an earlier session, a
\* phone that is logged out gets no push, and one whose registration ended in
\* this session gets those of its own user: another user's late removal does
\* not silence it (push-tokens.service.ts:18).  A lost answer, a registration
\* that overlaps the logout or a session refused leave the row behind
\* (push-notifications.ts:46-50: the token is remembered only when answered).
PushFollowsSession ==
  ~strayed /\ phone.logout = "no" =>
    /\ phone.session = NoUser => pushTokens = NoUser
    /\ phone.registered => pushTokens = phone.session
=============================================================================
