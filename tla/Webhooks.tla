------------------------------ MODULE Webhooks ------------------------------
(* WebhookService.dispatch: one event of an issuer to the endpoints of the    *)
(* API clients that may use it, each with its own retries, while clients  *)
(* and endpoints are added and the process may restart.                       *)
EXTENDS Integers, FiniteSets

CONSTANTS
  ApiClients,
  Endpoints,
  EndpointOwner,  \* the API client of each endpoint
  Events,         \* the events dispatched
  MaxAttempts     \* WEBHOOK_MAX_ATTEMPTS

ASSUME WebhookConstants == MaxAttempts \in Nat \ {0}

VARIABLES
  grants,         \* API clients that may use the issuer
  active,         \* endpoints that are active
  dispatches,     \* each dispatch: its step, the clients it read, its deliveries
  inbox           \* external: how often each endpoint got each event

webhookVars == <<grants, active, dispatches, inbox>>

\* In units of WEBHOOK_BASE_DELAY_MS.
RetryDelay(attempt) == 2 ^ (attempt - 1)

\* "calling", "waiting" for the next attempt, "delivered", "exhausted", "lost"
Delivery == [step |-> "calling", attempt |-> 1, wait |-> 0, waited |-> 0]

WebhooksInit ==
  /\ grants \in SUBSET ApiClients /\ active \in SUBSET Endpoints
  /\ dispatches = [e \in Events |-> [step |-> "new", clients |-> {}, deliveries |-> <<>>]]
  /\ inbox = [pair \in Endpoints \X Events |-> 0]

WebhooksTypeOK ==
  /\ grants \subseteq ApiClients /\ active \subseteq Endpoints
  /\ \A e \in Events : \A p \in DOMAIN dispatches[e].deliveries :
       dispatches[e].deliveries[p].attempt \in 1..MaxAttempts

\* create-api-client and register-webhook, run beside the API.
CreateApiClient ==
  /\ \E c \in ApiClients \ grants : grants' = grants \cup {c}
  /\ UNCHANGED <<active, dispatches, inbox>>

RegisterWebhook ==
  /\ \E p \in Endpoints \ active : active' = active \cup {p}
  /\ UNCHANGED <<grants, dispatches, inbox>>

ReadGrants(e) ==
  /\ dispatches[e].step = "new"
  /\ dispatches' = [dispatches EXCEPT ![e].clients = grants,
                      ![e].step = IF grants = {} THEN "over" ELSE "reading"]
  /\ UNCHANGED <<grants, active, inbox>>

\* The event is signed for each endpoint and all deliveries start at once.
ReadEndpoints(e) ==
  /\ dispatches[e].step = "reading"
  /\ LET targets == {p \in active : EndpointOwner[p] \in dispatches[e].clients}
     IN dispatches' = [dispatches EXCEPT ![e].step = "delivering",
                         ![e].deliveries = [p \in targets |-> Delivery]]
  /\ UNCHANGED <<grants, active, inbox>>

\* A read of the database fails and dispatch with it.
DispatchFails(e) ==
  /\ dispatches[e].step \in {"new", "reading"}
  /\ dispatches' = [dispatches EXCEPT ![e].step = "failed"]
  /\ UNCHANGED <<grants, active, inbox>>

afterFailure(delivery) ==
  IF delivery.attempt < MaxAttempts
  THEN [delivery EXCEPT !.step = "waiting", !.wait = RetryDelay(delivery.attempt)]
  ELSE [delivery EXCEPT !.step = "exhausted"]

\* One POST: it is answered ok; or an error, a refusal or a timeout is all that
\* is seen, and the endpoint may have got the event.
Attempt(e, p) ==
  /\ dispatches[e].deliveries[p].step = "calling"
  /\ \/ /\ dispatches' = [dispatches EXCEPT ![e].deliveries[p].step = "delivered"]
        /\ inbox' = [inbox EXCEPT ![<<p, e>>] = @ + 1]
     \/ \E got \in {0, 1} :
          /\ dispatches' = [dispatches EXCEPT ![e].deliveries[p] = afterFailure(@)]
          /\ inbox' = [inbox EXCEPT ![<<p, e>>] = @ + got]
  /\ UNCHANGED <<grants, active>>

\* The delay before the next attempt.
RetryAfterDelay(e, p) ==
  LET delivery == dispatches[e].deliveries[p]
  IN /\ delivery.step = "waiting"
     /\ dispatches' = [dispatches EXCEPT ![e].deliveries[p] =
          [delivery EXCEPT !.step = "calling", !.attempt = @ + 1, !.waited = @ + delivery.wait]]
     /\ UNCHANGED <<grants, active, inbox>>

Settled(delivery) == delivery.step \in {"delivered", "exhausted", "lost"}

\* Promise.all: dispatch ends with its slowest endpoint.
DispatchEnds(e) ==
  /\ dispatches[e].step = "delivering"
  /\ \A p \in DOMAIN dispatches[e].deliveries : Settled(dispatches[e].deliveries[p])
  /\ dispatches' = [dispatches EXCEPT ![e].step = "over"]
  /\ UNCHANGED <<grants, active, inbox>>

\* Nothing of a dispatch is stored: a restart forgets its retries.
WebhookRestart ==
  /\ \E e \in Events : dispatches[e].step \in {"reading", "delivering"}
  /\ dispatches' = [e \in Events |->
       IF dispatches[e].step \notin {"reading", "delivering"} THEN dispatches[e]
       ELSE [dispatches[e] EXCEPT !.step = "failed",
               !.deliveries = [p \in DOMAIN @ |->
                  IF Settled(@[p]) THEN @[p] ELSE [@[p] EXCEPT !.step = "lost"]]]]
  /\ UNCHANGED <<grants, active, inbox>>

WebhooksNext ==
  \/ CreateApiClient \/ RegisterWebhook \/ WebhookRestart
  \/ \E e \in Events :
       \/ ReadGrants(e) \/ ReadEndpoints(e) \/ DispatchFails(e) \/ DispatchEnds(e)
       \/ \E p \in DOMAIN dispatches[e].deliveries : Attempt(e, p) \/ RetryAfterDelay(e, p)

WebhooksSpec == WebhooksInit /\ [][WebhooksNext]_webhookVars
-----------------------------------------------------------------------------
(* Properties *)

\* The delays after the first n attempts, added up.
Backoff[n \in Nat] == IF n = 0 THEN 0 ELSE Backoff[n - 1] + RetryDelay(n)

\* An endpoint gets an event at most once per attempt and only from a client
\* that was allowed when the grants were read; one that never got it had all
\* its attempts, spread over the whole backoff, unless the process restarted
\* (webhook.service.ts:82) or the database failed; and dispatch says nothing of
\* an endpoint still being tried.
DeliveriesHold ==
  \A e \in Events :
    LET dispatch == dispatches[e]
    IN /\ \A p \in Endpoints : inbox[<<p, e>>] > 0 =>
            /\ p \in DOMAIN dispatch.deliveries /\ EndpointOwner[p] \in dispatch.clients
            /\ inbox[<<p, e>>] <= dispatch.deliveries[p].attempt
       /\ \A p \in DOMAIN dispatch.deliveries :
            LET delivery == dispatch.deliveries[p]
            IN /\ delivery.step = "delivered" => inbox[<<p, e>>] > 0
               /\ delivery.step = "lost" => dispatch.step = "failed"
               /\ delivery.step = "exhausted" =>
                    delivery.attempt = MaxAttempts /\ delivery.waited = Backoff[MaxAttempts - 1]
               /\ dispatch.step = "over" => delivery.step \in {"delivered", "exhausted"}
=============================================================================
