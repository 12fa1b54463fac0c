------------------------------ MODULE Catalog ------------------------------
(* The smaller tables of an issuer: its clients, its sales points, which are  *)
(* synchronised with ARCA, the shadow comparisons of an integration and the   *)
(* log of the calls to ARCA.  Requests overlap at their database calls.       *)
EXTENDS Integers, Sequences, FiniteSets

CONSTANTS
  Absent,
  Tasks,          \* the requests made; each runs once
  Documents,      \* documents of clients
  PointNumbers,   \* sales points at ARCA
  Expectations,   \* what an integration expected: amounts and number
  Plan,           \* what the API computed for it
  SummaryWindow,  \* SUMMARY_WINDOW
  MaxPage,        \* MAX_PAGE_SIZE
  Retention       \* ARCA_CALL_LOG_RETENTION_DAYS

\* SUMMARY_WINDOW is 200: with 20000 comparisons a rate with one mismatch would
\* round to 100 %.
ASSUME CatalogConstants ==
  /\ SummaryWindow \in 1..19999 /\ MaxPage \in Nat \ {0} /\ Retention \in Nat /\ Absent # "listed"
  /\ PointNumbers \subseteq Nat
  /\ \A amounts \in Expectations \cup {Plan} :
       \A field \in {"netAmount", "ivaAmount", "totalAmount"} : amounts[field] \in Int

VARIABLES
  clients,        \* client rows in order, Absent once deleted
  points,         \* sales point rows: number -> description
  openAtArca,     \* external: the points ARCA has active for CAE
  comparisons,    \* shadow comparisons in order
  callLog,        \* ages of the calls logged, in days, latest first
  tasks

catalogVars == <<clients, points, openAtArca, comparisons, callLog, tasks>>

NoTask == [step |-> "new", id |-> 0, document |-> Absent, todo |-> {}, read |-> {}, answer |-> Absent]

CatalogInit ==
  /\ clients = <<>> /\ comparisons = <<>> /\ callLog = <<>>
  /\ points = [n \in {} |-> Absent]
  /\ openAtArca = PointNumbers
  /\ tasks = [t \in Tasks |-> NoTask]

Over(t, answer) ==
  [tasks EXCEPT ![t] = [NoTask EXCEPT !.step = "over", !.answer = answer, !.read = tasks[t].read]]

New(t) == tasks[t].step = "new"

-----------------------------------------------------------------------------
(* clients.service.ts *)

\* Mutant: the document of a new client is not compared with the others'.
Mutant_Taken(document, id) == id # 0 /\ \E i \in DOMAIN clients : i # id /\ clients[i] = document

\* The unique key of a client's document, P2002.
Taken(document, id) == \E i \in DOMAIN clients : i # id /\ clients[i] = document

CreateClient(t, document) ==
  /\ New(t)
  /\ IF Taken(document, 0)
     THEN tasks' = Over(t, "conflict") /\ UNCHANGED clients
     ELSE clients' = Append(clients, document) /\ tasks' = Over(t, "ok")
  /\ UNCHANGED <<points, openAtArca, comparisons, callLog>>

\* get, before an update to another document or a deletion.
GetClient(t, id, document) ==
  /\ New(t)
  /\ tasks' = IF clients[id] = Absent THEN Over(t, "not_found")
              ELSE [tasks EXCEPT ![t].step = "writing", ![t].id = id, ![t].document = document]
  /\ UNCHANGED <<clients, points, openAtArca, comparisons, callLog>>

\* A row gone in between fails like any error.
WriteClient(t) ==
  LET task == tasks[t]
  IN /\ task.step = "writing"
     /\ CASE clients[task.id] = Absent -> tasks' = Over(t, "error") /\ UNCHANGED clients
          [] clients[task.id] # Absent /\ task.document # Absent /\ Taken(task.document, task.id) ->
               tasks' = Over(t, "conflict") /\ UNCHANGED clients
          [] OTHER -> /\ clients' = [clients EXCEPT ![task.id] = task.document]
                      /\ tasks' = Over(t, "ok")
     /\ UNCHANGED <<points, openAtArca, comparisons, callLog>>

-----------------------------------------------------------------------------
(* sales-points.service.ts *)

PointOpensOrCloses ==
  /\ \E n \in PointNumbers : openAtArca' = (openAtArca \ {n}) \cup ({n} \ openAtArca)
  /\ UNCHANGED <<clients, points, comparisons, callLog, tasks>>

\* getSalesPoints: an error inside the reply reads as no points at all.
StartSync(t) ==
  /\ New(t)
  /\ \E remote \in {openAtArca, {}} :
       tasks' = [tasks EXCEPT ![t].step = "syncing", ![t].todo = remote, ![t].read = remote]
  /\ UNCHANGED <<clients, points, openAtArca, comparisons, callLog>>

UpsertPoint(t) ==
  /\ tasks[t].step = "syncing" /\ tasks[t].todo # {}
  /\ LET n == CHOOSE n \in tasks[t].todo : \A m \in tasks[t].todo : n <= m
     IN /\ points' = [k \in DOMAIN points \cup {n} |-> IF k \in DOMAIN points THEN points[k] ELSE Absent]
        /\ tasks' = [tasks EXCEPT ![t].todo = @ \ {n}]
  /\ UNCHANGED <<clients, openAtArca, comparisons, callLog>>

\* It ends with the list, or with the first error.
SyncEnds(t) ==
  /\ tasks[t].step = "syncing"
  /\ \/ tasks[t].todo = {} /\ tasks' = Over(t, "listed")
     \/ tasks' = Over(t, "error")
  /\ UNCHANGED <<clients, points, openAtArca, comparisons, callLog>>

updateDescription(t, n, description) ==
  /\ New(t)
  /\ IF n \in DOMAIN points
     THEN points' = [points EXCEPT ![n] = description] /\ tasks' = Over(t, "ok")
     ELSE tasks' = Over(t, "error") /\ UNCHANGED points
  /\ UNCHANGED <<clients, openAtArca, comparisons, callLog>>

-----------------------------------------------------------------------------
(* shadow.service.ts: amounts in cents *)

MoneyFields == {"netAmount", "ivaAmount", "totalAmount"}

Apart(expected, field) ==
  IF expected[field] > Plan[field] THEN expected[field] - Plan[field] ELSE Plan[field] - expected[field]

\* The amounts are floating-point numbers: whether a difference of one cent
\* exceeds a tolerance of one cent depends on the amounts.
diff(expected) ==
  {{f \in MoneyFields : Apart(expected, f) > 1} \cup byOneCent
     \cup (IF expected.number \in {Absent, Plan.number} THEN {} ELSE {"number"}) :
   byOneCent \in SUBSET {f \in MoneyFields : Apart(expected, f) = 1}}

compare(t, expected) ==
  /\ New(t)
  /\ \E differences \in diff(expected) :
       comparisons' = Append(comparisons,
         [expected |-> expected, differences |-> differences, matched |-> differences = {}])
  /\ tasks' = Over(t, "ok")
  /\ UNCHANGED <<clients, points, openAtArca, callLog>>

\* The rate in hundredths of a percent, of the last comparisons only.
summary ==
  LET first == IF Len(comparisons) > SummaryWindow THEN Len(comparisons) - SummaryWindow + 1 ELSE 1
      recent == SubSeq(comparisons, first, Len(comparisons))
      matched == Cardinality({i \in DOMAIN recent : recent[i].matched})
  IN [total |-> Len(recent), matched |-> matched, mismatched |-> Len(recent) - matched,
      matchRate |-> IF recent = <<>> THEN Absent
                    ELSE (matched * 20000 + Len(recent)) \div (2 * Len(recent))]

-----------------------------------------------------------------------------
(* arca-call-log.service.ts *)

\* A failed write is only logged.
record(t) ==
  /\ New(t)
  /\ callLog' \in {callLog, <<0>> \o callLog}
  /\ tasks' = Over(t, "ok")
  /\ UNCHANGED <<clients, points, openAtArca, comparisons>>

TimePasses(days) ==
  /\ \E i \in DOMAIN callLog : callLog[i] <= Retention
  /\ callLog' = [i \in DOMAIN callLog |-> callLog[i] + days]
  /\ UNCHANGED <<clients, points, openAtArca, comparisons, tasks>>

\* Every six hours; the expired calls are the last of the log.
purgeExpired ==
  /\ callLog' = SubSeq(callLog, 1, Cardinality({i \in DOMAIN callLog : callLog[i] <= Retention}))
  /\ callLog' # callLog
  /\ UNCHANGED <<clients, points, openAtArca, comparisons, tasks>>

listForIssuer(limit) ==
  SubSeq(callLog, 1, LET page == IF limit < MaxPage THEN limit ELSE MaxPage
                     IN IF page < Len(callLog) THEN page ELSE Len(callLog))

CatalogNext ==
  \/ PointOpensOrCloses \/ purgeExpired
  \/ \E days \in {1, Retention} : TimePasses(days)
  \/ \E t \in Tasks :
       \/ \E d \in Documents : CreateClient(t, d)
       \/ \E id \in DOMAIN clients, d \in Documents \cup {Absent} : GetClient(t, id, d)
       \/ WriteClient(t) \/ StartSync(t) \/ UpsertPoint(t) \/ SyncEnds(t) \/ record(t)
       \/ \E n \in PointNumbers, text \in {Absent, "text"} : updateDescription(t, n, text)
       \/ \E expected \in Expectations : compare(t, expected)

CatalogSpec == CatalogInit /\ [][CatalogNext]_catalogVars
-----------------------------------------------------------------------------
(* Properties *)

CatalogTypeOK ==
  /\ \A i \in DOMAIN clients : clients[i] \in Documents \cup {Absent}
  /\ DOMAIN points \subseteq PointNumbers /\ openAtArca \subseteq PointNumbers
  /\ \A t \in Tasks : tasks[t].step \in {"new", "writing", "syncing", "over"}

\* Two clients of an issuer never have one document, whatever creations and
\* updates overlap; a synchronisation that answers its list has every point it
\* read from ARCA and loses none, and a description survives it.
ClientsAreUnique == \A i, j \in DOMAIN clients : i # j /\ clients[i] = clients[j] => clients[i] = Absent

SyncKeeps ==
  \A t \in Tasks :
    /\ tasks[t].step = "syncing" => tasks[t].read \ tasks[t].todo \subseteq DOMAIN points
    /\ tasks[t].answer = "listed" => tasks[t].read \subseteq DOMAIN points

\* A summary accounts for each comparison of its window once; it is perfect
\* when each equals the plan, and never with one that is off by more than a
\* cent or in its number.  By one cent it may go either way (shadow.service.ts:104).
SummaryCounts ==
  LET recent == Len(comparisons) - summary.total + 1..Len(comparisons)
      Off(i, cents) == \/ \E f \in MoneyFields : Apart(comparisons[i].expected, f) > cents
                       \/ comparisons[i].expected.number \notin {Absent, Plan.number}
  IN /\ summary.total = summary.matched + summary.mismatched /\ summary.total <= SummaryWindow
     /\ summary.matchRate = 10000 => \A i \in recent : ~Off(i, 1)
     /\ comparisons # <<>> /\ (\A i \in recent : ~Off(i, 0)) => summary.matchRate = 10000

\* The log lists its latest calls first and at most a page of them.
LogIsPaged ==
  \A limit \in {1, MaxPage + 1} :
    LET page == listForIssuer(limit)
    IN Len(page) <= MaxPage /\ \A i \in DOMAIN page : \A j \in DOMAIN callLog :
         callLog[j] < page[i] => \E k \in 1..i : page[k] = callLog[j]

CatalogHolds == ClientsAreUnique /\ SyncKeeps /\ SummaryCounts /\ LogIsPaged
=============================================================================
