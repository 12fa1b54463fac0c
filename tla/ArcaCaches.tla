----------------------------- MODULE ArcaCaches -----------------------------
(* Answers of ARCA kept for later: the parameter tables of an issuer (7       *)
(* days), the taxpayer registry (30 days) and the health of its servers (60   *)
(* seconds, in memory); and the exchange rate, which is always asked for.     *)
(* One pattern - find, call, store - and a policy of its own for each.  Time  *)
(* is counted in days for the stored ones; a day outlives the health answer.  *)
EXTENDS Integers, FiniteSets

CONSTANTS
  Nothing,       \* no row, no address
  Lookups,       \* the requests that ask; each asks once
  Environments,  \* homologation and production, one issuer in each
  Days,          \* the days something happens on, 0 among them
  MaxVersion     \* bound on the changes of what ARCA answers

ASSUME CacheConstants == Nothing \notin Int /\ Days \subseteq Nat /\ 0 \in Days

VARIABLES
  today,
  atSource,      \* external: the version of what ARCA would answer to anything
  rows,          \* the caches
  lookups

cacheVars == <<today, atSource, rows, lookups>>

Kinds == {"params", "taxpayer", "health", "rate"}

Ttl == [params |-> 7, taxpayer |-> 30, health |-> 1, rate |-> 0]

\* Tables are kept by issuer and health by environment; taxpayers by CUIT
\* alone, whichever environment they were asked in.
Key(kind, environment) == <<kind, IF kind = "taxpayer" THEN Nothing ELSE environment>>

\* A version of what ARCA has; the registry's later ones have no address.
Content(version) == [version |-> version, address |-> IF version = 1 THEN 1 ELSE Nothing]

\* What is kept when nothing can be read from the answer, or with no cache.
EmptyTable == [version |-> 0, address |-> Nothing]
LocalValues == [version |-> -1, address |-> Nothing]
Unreachable == [version |-> -2, address |-> Nothing]

CachesInit ==
  /\ today = 0
  /\ atSource = 1
  /\ rows = [k \in {Key(s[1], s[2]) : s \in Kinds \X Environments} |-> Nothing]
  /\ lookups = [l \in Lookups |-> [step |-> "new", kind |-> "rate", environment |-> Nothing,
                  row |-> Nothing, reply |-> "none", content |-> EmptyTable,
                  answer |-> "none", started |-> 0]]

DaysPass ==
  /\ \E day \in Days : day > today /\ today' = day
  /\ UNCHANGED <<atSource, rows, lookups>>

ArcaChanges ==
  /\ atSource < MaxVersion
  /\ atSource' = atSource + 1
  /\ UNCHANGED <<today, rows, lookups>>

Fresh(row, kind) == row # Nothing /\ today - row.fetchedAt < Ttl[kind]

\* What the request had read goes with it.
Answered(l, answer, content) ==
  [lookups EXCEPT ![l].step = "answered", ![l].answer = answer, ![l].content = content,
                  ![l].row = Nothing, ![l].started = 0]

Find(l, kind, environment) ==
  /\ lookups[l].step = "new"
  /\ LET row == rows[Key(kind, environment)]
         asked == [lookups[l] EXCEPT !.kind = kind, !.environment = environment, !.row = row,
                     !.started = today, !.step = "calling"]
     IN lookups' = [lookups EXCEPT ![l] =
          IF Fresh(row, kind)
          THEN [asked EXCEPT !.step = "answered", !.answer = "row", !.content = row.content]
          ELSE [asked EXCEPT !.row = IF kind = "params" THEN row ELSE Nothing]]
  /\ UNCHANGED <<today, atSource, rows>>

\* The tables of WSFE are read without their errors, and so is FEDummy.
ReadsErrors(kind) == kind \in {"rate", "taxpayer"}

\* ARCA answers with what it has, or with an error inside a good reply.
CallArca(l) ==
  /\ lookups[l].step = "calling"
  /\ \/ lookups' = [lookups EXCEPT ![l].step = "storing", ![l].reply = "ok",
                      ![l].content = Content(atSource)]
     \/ lookups' = [lookups EXCEPT ![l].reply = "errors",
                      ![l].step = IF ReadsErrors(lookups[l].kind) THEN "failing" ELSE "storing",
                      ![l].content = IF lookups[l].kind = "health" THEN Unreachable
                                     ELSE EmptyTable]
  /\ UNCHANGED <<today, atSource, rows>>

\* The ticket, the connection or the reply fails.
CallFails(l) ==
  /\ lookups[l].step = "calling"
  /\ lookups' = [lookups EXCEPT ![l].step = "failing", ![l].reply = "down"]
  /\ UNCHANGED <<today, atSource, rows>>

\* An upsert leaves the old address where the registry gives none.
Stored(kind, row, content) ==
  IF kind = "taxpayer" /\ row # Nothing /\ content.address = Nothing
  THEN [content EXCEPT !.address = row.content.address] ELSE content

StoreAnswer(l) ==
  LET lookup == lookups[l]
      key == Key(lookup.kind, lookup.environment)
  IN /\ lookup.step = "storing"
     /\ rows' = IF lookup.kind = "rate" THEN rows
                ELSE [rows EXCEPT ![key] =
                        [fetchedAt |-> today, from |-> lookup.environment,
                         content |-> Stored(lookup.kind, rows[key], lookup.content)]]
     /\ lookups' = Answered(l, "arca", lookup.content)
     /\ UNCHANGED <<today, atSource>>

\* The database fails: the answer is lost with its row.
StoreFails(l) ==
  /\ lookups[l].step = "storing" /\ lookups[l].kind \in {"params", "taxpayer"}
  /\ lookups' = [lookups EXCEPT ![l].step = "failing"]
  /\ UNCHANGED <<today, atSource, rows>>

\* Tables fall back on the row they found, then on the local values; health is
\* reported as down, and kept so; the others fail.
AnswerFailure(l) ==
  LET lookup == lookups[l]
  IN /\ lookup.step = "failing"
     /\ CASE lookup.kind = "params" /\ lookup.row # Nothing ->
               lookups' = Answered(l, "stale", lookup.row.content) /\ UNCHANGED rows
          [] lookup.kind = "params" /\ lookup.row = Nothing ->
               lookups' = Answered(l, "local", LocalValues) /\ UNCHANGED rows
          [] lookup.kind = "health" ->
               /\ lookups' = Answered(l, "arca", Unreachable)
               /\ rows' = [rows EXCEPT ![Key("health", lookup.environment)] =
                    [fetchedAt |-> today, from |-> lookup.environment, content |-> Unreachable]]
          [] lookup.kind \in {"rate", "taxpayer"} ->
               lookups' = Answered(l, "error", EmptyTable) /\ UNCHANGED rows
     /\ UNCHANGED <<today, atSource>>

\* Health is kept in memory; requests under way are lost.
CacheRestart ==
  /\ rows' = [k \in DOMAIN rows |-> IF k[1] = "health" THEN Nothing ELSE rows[k]]
  /\ lookups' = [l \in Lookups |->
       IF lookups[l].step \in {"new", "answered"} THEN lookups[l]
       ELSE Answered(l, "error", EmptyTable)[l]]
  /\ rows' # rows \/ lookups' # lookups
  /\ UNCHANGED <<today, atSource>>

CachesNext ==
  \/ DaysPass \/ CacheRestart \/ ArcaChanges
  \/ \E l \in Lookups :
       \/ \E kind \in Kinds, environment \in Environments : Find(l, kind, environment)
       \/ CallArca(l) \/ CallFails(l)
       \/ StoreAnswer(l) \/ StoreFails(l) \/ AnswerFailure(l)

CachesSpec == CachesInit /\ [][CachesNext]_cacheVars
-----------------------------------------------------------------------------
(* Properties *)

CachesTypeOK ==
  /\ today \in Days
  /\ \A k \in DOMAIN rows : rows[k] # Nothing => rows[k].fetchedAt \in 0..today
  /\ \A l \in Lookups : lookups[l].step \in {"new", "calling", "storing", "failing", "answered"}

\* An answer out of a cache was stored less than its time to live before it was
\* asked for, and only an issuer's tables are ever served older, after a
\* failure of that very request: a rate or a taxpayer is never guessed.
AnswersAreRecent ==
  \A l \in Lookups :
    LET lookup == lookups[l]
    IN lookup.step = "answered" =>
         /\ lookup.answer = "row" => lookup.started - lookup.row.fetchedAt < Ttl[lookup.kind]
         /\ lookup.answer \in {"stale", "local"} => lookup.kind = "params" /\ lookup.reply # "none"
         /\ lookup.content = Unreachable => lookup.kind = "health"

\* No answer mixes environments except a taxpayer's, whose row both share
\* (taxpayers.service.ts:50); and only a taxpayer's address may be of an
\* earlier answer than the rest of its row (taxpayers.service.ts:78).
RowsAreWhole ==
  \A k \in DOMAIN rows : rows[k] # Nothing =>
    /\ k[1] # "taxpayer" => rows[k].from = k[2]
    /\ rows[k].content.version > 0 =>
         /\ rows[k].content.version <= atSource
         /\ rows[k].content.address # Content(rows[k].content.version).address =>
              k[1] = "taxpayer" /\ rows[k].content.version > 1

CachesHold == AnswersAreRecent /\ RowsAreWhole
=============================================================================
