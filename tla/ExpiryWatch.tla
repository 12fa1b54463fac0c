---------------------------- MODULE ExpiryWatch ----------------------------
(* CertMonitorService: every morning a walk over the certificates near their  *)
(* end, a webhook for each and, on some days, a push.  The webhook is waited  *)
(* for, so each certificate is reached later than the one before; meanwhile   *)
(* a certificate may be renewed.  Time in ticks; a day has TicksPerDay.       *)
EXTENDS Integers, Sequences, FiniteSets, FiniteSetsExt, SequencesExt

CONSTANTS
  Certificates,
  TicksPerDay,
  EndsIn,          \* days from the first morning to the end of a certificate
  MaxMornings,     \* bound on the mornings watched
  MaxDelay         \* bound, in ticks, on what a walk takes

\* A walk is over before the next one.
ASSUME WatchConstants ==
  /\ IsFiniteSet(Certificates) /\ EndsIn \subseteq Int
  /\ TicksPerDay \in Nat \ {0} /\ MaxMornings \in Nat /\ MaxDelay \in 0..TicksPerDay

VARIABLES
  clock,
  validUntil,
  mornings,        \* walks begun
  walk,            \* the certificates to go, as they were read
  told,            \* history: <<certificate, end, days>> pushed, by morning
  reached          \* history: what each morning's walk found, by certificate

watchVars == <<clock, validUntil, mornings, walk, told, reached>>

CERTIFICATE_EXPIRY_PUSH_DAYS == {30, 15, 7, 3, 1}

WarningDays == 30

CeilDays(ticks) == -((-ticks) \div TicksPerDay)

NotReached == [days |-> -1000, end |-> 0, at |-> -1]

WatchInit ==
  /\ clock = 0 /\ mornings = 0 /\ walk = <<>> /\ told = {}
  /\ validUntil \in [Certificates -> {d * TicksPerDay + t : d \in EndsIn, t \in {-1, 0, 1}}]
  /\ reached = <<>>

\* 7 in the morning: who ends within WarningDays, in no order the query names.
StartWalk ==
  /\ mornings < MaxMornings /\ clock = mornings * TicksPerDay /\ walk = <<>>
  /\ mornings' = mornings + 1
  /\ walk' \in SetToSeqs({[certificate |-> c, end |-> validUntil[c]] :
               c \in {d \in Certificates : validUntil[d] <= clock + WarningDays * TicksPerDay}})
  /\ reached' = Append(reached, [c \in Certificates |-> NotReached])
  /\ UNCHANGED <<clock, validUntil, told>>

\* The process is down at 7, or the rows cannot be read.
MissWalk ==
  /\ mornings < MaxMornings /\ clock = mornings * TicksPerDay /\ walk = <<>>
  /\ mornings' = mornings + 1
  /\ reached' = Append(reached, [c \in Certificates |-> NotReached])
  /\ UNCHANGED <<clock, validUntil, walk, told>>

daysToExpiry(end) == CeilDays(end - clock)

\* The webhook goes out; when it is over, the push of a day announced.
WarnAbout ==
  /\ walk # <<>>
  /\ LET row == Head(walk)
         days == daysToExpiry(row.end)
     IN /\ told' = IF days \in CERTIFICATE_EXPIRY_PUSH_DAYS
                   THEN told \cup {<<row.certificate, row.end, days, mornings>>} ELSE told
        /\ reached' = [reached EXCEPT ![mornings][row.certificate] =
                         [days |-> days, end |-> row.end, at |-> clock]]
  /\ walk' = Tail(walk)
  /\ UNCHANGED <<clock, validUntil, mornings>>

\* dispatch cannot read the database: nobody after this one is warned.
WalkFails ==
  /\ walk # <<>>
  /\ walk' = <<>>
  /\ UNCHANGED <<clock, validUntil, mornings, told, reached>>

\* Waiting for a slow endpoint.
WalkWaits ==
  /\ walk # <<>> /\ clock < (mornings - 1) * TicksPerDay + MaxDelay
  /\ clock' = clock + 1
  /\ UNCHANGED <<validUntil, mornings, walk, told, reached>>

NextMorning ==
  /\ walk = <<>> /\ mornings > 0 /\ clock < mornings * TicksPerDay
  /\ clock' = mornings * TicksPerDay
  /\ UNCHANGED <<validUntil, mornings, walk, told, reached>>

RenewCertificate(c) ==
  /\ validUntil[c] < 365 * TicksPerDay
  /\ validUntil' = [validUntil EXCEPT ![c] = clock + 730 * TicksPerDay]
  /\ UNCHANGED <<clock, mornings, walk, told, reached>>

WatchNext ==
  \/ StartWalk \/ MissWalk \/ WarnAbout \/ WalkFails \/ WalkWaits \/ NextMorning
  \/ \E c \in Certificates : RenewCertificate(c)

WatchSpec == WatchInit /\ [][WatchNext]_watchVars
-----------------------------------------------------------------------------
(* Properties *)

WatchTypeOK ==
  /\ mornings \in 0..MaxMornings /\ Len(reached) = mornings
  /\ \A i \in DOMAIN walk : walk[i].certificate \in Certificates
  /\ clock >= 0

PushedOn(c, end, days) == {m \in 1..mornings : <<c, end, days, m>> \in told}

\* Between two mornings in a row that reached a certificate at the same tick of
\* the day the days fall by one, so each announced day is pushed once.  A day
\* is skipped or told twice only when one of the two walks came later to the
\* certificate than the other (cert-monitor.service.ts:38: the clock is read
\* anew after each webhook) or a morning was missed.
CountdownIsEven ==
  \A c \in Certificates : \A m \in 2..mornings :
    LET before == reached[m - 1][c]
        now == reached[m][c]
    IN before.at >= 0 /\ now.at >= 0 /\ before.end = now.end =>
         /\ now.at - before.at = TicksPerDay => now.days = before.days - 1
         /\ now.days - before.days \in {0, -1, -2}

ToldOnce ==
  \A t \in told :
    /\ reached[t[4]][t[1]].days = t[3] /\ t[2] - reached[t[4]][t[1]].at > (t[3] - 1) * TicksPerDay
    /\ t[2] - reached[t[4]][t[1]].at <= t[3] * TicksPerDay
    /\ \A m \in PushedOn(t[1], t[2], t[3]) \ {t[4]} :
         reached[m][t[1]].at - reached[t[4]][t[1]].at # (m - t[4]) * TicksPerDay

ExpiryHolds == CountdownIsEven /\ ToldOnce
=============================================================================
