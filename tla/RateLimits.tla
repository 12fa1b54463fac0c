----------------------------- MODULE RateLimits -----------------------------
(* FixedWindowLimiter, as the guards of the service and of the credentials    *)
(* use it: a map of windows by key that is cleaned only when it is full.      *)
EXTENDS Integers, Sequences, FiniteSets

CONSTANTS
  Keys,          \* API clients, emails or addresses
  MaxPerWindow,
  WindowTicks,
  MaxTracked,    \* MAX_TRACKED_KEYS
  MaxTick,
  MaxArrivals    \* bound on the requests let in

ASSUME RateConstants ==
  /\ IsFiniteSet(Keys) /\ MaxTracked \in Nat /\ MaxTick \in Nat
  /\ MaxPerWindow \in Nat \ {0} /\ WindowTicks \in Nat \ {0}

VARIABLES
  tick,
  windows,
  arrivals,      \* history: the keys and times let in
  refused        \* history: the last request refused

limitVars == <<tick, windows, arrivals, refused>>

RateLimitsInit ==
  /\ tick = 0 /\ arrivals = <<>>
  /\ windows = [k \in {} |-> 0]
  /\ refused = [key |-> "none", from |-> 0, until |-> 0]

TimeTicks ==
  /\ tick < MaxTick
  /\ tick' = tick + 1
  /\ UNCHANGED <<windows, arrivals, refused>>

Expired(window) == tick >= window.resetAt

pruneExpiredWhenFull(tracked) ==
  IF Cardinality(DOMAIN tracked) < MaxTracked THEN tracked
  ELSE [k \in {d \in DOMAIN tracked : ~Expired(tracked[d])} |-> tracked[k]]

Alive(key) == key \in DOMAIN windows /\ ~Expired(windows[key])

\* A new window for the key, beside those kept.
OpenWindow(key) ==
  /\ ~Alive(key)
  /\ LET kept == pruneExpiredWhenFull(windows)
         opened == [count |-> 1, resetAt |-> tick + WindowTicks]
     IN windows' = [k \in DOMAIN kept \cup {key} |-> IF k = key THEN opened ELSE kept[k]]

\* Mutant: the limit is not compared.
Mutant_CountRequest(key) ==
  Alive(key) /\ windows' = [windows EXCEPT ![key].count = @ + 1]

CountRequest(key) ==
  /\ Alive(key) /\ windows[key].count < MaxPerWindow
  /\ windows' = [windows EXCEPT ![key].count = @ + 1]

consume(key) ==
  \/ /\ Len(arrivals) < MaxArrivals
     /\ OpenWindow(key) \/ CountRequest(key)
     /\ arrivals' = Append(arrivals, <<key, tick>>)
     /\ UNCHANGED <<tick, refused>>
  \/ /\ Alive(key) /\ windows[key].count >= MaxPerWindow
     /\ refused' = [key |-> key, from |-> tick, until |-> windows[key].resetAt]
     /\ UNCHANGED <<tick, windows, arrivals>>

LimiterRestart ==
  /\ DOMAIN windows # {}
  /\ windows' = [k \in {} |-> 0]
  /\ arrivals' = <<>>
  /\ refused' = [key |-> "none", from |-> 0, until |-> 0]
  /\ UNCHANGED tick

RateLimitsNext == TimeTicks \/ LimiterRestart \/ \E key \in Keys : consume(key)

RateLimitsSpec == RateLimitsInit /\ [][RateLimitsNext]_limitVars
-----------------------------------------------------------------------------
(* Properties *)

RateLimitsTypeOK ==
  /\ tick \in 0..MaxTick /\ DOMAIN windows \subseteq Keys
  /\ \A k \in DOMAIN windows : windows[k].count \in 1..MaxPerWindow

Let(key, from, to) ==
  Cardinality({i \in DOMAIN arrivals : arrivals[i][1] = key /\ arrivals[i][2] \in from..to})

\* Since the last restart a key is let in at most the maximum at one moment and
\* twice that in any span of a window's length; a refusal comes only after the
\* maximum was let in within a window, and ends with it; and the map never
\* holds more than its limit unless that many windows were alive at once
\* (fixed-window-limiter.ts:34: it is cleaned only for a new window).
RateIsBounded ==
  /\ \A key \in Keys : \A from \in 0..tick :
       /\ Let(key, from, from) <= MaxPerWindow
       /\ Let(key, from, from + WindowTicks - 1) <= 2 * MaxPerWindow
  /\ refused.key # "none" =>
       /\ refused.until \in refused.from + 1..refused.from + WindowTicks
       /\ Let(refused.key, refused.until - WindowTicks, refused.from) >= MaxPerWindow
  /\ Cardinality(DOMAIN windows) > MaxTracked =>
       \E from \in 0..tick :
         Cardinality({k \in Keys : Let(k, from - WindowTicks + 1, from) > 0}) > MaxTracked
=============================================================================
