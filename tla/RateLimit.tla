----------------------------- MODULE RateLimit -----------------------------
(***************************************************************************)
(* The fixed-window limiter of Telegram commands: one counter per user and *)
(* command key, in the memory of the bot's process.                        *)
(***************************************************************************)
EXTENDS Naturals, FiniteSets

CONSTANTS LimitedUsers,
          LimitKeys,      \* status, access_resend, support
          MaxRequests,    \* of a key, within its window
          Window,
          RateHorizon

ASSUME RateAssumption ==
    /\ MaxRequests \in [LimitKeys -> Nat] /\ Window \in [LimitKeys -> Nat \ {0}]
    /\ RateHorizon \in Nat

Counters == LimitedUsers \X LimitKeys
Clock == 0..RateHorizon
Unset == RateHorizon + 1

VARIABLES time,
          startedAt, count,  \* _state of a counter; startedAt is Unset when it has none
          allowed            \* by counter and moment, what this process let through

rateVars == <<time, startedAt, count, allowed>>

RateTypeOK ==
    /\ time \in Clock
    /\ startedAt \in [Counters -> Clock \union {Unset}]
    /\ count \in [Counters -> Nat]
    /\ allowed \in [Counters -> [Clock -> Nat]]

NoWindow == [c \in Counters |-> Unset]
Zero == [c \in Counters |-> 0]
NoCalls == [c \in Counters |-> [t \in Clock |-> 0]]
RateInit == time = 0 /\ startedAt = NoWindow /\ count = Zero /\ allowed = NoCalls

\* Defect: a window lasts one moment longer.
FreshLate(c) == startedAt[c] = Unset \/ time - startedAt[c] > Window[c[2]]

\* A window that has run out is replaced by one that starts now.
Fresh(c) == startedAt[c] = Unset \/ time - startedAt[c] >= Window[c[2]]
Used(c) == IF Fresh(c) THEN 0 ELSE count[c]
Allow(c) ==
    /\ startedAt' = [startedAt EXCEPT ![c] = IF Fresh(c) THEN time ELSE @]
    /\ IF Used(c) >= MaxRequests[c[2]]
       THEN /\ count' = [count EXCEPT ![c] = Used(c)]
            /\ UNCHANGED allowed
       ELSE /\ count' = [count EXCEPT ![c] = Used(c) + 1]
            /\ allowed' = [allowed EXCEPT ![c][time] = @ + 1]
    /\ UNCHANGED time

RestartBot == startedAt' = NoWindow /\ count' = Zero /\ allowed' = NoCalls /\ UNCHANGED time
RateTick == time < RateHorizon /\ time' = time + 1
            /\ UNCHANGED <<startedAt, count, allowed>>

RateNext == (\E c \in Counters : Allow(c)) \/ RestartBot \/ RateTick
RateSpec == RateInit /\ [][RateNext]_rateVars

-----------------------------------------------------------------------------
\* The calls let through at the moments of T, numbered within a moment.
Passes(c, T) == UNION {{t} \X (1..allowed[c][t]) : t \in T}
Recent(c) == Passes(c, {t \in 0..time : time < t + Window[c[2]]})

\* In a stretch as long as a window, wherever it starts, a user gets at most
\* twice the limit through; and is refused only with the whole limit used up
\* in the last such stretch, so that waiting one window always helps.
LimitedButNotStarved == \A c \in Counters :
    /\ Cardinality(Recent(c)) <= 2 * MaxRequests[c[2]]
    /\ Used(c) >= MaxRequests[c[2]] => Cardinality(Recent(c)) >= MaxRequests[c[2]]

=============================================================================
