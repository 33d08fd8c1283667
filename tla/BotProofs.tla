------------------------------ MODULE BotProofs ------------------------------
(***************************************************************************)
(* Theorems about the parts of the bot that stand between an update and    *)
(* its answer: the rate limiter, for any users, limits and windows; the    *)
(* guards against repeated updates, for any keys, sizes and times to live; *)
(* and the replies, for any number of dates.                               *)
(***************************************************************************)
EXTENDS RateLimit, UpdateDedup, BotReplies, FiniteSetTheorems, SequenceTheorems, TLAPS

-----------------------------------------------------------------------------
(* The rate limiter. *)

\* The moments of a counter's window, and those of the stretch before it.
InWindow(c) == {t \in Clock : startedAt[c] <= t}
BeforeWindow(c) == {t \in Clock : t < startedAt[c] /\ startedAt[c] < t + Window[c[2]]}

\* The counter counts what was let through since its window began, there is
\* nothing after the window's end or in the future, and what was let through in
\* the stretch before the window was the work of one window as well.
Counted(c) ==
    /\ IsFiniteSet(Passes(c, Clock))
    /\ \A t \in Clock : allowed[c][t] # 0 => t <= time
    /\ startedAt[c] = Unset => \A t \in Clock : allowed[c][t] = 0
    /\ startedAt[c] # Unset =>
         /\ startedAt[c] <= time /\ count[c] <= MaxRequests[c[2]]
         /\ \A t \in InWindow(c) : allowed[c][t] # 0 => t < startedAt[c] + Window[c[2]]
         /\ Cardinality(Passes(c, InWindow(c))) = count[c]
         /\ Cardinality(Passes(c, BeforeWindow(c))) <= MaxRequests[c[2]]
RateInv == RateTypeOK /\ \A c \in Counters : Counted(c)

LEMMA PassesAreNumbers ==
    ASSUME RateTypeOK PROVE \A c \in Counters : \A t \in Clock : allowed[c][t] \in Nat
<1>1. allowed \in [Counters -> [Clock -> Nat]]
  BY DEF RateTypeOK
<1> QED
  BY <1>1

\* The moments at which nothing was let through do not count.
LEMMA FewerPasses ==
    ASSUME RateInv, NEW c \in Counters, NEW S \in SUBSET Clock, NEW T \in SUBSET Clock,
           \A t \in S : allowed[c][t] # 0 => t \in T
    PROVE  /\ IsFiniteSet(Passes(c, S)) /\ IsFiniteSet(Passes(c, T))
           /\ Passes(c, S) \subseteq Passes(c, T)
           /\ Cardinality(Passes(c, S)) \in Nat /\ Cardinality(Passes(c, T)) \in Nat
           /\ Cardinality(Passes(c, S)) <= Cardinality(Passes(c, T))
<1>1. Passes(c, S) \subseteq Passes(c, Clock) /\ Passes(c, T) \subseteq Passes(c, Clock)
  BY DEF Passes
<1>2. IsFiniteSet(Passes(c, S)) /\ IsFiniteSet(Passes(c, T))
  BY <1>1, FS_Subset DEF RateInv, Counted
<1>3. Passes(c, S) \subseteq Passes(c, T)
  <2> SUFFICES ASSUME NEW t \in S, NEW n \in 1..allowed[c][t] PROVE t \in T
    BY DEF Passes
  <2>1. t \in Clock /\ allowed[c][t] \in Nat
    BY PassesAreNumbers DEF RateInv
  <2> QED
    BY <2>1
<1> QED
  BY <1>2, <1>3, FS_Subset, FS_CardinalityType

\* Letting one through adds one to the moments that contain this one.
LEMMA OneMorePass ==
    ASSUME RateInv, NEW c \in Counters, NEW T \in SUBSET Clock,
           allowed' = [allowed EXCEPT ![c][time] = @ + 1]
    PROVE  /\ IsFiniteSet(Passes(c, T)')
           /\ time \notin T => Passes(c, T)' = Passes(c, T)
           /\ time \in T => Cardinality(Passes(c, T)') = Cardinality(Passes(c, T)) + 1
<1> DEFINE new == <<time, allowed[c][time] + 1>>
<1>1. /\ time \in Clock /\ allowed[c][time] \in Nat
      /\ \A t \in Clock : allowed[c][t] \in Nat
      /\ \A t \in Clock : allowed'[c][t] = IF t = time THEN allowed[c][t] + 1 ELSE allowed[c][t]
  <2>1. /\ time \in Clock /\ allowed \in [Counters -> [Clock -> Nat]]
        /\ \A t \in Clock : allowed[c][t] \in Nat
    BY PassesAreNumbers DEF RateInv, RateTypeOK
  <2> DEFINE calls == [allowed[c] EXCEPT ![time] = @ + 1]
  <2>2. allowed[c] \in [Clock -> Nat]
    BY <2>1
  <2>3. allowed' = [allowed EXCEPT ![c] = calls]
    OBVIOUS
  <2>4. \A t \in Clock : calls[t] = IF t = time THEN allowed[c][t] + 1 ELSE allowed[c][t]
    BY <2>2
  <2> HIDE DEF calls
  <2>5. allowed'[c] = calls
    BY <2>1, <2>3
  <2> QED
    BY <2>1, <2>4, <2>5
<1>2. ASSUME time \notin T PROVE Passes(c, T)' = Passes(c, T)
  BY <1>1, <1>2 DEF Passes
<1>3. ASSUME time \in T
      PROVE  Passes(c, T)' = Passes(c, T) \union {new} /\ new \notin Passes(c, T)
  <2>1. 1..(allowed[c][time] + 1) = (1..allowed[c][time]) \union {allowed[c][time] + 1}
    BY <1>1
  <2>2. \A t \in T : {t} \X (1..allowed'[c][t]) =
           IF t = time THEN ({t} \X (1..allowed[c][t])) \union {new} ELSE {t} \X (1..allowed[c][t])
    BY <1>1, <2>1
  <2>3. Passes(c, T)' = Passes(c, T) \union {new}
    BY <1>3, <2>2 DEF Passes
  <2>4. allowed[c][time] + 1 \notin 1..allowed[c][time]
    BY <1>1
  <2> QED
    BY <2>3, <2>4 DEF Passes
<1>4. IsFiniteSet(Passes(c, T))
  BY FewerPasses
<1> HIDE DEF new
<1> QED
  BY <1>2, <1>3, <1>4, FS_AddElement

\* A call under the limit, in the window that is open or in a new one.
LEMMA AllowCounts ==
    ASSUME RateInv, RateTypeOK', NEW c \in Counters, Allow(c)
    PROVE  Counted(c)'
<1> DEFINE M == MaxRequests[c[2]]
           W == Window[c[2]]
           s == startedAt[c]
<1> USE RateAssumption
<1>1. /\ c[2] \in LimitKeys /\ M \in Nat /\ W \in Nat \ {0}
      /\ time \in Clock /\ RateHorizon \in Nat /\ time # Unset /\ time \in Nat
      /\ count \in [Counters -> Nat] /\ allowed \in [Counters -> [Clock -> Nat]]
      /\ startedAt \in [Counters -> Clock \union {Unset}]
      /\ Counted(c) /\ time' = time /\ s \in Nat
  <2>1. RateTypeOK /\ Counted(c) /\ c[2] \in LimitKeys /\ time' = time /\ RateHorizon \in Nat
    BY DEF RateInv, Counters, Allow
  <2>2. M \in Nat /\ W \in Nat \ {0}
    BY <2>1
  <2>3. time # Unset /\ time \in Nat /\ s \in Nat
    BY <2>1 DEF RateTypeOK, Clock, Unset
  <2> QED
    BY <2>1, <2>2, <2>3 DEF RateTypeOK
<1> DEFINE more == allowed' = [allowed EXCEPT ![c][time] = @ + 1]
<1>2. /\ Clock \in SUBSET Clock /\ InWindow(c) \in SUBSET Clock /\ BeforeWindow(c) \in SUBSET Clock
      /\ InWindow(c)' \in SUBSET Clock /\ BeforeWindow(c)' \in SUBSET Clock
  BY DEF InWindow, BeforeWindow
<1>3. /\ startedAt'[c] = IF Fresh(c) THEN time ELSE s
      /\ \/ Used(c) >= M /\ count'[c] = Used(c) /\ allowed' = allowed
         \/ ~(Used(c) >= M) /\ count'[c] = Used(c) + 1 /\ more
  BY <1>1 DEF Allow
<1>4. Used(c) \in Nat /\ startedAt'[c] # Unset /\ startedAt'[c] \in Nat /\ startedAt'[c] <= time'
  BY <1>1, <1>3 DEF Used, Fresh, Counted
<1>5. /\ \A t \in Clock : allowed'[c][t] # 0 => allowed[c][t] # 0 \/ t = time
      /\ \A t \in Clock : t # time => allowed'[c][t] = allowed[c][t]
  BY <1>1, <1>3
<1>6. IsFiniteSet(Passes(c, Clock)')
  <2>1. CASE more
    BY <1>2, <2>1, OneMorePass
  <2>2. CASE allowed' = allowed
    BY <1>1, <2>2 DEF Passes, Counted
  <2> QED
    BY <1>3, <2>1, <2>2
<1>7. (\A t \in Clock : allowed[c][t] # 0 => t <= time)'
  BY <1>1, <1>5 DEF Counted
<1>10. allowed' = allowed => \A T : Passes(c, T)' = Passes(c, T)
  BY DEF Passes
<1>8. CASE ~Fresh(c)
  <2>1. /\ s # Unset /\ s <= time /\ time < s + W /\ startedAt'[c] = s /\ Used(c) = count[c]
    BY <1>1, <1>3, <1>8 DEF Fresh, Used, Counted
  <2>2. InWindow(c)' = InWindow(c) /\ BeforeWindow(c)' = BeforeWindow(c)
    BY <2>1 DEF InWindow, BeforeWindow
  <2>3. time \in InWindow(c) /\ time \notin BeforeWindow(c)
    BY <1>1, <2>1 DEF InWindow, BeforeWindow
  <2>4. count[c] <= M /\ Cardinality(Passes(c, InWindow(c))) = count[c]
        /\ Cardinality(Passes(c, BeforeWindow(c))) <= M
    BY <1>1, <2>1 DEF Counted
  <2>5. /\ Cardinality(Passes(c, InWindow(c))') = count'[c]
        /\ Cardinality(Passes(c, BeforeWindow(c))') <= M /\ count'[c] <= M
    <3>1. CASE more /\ count'[c] = count[c] + 1 /\ ~(count[c] >= M)
      <4>1. /\ \A T \in SUBSET Clock : time \notin T => Passes(c, T)' = Passes(c, T)
            /\ \A T \in SUBSET Clock :
                  time \in T => Cardinality(Passes(c, T)') = Cardinality(Passes(c, T)) + 1
        BY <3>1, OneMorePass
      <4> QED
        BY <1>1, <1>2, <2>2, <2>3, <2>4, <3>1, <4>1
    <3>2. CASE allowed' = allowed /\ count'[c] = count[c]
      BY <2>2, <2>4, <3>2 DEF Passes
    <3> QED
      BY <1>3, <2>1, <3>1, <3>2
  <2>6. (\A t \in InWindow(c) : allowed[c][t] # 0 => t < startedAt[c] + Window[c[2]])'
    BY <1>1, <1>5, <2>1, <2>2 DEF Counted, InWindow
  <2> QED
    BY <1>1, <1>4, <1>6, <1>7, <2>5, <2>6 DEF Counted
<1>9. CASE Fresh(c)
  <2>1. startedAt'[c] = time /\ Used(c) = 0
    BY <1>3, <1>9 DEF Used
  <2>2. /\ InWindow(c)' = {t \in Clock : time <= t}
        /\ BeforeWindow(c)' = {t \in Clock : t < time /\ time < t + W}
    BY <2>1 DEF InWindow, BeforeWindow
  <2>3. \A t \in InWindow(c)' : allowed[c][t] = 0
    <3> SUFFICES ASSUME NEW t \in Clock, time <= t, allowed[c][t] # 0 PROVE FALSE
      BY <2>2
    <3>1. t = time /\ s # Unset /\ s <= time
      BY <1>1 DEF Counted, Clock
    <3>2. time < s + W /\ s + W <= time
      BY <1>1, <1>9, <3>1 DEF Counted, InWindow, Fresh
    <3> QED
      BY <1>1, <3>2
  <2>4. Passes(c, InWindow(c)') = {}
    BY <2>3 DEF Passes
  <2>5. Cardinality(Passes(c, BeforeWindow(c)')) <= M
    <3>1. CASE s = Unset
      <4>1. Passes(c, BeforeWindow(c)') = {}
        <5>1. \A t \in BeforeWindow(c)' : allowed[c][t] = 0
          BY <1>1, <1>2, <3>1 DEF Counted
        <5> QED
          BY <5>1 DEF Passes
      <4> QED
        BY <1>1, <4>1, FS_EmptySet
    <3>2. CASE s # Unset
      <4>1. s + W <= time
        BY <1>1, <1>9, <3>2 DEF Fresh, Counted
      <4>2. \A t \in BeforeWindow(c)' : t \in InWindow(c)
        BY <1>1, <2>2, <4>1 DEF InWindow, Clock
      <4>3. /\ Cardinality(Passes(c, BeforeWindow(c)')) <= Cardinality(Passes(c, InWindow(c)))
            /\ Cardinality(Passes(c, BeforeWindow(c)')) \in Nat
        BY <1>2, <4>2, FewerPasses
      <4> QED
        BY <1>1, <3>2, <4>3 DEF Counted
    <3> QED
      BY <3>1, <3>2
  <2>6. time \in InWindow(c)' /\ time \notin BeforeWindow(c)'
    BY <1>1, <2>2
  <2>7. /\ Cardinality(Passes(c, InWindow(c))') = count'[c]
        /\ Cardinality(Passes(c, BeforeWindow(c))') <= M /\ count'[c] <= M
    <3>1. CASE more /\ count'[c] = 1 /\ ~(0 >= M)
      <4>1. /\ \A T \in SUBSET Clock : time \notin T => Passes(c, T)' = Passes(c, T)
            /\ \A T \in SUBSET Clock :
                  time \in T => Cardinality(Passes(c, T)') = Cardinality(Passes(c, T)) + 1
        BY <3>1, OneMorePass
      <4>2. Cardinality(Passes(c, InWindow(c)')) = 0
        BY <2>4, FS_EmptySet
      <4>3. Cardinality(Passes(c, InWindow(c))') = 1
        BY <1>2, <2>6, <4>1, <4>2
      <4>4. Passes(c, BeforeWindow(c))' = Passes(c, BeforeWindow(c)')
        BY <1>2, <2>6, <4>1
      <4> QED
        BY <1>1, <2>5, <3>1, <4>3, <4>4
    <3>2. CASE allowed' = allowed /\ count'[c] = 0
      <4>1. /\ Passes(c, InWindow(c))' = Passes(c, InWindow(c)')
            /\ Passes(c, BeforeWindow(c))' = Passes(c, BeforeWindow(c)')
        BY <1>10, <3>2
      <4>2. Cardinality(Passes(c, InWindow(c)')) = 0
        BY <2>4, FS_EmptySet
      <4> QED
        BY <1>1, <2>5, <3>2, <4>1, <4>2
    <3> QED
      BY <1>3, <2>1, <3>1, <3>2
  <2>8. (\A t \in InWindow(c) : allowed[c][t] # 0 => t < startedAt[c] + Window[c[2]])'
    <3> SUFFICES ASSUME NEW t \in InWindow(c)', allowed'[c][t] # 0 PROVE t < time + W
      BY <2>1
    <3>1. t = time
      BY <1>2, <1>5, <2>3
    <3> QED
      BY <1>1, <3>1
  <2> QED
    BY <1>1, <1>4, <1>6, <1>7, <2>7, <2>8 DEF Counted
<1> QED
  BY <1>8, <1>9

LEMMA RateTypesStep == RateTypeOK /\ [RateNext]_rateVars => RateTypeOK'
<1> SUFFICES ASSUME RateTypeOK, [RateNext]_rateVars PROVE RateTypeOK'
  OBVIOUS
<1> USE RateAssumption DEF RateTypeOK
<1>1. ASSUME NEW c \in Counters, Allow(c) PROVE RateTypeOK'
  <2>1. Used(c) \in Nat /\ time \in Clock /\ c[2] \in LimitKeys
    BY DEF Used, Counters
  <2>2. startedAt' \in [Counters -> Clock \union {Unset}] /\ time' = time
    BY <1>1, <2>1 DEF Allow
  <2>4. count' \in [Counters -> Nat]
    <3> HIDE DEF RateTypeOK
    <3>1. count' = [count EXCEPT ![c] = Used(c)] \/ count' = [count EXCEPT ![c] = Used(c) + 1]
      BY <1>1 DEF Allow
    <3>2. Used(c) + 1 \in Nat /\ count \in [Counters -> Nat]
      BY <2>1 DEF RateTypeOK
    <3> QED
      BY <2>1, <3>1, <3>2
  <2>3. allowed' \in [Counters -> [Clock -> Nat]]
    <3> HIDE DEF RateTypeOK
    <3>1. allowed' = allowed \/ allowed' = [allowed EXCEPT ![c][time] = @ + 1]
      BY <1>1 DEF Allow
    <3>2. /\ allowed \in [Counters -> [Clock -> Nat]] /\ allowed[c] \in [Clock -> Nat]
          /\ allowed[c][time] + 1 \in Nat
      BY <2>1, PassesAreNumbers DEF RateTypeOK
    <3>3. [allowed[c] EXCEPT ![time] = @ + 1] \in [Clock -> Nat]
      BY <2>1, <3>2
    <3> QED
      BY <3>1, <3>2, <3>3
  <2> QED
    BY <2>1, <2>2, <2>3, <2>4
<1>2. CASE RestartBot
  BY <1>2 DEF RestartBot, NoWindow, Zero, NoCalls
<1>3. CASE RateTick \/ UNCHANGED rateVars
  BY <1>3 DEF RateTick, rateVars, Clock
<1> QED
  BY <1>1, <1>2, <1>3 DEF RateNext

LEMMA CountedStays ==
    ASSUME RateTypeOK, NEW c \in Counters, Counted(c),
           startedAt'[c] = startedAt[c], count'[c] = count[c], allowed'[c] = allowed[c],
           time' \in Nat, time' >= time
    PROVE  Counted(c)'
<1>1. InWindow(c)' = InWindow(c) /\ BeforeWindow(c)' = BeforeWindow(c)
  BY DEF InWindow, BeforeWindow
<1>2. \A T : Passes(c, T)' = Passes(c, T)
  BY DEF Passes
<1>3. /\ Passes(c, Clock)' = Passes(c, Clock)
      /\ Passes(c, InWindow(c))' = Passes(c, InWindow(c))
      /\ Passes(c, BeforeWindow(c))' = Passes(c, BeforeWindow(c))
  BY <1>1, <1>2
<1>4. time \in Nat /\ Clock \subseteq Nat /\ startedAt[c] \in Nat
  BY RateAssumption DEF RateTypeOK, Clock, Unset
<1> QED
  BY <1>1, <1>3, <1>4 DEF Counted

LEMMA RateInvStep == RateInv /\ [RateNext]_rateVars => RateInv'
<1> SUFFICES ASSUME RateInv, [RateNext]_rateVars PROVE RateInv'
  OBVIOUS
<1>1. RateTypeOK /\ RateTypeOK' /\ \A c \in Counters : Counted(c)
  BY RateTypesStep DEF RateInv
<1> SUFFICES ASSUME NEW c \in Counters PROVE Counted(c)'
  BY <1>1 DEF RateInv
<1>2. CASE Allow(c)
  BY <1>1, <1>2, AllowCounts
<1>3. ASSUME NEW d \in Counters, d # c, Allow(d) PROVE Counted(c)'
  <2>1. /\ startedAt'[c] = startedAt[c] /\ count'[c] = count[c] /\ allowed'[c] = allowed[c]
        /\ time' = time /\ time \in Nat
    BY <1>1, <1>3 DEF Allow, RateTypeOK, Clock
  <2> QED
    BY <1>1, <2>1, CountedStays
<1>4. CASE RestartBot
  <2>1. /\ startedAt'[c] = Unset /\ \A t \in Clock : allowed'[c][t] = 0
    BY <1>4 DEF RestartBot, NoWindow, NoCalls
  <2>2. Passes(c, Clock)' = {}
    BY <2>1 DEF Passes
  <2> QED
    BY <2>1, <2>2, FS_EmptySet DEF Counted
<1>5. CASE RateTick
  <2>1. /\ UNCHANGED <<startedAt, count, allowed>> /\ time' = time + 1
        /\ time \in Nat
    BY <1>1, <1>5 DEF RateTick, RateTypeOK, Clock
  <2> QED
    BY <1>1, <2>1, CountedStays
<1>6. CASE UNCHANGED rateVars
  <2>1. UNCHANGED <<time, startedAt, count, allowed>> /\ time \in Nat
    BY <1>1, <1>6 DEF rateVars, RateTypeOK, Clock
  <2> QED
    BY <1>1, <2>1, CountedStays
<1> QED
  BY <1>2, <1>3, <1>4, <1>5, <1>6 DEF RateNext

LEMMA RateInvHolds == RateSpec => []RateInv
<1>1. RateInit => RateInv
  <2> SUFFICES ASSUME RateInit PROVE RateInv
    OBVIOUS
  <2>1. RateTypeOK
    BY RateAssumption DEF RateInit, RateTypeOK, NoWindow, Zero, NoCalls, Clock
  <2>2. ASSUME NEW c \in Counters PROVE Counted(c)
    <3>1. startedAt[c] = Unset /\ \A t \in Clock : allowed[c][t] = 0
      BY DEF RateInit, NoWindow, NoCalls
    <3>2. Passes(c, Clock) = {}
      BY <3>1 DEF Passes
    <3> QED
      BY <3>1, <3>2, FS_EmptySet DEF Counted
  <2> QED
    BY <2>1, <2>2 DEF RateInv
<1> QED
  BY <1>1, RateInvStep, PTL DEF RateSpec

\* The limiter's state has its types.
THEOREM RateTypesCorrect == RateSpec => []RateTypeOK
<1>1. RateInv => RateTypeOK
  BY DEF RateInv
<1> QED
  BY <1>1, RateInvHolds, PTL

LEMMA TwoWindowsAtMost == RateInv => LimitedButNotStarved
<1> SUFFICES ASSUME RateInv, NEW c \in Counters
             PROVE  /\ Cardinality(Recent(c)) <= 2 * MaxRequests[c[2]]
                    /\ Used(c) >= MaxRequests[c[2]] => Cardinality(Recent(c)) >= MaxRequests[c[2]]
  BY DEF LimitedButNotStarved
<1> DEFINE M == MaxRequests[c[2]]
           W == Window[c[2]]
           s == startedAt[c]
           last == {t \in 0..time : time < t + Window[c[2]]}
<1>1. /\ M \in Nat /\ W \in Nat /\ time \in Nat /\ s \in Nat
      /\ count[c] \in Nat /\ Counted(c) /\ Clock \subseteq Nat
      /\ last \in SUBSET Clock /\ InWindow(c) \in SUBSET Clock /\ BeforeWindow(c) \in SUBSET Clock
  BY RateAssumption DEF RateInv, RateTypeOK, Counters, Clock, Unset, InWindow, BeforeWindow
<1>2. /\ IsFiniteSet(Passes(c, last)) /\ Cardinality(Passes(c, last)) \in Nat
      /\ IsFiniteSet(Passes(c, InWindow(c))) /\ IsFiniteSet(Passes(c, BeforeWindow(c)))
      /\ Cardinality(Passes(c, InWindow(c))) \in Nat /\ Cardinality(Passes(c, BeforeWindow(c))) \in Nat
  BY <1>1, FewerPasses
<1>3. CASE s = Unset
  <2>1. Passes(c, last) = {}
    <3>1. \A t \in last : allowed[c][t] = 0
      BY <1>1, <1>3 DEF Counted
    <3> HIDE DEF last
    <3> QED
      BY <3>1 DEF Passes
  <2>2. Used(c) = 0
    BY <1>3 DEF Used, Fresh
  <2> QED
    <3>1. Recent(c) = {}
      BY <2>1 DEF Recent
    <3>2. Cardinality(Recent(c)) = 0
      BY <3>1, FS_EmptySet
    <3> HIDE DEF last
    <3> QED
      BY <1>1, <2>2, <3>2
<1>4. CASE s # Unset
  <2>1. Passes(c, last) \subseteq Passes(c, InWindow(c)) \union Passes(c, BeforeWindow(c))
    <3>1. \A t \in last : t \in InWindow(c) \/ t \in BeforeWindow(c)
      BY <1>1, <1>4 DEF InWindow, BeforeWindow, Counted
    <3> QED
      BY <3>1 DEF Passes
  <2>2. /\ IsFiniteSet(Passes(c, InWindow(c)) \union Passes(c, BeforeWindow(c)))
        /\ Cardinality(Passes(c, InWindow(c)) \union Passes(c, BeforeWindow(c)))
             <= Cardinality(Passes(c, InWindow(c))) + Cardinality(Passes(c, BeforeWindow(c)))
    <3> DEFINE A == Passes(c, InWindow(c))
               B == Passes(c, BeforeWindow(c))
    <3> HIDE DEF A, B
    <3>1. IsFiniteSet(A \union B)
          /\ Cardinality(A \union B) = Cardinality(A) + Cardinality(B) - Cardinality(A \cap B)
      BY <1>2, FS_Union DEF A, B
    <3>2. Cardinality(A \cap B) \in Nat
      BY <1>2, FS_Intersection, FS_CardinalityType DEF A, B
    <3> QED
      BY <1>2, <3>1, <3>2 DEF A, B
  <2>3. Cardinality(Passes(c, last)) <= 2 * M
    <3>1. Cardinality(Passes(c, last)) <=
             Cardinality(Passes(c, InWindow(c)) \union Passes(c, BeforeWindow(c)))
      BY <2>1, <2>2, FS_Subset
    <3>2. Cardinality(Passes(c, InWindow(c)) \union Passes(c, BeforeWindow(c))) \in Nat
      BY <2>2, FS_CardinalityType
    <3> QED
      BY <1>1, <1>2, <1>4, <2>2, <3>1, <3>2 DEF Counted
  <2>4. ASSUME Used(c) >= M PROVE Cardinality(Passes(c, last)) >= M
    <3>1. CASE Fresh(c)
      BY <1>1, <1>2, <2>4, <3>1 DEF Used
    <3>2. CASE ~Fresh(c)
      <4>1. time < s + W /\ count[c] >= M
        BY <1>1, <1>4, <2>4, <3>2 DEF Used, Fresh, Counted
      <4>2. \A t \in InWindow(c) : allowed[c][t] # 0 => t \in last
        BY <1>1, <4>1 DEF Counted, InWindow
      <4>3. Cardinality(Passes(c, InWindow(c))) <= Cardinality(Passes(c, last))
        BY <1>1, <4>2, FewerPasses
      <4> QED
        BY <1>1, <1>2, <1>4, <4>1, <4>3 DEF Counted
    <3> QED
      BY <3>1, <3>2
  <2> QED
    BY <2>3, <2>4 DEF Recent
<1> QED
  BY <1>3, <1>4

\* Two windows that touch let through twice the limit within one stretch and no
\* more, and nobody is refused who has not used the limit up in the last one.
THEOREM LimitsHold == RateSpec => []LimitedButNotStarved
  BY RateInvHolds, TwoWindowsAtMost, PTL

-----------------------------------------------------------------------------
(* The guards against repeated updates. *)

Entries == [key : DedupKeys, at : 0..DedupHorizon]

\* A memory that matches what was said and asked: one entry of a key, with the
\* time the key was called new, in the order in which the keys were mentioned.
Listed(s, seen, ment, now) ==
    /\ s \in Seq(Entries)
    /\ \A i, j \in 1..Len(s) : s[i].key = s[j].key => i = j
    /\ \A i \in 1..Len(s) : /\ seen[s[i].key] = s[i].at
                            /\ s[i].at <= ment[s[i].key] /\ ment[s[i].key] <= now
    /\ \A i, j \in 1..Len(s) : i < j => ment[s[i].key] <= ment[s[j].key]

\* What no guard forgets: the memory has every key it called new within the
\* time to live, but for those it had no room for, and the table until the
\* cleanup's clock is past the time to live. No row outlives the last question.
RemembersRecent ==
    \A k \in DedupKeys : /\ firstSeen["memory"][k] # Never
                         /\ clock < firstSeen["memory"][k] + Ttl
                         /\ k \notin overflowed
                         => k \in Keys(remembered)
RowsLast ==
    \A k \in DedupKeys : /\ firstSeen["table"][k] # Never
                         /\ clock + ClockSkew < firstSeen["table"][k] + Ttl
                         => expires[k] = firstSeen["table"][k] + Ttl
RowsEnd == \A k \in DedupKeys : expires[k] # 0 => /\ mentioned[k] # Never
                                                  /\ expires[k] <= mentioned[k] + Ttl
AskedBefore == \A k \in DedupKeys : mentioned[k] # Never => mentioned[k] <= clock
DedupInv ==
    /\ DedupTypeOK
    /\ Listed(remembered, firstSeen["memory"], mentioned, clock)
    /\ RemembersRecent /\ RowsLast /\ RowsEnd /\ AskedBefore

\* The positions of the entries that are popped from the front are the first
\* ones, up to the first entry that is not expired.
LEMMA FrontIsFront ==
    ASSUME NEW s \in Seq(Entries)
    PROVE  /\ Front(s) \in 0..Len(s)
           /\ \A i \in 1..Front(s) : Expired(s[i])
           /\ Front(s) < Len(s) => ~Expired(s[Front(s) + 1])
<1> DEFINE D == {n \in 1..Len(s) : \A i \in 1..n : Expired(s[i])}
           m == Cardinality(D)
<1>1. Len(s) \in Nat /\ D \subseteq 1..Len(s)
  BY LenProperties
<1>2. /\ IsFiniteSet(1..Len(s)) /\ Cardinality(1..Len(s)) = Len(s)
      /\ \A n \in Nat : IsFiniteSet(1..n) /\ Cardinality(1..n) = n
  <2>1. ASSUME NEW n \in Nat PROVE IsFiniteSet(1..n) /\ Cardinality(1..n) = n
    <3>1. /\ IsFiniteSet(1..n)
          /\ Cardinality(1..n) = IF 1 <= n THEN n - 1 + 1 ELSE 0
      BY FS_Interval
    <3> QED
      BY <3>1
  <2> QED
    BY <1>1, <2>1
<1>3. IsFiniteSet(D) /\ m \in Nat /\ m <= Len(s)
  BY <1>1, <1>2, FS_Subset, FS_CardinalityType
<1>4. \A n \in D : 1..n \subseteq D
  BY <1>1
<1>5. ASSUME NEW n \in D PROVE n <= m
  <2>1. n \in Nat /\ 1..n \subseteq D
    BY <1>1, <1>4, <1>5
  <2>2. Cardinality(1..n) <= m
    BY <1>3, <2>1, FS_Subset
  <2> QED
    BY <1>2, <2>1, <2>2
<1>6. ASSUME NEW n \in 1..m PROVE n \in D
  <2> SUFFICES ASSUME n \notin D PROVE FALSE
    OBVIOUS
  <2>1. n \in 1..Len(s) /\ n - 1 \in Nat
    BY <1>1, <1>3
  <2>2. D \subseteq 1..(n - 1)
    <3> SUFFICES ASSUME NEW d \in D, ~(d < n) PROVE FALSE
      BY <1>1, <2>1
    <3>1. n \in 1..d
      BY <1>1, <2>1
    <3> QED
      BY <1>4, <3>1
  <2>3. m <= n - 1
    BY <1>2, <2>1, <2>2, FS_Subset
  <2> QED
    BY <1>3, <2>1, <2>3
<1> DEFINE P(n) == /\ \A i \in 1..n : Expired(s[i])
                   /\ n < Len(s) => ~Expired(s[n + 1])
<1>7. P(m)
  <2>1. \A i \in 1..m : Expired(s[i])
    BY <1>1, <1>3, <1>6
  <2>2. ASSUME m < Len(s), Expired(s[m + 1]) PROVE FALSE
    <3> HIDE DEF m
    <3>1. m + 1 \in 1..Len(s) /\ \A i \in 1..(m + 1) : i \in 1..m \/ i = m + 1
      BY <1>1, <1>3, <2>2
    <3>2. m + 1 \in D
      BY <2>1, <2>2, <3>1
    <3> QED
      BY <1>3, <1>5, <3>2
  <2> QED
    BY <2>1, <2>2
<1>8. m \in 0..Len(s)
  BY <1>1, <1>3
<1> HIDE DEF m
<1>9. \E n \in 0..Len(s) : P(n)
  BY <1>7, <1>8
<1> QED
  BY <1>9 DEF Front

LEMMA ListedTypes ==
    ASSUME NEW s, NEW seen, NEW ment, NEW now, Listed(s, seen, ment, now)
    PROVE  /\ s \in Seq(Entries) /\ Len(s) \in Nat
           /\ \A i \in 1..Len(s) : /\ s[i] \in Entries /\ s[i].key \in DedupKeys
                                   /\ s[i].at \in Nat
<1>1. s \in Seq(Entries) /\ Len(s) \in Nat
  BY LenProperties DEF Listed
<1>2. \A i \in 1..Len(s) : s[i] \in Entries
  BY <1>1, ElementOfSeq
<1> QED
  BY <1>1, <1>2, DedupAssumption DEF Entries

\* Entries that go from the front leave the rest as it is.
LEMMA RestWell ==
    ASSUME NEW s, NEW seen, NEW ment, NEW now, Listed(s, seen, ment, now),
           NEW r \in Seq(Entries), NEW d \in Nat,
           \A i \in 1..Len(r) : d + i \in 1..Len(s) /\ r[i] = s[d + i]
    PROVE  Listed(r, seen, ment, now)
<1>1. Len(r) \in Nat
  BY LenProperties
<1>2. ASSUME NEW i \in 1..Len(r), NEW j \in 1..Len(r)
      PROVE  /\ r[i].key = r[j].key => i = j
             /\ i < j => ment[r[i].key] <= ment[r[j].key]
  <2> DEFINE a == d + i
             b == d + j
  <2>1. /\ a \in 1..Len(s) /\ b \in 1..Len(s) /\ r[i] = s[a] /\ r[j] = s[b]
        /\ a = b => i = j
        /\ i < j => a < b
    BY <1>1
  <2> HIDE DEF a, b
  <2> QED
    BY <2>1 DEF Listed
<1>3. ASSUME NEW i \in 1..Len(r)
      PROVE  /\ seen[r[i].key] = r[i].at
             /\ r[i].at <= ment[r[i].key] /\ ment[r[i].key] <= now
  <2>1. d + i \in 1..Len(s) /\ r[i] = s[d + i]
    OBVIOUS
  <2> QED
    BY <2>1 DEF Listed
<1> QED
  BY <1>2, <1>3 DEF Listed

\* What is left after the expired entries went.
LEMMA EvictedWell ==
    ASSUME NEW seen, NEW ment, NEW s, Listed(s, seen, ment, clock)
    PROVE  /\ Listed(EvictExpired(s), seen, ment, clock)
           /\ Len(EvictExpired(s)) = Len(s) - Front(s)
           /\ \A i \in 1..Len(EvictExpired(s)) : EvictExpired(s)[i] = s[Front(s) + i]
           /\ \A i \in 1..Len(s) : ~Expired(s[i]) => s[i].key \in Keys(EvictExpired(s))
           /\ Keys(EvictExpired(s)) \subseteq Keys(s)
<1> DEFINE f == Front(s)
           live == EvictExpired(s)
<1>1. /\ s \in Seq(Entries) /\ Len(s) \in Nat
      /\ \A i \in 1..Len(s) : s[i] \in Entries
  BY ListedTypes
<1>2. f \in 0..Len(s) /\ \A i \in 1..f : Expired(s[i])
  BY <1>1, FrontIsFront
<1> HIDE DEF f
<1>3. /\ live = SubSeq(s, f + 1, Len(s)) /\ f + 1 \in Int /\ Len(s) \in Int
      /\ \A i \in f + 1 .. Len(s) : s[i] \in Entries
  BY <1>1, <1>2 DEF EvictExpired, f
<1> HIDE DEF live
<1>4. /\ live \in Seq(Entries)
      /\ Len(live) = IF f + 1 <= Len(s) THEN Len(s) - (f + 1) + 1 ELSE 0
      /\ \A i \in 1 .. Len(s) - (f + 1) + 1 : live[i] = s[f + 1 + i - 1]
  BY <1>3, SubSeqProperties
<1>5. Len(live) = Len(s) - f
  BY <1>1, <1>2, <1>4
<1>6. \A i \in 1..Len(live) : f + i \in 1..Len(s) /\ live[i] = s[f + i]
  <2> SUFFICES ASSUME NEW i \in 1..Len(live) PROVE f + i \in 1..Len(s) /\ live[i] = s[f + i]
    OBVIOUS
  <2>1. i \in 1 .. Len(s) - (f + 1) + 1 /\ f + 1 + i - 1 = f + i /\ f + i \in 1..Len(s)
    BY <1>1, <1>2, <1>5
  <2> QED
    BY <1>4, <2>1
<1>7. Listed(live, seen, ment, clock)
  <2>1. f \in Nat
    BY <1>1, <1>2
  <2> QED
    BY <1>4, <1>6, <2>1, RestWell
<1>8. ASSUME NEW i \in 1..Len(s), ~Expired(s[i]) PROVE s[i].key \in Keys(live)
  <2>1. i \notin 1..f /\ i - f \in 1..Len(live) /\ f + (i - f) = i
    BY <1>1, <1>2, <1>5, <1>8
  <2>2. live[i - f] = s[i]
    BY <1>6, <2>1
  <2> QED
    BY <2>1, <2>2 DEF Keys
<1>9. Keys(live) \subseteq Keys(s)
  BY <1>6 DEF Keys
<1> QED
  BY <1>5, <1>6, <1>7, <1>8, <1>9 DEF live, f

Grown(s, k, now) == Append(s, [key |-> k, at |-> now])
Noted(f, k, now) == [f EXCEPT ![k] = now]
IsNew(s, seen, ment, now, k) ==
    /\ seen \in [DedupKeys -> 0..Never] /\ ment \in [DedupKeys -> 0..Never]
    /\ now \in 0..DedupHorizon /\ Listed(s, seen, ment, now)
    /\ k \in DedupKeys /\ k \notin Keys(s)
LEMMA AppendedWell ==
    ASSUME NEW s, NEW seen, NEW ment, NEW now, NEW k, IsNew(s, seen, ment, now, k)
    PROVE  /\ Listed(Grown(s, k, now), Noted(seen, k, now), Noted(ment, k, now), now)
           /\ Len(Grown(s, k, now)) = Len(s) + 1
           /\ Grown(s, k, now)[Len(s) + 1].key = k
           /\ Keys(Grown(s, k, now)) = Keys(s) \union {k}
<1> USE DEF IsNew
<1> DEFINE e == [key |-> k, at |-> now]
           g == Append(s, e)
           seen2 == [seen EXCEPT ![k] = now]
           ment2 == [ment EXCEPT ![k] = now]
<1>1. /\ s \in Seq(Entries) /\ Len(s) \in Nat /\ now \in Nat
      /\ \A i \in 1..Len(s) : /\ s[i] \in Entries /\ s[i].key \in DedupKeys
                              /\ s[i].at \in Nat
  BY ListedTypes, DedupAssumption
<1>2. e \in Entries /\ e.key = k /\ e.at = now
  BY DEF Entries
<1> HIDE DEF e
<1>3. /\ g \in Seq(Entries) /\ Len(g) = Len(s) + 1 /\ g[Len(s) + 1] = e
      /\ \A i \in 1..Len(s) : g[i] = s[i]
  BY <1>1, <1>2, AppendProperties
<1>4. \A i \in 1..Len(s) : s[i].key # k
  BY DEF Keys
<1>5. /\ seen2[k] = now /\ ment2[k] = now
      /\ \A l \in DedupKeys \ {k} : seen2[l] = seen[l] /\ ment2[l] = ment[l]
  OBVIOUS
<1> HIDE DEF g, seen2, ment2
<1>6. 1..Len(g) = (1..Len(s)) \union {Len(s) + 1}
  BY <1>1, <1>3
<1>7. /\ \A i \in 1..Len(s) : /\ g[i].key = s[i].key /\ g[i].at = s[i].at /\ g[i].key # k
                              /\ seen2[s[i].key] = seen[s[i].key] /\ ment2[s[i].key] = ment[s[i].key]
      /\ g[Len(s) + 1].key = k /\ g[Len(s) + 1].at = now
  BY <1>1, <1>2, <1>3, <1>4, <1>5
<1>8. Listed(g, seen2, ment2, now)
  <2>1. \A i, j \in 1..Len(g) : g[i].key = g[j].key => i = j
    BY <1>6, <1>7 DEF Listed
  <2>2. \A i \in 1..Len(g) : /\ seen2[g[i].key] = g[i].at
                             /\ g[i].at <= ment2[g[i].key] /\ ment2[g[i].key] <= now
    <3> SUFFICES ASSUME NEW i \in 1..Len(g)
                 PROVE  /\ seen2[g[i].key] = g[i].at
                        /\ g[i].at <= ment2[g[i].key] /\ ment2[g[i].key] <= now
      OBVIOUS
    <3>1. CASE i \in 1..Len(s)
      <4>1. /\ seen[s[i].key] = s[i].at
            /\ s[i].at <= ment[s[i].key] /\ ment[s[i].key] <= now
        BY <3>1 DEF Listed
      <4> QED
        BY <1>7, <3>1, <4>1
    <3>2. CASE i = Len(s) + 1
      BY <1>1, <1>5, <1>7, <3>2
    <3> QED
      BY <1>6, <3>1, <3>2
  <2>3. \A i, j \in 1..Len(g) : i < j => ment2[g[i].key] <= ment2[g[j].key]
    <3> SUFFICES ASSUME NEW i \in 1..Len(g), NEW j \in 1..Len(g), i < j
                 PROVE  ment2[g[i].key] <= ment2[g[j].key]
      OBVIOUS
    <3>1. i \in 1..Len(s)
      BY <1>1, <1>3, <1>6
    <3>2. CASE j \in 1..Len(s)
      BY <1>7, <3>1, <3>2 DEF Listed
    <3>3. CASE j = Len(s) + 1
      BY <1>5, <1>7, <2>2, <3>1, <3>3 DEF Listed
    <3> QED
      BY <1>6, <3>2, <3>3
  <2> QED
    BY <1>3, <2>1, <2>2, <2>3 DEF Listed
<1>9. Keys(g) = Keys(s) \union {k}
  <2>1. \A i \in 1..Len(g) : g[i].key \in Keys(s) \union {k}
    BY <1>6, <1>7 DEF Keys
  <2>2. k \in Keys(g)
    <3>1. Len(s) + 1 \in 1..Len(g)
      BY <1>6
    <3> QED
      BY <1>7, <3>1 DEF Keys
  <2>3. Keys(s) \subseteq Keys(g)
    BY <1>6, <1>7 DEF Keys
  <2>4. Keys(g) \subseteq Keys(s) \union {k}
    BY <2>1 DEF Keys
  <2> QED
    BY <2>2, <2>3, <2>4
<1> QED
  BY <1>3, <1>7, <1>8, <1>9 DEF Noted, Grown, e, g, seen2, ment2

LEMMA TailWell ==
    ASSUME NEW s, NEW seen, NEW ment, NEW now, Listed(s, seen, ment, now), Len(s) > 0
    PROVE  /\ Listed(Tail(s), seen, ment, now)
           /\ Len(Tail(s)) = Len(s) - 1
           /\ \A i \in 1..Len(Tail(s)) : Tail(s)[i] = s[i + 1]
<1> DEFINE r == Tail(s)
<1>1. s \in Seq(Entries) /\ Len(s) \in Nat /\ s # <<>>
  BY ListedTypes, EmptySeq
<1>2. /\ r \in Seq(Entries) /\ Len(r) = Len(s) - 1
      /\ \A i \in 1..Len(r) : r[i] = s[i + 1]
  BY <1>1, HeadTailProperties
<1> HIDE DEF r
<1>3. \A i \in 1..Len(r) : i + 1 \in 1..Len(s)
  BY <1>1, <1>2
<1>4. Listed(r, seen, ment, now)
  <2>1. PICK d \in Nat : d = 1
    OBVIOUS
  <2>2. \A i \in 1..Len(r) : d + i \in 1..Len(s) /\ r[i] = s[d + i]
    <3>1. \A i \in 1..Len(r) : d + i = i + 1
      BY <1>1, <1>2, <2>1
    <3> QED
      BY <1>2, <1>3, <3>1
  <2> QED
    BY <1>2, <2>2, RestWell
<1> QED
  BY <1>2, <1>4 DEF r

\* A repeated key moves behind the others and keeps its time.
LEMMA RepeatedWell ==
    ASSUME NEW s, NEW seen, NEW ment \in [DedupKeys -> 0..Never],
           NEW now \in 0..DedupHorizon, Listed(s, seen, ment, now),
           NEW k \in DedupKeys, k \in Keys(s)
    PROVE  /\ Listed(Repeated(s, k), seen, [ment EXCEPT ![k] = now], now)
           /\ Keys(s) \subseteq Keys(Repeated(s, k))
<1> DEFINE p == Position(s, k)
           n == Len(s)
           r == Repeated(s, k)
           ment2 == [ment EXCEPT ![k] = now]
           \* Where an entry comes from, and where it goes.
           from(i) == IF i < p THEN i ELSE IF i < n THEN i + 1 ELSE p
           to(i) == IF i < p THEN i ELSE IF i = p THEN n ELSE i - 1
<1>1. /\ s \in Seq(Entries) /\ n \in Nat /\ now \in Nat
      /\ \A i \in 1..n : /\ s[i] \in Entries /\ s[i].key \in DedupKeys
                         /\ s[i].at \in Nat
  BY ListedTypes, DedupAssumption
<1>2. p \in 1..n /\ s[p].key = k
  <2>1. \E i \in 1..n : s[i].key = k
    BY DEF Keys
  <2> QED
    BY <2>1 DEF Position
<1>3. r = [i \in 1..n |-> s[from(i)]]
  BY DEF Repeated
<1>4. /\ ment2[k] = now
      /\ \A l \in DedupKeys \ {k} : ment2[l] = ment[l]
  OBVIOUS
<1> HIDE DEF p, r, ment2
<1>5. \A i \in 1..n : from(i) \in 1..n
  BY <1>1, <1>2
<1>6. r \in Seq(Entries) /\ Len(r) = n /\ \A i \in 1..n : r[i] = s[from(i)]
  <2>1. \A i \in 1..n : s[from(i)] \in Entries
    BY <1>1, <1>5
  <2>2. r \in [1..n -> Entries]
    BY <1>3, <2>1
  <2>3. r \in Seq(Entries) /\ Len(r) = n
    BY <1>1, <1>3, <2>1, IsASeq
  <2> QED
    BY <1>3, <2>3
<1>7. /\ \A i, j \in 1..n : from(i) = from(j) => i = j
      /\ \A i, j \in 1..n : i < j /\ j < n => from(i) < from(j)
      /\ \A i \in 1..n : i < n <=> from(i) # p
      /\ \A i \in 1..n : to(i) \in 1..n /\ from(to(i)) = i
  BY <1>1, <1>2
<1> HIDE DEF from, to
<1>8. \A i \in 1..n : i # p => s[i].key # k
  BY <1>2 DEF Listed
<1>9. Listed(r, seen, ment2, now)
  <2>1. ASSUME NEW i \in 1..n, NEW j \in 1..n, r[i].key = r[j].key PROVE i = j
    <3>1. /\ from(i) \in 1..n /\ from(j) \in 1..n
          /\ s[from(i)].key = s[from(j)].key
      BY <1>5, <1>6, <2>1
    <3>2. from(i) = from(j)
      BY <3>1 DEF Listed
    <3> QED
      BY <1>7, <3>2
  <2>2. ASSUME NEW i \in 1..n
        PROVE  /\ seen[r[i].key] = r[i].at
               /\ r[i].at <= ment2[r[i].key] /\ ment2[r[i].key] <= now
    <3>1. /\ r[i] = s[from(i)] /\ from(i) \in 1..n
          /\ s[from(i)].key \in DedupKeys /\ s[from(i)].at \in Nat
      BY <1>1, <1>5, <1>6
    <3>2. /\ seen[r[i].key] = r[i].at
          /\ r[i].at <= ment[r[i].key] /\ ment[r[i].key] <= now
      BY <3>1 DEF Listed
    <3>3. CASE r[i].key = k
      BY <1>1, <1>4, <3>1, <3>2, <3>3, DedupAssumption DEF Never
    <3>4. CASE r[i].key # k
      BY <1>4, <3>1, <3>2, <3>4
    <3> QED
      BY <3>3, <3>4
  <2>3. ASSUME NEW i \in 1..n, NEW j \in 1..n, i < j
        PROVE  ment2[r[i].key] <= ment2[r[j].key]
    <3>1. CASE j < n
      <4>1. /\ r[i].key # k /\ r[j].key # k /\ from(i) < from(j)
            /\ r[i].key \in DedupKeys /\ r[j].key \in DedupKeys
        <5>1. from(i) < from(j) /\ i < n
          BY <1>1, <1>7, <2>3, <3>1
        <5>2. from(i) # p /\ from(j) # p /\ from(i) \in 1..n /\ from(j) \in 1..n
          BY <1>5, <1>7, <3>1, <5>1
        <5> QED
          BY <1>1, <1>6, <1>8, <5>1, <5>2
      <4>2. ment[r[i].key] <= ment[r[j].key]
        BY <1>5, <1>6, <4>1 DEF Listed
      <4> QED
        BY <1>4, <4>1, <4>2
    <3>2. CASE j = n
      <4>1. from(j) = p
        <5>1. ~(j < n)
          BY <1>1, <3>2
        <5> QED
          BY <1>7, <5>1
      <4>2. r[j].key = k
        BY <1>2, <1>6, <4>1
      <4> QED
        BY <1>4, <2>2, <4>2
    <3> QED
      BY <1>1, <3>1, <3>2
  <2> QED
    BY <1>6, <2>1, <2>2, <2>3 DEF Listed
<1>10. Keys(s) \subseteq Keys(r)
  <2> SUFFICES ASSUME NEW i \in 1..n PROVE s[i].key \in Keys(r)
    BY DEF Keys
  <2>1. to(i) \in 1..n /\ r[to(i)] = s[i]
    BY <1>6, <1>7
  <2> QED
    BY <1>6, <2>1 DEF Keys
<1> QED
  BY <1>9, <1>10 DEF r, ment2

-----------------------------------------------------------------------------
(* A question to both guards. *)

LEMMA LiveMemory ==
    ASSUME DedupInv
    PROVE  LET live == EvictExpired(remembered) IN
           /\ Listed(live, firstSeen["memory"], mentioned, clock)
           /\ \A k \in DedupKeys : /\ firstSeen["memory"][k] # Never
                                   /\ clock < firstSeen["memory"][k] + Ttl
                                   /\ k \notin overflowed
                                   => k \in Keys(live)
<1> DEFINE s == remembered
           live == EvictExpired(s)
<1>1. Listed(s, firstSeen["memory"], mentioned, clock)
  BY DEF DedupInv
<1>2. /\ Listed(live, firstSeen["memory"], mentioned, clock)
      /\ \A i \in 1..Len(s) : ~Expired(s[i]) => s[i].key \in Keys(live)
  BY <1>1, EvictedWell
<1>3. ASSUME NEW k \in DedupKeys, firstSeen["memory"][k] # Never,
             clock < firstSeen["memory"][k] + Ttl, k \notin overflowed
      PROVE  k \in Keys(live)
  <2>1. PICK i \in 1..Len(s) : s[i].key = k
    BY <1>3 DEF DedupInv, RemembersRecent, Keys
  <2>2. s[i].at = firstSeen["memory"][k]
    BY <1>1, <2>1 DEF Listed
  <2>3. clock \in Nat /\ Ttl \in Nat /\ firstSeen["memory"][k] \in Nat
    BY DedupAssumption DEF DedupInv, DedupTypeOK, Guards, Never
  <2>4. ~Expired(s[i])
    BY <1>3, <2>2, <2>3 DEF Expired
  <2> QED
    BY <1>2, <2>1, <2>4
<1> QED
  BY <1>2, <1>3

\* The memory after a question: a new key goes to the end and the oldest makes
\* room for it, a known one moves to the end.
LEMMA AskedMemory ==
    ASSUME DedupInv, NEW k \in DedupKeys, Ask(k)
    PROVE  /\ Listed(remembered, firstSeen["memory"], mentioned, clock)'
           /\ RemembersRecent'
<1> DEFINE live == EvictExpired(remembered)
           grown == Grown(live, k, clock)
           seen == firstSeen["memory"]
<1>1. /\ clock \in 0..DedupHorizon /\ clock \in Nat /\ Ttl \in Nat \ {0} /\ MaxEntries \in Nat \ {0}
      /\ seen \in [DedupKeys -> 0..Never] /\ mentioned \in [DedupKeys -> 0..Never]
      /\ firstSeen \in [Guards -> [DedupKeys -> 0..Never]]
      /\ clock # Never
  BY DedupAssumption DEF DedupInv, DedupTypeOK, Guards, Never
<1>2. /\ Listed(live, seen, mentioned, clock)
      /\ \A l \in DedupKeys : /\ seen[l] # Never
                              /\ clock < seen[l] + Ttl
                              /\ l \notin overflowed
                              => l \in Keys(live)
  BY LiveMemory
<1>3. mentioned' = [mentioned EXCEPT ![k] = clock] /\ clock' = clock
  BY DEF Ask
<1>4. CASE FirstInMemory(k)
  <2>1. k \notin Keys(live)
    BY <1>4 DEF FirstInMemory
  <2>2. /\ remembered' = Remember(live, k)
        /\ overflowed' = (overflowed \ {k}) \union (Keys(live) \ Keys(Remember(live, k)))
    BY <1>4 DEF Ask
  <2>3. firstSeen'["memory"] = [seen EXCEPT ![k] = clock]
    BY <1>4 DEF Ask, Guards
  <2> HIDE DEF live
  <2>4. /\ Listed(grown, Noted(seen, k, clock), Noted(mentioned, k, clock), clock)
        /\ Len(grown) = Len(live) + 1 /\ grown[Len(live) + 1].key = k
        /\ Keys(grown) = Keys(live) \union {k}
    <3>1. IsNew(live, seen, mentioned, clock, k)
      BY <1>1, <1>2, <2>1 DEF IsNew
    <3> QED
      BY <3>1, AppendedWell
  <2>5. remembered' = IF Len(grown) > MaxEntries THEN Tail(grown) ELSE grown
    BY <2>2 DEF Remember, Grown
  <2>6. Len(live) \in Nat
    BY <1>2, ListedTypes
  <2> HIDE DEF grown
  <2>7. /\ Listed(remembered', Noted(seen, k, clock), Noted(mentioned, k, clock), clock)
        /\ k \in Keys(remembered')
    <3>1. CASE Len(grown) > MaxEntries
      <4>1. /\ Listed(Tail(grown), Noted(seen, k, clock), Noted(mentioned, k, clock), clock)
            /\ Len(Tail(grown)) = Len(grown) - 1
            /\ \A i \in 1..Len(Tail(grown)) : Tail(grown)[i] = grown[i + 1]
        BY <1>1, <2>4, <2>6, <3>1, TailWell
      <4>2. Len(live) \in 1..Len(Tail(grown)) /\ Tail(grown)[Len(live)].key = k
        BY <1>1, <2>4, <2>6, <3>1, <4>1
      <4> QED
        BY <2>5, <3>1, <4>1, <4>2 DEF Keys
    <3>2. CASE ~(Len(grown) > MaxEntries)
      BY <2>4, <2>5, <3>2
    <3> QED
      BY <3>1, <3>2
  <2>8. Listed(remembered, firstSeen["memory"], mentioned, clock)'
    BY <1>3, <2>3, <2>7 DEF Noted
  <2>9. RemembersRecent'
    <3> SUFFICES ASSUME NEW l \in DedupKeys, firstSeen'["memory"][l] # Never,
                        clock' < firstSeen'["memory"][l] + Ttl, l \notin overflowed'
                 PROVE  l \in Keys(remembered')
      BY DEF RemembersRecent, Keys
    <3>1. CASE l = k
      BY <2>7, <3>1
    <3>2. CASE l # k
      <4>1. firstSeen'["memory"][l] = seen[l] /\ l \notin overflowed
        BY <1>1, <2>2, <2>3, <3>2
      <4>2. l \in Keys(live)
        BY <1>2, <1>3, <4>1
      <4> QED
        BY <2>2, <4>2
    <3> QED
      BY <3>1, <3>2
  <2> QED
    BY <2>8, <2>9
<1>5. CASE ~FirstInMemory(k)
  <2>1. k \in Keys(live)
    BY <1>5 DEF FirstInMemory
  <2>2. remembered' = Repeated(live, k) /\ overflowed' = overflowed \ {k}
    BY <1>5 DEF Ask
  <2>3. firstSeen'["memory"] = seen
    BY <1>1, <1>5 DEF Ask, Guards
  <2>4. /\ Listed(Repeated(live, k), seen, [mentioned EXCEPT ![k] = clock], clock)
        /\ Keys(live) \subseteq Keys(Repeated(live, k))
    BY <1>1, <1>2, <2>1, RepeatedWell
  <2> HIDE DEF live
  <2>5. Listed(remembered, firstSeen["memory"], mentioned, clock)'
    BY <1>3, <2>2, <2>3, <2>4
  <2>6. \A l \in DedupKeys : /\ firstSeen'["memory"][l] # Never
                             /\ clock' < firstSeen'["memory"][l] + Ttl
                             /\ l \notin overflowed'
                             => l \in Keys(remembered')
    BY <1>2, <1>3, <2>1, <2>2, <2>3, <2>4
  <2>7. RemembersRecent'
    BY <2>6 DEF RemembersRecent, Keys
  <2> QED
    BY <2>5, <2>7
<1> QED
  BY <1>4, <1>5

LEMMA DedupTypesStep ==
    ASSUME DedupInv, [DedupNext]_dedupVars PROVE DedupTypeOK'
<1>1. /\ clock \in 0..DedupHorizon /\ expires \in [DedupKeys -> Nat]
      /\ firstSeen \in [Guards -> [DedupKeys -> 0..Never]]
      /\ mentioned \in [DedupKeys -> 0..Never]
      /\ overflowed \subseteq DedupKeys /\ answers \subseteq Guards
      /\ remembered \in Seq(Entries)
      /\ Ttl \in Nat /\ ClockSkew \in Nat /\ DedupHorizon \in Nat /\ clock \in Nat /\ clock \in 0..Never
  BY DedupAssumption DEF DedupInv, DedupTypeOK, Entries, Never
<1>2. ASSUME NEW k \in DedupKeys, Ask(k) PROVE DedupTypeOK'
  <2>1. remembered' \in Seq([key : DedupKeys, at : 0..DedupHorizon])
    BY <1>2, AskedMemory DEF Listed, Entries
  <2>2. clock' = clock /\ mentioned' \in [DedupKeys -> 0..Never] /\ answers' \subseteq Guards
    BY <1>1, <1>2 DEF Ask
  <2>3. expires' \in [DedupKeys -> Nat]
    <3>1. expires' = expires \/ expires' = [expires EXCEPT ![k] = clock + Ttl]
      BY <1>2 DEF Ask
    <3>2. clock + Ttl \in Nat
      BY <1>1
    <3> QED
      BY <1>1, <3>1, <3>2
  <2>4. firstSeen' \in [Guards -> [DedupKeys -> 0..Never]]
    <3>1. \A g \in Guards : [firstSeen[g] EXCEPT ![k] = clock] \in [DedupKeys -> 0..Never]
      BY <1>1
    <3>2. PICK first \in SUBSET Guards :
             firstSeen' = [g \in Guards |-> IF g \in first THEN [firstSeen[g] EXCEPT ![k] = clock]
                                            ELSE firstSeen[g]]
      BY <1>2 DEF Ask
    <3> QED
      BY <1>1, <3>1, <3>2
  <2>5. overflowed' \subseteq DedupKeys
    <3>1. Keys(EvictExpired(remembered)) \subseteq DedupKeys
      <4>1. Listed(EvictExpired(remembered), firstSeen["memory"], mentioned, clock)
        BY LiveMemory
      <4> HIDE DEF EvictExpired
      <4>2. \A i \in 1..Len(EvictExpired(remembered)) : EvictExpired(remembered)[i].key \in DedupKeys
        BY <4>1, ListedTypes
      <4> QED
        BY <4>2 DEF Keys
    <3> QED
      BY <1>1, <1>2, <3>1 DEF Ask
  <2> QED
    BY <1>1, <2>1, <2>2, <2>3, <2>4, <2>5 DEF DedupTypeOK
<1>3. CASE PruneDedup
  BY <1>1, <1>3 DEF PruneDedup, DedupTypeOK, Entries
<1>4. CASE ForgetMemory
  <2>1. remembered' \in Seq(Entries)
    BY <1>4, EmptySeq DEF ForgetMemory
  <2> QED
    BY <1>1, <1>4, <2>1 DEF ForgetMemory, DedupTypeOK, Entries
<1>5. CASE DedupTick
  BY <1>1, <1>5 DEF DedupTick, DedupTypeOK, Entries
<1>6. CASE UNCHANGED dedupVars
  BY <1>1, <1>6 DEF dedupVars, DedupTypeOK, Entries
<1> QED
  BY <1>2, <1>3, <1>4, <1>5, <1>6 DEF DedupNext

\* The rows of the table, whoever asks or prunes.
LEMMA RowsStep ==
    ASSUME DedupInv, DedupTypeOK', [DedupNext]_dedupVars PROVE RowsLast' /\ RowsEnd'
<1>1. /\ clock \in Nat /\ clock # Never /\ clock < Never /\ expires \in [DedupKeys -> Nat]
      /\ firstSeen \in [Guards -> [DedupKeys -> 0..Never]] /\ firstSeen["table"] \in [DedupKeys -> 0..Never]
      /\ mentioned \in [DedupKeys -> 0..Never] /\ Never \in Nat
      /\ Ttl \in Nat /\ ClockSkew \in Nat
      /\ RowsLast /\ RowsEnd
  BY DedupAssumption DEF DedupInv, DedupTypeOK, Never, Guards
<1>2. ASSUME NEW k \in DedupKeys, Ask(k) PROVE RowsLast' /\ RowsEnd'
  <2>1. /\ clock' = clock /\ mentioned' = [mentioned EXCEPT ![k] = clock]
        /\ \/ FirstInTable(k) /\ expires' = [expires EXCEPT ![k] = clock + Ttl]
              /\ firstSeen'["table"] = [firstSeen["table"] EXCEPT ![k] = clock]
           \/ ~FirstInTable(k) /\ expires' = expires /\ firstSeen'["table"] = firstSeen["table"]
    BY <1>1, <1>2 DEF Ask, Guards
  <2>2. \A l \in DedupKeys \ {k} : /\ expires'[l] = expires[l] /\ mentioned'[l] = mentioned[l]
                                   /\ firstSeen'["table"][l] = firstSeen["table"][l]
    BY <1>1, <2>1
  <2>3. /\ mentioned'[k] = clock
        /\ \/ expires'[k] = clock + Ttl /\ firstSeen'["table"][k] = clock
           \/ expires'[k] = expires[k] /\ firstSeen'["table"][k] = firstSeen["table"][k]
    BY <1>1, <2>1
  <2>4. RowsLast'
    BY <1>1, <2>1, <2>2, <2>3 DEF RowsLast
  <2>5. expires[k] # 0 => expires[k] <= clock + Ttl
    BY <1>1, <1>2 DEF RowsEnd, AskedBefore, DedupInv
  <2>6. RowsEnd'
    BY <1>1, <2>1, <2>2, <2>3, <2>5 DEF RowsEnd
  <2> QED
    BY <2>4, <2>6
<1>3. CASE PruneDedup
  <2>1. PICK skew \in 0..ClockSkew :
           expires' = [k \in DedupKeys |-> IF expires[k] <= clock + skew THEN 0 ELSE expires[k]]
    BY <1>3 DEF PruneDedup
  <2>2. UNCHANGED <<clock, firstSeen, mentioned>>
    BY <1>3 DEF PruneDedup
  <2> QED
    BY <1>1, <2>1, <2>2 DEF RowsLast, RowsEnd
<1>4. CASE ForgetMemory \/ UNCHANGED dedupVars
  BY <1>1, <1>4 DEF ForgetMemory, dedupVars, RowsLast, RowsEnd
<1>5. CASE DedupTick
  BY <1>1, <1>5 DEF DedupTick, RowsLast, RowsEnd
<1> QED
  BY <1>2, <1>3, <1>4, <1>5 DEF DedupNext

LEMMA DedupInvStep == DedupInv /\ [DedupNext]_dedupVars => DedupInv'
<1> SUFFICES ASSUME DedupInv, [DedupNext]_dedupVars PROVE DedupInv'
  OBVIOUS
<1>1. DedupTypeOK' /\ RowsLast' /\ RowsEnd'
  BY DedupTypesStep, RowsStep
<1>2. /\ clock \in Nat /\ clock < Never /\ mentioned \in [DedupKeys -> 0..Never] /\ Never \in Nat
      /\ firstSeen["memory"] \in [DedupKeys -> 0..Never] /\ Ttl \in Nat
      /\ Listed(remembered, firstSeen["memory"], mentioned, clock)
      /\ RemembersRecent /\ AskedBefore
  BY DedupAssumption DEF DedupInv, DedupTypeOK, Never, Guards
<1> DEFINE Memory == /\ Listed(remembered', firstSeen'["memory"], mentioned', clock')
                     /\ RemembersRecent' /\ AskedBefore'
<1>3. ASSUME NEW k \in DedupKeys, Ask(k) PROVE Memory
  <2>1. clock' = clock /\ mentioned' = [mentioned EXCEPT ![k] = clock]
    BY <1>3 DEF Ask
  <2>2. AskedBefore'
    BY <1>2, <2>1 DEF AskedBefore
  <2> QED
    BY <1>3, <2>2, AskedMemory
<1>4. ASSUME PruneDedup \/ UNCHANGED dedupVars PROVE Memory
  <2>1. UNCHANGED <<clock, remembered, firstSeen, mentioned, overflowed>>
    BY <1>4 DEF PruneDedup, dedupVars
  <2>2. AskedBefore'
    BY <1>2, <2>1 DEF AskedBefore
  <2>3. RemembersRecent'
    BY <1>2, <2>1 DEF RemembersRecent, Keys
  <2>4. Listed(remembered', firstSeen'["memory"], mentioned', clock')
    <3>1. /\ remembered' = remembered /\ firstSeen'["memory"] = firstSeen["memory"]
          /\ mentioned' = mentioned /\ clock' = clock
      BY <2>1
    <3> QED
      BY <1>2, <3>1
  <2> QED
    BY <2>2, <2>3, <2>4
<1>5. ASSUME ForgetMemory PROVE Memory
  <2>1. remembered' = <<>> /\ overflowed' = DedupKeys /\ UNCHANGED <<clock, mentioned>>
    BY <1>5 DEF ForgetMemory
  <2>2. Listed(remembered', firstSeen'["memory"], mentioned', clock')
    BY <2>1, EmptySeq DEF Listed
  <2>3. AskedBefore'
    BY <1>2, <2>1 DEF AskedBefore
  <2>4. RemembersRecent'
    BY <2>1 DEF RemembersRecent
  <2> QED
    BY <2>2, <2>3, <2>4
<1>6. ASSUME DedupTick PROVE Memory
  <2>1. UNCHANGED <<remembered, firstSeen, mentioned, overflowed>> /\ clock' = clock + 1
    BY <1>6 DEF DedupTick
  <2>2. AskedBefore'
    BY <1>2, <2>1 DEF AskedBefore
  <2>3. RemembersRecent'
    BY <1>2, <2>1 DEF RemembersRecent, Keys
  <2>4. Listed(remembered, firstSeen["memory"], mentioned, clock + 1)
    <3>1. \A i \in 1..Len(remembered) : /\ remembered[i].key \in DedupKeys
                                        /\ mentioned[remembered[i].key] \in Nat
      BY <1>2, ListedTypes
    <3> QED
      BY <1>2, <3>1 DEF Listed
  <2>5. Listed(remembered', firstSeen'["memory"], mentioned', clock')
    <3>1. /\ remembered' = remembered /\ firstSeen'["memory"] = firstSeen["memory"]
          /\ mentioned' = mentioned /\ clock' = clock + 1
      BY <2>1
    <3> QED
      BY <2>4, <3>1
  <2> QED
    BY <2>2, <2>3, <2>5
<1>7. Memory
  <2> HIDE DEF Memory
  <2>1. (\E k \in DedupKeys : Ask(k)) \/ PruneDedup \/ UNCHANGED dedupVars \/ ForgetMemory \/ DedupTick
    BY DEF DedupNext
  <2> QED
    BY <1>3, <1>4, <1>5, <1>6, <2>1
<1> QED
  BY <1>1, <1>7 DEF DedupInv

LEMMA DedupInvHolds == DedupSpec => []DedupInv
<1>1. DedupInit => DedupInv
  <2> SUFFICES ASSUME DedupInit PROVE DedupInv
    OBVIOUS
  <2>1. DedupTypeOK
    BY DedupAssumption, EmptySeq DEF DedupInit, DedupTypeOK, Never, Guards
  <2>2. Listed(remembered, firstSeen["memory"], mentioned, clock)
    BY EmptySeq DEF DedupInit, Listed
  <2>3. RemembersRecent /\ RowsLast /\ RowsEnd /\ AskedBefore
    BY DEF DedupInit, RemembersRecent, RowsLast, RowsEnd, AskedBefore, Guards
  <2> QED
    BY <2>1, <2>2, <2>3 DEF DedupInv
<1> QED
  BY <1>1, DedupInvStep, PTL DEF DedupSpec

\* The guards' state has its types.
THEOREM DedupTypesCorrect == DedupSpec => []DedupTypeOK
<1>1. DedupInv => DedupTypeOK
  BY DEF DedupInv
<1> QED
  BY <1>1, DedupInvHolds, PTL

LEMMA NewIsNew == DedupInv => NewStep
<1> SUFFICES ASSUME DedupInv, NEW g \in answers', NEW k \in DedupKeys, Ask(k)
             PROVE  \/ Since(firstSeen[g][k]) >= (IF g = "table" THEN Ttl - ClockSkew ELSE Ttl)
                    \/ g = "memory" /\ k \in overflowed
  BY DEF NewStep
<1>1. /\ g \in Guards
      /\ g = "memory" => FirstInMemory(k)
      /\ g = "table" => FirstInTable(k)
  BY DEF Ask, Guards
<1>2. /\ clock \in Nat /\ Ttl \in Nat /\ ClockSkew \in Nat /\ firstSeen[g][k] \in Nat
      /\ expires[k] \in Nat
  BY <1>1, DedupAssumption DEF DedupInv, DedupTypeOK, Never
<1>3. CASE g = "memory"
  <2>1. k \notin Keys(EvictExpired(remembered))
    BY <1>1, <1>3 DEF FirstInMemory
  <2>2. \/ firstSeen["memory"][k] = Never
        \/ ~(clock < firstSeen["memory"][k] + Ttl)
        \/ k \in overflowed
    BY <2>1, LiveMemory
  <2> QED
    BY <1>2, <1>3, <2>2 DEF Since
<1>4. CASE g = "table"
  <2>1. expires[k] <= clock
    BY <1>1, <1>4 DEF FirstInTable
  <2>2. \/ firstSeen["table"][k] = Never
        \/ ~(clock + ClockSkew < firstSeen["table"][k] + Ttl)
    BY <1>2, <1>4, <2>1 DEF DedupInv, RowsLast
  <2> QED
    BY <1>2, <1>4, <2>2, DedupAssumption DEF Since
<1> QED
  BY <1>1, <1>3, <1>4 DEF Guards

LEMMA OldIsForgotten == DedupInv => ForgetStep
<1> SUFFICES ASSUME DedupInv, NEW k \in DedupKeys, Since(mentioned[k]) >= Ttl, Ask(k)
             PROVE  answers' = Guards
  BY DEF ForgetStep
<1> DEFINE s == remembered
           live == EvictExpired(s)
<1>1. /\ clock \in Nat /\ clock < Never /\ Ttl \in Nat /\ mentioned[k] \in Nat /\ expires[k] \in Nat
      /\ Listed(s, firstSeen["memory"], mentioned, clock)
      /\ mentioned \in [DedupKeys -> 0..Never]
  BY DedupAssumption DEF DedupInv, DedupTypeOK, Never
<1>2. mentioned[k] = Never \/ mentioned[k] + Ttl <= clock
  BY <1>1 DEF Since
<1>3. FirstInTable(k)
  <2>1. expires[k] # 0 => mentioned[k] # Never /\ expires[k] <= mentioned[k] + Ttl
    BY DEF DedupInv, RowsEnd
  <2> QED
    BY <1>1, <1>2, <2>1 DEF FirstInTable
<1>4. FirstInMemory(k)
  <2> SUFFICES ASSUME k \in Keys(live) PROVE FALSE
    BY DEF FirstInMemory
  <2>1. /\ Len(live) = Len(s) - Front(s) /\ Len(s) \in Nat /\ Front(s) \in 0..Len(s)
        /\ \A i \in 1..Len(live) : live[i] = s[Front(s) + i]
        /\ Front(s) < Len(s) => ~Expired(s[Front(s) + 1])
        /\ \A i \in 1..Len(s) : s[i].key \in DedupKeys /\ s[i].at \in Nat
    <3>1. /\ s \in Seq(Entries) /\ Len(s) \in Nat
          /\ \A i \in 1..Len(s) : s[i].key \in DedupKeys /\ s[i].at \in Nat
      BY <1>1, ListedTypes
    <3>2. /\ Front(s) \in 0..Len(s)
          /\ Front(s) < Len(s) => ~Expired(s[Front(s) + 1])
      BY <3>1, FrontIsFront
    <3>3. /\ Len(live) = Len(s) - Front(s)
          /\ \A i \in 1..Len(live) : live[i] = s[Front(s) + i]
      <4> DEFINE seen == firstSeen["memory"]
      <4>1. Listed(s, seen, mentioned, clock)
        BY <1>1
      <4> HIDE DEF s, seen
      <4> QED
        BY <4>1, EvictedWell
    <3> QED
      BY <3>1, <3>2, <3>3
  <2> HIDE DEF live
  <2>2. PICK i \in 1..Len(live) : live[i].key = k
    BY DEF Keys
  <2> DEFINE p == Front(s) + i
             q == Front(s) + 1
  <2>3. /\ p \in 1..Len(s) /\ q \in 1..Len(s) /\ (q < p \/ q = p) /\ s[p].key = k
        /\ ~Expired(s[q])
    BY <2>1, <2>2
  <2> HIDE DEF p, q
  <2>4. mentioned[k] <= clock /\ mentioned[s[q].key] <= mentioned[k] /\ s[q].at <= mentioned[s[q].key]
    BY <1>1, <2>3 DEF Listed
  <2>5. s[q].at + Ttl <= clock
    <3>1. /\ s[q].at \in Nat /\ s[q].key \in DedupKeys
      BY <2>1, <2>3
    <3>2. mentioned[s[q].key] \in Nat
      BY <1>1, <3>1 DEF Never
    <3>3. mentioned[k] + Ttl <= clock
      BY <1>1, <1>2, <2>4
    <3> QED
      BY <1>1, <2>4, <3>1, <3>2, <3>3
  <2> QED
    BY <2>3, <2>5 DEF Expired
<1>5. answers' = {g \in Guards : IF g = "memory" THEN FirstInMemory(k) ELSE FirstInTable(k)}
  BY DEF Ask
<1> QED
  BY <1>3, <1>4, <1>5 DEF Guards

\* No guard calls an update new twice within its time to live, through
\* evictions, prunings by a clock that is ahead, and restarts.
THEOREM DuplicatesAreKnown == DedupSpec => NoDuplicateWithinTtl
<1>1. DedupInv /\ [DedupNext]_dedupVars => [NewStep]_dedupVars
  BY NewIsNew
<1> QED
  BY <1>1, DedupInvHolds, PTL DEF DedupSpec, NoDuplicateWithinTtl

\* A key that was not mentioned for the time to live is at the front of the
\* memory with everything before it expired, and so is new to both guards.
THEOREM LeftAloneIsForgotten == DedupSpec => ForgottenAfterTtl
<1>1. DedupInv /\ [DedupNext]_dedupVars => [ForgetStep]_dedupVars
  BY OldIsForgotten
<1> QED
  BY <1>1, DedupInvHolds, PTL DEF DedupSpec, ForgottenAfterTtl


-----------------------------------------------------------------------------
(* The replies. *)

\* What a handler's result says of what it read, before it becomes a message:
\* the plan knows its code, a failure had a fault, an active status an open
\* window, and the date is the member's.
Grounded(u, m, f, at, r) ==
    /\ r.category \in DOMAIN Planned /\ r.code \in Planned[r.category]
    /\ r.code # "none"
    /\ r.code \in {"service_unavailable", "try_again_later"} => f # NoFault
    /\ r.code = "invalid_input" <=> \A kind \in DOMAIN Commands : ~Parsed(u, kind)
    /\ r.code \in ActiveStatuses \union {"store_success_active"} =>
         m.known /\ m.label = "active" /\ m.until >= at
    /\ r.code = "subscription_active_access_ready" => m.access = "issued"
    /\ r.followable => r.code \in ActiveStatuses /\ m.until \in Nat
    /\ r.until \in {NoDate, m.until}
ReplyInv ==
    /\ date \in 0..LastDate
    /\ response # NoResponse =>
         reply = NoReply /\ Grounded(update, member, fault, asked, response)
    /\ ReplyMatchesState

LEMMA SilenceMatches == reply = NoReply => ReplyMatchesState
  BY DEF ReplyMatchesState, NoReply, ActiveStatuses

LEMMA HandledWell ==
    ASSUME ReplyInv, NEW u, NEW m, NEW f, NEW c, NEW r, Waiting,
           Handle(u, m, f, c, r), Grounded(u, m, f, date, r)
    PROVE  ReplyInv'
<1>1. /\ update' = u /\ member' = m /\ fault' = f /\ response' = r /\ asked' = date
      /\ reply' = NoReply /\ date' = date
  BY DEF Handle, Waiting
<1>2. ReplyMatchesState'
  BY <1>1, SilenceMatches DEF ReplyMatchesState, NoReply, ActiveStatuses
<1>3. Grounded(update', member', fault', asked', response')
  BY <1>1
<1> QED
  BY <1>1, <1>2, <1>3 DEF ReplyInv

\* A handler that only says something which is neither a failure nor about a
\* subscription, with or without a date.
Neutral == (Planned["success"] \ (ActiveStatuses \union {"store_success_active", "none"}))
LEMMA NeutralWell ==
    ASSUME NEW kind \in DOMAIN Commands, NEW u, Parsed(u, kind), NEW m, NEW f, NEW at,
           NEW code \in Neutral
    PROVE  /\ Grounded(u, m, f, at, Said(code))
           /\ \A b \in BOOLEAN : Grounded(u, m, f, at, [Said(code) EXCEPT !.replay = b])
  BY DEF Grounded, Neutral, Planned, Said, Response, ActiveStatuses, MainMenu, ResendCodes

LEMMA FailedWell ==
    ASSUME NEW kind \in DOMAIN Commands, NEW u, Parsed(u, kind), NEW m, NEW f, NEW at,
           NEW code \in {"service_unavailable", "try_again_later", "telegram_command_rate_limited"},
           f # NoFault \/ code = "telegram_command_rate_limited"
    PROVE  Grounded(u, m, f, at, Failed(code))
  BY DEF Grounded, Planned, Failed, Response, ActiveStatuses

LEMMA Kinds == /\ DOMAIN Commands = {"bootstrap", "status", "help", "resend", "plans", "buy",
                                     "success", "renew", "support_menu", "support_contact"}
  BY DEF Commands

\* What the status is about.
LEMMA StatusMeans ==
    ASSUME NEW m \in Members, ReplyInv
    PROVE  /\ SafeStatus(m) \in {"needs_bootstrap", "subscription_expired", "needs_review",
                                 "subscription_active_access_ready", "inactive_or_not_eligible",
                                 "subscription_active_access_not_ready"}
           /\ m.known => SafeStatus(m) # "needs_bootstrap"
           /\ SafeStatus(m) \in ActiveStatuses =>
                m.known /\ m.label = "active" /\ m.until >= date
           /\ SafeStatus(m) = "subscription_active_access_ready" => m.access = "issued"
<1>1. /\ m.known \in BOOLEAN /\ m.label \in {"missing", "active", "needs_review", "inactive"}
      /\ m.until \in Nat /\ date \in Nat /\ date <= LastDate /\ NoDate = LastDate + 1 /\ LastDate \in Nat
  BY RepliesAssumption DEF Members, NoDate, ReplyInv
<1>2. CASE ~m.known
  BY <1>1, <1>2 DEF SafeStatus, ActiveStatuses
<1>3. CASE m.known /\ m.label = "active" /\ RanOut(m)
  BY <1>1, <1>3 DEF SafeStatus, ActiveStatuses
<1>4. CASE m.known /\ m.label = "active" /\ ~RanOut(m)
  BY <1>1, <1>4 DEF SafeStatus, ActiveStatuses, RanOut
<1>5. CASE m.known /\ m.label = "needs_review"
  BY <1>1, <1>5 DEF SafeStatus, ActiveStatuses
<1>6. CASE m.known /\ m.label \notin {"active", "needs_review"}
  BY <1>1, <1>6 DEF SafeStatus, ActiveStatuses
<1> QED
  BY <1>1, <1>2, <1>3, <1>4, <1>5, <1>6

\* A fault that is in no read breaks nothing, and a category is not shown.
LEMMA FaultsFail ==
    ASSUME NEW m, NEW f \in Faults
    PROVE  /\ Breaks(m, f) => f # NoFault
           /\ f # NoFault => UserSafe(f.category) \in {"service_unavailable", "try_again_later"}
<1>1. Breaks(m, f) => f.read \in Reads
  BY DEF Breaks, Performed, Reads
<1> QED
  BY <1>1 DEF Faults, NoFault, Reads, UserSafe

LEMMA StatusWell ==
    ASSUME ReplyInv, NEW u, Parsed(u, "status"), NEW m \in Members, NEW f \in Faults
    PROVE  Grounded(u, m, f, date, StatusResponse(m, f))
<1>1. CASE Breaks(m, f)
  BY <1>1, FaultsFail, FailedWell, Kinds DEF StatusResponse
<1>2. CASE ~Breaks(m, f) /\ ~m.known
  BY <1>2, Kinds DEF StatusResponse, Grounded, Planned, Response, ActiveStatuses
<1>3. CASE ~Breaks(m, f) /\ m.known
  <2>1. SafeStatus(m) \in {"subscription_expired", "needs_review", "inactive_or_not_eligible",
                           "subscription_active_access_ready",
                           "subscription_active_access_not_ready"}
    BY <1>3, StatusMeans
  <2> DEFINE code == SafeStatus(m)
             r == [Said(code) EXCEPT !.until = m.until, !.followable = code \in ActiveStatuses]
  <2>2. /\ r.category = "success" /\ r.code = code /\ r.until = m.until
        /\ r.followable <=> code \in ActiveStatuses
    BY DEF Said, Response
  <2>3. code \in Planned["success"] /\ "success" \in DOMAIN Planned
    BY <2>1 DEF Planned, ActiveStatuses
  <2>4. /\ code \in ActiveStatuses \union {"store_success_active"} =>
             m.known /\ m.label = "active" /\ m.until >= date
        /\ code = "subscription_active_access_ready" => m.access = "issued"
    BY <2>1, StatusMeans
  <2>5. StatusResponse(m, f) = r
    BY <1>3 DEF StatusResponse
  <2> HIDE DEF code, r
  <2>6. Grounded(u, m, f, date, r)
    <3>1. m.until \in Nat
      BY RepliesAssumption DEF Members, NoDate
    <3> QED
      BY <2>1, <2>2, <2>3, <2>4, <3>1, Kinds DEF Grounded, code
  <2> QED
    BY <2>5, <2>6
<1> QED
  BY <1>1, <1>2, <1>3


\* Each handler's result is grounded in what the handler read.
LEMMA HandlersWell ==
    ASSUME ReplyInv,
           \/ Reject \/ Help \/ Plans \/ Buy \/ Renew \/ SupportMenu \/ SupportContact
           \/ Success \/ Bootstrap \/ Status \/ StatusLimited \/ ResendAccess
    PROVE  ReplyInv'
<1> DEFINE quiet == {"slice1_help", "store_plans", "store_buy", "store_renew", "support_menu",
                     "support_contact", "identity_ready", "store_success"} \union ResendCodes
<1>1. quiet \subseteq Neutral
  BY DEF Neutral, Planned, ActiveStatuses, MainMenu, ResendCodes
<1> HIDE DEF quiet
<1>2. ASSUME NEW kind \in DOMAIN Commands, NEW code \in quiet,
             Plainly(kind, Said(code)) \/ WithConfig(kind, Said(code))
      PROVE  ReplyInv'
  <2>1. PICK u \in Takes(kind), c \in Configs \union {Open} :
           Waiting /\ Handle(u, Stranger, NoFault, c, Said(code))
    BY <1>2 DEF Plainly, WithConfig
  <2>2. Parsed(u, kind) /\ code \in Neutral
    BY <1>1, <2>1 DEF Takes
  <2>3. Grounded(u, Stranger, NoFault, date, Said(code))
    BY <2>2, NeutralWell
  <2> QED
    BY <2>1, <2>3, HandledWell
<1>3. ASSUME NEW kind \in DOMAIN Commands, Plainly(kind, Limited) PROVE ReplyInv'
  <2>1. PICK u \in Takes(kind) : Waiting /\ Handle(u, Stranger, NoFault, Open, Limited)
    BY <1>3 DEF Plainly
  <2>2. Parsed(u, kind)
    BY <2>1 DEF Takes
  <2>3. Grounded(u, Stranger, NoFault, date, Limited)
    BY <2>2, FailedWell DEF Limited
  <2> QED
    BY <2>1, <2>3, HandledWell
<1>4. CASE Reject
  <2>1. PICK u \in IncomingUpdates \ UNION {Takes(kind) : kind \in DOMAIN Commands} :
           Waiting /\ Handle(u, Stranger, NoFault, Open, Failed("invalid_input"))
    BY <1>4 DEF Reject
  <2>2. \A kind \in DOMAIN Commands : ~Parsed(u, kind)
    BY <2>1 DEF Takes
  <2>3. Grounded(u, Stranger, NoFault, date, Failed("invalid_input"))
    BY <2>2 DEF Grounded, Planned, Failed, Response, ActiveStatuses
  <2> QED
    BY <2>1, <2>3, HandledWell
<1>5. CASE Help \/ Plans \/ Buy \/ Renew \/ SupportMenu \/ SupportContact
  <2>1. {"slice1_help", "store_plans", "store_buy", "store_renew", "support_menu",
         "support_contact"} \subseteq quiet
    BY DEF quiet
  <2> QED
    BY <1>2, <1>3, <1>5, <2>1, Kinds DEF Help, Plans, Buy, Renew, SupportMenu, SupportContact
<1>6. CASE StatusLimited \/ ResendAccess
  <2>1. ResendCodes \subseteq quiet
    BY DEF quiet
  <2> QED
    BY <1>2, <1>3, <1>6, <2>1, Kinds DEF StatusLimited, ResendAccess
<1>7. CASE Success
  <2>1. PICK u \in Takes("success"), m \in Members, f \in Faults :
           /\ Waiting
           /\ Handle(u, m, f, Open,
                     IF ~Breaks(m, f) /\ SafeStatus(m) \in ActiveStatuses
                     THEN Said("store_success_active") ELSE Said("store_success"))
    BY <1>7 DEF Success
  <2>2. Parsed(u, "success") /\ "success" \in DOMAIN Commands
    BY <2>1, Kinds DEF Takes
  <2>3. CASE ~Breaks(m, f) /\ SafeStatus(m) \in ActiveStatuses
    <3>1. m.known /\ m.label = "active" /\ m.until >= date
      BY <2>3, StatusMeans
    <3>2. Grounded(u, m, f, date, Said("store_success_active"))
      BY <2>2, <3>1 DEF Grounded, Planned, Said, Response, ActiveStatuses, MainMenu
    <3> QED
      BY <2>1, <2>3, <3>2, HandledWell
  <2>4. CASE ~(~Breaks(m, f) /\ SafeStatus(m) \in ActiveStatuses)
    <3>1. "store_success" \in Neutral
      BY <1>1 DEF quiet
    <3>2. Grounded(u, m, f, date, Said("store_success"))
      BY <2>2, <3>1, NeutralWell
    <3> QED
      BY <2>1, <2>4, <3>2, HandledWell
  <2> QED
    BY <2>3, <2>4
<1>8. CASE Bootstrap
  <2> DEFINE m == [Stranger EXCEPT !.known = TRUE]
  <2>1. PICK u \in Takes("bootstrap"), f \in Faults :
           \E r \in IF f # NoFault THEN {Failed(UserSafe(f.category))}
                    ELSE {[Said("identity_ready") EXCEPT !.replay = b] : b \in BOOLEAN} :
              Waiting /\ Handle(u, m, f, Open, r)
    BY <1>8 DEF Bootstrap
  <2> HIDE DEF m
  <2>2. Parsed(u, "bootstrap") /\ "bootstrap" \in DOMAIN Commands
    BY <2>1, Kinds DEF Takes
  <2>3. CASE f # NoFault
    <3>1. Waiting /\ Handle(u, m, f, Open, Failed(UserSafe(f.category)))
      BY <2>1, <2>3
    <3>2. Grounded(u, m, f, date, Failed(UserSafe(f.category)))
      BY <2>2, <2>3, FaultsFail, FailedWell
    <3> QED
      BY <3>1, <3>2, HandledWell
  <2>4. CASE f = NoFault
    <3>1. PICK b \in BOOLEAN :
             Waiting /\ Handle(u, m, f, Open, [Said("identity_ready") EXCEPT !.replay = b])
      BY <2>1, <2>4
    <3>2. "identity_ready" \in Neutral
      BY <1>1 DEF quiet
    <3>3. Grounded(u, m, f, date, [Said("identity_ready") EXCEPT !.replay = b])
      BY <2>2, <3>2, NeutralWell
    <3> QED
      BY <3>1, <3>3, HandledWell
  <2> QED
    BY <2>3, <2>4
<1>9. CASE Status
  <2>1. PICK u \in Takes("status"), m \in Members, f \in Faults :
           Waiting /\ Handle(u, m, f, Open, StatusResponse(m, f))
    BY <1>9 DEF Status
  <2>2. Grounded(u, m, f, date, StatusResponse(m, f))
    BY <2>1, StatusWell DEF Takes
  <2> QED
    BY <2>1, <2>2, HandledWell
<1> QED
  BY <1>4, <1>5, <1>6, <1>7, <1>8, <1>9

\* A grounded result becomes a message that says the same, or one that says
\* that a link or a contact is not configured.
LEMMA ComposedWell ==
    ASSUME ReplyInv, NEW b \in BOOLEAN, Compose(b)
    PROVE  ReplyInv'
<1> DEFINE key == response.code
           text == Text(key, config, update)
<1>1. response # NoResponse /\ Grounded(update, member, fault, asked, response)
  BY DEF ReplyInv, Compose
<1>2. MessageKey(response) = key
  BY <1>1 DEF MessageKey, Grounded
<1>3. /\ reply'.text = text
      /\ reply'.until = IF key \in ActiveStatuses THEN response.until ELSE NoDate
      /\ reply'.followUp <=> response.followable /\ response.until # NoDate /\ response.until > date
  BY <1>2 DEF Compose
<1>4. /\ response' = NoResponse /\ date' = date
      /\ UNCHANGED <<update, member, fault, config, asked>>
  BY DEF Compose
<1>5. /\ \/ text = key
         \/ text \in {"checkout_not_configured", "support_unavailable"}
            /\ key \in {"store_buy", "store_renew", "support_contact"}
      /\ text \in {"store_buy", "store_renew"} =>
           config.secret /\ "plain" \in {config.checkout, config.renewal}
  BY DEF Text
<1> HIDE DEF text, key
<1>6. /\ key # "none"
      /\ key \in {"service_unavailable", "try_again_later"} => fault # NoFault
      /\ key = "invalid_input" <=> \A kind \in DOMAIN Commands : ~Parsed(update, kind)
      /\ key \in ActiveStatuses \union {"store_success_active"} =>
           member.known /\ member.label = "active" /\ member.until >= asked
      /\ key = "subscription_active_access_ready" => member.access = "issued"
      /\ response.followable => key \in ActiveStatuses /\ member.until \in Nat
      /\ response.until \in {NoDate, member.until}
  BY <1>1 DEF Grounded, key
<1>7. reply' # NoReply
  BY <1>3, <1>5, <1>6 DEF NoReply
<1>8. /\ reply'.text \in {"service_unavailable", "try_again_later"} => fault # NoFault
      /\ reply'.text = "invalid_input" <=>
           reply' # NoReply /\ \A kind \in DOMAIN Commands : ~Parsed(update, kind)
      /\ reply'.text \in ActiveStatuses \union {"store_success_active"} =>
           member.known /\ member.label = "active" /\ member.until >= asked
      /\ reply'.text = "subscription_active_access_ready" => member.access = "issued"
      /\ reply'.until \in {NoDate, member.until}
      /\ reply'.text \in {"store_buy", "store_renew"} =>
           config.secret /\ "plain" \in {config.checkout, config.renewal}
  BY <1>3, <1>5, <1>6, <1>7 DEF ActiveStatuses
<1>9. reply'.followUp => reply'.text \in ActiveStatuses /\ ~RanOut(member)
  <2> SUFFICES ASSUME reply'.followUp PROVE reply'.text \in ActiveStatuses /\ ~RanOut(member)
    OBVIOUS
  <2>1. /\ key \in ActiveStatuses /\ response.until = member.until /\ response.until > date
        /\ member.until \in Nat
    BY <1>3, <1>6
  <2>2. reply'.text \in ActiveStatuses
    BY <1>3, <1>5, <2>1 DEF ActiveStatuses
  <2>3. member.until > date /\ date \in Nat /\ member.until \in Nat
    BY <2>1, <1>3, RepliesAssumption DEF ReplyInv
  <2> QED
    BY <2>2, <2>3 DEF RanOut
<1>10. RanOut(member)' = RanOut(member)
  BY <1>4 DEF RanOut
<1>11. ReplyMatchesState'
  BY <1>4, <1>8, <1>9, <1>10 DEF ReplyMatchesState
<1> QED
  BY <1>4, <1>11 DEF ReplyInv

LEMMA ReplyInvHolds == RepliesSpec => []ReplyInv
<1>1. RepliesInit => ReplyInv
  BY RepliesAssumption, SilenceMatches DEF RepliesInit, ReplyInv
<1>2. ReplyInv /\ [RepliesNext]_replyVars => ReplyInv'
  <2> SUFFICES ASSUME ReplyInv, [RepliesNext]_replyVars PROVE ReplyInv'
    OBVIOUS
  <2>1. CASE \/ Reject \/ Help \/ Plans \/ Buy \/ Renew \/ SupportMenu \/ SupportContact
             \/ Success \/ Bootstrap \/ Status \/ StatusLimited \/ ResendAccess
    BY <2>1, HandlersWell
  <2>2. ASSUME NEW b \in BOOLEAN, Compose(b) PROVE ReplyInv'
    BY <2>2, ComposedWell
  <2>3. CASE NextUpdate
    <3>1. date' = date /\ reply' = NoReply /\ response' = response /\ response = NoResponse
      BY <2>3 DEF NextUpdate, ReplyInv
    <3> QED
      BY <3>1 DEF ReplyInv, ReplyMatchesState, NoReply, ActiveStatuses
  <2>4. CASE NextDate
    <3>1. /\ date' \in 0..LastDate /\ reply' = NoReply
          /\ UNCHANGED <<update, member, fault, config, asked, response, reply>>
      BY <2>4, RepliesAssumption DEF NextDate, ReplyInv
    <3>2. ReplyMatchesState'
      BY <3>1 DEF ReplyMatchesState, NoReply, ActiveStatuses
    <3> QED
      BY <3>1, <3>2 DEF ReplyInv
  <2>5. CASE UNCHANGED replyVars
    BY <2>5 DEF replyVars, ReplyInv, ReplyMatchesState, RanOut
  <2> QED
    BY <2>1, <2>2, <2>3, <2>4, <2>5 DEF RepliesNext
<1> QED
  BY <1>1, <1>2, PTL DEF RepliesSpec

\* Whatever the handler's result was turned into on the way, the message says
\* what was so when the handler read.
THEOREM WhatIsSaidIsSo == RepliesSpec => []ReplyMatchesState
<1>1. ReplyInv => ReplyMatchesState
  BY DEF ReplyInv
<1> QED
  BY <1>1, ReplyInvHolds, PTL

=============================================================================
