---------------------------- MODULE UpdateDedup ----------------------------
(***************************************************************************)
(* The two guards that tell a Telegram update seen before from a new one,  *)
(* asked side by side: the bounded in-memory guard of one process, and the *)
(* telegram_update_dedup table with the cleanup job that prunes it. The    *)
(* database and the bot share one clock; the job reads its own, which may  *)
(* be ahead of it by ClockSkew.                                            *)
(***************************************************************************)
EXTENDS Naturals, Sequences

CONSTANTS DedupKeys, Ttl, MaxEntries, ClockSkew, DedupHorizon

ASSUME DedupAssumption ==
    /\ {Ttl, MaxEntries} \subseteq Nat \ {0}
    /\ {ClockSkew, DedupHorizon} \subseteq Nat /\ ClockSkew < Ttl

Never == DedupHorizon + 1

VARIABLES clock,
          remembered,   \* _seen: an OrderedDict of keys and when they were first seen
          expires,      \* expires_at of a row of the table; 0 for no row
          firstSeen,    \* by guard and key, the last time it said "first seen"
          mentioned,    \* when a key was last asked about
          overflowed,   \* keys the in-memory guard dropped for room since then
          answers       \* of the last call

dedupVars == <<clock, remembered, expires, firstSeen, mentioned, overflowed, answers>>

Guards == {"memory", "table"}
DedupTypeOK ==
    /\ clock \in 0..DedupHorizon
    /\ remembered \in Seq([key : DedupKeys, at : 0..DedupHorizon])
    /\ expires \in [DedupKeys -> Nat]
    /\ firstSeen \in [Guards -> [DedupKeys -> 0..Never]]
    /\ mentioned \in [DedupKeys -> 0..Never]
    /\ overflowed \subseteq DedupKeys
    /\ answers \subseteq Guards

DedupInit ==
    /\ clock = 0 /\ remembered = <<>>
    /\ expires = [k \in DedupKeys |-> 0]
    /\ firstSeen = [g \in Guards |-> [k \in DedupKeys |-> Never]]
    /\ mentioned = [k \in DedupKeys |-> Never]
    /\ overflowed = {} /\ answers = {}

\* Defect: an entry still counts when its time to live is over.
ExpiredLate(e) == e.at + Ttl < clock

\* Expired entries go from the front, up to the first that is not.
Expired(e) == e.at + Ttl <= clock
Front(s) == CHOOSE n \in 0..Len(s) :
    /\ \A i \in 1..n : Expired(s[i])
    /\ n < Len(s) => ~Expired(s[n + 1])
EvictExpired(s) == SubSeq(s, Front(s) + 1, Len(s))
Keys(s) == {s[i].key : i \in 1..Len(s)}

\* A key that is repeated moves to the end, with the time it was first seen.
Position(s, k) == CHOOSE i \in 1..Len(s) : s[i].key = k
Repeated(s, k) == [i \in 1..Len(s) |-> IF i < Position(s, k) THEN s[i]
                                       ELSE IF i < Len(s) THEN s[i + 1] ELSE s[Position(s, k)]]
Remember(s, k) == LET grown == Append(s, [key |-> k, at |-> clock]) IN
    IF Len(grown) > MaxEntries THEN Tail(grown) ELSE grown

FirstInMemory(k) == k \notin Keys(EvictExpired(remembered))
FirstInTable(k) == expires[k] <= clock

Ask(k) ==
    /\ mentioned' = [mentioned EXCEPT ![k] = clock] /\ UNCHANGED clock
    /\ LET live == EvictExpired(remembered)
           new == Remember(live, k)
           first == {g \in Guards : IF g = "memory" THEN FirstInMemory(k) ELSE FirstInTable(k)}
       IN  /\ remembered' = IF FirstInMemory(k) THEN new ELSE Repeated(live, k)
           /\ overflowed' = (overflowed \ {k}) \union
                (IF FirstInMemory(k) THEN Keys(live) \ Keys(new) ELSE {})
           /\ expires' = IF FirstInTable(k) THEN [expires EXCEPT ![k] = clock + Ttl] ELSE expires
           /\ firstSeen' = [g \in Guards |-> IF g \in first THEN [firstSeen[g] EXCEPT ![k] = clock]
                                            ELSE firstSeen[g]]
           /\ answers' = first

\* Defect: the cleanup's comparison is the wrong way round.
PruneFresh ==
    /\ \E skew \in 0..ClockSkew :
        expires' = [k \in DedupKeys |-> IF expires[k] >= clock + skew THEN 0 ELSE expires[k]]
    /\ UNCHANGED <<clock, remembered, firstSeen, mentioned, overflowed, answers>>

\* The operational cleanup deletes what has expired by its own clock.
PruneDedup ==
    /\ \E skew \in 0..ClockSkew :
        expires' = [k \in DedupKeys |-> IF expires[k] <= clock + skew THEN 0 ELSE expires[k]]
    /\ UNCHANGED <<clock, remembered, firstSeen, mentioned, overflowed, answers>>

\* A new process starts with an empty memory.
ForgetMemory ==
    /\ remembered' = <<>> /\ overflowed' = DedupKeys
    /\ UNCHANGED <<clock, expires, firstSeen, mentioned, answers>>

DedupTick ==
    /\ clock < DedupHorizon /\ clock' = clock + 1
    /\ UNCHANGED <<remembered, expires, firstSeen, mentioned, overflowed, answers>>

DedupNext == (\E k \in DedupKeys : Ask(k)) \/ PruneDedup \/ ForgetMemory \/ DedupTick
DedupSpec == DedupInit /\ [][DedupNext]_dedupVars

-----------------------------------------------------------------------------
Since(t) == IF t = Never THEN Ttl ELSE clock - t

\* No guard calls an update new again within its time to live: the table not
\* even after a cleanup, beyond the skew of the job's clock, and the memory
\* unless it was restarted or had to make room.
NewStep == \A g \in answers' : \A k \in DedupKeys :
    Ask(k) =>
        \/ Since(firstSeen[g][k]) >= (IF g = "table" THEN Ttl - ClockSkew ELSE Ttl)
        \/ g = "memory" /\ k \in overflowed
NoDuplicateWithinTtl == [][NewStep]_dedupVars

\* An update that was left alone for the time to live is new to both guards:
\* moving a repeated entry behind younger ones never keeps it longer.
ForgetStep == \A k \in DedupKeys :
    Since(mentioned[k]) >= Ttl /\ Ask(k) => answers' = Guards
ForgottenAfterTtl == [][ForgetStep]_dedupVars

=============================================================================
