---------------------------- MODULE ConnLimiter -----------------------------
(***************************************************************************)
(* The per-address gate of the accept path (ratelimit.go): a token bucket  *)
(* for each source address in a table that is pruned once per GCInterval   *)
(* and evicts the stalest bucket when it is full.  Each server has one     *)
(* accept loop, so the calls of allowIP follow one another.  The in-flight *)
(* semaphore of the same file is the variable sem of MultiClient.          *)
(***************************************************************************)
EXTENDS Integers, Sequences, FiniteSets

CONSTANTS
    IP,          \* source addresses
    Rate,        \* PerIPPerSec, in tokens for a unit of time
    Burst,       \* PerIPBurst
    MaxEntries,  \* MaxIPEntries
    TTL,         \* ipEntryTTL
    GCInterval,  \* ipGCInterval
    MaxTime      \* how long the model runs

\* newConnLimiter replaces what is not positive by a default.
ASSUME LimiterAssumption ==
    /\ {Rate, Burst, MaxEntries, GCInterval} \subseteq Nat \ {0}
    /\ TTL \in Nat /\ MaxTime \in Nat

\* A bucket old enough to be pruned has refilled.  The code does not check it of
\* the configuration; by default an empty bucket refills in two seconds and is
\* pruned after five minutes.
RefilledWhenPruned == Rate * TTL >= Burst

VARIABLES
    now,       \* the clock allowIP reads
    limiters,  \* l.limiters: a function whose domain is the table
    lastGC,    \* l.lastGC
    grants     \* when each address was let through, since its last eviction

vars == <<now, limiters, lastGC, grants>>

Init ==
    /\ now = 0
    /\ limiters = [i \in {} |-> 0]
    /\ lastGC = -GCInterval
    /\ grants = [i \in IP |-> <<>>]

-----------------------------------------------------------------------------
\* Mutant: entries are pruned whatever their age.
KeptFresh == IF now - lastGC >= GCInterval THEN {} ELSE DOMAIN limiters

\* The table after gcLocked, when it is due.
Kept ==
    IF now - lastGC >= GCInterval
    THEN {i \in DOMAIN limiters : now - limiters[i].seen <= TTL}
    ELSE DOMAIN limiters

\* evictOldestLocked: ties are broken by the map's iteration order.
Oldest(S) == {i \in S : \A j \in S : limiters[i].seen <= limiters[j].seen}

\* Mutant: off by one at the capacity of the table.
EvictedLate(ip) ==
    IF ip \notin Kept /\ Cardinality(Kept) > MaxEntries
    THEN {{old} : old \in Oldest(Kept)}
    ELSE {{}}

\* What a call for ip may evict.
Evicted(ip) ==
    IF ip \notin Kept /\ Cardinality(Kept) >= MaxEntries
    THEN {{old} : old \in Oldest(Kept)}
    ELSE {{}}

\* Mutant: an access restarts the refill.
TokensRestarted(ip) == IF ip \in Kept THEN limiters[ip].tokens ELSE Burst

\* rate.Limiter.AllowN takes a token from the bucket as refilled by now; a
\* new bucket is full.
Tokens(ip) ==
    IF ip \in Kept
    THEN LET t == limiters[ip].tokens + Rate * (now - limiters[ip].last)
         IN  IF t > Burst THEN Burst ELSE t
    ELSE Burst

\* Mutant: a denied call takes a token too.
TakenInDebt(t) == t - 1

\* What is left in a bucket of t tokens: a denied call takes nothing.
Taken(t) == IF t >= 1 THEN t - 1 ELSE t

allowIP(ip) ==
    LET t  == Tokens(ip)
        ok == t >= 1
    IN
    \E gone \in Evicted(ip) :
      /\ limiters' = [i \in (Kept \ gone) \cup {ip} |->
                        IF i = ip
                        THEN [tokens |-> Taken(t), last |-> now, seen |-> now]
                        ELSE limiters[i]]
      /\ lastGC' = IF now - lastGC >= GCInterval THEN now ELSE lastGC
      /\ grants' = [i \in IP |-> IF i \in gone THEN <<>>
                                 ELSE IF i = ip /\ ok THEN Append(grants[i], now)
                                 ELSE grants[i]]
      /\ UNCHANGED now

Tick ==
    /\ now < MaxTime
    /\ now' = now + 1
    /\ UNCHANGED <<limiters, lastGC, grants>>

Next == Tick \/ \E ip \in IP : allowIP(ip)

Spec == Init /\ [][Next]_vars

-----------------------------------------------------------------------------
Entry == [tokens : 0..Burst, last : 0..MaxTime, seen : 0..MaxTime]

\* The shape of the limiter's state; a bucket never holds more than a burst.
TypeOK ==
    /\ now \in 0..MaxTime
    /\ DOMAIN limiters \subseteq IP
    /\ \A i \in DOMAIN limiters : limiters[i] \in Entry
    /\ lastGC \in -GCInterval..MaxTime
    /\ grants \in [IP -> Seq(0..MaxTime)]

\* "The per-IP table is bounded", so that the limiter itself cannot exhaust
\* memory: however many addresses call, it never outgrows MaxIPEntries.
TableBounded == Cardinality(DOMAIN limiters) <= MaxEntries

\* Connections let through at the times ts keep to the sustained rate: no
\* window has more of them than a burst and what refills during it.
Within(ts) ==
    \A i, j \in DOMAIN ts : i <= j => j - i + 1 <= Burst + Rate * (ts[j] - ts[i])

\* One address opens connections no faster than PerIPPerSec allows, across
\* the pruning of its bucket, as long as the bucket is not evicted
\* (RefilledWhenPruned).
Throttled == \A ip \in IP : Within(grants[ip])

\* A connection is turned away only when letting it through would exceed
\* that rate.
DeniedOnlyIfFast ==
    [][\A ip \in IP :
         allowIP(ip) /\ grants'[ip] = grants[ip] => ~Within(Append(grants[ip], now))]_vars
=============================================================================
