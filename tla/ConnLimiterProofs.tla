------------------------- MODULE ConnLimiterProofs --------------------------
(***************************************************************************)
(* The limiter's table never outgrows its capacity, its buckets stay       *)
(* between empty and a full burst, and it enforces the rate exactly: it    *)
(* lets no more through and turns nothing else away, for any addresses and *)
(* any rate.                                                               *)
(***************************************************************************)
EXTENDS ConnLimiter, FiniteSetTheorems, TLAPS

\* Every bucket was used in the past, so that a refill never takes tokens;
\* the table is finite, so that its size is a number.
IInv ==
    /\ TypeOK
    /\ IsFiniteSet(DOMAIN limiters)
    /\ TableBounded
    /\ \A i \in DOMAIN limiters : limiters[i].last <= now

\* gcLocked only removes entries.
LEMMA KeptSubset == Kept \subseteq DOMAIN limiters
BY DEF Kept

\* The table allowIP leaves behind: pruning and eviction make room for the
\* one entry that a call may add.
LEMMA RoomForOne ==
    ASSUME IInv, NEW ip \in IP, NEW gone \in Evicted(ip)
    PROVE  /\ IsFiniteSet((Kept \ gone) \cup {ip})
           /\ Cardinality((Kept \ gone) \cup {ip}) <= MaxEntries
<1>1. IsFiniteSet(Kept) /\ Cardinality(Kept) <= Cardinality(DOMAIN limiters)
  BY KeptSubset, FS_Subset DEF IInv
<1>2. Cardinality(Kept) \in Nat /\ Cardinality(DOMAIN limiters) \in Nat
  BY <1>1, FS_CardinalityType DEF IInv
<1>3. Cardinality(Kept) <= MaxEntries
  BY <1>1, <1>2, LimiterAssumption DEF IInv, TableBounded
<1>4. CASE ip \notin Kept /\ Cardinality(Kept) >= MaxEntries
  <2>1. PICK old \in Kept : gone = {old}
    BY <1>4 DEF Evicted, Oldest
  <2>2. /\ IsFiniteSet(Kept \ {old})
        /\ Cardinality(Kept \ {old}) = Cardinality(Kept) - 1
    BY <1>1, <2>1, FS_RemoveElement, Zenon
  <2>3. /\ IsFiniteSet((Kept \ {old}) \cup {ip})
        /\ Cardinality((Kept \ {old}) \cup {ip}) = Cardinality(Kept \ {old}) + 1
    BY <1>4, <2>2, FS_AddElement, Zenon
  <2> QED  BY <1>2, <1>3, <2>1, <2>2, <2>3, LimiterAssumption
<1>5. CASE ~(ip \notin Kept /\ Cardinality(Kept) >= MaxEntries)
  <2>1. gone = {} /\ Kept \ gone = Kept
    BY <1>5 DEF Evicted
  <2>2. CASE ip \in Kept
    <3>1. Kept \cup {ip} = Kept
      BY <2>2
    <3> QED  BY <1>1, <1>3, <2>1, <3>1
  <2>3. CASE ip \notin Kept
    <3>1. /\ IsFiniteSet(Kept \cup {ip})
          /\ Cardinality(Kept \cup {ip}) = Cardinality(Kept) + 1
      BY <1>1, <2>3, FS_AddElement
    <3> QED  BY <1>2, <1>5, <2>1, <2>3, <3>1, LimiterAssumption
  <2> QED  BY <2>2, <2>3
<1> QED  BY <1>4, <1>5

\* A refilled bucket holds at most a burst and never less than before.
LEMMA TokensType ==
    ASSUME IInv, NEW ip \in IP
    PROVE  Tokens(ip) \in 0..Burst
<1>1. Burst \in Nat /\ Rate \in Nat /\ MaxTime \in Nat
  BY LimiterAssumption
<1>2. CASE ip \in Kept
  <2>1. /\ limiters[ip].tokens \in 0..Burst
        /\ limiters[ip].last \in 0..MaxTime
        /\ limiters[ip].last <= now
        /\ now \in 0..MaxTime
    BY <1>2, KeptSubset DEF IInv, TypeOK, Entry
  <2>2. now - limiters[ip].last \in Nat
    BY <1>1, <2>1
  <2>3. Rate * (now - limiters[ip].last) \in Nat
    BY <1>1, <2>2
  <2> QED  BY <1>1, <1>2, <2>1, <2>3 DEF Tokens
<1>3. CASE ip \notin Kept
  BY <1>1, <1>3 DEF Tokens
<1> QED  BY <1>2, <1>3

LEMMA LimiterInit == Init => IInv
<1> SUFFICES ASSUME Init PROVE IInv
  OBVIOUS
<1>1. DOMAIN limiters = {}
  BY DEF Init
<1>2. IsFiniteSet({}) /\ Cardinality({}) = 0
  BY FS_EmptySet
<1>3. grants \in [IP -> Seq(0..MaxTime)]
  BY DEF Init
<1>4. now \in 0..MaxTime /\ lastGC \in -GCInterval..MaxTime
  BY LimiterAssumption DEF Init
<1> QED  BY <1>1, <1>2, <1>3, <1>4, LimiterAssumption DEF IInv, TypeOK, TableBounded

LEMMA LimiterAllow ==
    ASSUME IInv, NEW ip \in IP, allowIP(ip)
    PROVE  IInv'
<1> DEFINE used == [tokens |-> Taken(Tokens(ip)), last |-> now, seen |-> now]
<1>1. PICK gone \in Evicted(ip) :
        /\ limiters' = [i \in (Kept \ gone) \cup {ip} |-> IF i = ip THEN used ELSE limiters[i]]
        /\ lastGC' = IF now - lastGC >= GCInterval THEN now ELSE lastGC
        /\ grants' = [i \in IP |-> IF i \in gone THEN <<>>
                                   ELSE IF i = ip /\ Tokens(ip) >= 1 THEN Append(grants[i], now)
                                   ELSE grants[i]]
        /\ now' = now
  BY DEF allowIP
<1>2. now \in 0..MaxTime /\ MaxTime \in Nat /\ Burst \in Nat /\ Tokens(ip) \in 0..Burst
  BY TokensType, LimiterAssumption DEF IInv, TypeOK
<1>3. used \in Entry /\ used.last = now
  BY <1>2 DEF Entry, Taken
<1>4. DOMAIN limiters' = (Kept \ gone) \cup {ip}
  BY <1>1
<1>5. IsFiniteSet(DOMAIN limiters') /\ Cardinality(DOMAIN limiters') <= MaxEntries
  BY <1>4, RoomForOne
<1>6. \A i \in DOMAIN limiters' :
        IF i = ip THEN limiters'[i] = used
        ELSE i \in DOMAIN limiters /\ limiters'[i] = limiters[i]
  BY <1>1, <1>4, KeptSubset
<1>7. \A i \in DOMAIN limiters' : limiters'[i] \in Entry /\ limiters'[i].last <= now
  BY <1>2, <1>3, <1>6 DEF IInv, TypeOK
<1>8. lastGC' \in -GCInterval..MaxTime
  <2>1. lastGC \in -GCInterval..MaxTime
    BY Zenon DEF IInv, TypeOK
  <2>2. now \in -GCInterval..MaxTime
    BY <1>2, LimiterAssumption
  <2> QED  BY <1>1, <2>1, <2>2, Zenon
<1>9. grants' \in [IP -> Seq(0..MaxTime)]
  <2>1. \A i \in IP : grants[i] \in Seq(0..MaxTime) /\ Append(grants[i], now) \in Seq(0..MaxTime)
    BY <1>2 DEF IInv, TypeOK
  <2>2. <<>> \in Seq(0..MaxTime)
    OBVIOUS
  <2>3. \A i \in IP : grants'[i] \in Seq(0..MaxTime)
    BY <1>1, <2>1, <2>2, Zenon
  <2>4. grants' = [i \in IP |-> grants'[i]]
    BY <1>1, Zenon
  <2> QED  BY <2>3, <2>4, Zenon
<1>10. DOMAIN limiters' \subseteq IP
  BY <1>4, KeptSubset DEF IInv, TypeOK
<1> QED
  BY <1>1, <1>2, <1>5, <1>7, <1>8, <1>9, <1>10, Zenon DEF IInv, TypeOK, TableBounded

LEMMA LimiterStep == IInv /\ [Next]_vars => IInv'
<1> SUFFICES ASSUME IInv, [Next]_vars PROVE IInv'
  OBVIOUS
<1>1. CASE Tick
  <2>1. /\ now' = now + 1 /\ now' \in 0..MaxTime
        /\ UNCHANGED <<limiters, lastGC, grants>>
    BY <1>1, LimiterAssumption DEF Tick, IInv, TypeOK
  <2>2. ASSUME NEW i \in DOMAIN limiters PROVE limiters[i].last <= now'
    <3>1. PICK x : x = limiters[i].last
      BY Zenon
    <3>2. x \in 0..MaxTime /\ x <= now /\ now \in 0..MaxTime /\ MaxTime \in Nat
      BY <3>1, LimiterAssumption, Zenon DEF IInv, TypeOK, Entry
    <3>3. x <= now + 1
      BY <3>2
    <3> QED  BY <2>1, <3>1, <3>3, Zenon
  <2> QED  BY <2>1, <2>2 DEF IInv, TypeOK, TableBounded
<1>2. ASSUME NEW ip \in IP, allowIP(ip) PROVE IInv'
  BY <1>2, LimiterAllow
<1>3. CASE UNCHANGED vars
  BY <1>3 DEF vars, IInv, TypeOK, TableBounded
<1> QED  BY <1>1, <1>2, <1>3 DEF Next

-----------------------------------------------------------------------------
(* The rate *)

\* The number of connections of ip let through since the i-th of them, and
\* what is refilled from time a to time b.
Since(ip, i) == Len(grants[ip]) - i + 1
Refill(a, b) == Rate * (b - a)

\* What is in the bucket and what was taken from it since the i-th connection
\* is no more than a burst and the refill since then.  An address without a
\* bucket starts over with a burst: all it took has been refilled.
Paced ==
    \A ip \in IP : \A i \in 1..Len(grants[ip]) :
      IF ip \in DOMAIN limiters
      THEN Since(ip, i) + limiters[ip].tokens
             <= Burst + Refill(grants[ip][i], limiters[ip].last)
      ELSE Since(ip, i) <= Refill(grants[ip][i], now)

\* ... and no less, counted from the last connection that found a full bucket.
Tight ==
    \A ip \in DOMAIN limiters : \E i \in 1..Len(grants[ip]) :
      Since(ip, i) + limiters[ip].tokens
        = Burst + Refill(grants[ip][i], limiters[ip].last)

\* A bucket is pruned by the age of its last use.
SeenLast == \A i \in DOMAIN limiters : limiters[i].seen = limiters[i].last

\* The upper bounds need the buckets to last until they have refilled.
RInv == Tight /\ SeenLast /\ (RefilledWhenPruned => Paced /\ Throttled)

LEMMA RefillAdds ==
    ASSUME NEW a \in Int, NEW b \in Int, NEW c \in Int
    PROVE  Refill(a, c) = Refill(a, b) + Refill(b, c)
BY LimiterAssumption DEF Refill

LEMMA RefillType ==
    ASSUME NEW a \in Int, NEW b \in Int
    PROVE  /\ Refill(a, b) \in Int
           /\ a <= b => Refill(a, b) >= 0
           /\ a = b => Refill(a, b) = 0
           /\ RefilledWhenPruned /\ b - a > TTL => Refill(a, b) >= Burst
<1>1. Rate \in Nat /\ Rate >= 1 /\ TTL \in Nat /\ Burst \in Nat
  BY LimiterAssumption
<1>2. \A d \in Int : Rate * d \in Int
  BY <1>1
<1>3. \A d \in Nat : Rate * d \in Nat /\ (d = 0 => Rate * d = 0)
  BY <1>1
<1>4. a <= b => b - a \in Nat
  OBVIOUS
<1>5. ASSUME RefilledWhenPruned, b - a > TTL PROVE Rate * (b - a) >= Burst
  <2> DEFINE d == b - a - TTL
  <2>1. d \in Nat /\ b - a = d + TTL
    BY <1>1, <1>5
  <2>2. Rate * (d + TTL) = Rate * d + Rate * TTL
    BY <1>1, <2>1
  <2> QED  BY <1>1, <1>3, <1>5, <2>1, <2>2 DEF RefilledWhenPruned
<1> QED  BY <1>1, <1>2, <1>3, <1>4, <1>5 DEF Refill

\* What a refill adds to a bucket of t tokens it adds to the window as well.
LEMMA RefillThrough ==
    ASSUME NEW g \in Int, NEW l \in Int, NEW n \in Int,
           NEW s \in Int, NEW t \in Int, NEW b \in Int
    PROVE  /\ Refill(l, n) \in Int /\ Refill(g, n) \in Int
           /\ s + t <= b + Refill(g, l) => s + (t + Refill(l, n)) <= b + Refill(g, n)
           /\ s + t >= b + Refill(g, l) => s + (t + Refill(l, n)) >= b + Refill(g, n)
<1>1. Refill(g, n) = Refill(g, l) + Refill(l, n)
  BY RefillAdds
<1>2. Refill(l, n) \in Int /\ Refill(g, n) \in Int /\ Refill(g, l) \in Int
  BY RefillType
<1> QED  BY <1>1, <1>2

\* The numbers the rate is about.
LEMMA Numbers ==
    ASSUME IInv
    PROVE  /\ now \in Int /\ Burst \in Nat /\ Burst >= 1
           /\ \A ip \in IP : /\ Len(grants[ip]) \in Nat
                             /\ grants[ip] \in Seq(0..MaxTime)
                             /\ \A i \in 1..Len(grants[ip]) :
                                  grants[ip][i] \in Int /\ Since(ip, i) \in Int
           /\ \A ip \in DOMAIN limiters : /\ limiters[ip].tokens \in Nat
                                          /\ limiters[ip].last \in Int
                                          /\ limiters[ip].last <= now
                                          /\ ip \in IP
<1>1. MaxTime \in Nat /\ Burst \in Nat /\ Burst >= 1
  BY LimiterAssumption
<1>2. \A ip \in IP : grants[ip] \in Seq(0..MaxTime)
  BY DEF IInv, TypeOK
<1>3. \A ip \in IP : Len(grants[ip]) \in Nat /\ \A i \in 1..Len(grants[ip]) : grants[ip][i] \in Int
  BY <1>1, <1>2
<1>4. \A ip \in DOMAIN limiters : limiters[ip] \in Entry
  BY DEF IInv, TypeOK
<1> QED  BY <1>1, <1>2, <1>3, <1>4 DEF IInv, TypeOK, Entry, Since

\* The bucket that a call finds, as refilled.
LEMMA TokensRefilled ==
    ASSUME IInv, NEW ip \in IP
    PROVE  /\ ip \notin Kept => Tokens(ip) = Burst
           /\ ip \in Kept => LET t == limiters[ip].tokens + Refill(limiters[ip].last, now)
                             IN  Tokens(ip) = IF t > Burst THEN Burst ELSE t
           /\ Tokens(ip) \in Nat
BY TokensType, LimiterAssumption DEF Tokens, Refill

\* An address that has no bucket, or whose bucket is pruned by this very call,
\* has nothing left to refill.
LEMMA AbsentRefilled ==
    ASSUME RefilledWhenPruned, IInv, RInv, NEW ip \in IP, ip \notin Kept,
           NEW i \in 1..Len(grants[ip])
    PROVE  Since(ip, i) <= Refill(grants[ip][i], now)
<1>1. CASE ip \notin DOMAIN limiters
  BY <1>1 DEF RInv, Paced
<1>2. CASE ip \in DOMAIN limiters
  <2>1. PICK g, l, t : g = grants[ip][i] /\ l = limiters[ip].last /\ t = limiters[ip].tokens
    OBVIOUS
  <2>2. now \in Int /\ Burst \in Nat /\ g \in Int /\ l \in Int /\ t \in Nat /\ Since(ip, i) \in Int
    BY <1>2, <2>1, Numbers
  <2>3. now - l > TTL
    <3>1. ~(now - limiters[ip].seen <= TTL)
      BY <1>2 DEF Kept
    <3>2. limiters[ip].seen = l
      BY <1>2, <2>1 DEF RInv, SeenLast
    <3>3. TTL \in Int
      BY LimiterAssumption
    <3> QED  BY <2>2, <3>1, <3>2, <3>3
  <2>4. Since(ip, i) + t <= Burst + Refill(g, l)
    BY <1>2, <2>1 DEF RInv, Paced
  <2>5. Refill(l, now) >= Burst
    BY <2>2, <2>3, RefillType, Zenon
  <2>6. /\ Refill(l, now) \in Int /\ Refill(g, now) \in Int
        /\ Since(ip, i) + (t + Refill(l, now)) <= Burst + Refill(g, now)
    <3>1. Burst \in Int /\ t \in Int
      BY <2>2
    <3> QED  BY <2>2, <2>4, <3>1, RefillThrough, Zenon
  <2>7. Since(ip, i) <= Refill(g, now)
    BY <2>2, <2>5, <2>6
  <2> QED  BY <2>1, <2>7
<1> QED  BY <1>1, <1>2

\* The refilled bucket and what was taken before keep to the rate.
LEMMA CallPaced ==
    ASSUME RefilledWhenPruned, IInv, RInv, NEW ip \in IP, NEW i \in 1..Len(grants[ip])
    PROVE  Since(ip, i) + Tokens(ip) <= Burst + Refill(grants[ip][i], now)
<1>1. PICK g : g = grants[ip][i]
  OBVIOUS
<1>2. /\ now \in Int /\ Burst \in Nat /\ g \in Int /\ Since(ip, i) \in Int
      /\ Refill(g, now) \in Int /\ Tokens(ip) \in Nat
  BY <1>1, Numbers, RefillType, TokensRefilled, Zenon
<1>3. CASE ip \notin Kept
  <2>1. Since(ip, i) <= Refill(g, now) /\ Tokens(ip) = Burst
    BY <1>1, <1>3, AbsentRefilled, TokensRefilled
  <2> QED  BY <1>1, <1>2, <2>1
<1>4. CASE ip \in Kept
  <2>1. PICK l, t : l = limiters[ip].last /\ t = limiters[ip].tokens
    BY Zenon
  <2>2. ip \in DOMAIN limiters /\ l \in Int /\ t \in Nat
    BY <1>4, <2>1, KeptSubset, Numbers
  <2>3. Since(ip, i) + t <= Burst + Refill(g, l)
    BY <1>1, <2>1, <2>2 DEF RInv, Paced
  <2>4. /\ Refill(l, now) \in Int
        /\ Since(ip, i) + (t + Refill(l, now)) <= Burst + Refill(g, now)
    <3>1. Burst \in Int /\ t \in Int
      BY <1>2, <2>2
    <3> QED  BY <1>2, <2>2, <2>3, <3>1, RefillThrough, Zenon
  <2>5. Tokens(ip) <= t + Refill(l, now)
    <3>1. Tokens(ip) = IF t + Refill(l, now) > Burst THEN Burst ELSE t + Refill(l, now)
      BY <1>4, <2>1, TokensRefilled, Zenon
    <3> QED  BY <1>2, <2>2, <2>4, <3>1
  <2> QED  BY <1>1, <1>2, <2>2, <2>4, <2>5
<1> QED  BY <1>3, <1>4

\* A bucket that is not full has not overflowed since some connection.
LEMMA CallTight ==
    ASSUME IInv, RInv, NEW ip \in IP, Tokens(ip) < Burst
    PROVE  \E i \in 1..Len(grants[ip]) :
             Since(ip, i) + Tokens(ip) = Burst + Refill(grants[ip][i], now)
<1>1. now \in Int /\ Burst \in Nat /\ Tokens(ip) \in Nat
  BY Numbers, TokensRefilled
<1>2. ip \in Kept
  BY <1>1, TokensRefilled
<1>3. PICK l, t : l = limiters[ip].last /\ t = limiters[ip].tokens
  OBVIOUS
<1>4. ip \in DOMAIN limiters /\ l \in Int /\ t \in Nat
  BY <1>2, <1>3, KeptSubset, Numbers
<1>5. PICK i \in 1..Len(grants[ip]) : Since(ip, i) + t = Burst + Refill(grants[ip][i], l)
  BY <1>3, <1>4 DEF RInv, Tight
<1>6. PICK g : g = grants[ip][i]
  OBVIOUS
<1>7. g \in Int /\ Since(ip, i) \in Int
  BY <1>6, Numbers
<1>8. /\ Refill(l, now) \in Int
      /\ Since(ip, i) + (t + Refill(l, now)) = Burst + Refill(g, now)
  <2>1. Burst \in Int /\ t \in Int
    BY <1>1, <1>4
  <2>2. Refill(g, l) \in Int
    BY <1>4, <1>7, RefillType, Zenon
  <2>3. /\ Since(ip, i) + t <= Burst + Refill(g, l)
        /\ Since(ip, i) + t >= Burst + Refill(g, l)
    <3>1. PICK x \in Int, s \in Int : x = Refill(g, l) /\ s = Since(ip, i)
      BY <1>7, <2>2, Zenon
    <3>2. s + t = Burst + x
      BY <1>5, <1>6, <3>1, Zenon
    <3>3. s + t <= Burst + x /\ s + t >= Burst + x
      BY <2>1, <3>2
    <3> QED  BY <3>1, <3>3, Zenon
  <2>4. /\ Refill(l, now) \in Int /\ Refill(g, now) \in Int
        /\ Since(ip, i) + (t + Refill(l, now)) <= Burst + Refill(g, now)
        /\ Since(ip, i) + (t + Refill(l, now)) >= Burst + Refill(g, now)
    BY <1>1, <1>4, <1>7, <2>1, <2>3, RefillThrough, Zenon
  <2> QED  BY <1>7, <2>1, <2>4
<1>9. Tokens(ip) = t + Refill(l, now)
  BY <1>1, <1>2, <1>3, <1>4, <1>8, TokensRefilled
<1>10. Since(ip, i) + Tokens(ip) = Burst + Refill(g, now)
  BY <1>8, <1>9, Zenon
<1> QED  BY <1>6, <1>10

LEMMA RateInit == Init => RInv
<1> SUFFICES ASSUME Init PROVE RInv
  OBVIOUS
<1>1. DOMAIN limiters = {}
  BY DEF Init
<1>2. \A ip \in IP : Len(grants[ip]) = 0 /\ DOMAIN grants[ip] = {}
  BY DEF Init
<1>3. Paced
  BY <1>2 DEF Paced
<1>4. Throttled
  BY <1>2 DEF Throttled, Within
<1> QED  BY <1>1, <1>3, <1>4 DEF RInv, Tight, SeenLast

\* The clock only widens the windows of the addresses without a bucket.
LEMMA RateTick ==
    ASSUME IInv, RInv, Tick
    PROVE  RInv'
<1>1. now' = now + 1 /\ limiters' = limiters /\ grants' = grants
  BY DEF Tick
<1>2. ASSUME NEW ip \in IP, NEW i \in 1..Len(grants[ip]), Since(ip, i) <= Refill(grants[ip][i], now)
      PROVE  Since(ip, i) <= Refill(grants[ip][i], now + 1)
  <2>1. PICK g : g = grants[ip][i]
    OBVIOUS
  <2>2. now \in Int /\ now + 1 \in Int /\ g \in Int /\ Since(ip, i) \in Int
    BY <2>1, Numbers
  <2>3. Refill(g, now + 1) = Refill(g, now) + Refill(now, now + 1)
    BY <2>2, RefillAdds, Zenon
  <2>4. Refill(g, now) \in Int /\ Refill(now, now + 1) \in Int /\ Refill(now, now + 1) >= 0
    <3>1. now <= now + 1
      BY <2>2
    <3> QED  BY <2>2, <3>1, RefillType, Zenon
  <2>5. Since(ip, i) <= Refill(g, now + 1)
    BY <1>2, <2>1, <2>2, <2>3, <2>4
  <2> QED  BY <2>1, <2>5
<1>3. RefilledWhenPruned => Paced'
  BY <1>1, <1>2 DEF RInv, Paced, Since
<1>4. Tight' /\ SeenLast' /\ (RefilledWhenPruned => Throttled')
  BY <1>1 DEF RInv, Tight, SeenLast, Throttled, Since
<1> QED  BY <1>3, <1>4 DEF RInv

\* What a call does to the grants and the bucket of its own address.
LEMMA CallerKeeps ==
    ASSUME IInv, RInv, NEW ip \in IP, NEW G, NEW k \in Int,
           G = IF Tokens(ip) >= 1 THEN Append(grants[ip], now) ELSE grants[ip],
           k = Taken(Tokens(ip))
    PROVE  /\ \E i \in 1..Len(G) : (Len(G) - i + 1) + k = Burst + Refill(G[i], now)
           /\ RefilledWhenPruned =>
                /\ \A i \in 1..Len(G) : (Len(G) - i + 1) + k <= Burst + Refill(G[i], now)
                /\ Within(G)
<1> DEFINE L == Len(grants[ip])
<1>1. PICK T \in Int : T = Tokens(ip)
  BY TokensRefilled
<1>2. /\ T \in 0..Burst /\ now \in Int /\ Burst \in Nat /\ Burst >= 1
      /\ L \in Nat /\ grants[ip] \in Seq(0..MaxTime)
  BY <1>1, Numbers, TokensType
<1>3. Refill(now, now) = 0
  BY <1>2, RefillType, Zenon
<1>4. \A i \in 1..L : /\ Refill(grants[ip][i], now) \in Int
                      /\ RefilledWhenPruned =>
                           (L - i + 1) + T <= Burst + Refill(grants[ip][i], now)
  BY <1>1, <1>2, CallPaced, Numbers, RefillType, Zenon DEF Since
<1>5. T < Burst => \E i \in 1..L : (L - i + 1) + T = Burst + Refill(grants[ip][i], now)
  BY <1>1, CallTight DEF Since
<1>6. ASSUME RefilledWhenPruned
      PROVE  \A i, j \in 1..L : i <= j => j - i + 1 <= Burst + Refill(grants[ip][i], grants[ip][j])
  <2>1. Within(grants[ip])
    BY <1>6, Zenon DEF RInv, Throttled
  <2>2. DOMAIN grants[ip] = 1..L
    BY <1>2
  <2> QED  BY <2>1, <2>2, Zenon DEF Within, Refill
<1>7. CASE T >= 1
  <2>1. k = T - 1 /\ G = Append(grants[ip], now)
    BY <1>1, <1>7 DEF Taken
  <2>2. /\ Len(G) = L + 1 /\ DOMAIN G = 1..(L + 1)
        /\ G[L + 1] = now /\ \A i \in 1..L : G[i] = grants[ip][i]
    <3>1. now \in 0..MaxTime
      BY DEF IInv, TypeOK
    <3> QED  BY <1>2, <2>1, <3>1
  <2>3. \A i \in 1..(L + 1) : i \in 1..L \/ i = L + 1
    BY <1>2
  <2>4. ASSUME RefilledWhenPruned, NEW i \in 1..(L + 1)
        PROVE  ((L + 1) - i + 1) + k <= Burst + Refill(G[i], now)
    <3>1. CASE i \in 1..L
      <4>1. PICK r \in Int : r = Refill(grants[ip][i], now)
        BY <1>4, <3>1, Zenon
      <4>2. ((L + 1) - i + 1) + (T - 1) <= Burst + r
        <5>1. (L - i + 1) + T <= Burst + r
          BY <1>4, <2>4, <3>1, <4>1, Zenon
        <5>2. L \in Nat /\ i \in 1..L /\ Burst \in Nat
          BY <1>2, <3>1, Zenon
        <5> HIDE DEF L
        <5> QED  BY <5>1, <5>2
      <4> QED  BY <2>1, <2>2, <3>1, <4>1, <4>2
    <3>2. CASE i = L + 1
      BY <1>2, <1>3, <2>1, <2>2, <3>2
    <3> QED  BY <2>3, <3>1, <3>2
  <2>5. \E i \in 1..(L + 1) : ((L + 1) - i + 1) + k = Burst + Refill(G[i], now)
    <3>1. CASE T < Burst
      <4>1. PICK i \in 1..L : (L - i + 1) + T = Burst + Refill(grants[ip][i], now)
        BY <1>5, <3>1
      <4>2. PICK r \in Int : r = Refill(grants[ip][i], now)
        BY <1>4
      <4>3. ((L + 1) - i + 1) + (T - 1) = Burst + r /\ i \in 1..(L + 1)
        <5>1. (L - i + 1) + T = Burst + r
          BY <4>1, <4>2, Zenon
        <5>2. L \in Nat /\ Burst \in Nat
          BY <1>2, Zenon
        <5> HIDE DEF L
        <5> QED  BY <5>1, <5>2
      <4> QED  BY <2>1, <2>2, <4>2, <4>3
    <3>2. CASE T = Burst
      <4>1. L + 1 \in 1..(L + 1) /\ ((L + 1) - (L + 1) + 1) + k = Burst + 0
        BY <1>2, <2>1, <3>2
      <4> QED  BY <1>3, <2>2, <4>1, Zenon
    <3>3. T < Burst \/ T = Burst
      <4>1. T \in 0..Burst /\ Burst \in Nat
        BY <1>2, Zenon
      <4> QED  BY <4>1
    <3> QED  BY <3>1, <3>2, <3>3, Zenon
  <2>6. ASSUME RefilledWhenPruned, NEW i \in 1..(L + 1), NEW j \in 1..(L + 1), i <= j
        PROVE  j - i + 1 <= Burst + Refill(G[i], G[j])
    <3>1. CASE j \in 1..L
      <4>1. i \in 1..L
        BY <1>2, <2>6, <3>1
      <4> QED  BY <1>6, <2>2, <2>6, <3>1, <4>1, Zenon
    <3>2. CASE j = L + 1 /\ i \in 1..L
      <4>1. PICK r \in Int : r = Refill(grants[ip][i], now)
        BY <1>4, <3>2
      <4>2. (L + 1) - i + 1 <= Burst + r
        <5>1. (L - i + 1) + T <= Burst + r
          BY <1>4, <2>6, <3>2, <4>1, Zenon
        <5>2. L \in Nat /\ i \in 1..L /\ Burst \in Nat
          BY <1>2, <3>2, Zenon
        <5> HIDE DEF L
        <5> QED  BY <1>7, <5>1, <5>2
      <4> QED  BY <2>2, <3>2, <4>1, <4>2
    <3>3. CASE j = L + 1 /\ i = L + 1
      BY <1>2, <1>3, <2>2, <3>3
    <3> QED  BY <2>3, <3>1, <3>2, <3>3
  <2>7. RefilledWhenPruned => Within(G)
    BY <2>2, <2>6, Zenon DEF Within, Refill
  <2> QED  BY <2>2, <2>4, <2>5, <2>7, Zenon
<1>8. CASE ~(T >= 1)
  <2>1. k = T /\ G = grants[ip] /\ T < Burst
    BY <1>1, <1>2, <1>8 DEF Taken
  <2>2. RefilledWhenPruned => Within(G)
    BY <2>1 DEF RInv, Throttled
  <2> QED  BY <1>4, <1>5, <2>1, <2>2
<1> QED  BY <1>7, <1>8, Zenon

\* Every other address keeps its bucket and its grants, or loses its bucket
\* to pruning when it has refilled, or is forgotten altogether.
LEMMA RateAllow ==
    ASSUME IInv, RInv, NEW ip \in IP, allowIP(ip)
    PROVE  RInv'
<1> DEFINE used == [tokens |-> Taken(Tokens(ip)), last |-> now, seen |-> now]
<1>1. PICK gone \in Evicted(ip) :
        /\ limiters' = [i \in (Kept \ gone) \cup {ip} |-> IF i = ip THEN used ELSE limiters[i]]
        /\ grants' = [i \in IP |-> IF i \in gone THEN <<>>
                                   ELSE IF i = ip /\ Tokens(ip) >= 1 THEN Append(grants[i], now)
                                   ELSE grants[i]]
        /\ now' = now
  BY DEF allowIP
<1>2. ip \notin gone /\ gone \subseteq Kept
  BY <1>1 DEF Evicted, Oldest
<1>3. DOMAIN limiters' = (Kept \ gone) \cup {ip} /\ limiters'[ip] = used
  BY <1>1
<1>4. grants'[ip] = IF Tokens(ip) >= 1 THEN Append(grants[ip], now) ELSE grants[ip]
  BY <1>1, <1>2
<1>5. Taken(Tokens(ip)) \in Int
  BY TokensRefilled DEF Taken
<1> DEFINE G == grants'[ip]
           k == Taken(Tokens(ip))
<1>6. /\ \E i \in 1..Len(G) : (Len(G) - i + 1) + k = Burst + Refill(G[i], now)
      /\ RefilledWhenPruned =>
           /\ \A i \in 1..Len(G) : (Len(G) - i + 1) + k <= Burst + Refill(G[i], now)
           /\ Within(G)
  BY <1>4, <1>5, CallerKeeps, Zenon
<1>7. used.tokens = k /\ used.last = now /\ used.seen = now
  OBVIOUS
<1>8. \A a \in DOMAIN limiters' : a # ip => /\ a \in DOMAIN limiters /\ a \in IP
                                            /\ limiters'[a] = limiters[a]
                                            /\ grants'[a] = grants[a]
  BY <1>1, <1>3, KeptSubset DEF IInv, TypeOK
<1>9. SeenLast'
  BY <1>3, <1>7, <1>8 DEF RInv, SeenLast
<1>10. ASSUME RefilledWhenPruned PROVE Throttled'
  <2>1. \A a \in IP : a # ip => grants'[a] = grants[a] \/ grants'[a] = <<>>
    BY <1>1
  <2>2. Within(<<>>)
    BY DEF Within
  <2> QED  BY <1>6, <1>10, <2>1, <2>2 DEF RInv, Throttled
<1>11. Tight'
  <2> SUFFICES ASSUME NEW a \in DOMAIN limiters'
               PROVE  \E i \in 1..Len(grants'[a]) :
                        (Len(grants'[a]) - i + 1) + limiters'[a].tokens
                          = Burst + Refill(grants'[a][i], limiters'[a].last)
    BY DEF Tight, Since, Refill
  <2>1. CASE a = ip
    BY <1>3, <1>6, <1>7, <2>1
  <2>2. CASE a # ip
    BY <1>8, <2>2, Zenon DEF RInv, Tight, Since
  <2> QED  BY <2>1, <2>2
<1>12. ASSUME RefilledWhenPruned PROVE Paced'
  <2> SUFFICES ASSUME NEW a \in IP, NEW i \in 1..Len(grants'[a])
               PROVE  IF a \in DOMAIN limiters'
                      THEN (Len(grants'[a]) - i + 1) + limiters'[a].tokens
                             <= Burst + Refill(grants'[a][i], limiters'[a].last)
                      ELSE Len(grants'[a]) - i + 1 <= Refill(grants'[a][i], now)
    BY <1>1, Zenon DEF Paced, Since, Refill
  <2>1. CASE a = ip
    BY <1>3, <1>6, <1>7, <1>12, <2>1
  <2>2. CASE a # ip /\ a \in DOMAIN limiters'
    BY <1>8, <1>12, <2>2, Zenon DEF RInv, Paced, Since
  <2>3. CASE a # ip /\ a \notin DOMAIN limiters'
    <3>1. a \notin gone
      <4>1. a \in gone => Len(grants'[a]) = 0
        BY <1>1
      <4> QED  BY <4>1
    <3>2. a \notin Kept /\ grants'[a] = grants[a]
      BY <1>1, <1>3, <2>3, <3>1
    <3> QED  BY <1>12, <2>3, <3>2, AbsentRefilled DEF Since
  <2> QED  BY <2>1, <2>2, <2>3
<1> QED  BY <1>9, <1>10, <1>11, <1>12 DEF RInv

LEMMA RateStep ==
    ASSUME IInv, RInv, [Next]_vars
    PROVE  RInv'
<1>1. CASE Tick
  BY <1>1, RateTick
<1>2. ASSUME NEW ip \in IP, allowIP(ip) PROVE RInv'
  BY <1>2, RateAllow
<1>3. CASE UNCHANGED vars
  BY <1>3 DEF vars, RInv, Paced, Tight, SeenLast, Throttled, Since
<1> QED  BY <1>1, <1>2, <1>3 DEF Next

\* A call that is turned away found no token, and the connections since the
\* last full bucket are then as many as the rate allows.
LEMMA DeniedStep ==
    ASSUME IInv, RInv, NEW ip \in IP, allowIP(ip), grants'[ip] = grants[ip]
    PROVE  ~Within(Append(grants[ip], now))
<1> DEFINE L == Len(grants[ip])
           G == Append(grants[ip], now)
<1>1. /\ now \in 0..MaxTime /\ now \in Int /\ Burst \in Nat /\ Burst >= 1 /\ L \in Nat
      /\ grants[ip] \in Seq(0..MaxTime)
  BY Numbers DEF IInv, TypeOK
<1>2. Len(G) = L + 1 /\ G[L + 1] = now /\ DOMAIN G = 1..(L + 1)
      /\ \A i \in 1..L : G[i] = grants[ip][i]
  BY <1>1
<1>3. Tokens(ip) = 0
  <2>1. ~(Tokens(ip) >= 1)
    <3>1. PICK gone \in Evicted(ip) :
            grants' = [i \in IP |-> IF i \in gone THEN <<>>
                                    ELSE IF i = ip /\ Tokens(ip) >= 1 THEN Append(grants[i], now)
                                    ELSE grants[i]]
      BY DEF allowIP
    <3>2. ip \notin gone
      BY <3>1 DEF Evicted, Oldest
    <3>3. Tokens(ip) >= 1 => grants'[ip] = G
      BY <3>1, <3>2
    <3>4. G # grants[ip]
      BY <1>1, <1>2
    <3> QED  BY <3>3, <3>4
  <2> QED  BY <2>1, TokensRefilled
<1>4. PICK i \in 1..L : (L - i + 1) + 0 = Burst + Refill(grants[ip][i], now)
  BY <1>1, <1>3, CallTight DEF Since
<1>5. PICK r \in Int : r = Refill(grants[ip][i], now)
  BY <1>1, Numbers, RefillType, Zenon
<1>6. (L + 1) - i + 1 > Burst + r /\ i <= L + 1 /\ i \in 1..(L + 1) /\ L + 1 \in 1..(L + 1)
  BY <1>1, <1>4, <1>5
<1>7. ~((L + 1) - i + 1 <= Burst + r)
  BY <1>1, <1>6
<1>8. ~((L + 1) - i + 1 <= Burst + Rate * (G[L + 1] - G[i]))
  BY <1>2, <1>5, <1>7 DEF Refill
<1> QED  BY <1>2, <1>6, <1>8, Zenon DEF Within

-----------------------------------------------------------------------------
\* The limiter's inductive invariant.
THEOREM LimiterInvariant == Spec => []IInv
BY LimiterInit, LimiterStep, PTL DEF Spec

\* A bucket of the limiter never holds a negative number of tokens nor more
\* than a burst, whatever the refill between two calls.
THEOREM LimiterTypeOK == Spec => []TypeOK
<1>1. IInv => TypeOK
  BY DEF IInv
<1> QED  BY <1>1, LimiterInvariant, PTL

\* allowIP keeps the table within MaxIPEntries for any number of addresses.
THEOREM LimiterTableBounded == Spec => []TableBounded
<1>1. IInv => TableBounded
  BY DEF IInv
<1> QED  BY <1>1, LimiterInvariant, PTL

\* The rate, across the refills, the prunings and the evictions of the table.
THEOREM LimiterRate == Spec => [](IInv /\ RInv)
<1>1. Init => IInv /\ RInv
  BY LimiterInit, RateInit
<1>2. IInv /\ RInv /\ [Next]_vars => (IInv /\ RInv)'
  BY LimiterStep, RateStep
<1> QED  BY <1>1, <1>2, PTL DEF Spec

\* Where a bucket has refilled by the time it may be pruned, and however the calls
\* of one address fall between the refills and the prunings, no window of time
\* has more connections of it than a burst and what refills during it.
THEOREM LimiterThrottled == ASSUME RefilledWhenPruned PROVE Spec => []Throttled
<1>1. RInv => Throttled
  BY DEF RInv
<1> QED  BY <1>1, LimiterRate, PTL

\* Whatever the rate, the burst and the pruning age, allowIP turns a connection
\* away only when that bound would be exceeded.
THEOREM LimiterDenies == Spec => DeniedOnlyIfFast
<1>1. ASSUME IInv, RInv, [Next]_vars
      PROVE  [\A ip \in IP : allowIP(ip) /\ grants'[ip] = grants[ip]
                              => ~Within(Append(grants[ip], now))]_vars
  BY <1>1, DeniedStep
<1> QED  BY <1>1, LimiterRate, PTL DEF Spec, DeniedOnlyIfFast
=============================================================================
