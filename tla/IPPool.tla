------------------------------- MODULE IPPool -------------------------------
(***************************************************************************)
(* The tunnel address pool (ippool.go) as operators over pool values, one  *)
(* per method.  Every method runs under the pool's mutex, so each is one   *)
(* atomic step of whoever calls it.  An address is its offset in the       *)
(* subnet: 0 is the network address.  An IPv4 pool walks the subnet from   *)
(* below; an IPv6 pool tries, in order, the addresses hashed from the      *)
(* client's id (eight of them in the code).                                *)
(***************************************************************************)
EXTENDS UserDB, FiniteSets

CONSTANTS
    Subnet,     \* [Family -> SUBSET Nat], the offsets the prefix contains
    Reserved,   \* [Family -> SUBSET Nat], fixed by newIPPool at startup
    NoAddr,     \* the invalid netip.Addr
    Hash        \* [Client -> Seq(Nat)], v6FromClientID for each round

ASSUME PoolAssumption ==
    /\ Family \subseteq {"v4", "v6"}
    /\ Subnet \in [Family -> SUBSET Nat]
    /\ Reserved \in [Family -> SUBSET Nat]
    /\ NoAddr \notin Nat
    /\ Hash \in [Client -> Seq(Nat)]

\* Every offset of some subnet.
Offset == UNION {Subnet[f] : f \in Family}

Addr == Offset \cup {NoAddr}

PoolType == [used : SUBSET Offset, byClient : [Client -> Addr]]

EmptyPool == [used |-> {}, byClient |-> [k \in Client |-> NoAddr]]

\* The least member of S, as a set: empty when S is.
Least(S) == {a \in S : \A b \in S : a <= b}

\* The first element of seq that is in S, or NoAddr.
FirstIn(seq, S) ==
    LET hit == Least({i \in DOMAIN seq : seq[i] \in S})
    IN  IF hit = {} THEN NoAddr ELSE seq[CHOOSE i \in hit : TRUE]

\* The lowest address in S, or NoAddr.
Lowest(S) == IF Least(S) = {} THEN NoAddr ELSE CHOOSE a \in Least(S) : TRUE

-----------------------------------------------------------------------------
OtherUserReserved(db, f, user, a) ==
    ~db.nil /\ ReservationOwner(db, f, a) \notin {NoUser, user}

\* Mutant: the subnet check is missing.
HonouredAnywhere(p, f, user, preferred, db) ==
    /\ preferred \notin p.used \cup Reserved[f] \cup {NoAddr}
    /\ ~OtherUserReserved(db, f, user, preferred)

\* Mutant: addresses set aside at startup are not looked at.
HonouredIfFree(p, f, user, preferred, db) ==
    /\ preferred \in Subnet[f] \ p.used
    /\ ~OtherUserReserved(db, f, user, preferred)

\* The requested address is granted when it is in the subnet, free, not
\* another user's, and either unreserved or reserved by this very user.
Honoured(p, f, user, preferred, db) ==
    /\ preferred \in Subnet[f] \ p.used
    /\ ~OtherUserReserved(db, f, user, preferred)
    /\ preferred \in Reserved[f]
         => ~db.nil /\ ReservationOwner(db, f, preferred) = user

OwnReservation(p, f, user, db) ==
    IF db.nil \/ user = NoUser
    THEN NoAddr
    ELSE FirstIn(ReservedFor(db, user, f), Subnet[f] \ p.used)

\* Mutant: the walk does not skip used addresses.
PoolWalkUsed(p, f, k) ==
    LET free == Subnet[f] \ Reserved[f]
    IN  IF f = "v6" THEN FirstIn(Hash[k], free) ELSE Lowest(free \ {0})

\* The lowest free unreserved host address, or the first free hashed one.
PoolWalk(p, f, k) ==
    LET free == Subnet[f] \ (Reserved[f] \cup p.used)
    IN  IF f = "v6" THEN FirstIn(Hash[k], free) ELSE Lowest(free \ {0})

\* The order of AllocateFor for a client that has no sticky address.
Choice(p, f, user, k, preferred, db) ==
    IF Honoured(p, f, user, preferred, db) THEN preferred
    ELSE IF OwnReservation(p, f, user, db) # NoAddr
         THEN OwnReservation(p, f, user, db)
         ELSE PoolWalk(p, f, k)

Grant(p, k, a) ==
    [used |-> p.used \cup {a}, byClient |-> [p.byClient EXCEPT ![k] = a]]

\* The address AllocateFor returns (NoAddr stands for its error) ...
Allocated(p, f, user, k, preferred, db) ==
    IF p.byClient[k] # NoAddr THEN p.byClient[k]
                              ELSE Choice(p, f, user, k, preferred, db)

\* Mutant: a repeated allocation gives the old address up for a new one.
AllocateAfresh(p, f, user, k, preferred, db) ==
    LET a == Choice(p, f, user, k, preferred, db)
        q == [p EXCEPT !.used = @ \ {p.byClient[k]}]
    IN  IF a = NoAddr THEN p ELSE Grant(q, k, a)

\* ... and the pool it leaves behind.
AllocateFor(p, f, user, k, preferred, db) ==
    LET a == Choice(p, f, user, k, preferred, db)
    IN  IF p.byClient[k] # NoAddr \/ a = NoAddr THEN p ELSE Grant(p, k, a)

Claim(p, k, a) == IF a = NoAddr THEN p ELSE Grant(p, k, a)

\* Mutant: the address stays marked used.
ReleaseHalf(p, k) == [used |-> p.used, byClient |-> [p.byClient EXCEPT ![k] = NoAddr]]

Release(p, k) ==
    IF p.byClient[k] = NoAddr
    THEN p
    ELSE [used |-> p.used \ {p.byClient[k]}, byClient |-> [p.byClient EXCEPT ![k] = NoAddr]]
=============================================================================
