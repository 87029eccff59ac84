----------------------- MODULE MultiClientAddresses -------------------------
(***************************************************************************)
(* Tunnel addresses of the multi-client server.  In a calm environment no  *)
(* address is released that a session or another connection of its client  *)
(* uses; then sessions have their addresses to themselves, lanes agree     *)
(* with them, and a pool is exhausted only when its hosts are held.  That  *)
(* addresses set aside at startup stay with who reserves them needs no     *)
(* calm.                                                                   *)
(***************************************************************************)
EXTENDS MultiClientProofs, WellFoundedInduction

-----------------------------------------------------------------------------
(* More about the operators of IPPool and UserDB *)

\* A non-empty set of naturals has a least member.
LEMMA LeastExists ==
    ASSUME NEW S \in SUBSET Nat, S # {}
    PROVE  Least(S) # {}
<1> DEFINE R == {ss \in Nat \X Nat : ss[1] < ss[2]}
<1>1. IsWellFoundedOn(R, Nat)
  BY NatLessThanWellFounded DEF OpToRel
<1> HIDE DEF R
<1>2. PICK x \in S : \A y \in S : ~(<<y, x>> \in R)
  BY <1>1, WFMin, Zenon
<1>3. ASSUME NEW y \in S PROVE x <= y
  <2>1. y < x => <<y, x>> \in R
    BY DEF R
  <2> QED
    BY <2>1, <1>2
<1> QED
  BY <1>3 DEF Least

\* Every list that passes the checks of NewUserDB makes such a database.
LEMMA ValidReservedOnce ==
    ASSUME NEW list \in Seq(UserType), ValidUsers(list)
    PROVE  NewUserDB(list) \in DBType /\ ReservedOnce(NewUserDB(list))
<1>1. NewUserDB(list).users = {list[i] : i \in DOMAIN list} /\ NewUserDB(list).nil = FALSE
  BY DEF NewUserDB, Range
<1>2. \A i, j \in DOMAIN list : i # j => \A f \in Family :
        Range(list[i].reserved[f]) \cap Range(list[j].reserved[f]) = {}
  BY Zenon DEF ValidUsers
<1>3. ReservedOnce(NewUserDB(list))
  BY <1>1, <1>2, Zenon DEF ReservedOnce
<1>4. {list[i] : i \in DOMAIN list} \subseteq UserType
  OBVIOUS
<1> QED  BY <1>3, <1>4 DEF NewUserDB, DBType, Range

\* An address among a user's reservations is that user's alone.
LEMMA OwnReservationOwned ==
    ASSUME NEW q \in PoolType, NEW f \in Family, NEW user \in Names,
           NEW d \in DBType, ReservedOnce(d), OwnReservation(q, f, user, d) # NoAddr
    PROVE  ReservationOwner(d, f, OwnReservation(q, f, user, d)) = user
<1> DEFINE s == ReservedFor(d, user, f)
           S == Subnet[f] \ q.used
           a == OwnReservation(q, f, user, d)
           hit == Least({i \in DOMAIN s : s[i] \in S})
<1>1. a = FirstIn(s, S) /\ s \in Seq(Nat)
  BY ReservedForType DEF OwnReservation
<1>2. hit # {} /\ a = s[CHOOSE i \in hit : TRUE]
  BY <1>1, Zenon DEF FirstIn
<1>3. PICK i \in DOMAIN s : a = s[i]
  <2>1. hit \subseteq DOMAIN s
    BY DEF Least
  <2> HIDE DEF hit
  <2>2. (CHOOSE i \in hit : TRUE) \in hit
    BY <1>2
  <2> QED  BY <1>2, <2>1, <2>2, Zenon
<1>4. a \in Range(s) /\ s # <<>>
  BY <1>1, <1>3 DEF Range
<1>5. Known(d, user) /\ s = UserNamed(d, user).reserved[f]
  BY <1>4 DEF ReservedFor
<1>6. PICK u : u = UserNamed(d, user)
  OBVIOUS
<1>7. u \in d.users /\ u.name = user /\ a \in Range(u.reserved[f])
  BY <1>4, <1>5, <1>6 DEF Known, UserNamed
<1>8. \A v \in d.users : a \in Range(v.reserved[f]) => v = u
  BY <1>7 DEF ReservedOnce
<1>9. (CHOOSE v \in d.users : a \in Range(v.reserved[f])) = u
  BY <1>7, <1>8
<1> QED  BY <1>7, <1>9, Zenon DEF ReservationOwner

\* What is chosen for a user among the addresses set aside is reserved by it.
LEMMA ChoiceReserved ==
    ASSUME NEW q \in PoolType, NEW f \in Family, NEW user \in Names, NEW k \in Client,
           NEW a, NEW d \in DBType, ReservedOnce(d),
           Choice(q, f, user, k, a, d) \in Reserved[f]
    PROVE  ReservationOwner(d, f, Choice(q, f, user, k, a, d)) = user
<1> DEFINE free == Subnet[f] \ (Reserved[f] \cup q.used)
<1>1. NoAddr \notin Reserved[f]
  BY PoolAssumption
<1>2. PoolWalk(q, f, k) \notin Reserved[f]
  <2>1. FirstIn(Hash[k], free) \in free \cup {NoAddr}
    BY FirstInMember, PoolAssumption
  <2>2. Lowest(free \ {0}) \in free \cup {NoAddr}
    BY LowestMember
  <2> QED
    BY <1>1, <2>1, <2>2 DEF PoolWalk
<1>3. CASE Honoured(q, f, user, a, d)
  BY <1>3 DEF Choice, Honoured
<1>4. CASE ~Honoured(q, f, user, a, d) /\ OwnReservation(q, f, user, d) # NoAddr
  BY <1>4, OwnReservationOwned DEF Choice
<1>5. CASE ~Honoured(q, f, user, a, d) /\ OwnReservation(q, f, user, d) = NoAddr
  BY <1>2, <1>5 DEF Choice
<1> QED  BY <1>3, <1>4, <1>5

\* An IPv4 pool finds an address whenever an unreserved host is free.
LEMMA WalkFinds ==
    ASSUME NEW q, NEW k, "v4" \in Family, PoolWalk(q, "v4", k) = NoAddr
    PROVE  Subnet["v4"] \ {0} \subseteq Reserved["v4"] \cup q.used
<1> DEFINE free == Subnet["v4"] \ (Reserved["v4"] \cup q.used)
<1>1. free \ {0} \in SUBSET Nat /\ NoAddr \notin Nat
  BY PoolAssumption
<1>2. free \ {0} # {} => Least(free \ {0}) # {}
  BY <1>1, LeastExists
<1>3. free \ {0} # {} => Lowest(free \ {0}) \in free
  BY <1>2 DEF Lowest, Least
<1>4. free \ {0} = {}
  BY <1>1, <1>3 DEF PoolWalk
<1> QED  BY <1>4

-----------------------------------------------------------------------------
(* Databases and reservations *)

\* What connection c knows comes from one of the server's databases, and
\* its client is one that dials it.
FromDB(c, h) ==
    /\ h.pc \notin {"idle", "handshake"} => h.client \in Dials[c]
    /\ h.pc \in {"handshake", "assign"} => h.db \in Databases
    /\ h.pc \in {"assign", "acquire"} =>
         \E d \in Databases : h.user = AuthorizedName(d, PeerKey, h.client)

DBInv == db \in Databases /\ \A c \in Conn : FromDB(c, conn[c])

LEMMA DatabaseReserved ==
    ASSUME NEW d \in Databases
    PROVE  d \in DBType /\ ReservedOnce(d)
<1>1. CASE d = InitialDB
  BY <1>1, MultiClientAssumption
<1>2. ASSUME NEW list \in UserLists, ValidUsers(list), d = NewUserDB(list)
      PROVE  d \in DBType /\ ReservedOnce(d)
  BY <1>2, MultiClientAssumption, ValidReservedOnce
<1> QED  BY <1>1, <1>2, Zenon DEF Databases

LEMMA DBMove ==
    ASSUME TypeOK, DBInv, NEW c \in Conn, NEW h, Step(c, h), FromDB(c, h), db' = db
    PROVE  DBInv'
<1>1. \A d \in Conn : conn'[d] = IF d = c THEN h ELSE conn[d]
  BY Zenon DEF TypeOK, Step
<1> QED  BY <1>1, Zenon DEF DBInv, FromDB

\* No other connection is one of client k's.
Sole(c, k) == \A d \in Conn \ {c} : k \notin Dials[d]

\* In a calm environment a connection that has several lanes beside it never
\* comes to release their client's addresses.
LEMMA RefusedSole ==
    ASSUME Calm, NEW c \in Conn, NEW k \in Dials[c],
           c \in MayFail \/ \E d \in Databases : AuthorizedName(d, PeerKey, k) = Unauthorized
    PROVE  Sole(c, k)
<1> SUFFICES ASSUME NEW d \in Conn \ {c}, k \in Dials[d] PROVE FALSE
  BY Zenon DEF Sole
<1>1. c \notin MayFail /\ Steady(k)
  BY Zenon DEF Calm
<1> QED  BY <1>1, UserNames DEF Steady

LEMMA SteadyAdmitted ==
    ASSUME TypeOK, DBInv, NEW k, Steady(k), NEW d \in Databases
    PROVE  Admitted(AuthorizedName(d, PeerKey, k))
<1>1. PICK n \in Names \cup {NoUser} : \A x \in Databases :
        /\ AuthorizedName(x, PeerKey, k) = n
        /\ \A u \in x.users : u.name = n => u.max = 0
  BY Zenon DEF Steady
<1>2. AuthorizedName(db, PeerKey, k) = n /\ \A u \in db.users : u.name = n => u.max = 0
  BY <1>1, Zenon DEF DBInv
<1>3. QuotaApplies => Known(db, n)
  BY <1>2, UserNames DEF QuotaApplies, Known, AuthorizedName
<1>4. Known(db, n) => UserNamed(db, n).max = 0
  BY <1>2 DEF Known, UserNamed
<1> QED  BY <1>1, <1>3, <1>4 DEF Admitted, CanAcquireSlot

-----------------------------------------------------------------------------
(* What the goroutine of a connection does *)

LEMMA HandshakeMoves ==
    ASSUME TypeOK, DBInv, NEW c \in Conn, Handshake(c)
    PROVE  /\ UNCHANGED <<db, sessions, sess, gc, cancelled>>
           /\ \E h : /\ Step(c, h) /\ FromDB(c, h) /\ h.pc # "release"
                     /\ h.pc = "orphan" =>
                          \/ c \in MayFail
                          \/ \E d \in Databases : AuthorizedName(d, PeerKey, h.client) = Unauthorized
<1> USE DEF users, tables
<1>0. conn[c] \in ConnType /\ NoConnection.pc = "idle" /\ FromDB(c, conn[c]) /\ db \in Databases
  BY Zenon DEF TypeOK, NoConnection, DBInv
<1>1. UNCHANGED <<db, sessions, sess, gc, cancelled>>
  BY Zenon DEF Handshake, Accept, HandshakeFails, Refuse, Authorize, Assign, HandshakeOK,
               NoAssignment, WriteFails
<1> DEFINE Fine(h) ==
      /\ Step(c, h) /\ FromDB(c, h) /\ h.pc # "release"
      /\ h.pc = "orphan" =>
           \/ c \in MayFail
           \/ \E d \in Databases : AuthorizedName(d, PeerKey, h.client) = Unauthorized
<1>2. CASE Accept(c)
  <2> DEFINE h == [NoConnection EXCEPT !.pc = "handshake", !.permit = TRUE, !.db = db]
  <2>1. Step(c, h) /\ h.pc = "handshake" /\ h.db = db
    BY <1>2 DEF Accept, NoConnection
  <2> HIDE DEF h
  <2>2. Fine(h)
    BY <1>0, <2>1, Zenon DEF FromDB
  <2> QED  BY <1>1, <2>2, Zenon
<1>3. CASE HandshakeFails(c) \/ NoAssignment(c)
  <2>1. Fine(NoConnection)
    BY <1>0, <1>3, Zenon DEF HandshakeFails, NoAssignment, Return, FromDB
  <2> QED  BY <1>1, <2>1, Zenon
<1>4. ASSUME NEW k \in Dials[c], Refuse(c, k) PROVE \E h : Fine(h)
  <2> DEFINE h == [conn[c] EXCEPT !.pc = "orphan", !.client = k, !.db = NilDB]
  <2>1. /\ Step(c, h) /\ h.pc = "orphan" /\ h.client = k /\ conn[c].pc = "handshake"
        /\ AuthorizedName(conn[c].db, PeerKey, k) = Unauthorized \/ c \in MayFail
    BY <1>0, <1>4, Zenon DEF Refuse, ConnType
  <2> HIDE DEF h
  <2>2. Fine(h)
    BY <1>0, <2>1, Zenon DEF FromDB
  <2> QED  BY <2>2, Zenon
<1>5. ASSUME NEW k \in Dials[c], Authorize(c, k) PROVE \E h : Fine(h)
  <2> DEFINE u == AuthorizedName(conn[c].db, PeerKey, k)
             h == [conn[c] EXCEPT !.pc = "assign", !.client = k, !.user = u,
                                  !.db = db, !.todo = Family]
  <2>1. Step(c, h) /\ conn[c].pc = "handshake"
    BY <1>5 DEF Authorize
  <2>2. h.pc = "assign" /\ h.client = k /\ h.user = u /\ h.db = db
    BY <1>0, Zenon DEF ConnType
  <2> HIDE DEF h
  <2>3. Fine(h)
    BY <1>0, <2>1, <2>2, Zenon DEF FromDB
  <2> QED  BY <2>3, Zenon
<1>6. ASSUME NEW h, Step(c, h), conn[c].pc = "assign", h.client = conn[c].client,
             h.user = conn[c].user, h.pc = "assign" => h.db = conn[c].db,
             h.pc \in {"assign", "acquire"} \/ (h.pc = "orphan" /\ c \in MayFail)
      PROVE  Fine(h)
  BY <1>0, <1>6, Zenon DEF FromDB
<1>7. ASSUME NEW a \in Requests, Assign(c, a) PROVE \E h : Fine(h)
  <2> DEFINE g == conn[c]
             f == First(g.todo)
             h == [g EXCEPT !.asg = [@ EXCEPT ![f] = Allocated(pool[f], f, g.user, g.client, a, g.db)],
                            !.todo = @ \ {f}]
  <2>1. Step(c, h) /\ g.pc = "assign"
    BY <1>7, Zenon DEF Assign
  <2>2. h.pc = g.pc /\ h.client = g.client /\ h.user = g.user /\ h.db = g.db
    BY <1>0, Zenon DEF ConnType
  <2> HIDE DEF h
  <2>3. Fine(h)
    BY <1>6, <2>1, <2>2
  <2> QED  BY <2>3, Zenon
<1>8. CASE HandshakeOK(c)
  <2> DEFINE h == [conn[c] EXCEPT !.pc = "acquire", !.permit = FALSE, !.db = NilDB]
  <2>1. Step(c, h) /\ conn[c].pc = "assign"
    BY <1>8 DEF HandshakeOK
  <2>2. h.pc = "acquire" /\ h.client = conn[c].client /\ h.user = conn[c].user
    BY <1>0, Zenon DEF ConnType
  <2> HIDE DEF h
  <2>3. Fine(h)
    BY <1>6, <2>1, <2>2
  <2> QED  BY <1>1, <2>3, Zenon
<1>9. CASE WriteFails(c)
  <2> DEFINE h == [conn[c] EXCEPT !.pc = "orphan", !.db = NilDB]
  <2>1. Step(c, h) /\ conn[c].pc = "assign" /\ c \in MayFail
    BY <1>9 DEF WriteFails
  <2>2. h.pc = "orphan" /\ h.client = conn[c].client /\ h.user = conn[c].user
    BY <1>0, Zenon DEF ConnType
  <2> HIDE DEF h
  <2>3. Fine(h)
    BY <1>6, <2>1, <2>2
  <2> QED  BY <1>1, <2>3, Zenon
<1> QED
  BY <1>1, <1>2, <1>3, <1>4, <1>5, <1>7, <1>8, <1>9, Zenon DEF Handshake

\* Once the handshake is over, a connection keeps its client until it returns.
Onward(c, h) ==
    \/ h.pc = "idle"
    \/ /\ h.pc \in {"release", "claim", "join", "lane"}
       /\ conn[c].pc \notin {"idle", "handshake"}
       /\ h.client = conn[c].client

\* Releases are those of a connection that failed or was refused.
Releases(c) ==
    \/ conn[c].pc = "orphan" /\ ~Live(conn[c].client)
    \/ conn[c].pc = "acquire" /\ ~Live(conn[c].client) /\ ~Admitted(conn[c].user)
    \/ conn[c].pc = "release"

LEMMA SessionMoves ==
    ASSUME TypeOK, NEW c \in Conn, Session(c)
    PROVE  /\ UNCHANGED <<db, gc, cancelled>>
           /\ \E h : Step(c, h) /\ Onward(c, h) /\ (h.pc = "release" => Releases(c))
<1> USE DEF users, tables
<1>0. conn[c] \in ConnType /\ NoConnection.pc = "idle"
  BY Zenon DEF TypeOK, NoConnection
<1>1. UNCHANGED <<db, gc, cancelled>>
  BY Zenon DEF Session, OrphanLive, OrphanLock, ReleaseStep, ReleaseDone, AcquireExisting,
               AcquireRefused, AcquireNew, ClaimStep, ClaimDone
<1> DEFINE Fine(h) == Step(c, h) /\ Onward(c, h) /\ (h.pc = "release" => Releases(c))
<1>2. CASE OrphanLive(c) \/ ReleaseDone(c)
  <2>1. Fine(NoConnection)
    BY <1>0, <1>2, Zenon DEF OrphanLive, ReleaseDone, Return, Onward
  <2> QED  BY <1>1, <2>1, Zenon
<1>3. CASE OrphanLock(c) \/ AcquireRefused(c)
  <2> DEFINE h == [conn[c] EXCEPT !.pc = "release", !.todo = Family]
  <2>1. h.pc = "release" /\ h.client = conn[c].client
    BY <1>0, Zenon DEF ConnType
  <2>2. Step(c, h) /\ Releases(c) /\ conn[c].pc \in {"orphan", "acquire"}
    BY <1>3, Zenon DEF OrphanLock, AcquireRefused, Releases
  <2> HIDE DEF h
  <2>3. Fine(h)
    BY <2>1, <2>2 DEF Onward
  <2> QED  BY <1>1, <2>3, Zenon
<1>4. CASE ReleaseStep(c) \/ ClaimStep(c)
  <2> DEFINE h == [conn[c] EXCEPT !.todo = @ \ {First(conn[c].todo)}]
  <2>1. h.pc = conn[c].pc /\ h.client = conn[c].client
    BY <1>0, Zenon DEF ConnType
  <2>2. Step(c, h) /\ conn[c].pc \in {"release", "claim"}
    BY <1>4, Zenon DEF ReleaseStep, ClaimStep
  <2> HIDE DEF h
  <2>3. Fine(h)
    BY <2>1, <2>2 DEF Onward, Releases
  <2> QED  BY <1>1, <2>3, Zenon
<1>5. CASE AcquireExisting(c)
  <2> DEFINE h == [conn[c] EXCEPT !.pc = "join", !.sess = sessions[conn[c].client]]
  <2>1. h.pc = "join" /\ h.client = conn[c].client
    BY <1>0, Zenon DEF ConnType
  <2>2. Step(c, h) /\ conn[c].pc = "acquire"
    BY <1>5, Zenon DEF AcquireExisting
  <2> HIDE DEF h
  <2>3. Fine(h)
    BY <2>1, <2>2 DEF Onward
  <2> QED  BY <1>1, <2>3, Zenon
<1>6. CASE AcquireNew(c)
  <2>1. PICK s : Step(c, [conn[c] EXCEPT !.pc = "claim", !.sess = s, !.todo = Assigned(conn[c].asg)])
    BY <1>6, Zenon DEF AcquireNew
  <2> DEFINE h == [conn[c] EXCEPT !.pc = "claim", !.sess = s, !.todo = Assigned(conn[c].asg)]
  <2>2. h.pc = "claim" /\ h.client = conn[c].client
    BY <1>0, Zenon DEF ConnType
  <2>3. Step(c, h) /\ conn[c].pc = "acquire"
    BY <1>6, <2>1, Zenon DEF AcquireNew
  <2> HIDE DEF h
  <2>4. Fine(h)
    BY <2>2, <2>3 DEF Onward
  <2> QED  BY <1>1, <2>4, Zenon
<1>7. CASE ClaimDone(c)
  <2> DEFINE h == [conn[c] EXCEPT !.pc = "join"]
  <2>1. h.pc = "join" /\ h.client = conn[c].client
    BY <1>0, Zenon DEF ConnType
  <2>2. Step(c, h) /\ conn[c].pc = "claim"
    BY <1>7, Zenon DEF ClaimDone
  <2> HIDE DEF h
  <2>3. Fine(h)
    BY <2>1, <2>2 DEF Onward
  <2> QED  BY <1>1, <2>3, Zenon
<1> QED
  BY <1>2, <1>3, <1>4, <1>5, <1>6, <1>7, Zenon DEF Session

LEMMA LaneMoves ==
    ASSUME TypeOK, NEW c \in Conn, Lane(c)
    PROVE  /\ UNCHANGED <<db, sessions, gc, cancelled>>
           /\ \E h : Step(c, h) /\ Onward(c, h) /\ h.pc \in {"idle", "lane"}
           /\ \A s \in SessId : \/ sess'[s].fresh = sess[s].fresh
                                \/ sess'[s].fresh = TRUE
                                \/ \A k \in Client : sessions[k] # s
<1> USE DEF users, tables
<1>0. conn[c] \in ConnType /\ NoConnection.pc = "idle" /\ sess \in [SessId -> SessType]
  BY Zenon DEF TypeOK, NoConnection
<1>1. UNCHANGED <<db, sessions, gc, cancelled>>
  BY Zenon DEF Lane, Join, PeerDrops, WatcherCloses, RxEnds, RxFails, TxEnds, TxFails, LaneEnds
<1>2. \E h : Step(c, h) /\ Onward(c, h) /\ h.pc \in {"idle", "lane"}
  <2>1. CASE LaneEnds(c)
    BY <1>0, <2>1, Zenon DEF LaneEnds, Return, Onward
  <2>2. CASE ~LaneEnds(c)
    <3>1. PICK h \in {[conn[c] EXCEPT !.up = FALSE], [conn[c] EXCEPT !.rx = FALSE],
                      [conn[c] EXCEPT !.tx = FALSE],
                      [conn[c] EXCEPT !.pc = "lane", !.up = TRUE, !.rx = TRUE, !.tx = TRUE]} :
            Step(c, h) /\ conn[c].pc \in {"join", "lane"} /\ (conn[c].pc = "join" => h.pc = "lane")
      <4>1. CASE Join(c)
        <5> DEFINE h == [conn[c] EXCEPT !.pc = "lane", !.up = TRUE, !.rx = TRUE, !.tx = TRUE]
        <5>1. h.pc = "lane"
          BY <1>0, Zenon DEF ConnType
        <5> QED  BY <4>1, <5>1 DEF Join
      <4>2. CASE ~Join(c)
        BY <2>2, <4>2 DEF Lane, PeerDrops, WatcherCloses, RxEnds, RxFails, TxEnds, TxFails, InLane
      <4> QED  BY <4>1, <4>2, Zenon
    <3>2. h.client = conn[c].client /\ h.pc \in {conn[c].pc, "lane"}
      BY <1>0, <3>1, Zenon DEF ConnType
    <3> QED  BY <3>1, <3>2 DEF Onward
  <2> QED  BY <2>1, <2>2
<1>3. ASSUME NEW s \in SessId
      PROVE  \/ sess'[s].fresh = sess[s].fresh \/ sess'[s].fresh = TRUE
             \/ \A k \in Client : sessions[k] # s
  <2>1. CASE Join(c)
    BY <1>0, <2>1 DEF Join, Touched, SessType
  <2>2. CASE LaneEnds(c) /\ Referenced(conn[c].sess, c)
    BY <1>0, <2>2 DEF LaneEnds, Touched, SessType
  <2>3. CASE LaneEnds(c) /\ ~Referenced(conn[c].sess, c)
    BY <1>0, <2>3, Zenon DEF LaneEnds, Referenced
  <2>4. CASE ~Join(c) /\ ~LaneEnds(c)
    BY <2>4, Zenon DEF Lane, PeerDrops, WatcherCloses, RxEnds, RxFails, TxEnds, TxFails
  <2> QED  BY <2>1, <2>2, <2>3, <2>4, Zenon
<1> QED  BY <1>1, <1>2, <1>3, Zenon

LEMMA DBInit == Init => DBInv
BY DEF Init, DBInv, FromDB, Databases, NoConnection

LEMMA DBNext ==
    ASSUME IInv, DBInv, [Next]_vars
    PROVE  DBInv'
<1> USE DEF users, tables
<1>0. TypeOK
  BY Zenon DEF IInv
<1>1. ASSUME NEW c \in Conn, Handshake(c) PROVE DBInv'
  BY <1>0, <1>1, HandshakeMoves, DBMove, Zenon
<1>2. ASSUME NEW c \in Conn, Session(c) \/ Lane(c) PROVE DBInv'
  <2>1. db' = db /\ \E h : Step(c, h) /\ Onward(c, h)
    BY <1>0, <1>2, SessionMoves, LaneMoves, Zenon
  <2>2. ASSUME NEW h, Onward(c, h) PROVE FromDB(c, h)
    BY <2>2 DEF Onward, DBInv, FromDB
  <2> QED  BY <1>0, <2>1, <2>2, DBMove, Zenon
<1>3. CASE UNCHANGED vars \/ Cancel \/ Collector
  <2>1. UNCHANGED <<db, conn>>
    BY <1>3, Zenon DEF Cancel, Collector, Idles, TearDownClose, Collect, CollectAll,
                       TearDownRelease, TearDownSlot, vars
  <2> QED  BY <2>1, Zenon DEF DBInv, FromDB
<1>4. ASSUME NEW list \in UserLists, Reload(list) PROVE DBInv'
  <2>1. db' \in Databases /\ conn' = conn
    BY <1>4, Zenon DEF Reload, Databases
  <2> QED  BY <2>1, Zenon DEF DBInv, FromDB
<1> QED  BY <1>1, <1>2, <1>3, <1>4, Zenon DEF Next

-----------------------------------------------------------------------------
(* The calm environment *)

\* The collector has nothing to do, and who releases a client's addresses is
\* its only connection.
CalmInv ==
    /\ ~cancelled /\ gc.victims = {} /\ gc.cur = NoSess
    /\ \A k \in Client : Live(k) => sess[sessions[k]].fresh
    /\ \A c \in Conn : conn[c].pc \in {"orphan", "release"} => Sole(c, conn[c].client)
    /\ \A c \in Conn : conn[c].pc = "release" => ~Live(conn[c].client)

LEMMA CalmSteps ==
    ASSUME Calm, CalmInv
    PROVE  ~Cancel /\ ~Collector
<1>1. Stale = {}
  <2>1. ASSUME NEW s \in Tabled PROVE sess[s].fresh
    BY MultiClientAssumption, Zenon DEF Tabled, CalmInv, Live
  <2> QED  BY <2>1, Zenon DEF Stale
<1>2. ~MayIdle /\ ~MayStop
  BY Zenon DEF Calm
<1> QED
  BY <1>1, <1>2, Zenon DEF CalmInv, Cancel, Collector, Idles, TearDownClose, Collect, CollectAll,
                      TearDownRelease, TearDownSlot

\* Connection c was told the address asg[f] of client k, and is on its way
\* to a session with it.
Promised(c, f, k) ==
    /\ conn[c].client = k
    /\ conn[c].pc \in {"assign", "acquire"}
    /\ conn[c].asg[f] # NoAddr

\* Nobody else uses what a connection releases.
LEMMA UnusedWhenReleased ==
    ASSUME DBInv, CalmInv, NEW c \in Conn, ReleaseStep(c), NEW f
    PROVE  ~Live(conn[c].client) /\ \A d \in Conn : ~Promised(d, f, conn[c].client)
<1>1. conn[c].pc = "release" /\ ~Live(conn[c].client) /\ Sole(c, conn[c].client)
  BY DEF ReleaseStep, CalmInv
<1>2. ASSUME NEW d \in Conn, Promised(d, f, conn[c].client) PROVE FALSE
  <2>1. d # c /\ conn[d].client \in Dials[d] /\ conn[d].client = conn[c].client
    BY <1>1, <1>2 DEF Promised, DBInv, FromDB
  <2> QED  BY <1>1, <2>1, Zenon DEF Sole
<1> QED  BY <1>1, <1>2, Zenon

LEMMA CalmMove ==
    ASSUME TypeOK, CalmInv, NEW c \in Conn, NEW h, Step(c, h),
           UNCHANGED <<sessions, gc, cancelled>>,
           \A k \in Client : Live(k) => sess'[sessions[k]].fresh,
           h.pc \in {"orphan", "release"} => Sole(c, h.client),
           h.pc = "release" => ~Live(h.client)
    PROVE  CalmInv'
<1>1. \A d \in Conn : conn'[d] = IF d = c THEN h ELSE conn[d]
  BY Zenon DEF TypeOK, Step
<1>2. \A k : Live(k)' = Live(k)
  BY Zenon DEF Live
<1> QED  BY <1>1, <1>2, Zenon DEF CalmInv, Sole

LEMMA CalmSession ==
    ASSUME Calm, IInv, DBInv, CalmInv, NEW c \in Conn, Session(c)
    PROVE  CalmInv'
<1> USE DEF users, tables
<1>0. TypeOK /\ FromDB(c, conn[c])
  BY Zenon DEF IInv, DBInv
<1>1. PICK h : Step(c, h) /\ Onward(c, h) /\ (h.pc = "release" => Releases(c))
  BY <1>0, SessionMoves, Zenon
<1>2. UNCHANGED <<gc, cancelled>>
  BY <1>0, SessionMoves, Zenon
<1>3. h.pc = "release" => Sole(c, conn[c].client) /\ ~Live(conn[c].client) /\ h.client = conn[c].client
  <2>1. ASSUME conn[c].pc = "acquire", ~Admitted(conn[c].user) PROVE Sole(c, conn[c].client)
    <3>1. PICK d \in Databases : conn[c].user = AuthorizedName(d, PeerKey, conn[c].client)
      BY <1>0, <2>1 DEF FromDB
    <3>2. ~Steady(conn[c].client) /\ conn[c].client \in Dials[c]
      BY <1>0, <2>1, <3>1, SteadyAdmitted DEF FromDB
    <3> QED  BY <3>2, Zenon DEF Calm, Sole
  <2> QED  BY <1>1, <2>1 DEF Releases, CalmInv, Onward
<1>4. h.pc # "orphan"
  BY <1>1 DEF Onward
<1>5. CASE ~AcquireNew(c)
  <2>1. UNCHANGED <<sessions, sess>>
    BY <1>5, Zenon DEF Session, OrphanLive, OrphanLock, ReleaseStep, ReleaseDone, AcquireExisting,
                  AcquireRefused, ClaimStep, ClaimDone
  <2>2. \A k \in Client : Live(k) => sess'[sessions[k]].fresh
    BY <2>1, Zenon DEF CalmInv
  <2> QED  BY <1>0, <1>1, <1>2, <1>3, <1>4, <2>1, <2>2, CalmMove, Zenon
<1>6. CASE AcquireNew(c)
  <2>1. PICK s \in SessId :
          /\ sess' = [sess EXCEPT ![s] = NewSession(conn[c])]
          /\ sessions' = [sessions EXCEPT ![conn[c].client] = s]
          /\ Step(c, [conn[c] EXCEPT !.pc = "claim", !.sess = s, !.todo = Assigned(conn[c].asg)])
    BY <1>6, Zenon DEF AcquireNew
  <2>2. [conn[c] EXCEPT !.pc = "claim", !.sess = s, !.todo = Assigned(conn[c].asg)].pc = "claim"
    BY <1>0, Zenon DEF TypeOK, ConnType
  <2>3. \A d \in Conn : d # c => conn'[d] = conn[d]
    BY <1>0, <2>1, Zenon DEF TypeOK, Step
  <2>4. conn'[c].pc = "claim"
    BY <1>0, <2>1, <2>2, Zenon DEF TypeOK, Step
  <2>5. conn[c].client \in Dials[c] /\ conn[c].client \in Client
    BY <1>0, <1>6 DEF AcquireNew, FromDB, IInv, KnownClient
  <2>6. \A k \in Client : sessions'[k] = IF k = conn[c].client THEN s ELSE sessions[k]
    BY <1>0, <2>1, Zenon DEF TypeOK
  <2>7. ASSUME NEW k \in Client, Live(k)' PROVE sess'[sessions'[k]].fresh
    <3>1. sess'[s].fresh = TRUE /\ \A x \in SessId \ {s} : sess'[x] = sess[x]
      BY <1>0, <2>1, Zenon DEF TypeOK, NewSession
    <3>2. CASE sessions'[k] = s
      BY <3>1, <3>2
    <3>3. CASE sessions'[k] # s
      <4>1. sessions'[k] = sessions[k] /\ Live(k) /\ sessions[k] \in SessId
        BY <1>0, <2>6, <2>7, <3>3, Zenon DEF TypeOK, Live
      <4>2. sess'[sessions[k]] = sess[sessions[k]]
        BY <3>1, <3>3, <4>1, Zenon
      <4> QED  BY <4>1, <4>2, Zenon DEF CalmInv
    <3> QED  BY <3>2, <3>3, Zenon
  <2>8. ASSUME NEW d \in Conn, conn'[d].pc = "release"
        PROVE  sessions'[conn'[d].client] = NoSess
    <3>1. d # c /\ conn'[d] = conn[d] /\ conn[d].pc = "release"
      BY <2>3, <2>4, <2>8
    <3>2. conn[d].client # conn[c].client /\ conn[d].client \in Client /\ ~Live(conn[d].client)
      BY <2>5, <3>1 DEF CalmInv, Sole, IInv, KnownClient
    <3> QED  BY <2>6, <3>1, <3>2, Zenon DEF Live
  <2>9. \A d \in Conn : conn'[d].pc \in {"orphan", "release"} => Sole(d, conn'[d].client)
    BY <2>3, <2>4 DEF CalmInv
  <2> QED  BY <1>2, <2>7, <2>8, <2>9, Zenon DEF CalmInv, Sole, Live
<1> QED  BY <1>5, <1>6, Zenon

LEMMA CalmInit == Init => CalmInv
BY DEF Init, CalmInv, Live, NoConnection

LEMMA CalmNext ==
    ASSUME Calm, IInv, DBInv, CalmInv, [Next]_vars
    PROVE  CalmInv'
<1>0. TypeOK
  BY Zenon DEF IInv
<1>1. ASSUME NEW c \in Conn, Handshake(c) PROVE CalmInv'
  <2>1. UNCHANGED <<sessions, sess, gc, cancelled>>
    BY <1>0, <1>1, HandshakeMoves, Zenon
  <2>2. PICK h : /\ Step(c, h) /\ FromDB(c, h) /\ h.pc # "release"
                 /\ h.pc = "orphan" =>
                      \/ c \in MayFail
                      \/ \E d \in Databases : AuthorizedName(d, PeerKey, h.client) = Unauthorized
    BY <1>0, <1>1, HandshakeMoves, Zenon
  <2>3. h.pc = "orphan" => Sole(c, h.client)
    BY <2>2, RefusedSole DEF FromDB
  <2>4. \A k \in Client : Live(k) => sess'[sessions[k]].fresh
    BY <2>1, Zenon DEF CalmInv
  <2> QED  BY <1>0, <2>1, <2>2, <2>3, <2>4, CalmMove, Zenon
<1>2. ASSUME NEW c \in Conn, Session(c) PROVE CalmInv'
  BY <1>2, CalmSession, Zenon
<1>3. ASSUME NEW c \in Conn, Lane(c) PROVE CalmInv'
  <2>1. /\ UNCHANGED <<sessions, gc, cancelled>>
        /\ \E h : Step(c, h) /\ h.pc \in {"idle", "lane"}
        /\ \A s \in SessId : \/ sess'[s].fresh = sess[s].fresh \/ sess'[s].fresh = TRUE
                             \/ \A k \in Client : sessions[k] # s
    BY <1>0, <1>3, LaneMoves, Zenon
  <2>2. PICK h : Step(c, h) /\ h.pc \in {"idle", "lane"}
    BY <2>1, Zenon
  <2>3. h.pc \notin {"orphan", "release"}
    BY <2>2
  <2>4. \A k \in Client : Live(k) => sessions[k] \in SessId /\ sess[sessions[k]].fresh
    BY <1>0, Zenon DEF CalmInv, TypeOK, Live
  <2>5. ASSUME NEW k \in Client, Live(k) PROVE sess'[sessions[k]].fresh
    BY <2>1, <2>4, <2>5
  <2> QED  BY <1>0, <2>1, <2>2, <2>3, <2>5, CalmMove, Zenon
<1>4. CASE UNCHANGED vars \/ \E list \in UserLists : Reload(list)
  <2>1. UNCHANGED <<sessions, sess, conn, gc, cancelled>>
    BY <1>4, Zenon DEF Reload, vars, tables
  <2> QED  BY <2>1, Zenon DEF CalmInv, Live, Sole
<1> QED  BY <1>1, <1>2, <1>3, <1>4, CalmSteps, Zenon DEF Next

-----------------------------------------------------------------------------
(* Addresses in a calm environment *)

\* What a pool marks as used is what its clients have, and no two have the
\* same.
Disjoint(q) ==
    /\ \A k \in Client : q.byClient[k] # NoAddr =>
         /\ q.byClient[k] \in q.used
         /\ \A l \in Client \ {k} : q.byClient[l] # q.byClient[k]
    /\ \A a \in q.used : \E k \in Client : q.byClient[k] = a

\* Sessions and connections on their way to one use the address that the
\* pool has for their client.
SessionsHeld ==
    \A k \in Client, f \in Family :
      Live(k) /\ sess[sessions[k]].asg[f] # NoAddr
        => pool[f].byClient[k] = sess[sessions[k]].asg[f]

PromisesHeld ==
    \A c \in Conn, f \in Family, k \in Client :
      Promised(c, f, k) => pool[f].byClient[k] = conn[c].asg[f]

\* Nothing is promised before the handshake assigns, and what is claimed is
\* the new session's.
Unpromised(h) == h.pc \in {"idle", "handshake"} => h.asg = NoAsg

ClaimsOwn ==
    \A c \in Conn : conn[c].pc = "claim" => sess[sessions[conn[c].client]].asg = conn[c].asg

AddrInv ==
    /\ \A f \in Family : Disjoint(pool[f])
    /\ SessionsHeld /\ PromisesHeld /\ ClaimsOwn
    /\ \A c \in Conn : Unpromised(conn[c])

\* What the pool calls do to a pool whose addresses are disjoint.
LEMMA AllocateDisjoint ==
    ASSUME NEW q \in PoolType, NEW f \in Family, NEW user, NEW k \in Client,
           NEW a, NEW d \in DBType, Disjoint(q)
    PROVE  Disjoint(AllocateFor(q, f, user, k, a, d))
<1> DEFINE b == Choice(q, f, user, k, a, d)
<1>1. b \in (Subnet[f] \ q.used) \cup {NoAddr}
  BY ChoiceFree, Zenon
<1>2. AllocateFor(q, f, user, k, a, d) = q
        \/ /\ b # NoAddr /\ q.byClient[k] = NoAddr
           /\ AllocateFor(q, f, user, k, a, d) = Grant(q, k, b)
  BY DEF AllocateFor
<1> HIDE DEF b
<1>3. ASSUME b # NoAddr, q.byClient[k] = NoAddr PROVE Disjoint(Grant(q, k, b))
  <2> DEFINE r == Grant(q, k, b)
  <2>1. /\ r.used = q.used \cup {b}
        /\ \A l \in Client : r.byClient[l] = IF l = k THEN b ELSE q.byClient[l]
    BY DEF Grant, PoolType
  <2> HIDE DEF r
  <2>2. ASSUME NEW l \in Client, r.byClient[l] # NoAddr
        PROVE  r.byClient[l] \in r.used /\ \A m \in Client \ {l} : r.byClient[m] # r.byClient[l]
    BY <1>1, <1>3, <2>1, <2>2 DEF Disjoint
  <2>3. ASSUME NEW x \in r.used PROVE \E l \in Client : r.byClient[l] = x
    <3>1. CASE x = b
      BY <2>1, <3>1
    <3>2. CASE x # b
      <4>1. x \in q.used /\ x # NoAddr
        BY <2>1, <3>2, PoolAssumption DEF PoolType, Offset
      <4>2. PICK l \in Client : q.byClient[l] = x
        BY <4>1, Zenon DEF Disjoint
      <4> QED  BY <1>3, <2>1, <4>1, <4>2
    <3> QED  BY <3>1, <3>2
  <2>4. Disjoint(r)
    BY <2>2, <2>3, Zenon DEF Disjoint
  <2> QED  BY <2>4 DEF r
<1> QED  BY <1>2, <1>3

LEMMA ReleaseDisjoint ==
    ASSUME NEW q \in PoolType, NEW k \in Client, Disjoint(q)
    PROVE  Disjoint(Release(q, k))
<1>1. CASE q.byClient[k] = NoAddr
  BY <1>1 DEF Release
<1>2. CASE q.byClient[k] # NoAddr
  <2> DEFINE r == Release(q, k)
  <2>1. /\ r.used = q.used \ {q.byClient[k]}
        /\ \A l \in Client : r.byClient[l] = IF l = k THEN NoAddr ELSE q.byClient[l]
    BY <1>2 DEF Release, PoolType
  <2> HIDE DEF r
  <2>2. Disjoint(r)
    BY <1>2, <2>1, Zenon DEF Disjoint
  <2> QED  BY <2>2 DEF r
<1> QED  BY <1>1, <1>2

\* Claiming what the client has already changes nothing.
LEMMA ClaimSame ==
    ASSUME NEW q \in PoolType, NEW k \in Client, Disjoint(q)
    PROVE  Claim(q, k, q.byClient[k]) = q
<1>1. q = [used |-> q.used, byClient |-> q.byClient] /\ q.byClient \in [Client -> Addr]
  BY DEF PoolType
<1>2. q.byClient[k] # NoAddr => q.used \cup {q.byClient[k]} = q.used
  BY DEF Disjoint
<1>3. [q.byClient EXCEPT ![k] = q.byClient[k]] = q.byClient
  BY <1>1
<1> QED  BY <1>1, <1>2, <1>3 DEF Claim, Grant

\* A step that keeps the tables and the addresses of live clients.
LEMMA AddrKept ==
    ASSUME IInv, AddrInv, UNCHANGED <<sessions, ipIndex>>, SessKept,
           \A f \in Family : Disjoint(pool'[f]),
           \A f \in Family, k \in Client :
             Live(k) /\ pool[f].byClient[k] # NoAddr
               => pool'[f].byClient[k] = pool[f].byClient[k],
           PromisesHeld', \A d \in Conn : Unpromised(conn'[d]),
           \A d \in Conn : conn'[d].pc = "claim" =>
             conn[d].pc = "claim" /\ conn'[d].client = conn[d].client /\ conn'[d].asg = conn[d].asg
    PROVE  AddrInv'
<1>1. /\ \A k \in Client : sessions[k] \in SessId \cup {NoSess}
      /\ \A s \in SessId : sess[s].asg \in Asgs
      /\ KnownClient /\ ClaimsLocked
  BY Zenon DEF IInv, TypeOK, SessType
<1>2. \A k \in Client : Live(k)' = Live(k) /\ (Live(k) => sess'[sessions[k]].asg = sess[sessions[k]].asg)
  BY <1>1, Zenon DEF Live, SessKept
<1>3. SessionsHeld'
  <2> SUFFICES ASSUME NEW k \in Client, NEW f \in Family, Live(k)',
                      sess'[sessions'[k]].asg[f] # NoAddr
               PROVE  pool'[f].byClient[k] = sess'[sessions'[k]].asg[f]
    BY Zenon DEF SessionsHeld
  <2>1. Live(k) /\ sess'[sessions'[k]].asg = sess[sessions[k]].asg
    BY <1>2, Zenon
  <2>2. pool[f].byClient[k] = sess[sessions[k]].asg[f]
    BY <2>1, Zenon DEF AddrInv, SessionsHeld
  <2>3. pool[f].byClient[k] # NoAddr
    BY <2>1, <2>2, Zenon
  <2> QED  BY <2>1, <2>2, <2>3, Zenon
<1>5. ClaimsOwn'
  <2> SUFFICES ASSUME NEW d \in Conn, conn'[d].pc = "claim"
               PROVE  sess'[sessions'[conn'[d].client]].asg = conn'[d].asg
    BY Zenon DEF ClaimsOwn
  <2>1. conn[d].pc = "claim" /\ conn'[d].client = conn[d].client /\ conn'[d].asg = conn[d].asg
    BY Zenon
  <2>2. conn[d].client \in Client /\ Live(conn[d].client)
    BY <1>1, <2>1, Zenon DEF KnownClient, ClaimsLocked
  <2> QED  BY <1>2, <2>1, <2>2 DEF AddrInv, ClaimsOwn
<1>6. (\A f \in Family : Disjoint(pool[f]))' /\ (\A d \in Conn : Unpromised(conn[d]))'
  BY Zenon DEF Disjoint, Unpromised
<1> QED  BY <1>3, <1>5, <1>6, Zenon DEF AddrInv

\* What a connection may become without a new promise or a new claim.
Follows(c, h) ==
    /\ Unpromised(h)
    /\ h.pc # "claim"
    /\ h.pc \in {"assign", "acquire"} =>
         \A f \in Family : h.asg[f] # NoAddr => /\ h.client = conn[c].client
                                                /\ conn[c].pc \in {"assign", "acquire"}
                                                /\ h.asg[f] = conn[c].asg[f]

LEMMA AddrMove ==
    ASSUME IInv, AddrInv, NEW c \in Conn, NEW h, Step(c, h), Follows(c, h),
           UNCHANGED <<pool, sessions, ipIndex>>, SessKept
    PROVE  AddrInv'
<1>1. \A d \in Conn : conn'[d] = IF d = c THEN h ELSE conn[d]
  BY Zenon DEF IInv, TypeOK, Step
<1>2. PromisesHeld'
  <2> SUFFICES ASSUME NEW d \in Conn, NEW f \in Family, NEW k \in Client, Promised(d, f, k)'
               PROVE  pool'[f].byClient[k] = conn'[d].asg[f]
    BY Zenon DEF PromisesHeld
  <2>1. Promised(d, f, k) /\ conn'[d].asg[f] = conn[d].asg[f]
    BY <1>1, Zenon DEF Promised, Follows
  <2> QED  BY <2>1, Zenon DEF AddrInv, PromisesHeld
<1>3. \A d \in Conn : Unpromised(conn'[d])
  BY <1>1, Zenon DEF AddrInv, Follows
<1>4. \A d \in Conn : conn'[d].pc = "claim" => conn'[d] = conn[d]
  BY <1>1, Zenon DEF Follows
<1>5. \A f \in Family : Disjoint(pool'[f])
  BY Zenon DEF AddrInv
<1> QED  BY <1>2, <1>3, <1>4, <1>5, AddrKept, Zenon

LEMMA AddrHandshake ==
    ASSUME IInv, AddrInv, NEW c \in Conn, Handshake(c)
    PROVE  AddrInv'
<1> USE DEF users, tables
<1>0. /\ conn[c] \in ConnType /\ Unpromised(conn[c]) /\ TypeOK /\ KnownClient
      /\ NoConnection.pc = "idle" /\ NoConnection.asg = NoAsg
  BY Zenon DEF IInv, TypeOK, AddrInv, NoConnection
<1>1. ASSUME NEW h, Step(c, h), Follows(c, h), UNCHANGED <<pool, sessions, ipIndex, sess>>
      PROVE  AddrInv'
  BY <1>1, AddrMove, Zenon DEF SessKept
<1>2. CASE Accept(c)
  <2> DEFINE h == [NoConnection EXCEPT !.pc = "handshake", !.permit = TRUE, !.db = db]
  <2>1. h.pc = "handshake" /\ h.asg = NoAsg
    BY DEF NoConnection
  <2>2. Step(c, h) /\ UNCHANGED <<pool, sessions, ipIndex, sess>>
    BY <1>2, Zenon DEF Accept
  <2> HIDE DEF h
  <2> QED  BY <1>1, <2>1, <2>2, Zenon DEF Follows, Unpromised
<1>3. CASE HandshakeFails(c) \/ NoAssignment(c)
  BY <1>0, <1>1, <1>3, Zenon DEF HandshakeFails, NoAssignment, Return, Follows, Unpromised
<1>4. ASSUME NEW k \in Dials[c], Refuse(c, k) PROVE AddrInv'
  <2> DEFINE h == [conn[c] EXCEPT !.pc = "orphan", !.client = k, !.db = NilDB]
  <2>1. Step(c, h) /\ h.pc = "orphan" /\ UNCHANGED <<pool, sessions, ipIndex, sess>>
    BY <1>0, <1>4, Zenon DEF Refuse, ConnType
  <2> HIDE DEF h
  <2> QED  BY <1>1, <2>1, Zenon DEF Follows, Unpromised
<1>5. ASSUME NEW k \in Dials[c], Authorize(c, k) PROVE AddrInv'
  <2> DEFINE u == AuthorizedName(conn[c].db, PeerKey, k)
             h == [conn[c] EXCEPT !.pc = "assign", !.client = k, !.user = u,
                                  !.db = db, !.todo = Family]
  <2>1. Step(c, h) /\ conn[c].pc = "handshake" /\ UNCHANGED <<pool, sessions, ipIndex, sess>>
    BY <1>5 DEF Authorize
  <2>2. h.pc = "assign" /\ h.asg = conn[c].asg
    BY <1>0, Zenon DEF ConnType
  <2> HIDE DEF h
  <2> QED  BY <1>0, <1>1, <2>1, <2>2 DEF Follows, Unpromised, NoAsg
<1>6. ASSUME NEW a \in Requests, Assign(c, a) PROVE AddrInv'
  <2> DEFINE g == conn[c]
             f == First(g.todo)
             b == Allocated(pool[f], f, g.user, g.client, a, g.db)
             h == [g EXCEPT !.asg = [@ EXCEPT ![f] = b], !.todo = @ \ {f}]
  <2>1. f \in Family /\ g.client \in Client /\ g.db \in DBType /\ pool[f] \in PoolType
    BY <1>0, <1>6, FirstTyped, Zenon DEF Assign, KnownClient, ConnType, TypeOK
  <2>2. /\ h.client = g.client /\ h.pc = g.pc /\ h.asg[f] = b
        /\ \A x \in Family \ {f} : h.asg[x] = g.asg[x]
    BY <1>0, <2>1, Zenon DEF ConnType, Asgs
  <2>3. /\ pool'[f] = AllocateFor(pool[f], f, g.user, g.client, a, g.db)
        /\ \A x \in Family \ {f} : pool'[x] = pool[x]
        /\ Step(c, h) /\ g.pc = "assign" /\ UNCHANGED <<sessions, ipIndex, sess>>
    BY <1>0, <1>6, <2>1, Zenon DEF Assign, TypeOK
  <2>4. \A l \in Client :
          pool'[f].byClient[l] = IF l = g.client THEN b ELSE pool[f].byClient[l]
    BY <2>1, <2>3, AllocateEffect
  <2>5. pool[f].byClient[g.client] # NoAddr => b = pool[f].byClient[g.client]
    BY Zenon DEF Allocated
  <2>6. \A d \in Conn : conn'[d] = IF d = c THEN h ELSE conn[d]
    BY <1>0, <2>3, Zenon DEF TypeOK, Step
  <2>7. Disjoint(pool'[f])
    BY <2>1, <2>3, AllocateDisjoint DEF AddrInv
  <2> HIDE DEF h, b, f
  <2>8. \A x \in Family : Disjoint(pool'[x])
    BY <2>3, <2>7, Zenon DEF AddrInv
  <2>9. \A x \in Family, l \in Client :
          pool[x].byClient[l] # NoAddr => pool'[x].byClient[l] = pool[x].byClient[l]
    BY <2>3, <2>4, <2>5, Zenon
  <2>10. PromisesHeld'
    <3> SUFFICES ASSUME NEW d \in Conn, NEW x \in Family, NEW k \in Client, Promised(d, x, k)'
                 PROVE  pool'[x].byClient[k] = conn'[d].asg[x]
      BY Zenon DEF PromisesHeld
    <3>1. CASE d = c /\ x = f
      BY <2>1, <2>2, <2>4, <2>6, <3>1, Zenon DEF Promised
    <3>2. CASE d # c \/ x # f
      <4>1. Promised(d, x, k) /\ conn'[d].asg[x] = conn[d].asg[x]
        BY <2>2, <2>6, <3>2, Zenon DEF Promised
      <4> QED  BY <2>9, <4>1, Zenon DEF AddrInv, PromisesHeld, Promised
    <3> QED  BY <3>1, <3>2, Zenon
  <2>11. \A d \in Conn : Unpromised(conn'[d])
    BY <2>2, <2>3, <2>6, Zenon DEF AddrInv, Unpromised
  <2>12. \A d \in Conn : conn'[d].pc = "claim" => conn'[d] = conn[d]
    BY <2>2, <2>3, <2>6, Zenon
  <2> QED  BY <2>3, <2>8, <2>9, <2>10, <2>11, <2>12, AddrKept, Zenon DEF SessKept
<1>7. CASE HandshakeOK(c)
  <2> DEFINE h == [conn[c] EXCEPT !.pc = "acquire", !.permit = FALSE, !.db = NilDB]
  <2>1. Step(c, h) /\ conn[c].pc = "assign" /\ UNCHANGED <<pool, sessions, ipIndex, sess>>
    BY <1>7 DEF HandshakeOK
  <2>2. h.pc = "acquire" /\ h.client = conn[c].client /\ h.asg = conn[c].asg
    BY <1>0, Zenon DEF ConnType
  <2> HIDE DEF h
  <2> QED  BY <1>1, <2>1, <2>2, Zenon DEF Follows, Unpromised
<1>8. CASE WriteFails(c)
  <2> DEFINE h == [conn[c] EXCEPT !.pc = "orphan", !.db = NilDB]
  <2>1. Step(c, h) /\ h.pc = "orphan" /\ UNCHANGED <<pool, sessions, ipIndex, sess>>
    BY <1>0, <1>8, Zenon DEF WriteFails, ConnType
  <2> HIDE DEF h
  <2> QED  BY <1>1, <2>1, Zenon DEF Follows, Unpromised
<1> QED
  BY <1>2, <1>3, <1>4, <1>5, <1>6, <1>7, <1>8, Zenon DEF Handshake

\* The new session takes the addresses promised to its connection.
LEMMA AddrAcquireNew ==
    ASSUME IInv, AddrInv, NEW c \in Conn, AcquireNew(c)
    PROVE  AddrInv'
<1> DEFINE h == conn[c]
           k == h.client
<1>1. /\ TypeOK /\ Ownership /\ KnownClient /\ ClaimsLocked
      /\ h \in ConnType /\ mu = NoConn /\ h.pc = "acquire" /\ ~Live(k) /\ pool' = pool
  BY Zenon DEF IInv, TypeOK, AcquireNew
<1>2. k \in Client /\ h.asg \in Asgs
  BY <1>1, Zenon DEF KnownClient, ConnType
<1>3. PICK s \in SessId :
        /\ sess[s] = NoSession
        /\ sess' = [sess EXCEPT ![s] = NewSession(h)]
        /\ sessions' = [sessions EXCEPT ![k] = s]
        /\ ipIndex' = Indexed(h.asg, s)
        /\ Step(c, [h EXCEPT !.pc = "claim", !.sess = s, !.todo = Assigned(h.asg)])
  BY Zenon DEF AcquireNew
<1> DEFINE g == [h EXCEPT !.pc = "claim", !.sess = s, !.todo = Assigned(h.asg)]
<1>4. g.pc = "claim" /\ g.client = k /\ g.asg = h.asg
  BY <1>1 DEF ConnType
<1>5. \A d \in Conn : conn'[d] = IF d = c THEN g ELSE conn[d]
  BY <1>1, <1>3, Zenon DEF TypeOK, Step
<1> HIDE DEF g
<1>6. \A l \in Client : sessions[l] # s
  BY <1>1, <1>3, MultiClientAssumption DEF Ownership, Live, NoSession
<1>7. /\ sessions'[k] = s /\ sess'[s].asg = h.asg /\ s # NoSess
      /\ \A l \in Client \ {k} : sessions'[l] = sessions[l]
      /\ \A l \in Client \ {k} : Live(l) => sess'[sessions[l]].asg = sess[sessions[l]].asg
  BY <1>1, <1>2, <1>3, <1>6, MultiClientAssumption, Zenon DEF TypeOK, NewSession, Live
<1>8. \A f \in Family : h.asg[f] # NoAddr => pool[f].byClient[k] = h.asg[f]
  BY <1>1, <1>2, Zenon DEF AddrInv, PromisesHeld, Promised
<1>9. SessionsHeld'
  <2>1. SessionsHeld
    BY DEF AddrInv
  <2> SUFFICES ASSUME NEW l \in Client, NEW f \in Family, Live(l)',
                      sess'[sessions'[l]].asg[f] # NoAddr
               PROVE  pool'[f].byClient[l] = sess'[sessions'[l]].asg[f]
    BY Zenon DEF SessionsHeld
  <2>2. CASE l = k
    BY <1>1, <1>7, <1>8, <2>2, Zenon
  <2>3. CASE l # k
    <3>1. Live(l) /\ sess'[sessions'[l]].asg = sess[sessions[l]].asg
      BY <1>7, <2>3, Zenon DEF Live
    <3> QED  BY <1>1, <2>1, <3>1, Zenon DEF SessionsHeld
  <2> QED  BY <2>2, <2>3, Zenon
<1>11. PromisesHeld'
  <2> SUFFICES ASSUME NEW d \in Conn, NEW f \in Family, NEW l \in Client, Promised(d, f, l)'
               PROVE  pool'[f].byClient[l] = conn'[d].asg[f]
    BY Zenon DEF PromisesHeld
  <2>1. d # c
    BY <1>4, <1>5, Zenon DEF Promised
  <2>2. conn'[d] = conn[d] /\ Promised(d, f, l)
    BY <1>5, <2>1, Zenon DEF Promised
  <2> QED  BY <1>1, <2>2, Zenon DEF AddrInv, PromisesHeld
<1>12. ClaimsOwn'
  <2>1. \A d \in Conn : conn[d].pc # "claim"
    BY <1>1, MultiClientAssumption, Zenon DEF ClaimsLocked
  <2> QED  BY <1>4, <1>5, <1>7, <2>1, Zenon DEF ClaimsOwn
<1>13. (\A f \in Family : Disjoint(pool[f]))' /\ (\A d \in Conn : Unpromised(conn[d]))'
  <2>1. \A f \in Family : Disjoint(pool'[f])
    BY <1>1, Zenon DEF AddrInv
  <2>2. \A d \in Conn : Unpromised(conn'[d])
    BY <1>4, <1>5, Zenon DEF AddrInv, Unpromised
  <2> QED  BY <2>1, <2>2, Zenon DEF Disjoint, Unpromised
<1> QED  BY <1>9, <1>11, <1>12, <1>13, Zenon DEF AddrInv

\* Releasing what no session and no other connection uses.
LEMMA AddrRelease ==
    ASSUME IInv, AddrInv, NEW f \in Family, NEW k \in Client,
           ~Live(k), \A d \in Conn : ~Promised(d, f, k), ReleaseOne(k, f), UNCHANGED <<sessions, ipIndex, sess>>,
           \A d \in Conn : /\ conn'[d].pc = conn[d].pc /\ conn'[d].client = conn[d].client
                           /\ conn'[d].asg = conn[d].asg
    PROVE  AddrInv'
<1>1. /\ pool[f] \in PoolType /\ pool'[f] = Release(pool[f], k)
      /\ \A g \in Family \ {f} : pool'[g] = pool[g]
  BY Zenon DEF IInv, TypeOK, ReleaseOne
<1>2. \A l \in Client : pool'[f].byClient[l] = IF l = k THEN NoAddr ELSE pool[f].byClient[l]
  BY <1>1, ReleaseEffect
<1>3. Disjoint(pool'[f])
  BY <1>1, ReleaseDisjoint, Zenon DEF AddrInv
<1>4. \A g \in Family : Disjoint(pool'[g])
  BY <1>1, <1>3, Zenon DEF AddrInv
<1>5. \A g \in Family, l \in Client :
        pool[g].byClient[l] # NoAddr /\ (Live(l) \/ \E d \in Conn : Promised(d, g, l))
          => pool'[g].byClient[l] = pool[g].byClient[l]
  BY <1>1, <1>2, Zenon
<1>6. PromisesHeld'
  <2> SUFFICES ASSUME NEW d \in Conn, NEW g \in Family, NEW l \in Client, Promised(d, g, l)'
               PROVE  pool'[g].byClient[l] = conn'[d].asg[g]
    BY Zenon DEF PromisesHeld
  <2>1. Promised(d, g, l) /\ conn'[d].asg[g] = conn[d].asg[g]
    BY Zenon DEF Promised
  <2> QED  BY <1>5, <2>1, Zenon DEF AddrInv, PromisesHeld, Promised
<1>7. \A d \in Conn : Unpromised(conn'[d])
  BY Zenon DEF AddrInv, Unpromised
<1> QED  BY <1>4, <1>5, <1>6, <1>7, AddrKept, Zenon DEF SessKept

LEMMA AddrSession ==
    ASSUME IInv, AddrInv, DBInv, CalmInv, NEW c \in Conn, Session(c)
    PROVE  AddrInv'
<1> USE DEF users, tables
<1>0. /\ conn[c] \in ConnType /\ TypeOK /\ KnownClient /\ ClaimsLocked
      /\ NoConnection.pc = "idle" /\ NoConnection.asg = NoAsg
  BY Zenon DEF IInv, TypeOK, NoConnection
<1>1. ASSUME NEW h, Step(c, h), Follows(c, h), UNCHANGED <<pool, sessions, ipIndex, sess>>
      PROVE  AddrInv'
  BY <1>1, AddrMove, Zenon DEF SessKept
<1>2. CASE OrphanLive(c) \/ ReleaseDone(c)
  BY <1>0, <1>1, <1>2, Zenon DEF OrphanLive, ReleaseDone, Return, Follows, Unpromised
<1>3. CASE OrphanLock(c) \/ AcquireRefused(c)
  <2> DEFINE h == [conn[c] EXCEPT !.pc = "release", !.todo = Family]
  <2>1. Step(c, h) /\ h.pc = "release" /\ UNCHANGED <<pool, sessions, ipIndex, sess>>
    BY <1>0, <1>3, Zenon DEF OrphanLock, AcquireRefused, ConnType
  <2> HIDE DEF h
  <2> QED  BY <1>1, <2>1, Zenon DEF Follows, Unpromised
<1>4. CASE AcquireExisting(c)
  <2> DEFINE h == [conn[c] EXCEPT !.pc = "join", !.sess = sessions[conn[c].client]]
  <2>1. Step(c, h) /\ h.pc = "join" /\ UNCHANGED <<pool, sessions, ipIndex, sess>>
    BY <1>0, <1>4 DEF AcquireExisting, ConnType
  <2> HIDE DEF h
  <2> QED  BY <1>1, <2>1, Zenon DEF Follows, Unpromised
<1>5. CASE ClaimDone(c)
  <2> DEFINE h == [conn[c] EXCEPT !.pc = "join"]
  <2>1. Step(c, h) /\ h.pc = "join" /\ UNCHANGED <<pool, sessions, ipIndex, sess>>
    BY <1>0, <1>5, Zenon DEF ClaimDone, ConnType
  <2> HIDE DEF h
  <2> QED  BY <1>1, <2>1 DEF Follows, Unpromised
<1>6. CASE AcquireNew(c)
  BY <1>6, AddrAcquireNew, Zenon
<1>7. CASE ReleaseStep(c) \/ ClaimStep(c)
  <2> DEFINE f == First(conn[c].todo)
             h == [conn[c] EXCEPT !.todo = @ \ {f}]
  <2>1. /\ Step(c, h) /\ UNCHANGED <<sessions, ipIndex, sess>>
        /\ conn[c].todo # {} /\ conn[c].pc \in {"release", "claim"}
    BY <1>7, Zenon DEF ReleaseStep, ClaimStep
  <2>2. f \in Family /\ conn[c].client \in Client
    BY <1>0, <2>1, FirstTyped DEF ConnType, KnownClient
  <2>3. h.pc = conn[c].pc /\ h.client = conn[c].client /\ h.asg = conn[c].asg
    BY <1>0, Zenon DEF ConnType
  <2>4. \A d \in Conn : conn'[d] = IF d = c THEN h ELSE conn[d]
    BY <1>0, <2>1, Zenon DEF TypeOK, Step
  <2> HIDE DEF h
  <2>5. \A d \in Conn : /\ conn'[d].pc = conn[d].pc /\ conn'[d].client = conn[d].client
                        /\ conn'[d].asg = conn[d].asg
    BY <2>3, <2>4, Zenon
  <2>6. CASE ReleaseStep(c)
    <3>1. ReleaseOne(conn[c].client, f)
      BY <2>6, Zenon DEF ReleaseStep
    <3> HIDE DEF f
    <3>2. ~Live(conn[c].client) /\ \A d \in Conn : ~Promised(d, f, conn[c].client)
      BY <2>6, UnusedWhenReleased
    <3> QED  BY <2>1, <2>2, <2>5, <3>1, <3>2, AddrRelease, Zenon
  <2>7. CASE ClaimStep(c)
    <3> DEFINE k == conn[c].client
               a == conn[c].asg[f]
    <3>1. conn[c].pc = "claim" /\ pool' = [pool EXCEPT ![f] = Claim(pool[f], k, a)]
      BY <2>7, Zenon DEF ClaimStep
    <3> HIDE DEF f
    <3>2. Live(k) /\ sess[sessions[k]].asg = conn[c].asg /\ pool[f] \in PoolType
      BY <1>0, <2>2, <3>1, Zenon DEF ClaimsLocked, AddrInv, ClaimsOwn, TypeOK
    <3>3. a = NoAddr \/ pool[f].byClient[k] = a
      BY <2>2, <3>2 DEF AddrInv, SessionsHeld
    <3>4. Claim(pool[f], k, a) = pool[f]
      <4>1. CASE a = NoAddr
        BY <4>1, Zenon DEF Claim
      <4>2. CASE a # NoAddr
        BY <2>2, <3>2, <3>3, <4>2, ClaimSame, Zenon DEF AddrInv
      <4> QED  BY <4>1, <4>2, Zenon
    <3>5. pool' = pool
      BY <1>0, <2>2, <3>1, <3>4, Zenon DEF TypeOK
    <3>6. PromisesHeld' /\ \A d \in Conn : Unpromised(conn'[d])
      <4>1. ASSUME NEW d \in Conn, NEW x \in Family, NEW l \in Client, Promised(d, x, l)'
            PROVE  pool'[x].byClient[l] = conn'[d].asg[x]
        <5>1. Promised(d, x, l)
          BY <2>5, <4>1, Zenon DEF Promised
        <5> QED  BY <2>5, <3>5, <5>1, Zenon DEF AddrInv, PromisesHeld
      <4>2. ASSUME NEW d \in Conn PROVE Unpromised(conn'[d])
        BY <2>5, Zenon DEF AddrInv, Unpromised
      <4> QED  BY <4>1, <4>2, Zenon DEF PromisesHeld
    <3>7. \A x \in Family : Disjoint(pool'[x])
      BY <3>5, Zenon DEF AddrInv
    <3> QED  BY <2>1, <2>5, <3>5, <3>6, <3>7, AddrKept, Zenon DEF SessKept
  <2> QED  BY <1>7, <2>6, <2>7, Zenon
<1> QED
  BY <1>2, <1>3, <1>4, <1>5, <1>6, <1>7, Zenon DEF Session

LEMMA AddrLane ==
    ASSUME IInv, AddrInv, NEW c \in Conn, Lane(c)
    PROVE  AddrInv'
<1> USE DEF users, tables
<1>0. /\ conn[c] \in ConnType /\ sess \in [SessId -> SessType]
      /\ NoConnection.pc = "idle" /\ NoConnection.asg = NoAsg
  BY Zenon DEF IInv, TypeOK, NoConnection
<1>1. CASE Join(c)
  <2> DEFINE h == [conn[c] EXCEPT !.pc = "lane", !.up = TRUE, !.rx = TRUE, !.tx = TRUE]
  <2>1. Step(c, h) /\ h.pc = "lane" /\ UNCHANGED <<pool, sessions, ipIndex>>
    BY <1>0, <1>1, Zenon DEF Join, ConnType
  <2>2. SessKept
    BY <1>0, <1>1 DEF Join, Touched, SessType, SessKept
  <2> HIDE DEF h
  <2> QED  BY <2>1, <2>2, AddrMove, Zenon DEF Follows, Unpromised
<1>2. CASE LaneEnds(c)
  <2> DEFINE s == conn[c].sess
  <2>1. Step(c, NoConnection) /\ UNCHANGED <<pool, sessions, ipIndex>>
    BY <1>2 DEF LaneEnds, Return
  <2>2. SessKept
    <3>1. CASE Referenced(s, c)
      BY <1>0, <1>2, <3>1 DEF LaneEnds, Touched, SessType, SessKept
    <3>2. CASE ~Referenced(s, c)
      <4>1. \A x \in SessId : x # s => sess'[x] = sess[x]
        BY <1>0, <1>2, <3>2, Zenon DEF LaneEnds
      <4> QED  BY <3>2, <4>1, Zenon DEF Referenced, SessKept
    <3> QED  BY <3>1, <3>2, Zenon
  <2> QED  BY <1>0, <2>1, <2>2, AddrMove, Zenon DEF Follows, Unpromised
<1>3. CASE \/ PeerDrops(c) \/ WatcherCloses(c) \/ RxEnds(c) \/ RxFails(c)
           \/ TxEnds(c) \/ TxFails(c)
  <2>1. PICK h \in {[conn[c] EXCEPT !.up = FALSE], [conn[c] EXCEPT !.rx = FALSE],
                    [conn[c] EXCEPT !.tx = FALSE]} :
          Step(c, h) /\ conn[c].pc = "lane" /\ UNCHANGED <<pool, sessions, ipIndex, sess>>
    BY <1>3 DEF PeerDrops, WatcherCloses, RxEnds, RxFails, TxEnds, TxFails, InLane
  <2>2. h.pc = "lane"
    BY <1>0, <2>1, Zenon DEF ConnType
  <2> QED  BY <2>1, <2>2, AddrMove, Zenon DEF Follows, Unpromised, SessKept
<1> QED  BY <1>1, <1>2, <1>3, Zenon DEF Lane

LEMMA AddrInit == Init => AddrInv
<1> SUFFICES ASSUME Init PROVE AddrInv
  BY Zenon
<1>1. \A f \in Family, k \in Client : pool[f].byClient[k] = NoAddr
  BY Zenon DEF Init, EmptyPool
<1>2. \A k \in Client : ~Live(k)
  BY Zenon DEF Init, Live
<1>3. \A c \in Conn : conn[c].pc = "idle" /\ conn[c].asg = NoAsg
  BY Zenon DEF Init, NoConnection
<1>4. \A f \in Family : pool[f].used = {}
  BY Zenon DEF Init, EmptyPool
<1>5. \A f \in Family : Disjoint(pool[f])
  BY <1>1, <1>4, Zenon DEF Disjoint
<1> QED
  BY <1>2, <1>3, <1>5, Zenon DEF AddrInv, SessionsHeld, PromisesHeld, Promised, ClaimsOwn,
                          Unpromised

LEMMA AddrNext ==
    ASSUME Calm, IInv, DBInv, CalmInv, AddrInv, [Next]_vars
    PROVE  AddrInv'
<1>1. CASE UNCHANGED vars \/ \E list \in UserLists : Reload(list)
  <2>1. UNCHANGED <<pool, sessions, ipIndex, sess, conn>>
    BY <1>1, Zenon DEF Reload, vars, users, tables
  <2>2. PromisesHeld' /\ \A d \in Conn : Unpromised(conn'[d])
    BY <2>1, Zenon DEF AddrInv, PromisesHeld, Promised
  <2>3. \A f \in Family : Disjoint(pool'[f])
    BY <2>1, Zenon DEF AddrInv
  <2> QED  BY <2>1, <2>2, <2>3, AddrKept, Zenon DEF SessKept
<1>2. CASE \E c \in Conn : Handshake(c) \/ Session(c) \/ Lane(c)
  BY <1>2, AddrHandshake, AddrSession, AddrLane
<1> QED  BY <1>1, <1>2, CalmSteps, Zenon DEF Next

-----------------------------------------------------------------------------
(* What a lane is told *)

Agree(a, b) == \A f \in Family : a[f] # NoAddr /\ b[f] # NoAddr => a[f] = b[f]

\* A connection that has a session was not told other addresses than that
\* session's, and nothing takes the object away from under it.
Told(c) ==
    conn[c].pc \in {"claim", "join", "lane"} =>
      LET s == conn[c].sess IN
      s \in SessId /\ sess[s].client \in Client /\ Agree(sess[s].asg, conn[c].asg)

LaneInv == \A c \in Conn : Told(c)

InSession(h) == h.pc \in {"claim", "join", "lane"}

LEMMA LaneKept ==
    ASSUME LaneInv,
           \A d \in Conn : InSession(conn'[d]) =>
             /\ InSession(conn[d])
             /\ conn'[d].sess = conn[d].sess /\ conn'[d].asg = conn[d].asg,
           \A d \in Conn : InSession(conn[d]) =>
             /\ sess'[conn[d].sess].client = sess[conn[d].sess].client
             /\ sess'[conn[d].sess].asg = sess[conn[d].sess].asg
    PROVE  LaneInv'
<1>1. ASSUME NEW d \in Conn PROVE Told(d)'
  <2>1. CASE InSession(conn'[d])
    <3>1. InSession(conn[d]) /\ conn'[d].sess = conn[d].sess /\ conn'[d].asg = conn[d].asg
      BY <2>1, Zenon
    <3>2. /\ conn[d].sess \in SessId /\ sess[conn[d].sess].client \in Client
          /\ Agree(sess[conn[d].sess].asg, conn[d].asg)
      BY <3>1, Zenon DEF LaneInv, Told, InSession
    <3> QED  BY <3>1, <3>2, Zenon DEF Told
  <2>2. CASE ~InSession(conn'[d])
    BY <2>2, Zenon DEF Told, InSession
  <2> QED  BY <2>1, <2>2, Zenon
<1> QED  BY <1>1, Zenon DEF LaneInv

\* A connection moves on, the sessions and their table stay.
LEMMA LaneMove ==
    ASSUME LaneInv, NEW c \in Conn, UNCHANGED sess,
           \A d \in Conn \ {c} : conn'[d] = conn[d],
           InSession(conn'[c]) =>
             InSession(conn[c]) /\ conn'[c].sess = conn[c].sess /\ conn'[c].asg = conn[c].asg
    PROVE  LaneInv'
BY LaneKept, Zenon

LEMMA LaneHandshake ==
    ASSUME TypeOK, LaneInv, NEW c \in Conn, Handshake(c)
    PROVE  LaneInv'
<1>0. conn \in [Conn -> ConnType]
  BY DEF TypeOK
<1>1. UNCHANGED <<sess, sessions>>
  BY Zenon DEF Handshake, Accept, HandshakeFails, Refuse, Authorize, Assign, HandshakeOK,
               NoAssignment, WriteFails, tables
<1>2. \A d \in Conn \ {c} : conn'[d] = conn[d]
  BY <1>0, Zenon DEF Handshake, Accept, HandshakeFails, Refuse, Authorize, Assign, HandshakeOK,
              NoAssignment, WriteFails, Return, Step
<1>3. conn'[c].pc \in {"idle", "handshake", "orphan", "assign", "acquire"}
  <2>0. NoConnection.pc = "idle"
    BY Zenon DEF NoConnection
  <2>1. CASE HandshakeFails(c) \/ NoAssignment(c)
    BY <1>0, <2>0, <2>1, Zenon DEF HandshakeFails, NoAssignment, Return, Step
  <2>2. CASE Accept(c)
    BY <1>0, <2>2, Zenon DEF Accept, NoConnection, Step
  <2>5. ASSUME NEW k \in Dials[c], Refuse(c, k) PROVE conn'[c].pc = "orphan"
    BY <1>0, <2>5 DEF Refuse, ConnType, Step
  <2>6. ASSUME NEW k \in Dials[c], Authorize(c, k) PROVE conn'[c].pc = "assign"
    BY <1>0, <2>6 DEF Authorize, ConnType, Step
  <2>3. CASE \E a \in Requests : Assign(c, a)
    BY <1>0, <2>3 DEF Assign, ConnType, Step
  <2>4. CASE HandshakeOK(c) \/ WriteFails(c)
    <3>1. CASE HandshakeOK(c)
      BY <1>0, <3>1 DEF HandshakeOK, ConnType, Step
    <3>2. CASE WriteFails(c)
      BY <1>0, <3>2 DEF WriteFails, ConnType, Step
    <3> QED  BY <2>4, <3>1, <3>2
  <2> QED  BY <2>1, <2>2, <2>3, <2>4, <2>5, <2>6, Zenon DEF Handshake
<1> QED  BY <1>1, <1>2, <1>3, LaneMove, Zenon DEF InSession

\* Both the connection and the session it finds have the address the pool
\* has for the client.
LEMMA LaneJoins ==
    ASSUME IInv, AddrInv, LaneInv, NEW c \in Conn, AcquireExisting(c)
    PROVE  LaneInv'
<1> DEFINE g == conn[c]
           k == g.client
           h == [g EXCEPT !.pc = "join", !.sess = sessions[k]]
<1>1. /\ g \in ConnType /\ g.pc = "acquire" /\ Live(k) /\ Step(c, h)
      /\ UNCHANGED <<sess, sessions>>
  BY Zenon DEF IInv, TypeOK, AcquireExisting, tables
<1>2. k \in Client
  BY <1>1 DEF IInv, KnownClient
<1>3. h.pc = "join" /\ h.sess = sessions[k] /\ h.asg = g.asg
  BY <1>1, Zenon DEF ConnType
<1>4. /\ sessions[k] \in SessId /\ sess[sessions[k]].client = k
      /\ sess[sessions[k]].asg \in [Family -> Addr] /\ g.asg \in [Family -> Addr]
  BY <1>1, <1>2, Zenon DEF IInv, TypeOK, Ownership, Live, SessType, ConnType, Asgs
<1>5. ASSUME NEW f \in Family, sess[sessions[k]].asg[f] # NoAddr, g.asg[f] # NoAddr
      PROVE  sess[sessions[k]].asg[f] = g.asg[f]
  <2>1. pool[f].byClient[k] = sess[sessions[k]].asg[f]
    BY <1>1, <1>2, <1>5, Zenon DEF AddrInv, SessionsHeld
  <2>2. pool[f].byClient[k] = g.asg[f]
    BY <1>1, <1>2, <1>5, Zenon DEF AddrInv, PromisesHeld, Promised
  <2> QED  BY <2>1, <2>2, Zenon
<1>6. Agree(sess[sessions[k]].asg, g.asg)
  BY <1>5, Zenon DEF Agree
<1>7. \A d \in Conn : conn'[d] = IF d = c THEN h ELSE conn[d]
  BY <1>1, Zenon DEF IInv, TypeOK, Step
<1> HIDE DEF h
<1>8. ASSUME NEW d \in Conn PROVE Told(d)'
  BY <1>1, <1>2, <1>3, <1>4, <1>6, <1>7, Zenon DEF Told, LaneInv
<1> QED  BY <1>8, Zenon DEF LaneInv

LEMMA LaneNew ==
    ASSUME IInv, LaneInv, NEW c \in Conn, AcquireNew(c)
    PROVE  LaneInv'
<1> DEFINE g == conn[c]
           k == g.client
<1>1. g \in ConnType /\ g.pc = "acquire" /\ TypeOK /\ Ownership /\ KnownClient
  BY Zenon DEF IInv, TypeOK, AcquireNew
<1>2. k \in Client
  BY <1>1 DEF KnownClient
<1>3. PICK s \in SessId :
        /\ sess[s] = NoSession
        /\ sess' = [sess EXCEPT ![s] = NewSession(g)]
        /\ sessions' = [sessions EXCEPT ![k] = s]
        /\ Step(c, [g EXCEPT !.pc = "claim", !.sess = s, !.todo = Assigned(g.asg)])
  BY Zenon DEF AcquireNew
<1> DEFINE h == [g EXCEPT !.pc = "claim", !.sess = s, !.todo = Assigned(g.asg)]
<1>4. h.pc = "claim" /\ h.sess = s /\ h.asg = g.asg
  BY <1>1, Zenon DEF ConnType
<1>5. \A d \in Conn : conn'[d] = IF d = c THEN h ELSE conn[d]
  BY <1>1, <1>3, Zenon DEF TypeOK, Step
<1> HIDE DEF h
<1>6. sess'[s].client = k /\ sess'[s].asg = g.asg /\ \A x \in SessId \ {s} : sess'[x] = sess[x]
  BY <1>1, <1>3, Zenon DEF TypeOK, NewSession
<1>7. sess[s].client \notin Client
  BY <1>3, MultiClientAssumption DEF NoSession
<1>8. ASSUME NEW d \in Conn PROVE Told(d)'
  <2>1. CASE d = c
    BY <1>2, <1>4, <1>5, <1>6, <2>1, Zenon DEF Told, Agree
  <2>2. CASE d # c
    <3>1. conn'[d] = conn[d] /\ Told(d)
      BY <1>5, <2>2, Zenon DEF LaneInv
    <3> QED  BY <1>6, <1>7, <3>1, Zenon DEF Told
  <2> QED  BY <2>1, <2>2, Zenon
<1> QED  BY <1>8, Zenon DEF LaneInv

LEMMA LaneSession ==
    ASSUME IInv, AddrInv, LaneInv, NEW c \in Conn, Session(c)
    PROVE  LaneInv'
<1> USE DEF users, tables
<1>0. conn \in [Conn -> ConnType]
  BY Zenon DEF IInv, TypeOK
<1>1. CASE AcquireNew(c) \/ AcquireExisting(c)
  BY <1>1, LaneNew, LaneJoins, Zenon
<1>2. CASE \/ OrphanLive(c) \/ ReleaseDone(c) \/ OrphanLock(c) \/ AcquireRefused(c)
           \/ ReleaseStep(c)
  <2>1. UNCHANGED <<sess, sessions>> /\ \A d \in Conn \ {c} : conn'[d] = conn[d]
    BY <1>0, <1>2, Zenon DEF OrphanLive, ReleaseDone, OrphanLock, AcquireRefused, ReleaseStep, Return,
                      Step
  <2>2. conn'[c].pc \in {"idle", "release"}
    <3>1. NoConnection.pc = "idle"
      BY Zenon DEF NoConnection
    <3>2. CASE OrphanLive(c) \/ ReleaseDone(c)
      BY <1>0, <3>1, <3>2, Zenon DEF OrphanLive, ReleaseDone, Return, Step
    <3>3. CASE OrphanLock(c)
      BY <1>0, <3>3 DEF OrphanLock, Step, ConnType
    <3>4. CASE AcquireRefused(c)
      BY <1>0, <3>4, Zenon DEF AcquireRefused, Step, ConnType
    <3>5. CASE ReleaseStep(c)
      BY <1>0, <3>5, Zenon DEF ReleaseStep, Step, ConnType
    <3> QED  BY <1>2, <3>2, <3>3, <3>4, <3>5, Zenon
  <2> QED  BY <2>1, <2>2, LaneMove, Zenon DEF InSession
<1>3. CASE ClaimStep(c) \/ ClaimDone(c)
  <2>1. /\ UNCHANGED <<sess, sessions>> /\ conn[c].pc = "claim"
        /\ \A d \in Conn \ {c} : conn'[d] = conn[d]
        /\ conn'[c].sess = conn[c].sess /\ conn'[c].asg = conn[c].asg
    BY <1>0, <1>3 DEF ClaimStep, ClaimDone, Step, ConnType
  <2> QED  BY <2>1, LaneMove, Zenon DEF InSession
<1> QED  BY <1>1, <1>2, <1>3 DEF Session

LEMMA LaneLane ==
    ASSUME TypeOK, LaneInv, NEW c \in Conn, Lane(c)
    PROVE  LaneInv'
<1> USE DEF users, tables
<1>0. /\ conn[c] \in ConnType /\ NoConnection.pc = "idle" /\ sess \in [SessId -> SessType]
      /\ sessions \in [Client -> SessId \cup {NoSess}]
      /\ \A d \in Conn : InSession(conn[d]) => conn[d].sess \in SessId
  BY Zenon DEF TypeOK, NoConnection, LaneInv, Told, InSession
<1>1. CASE \/ PeerDrops(c) \/ WatcherCloses(c) \/ RxEnds(c) \/ RxFails(c)
           \/ TxEnds(c) \/ TxFails(c)
  <2>1. /\ UNCHANGED <<sess, sessions>> /\ conn[c].pc = "lane"
        /\ \A d \in Conn \ {c} : conn'[d] = conn[d]
        /\ conn'[c].sess = conn[c].sess /\ conn'[c].asg = conn[c].asg
    BY <1>1 DEF PeerDrops, WatcherCloses, RxEnds, RxFails, TxEnds, TxFails, InLane, Step, TypeOK,
                ConnType
  <2> QED  BY <2>1, LaneMove, Zenon DEF InSession
<1>2. ASSUME NEW h, Step(c, h), sessions' = sessions,
             InSession(h) => InSession(conn[c]) /\ h.sess = conn[c].sess /\ h.asg = conn[c].asg,
             \A x \in SessId : \/ sess'[x].client = sess[x].client /\ sess'[x].asg = sess[x].asg
                               \/ /\ \A k \in Client : sessions[k] # x
                                  /\ \A d \in Conn \ {c} : conn[d].sess # x
                                  /\ ~InSession(h)
      PROVE  LaneInv'
  <2>1. \A d \in Conn : conn'[d] = IF d = c THEN h ELSE conn[d]
    BY <1>2, Zenon DEF TypeOK, Step
  <2>2. ASSUME NEW d \in Conn PROVE Told(d)'
    <3>1. CASE InSession(conn'[d])
      <4>1. InSession(conn[d]) /\ conn'[d].sess = conn[d].sess /\ conn'[d].asg = conn[d].asg
        BY <1>2, <2>1, <3>1, Zenon
      <4>2. /\ conn[d].sess \in SessId /\ sess[conn[d].sess].client \in Client
            /\ Agree(sess[conn[d].sess].asg, conn[d].asg)
        BY <4>1, Zenon DEF LaneInv, Told, InSession
      <4>3. d = c => InSession(h)
        BY <2>1, <3>1, Zenon
      <4>4. /\ sess'[conn[d].sess].client = sess[conn[d].sess].client
            /\ sess'[conn[d].sess].asg = sess[conn[d].sess].asg
        BY <1>2, <4>2, <4>3, Zenon
      <4> QED  BY <4>1, <4>2, <4>4, Zenon DEF Told
    <3>2. CASE ~InSession(conn'[d])
      BY <3>2, Zenon DEF Told, InSession
    <3> QED  BY <3>1, <3>2, Zenon
  <2> QED  BY <2>2, Zenon DEF LaneInv
<1>3. CASE Join(c)
  <2> DEFINE h == [conn[c] EXCEPT !.pc = "lane", !.up = TRUE, !.rx = TRUE, !.tx = TRUE]
  <2>1. Step(c, h) /\ conn[c].pc = "join" /\ sessions' = sessions
    BY <1>3, Zenon DEF Join
  <2>2. h.sess = conn[c].sess /\ h.asg = conn[c].asg
    BY <1>0, Zenon DEF ConnType
  <2>3. \A x \in SessId : sess'[x].client = sess[x].client /\ sess'[x].asg = sess[x].asg
    BY <1>0, <1>3 DEF Join, Touched, SessType
  <2> HIDE DEF h
  <2>4. InSession(conn[c])
    BY <2>1, Zenon DEF InSession
  <2> QED  BY <1>2, <2>1, <2>2, <2>3, <2>4, Zenon
<1>4. CASE LaneEnds(c)
  <2> DEFINE s == conn[c].sess
  <2>1. Step(c, NoConnection) /\ sessions' = sessions
    BY <1>4, Zenon DEF LaneEnds, Return
  <2>2. CASE Referenced(s, c)
    <3>1. \A x \in SessId : sess'[x].client = sess[x].client /\ sess'[x].asg = sess[x].asg
      BY <1>0, <1>4, <2>2 DEF LaneEnds, Touched, SessType
    <3> QED  BY <1>0, <1>2, <2>1, <3>1, Zenon DEF InSession
  <2>3. CASE ~Referenced(s, c)
    <3>1. \A x \in SessId : x # s => sess'[x] = sess[x]
      BY <1>0, <1>4, <2>3, Zenon DEF LaneEnds
    <3>2. (\A k \in Client : sessions[k] # s) /\ \A d \in Conn \ {c} : conn[d].sess # s
      BY <2>3, Zenon DEF Referenced
    <3> QED  BY <1>0, <1>2, <2>1, <3>1, <3>2, Zenon DEF InSession
  <2> QED  BY <2>2, <2>3, Zenon
<1> QED  BY <1>1, <1>3, <1>4 DEF Lane

LEMMA LaneInit == Init => LaneInv
BY DEF Init, LaneInv, Told, NoConnection

LEMMA LaneNext ==
    ASSUME Calm, IInv, DBInv, CalmInv, AddrInv, LaneInv, [Next]_vars
    PROVE  LaneInv'
<1>0. TypeOK
  BY Zenon DEF IInv
<1>1. CASE UNCHANGED vars \/ \E list \in UserLists : Reload(list)
  <2>1. UNCHANGED <<sess, conn>>
    BY <1>1, Zenon DEF Reload, vars, users, tables
  <2> QED  BY <2>1, LaneKept, Zenon
<1>2. CASE \E c \in Conn : Handshake(c) \/ Session(c) \/ Lane(c)
  BY <1>0, <1>2, LaneHandshake, LaneSession, LaneLane
<1> QED  BY <1>1, <1>2, CalmSteps, Zenon DEF Next

-----------------------------------------------------------------------------
(* The theorems *)

\* In a calm environment the invariants of this module hold together.
LEMMA CalmInvariants ==
    ASSUME Calm
    PROVE  Spec => [](IInv /\ DBInv /\ CalmInv /\ AddrInv /\ LaneInv)
<1>1. Init => DBInv /\ CalmInv /\ AddrInv /\ LaneInv
  BY DBInit, CalmInit, AddrInit, LaneInit
<1>2. IInv /\ DBInv /\ CalmInv /\ AddrInv /\ LaneInv /\ [Next]_vars
        => DBInv' /\ CalmInv' /\ AddrInv' /\ LaneInv'
  BY DBNext, CalmNext, AddrNext, LaneNext, Zenon
<1> QED  BY <1>1, <1>2, ServerInvariant, PTL DEF Spec

\* In a calm environment, whatever number of clients dial whatever number of
\* lanes, fail, lose lanes and reload users, no two live sessions have the
\* same tunnel address.
THEOREM ServerAddressExclusive ==
    ASSUME Calm
    PROVE  Spec => []AddressExclusive
<1>1. ASSUME AddrInv PROVE AddressExclusive
  <2> SUFFICES ASSUME NEW k \in Client, NEW l \in Client, NEW f \in Family, k # l, Live(k), Live(l),
                      sess[sessions[k]].asg[f] # NoAddr,
                      sess[sessions[k]].asg[f] = sess[sessions[l]].asg[f]
               PROVE  FALSE
    BY Zenon DEF AddressExclusive
  <2>1. /\ pool[f].byClient[k] = sess[sessions[k]].asg[f]
        /\ pool[f].byClient[l] = sess[sessions[l]].asg[f]
    BY <1>1, Zenon DEF AddrInv, SessionsHeld
  <2>2. Disjoint(pool[f])
    BY <1>1, Zenon DEF AddrInv
  <2> QED  BY <2>1, <2>2, Zenon DEF Disjoint
<1> QED  BY <1>1, CalmInvariants, PTL

\* In a calm environment no lane told its client another address than that
\* of the session it carries.  A session entered while a pool was exhausted
\* may lack an address that a later lane is told.
THEOREM ServerLaneAgrees ==
    ASSUME Calm
    PROVE  Spec => []LaneAgrees
<1>1. LaneInv => LaneAgrees
  BY Zenon DEF LaneInv, Told, Agree, LaneAgrees
<1> QED  BY <1>1, CalmInvariants, PTL

\* In a calm environment an IPv4 pool that gives no address has none: each
\* unreserved host belongs to a client with a session, or with a connection
\* that will hand it to one or release it.
THEOREM ServerNoFalseExhaustion ==
    ASSUME Calm
    PROVE  Spec => NoFalseExhaustion
<1>1. ASSUME IInv, AddrInv, NEW c \in Conn, NEW a \in Requests, Assign(c, a),
             First(conn[c].todo) = "v4", conn'[c].asg["v4"] = NoAddr,
             NEW b \in Subnet["v4"] \ (Reserved["v4"] \cup {0})
      PROVE  \E k \in Client : pool["v4"].byClient[k] = b /\ Accountable("v4", k)
  <2> DEFINE g == conn[c]
             q == pool["v4"]
  <2>1. g \in ConnType /\ "v4" \in Family /\ q \in PoolType
    BY <1>1, FirstTyped, Zenon DEF IInv, TypeOK, ConnType, Assign
  <2>2. Allocated(q, "v4", g.user, g.client, a, g.db) = NoAddr
    BY <1>1, <2>1 DEF IInv, TypeOK, Assign, Step, ConnType, Asgs
  <2>3. Choice(q, "v4", g.user, g.client, a, g.db) = NoAddr
    BY <2>2, Zenon DEF Allocated
  <2>4. PoolWalk(q, "v4", g.client) = NoAddr
    BY <2>1, <2>3, PoolAssumption DEF Choice, Honoured
  <2>5. b \in q.used
    BY <1>1, <2>1, <2>4, WalkFinds
  <2>6. PICK k \in Client : q.byClient[k] = b
    BY <1>1, <2>1, <2>5, Zenon DEF AddrInv, Disjoint
  <2>7. b # NoAddr
    BY <1>1, <2>1, PoolAssumption
  <2> QED  BY <2>1, <2>6, <2>7, <1>1, Zenon DEF IInv, NoAddressLeak
<1> DEFINE A == \A c \in Conn, a \in Requests :
                  /\ Assign(c, a) /\ First(conn[c].todo) = "v4"
                  /\ conn'[c].asg["v4"] = NoAddr
                  => \A b \in Subnet["v4"] \ (Reserved["v4"] \cup {0}) :
                       \E k \in Client : pool["v4"].byClient[k] = b /\ Accountable("v4", k)
<1>2. IInv /\ AddrInv => A
  BY <1>1, Zenon
<1>3. IInv /\ AddrInv /\ [Next]_vars => [A]_vars
  BY <1>2, Zenon
<1>4. Spec => [][A]_vars
  BY <1>3, CalmInvariants, PTL DEF Spec
<1> QED  BY <1>4 DEF NoFalseExhaustion

\* An address set aside at startup is newly given only to the user that
\* reserves it in the database the handshake goes by: for every sequence of
\* reloads, handshakes and collections, calm or not.  It says nothing of an
\* address that a later database reserves and newIPPool did not set aside.
THEOREM ServerRespectsReservations == Spec => RespectsReservations
<1>1. ASSUME IInv, DBInv, NEW c \in Conn, NEW a \in Requests, Assign(c, a),
             conn[c].user \in Names,
             pool[First(conn[c].todo)].byClient[conn[c].client] = NoAddr,
             conn'[c].asg[First(conn[c].todo)] \in Reserved[First(conn[c].todo)]
      PROVE  ReservationOwner(conn[c].db, First(conn[c].todo), conn'[c].asg[First(conn[c].todo)])
               = conn[c].user
  <2> DEFINE g == conn[c]
             f == First(g.todo)
             b == Choice(pool[f], f, g.user, g.client, a, g.db)
  <2>1. /\ g \in ConnType /\ f \in Family /\ pool[f] \in PoolType
        /\ g.client \in Client /\ g.pc = "assign"
    BY <1>1, FirstTyped, Zenon DEF IInv, TypeOK, ConnType, Assign, KnownClient
  <2>2. Allocated(pool[f], f, g.user, g.client, a, g.db) = b
    BY <1>1, Zenon DEF Allocated
  <2>3. conn'[c].asg[f] = b
    BY <1>1, <2>1, <2>2, Zenon DEF IInv, TypeOK, Assign, Step, ConnType, Asgs
  <2>4. g.db \in DBType /\ ReservedOnce(g.db)
    BY <1>1, <2>1, DatabaseReserved DEF DBInv, FromDB
  <2>5. b \in Reserved[f] /\ g.user \in Names
    BY <1>1, <2>3, Zenon
  <2> HIDE DEF b, f, g
  <2>6. ReservationOwner(g.db, f, b) = g.user
    BY <2>1, <2>4, <2>5, ChoiceReserved DEF b
  <2> QED  BY <2>3, <2>6 DEF f, g
<1> DEFINE A == \A c \in Conn, a \in Requests :
                  LET f == First(conn[c].todo) IN
                  /\ Assign(c, a) /\ conn[c].user \in Names
                  /\ pool[f].byClient[conn[c].client] = NoAddr
                  /\ conn'[c].asg[f] \in Reserved[f]
                  => ReservationOwner(conn[c].db, f, conn'[c].asg[f]) = conn[c].user
<1>2. IInv /\ DBInv => A
  BY <1>1, Zenon
<1>3. IInv /\ DBInv /\ [Next]_vars => [A]_vars /\ DBInv'
  BY <1>2, DBNext, Zenon
<1>4. Spec => [][A]_vars
  BY <1>3, DBInit, ServerInvariant, PTL DEF Spec
<1> QED  BY <1>4 DEF RespectsReservations
=============================================================================
