------------------------- MODULE MultiClientProofs --------------------------
(***************************************************************************)
(* Type correctness, the soundness of the address index and the absence of *)
(* address leaks of the multi-client server, for any number of clients,    *)
(* connections and session objects, any subnets, any sequence of reloads.  *)
(***************************************************************************)
EXTENDS MultiClient, TLAPS

-----------------------------------------------------------------------------
(* The operators of IPPool *)

\* FirstIn answers with a member of S or with NoAddr, and so does Lowest.
LEMMA FirstInMember ==
    ASSUME NEW s \in Seq(Nat), NEW S
    PROVE  FirstIn(s, S) \in S \cup {NoAddr}
<1> DEFINE hit == Least({i \in DOMAIN s : s[i] \in S})
<1>1. \A i \in hit : s[i] \in S
  BY DEF Least
<1> HIDE DEF hit
<1>2. FirstIn(s, S) = IF hit = {} THEN NoAddr ELSE s[CHOOSE i \in hit : TRUE]
  BY DEF FirstIn, hit
<1>3. hit # {} => (CHOOSE i \in hit : TRUE) \in hit
  OBVIOUS
<1> QED  BY <1>1, <1>2, <1>3

LEMMA LowestMember ==
    ASSUME NEW S
    PROVE  Lowest(S) \in S \cup {NoAddr}
<1>1. Least(S) \subseteq S
  BY DEF Least
<1> QED  BY <1>1 DEF Lowest

\* What a user reserves is a sequence of offsets.
LEMMA ReservedForType ==
    ASSUME NEW d \in DBType, NEW n, NEW f \in Family
    PROVE  ReservedFor(d, n, f) \in Seq(Nat)
<1>1. CASE Known(d, n)
  <2>1. UserNamed(d, n) \in d.users
    BY <1>1 DEF Known, UserNamed
  <2>2. UserNamed(d, n) \in UserType
    BY <2>1 DEF DBType
  <2> QED
    BY <1>1, <2>2 DEF ReservedFor, UserType
<1>2. CASE ~Known(d, n)
  BY <1>2 DEF ReservedFor
<1> QED
  BY <1>1, <1>2

\* AllocateFor only ever picks an address of the subnet that is not used.
LEMMA ChoiceFree ==
    ASSUME NEW q \in PoolType, NEW f \in Family, NEW user, NEW k \in Client,
           NEW a, NEW d \in DBType
    PROVE  Choice(q, f, user, k, a, d) \in (Subnet[f] \ q.used) \cup {NoAddr}
<1> DEFINE free == Subnet[f] \ (Reserved[f] \cup q.used)
<1>1. Honoured(q, f, user, a, d) => a \in Subnet[f] \ q.used
  BY DEF Honoured
<1>2. OwnReservation(q, f, user, d) \in (Subnet[f] \ q.used) \cup {NoAddr}
  BY ReservedForType, FirstInMember DEF OwnReservation
<1>3. PoolWalk(q, f, k) \in (Subnet[f] \ q.used) \cup {NoAddr}
  <2>1. FirstIn(Hash[k], free) \in free \cup {NoAddr}
    BY FirstInMember, PoolAssumption
  <2>2. Lowest(free \ {0}) \in free \cup {NoAddr}
    BY LowestMember
  <2> QED
    BY <2>1, <2>2 DEF PoolWalk
<1> QED
  BY <1>1, <1>2, <1>3 DEF Choice

LEMMA SubnetOffset ==
    ASSUME NEW f \in Family
    PROVE  Subnet[f] \subseteq Offset
BY DEF Offset

LEMMA NoAddrNotOffset == NoAddr \notin Offset
BY PoolAssumption DEF Offset

\* The four pool calls keep the shape of a pool.
LEMMA PoolTyped ==
    ASSUME NEW q \in PoolType, NEW f \in Family, NEW user, NEW k \in Client,
           NEW a, NEW d \in DBType
    PROVE  /\ Allocated(q, f, user, k, a, d) \in Addr
           /\ AllocateFor(q, f, user, k, a, d) \in PoolType
           /\ a \in Addr => Claim(q, k, a) \in PoolType
           /\ Release(q, k) \in PoolType
<1> DEFINE b == Choice(q, f, user, k, a, d)
<1>1. b \in Addr
  BY ChoiceFree, SubnetOffset DEF Addr
<1>2. \A x \in Offset : Grant(q, k, x) \in PoolType
  BY DEF Grant, PoolType, Addr
<1>3. Allocated(q, f, user, k, a, d) \in Addr
  BY <1>1 DEF Allocated, PoolType
<1>4. AllocateFor(q, f, user, k, a, d) \in PoolType
  BY <1>1, <1>2 DEF AllocateFor, Addr
<1>5. a \in Addr => Claim(q, k, a) \in PoolType
  BY <1>2 DEF Claim, Addr
<1>6. Release(q, k) \in PoolType
  BY DEF Release, PoolType, Addr
<1> QED
  BY <1>3, <1>4, <1>5, <1>6

LEMMA EmptyPoolTyped == EmptyPool \in PoolType
BY DEF EmptyPool, PoolType, Addr

\* What each call does to the clients' addresses: it concerns one client.
LEMMA GrantEffect ==
    ASSUME NEW q \in PoolType, NEW k \in Client, NEW a, NEW l \in Client
    PROVE  Grant(q, k, a).byClient[l] = IF l = k THEN a ELSE q.byClient[l]
BY DEF Grant, PoolType

LEMMA AllocateEffect ==
    ASSUME NEW q \in PoolType, NEW f, NEW user, NEW k \in Client, NEW a, NEW d,
           NEW l \in Client
    PROVE  AllocateFor(q, f, user, k, a, d).byClient[l]
             = IF l = k THEN Allocated(q, f, user, k, a, d) ELSE q.byClient[l]
BY GrantEffect DEF AllocateFor, Allocated

LEMMA ClaimEffect ==
    ASSUME NEW q \in PoolType, NEW k \in Client, NEW a, NEW l \in Client, l # k
    PROVE  Claim(q, k, a).byClient[l] = q.byClient[l]
BY GrantEffect DEF Claim

LEMMA ReleaseEffect ==
    ASSUME NEW q \in PoolType, NEW k \in Client, NEW l \in Client
    PROVE  Release(q, k).byClient[l] = IF l = k THEN NoAddr ELSE q.byClient[l]
BY DEF Release, PoolType

-----------------------------------------------------------------------------
(* The inductive invariant *)

\* A session in the table is filed under its own client; the collector's
\* sessions are real ones, are no longer in the table, and are torn down
\* once.
Ownership ==
    /\ \A k \in Client : Live(k) => sess[sessions[k]].client = k
    /\ \A s \in gc.victims : /\ sess[s].client \in Client
                             /\ \A k \in Client : sessions[k] # s
                             /\ s # gc.cur
    /\ gc.cur # NoSess => /\ sess[gc.cur].client \in Client
                          /\ \A k \in Client : sessions[k] # gc.cur

\* Past the first message a connection knows its client.
KnownClient ==
    \A c \in Conn : conn[c].pc \notin {"idle", "handshake"} => conn[c].client \in Client

\* While acquireSession claims addresses it holds m.mu, so nothing can take
\* the session it just published out of the table.
ClaimsLocked ==
    \A c \in Conn : conn[c].pc = "claim" => mu = c /\ Live(conn[c].client)

IInv == TypeOK /\ Ownership /\ KnownClient /\ ClaimsLocked /\ IndexSound /\ NoAddressLeak

-----------------------------------------------------------------------------
(***************************************************************************)
(* Type correctness: every step keeps TypeOK, given that a connection      *)
(* knows its client and that the collector's sessions have one.            *)
(***************************************************************************)

LEMMA NilTyped == NilDB \in DBType
BY Zenon DEF NilDB, DBType

LEMMA IdleTyped == NoConnection \in ConnType /\ NoSession \in SessType
BY NilTyped DEF NoConnection, NoSession, ConnType, SessType, PCs, Asgs, NoAsg, Addr

LEMMA FirstTyped ==
    ASSUME NEW todo \in SUBSET Family, todo # {}
    PROVE  First(todo) \in todo
BY PoolAssumption, Zenon DEF First

\* A connection record that moves on keeps the type of conn.
LEMMA StepTyped ==
    ASSUME TypeOK, NEW c \in Conn, NEW h \in ConnType, Step(c, h)
    PROVE  conn' \in [Conn -> ConnType]
BY DEF TypeOK, Step

LEMMA ReloadTyped ==
    ASSUME NEW list \in Seq(UserType)
    PROVE  NewUserDB(list) \in DBType
BY DEF NewUserDB, DBType, Range

\* The authorizer names a user of the database, or nobody.
LEMMA AuthorizedTyped ==
    ASSUME NEW d \in DBType, NEW k
    PROVE  AuthorizedName(d, PeerKey, k) \in Names \cup {NoUser, Unauthorized}
<1>1. \A u \in d.users : u.name \in Names
  BY DEF DBType, UserType
<1>2. (\E u \in d.users : u.key = k) => (CHOOSE u \in d.users : u.key = k) \in d.users
  OBVIOUS
<1> QED
  BY <1>1, <1>2 DEF AuthorizedName

LEMMA TypeHandshake ==
    ASSUME TypeOK, KnownClient, NEW c \in Conn, Handshake(c)
    PROVE  TypeOK'
<1> USE DEF users, tables
<1>0. conn[c] \in ConnType /\ sem \in Int /\ db \in DBType
  BY DEF TypeOK
<1>1. CASE Accept(c)
  <2>1. [NoConnection EXCEPT !.pc = "handshake", !.permit = TRUE, !.db = db] \in ConnType
    BY <1>0, IdleTyped, Zenon DEF ConnType, PCs
  <2> QED
    BY <1>0, <1>1, <2>1, StepTyped DEF Accept, TypeOK
<1>2. CASE HandshakeFails(c)
  BY <1>0, <1>2, IdleTyped, StepTyped DEF HandshakeFails, Return, TypeOK
<1>3. ASSUME NEW k \in Dials[c], Refuse(c, k) PROVE TypeOK'
  <2>1. k \in Client
    BY MultiClientAssumption
  <2>2. [conn[c] EXCEPT !.pc = "orphan", !.client = k, !.db = NilDB] \in ConnType
    BY <1>0, <2>1, NilTyped, Zenon DEF ConnType, PCs
  <2> QED
    BY <1>3, <2>2, StepTyped DEF Refuse, TypeOK
<1>4. ASSUME NEW k \in Dials[c], Authorize(c, k) PROVE TypeOK'
  <2> DEFINE user == AuthorizedName(conn[c].db, PeerKey, k)
  <2>1. k \in Client
    BY MultiClientAssumption
  <2>2. user \in Names \cup {NoUser}
    <3>1. conn[c].db \in DBType
      BY <1>0 DEF ConnType
    <3> QED
      BY <1>4, <3>1, AuthorizedTyped DEF Authorize
  <2>3. [conn[c] EXCEPT !.pc = "assign", !.client = k, !.user = user,
                        !.db = db, !.todo = Family] \in ConnType
    BY <1>0, <2>1, <2>2, Zenon DEF ConnType, PCs
  <2> QED
    BY <1>4, <2>3, StepTyped DEF Authorize, TypeOK
<1>5. ASSUME NEW a \in Requests, Assign(c, a) PROVE TypeOK'
  <2> DEFINE h == conn[c]
             f == First(h.todo)
             b == Allocated(pool[f], f, h.user, h.client, a, h.db)
  <2>1. f \in Family /\ h.client \in Client /\ h.db \in DBType
    BY <1>0, <1>5, FirstTyped DEF Assign, KnownClient, ConnType
  <2>2. pool[f] \in PoolType
    BY <2>1, Zenon DEF TypeOK
  <2>3. b \in Addr /\ AllocateFor(pool[f], f, h.user, h.client, a, h.db) \in PoolType
    BY <2>1, <2>2, PoolTyped
  <2>4. [h EXCEPT !.asg = [@ EXCEPT ![f] = b], !.todo = @ \ {f}] \in ConnType
    BY <1>0, <2>1, <2>3, Zenon DEF ConnType, Asgs
  <2>5. pool' \in [Family -> PoolType]
    BY <1>5, <2>1, <2>3 DEF Assign, TypeOK
  <2> QED
    BY <1>5, <2>4, <2>5, StepTyped, Zenon DEF Assign, TypeOK
<1>6. CASE HandshakeOK(c)
  <2>1. [conn[c] EXCEPT !.pc = "acquire", !.permit = FALSE, !.db = NilDB] \in ConnType
    BY <1>0, NilTyped, Zenon DEF ConnType, PCs
  <2> QED
    BY <1>0, <1>6, <2>1, StepTyped DEF HandshakeOK, TypeOK
<1>7. CASE NoAssignment(c)
  BY <1>0, <1>7, IdleTyped, StepTyped DEF NoAssignment, Return, TypeOK
<1>8. CASE WriteFails(c)
  <2>1. [conn[c] EXCEPT !.pc = "orphan", !.db = NilDB] \in ConnType
    BY <1>0, NilTyped, Zenon DEF ConnType, PCs
  <2> QED
    BY <1>8, <2>1, StepTyped DEF WriteFails, TypeOK
<1> QED
  BY <1>1, <1>2, <1>3, <1>4, <1>5, <1>6, <1>7, <1>8 DEF Handshake

\* Taking or giving back a slot keeps the counts numbers, known user or not.
LEMMA SlotsTyped ==
    ASSUME NEW g \in [Names -> Int], NEW n, NEW d
    PROVE  AcquireSlot(g, n) \in [Names -> Int] /\ ReleaseSlot(d, g, n) \in [Names -> Int]
<1>1. CASE n \in Names
  <2>1. g[n] + 1 \in Int /\ g[n] - 1 \in Int
    BY <1>1
  <2> QED
    BY <2>1, Zenon DEF AcquireSlot, ReleaseSlot
<1>2. CASE n \notin Names
  BY <1>2, Zenon DEF AcquireSlot, ReleaseSlot
<1> QED
  BY <1>1, <1>2

\* A lane that joins or leaves keeps the type of the session objects.
LEMMA LanesTyped ==
    ASSUME TypeOK, NEW s, NEW n \in Int
    PROVE  Touched(s, n) \in [SessId -> SessType]
<1>1. CASE s \in SessId
  <2>1. sess[s] \in SessType
    BY <1>1 DEF TypeOK
  <2>2. sess[s].active + n \in Int
    BY <2>1 DEF SessType
  <2>3. [sess[s] EXCEPT !.active = sess[s].active + n, !.fresh = TRUE] \in SessType
    BY <2>1, <2>2, Zenon DEF SessType
  <2> QED
    BY <2>3, Zenon DEF TypeOK, Touched
<1>2. CASE s \notin SessId
  BY <1>2, Zenon DEF TypeOK, Touched
<1> QED
  BY <1>1, <1>2

LEMMA TypeSession ==
    ASSUME TypeOK, KnownClient, NEW c \in Conn, Session(c)
    PROVE  TypeOK'
<1> USE DEF users, tables
<1>0. conn[c] \in ConnType /\ sem \in Int /\ db \in DBType
  BY DEF TypeOK
<1>1. CASE OrphanLive(c)
  BY <1>0, <1>1, IdleTyped, StepTyped DEF OrphanLive, Return, TypeOK
<1>2. CASE OrphanLock(c)
  <2>1. [conn[c] EXCEPT !.pc = "release", !.todo = Family] \in ConnType
    BY <1>0, Zenon DEF ConnType, PCs
  <2> QED
    BY <1>2, <2>1, StepTyped DEF OrphanLock, TypeOK
<1>3. CASE ReleaseStep(c)
  <2> DEFINE f == First(conn[c].todo)
  <2>1. f \in Family /\ conn[c].client \in Client
    BY <1>0, <1>3, FirstTyped DEF ReleaseStep, KnownClient, ConnType
  <2>2. Release(pool[f], conn[c].client) \in PoolType
    <3>1. pool[f] \in PoolType
      BY <2>1 DEF TypeOK
    <3> QED
      BY <2>1, <3>1, NilTyped, PoolTyped, Zenon
  <2>3. pool' \in [Family -> PoolType]
    BY <1>3, <2>1, <2>2 DEF ReleaseStep, ReleaseOne, TypeOK
  <2>4. [conn[c] EXCEPT !.todo = @ \ {f}] \in ConnType
    BY <1>0, Zenon DEF ConnType
  <2> QED
    BY <1>3, <2>3, <2>4, StepTyped DEF ReleaseStep, TypeOK
<1>4. CASE ReleaseDone(c)
  BY <1>0, <1>4, IdleTyped, StepTyped DEF ReleaseDone, Return, TypeOK
<1>5. CASE AcquireExisting(c)
  <2>1. sessions[conn[c].client] \in SessId \cup {NoSess}
    BY <1>5 DEF AcquireExisting, KnownClient, TypeOK
  <2>2. [conn[c] EXCEPT !.pc = "join", !.sess = sessions[conn[c].client]] \in ConnType
    BY <1>0, <2>1, Zenon DEF ConnType, PCs
  <2> QED
    BY <1>5, <2>2, StepTyped DEF AcquireExisting, TypeOK
<1>6. CASE AcquireRefused(c)
  <2>1. [conn[c] EXCEPT !.pc = "release", !.todo = Family] \in ConnType
    BY <1>0, Zenon DEF ConnType, PCs
  <2> QED
    BY <1>6, <2>1, StepTyped DEF AcquireRefused, TypeOK
<1>7. CASE AcquireNew(c)
  <2> DEFINE h == conn[c]
  <2>1. PICK s \in SessId :
          /\ sess' = [sess EXCEPT ![s] = NewSession(h)]
          /\ sessions' = [sessions EXCEPT ![h.client] = s]
          /\ ipIndex' = Indexed(h.asg, s)
          /\ Step(c, [h EXCEPT !.pc = "claim", !.sess = s, !.todo = Assigned(h.asg)])
    BY <1>7, Zenon DEF AcquireNew
  <2>2. NewSession(h) \in SessType
    BY <1>0 DEF NewSession, SessType, ConnType
  <2>3. sess' \in [SessId -> SessType] /\ sessions' \in [Client -> SessId \cup {NoSess}]
    BY <2>1, <2>2, Zenon DEF TypeOK
  <2>4. ipIndex' \in [Family -> [Offset -> SessId \cup {NoSess}]]
    BY <2>1 DEF Indexed, TypeOK
  <2>5. [h EXCEPT !.pc = "claim", !.sess = s, !.todo = Assigned(h.asg)] \in ConnType
    BY <1>0, Zenon DEF ConnType, PCs, Assigned
  <2>6. conn' \in [Conn -> ConnType]
    BY <2>1, <2>5, StepTyped
  <2>7. slots' \in [Names -> Int]
    BY <1>7, SlotsTyped, Zenon DEF AcquireNew, TypeOK
  <2> QED
    BY <1>7, <2>3, <2>4, <2>6, <2>7, Zenon DEF AcquireNew, TypeOK
<1>8. CASE ClaimStep(c)
  <2> DEFINE f == First(conn[c].todo)
  <2>1. f \in Family /\ conn[c].client \in Client /\ conn[c].asg[f] \in Addr
    BY <1>0, <1>8, FirstTyped, Zenon DEF ClaimStep, KnownClient, ConnType, Asgs
  <2>2. Claim(pool[f], conn[c].client, conn[c].asg[f]) \in PoolType
    <3>1. pool[f] \in PoolType
      BY <2>1, Zenon DEF TypeOK
    <3> QED
      BY <2>1, <3>1, NilTyped, PoolTyped, Zenon
  <2>3. pool' \in [Family -> PoolType]
    BY <1>8, <2>1, <2>2 DEF ClaimStep, TypeOK
  <2>4. [conn[c] EXCEPT !.todo = @ \ {f}] \in ConnType
    BY <1>0 DEF ConnType
  <2> QED
    BY <1>8, <2>3, <2>4, StepTyped, Zenon DEF ClaimStep, TypeOK
<1>9. CASE ClaimDone(c)
  <2>1. [conn[c] EXCEPT !.pc = "join"] \in ConnType
    BY <1>0 DEF ConnType, PCs
  <2> QED
    BY <1>9, <2>1, StepTyped DEF ClaimDone, TypeOK
<1> QED
  BY <1>1, <1>2, <1>3, <1>4, <1>5, <1>6, <1>7, <1>8, <1>9, Zenon DEF Session

LEMMA TypeLane ==
    ASSUME TypeOK, NEW c \in Conn, Lane(c)
    PROVE  TypeOK'
<1> USE DEF users, tables
<1>0. conn[c] \in ConnType /\ sem \in Int
  BY Zenon DEF TypeOK
<1>1. CASE Join(c)
  <2>1. sess' \in [SessId -> SessType]
    BY <1>1, LanesTyped DEF Join
  <2>2. [conn[c] EXCEPT !.pc = "lane", !.up = TRUE, !.rx = TRUE, !.tx = TRUE] \in ConnType
    BY <1>0, Zenon DEF ConnType, PCs
  <2> QED
    BY <1>1, <2>1, <2>2, StepTyped DEF Join, TypeOK
<1>2. CASE PeerDrops(c) \/ WatcherCloses(c)
  <2>1. [conn[c] EXCEPT !.up = FALSE] \in ConnType
    BY <1>0, Zenon DEF ConnType
  <2> QED
    BY <1>2, <2>1, StepTyped DEF PeerDrops, WatcherCloses, TypeOK
<1>3. CASE RxEnds(c) \/ RxFails(c)
  <2>1. [conn[c] EXCEPT !.rx = FALSE] \in ConnType
    BY <1>0, Zenon DEF ConnType
  <2> QED
    BY <1>3, <2>1, StepTyped DEF RxEnds, RxFails, TypeOK
<1>4. CASE TxEnds(c) \/ TxFails(c)
  <2>1. [conn[c] EXCEPT !.tx = FALSE] \in ConnType
    BY <1>0, Zenon DEF ConnType
  <2> QED
    BY <1>4, <2>1, StepTyped DEF TxEnds, TxFails, TypeOK
<1>5. CASE LaneEnds(c)
  <2>1. sess' \in [SessId -> SessType]
    <3>1. [sess EXCEPT ![conn[c].sess] = NoSession] \in [SessId -> SessType]
      BY IdleTyped, Zenon DEF TypeOK
    <3> QED
      BY <1>5, <3>1, LanesTyped DEF LaneEnds
  <2> QED
    BY <1>0, <1>5, <2>1, IdleTyped, StepTyped DEF LaneEnds, Return, TypeOK
<1> QED
  BY <1>1, <1>2, <1>3, <1>4, <1>5 DEF Lane

LEMMA TypeCollector ==
    ASSUME TypeOK, Ownership, Collector
    PROVE  TypeOK'
<1> USE DEF users, tables
<1>0. gc \in GCType
  BY DEF TypeOK
<1>1. ASSUME NEW s \in SessId, Idles(s) PROVE TypeOK'
  <2>1. sess' \in [SessId -> SessType]
    BY <1>1, Zenon DEF Idles, TypeOK, SessType
  <2> QED
    BY <1>1, <2>1 DEF Idles, TypeOK
<1>2. ASSUME NEW s \in SessId, TearDownClose(s) PROVE TypeOK'
  <2>1. sess' \in [SessId -> SessType]
    BY <1>2, ZenonT(30) DEF TearDownClose, TypeOK, SessType
  <2>2. gc' \in GCType
    BY <1>0, <1>2, Zenon DEF TearDownClose, GCType
  <2> QED
    BY <1>2, <2>1, <2>2 DEF TearDownClose, TypeOK
<1>3. CASE Collect
  <2>1. gc' \in GCType
    BY <1>0, <1>3 DEF Collect, Stale, Tabled, GCType
  <2>2. /\ sessions' \in [Client -> SessId \cup {NoSess}]
        /\ ipIndex' \in [Family -> [Offset -> SessId \cup {NoSess}]]
    BY <1>3 DEF Collect, Untable, TypeOK
  <2> QED
    BY <1>3, <2>1, <2>2 DEF Collect, TypeOK
<1>4. CASE CollectAll
  <2>1. gc' \in GCType
    BY <1>0, <1>4, Zenon DEF CollectAll, Tabled, GCType
  <2> QED
    BY <1>4, <2>1 DEF CollectAll, TypeOK
<1>5. CASE TearDownRelease
  <2> DEFINE f == First(gc.todo)
             k == sess[gc.cur].client
  <2>1. f \in Family /\ k \in Client
    BY <1>0, <1>5, FirstTyped DEF TearDownRelease, Ownership, GCType
  <2>2. Release(pool[f], k) \in PoolType
    <3>1. pool[f] \in PoolType
      BY <2>1 DEF TypeOK
    <3> QED
      BY <2>1, <3>1, NilTyped, PoolTyped, Zenon
  <2>3. pool' \in [Family -> PoolType]
    BY <1>5, <2>1, <2>2 DEF TearDownRelease, ReleaseOne, TypeOK
  <2>4. gc' \in GCType
    BY <1>0, <1>5, Zenon DEF TearDownRelease, GCType
  <2> QED
    BY <1>5, <2>3, <2>4 DEF TearDownRelease, TypeOK
<1>6. CASE TearDownSlot
  <2>1. sess' \in [SessId -> SessType]
    BY <1>6, IdleTyped, Zenon DEF TearDownSlot, TypeOK
  <2>2. slots' \in [Names -> Int]
    BY <1>6, SlotsTyped DEF TearDownSlot, TypeOK
  <2>3. gc' \in GCType
    BY <1>0, <1>6 DEF TearDownSlot, GCType
  <2> QED
    BY <1>6, <2>1, <2>2, <2>3 DEF TearDownSlot, TypeOK
<1> QED
  BY <1>1, <1>2, <1>3, <1>4, <1>5, <1>6 DEF Collector

LEMMA TypeStep ==
    ASSUME TypeOK, KnownClient, Ownership, [Next]_vars
    PROVE  TypeOK'
<1>1. ASSUME NEW list \in UserLists, Reload(list) PROVE TypeOK'
  <2>1. NewUserDB(list) \in DBType
    BY <1>1, ReloadTyped, MultiClientAssumption, Zenon DEF Reload
  <2> QED
    BY <1>1, <2>1 DEF Reload, TypeOK, tables
<1>2. CASE Cancel
  BY <1>2, Zenon DEF Cancel, TypeOK, tables, users
<1>3. CASE UNCHANGED vars
  BY <1>3, Zenon DEF vars, TypeOK
<1> QED
  BY <1>1, <1>2, <1>3, TypeHandshake, TypeSession, TypeLane, TypeCollector, Zenon DEF Next

-----------------------------------------------------------------------------
(***************************************************************************)
(* Most steps move one connection and leave the tables, the pools and the  *)
(* collector alone.  They keep the invariant if the connection gives up no *)
(* address that only it answers for.                                       *)
(***************************************************************************)

\* Sessions that the table or the collector refers to stay what they are.
SessKept ==
    \A s \in SessId :
      \/ sess'[s].client = sess[s].client /\ sess'[s].asg = sess[s].asg
      \/ s \notin gc.victims /\ s # gc.cur /\ \A k \in Client : sessions[k] # s

Quiet(c, h) ==
    /\ Step(c, h)
    /\ UNCHANGED <<pool, sessions, ipIndex, gc>>
    /\ mu' = mu \/ mu \in {c, NoConn}
    /\ SessKept
    /\ h.pc \in {"idle", "handshake"} \/ h.client \in Client
    /\ h.pc # "claim"
    /\ \A f \in Family, k \in Client :
         Pending(c, f, k) => Live(k) \/ (/\ h.client = k
                                         /\ h.asg[f] # NoAddr
                                         /\ \/ h.pc \in {"assign", "orphan", "acquire"}
                                            \/ h.pc = "release" /\ f \in h.todo)

LEMMA OwnershipKept ==
    ASSUME TypeOK, Ownership, SessKept, sessions' = sessions,
           gc'.victims = gc.victims, gc'.cur = gc.cur
    PROVE  Ownership'
<1>1. \A k \in Client : sessions[k] \in SessId \cup {NoSess}
  BY Zenon DEF TypeOK
<1>2. gc.victims \subseteq SessId /\ gc.cur \in SessId \cup {NoSess}
  BY Zenon DEF TypeOK, GCType
<1> QED
  BY <1>1, <1>2, Zenon DEF Ownership, SessKept, Live

LEMMA IndexKept ==
    ASSUME TypeOK, IndexSound, SessKept, sessions' = sessions, ipIndex' = ipIndex
    PROVE  IndexSound'
<1>1. \A f \in Family, a \in Offset : ipIndex[f][a] \in SessId \cup {NoSess}
  BY DEF TypeOK
<1> QED
  BY <1>1 DEF IndexSound, SessKept

\* Whoever answered for an address through the table or the collector still
\* does.
LEMMA AccountKept ==
    ASSUME TypeOK, SessKept, sessions' = sessions, gc' = gc,
           NEW f \in Family, NEW k \in Client, Live(k) \/ Doomed(f, k)
    PROVE  (Live(k) \/ Doomed(f, k))'
<1>1. gc.victims \subseteq SessId /\ gc.cur \in SessId \cup {NoSess}
  BY DEF TypeOK, GCType
<1> QED
  BY <1>1 DEF SessKept, Live, Doomed

LEMMA QuietKeeps ==
    ASSUME IInv, NEW c \in Conn, NEW h \in ConnType, Quiet(c, h)
    PROVE  Ownership' /\ KnownClient' /\ ClaimsLocked' /\ IndexSound' /\ NoAddressLeak'
<1>1. TypeOK /\ Ownership /\ KnownClient /\ ClaimsLocked /\ IndexSound /\ NoAddressLeak
  BY Zenon DEF IInv
<1>2. \A d \in Conn : conn'[d] = IF d = c THEN h ELSE conn[d]
  BY <1>1, Zenon DEF Quiet, Step, TypeOK
<1>3. Ownership'
  BY <1>1, OwnershipKept, Zenon DEF Quiet
<1>4. KnownClient'
  BY <1>1, <1>2, Zenon DEF Quiet, KnownClient
<1>5. ClaimsLocked'
  <2> SUFFICES ASSUME NEW d \in Conn, conn'[d].pc = "claim"
               PROVE  mu' = d /\ (Live(conn[d].client))'
    BY Zenon DEF ClaimsLocked, Live
  <2>1. d # c /\ conn'[d] = conn[d]
    BY <1>2, Zenon DEF Quiet
  <2>2. mu = d /\ Live(conn[d].client)
    BY <1>1, <2>1, Zenon DEF ClaimsLocked
  <2>3. mu' = mu
    BY <2>1, <2>2, MultiClientAssumption, Zenon DEF Quiet
  <2> QED
    BY <2>1, <2>2, <2>3, Zenon DEF Quiet, Live
<1>6. IndexSound'
  BY <1>1, IndexKept, Zenon DEF Quiet
<1>7. NoAddressLeak'
  <2> SUFFICES ASSUME NEW f \in Family, NEW k \in Client, pool[f].byClient[k] # NoAddr
               PROVE  Accountable(f, k)'
    BY Zenon DEF NoAddressLeak, Quiet
  <2>1. Accountable(f, k)
    BY <1>1, Zenon DEF NoAddressLeak
  <2>2. CASE Live(k) \/ Doomed(f, k)
    BY <1>1, <2>2, AccountKept, Zenon DEF Quiet, Accountable
  <2>3. ASSUME NEW d \in Conn, Pending(d, f, k) PROVE Accountable(f, k)'
    <3>1. CASE d # c
      <4>1. Pending(d, f, k)'
        BY <1>2, <2>3, <3>1, Zenon DEF Pending
      <4> QED
        BY <4>1, Zenon DEF Accountable
    <3>2. CASE d = c
      <4>1. CASE Live(k)
        BY <1>1, <4>1, AccountKept, Zenon DEF Quiet, Accountable
      <4>2. CASE ~Live(k)
        <5>1. Pending(c, f, k)'
          BY <1>2, <2>3, <3>2, <4>2, Zenon DEF Quiet, Pending
        <5> QED
          BY <5>1, Zenon DEF Accountable
      <4> QED
        BY <4>1, <4>2, Zenon
    <3> QED
      BY <3>1, <3>2, Zenon
  <2> QED
    BY <2>1, <2>2, <2>3, Zenon DEF Accountable
<1> QED
  BY <1>3, <1>4, <1>5, <1>6, <1>7

\* A step of connection c that calls the pool of family f for its client.
PoolCall(c, f, h) ==
    LET k == conn[c].client IN
    /\ Step(c, h)
    /\ UNCHANGED <<sessions, ipIndex, sess, gc, mu>>
    /\ h.client = k /\ h.pc = conn[c].pc
    /\ \A g \in Family \ {f} : /\ pool'[g] = pool[g]
                               /\ h.asg[g] = conn[c].asg[g]
                               /\ g \in conn[c].todo => g \in h.todo
    /\ \A l \in Client \ {k} : pool'[f].byClient[l] = pool[f].byClient[l]
    /\ pool'[f].byClient[k] # NoAddr => Live(k) \/ (h.asg[f] # NoAddr /\ h.pc = "assign")

LEMMA PoolCallKeeps ==
    ASSUME IInv, NEW c \in Conn, NEW h \in ConnType, NEW f \in Family,
           conn[c].client \in Client, PoolCall(c, f, h)
    PROVE  Ownership' /\ KnownClient' /\ ClaimsLocked' /\ IndexSound' /\ NoAddressLeak'
<1>1. TypeOK /\ Ownership /\ KnownClient /\ ClaimsLocked /\ IndexSound /\ NoAddressLeak
  BY Zenon DEF IInv
<1>2. \A d \in Conn : conn'[d] = IF d = c THEN h ELSE conn[d]
  BY <1>1, Zenon DEF PoolCall, Step, TypeOK
<1>3. SessKept
  BY Zenon DEF PoolCall, SessKept
<1>4. Ownership' /\ IndexSound'
  BY <1>1, <1>3, OwnershipKept, IndexKept, Zenon DEF PoolCall
<1>5. KnownClient'
  BY <1>1, <1>2, Zenon DEF PoolCall, KnownClient
<1>6. ClaimsLocked'
  BY <1>1, <1>2 DEF PoolCall, ClaimsLocked, Live
<1>7. NoAddressLeak'
  <2> SUFFICES ASSUME NEW g \in Family, NEW l \in Client, pool'[g].byClient[l] # NoAddr
               PROVE  Accountable(g, l)'
    BY Zenon DEF NoAddressLeak
  <2>1. CASE g = f /\ l = conn[c].client
    <3>1. CASE Live(l)
      BY <1>1, <1>3, <3>1, AccountKept, Zenon DEF PoolCall, Accountable
    <3>2. CASE ~Live(l)
      <4>1. Pending(c, g, l)'
        BY <1>2, <2>1, <3>2, Zenon DEF PoolCall, Pending
      <4> QED
        BY <4>1, Zenon DEF Accountable
    <3> QED
      BY <3>1, <3>2, Zenon
  <2>2. CASE g # f \/ l # conn[c].client
    <3>1. pool[g].byClient[l] # NoAddr
      BY <2>2, Zenon DEF PoolCall
    <3>2. Accountable(g, l)
      BY <1>1, <3>1, Zenon DEF NoAddressLeak
    <3>3. CASE Live(l) \/ Doomed(g, l)
      BY <1>1, <1>3, <3>3, AccountKept, Zenon DEF PoolCall, Accountable
    <3>4. ASSUME NEW d \in Conn, Pending(d, g, l) PROVE Pending(d, g, l)'
      BY <1>2, <2>2, <3>4, Zenon DEF PoolCall, Pending
    <3> QED
      BY <3>2, <3>3, <3>4, Zenon DEF Accountable
  <2> QED
    BY <2>1, <2>2, Zenon
<1> QED
  BY <1>4, <1>5, <1>6, <1>7

-----------------------------------------------------------------------------
Safe == Ownership /\ KnownClient /\ ClaimsLocked /\ IndexSound /\ NoAddressLeak

LEMMA SafeHandshake ==
    ASSUME IInv, NEW c \in Conn, Handshake(c)
    PROVE  Safe'
<1> USE DEF users, tables
<1>0. /\ TypeOK /\ KnownClient /\ conn[c] \in ConnType /\ db \in DBType
      /\ NoConnection \in ConnType
  BY IdleTyped DEF IInv, TypeOK
<1>1. CASE Accept(c)
  <2> DEFINE h == [NoConnection EXCEPT !.pc = "handshake", !.permit = TRUE, !.db = db]
  <2>1. h \in ConnType
    BY <1>0, ZenonT(30) DEF ConnType, PCs
  <2>2. Quiet(c, h)
    BY <1>0, <1>1, <2>1 DEF Accept, Quiet, SessKept, Pending, ConnType
  <2> QED
    BY <2>1, <2>2, QuietKeeps DEF Safe
<1>2. CASE HandshakeFails(c)
  <2>1. Quiet(c, NoConnection)
    BY <1>2, Zenon DEF HandshakeFails, Return, Quiet, SessKept, Pending, NoConnection
  <2> QED
    BY <1>0, <2>1, QuietKeeps DEF Safe
<1>3. ASSUME NEW k \in Dials[c], Refuse(c, k) PROVE Safe'
  <2> DEFINE h == [conn[c] EXCEPT !.pc = "orphan", !.client = k, !.db = NilDB]
  <2>1. k \in Client
    BY MultiClientAssumption
  <2>2. h \in ConnType /\ h.client = k /\ h.pc = "orphan"
    BY <1>0, <2>1, NilTyped, Zenon DEF ConnType, PCs
  <2>3. Quiet(c, h)
    BY <1>3, <2>1, <2>2 DEF Refuse, Quiet, SessKept, Pending
  <2> QED
    BY <2>2, <2>3, QuietKeeps, Zenon DEF Safe
<1>4. ASSUME NEW k \in Dials[c], Authorize(c, k) PROVE Safe'
  <2> DEFINE user == AuthorizedName(conn[c].db, PeerKey, k)
             h == [conn[c] EXCEPT !.pc = "assign", !.client = k, !.user = user,
                                  !.db = db, !.todo = Family]
  <2>1. k \in Client
    BY MultiClientAssumption
  <2>2. user \in Names \cup {NoUser}
    <3>1. conn[c].db \in DBType
      BY <1>0 DEF ConnType
    <3> QED
      BY <1>4, <3>1, AuthorizedTyped, Zenon DEF Authorize
  <2>3. h \in ConnType /\ h.client = k /\ h.pc = "assign"
    BY <1>0, <2>1, <2>2, Zenon DEF ConnType, PCs
  <2>4. Quiet(c, h)
    BY <1>4, <2>1, <2>3 DEF Authorize, Quiet, SessKept, Pending
  <2> QED
    BY <2>3, <2>4, QuietKeeps DEF Safe
<1>5. ASSUME NEW a \in Requests, Assign(c, a) PROVE Safe'
  <2> DEFINE g == conn[c]
             f == First(g.todo)
             b == Allocated(pool[f], f, g.user, g.client, a, g.db)
             h == [g EXCEPT !.asg = [@ EXCEPT ![f] = b], !.todo = @ \ {f}]
  <2>1. f \in Family /\ g.client \in Client /\ g.db \in DBType
    BY <1>0, <1>5, FirstTyped, Zenon DEF Assign, KnownClient, ConnType
  <2>2. pool[f] \in PoolType
    BY <1>0, <2>1, Zenon DEF TypeOK
  <2>3. b \in Addr
    BY <2>1, <2>2, PoolTyped
  <2>4. /\ h \in ConnType
        /\ h.client = g.client /\ h.pc = g.pc /\ h.asg[f] = b /\ h.todo = g.todo \ {f}
        /\ \A x \in Family \ {f} : h.asg[x] = g.asg[x]
    BY <1>0, <2>1, <2>3, Zenon DEF ConnType, Asgs
  <2>5. /\ pool'[f] = AllocateFor(pool[f], f, g.user, g.client, a, g.db)
        /\ \A x \in Family \ {f} : pool'[x] = pool[x]
    BY <1>0, <1>5, <2>1, Zenon DEF Assign, TypeOK
  <2>6. \A l \in Client :
          pool'[f].byClient[l] = IF l = g.client THEN b ELSE pool[f].byClient[l]
    <3>1. ASSUME NEW l \in Client
          PROVE  AllocateFor(pool[f], f, g.user, g.client, a, g.db).byClient[l]
                   = IF l = g.client THEN b ELSE pool[f].byClient[l]
      BY <2>1, <2>2, AllocateEffect
    <3> QED  BY <2>5, <3>1, Zenon
  <2>7. Step(c, h) /\ g.pc = "assign" /\ UNCHANGED <<sessions, ipIndex, sess, gc, mu>>
    BY <1>5 DEF Assign
  <2>8. PoolCall(c, f, h)
    BY <2>1, <2>4, <2>5, <2>6, <2>7, Zenon DEF PoolCall
  <2> QED
    BY <2>1, <2>4, <2>8, PoolCallKeeps, Zenon DEF Safe
<1>6. CASE HandshakeOK(c)
  <2> DEFINE h == [conn[c] EXCEPT !.pc = "acquire", !.permit = FALSE, !.db = NilDB]
  <2>1. h \in ConnType /\ h.client = conn[c].client /\ h.pc = "acquire" /\ h.asg = conn[c].asg
    BY <1>0, NilTyped, Zenon DEF ConnType, PCs
  <2>2. Quiet(c, h)
    BY <1>0, <1>6, <2>1, Zenon DEF HandshakeOK, KnownClient, Quiet, SessKept, Pending
  <2> QED
    BY <2>1, <2>2, QuietKeeps DEF Safe
<1>7. CASE NoAssignment(c)
  <2>1. \A f \in Family : conn[c].asg[f] = NoAddr
    BY <1>7 DEF NoAssignment, NoAsg
  <2>2. Quiet(c, NoConnection)
    BY <1>7, <2>1, Zenon DEF NoAssignment, Return, Quiet, SessKept, Pending, NoConnection
  <2> QED
    BY <1>0, <2>2, QuietKeeps DEF Safe
<1>8. CASE WriteFails(c)
  <2> DEFINE h == [conn[c] EXCEPT !.pc = "orphan", !.db = NilDB]
  <2>1. h \in ConnType /\ h.client = conn[c].client /\ h.pc = "orphan" /\ h.asg = conn[c].asg
    BY <1>0, NilTyped, Zenon DEF ConnType, PCs
  <2>2. Quiet(c, h)
    BY <1>0, <1>8, <2>1 DEF WriteFails, KnownClient, Quiet, SessKept, Pending
  <2> QED
    BY <2>1, <2>2, QuietKeeps DEF Safe
<1> QED
  BY <1>1, <1>2, <1>3, <1>4, <1>5, <1>6, <1>7, <1>8, Zenon DEF Handshake

\* AcquireNew is the one step that enters a session: the tables gain it, and
\* the connection's address becomes the session's.
LEMMA SafeAcquireNew ==
    ASSUME IInv, NEW c \in Conn, AcquireNew(c)
    PROVE  Safe'
<1> DEFINE h == conn[c]
           k == h.client
<1> USE DEF users, tables
<1>0. /\ TypeOK /\ Ownership /\ KnownClient /\ ClaimsLocked /\ IndexSound /\ NoAddressLeak
      /\ h \in ConnType /\ mu = NoConn /\ h.pc = "acquire" /\ ~Live(k)
  BY Zenon DEF IInv, TypeOK, AcquireNew
<1>1. k \in Client
  BY <1>0 DEF KnownClient
<1>2. PICK s \in SessId :
        /\ sess[s] = NoSession
        /\ sess' = [sess EXCEPT ![s] = NewSession(h)]
        /\ sessions' = [sessions EXCEPT ![k] = s]
        /\ ipIndex' = Indexed(h.asg, s)
        /\ Step(c, [h EXCEPT !.pc = "claim", !.sess = s, !.todo = Assigned(h.asg)])
  BY Zenon DEF AcquireNew
<1>3. sess[s].client \notin Client /\ s # NoSess
  BY <1>2, MultiClientAssumption DEF NoSession
<1>4. /\ \A l \in Client : sessions[l] # s
      /\ s \notin gc.victims /\ s # gc.cur
  BY <1>0, <1>3 DEF Ownership, Live
<1>5. /\ \A l \in Client : sessions'[l] = IF l = k THEN s ELSE sessions[l]
      /\ \A x \in SessId : x # s => sess'[x] = sess[x]
      /\ sess'[s].client = k /\ sess'[s].asg = h.asg
      /\ mu' = c /\ gc' = gc /\ pool' = pool
  BY <1>0, <1>1, <1>2 DEF TypeOK, NewSession, AcquireNew
<1>6. /\ \A d \in Conn : d # c => conn'[d] = conn[d]
      /\ conn'[c].pc = "claim" /\ conn'[c].client = k
  <2> DEFINE h2 == [h EXCEPT !.pc = "claim", !.sess = s, !.todo = Assigned(h.asg)]
  <2>1. h2.pc = "claim" /\ h2.client = k
    BY <1>0 DEF ConnType
  <2> HIDE DEF h2
  <2>2. conn' = [conn EXCEPT ![c] = h2]
    BY <1>2, Zenon DEF Step, h2
  <2> QED
    BY <1>0, <2>1, <2>2 DEF TypeOK
<1>7. gc.victims \subseteq SessId /\ gc.cur \in SessId \cup {NoSess}
  BY <1>0, Zenon DEF TypeOK, GCType
<1>8. \A l \in Client : sessions[l] \in SessId \cup {NoSess}
  BY <1>0, Zenon DEF TypeOK
<1>9. \A l \in Client : Live(l) => Live(l)'
  BY <1>3, <1>5, Zenon DEF Live
<1>10. Ownership'
  <2>1. ASSUME NEW l \in Client, Live(l)' PROVE sess'[sessions'[l]].client = l
    BY <1>0, <1>4, <1>5, <1>8, <2>1 DEF Ownership, Live
  <2>2. ASSUME NEW v \in gc.victims
        PROVE  /\ sess'[v].client \in Client /\ v # gc.cur
               /\ \A l \in Client : sessions'[l] # v
    BY <1>0, <1>4, <1>5, <1>7 DEF Ownership
  <2>3. gc.cur # NoSess => /\ sess'[gc.cur].client \in Client
                           /\ \A l \in Client : sessions'[l] # gc.cur
    BY <1>0, <1>4, <1>5, <1>7, Zenon DEF Ownership
  <2> QED
    BY <1>5, <2>1, <2>2, <2>3, Zenon DEF Ownership
<1>11. KnownClient'
  BY <1>0, <1>1, <1>6, Zenon DEF KnownClient
<1>12. ClaimsLocked'
  <2>1. \A d \in Conn : conn[d].pc # "claim"
    BY <1>0, MultiClientAssumption, Zenon DEF ClaimsLocked
  <2>2. sessions'[conn'[c].client] # NoSess
    BY <1>1, <1>3, <1>5, <1>6, Zenon
  <2> QED
    BY <1>5, <1>6, <2>1, <2>2, Zenon DEF ClaimsLocked, Live
<1>13. IndexSound'
  <2> SUFFICES ASSUME NEW f \in Family, NEW a \in Offset, ipIndex'[f][a] # NoSess
               PROVE  LET x == ipIndex'[f][a] IN
                      /\ sess'[x].asg[f] = a /\ sess'[x].client \in Client
                      /\ sessions'[sess'[x].client] = x
    BY Zenon DEF IndexSound
  <2>1. ipIndex'[f][a] = IF a = h.asg[f] THEN s ELSE ipIndex[f][a]
    BY <1>2, Zenon DEF Indexed
  <2>2. CASE a = h.asg[f]
    BY <1>1, <1>5, <2>1, <2>2, Zenon
  <2>3. CASE a # h.asg[f]
    <3> DEFINE x == ipIndex[f][a]
    <3>1. x \in SessId /\ x # NoSess
      BY <1>0, <2>1, <2>3 DEF TypeOK
    <3>2. sess[x].asg[f] = a /\ sess[x].client \in Client /\ sessions[sess[x].client] = x
      BY <1>0, <3>1, Zenon DEF IndexSound
    <3>3. x # s /\ sess[x].client # k
      BY <1>0, <1>4, <3>1, <3>2, Zenon DEF Live
    <3> QED
      BY <1>5, <2>1, <2>3, <3>1, <3>2, <3>3, Zenon
  <2> QED
    BY <2>2, <2>3, Zenon
<1>14. NoAddressLeak'
  <2> SUFFICES ASSUME NEW f \in Family, NEW l \in Client, pool[f].byClient[l] # NoAddr
               PROVE  Accountable(f, l)'
    BY <1>5, Zenon DEF NoAddressLeak
  <2>1. Accountable(f, l)
    BY <1>0, Zenon DEF NoAddressLeak
  <2>2. CASE Live(l) \/ l = k
    <3>1. Live(l)'
      BY <1>1, <1>3, <1>5, <1>9, <2>2, Zenon DEF Live
    <3> QED
      BY <3>1, Zenon DEF Accountable
  <2>3. CASE l # k /\ Doomed(f, l)
    <3>1. Doomed(f, l)'
      BY <1>4, <1>5, <1>7, <2>3, Zenon DEF Doomed
    <3> QED
      BY <3>1, Zenon DEF Accountable
  <2>4. ASSUME NEW d \in Conn, Pending(d, f, l), l # k PROVE Accountable(f, l)'
    <3>1. d # c
      BY <2>4, Zenon DEF Pending
    <3>2. Pending(d, f, l)'
      BY <1>6, <2>4, <3>1, Zenon DEF Pending
    <3> QED
      BY <3>2, Zenon DEF Accountable
  <2> QED
    BY <2>1, <2>2, <2>3, <2>4, Zenon DEF Accountable
<1> QED
  BY <1>10, <1>11, <1>12, <1>13, <1>14 DEF Safe

LEMMA SafeSession ==
    ASSUME IInv, NEW c \in Conn, Session(c)
    PROVE  Safe'
<1> USE DEF users, tables
<1>0. /\ TypeOK /\ KnownClient /\ ClaimsLocked
      /\ conn[c] \in ConnType /\ NoConnection \in ConnType
  BY IdleTyped, Zenon DEF IInv, TypeOK
<1>1. CASE OrphanLive(c)
  <2>1. Quiet(c, NoConnection)
    BY <1>1, Zenon DEF OrphanLive, Return, Quiet, SessKept, Pending, NoConnection
  <2> QED
    BY <1>0, <2>1, QuietKeeps DEF Safe
<1>2. CASE OrphanLock(c) \/ AcquireRefused(c)
  <2> DEFINE h == [conn[c] EXCEPT !.pc = "release", !.todo = Family]
  <2>1. /\ h \in ConnType /\ h.client = conn[c].client /\ h.asg = conn[c].asg
        /\ h.pc = "release" /\ h.todo = Family
    BY <1>0, Zenon DEF ConnType, PCs
  <2>2. conn[c].client \in Client
    BY <1>0, <1>2, Zenon DEF KnownClient, OrphanLock, AcquireRefused
  <2>3. Quiet(c, h)
    BY <1>2, <2>1, <2>2 DEF OrphanLock, AcquireRefused, Quiet, SessKept, Pending
  <2> QED
    BY <2>1, <2>3, QuietKeeps DEF Safe
<1>3. CASE ReleaseStep(c)
  <2> DEFINE g == conn[c]
             f == First(g.todo)
             h == [g EXCEPT !.todo = @ \ {f}]
  <2>1. f \in Family /\ g.client \in Client
    BY <1>0, <1>3, FirstTyped, Zenon DEF ReleaseStep, KnownClient, ConnType
  <2>2. pool[f] \in PoolType
    BY <1>0, <2>1 DEF TypeOK
  <2>3. /\ h \in ConnType
        /\ h.client = g.client /\ h.pc = g.pc /\ h.asg = g.asg /\ h.todo = g.todo \ {f}
    BY <1>0 DEF ConnType
  <2>4. /\ pool'[f] = Release(pool[f], g.client)
        /\ \A x \in Family \ {f} : pool'[x] = pool[x]
    BY <1>0, <1>3, <2>1, Zenon DEF ReleaseStep, ReleaseOne, TypeOK
  <2>5. \A l \in Client :
          pool'[f].byClient[l] = IF l = g.client THEN NoAddr ELSE pool[f].byClient[l]
    <3>1. ASSUME NEW l \in Client
          PROVE  Release(pool[f], g.client).byClient[l]
                   = IF l = g.client THEN NoAddr ELSE pool[f].byClient[l]
      BY <2>1, <2>2, ReleaseEffect, Zenon
    <3> QED  BY <2>4, <3>1, Zenon
  <2>6. PoolCall(c, f, h)
    BY <1>3, <2>1, <2>3, <2>4, <2>5, Zenon DEF ReleaseStep, PoolCall
  <2> QED
    BY <2>1, <2>3, <2>6, PoolCallKeeps DEF Safe
<1>4. CASE ReleaseDone(c)
  <2>1. Quiet(c, NoConnection)
    BY <1>4, Zenon DEF ReleaseDone, Return, Quiet, SessKept, Pending, NoConnection
  <2> QED
    BY <1>0, <2>1, QuietKeeps DEF Safe
<1>5. CASE AcquireExisting(c)
  <2> DEFINE h == [conn[c] EXCEPT !.pc = "join", !.sess = sessions[conn[c].client]]
  <2>1. conn[c].client \in Client
    BY <1>0, <1>5 DEF KnownClient, AcquireExisting
  <2>2. h \in ConnType /\ h.client = conn[c].client /\ h.pc = "join"
    <3>1. sessions[conn[c].client] \in SessId \cup {NoSess}
      BY <1>0, <2>1, Zenon DEF TypeOK
    <3> QED
      BY <1>0, <3>1, Zenon DEF ConnType, PCs
  <2>3. Quiet(c, h)
    BY <1>5, <2>1, <2>2, Zenon DEF AcquireExisting, Quiet, SessKept, Pending
  <2> QED
    BY <2>2, <2>3, QuietKeeps DEF Safe
<1>6. CASE AcquireNew(c)
  BY <1>6, SafeAcquireNew, Zenon
<1>7. CASE ClaimStep(c)
  <2> DEFINE g == conn[c]
             f == First(g.todo)
             h == [g EXCEPT !.todo = @ \ {f}]
  <2>1. f \in Family /\ g.client \in Client
    BY <1>0, <1>7, FirstTyped, Zenon DEF ClaimStep, KnownClient, ConnType
  <2>2. pool[f] \in PoolType
    BY <1>0, <2>1 DEF TypeOK
  <2>3. /\ h \in ConnType
        /\ h.client = g.client /\ h.pc = g.pc /\ h.asg = g.asg /\ h.todo = g.todo \ {f}
    BY <1>0 DEF ConnType
  <2>4. /\ pool'[f] = Claim(pool[f], g.client, g.asg[f])
        /\ \A x \in Family \ {f} : pool'[x] = pool[x]
    <3>1. pool \in [Family -> PoolType]
      BY <1>0 DEF TypeOK
    <3>2. pool' = [pool EXCEPT ![f] = Claim(pool[f], g.client, g.asg[f])]
      BY <1>7, Zenon DEF ClaimStep
    <3> QED
      BY <2>1, <3>1, <3>2, Zenon
  <2>5. \A l \in Client \ {g.client} : pool'[f].byClient[l] = pool[f].byClient[l]
    <3>1. ASSUME NEW l \in Client, l # g.client
          PROVE  Claim(pool[f], g.client, g.asg[f]).byClient[l] = pool[f].byClient[l]
      BY <2>1, <2>2, <3>1, ClaimEffect
    <3> QED  BY <2>4, <3>1, Zenon
  <2>6. Live(g.client)
    BY <1>0, <1>7 DEF ClaimsLocked, ClaimStep
  <2>7. PoolCall(c, f, h)
    BY <1>7, <2>1, <2>3, <2>4, <2>5, <2>6, Zenon DEF ClaimStep, PoolCall
  <2> QED
    BY <2>1, <2>3, <2>7, PoolCallKeeps DEF Safe
<1>8. CASE ClaimDone(c)
  <2> DEFINE h == [conn[c] EXCEPT !.pc = "join"]
  <2>1. h \in ConnType /\ h.client = conn[c].client /\ h.pc = "join"
    BY <1>0 DEF ConnType, PCs
  <2>2. conn[c].client \in Client /\ mu = c
    BY <1>0, <1>8 DEF KnownClient, ClaimsLocked, ClaimDone
  <2>3. Quiet(c, h)
    BY <1>8, <2>1, <2>2, Zenon DEF ClaimDone, Quiet, SessKept, Pending
  <2> QED
    BY <2>1, <2>3, QuietKeeps DEF Safe
<1> QED
  BY <1>1, <1>2, <1>3, <1>4, <1>5, <1>6, <1>7, <1>8, Zenon DEF Session

LEMMA SafeLane ==
    ASSUME IInv, NEW c \in Conn, Lane(c)
    PROVE  Safe'
<1> USE DEF users, tables
<1>0. /\ TypeOK /\ KnownClient
      /\ conn[c] \in ConnType /\ NoConnection \in ConnType
  BY IdleTyped, Zenon DEF IInv, TypeOK
<1>1. conn[c].pc \in {"join", "lane"} /\ conn[c].client \in Client
  BY <1>0, Zenon DEF Lane, Join, PeerDrops, WatcherCloses, RxEnds, RxFails, TxEnds, TxFails,
              LaneEnds, InLane, KnownClient
<1>2. CASE Join(c)
  <2> DEFINE h == [conn[c] EXCEPT !.pc = "lane", !.up = TRUE, !.rx = TRUE, !.tx = TRUE]
  <2>1. h \in ConnType /\ h.client = conn[c].client /\ h.pc = "lane"
    BY <1>0, Zenon DEF ConnType, PCs
  <2>2. SessKept
    <3>1. \A s \in SessId : sess'[s].client = sess[s].client /\ sess'[s].asg = sess[s].asg
      BY <1>0, <1>2 DEF Join, Touched, TypeOK, SessType
    <3> QED
      BY <3>1, Zenon DEF SessKept
  <2>3. Quiet(c, h)
    BY <1>1, <1>2, <2>1, <2>2 DEF Join, Quiet, Pending
  <2> QED
    BY <2>1, <2>3, QuietKeeps DEF Safe
<1>3. CASE PeerDrops(c) \/ WatcherCloses(c)
  <2> DEFINE h == [conn[c] EXCEPT !.up = FALSE]
  <2>1. h \in ConnType /\ h.client = conn[c].client /\ h.pc = conn[c].pc
    BY <1>0, Zenon DEF ConnType
  <2>2. Quiet(c, h)
    BY <1>1, <1>3, <2>1 DEF PeerDrops, WatcherCloses, Quiet, SessKept, Pending
  <2> QED
    BY <2>1, <2>2, QuietKeeps DEF Safe
<1>4. CASE RxEnds(c) \/ RxFails(c)
  <2> DEFINE h == [conn[c] EXCEPT !.rx = FALSE]
  <2>1. h \in ConnType /\ h.client = conn[c].client /\ h.pc = conn[c].pc
    BY <1>0, Zenon DEF ConnType
  <2>2. Quiet(c, h)
    BY <1>1, <1>4, <2>1 DEF RxEnds, RxFails, Quiet, SessKept, Pending
  <2> QED
    BY <2>1, <2>2, QuietKeeps DEF Safe
<1>5. CASE TxEnds(c) \/ TxFails(c)
  <2> DEFINE h == [conn[c] EXCEPT !.tx = FALSE]
  <2>1. h \in ConnType /\ h.client = conn[c].client /\ h.pc = conn[c].pc
    BY <1>0, Zenon DEF ConnType
  <2>2. Quiet(c, h)
    BY <1>1, <1>5, <2>1, Zenon DEF TxEnds, TxFails, Quiet, SessKept, Pending
  <2> QED
    BY <2>1, <2>2, QuietKeeps DEF Safe
<1>6. CASE LaneEnds(c)
  <2> DEFINE s == conn[c].sess
  <2>1. SessKept
    <3>1. CASE Referenced(s, c)
      <4>1. \A x \in SessId : sess'[x].client = sess[x].client /\ sess'[x].asg = sess[x].asg
        BY <1>0, <1>6, <3>1 DEF LaneEnds, Touched, TypeOK, SessType
      <4> QED
        BY <4>1 DEF SessKept
    <3>2. CASE ~Referenced(s, c)
      <4>1. \A x \in SessId : x # s => sess'[x] = sess[x]
        BY <1>0, <1>6, <3>2, Zenon DEF LaneEnds, TypeOK
      <4>2. s \notin gc.victims /\ s # gc.cur /\ \A k \in Client : sessions[k] # s
        BY <3>2 DEF Referenced
      <4> QED
        BY <4>1, <4>2, Zenon DEF SessKept
    <3> QED
      BY <3>1, <3>2, Zenon
  <2>2. Quiet(c, NoConnection)
    BY <1>1, <1>6, <2>1, ZenonT(30) DEF LaneEnds, Return, Quiet, Pending, NoConnection
  <2> QED
    BY <1>0, <2>2, QuietKeeps, Zenon DEF Safe
<1> QED
  BY <1>2, <1>3, <1>4, <1>5, <1>6, Zenon DEF Lane

-----------------------------------------------------------------------------
(***************************************************************************)
(* The collector.                                                          *)
(***************************************************************************)

\* Taking a set of sessions out of both tables, for collect and tearDownAll.
LEMMA SafeUntable ==
    ASSUME IInv, NEW S \in SUBSET Tabled, mu = NoConn, GCIdle,
           \A k \in Client : sessions'[k] = IF sessions[k] \in S THEN NoSess ELSE sessions[k],
           \A f \in Family, a \in Offset :
             ipIndex'[f][a] \in {NoSess, ipIndex[f][a]} /\ (ipIndex[f][a] \in S => ipIndex'[f][a] = NoSess),
           gc'.victims = S, gc'.cur = gc.cur,
           UNCHANGED <<pool, sess, conn, mu>>
    PROVE  Safe'
<1>0. /\ TypeOK /\ Ownership /\ KnownClient /\ ClaimsLocked /\ IndexSound /\ NoAddressLeak
      /\ gc.victims = {} /\ gc.cur = NoSess
  BY Zenon DEF IInv, GCIdle
<1>1. \A s \in S : s \in SessId /\ s # NoSess /\ \E k \in Client : sessions[k] = s
  BY MultiClientAssumption, Zenon DEF Tabled
<1>2. \A k \in Client : sessions[k] \in S => sess[sessions[k]].client = k
  BY <1>0, <1>1, Zenon DEF Ownership, Live
<1>3. Ownership'
  <2>1. \A k \in Client : Live(k)' => sess[sessions'[k]].client = k
    BY <1>0, <1>1, Zenon DEF Ownership, Live
  <2>2. \A s \in S : sess[s].client \in Client /\ \A k \in Client : sessions'[k] # s
    BY <1>1, <1>2
  <2> QED
    BY <1>0, <1>1, <2>1, <2>2, ZenonT(30) DEF Ownership
<1>4. KnownClient' /\ ClaimsLocked'
  BY <1>0, MultiClientAssumption, Zenon DEF KnownClient, ClaimsLocked
<1>5. IndexSound'
  <2> SUFFICES ASSUME NEW f \in Family, NEW a \in Offset, ipIndex'[f][a] # NoSess
               PROVE  LET x == ipIndex'[f][a] IN
                      /\ sess[x].asg[f] = a /\ sess[x].client \in Client
                      /\ sessions'[sess[x].client] = x
    BY Zenon DEF IndexSound
  <2> DEFINE x == ipIndex[f][a]
  <2>1. ipIndex'[f][a] = x /\ x \notin S /\ x # NoSess
    BY Zenon
  <2>2. sess[x].asg[f] = a /\ sess[x].client \in Client /\ sessions[sess[x].client] = x
    BY <1>0, <2>1, Zenon DEF IndexSound
  <2> QED
    BY <2>1, <2>2, Zenon
<1>6. NoAddressLeak'
  <2> SUFFICES ASSUME NEW f \in Family, NEW k \in Client, pool[f].byClient[k] # NoAddr
               PROVE  Accountable(f, k)'
    BY Zenon DEF NoAddressLeak
  <2>1. Accountable(f, k) /\ ~Doomed(f, k)
    BY <1>0 DEF NoAddressLeak, Doomed
  <2>2. CASE Live(k) /\ sessions[k] \notin S
    BY <2>2, Zenon DEF Accountable, Live
  <2>3. CASE Live(k) /\ sessions[k] \in S
    <3>1. Doomed(f, k)'
      BY <1>2, <2>3, Zenon DEF Doomed
    <3> QED
      BY <3>1, Zenon DEF Accountable
  <2>4. ASSUME NEW d \in Conn, Pending(d, f, k) PROVE Accountable(f, k)'
    <3>1. Pending(d, f, k)'
      BY <2>4, Zenon DEF Pending
    <3> QED
      BY <3>1, Zenon DEF Accountable
  <2> QED
    BY <2>1, <2>2, <2>3, <2>4, Zenon DEF Accountable
<1> QED
  BY <1>3, <1>4, <1>5, <1>6, Zenon DEF Safe

\* A step that leaves the connections, the tables, m.mu and the collector
\* alone.
LEMMA SafeStill ==
    ASSUME IInv, SessKept, UNCHANGED <<pool, sessions, ipIndex, conn, mu, gc>>
    PROVE  Safe'
<1>0. TypeOK /\ Ownership /\ KnownClient /\ ClaimsLocked /\ IndexSound /\ NoAddressLeak
  BY Zenon DEF IInv
<1>1. Ownership' /\ IndexSound'
  BY <1>0, OwnershipKept, IndexKept, Zenon
<1>2. KnownClient' /\ ClaimsLocked'
  BY <1>0, Zenon DEF KnownClient, ClaimsLocked, Live
<1>3. NoAddressLeak'
  <2> SUFFICES ASSUME NEW f \in Family, NEW k \in Client, pool[f].byClient[k] # NoAddr
               PROVE  Accountable(f, k)'
    BY Zenon DEF NoAddressLeak
  <2>1. Accountable(f, k)
    BY <1>0, Zenon DEF NoAddressLeak
  <2>2. CASE Live(k) \/ Doomed(f, k)
    BY <1>0, <2>2, AccountKept, Zenon DEF Accountable
  <2>3. ASSUME NEW d \in Conn, Pending(d, f, k) PROVE Pending(d, f, k)'
    BY <2>3, Zenon DEF Pending
  <2> QED
    BY <2>1, <2>2, <2>3, Zenon DEF Accountable
<1> QED
  BY <1>1, <1>2, <1>3, Zenon DEF Safe

\* The three steps of tearDown.
LEMMA SafeTearDown ==
    ASSUME IInv, TearDownRelease \/ TearDownSlot \/ \E s \in SessId : TearDownClose(s)
    PROVE  Safe'
<1> USE DEF users, tables
<1>0. /\ TypeOK /\ Ownership /\ KnownClient /\ ClaimsLocked /\ IndexSound /\ NoAddressLeak
      /\ gc \in GCType
  BY Zenon DEF IInv, TypeOK
<1>1. gc.victims \subseteq SessId /\ gc.cur \in SessId \cup {NoSess} /\ gc.todo \subseteq Family
  BY <1>0, Zenon DEF GCType
<1>2. /\ UNCHANGED <<sessions, ipIndex, conn, mu>>
      /\ KnownClient' /\ ClaimsLocked'
  <2>1. UNCHANGED <<sessions, ipIndex, conn, mu>>
    BY Zenon DEF TearDownRelease, TearDownSlot, TearDownClose
  <2> QED
    BY <1>0, <2>1 DEF KnownClient, ClaimsLocked, Live
<1>3. \A f \in Family, k \in Client : (\E d \in Conn : Pending(d, f, k)) => \E d \in Conn : Pending(d, f, k)'
  BY <1>2, Zenon DEF Pending
<1>4. \A k \in Client : Live(k) => Live(k)'
  BY <1>2, Zenon DEF Live
<1>5. ASSUME NEW s \in SessId, TearDownClose(s) PROVE Safe'
  <2>1. /\ gc'.victims = gc.victims \ {s} /\ gc'.cur = s /\ gc'.todo = Family
        /\ s \in gc.victims /\ pool' = pool
    BY <1>0, <1>5, Zenon DEF TearDownClose, GCType
  <2>2. \A x \in SessId : sess'[x].client = sess[x].client /\ sess'[x].asg = sess[x].asg
    <3>1. sess' = [sess EXCEPT ![s] = [@ EXCEPT !.closed = TRUE]]
      BY <1>5, Zenon DEF TearDownClose
    <3>2. sess \in [SessId -> SessType]
      BY <1>0, Zenon DEF TypeOK
    <3> QED
      BY <3>1, <3>2 DEF SessType
  <2>3. SessKept
    BY <2>2, Zenon DEF SessKept
  <2>4. IndexSound'
    BY <1>0, <1>2, <2>3, IndexKept, Zenon
  <2>5. Ownership'
    <3>1. \A k \in Client : Live(k)' => sess'[sessions'[k]].client = k
      <4>1. \A k \in Client : sessions[k] \in SessId \cup {NoSess}
        BY <1>0 DEF TypeOK
      <4> QED
        BY <1>0, <1>2, <2>2, <4>1, Zenon DEF Ownership, Live
    <3> QED
      BY <1>0, <1>1, <1>2, <2>1, <2>2, <3>1, Zenon DEF Ownership
  <2>6. \A f \in Family, k \in Client : Doomed(f, k) => Doomed(f, k)'
    BY <1>1, <1>5, <2>1, <2>2, MultiClientAssumption, ZenonT(30) DEF Doomed, TearDownClose
  <2>7. NoAddressLeak'
    BY <1>0, <1>3, <1>4, <2>1, <2>6, Zenon DEF NoAddressLeak, Accountable
  <2> QED
    BY <1>2, <2>4, <2>5, <2>7 DEF Safe
<1>6. CASE TearDownRelease
  <2> DEFINE f == First(gc.todo)
             k == sess[gc.cur].client
  <2>1. f \in Family /\ k \in Client /\ gc.cur # NoSess
    BY <1>0, <1>1, <1>6, FirstTyped, Zenon DEF TearDownRelease, Ownership
  <2>2. /\ gc'.victims = gc.victims /\ gc'.cur = gc.cur /\ gc'.todo = gc.todo \ {f}
        /\ sess' = sess
    BY <1>0, <1>6, Zenon DEF TearDownRelease, GCType
  <2>3. SessKept
    BY <2>2, Zenon DEF SessKept
  <2>4. Ownership' /\ IndexSound'
    BY <1>0, <1>2, <2>2, <2>3, OwnershipKept, IndexKept, Zenon
  <2>5. /\ pool'[f] = Release(pool[f], k)
        /\ \A g \in Family \ {f} : pool'[g] = pool[g]
        /\ pool[f] \in PoolType
    BY <1>0, <1>6, <2>1, Zenon DEF TearDownRelease, ReleaseOne, TypeOK
  <2>6. \A l \in Client : pool'[f].byClient[l] = IF l = k THEN NoAddr ELSE pool[f].byClient[l]
    <3>1. ASSUME NEW l \in Client
          PROVE  Release(pool[f], k).byClient[l] = IF l = k THEN NoAddr ELSE pool[f].byClient[l]
      BY <2>1, <2>5, ReleaseEffect, Zenon
    <3> QED  BY <2>5, <3>1, Zenon
  <2>7. \A g \in Family, l \in Client : Doomed(g, l) /\ ~(g = f /\ l = k) => Doomed(g, l)'
    BY <2>2, Zenon DEF Doomed
  <2>8. \A g \in Family, l \in Client :
          pool'[g].byClient[l] # NoAddr => pool[g].byClient[l] # NoAddr /\ ~(g = f /\ l = k)
    BY <2>5, <2>6, Zenon
  <2>9. NoAddressLeak'
    BY <1>0, <1>3, <1>4, <2>7, <2>8, Zenon DEF NoAddressLeak, Accountable
  <2> QED
    BY <1>2, <2>4, <2>9, Zenon DEF Safe
<1>7. CASE TearDownSlot
  <2> DEFINE s == gc.cur
  <2>1. /\ gc'.victims = gc.victims /\ gc'.cur = NoSess /\ gc.todo = {}
        /\ s \in SessId /\ s # NoSess /\ pool' = pool
    BY <1>0, <1>1, <1>7, Zenon DEF TearDownSlot, GCType
  <2>2. \A x \in SessId : x # s => sess'[x] = sess[x]
    BY <1>0, <1>7, Zenon DEF TearDownSlot, TypeOK
  <2>3. s \notin gc.victims /\ \A k \in Client : sessions[k] # s
    BY <1>0, <2>1, Zenon DEF Ownership
  <2>4. Ownership'
    <3>1. \A k \in Client : sessions[k] \in SessId \cup {NoSess}
      BY <1>0, Zenon DEF TypeOK
    <3>2. ASSUME NEW k \in Client, Live(k)' PROVE sess'[sessions'[k]].client = k
      <4>1. sessions'[k] = sessions[k] /\ sessions[k] \in SessId /\ sessions[k] # s
        BY <1>2, <2>3, <3>1, <3>2, Zenon DEF Live
      <4>2. sess[sessions[k]].client = k
        BY <1>0, <1>2, <3>2, Zenon DEF Ownership, Live
      <4> QED
        BY <2>2, <4>1, <4>2, Zenon
    <3>3. ASSUME NEW x \in gc'.victims
          PROVE  sess'[x].client \in Client /\ (\A k \in Client : sessions'[k] # x) /\ x # gc'.cur
      <4>1. x \in gc.victims /\ x \in SessId /\ x # s /\ sess'[x] = sess[x]
        BY <1>1, <2>1, <2>2, <2>3, Zenon
      <4>2. sess[x].client \in Client /\ \A k \in Client : sessions[k] # x
        BY <1>0, <4>1, Zenon DEF Ownership
      <4> QED
        BY <1>2, <2>1, <4>1, <4>2, MultiClientAssumption, Zenon
    <3> QED
      BY <2>1, <3>2, <3>3, Zenon DEF Ownership, Live
  <2>5. IndexSound'
    <3> SUFFICES ASSUME NEW f \in Family, NEW a \in Offset, ipIndex[f][a] # NoSess
                 PROVE  LET x == ipIndex[f][a] IN
                        /\ sess'[x].asg[f] = a /\ sess'[x].client \in Client
                        /\ sessions[sess'[x].client] = x
      BY <1>2, Zenon DEF IndexSound
    <3> DEFINE x == ipIndex[f][a]
    <3>1. x \in SessId
      BY <1>0 DEF TypeOK
    <3>2. sess[x].asg[f] = a /\ sess[x].client \in Client /\ sessions[sess[x].client] = x
      BY <1>0, Zenon DEF IndexSound
    <3>3. sess'[x] = sess[x]
      BY <2>2, <2>3, <3>1, <3>2, Zenon
    <3> QED
      BY <3>2, <3>3, Zenon
  <2>6. \A f \in Family, k \in Client : Doomed(f, k) => Doomed(f, k)'
    BY <1>1, <2>1, <2>2, <2>3, Zenon DEF Doomed
  <2>7. NoAddressLeak'
    BY <1>0, <1>3, <1>4, <2>1, <2>6, Zenon DEF NoAddressLeak, Accountable
  <2> QED
    BY <1>2, <2>4, <2>5, <2>7 DEF Safe
<1> QED
  BY <1>5, <1>6, <1>7, Zenon

LEMMA SafeCollector ==
    ASSUME IInv, Collector
    PROVE  Safe'
<1> USE DEF users, tables
<1>0. TypeOK /\ Ownership /\ IndexSound /\ gc \in GCType
  BY Zenon DEF IInv, TypeOK
<1>1. ASSUME NEW s \in SessId, Idles(s) PROVE Safe'
  <2>1. \A x \in SessId : sess'[x].client = sess[x].client /\ sess'[x].asg = sess[x].asg
    BY <1>0, <1>1, Zenon DEF Idles, TypeOK, SessType
  <2> QED
    BY <1>1, <2>1, SafeStill DEF Idles, SessKept
<1>2. CASE Collect
  <2>1. Stale \in SUBSET Tabled
    BY DEF Stale
  <2>2. \A k \in Client : sessions'[k] = IF sessions[k] \in Stale THEN NoSess ELSE sessions[k]
    BY <1>2, Zenon DEF Collect, Untable
  <2>3. \A f \in Family, a \in Offset :
          /\ ipIndex'[f][a] \in {NoSess, ipIndex[f][a]}
          /\ ipIndex[f][a] \in Stale => ipIndex'[f][a] = NoSess
    <3>1. \A x \in Stale : x # NoSess
      BY MultiClientAssumption DEF Stale, Tabled
    <3> QED
      BY <1>0, <1>2, <3>1, Zenon DEF Collect, Untable, IndexSound
  <2>4. gc'.victims = Stale /\ gc'.cur = gc.cur
    BY <1>0, <1>2 DEF Collect, GCType
  <2> QED
    BY <1>2, <2>1, <2>2, <2>3, <2>4, SafeUntable, Zenon DEF Collect
<1>3. CASE CollectAll
  <2>1. \A k \in Client : sessions'[k] = IF sessions[k] \in Tabled THEN NoSess ELSE sessions[k]
    <3>1. \A k \in Client : sessions[k] \in Tabled \/ sessions[k] = NoSess
      BY <1>0 DEF Tabled, TypeOK
    <3> QED
      BY <1>3, <3>1, Zenon DEF CollectAll
  <2>2. \A f \in Family, a \in Offset : ipIndex'[f][a] = NoSess
    BY <1>3 DEF CollectAll
  <2>3. gc'.victims = Tabled /\ gc'.cur = gc.cur
    BY <1>0, <1>3 DEF CollectAll, GCType
  <2> QED
    BY <1>3, <2>1, <2>2, <2>3, SafeUntable DEF CollectAll
<1> QED
  BY <1>1, <1>2, <1>3, SafeTearDown, Zenon DEF Collector

-----------------------------------------------------------------------------
LEMMA IInvInit == Init => IInv
<1> SUFFICES ASSUME Init PROVE IInv
  BY Zenon
<1>1. TypeOK
  <2>1. pool \in [Family -> PoolType]
    BY EmptyPoolTyped, Zenon DEF Init
  <2>2. sess \in [SessId -> SessType] /\ conn \in [Conn -> ConnType]
    BY IdleTyped, Zenon DEF Init
  <2>3. gc \in GCType
    BY Zenon DEF Init, GCType
  <2>4. db \in DBType
    BY MultiClientAssumption, Zenon DEF Init
  <2>5. slots \in [Names -> Int] /\ sem \in Int /\ mu \in Conn \cup {NoConn}
    BY DEF Init
  <2>7. cancelled \in BOOLEAN
    BY Zenon DEF Init
  <2>6. /\ sessions \in [Client -> SessId \cup {NoSess}]
        /\ ipIndex \in [Family -> [Offset -> SessId \cup {NoSess}]]
    BY DEF Init
  <2> QED
    BY <2>1, <2>2, <2>3, <2>4, <2>5, <2>6, <2>7, Zenon DEF TypeOK
<1>2. Ownership /\ KnownClient /\ ClaimsLocked
  BY Zenon DEF Init, Ownership, KnownClient, ClaimsLocked, NoConnection, Live
<1>3. IndexSound /\ NoAddressLeak
  BY Zenon DEF Init, IndexSound, NoAddressLeak, EmptyPool
<1> QED
  BY <1>1, <1>2, <1>3 DEF IInv

LEMMA IInvStep == IInv /\ [Next]_vars => IInv'
<1> SUFFICES ASSUME IInv, [Next]_vars PROVE IInv'
  BY Zenon
<1>1. TypeOK'
  BY TypeStep, Zenon DEF IInv
<1>2. ASSUME NEW list \in UserLists, Reload(list) PROVE Safe'
  BY <1>2, SafeStill, Zenon DEF Reload, SessKept, tables
<1>3. ASSUME Cancel PROVE Safe'
  BY <1>3, SafeStill, Zenon DEF Cancel, SessKept, tables, users
<1>4. ASSUME UNCHANGED vars PROVE Safe'
  BY <1>4, SafeStill, Zenon DEF vars, SessKept
<1>5. Safe'
  BY <1>2, <1>3, <1>4, SafeHandshake, SafeSession, SafeLane, SafeCollector DEF Next
<1> QED
  BY <1>1, <1>5, Zenon DEF IInv, Safe

\* The inductive invariant holds in every behaviour of the server.
THEOREM ServerInvariant == Spec => []IInv
BY IInvInit, IInvStep, PTL DEF Spec

\* The server's state keeps its shape.
THEOREM ServerTypeOK == Spec => []TypeOK
<1>1. IInv => TypeOK
  BY DEF IInv
<1> QED
  BY <1>1, ServerInvariant, PTL

\* runTunReader never hands a packet to a session that is gone or that was
\* not assigned the packet's destination.
THEOREM ServerIndexSound == Spec => []IndexSound
<1>1. IInv => IndexSound
  BY DEF IInv
<1> QED
  BY <1>1, ServerInvariant, PTL

\* No client's address is ever left in a pool with nobody to release it.
THEOREM ServerNoAddressLeak == Spec => []NoAddressLeak
<1>1. IInv => NoAddressLeak
  BY DEF IInv
<1> QED
  BY <1>1, ServerInvariant, PTL
=============================================================================
