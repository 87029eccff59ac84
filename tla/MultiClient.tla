---------------------------- MODULE MultiClient -----------------------------
(***************************************************************************)
(* The multi-client server (multiclient_linux.go): the goroutine of every  *)
(* accepted connection (handleConn), the session and address tables under  *)
(* m.mu, the idle-session collector (gc) and the hot reload of the user    *)
(* database, over the address pools of IPPool and the users of UserDB.     *)
(*                                                                         *)
(* A step is what happens between two points where another goroutine can   *)
(* be observed: one pool call (p.mu), one critical section of m.mu or      *)
(* s.mu, one read or write of the socket.  acquireSession and              *)
(* releaseOrphan call the pools while they hold m.mu, so the holder of     *)
(* m.mu is part of the state.                                              *)
(***************************************************************************)
EXTENDS IPPool

CONSTANTS
    Conn,        \* connections that can be handled at the same time
    SessId,      \* identities of session objects
    NoClient, NoConn, NoSess,
    Dials,       \* [Conn -> SUBSET Client], whose lane a connection may be
    PeerKey,     \* cfg.PeerPublicKey, or NoClient
    InitialDB,   \* the database NewServer builds
    UserLists,   \* the user lists a reload may find in the config file
    Requests,    \* the addresses a client may ask for, NoAddr included
    MaxInFlight, \* capacity of the limiter's semaphore
    MayFail,     \* connections whose handshakes and lanes fail on their own
    MayIdle,     \* sessions without a lane reach the idle limit
    MayStop      \* the server's context is cancelled

ASSUME MultiClientAssumption ==
    /\ NoClient \notin Client /\ NoConn \notin Conn /\ NoSess \notin SessId
    /\ Dials \in [Conn -> SUBSET Client]
    /\ PeerKey \in Client \cup {NoClient}
    /\ InitialDB \in DBType /\ ReservedOnce(InitialDB)
    /\ \A list \in UserLists : ValidUsers(list) => list \in Seq(UserType)
    /\ NoAddr \in Requests
    /\ MaxInFlight \in Nat
    /\ MayFail \subseteq Conn /\ MayIdle \in BOOLEAN /\ MayStop \in BOOLEAN

\* Connections being handled are goroutines of one process.
ASSUME ConnAssumption == IsFiniteSet(Conn)

VARIABLES
    pool,      \* pool4 and pool6
    db,        \* what userDB.get() returns
    slots,     \* userEntry.active of that database
    sessions,  \* m.sessions
    ipIndex,   \* m.ipIndex
    sess,      \* the session objects
    conn,      \* one handleConn goroutine per connection
    sem,       \* permits taken from limiter.sem
    mu,        \* the connection that holds m.mu between two steps, or NoConn
    gc,        \* the collector goroutine
    cancelled  \* ctx.Done()

tables == <<sessions, ipIndex>>
users  == <<db, slots>>
vars   == <<pool, db, slots, sessions, ipIndex, sess, conn, sem, mu, gc, cancelled>>

NoAsg == [f \in Family |-> NoAddr]

NoConnection ==
    [pc |-> "idle", client |-> NoClient, user |-> NoUser, db |-> NilDB, asg |-> NoAsg,
     sess |-> NoSess, todo |-> {}, permit |-> FALSE, up |-> FALSE, rx |-> FALSE, tx |-> FALSE]

NoSession ==
    [client |-> NoClient, user |-> NoUser, asg |-> NoAsg, active |-> 0,
     fresh |-> FALSE, closed |-> FALSE]

Init ==
    /\ pool = [f \in Family |-> EmptyPool]
    /\ db = InitialDB
    /\ slots = [n \in Names |-> 0]
    /\ sessions = [k \in Client |-> NoSess]
    /\ ipIndex = [f \in Family |-> [a \in Offset |-> NoSess]]
    /\ sess = [s \in SessId |-> NoSession]
    /\ conn = [c \in Conn |-> NoConnection]
    /\ sem = 0
    /\ mu = NoConn
    /\ gc = [victims |-> {}, cur |-> NoSess, todo |-> {}, done |-> FALSE]
    /\ cancelled = FALSE

-----------------------------------------------------------------------------
(***************************************************************************)
(* Connections up to the end of the handshake.                             *)
(***************************************************************************)

\* The family handled next: the code always takes v4 before v6.
First(todo) == IF "v4" \in todo THEN "v4" ELSE "v6"

Live(k) == sessions[k] # NoSess

\* The goroutine of connection c moves on.
Step(c, h) == conn' = [conn EXCEPT ![c] = h]

\* handleConn returns: the socket is closed and the deferred releaseSlot
\* gives the permit back unless it was given back already (sync.Once).
Return(c) ==
    /\ Step(c, NoConnection)
    /\ sem' = IF conn[c].permit THEN sem - 1 ELSE sem

\* The accept loop admits a connection that passes its gates; handleConn
\* builds the authorizer from the database of that moment.
Accept(c) ==
    /\ conn[c].pc = "idle"
    /\ sem < MaxInFlight
    /\ sem' = sem + 1
    /\ Step(c, [NoConnection EXCEPT
                   !.pc = "handshake", !.permit = TRUE, !.db = db])
    /\ UNCHANGED <<pool, users, tables, sess, mu, gc, cancelled>>

\* No first message within the deadline, or one Noise rejects: no identity.
HandshakeFails(c) ==
    /\ conn[c].pc = "handshake"
    /\ Return(c)
    /\ UNCHANGED <<pool, users, tables, sess, mu, gc, cancelled>>

\* The key is not authorized, or the payload is malformed or names another
\* cipher: the handshake fails with the client id known.
Refuse(c, k) ==
    /\ conn[c].pc = "handshake"
    /\ AuthorizedName(conn[c].db, PeerKey, k) = Unauthorized \/ c \in MayFail
    /\ Step(c, [conn[c] EXCEPT !.pc = "orphan", !.client = k, !.db = NilDB])
    /\ UNCHANGED <<pool, users, tables, sess, sem, mu, gc, cancelled>>

\* The key is authorized; assignFn starts by reading the database again.
Authorize(c, k) ==
    LET user == AuthorizedName(conn[c].db, PeerKey, k) IN
    /\ conn[c].pc = "handshake"
    /\ user # Unauthorized
    /\ Step(c, [conn[c] EXCEPT !.pc = "assign", !.client = k, !.user = user,
                            !.db = db, !.todo = Family])
    /\ UNCHANGED <<pool, users, tables, sess, sem, mu, gc, cancelled>>

\* assignFn allocates from one pool; an error leaves that family unassigned.
Assign(c, preferred) ==
    LET h == conn[c]
        f == First(h.todo)
    IN
    /\ h.pc = "assign"
    /\ h.todo # {}
    /\ pool' = [pool EXCEPT ![f] = AllocateFor(@, f, h.user, h.client, preferred, h.db)]
    /\ Step(c, [conn[c] EXCEPT
         !.asg = [@ EXCEPT ![f] = Allocated(pool[f], f, h.user, h.client, preferred, h.db)],
         !.todo = @ \ {f}])
    /\ UNCHANGED <<users, tables, sess, sem, mu, gc, cancelled>>

\* Mutant: the permit is kept until the lane ends.
HandshakeOKKeepsPermit(c) ==
    /\ conn[c].pc = "assign"
    /\ conn[c].todo = {}
    /\ conn[c].asg # NoAsg
    /\ Step(c, [conn[c] EXCEPT !.pc = "acquire", !.db = NilDB])
    /\ UNCHANGED <<pool, users, tables, sess, sem, mu, gc, cancelled>>

\* The second message is written and the permit released before the
\* session is looked up.
HandshakeOK(c) ==
    /\ conn[c].pc = "assign"
    /\ conn[c].todo = {}
    /\ conn[c].asg # NoAsg
    /\ sem' = sem - 1
    /\ Step(c, [conn[c] EXCEPT !.pc = "acquire", !.permit = FALSE, !.db = NilDB])
    /\ UNCHANGED <<pool, users, tables, sess, mu, gc, cancelled>>

\* Written, but no family was assigned: handleConn closes the connection.
NoAssignment(c) ==
    /\ conn[c].pc = "assign"
    /\ conn[c].todo = {}
    /\ conn[c].asg = NoAsg
    /\ Return(c)
    /\ UNCHANGED <<pool, users, tables, sess, mu, gc, cancelled>>

\* Mutant: the failure path does not call releaseOrphan.
WriteFailsSilently(c) ==
    /\ conn[c].pc = "assign"
    /\ conn[c].todo = {}
    /\ c \in MayFail
    /\ Return(c)
    /\ UNCHANGED <<pool, users, tables, sess, mu, gc, cancelled>>

\* Writing the second message fails after the allocation.
WriteFails(c) ==
    /\ conn[c].pc = "assign"
    /\ conn[c].todo = {}
    /\ c \in MayFail
    /\ Step(c, [conn[c] EXCEPT !.pc = "orphan", !.db = NilDB])
    /\ UNCHANGED <<pool, users, tables, sess, sem, mu, gc, cancelled>>

-----------------------------------------------------------------------------
(***************************************************************************)
(* releaseOrphan and acquireSession.                                       *)
(***************************************************************************)

\* One pool.Release of releaseAll.
ReleaseOne(k, f) == pool' = [pool EXCEPT ![f] = Release(@, k)]

\* releaseOrphan leaves the addresses of a live session alone.
OrphanLive(c) ==
    /\ conn[c].pc = "orphan"
    /\ mu = NoConn
    /\ Live(conn[c].client)
    /\ Return(c)
    /\ UNCHANGED <<pool, users, tables, sess, mu, gc, cancelled>>

\* Otherwise it keeps m.mu across releaseAll.
OrphanLock(c) ==
    /\ conn[c].pc = "orphan"
    /\ mu = NoConn
    /\ ~Live(conn[c].client)
    /\ mu' = c
    /\ Step(c, [conn[c] EXCEPT !.pc = "release", !.todo = Family])
    /\ UNCHANGED <<pool, users, tables, sess, sem, gc, cancelled>>

\* releaseAll, one pool at a time: under m.mu for releaseOrphan, without it
\* for a session that AcquireSlot refused.
ReleaseStep(c) ==
    LET f == First(conn[c].todo) IN
    /\ conn[c].pc = "release"
    /\ conn[c].todo # {}
    /\ ReleaseOne(conn[c].client, f)
    /\ Step(c, [conn[c] EXCEPT !.todo = @ \ {f}])
    /\ UNCHANGED <<users, tables, sess, sem, mu, gc, cancelled>>

ReleaseDone(c) ==
    /\ conn[c].pc = "release"
    /\ conn[c].todo = {}
    /\ mu' = IF mu = c THEN NoConn ELSE mu
    /\ Return(c)
    /\ UNCHANGED <<pool, users, tables, sess, gc, cancelled>>

\* Quota is checked only against a database that has users.
QuotaApplies == ~db.nil /\ ~Empty(db)

Admitted(user) == QuotaApplies => CanAcquireSlot(db, slots, user)

AcquireExisting(c) ==
    /\ conn[c].pc = "acquire"
    /\ mu = NoConn
    /\ Live(conn[c].client)
    /\ Step(c, [conn[c] EXCEPT !.pc = "join", !.sess = sessions[conn[c].client]])
    /\ UNCHANGED <<pool, users, tables, sess, sem, mu, gc, cancelled>>

\* Mutant: the addresses of the handshake are kept.
AcquireRefusedKeeps(c) ==
    /\ conn[c].pc = "acquire"
    /\ mu = NoConn
    /\ ~Live(conn[c].client)
    /\ ~Admitted(conn[c].user)
    /\ Return(c)
    /\ UNCHANGED <<pool, users, tables, sess, mu, gc, cancelled>>

\* AcquireSlot failed: m.mu is dropped before releaseAll.
AcquireRefused(c) ==
    /\ conn[c].pc = "acquire"
    /\ mu = NoConn
    /\ ~Live(conn[c].client)
    /\ ~Admitted(conn[c].user)
    /\ Step(c, [conn[c] EXCEPT !.pc = "release", !.todo = Family])
    /\ UNCHANGED <<pool, users, tables, sess, sem, mu, gc, cancelled>>

NewSession(h) ==
    [client |-> h.client, user |-> h.user, asg |-> h.asg, active |-> 0,
     fresh |-> TRUE, closed |-> FALSE]

\* The families an assignment has a valid address for.
Assigned(asg) == {f \in Family : asg[f] # NoAddr}

\* s is entered at both its addresses, whoever was there before.
Indexed(asg, s) ==
    [f \in Family |-> [a \in Offset |-> IF a = asg[f] THEN s ELSE ipIndex[f][a]]]

\* The session is created and published; m.mu is kept for the claims.
AcquireNew(c) ==
    LET h == conn[c] IN
    /\ h.pc = "acquire"
    /\ mu = NoConn
    /\ ~Live(h.client)
    /\ Admitted(h.user)
    /\ \E s \in {s \in SessId : sess[s] = NoSession} :
         /\ sess' = [sess EXCEPT ![s] = NewSession(h)]
         /\ sessions' = [sessions EXCEPT ![h.client] = s]
         /\ ipIndex' = Indexed(h.asg, s)
         /\ Step(c, [conn[c] EXCEPT !.pc = "claim", !.sess = s,
                                 !.todo = Assigned(h.asg)])
    /\ slots' = IF QuotaApplies THEN AcquireSlot(slots, h.user) ELSE slots
    /\ mu' = c
    /\ UNCHANGED <<pool, db, sem, gc, cancelled>>

ClaimStep(c) ==
    LET h == conn[c]
        f == First(h.todo)
    IN
    /\ h.pc = "claim"
    /\ h.todo # {}
    /\ pool' = [pool EXCEPT ![f] = Claim(@, h.client, h.asg[f])]
    /\ Step(c, [conn[c] EXCEPT !.todo = @ \ {f}])
    /\ UNCHANGED <<users, tables, sess, sem, mu, gc, cancelled>>

ClaimDone(c) ==
    /\ conn[c].pc = "claim"
    /\ conn[c].todo = {}
    /\ mu' = NoConn
    /\ Step(c, [conn[c] EXCEPT !.pc = "join"])
    /\ UNCHANGED <<pool, users, tables, sess, sem, gc, cancelled>>

-----------------------------------------------------------------------------
(***************************************************************************)
(* A lane: runLane waits for both its copying goroutines.                  *)
(***************************************************************************)

\* Under s.mu: the lane count changes by n and lastSeen is now.
Touched(s, n) ==
    [sess EXCEPT ![s] = [sess[s] EXCEPT !.active = sess[s].active + n, !.fresh = TRUE]]

Join(c) ==
    LET s == conn[c].sess IN
    /\ conn[c].pc = "join"
    /\ sess' = Touched(s, 1)
    /\ Step(c, [conn[c] EXCEPT !.pc = "lane", !.up = TRUE, !.rx = TRUE, !.tx = TRUE])
    /\ UNCHANGED <<pool, users, tables, sem, mu, gc, cancelled>>

InLane(c) == conn[c].pc = "lane"

\* The peer closes, resets, or stops answering keepalives.
PeerDrops(c) ==
    /\ InLane(c) /\ conn[c].up
    /\ Step(c, [conn[c] EXCEPT !.up = FALSE])
    /\ UNCHANGED <<pool, users, tables, sess, sem, mu, gc, cancelled>>

\* The watcher closes the socket once the session's context is done; that
\* context is a child of the server's.
WatcherCloses(c) ==
    /\ InLane(c) /\ conn[c].up
    /\ sess[conn[c].sess].closed \/ cancelled
    /\ Step(c, [conn[c] EXCEPT !.up = FALSE])
    /\ UNCHANGED <<pool, users, tables, sess, sem, mu, gc, cancelled>>

\* sockToTun reads from a dead socket.
RxEnds(c) ==
    /\ InLane(c) /\ conn[c].rx
    /\ ~conn[c].up
    /\ Step(c, [conn[c] EXCEPT !.rx = FALSE])
    /\ UNCHANGED <<pool, users, tables, sess, sem, mu, gc, cancelled>>

\* sockToTun gives up on a live socket: a frame it cannot open, or a
\* failing TUN write.
RxFails(c) ==
    /\ InLane(c) /\ conn[c].rx
    /\ c \in MayFail
    /\ Step(c, [conn[c] EXCEPT !.rx = FALSE])
    /\ UNCHANGED <<pool, users, tables, sess, sem, mu, gc, cancelled>>

\* Mutant: sessionPIO.Read does not select on the closed channel.
TxEndsNever(c) ==
    /\ InLane(c) /\ conn[c].tx
    /\ cancelled
    /\ Step(c, [conn[c] EXCEPT !.tx = FALSE])
    /\ UNCHANGED <<pool, users, tables, sess, sem, mu, gc, cancelled>>

\* tunToSock, blocked in sessionPIO.Read, sees the session closed.
TxEnds(c) ==
    /\ InLane(c) /\ conn[c].tx
    /\ sess[conn[c].sess].closed
    /\ Step(c, [conn[c] EXCEPT !.tx = FALSE])
    /\ UNCHANGED <<pool, users, tables, sess, sem, mu, gc, cancelled>>

\* tunToSock takes a packet it cannot send: the socket is dead, or the
\* packet does not fit its buffer (errShortBuffer).
TxFails(c) ==
    /\ InLane(c) /\ conn[c].tx
    /\ ~conn[c].up \/ c \in MayFail
    /\ Step(c, [conn[c] EXCEPT !.tx = FALSE])
    /\ UNCHANGED <<pool, users, tables, sess, sem, mu, gc, cancelled>>

\* Something other than connection c still points to session s; an object
\* nothing points to is garbage and its identity can be used again.
Referenced(s, c) ==
    \/ \E k \in Client : sessions[k] = s
    \/ \E d \in Conn \ {c} : conn[d].sess = s
    \/ s \in gc.victims \cup {gc.cur}

\* Mutant: the deferred decrement is missing.
LaneEndsUncounted(c) ==
    /\ InLane(c)
    /\ ~conn[c].rx /\ ~conn[c].tx
    /\ Return(c)
    /\ UNCHANGED <<pool, users, tables, sess, mu, gc, cancelled>>

\* Both halves are done: the deferred functions run and handleConn returns.
LaneEnds(c) ==
    LET s == conn[c].sess IN
    /\ InLane(c)
    /\ ~conn[c].rx /\ ~conn[c].tx
    /\ sess' = IF Referenced(s, c) THEN Touched(s, -1) ELSE [sess EXCEPT ![s] = NoSession]
    /\ Return(c)
    /\ UNCHANGED <<pool, users, tables, mu, gc, cancelled>>

-----------------------------------------------------------------------------
(***************************************************************************)
(* The collector, reloads and shutdown.                                    *)
(***************************************************************************)

Tabled == {s \in SessId : \E k \in Client : sessions[k] = s}

\* 90 seconds pass since lastSeen.  The age of a session that has a lane is
\* never looked at, and is reset when the lane ends.
Idles(s) ==
    /\ MayIdle
    /\ s \in Tabled
    /\ sess[s].active = 0 /\ sess[s].fresh
    /\ sess' = [sess EXCEPT ![s] = [@ EXCEPT !.fresh = FALSE]]
    /\ UNCHANGED <<pool, users, tables, conn, sem, mu, gc, cancelled>>

Stale == {s \in Tabled : sess[s].active = 0 /\ ~sess[s].fresh}

\* Mutant: the index entries stay behind.
UntableHalf(S) ==
    /\ sessions' = [k \in Client |-> IF sessions[k] \in S THEN NoSess ELSE sessions[k]]
    /\ UNCHANGED ipIndex

\* The sessions in S leave both tables: an address is deleted from the index
\* whoever it is indexed to.
Untable(S) ==
    /\ sessions' = [k \in Client |-> IF sessions[k] \in S THEN NoSess ELSE sessions[k]]
    /\ ipIndex' = [f \in Family |-> [a \in Offset |->
                     IF \E s \in S : sess[s].asg[f] = a THEN NoSess ELSE ipIndex[f][a]]]

GCIdle == gc.victims = {} /\ gc.cur = NoSess /\ ~gc.done

\* collect: stale sessions are unlinked under m.mu and torn down after it.
Collect ==
    /\ GCIdle
    /\ mu = NoConn
    /\ Stale # {}
    /\ Untable(Stale)
    /\ gc' = [gc EXCEPT !.victims = Stale]
    /\ UNCHANGED <<pool, users, sess, conn, sem, mu, cancelled>>

\* tearDownAll: both tables are replaced by empty ones; gc returns after it.
CollectAll ==
    /\ GCIdle
    /\ cancelled
    /\ mu = NoConn
    /\ sessions' = [k \in Client |-> NoSess]
    /\ ipIndex' = [f \in Family |-> [a \in Offset |-> NoSess]]
    /\ gc' = [gc EXCEPT !.victims = Tabled, !.done = TRUE]
    /\ UNCHANGED <<pool, users, sess, conn, sem, mu, cancelled>>

\* tearDown of one victim: its context and its closed channel first ...
TearDownClose(s) ==
    /\ gc.cur = NoSess
    /\ s \in gc.victims
    /\ sess' = [sess EXCEPT ![s] = [@ EXCEPT !.closed = TRUE]]
    /\ gc' = [gc EXCEPT !.victims = @ \ {s}, !.cur = s, !.todo = Family]
    /\ UNCHANGED <<pool, users, tables, conn, sem, mu, cancelled>>

\* ... then releaseAll, without m.mu ...
TearDownRelease ==
    LET f == First(gc.todo) IN
    /\ gc.cur # NoSess
    /\ gc.todo # {}
    /\ ReleaseOne(sess[gc.cur].client, f)
    /\ gc' = [gc EXCEPT !.todo = @ \ {f}]
    /\ UNCHANGED <<users, tables, sess, conn, sem, mu, cancelled>>

\* Mutant: the slot is not given back.
TearDownKeepsSlot ==
    LET s == gc.cur IN
    /\ s # NoSess
    /\ gc.todo = {}
    /\ gc' = [gc EXCEPT !.cur = NoSess]
    /\ sess' = IF \E c \in Conn : conn[c].sess = s
               THEN sess ELSE [sess EXCEPT ![s] = NoSession]
    /\ UNCHANGED <<pool, users, tables, conn, sem, mu, cancelled>>

\* ... then the user's slot, in the database of that moment.
TearDownSlot ==
    LET s == gc.cur IN
    /\ s # NoSess
    /\ gc.todo = {}
    /\ slots' = IF sess[s].user # NoUser THEN ReleaseSlot(db, slots, sess[s].user) ELSE slots
    /\ gc' = [gc EXCEPT !.cur = NoSess]
    /\ sess' = IF \E c \in Conn : conn[c].sess = s
               THEN sess ELSE [sess EXCEPT ![s] = NoSession]
    /\ UNCHANGED <<pool, db, tables, conn, sem, mu, cancelled>>

\* ReloadUsers: a new database, with no slot taken; an invalid list is
\* refused and changes nothing.
Reload(list) ==
    /\ ~cancelled
    /\ ValidUsers(list)
    /\ db' = NewUserDB(list)
    /\ slots' = [n \in Names |-> 0]
    /\ UNCHANGED <<pool, tables, sess, conn, sem, mu, gc, cancelled>>

Cancel ==
    /\ MayStop /\ ~cancelled
    /\ cancelled' = TRUE
    /\ UNCHANGED <<pool, users, tables, sess, conn, sem, mu, gc>>

-----------------------------------------------------------------------------
Handshake(c) ==
    \/ Accept(c) \/ HandshakeFails(c)
    \/ \E k \in Dials[c] : Refuse(c, k) \/ Authorize(c, k)
    \/ \E a \in Requests : Assign(c, a)
    \/ HandshakeOK(c) \/ NoAssignment(c) \/ WriteFails(c)

Session(c) ==
    \/ OrphanLive(c) \/ OrphanLock(c) \/ ReleaseStep(c) \/ ReleaseDone(c)
    \/ AcquireExisting(c) \/ AcquireRefused(c) \/ AcquireNew(c)
    \/ ClaimStep(c) \/ ClaimDone(c)

Lane(c) ==
    \/ Join(c) \/ PeerDrops(c) \/ WatcherCloses(c)
    \/ RxEnds(c) \/ RxFails(c) \/ TxEnds(c) \/ TxFails(c) \/ LaneEnds(c)

Collector ==
    \/ \E s \in SessId : Idles(s) \/ TearDownClose(s)
    \/ Collect \/ CollectAll \/ TearDownRelease \/ TearDownSlot

Next ==
    \/ \E c \in Conn : Handshake(c) \/ Session(c) \/ Lane(c)
    \/ Collector
    \/ \E list \in UserLists : Reload(list)
    \/ Cancel

Spec == Init /\ [][Next]_vars

(***************************************************************************)
(* Fairness.  A handshake is bounded by its deadlines and a goroutine that *)
(* can run does run, so each goroutine is weakly fair; sync.Mutex hands    *)
(* over to a waiter that starved, so what waits for m.mu is strongly fair. *)
(* Nothing makes a peer drop a lane or a packet arrive for it.             *)
(***************************************************************************)
HandshakeStep(c) == conn[c].pc # "idle" /\ Handshake(c)

LaneStep(c) == Join(c) \/ WatcherCloses(c) \/ RxEnds(c) \/ TxEnds(c) \/ LaneEnds(c)

TearDown == (\E s \in SessId : TearDownClose(s)) \/ TearDownRelease \/ TearDownSlot

Fairness ==
    /\ \A c \in Conn :
         WF_vars(HandshakeStep(c)) /\ SF_vars(Session(c)) /\ WF_vars(LaneStep(c))
    /\ \A s \in SessId : WF_vars(Idles(s))
    /\ SF_vars(Collect \/ CollectAll) /\ WF_vars(TearDown)

FairSpec == Spec /\ Fairness

-----------------------------------------------------------------------------
(***************************************************************************)
(* A calm environment.  releaseOrphan, the refusal by AcquireSlot and      *)
(* tearDown release a client's addresses without asking whether another    *)
(* connection was told them.  They cannot meet one when no session is      *)
(* collected and a client with several lanes is never refused and never    *)
(* loses one of them during its handshake.                                 *)
(***************************************************************************)

\* The databases the server can have.
Databases == {InitialDB} \cup {NewUserDB(list) : list \in {l \in UserLists : ValidUsers(l)}}

\* Every database authorizes k, under one name and without a quota.
Steady(k) ==
    \E n \in Names \cup {NoUser} : \A d \in Databases :
      /\ AuthorizedName(d, PeerKey, k) = n
      /\ \A u \in d.users : u.name = n => u.max = 0

Calm ==
    /\ ~MayIdle /\ ~MayStop
    /\ \A c, d \in Conn : c # d =>
         \A k \in Dials[c] \cap Dials[d] : c \notin MayFail /\ Steady(k)

-----------------------------------------------------------------------------
(***************************************************************************)
(* Properties.                                                             *)
(***************************************************************************)

PCs == {"idle", "handshake", "assign", "orphan", "acquire", "release", "claim", "join", "lane"}

Asgs == [Family -> Addr]

ConnType ==
    [pc : PCs, client : Client \cup {NoClient}, user : Names \cup {NoUser}, db : DBType,
     asg : Asgs, sess : SessId \cup {NoSess}, todo : SUBSET Family,
     permit : BOOLEAN, up : BOOLEAN, rx : BOOLEAN, tx : BOOLEAN]

SessType ==
    [client : Client \cup {NoClient}, user : Names \cup {NoUser}, asg : Asgs,
     active : Int, fresh : BOOLEAN, closed : BOOLEAN]

GCType ==
    [victims : SUBSET SessId, cur : SessId \cup {NoSess}, todo : SUBSET Family,
     done : BOOLEAN]

\* The shape of the server's state.
TypeOK ==
    /\ pool \in [Family -> PoolType]
    /\ db \in DBType
    /\ slots \in [Names -> Int]
    /\ sessions \in [Client -> SessId \cup {NoSess}]
    /\ ipIndex \in [Family -> [Offset -> SessId \cup {NoSess}]]
    /\ sess \in [SessId -> SessType]
    /\ conn \in [Conn -> ConnType]
    /\ sem \in Int
    /\ mu \in Conn \cup {NoConn}
    /\ gc \in GCType
    /\ cancelled \in BOOLEAN

\* runTunReader never delivers a packet to the wrong session object: an
\* address is indexed only to a session that is in m.sessions and was
\* assigned that address, whatever collect, tearDownAll and acquireSession
\* do in between.
IndexSound ==
    \A f \in Family, a \in Offset :
      LET s == ipIndex[f][a] IN
      s # NoSess => /\ sess[s].asg[f] = a
                    /\ sess[s].client \in Client
                    /\ sessions[sess[s].client] = s

\* Connection c was given client k's address of family f and will still
\* hand it to a session or release it.
Pending(c, f, k) ==
    /\ conn[c].client = k
    /\ conn[c].asg[f] # NoAddr
    /\ \/ conn[c].pc \in {"assign", "orphan", "acquire"}
       \/ conn[c].pc = "release" /\ f \in conn[c].todo

\* The collector will still release it.
Doomed(f, k) ==
    \/ \E s \in gc.victims : sess[s].client = k
    \/ gc.cur # NoSess /\ sess[gc.cur].client = k /\ f \in gc.todo

\* Someone answers for the address that the pool of family f keeps for k.
Accountable(f, k) ==
    Live(k) \/ (\E c \in Conn : Pending(c, f, k)) \/ Doomed(f, k)

\* "An aborted handshake cannot leak pool entries" (handleConn), and neither
\* can a refused or collected session: no client keeps an address that
\* nobody will release.
NoAddressLeak ==
    \A f \in Family, k \in Client : pool[f].byClient[k] # NoAddr => Accountable(f, k)

\* session.active is the number of lanes running on the session, so collect
\* never takes a session that has a lane.
ActiveCountsLanes ==
    \A s \in SessId : sess[s].active = Cardinality({c \in Conn : InLane(c) /\ conn[c].sess = s})

\* The limiter's cap counts handshakes, not sessions: the permits taken are
\* those of connections that have not resolved their handshake.
PermitsCountHandshakes ==
    /\ sem = Cardinality({c \in Conn : conn[c].permit})
    /\ \A c \in Conn : conn[c].pc \in {"acquire", "claim", "join", "lane"} => ~conn[c].permit

\* Two live sessions never have the same tunnel address.
AddressExclusive ==
    \A k, l \in Client, f \in Family :
      /\ k # l /\ Live(k) /\ Live(l)
      /\ sess[sessions[k]].asg[f] # NoAddr
      => sess[sessions[k]].asg[f] # sess[sessions[l]].asg[f]

\* No lane told its client another address than that of the session it
\* carries, whichever lane of the client created the session.
LaneAgrees ==
    \A c \in Conn, f \in Family :
      LET a == sess[conn[c].sess].asg[f] IN
      /\ conn[c].pc \in {"join", "lane"}
      /\ a # NoAddr /\ conn[c].asg[f] # NoAddr
      => conn[c].asg[f] = a

\* An IPv4 pool reports exhaustion only while every host that it could give
\* belongs to a client that someone answers for: what failed, refused and
\* revoked lanes had is there again.
NoFalseExhaustion ==
    [][\A c \in Conn, a \in Requests :
         /\ Assign(c, a) /\ First(conn[c].todo) = "v4"
         /\ conn'[c].asg["v4"] = NoAddr
         => \A b \in Subnet["v4"] \ (Reserved["v4"] \cup {0}) :
              \E k \in Client : pool["v4"].byClient[k] = b /\ Accountable("v4", k)]_vars

\* An address that newIPPool set aside at startup is newly given only to the
\* user that reserves it in the database the handshake goes by, however the
\* database changed since the pool was built.
RespectsReservations ==
    [][\A c \in Conn, a \in Requests :
         LET f == First(conn[c].todo) IN
         /\ Assign(c, a) /\ conn[c].user \in Names
         /\ pool[f].byClient[conn[c].client] = NoAddr
         /\ conn'[c].asg[f] \in Reserved[f]
         => ReservationOwner(conn[c].db, f, conn'[c].asg[f]) = conn[c].user]_vars

\* The sessions that hold one of user n's slots: live, or on their way
\* through tearDown.
SlotHolders(n) == {s \in Tabled \cup gc.victims \cup ({gc.cur} \ {NoSess}) : sess[s].user = n}

\* The slot counts are the numbers of sessions that have not been torn down.
SlotsCountSessions == \A n \in Names : slots[n] = Cardinality(SlotHolders(n))

\* No user has more sessions than its quota.
QuotaHolds ==
    \A n \in Names : Known(db, n) /\ UserNamed(db, n).max > 0
        => Cardinality(SlotHolders(n)) <= UserNamed(db, n).max

Carried(s) == \E c \in Conn : conn[c].sess = s

\* Every in-flight permit comes back, whatever becomes of the connection.
PermitsReturned == \A c \in Conn : conn[c].permit ~> ~conn[c].permit

\* tearDown ends the lanes of the session: the watcher closes the socket
\* under the receiving half, and the closed channel wakes the sending half.
ClosedLanesEnd ==
    \A c \in Conn : (InLane(c) /\ sess[conn[c].sess].closed) ~> ~InLane(c)

\* "The server reaps a session after roughly 90 seconds with no active
\* lane": one that no connection carries leaves m.sessions.  Once the server
\* is told to stop, tearDownAll runs once and gc is gone.
IdleReaped ==
    \A k \in Client :
      (Live(k) /\ ~Carried(sessions[k])) ~> (~Live(k) \/ Carried(sessions[k]) \/ cancelled)
=============================================================================
