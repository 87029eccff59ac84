------------------------- MODULE MultiClientCounts --------------------------
(***************************************************************************)
(* The counters of the multi-client server count what they are meant to:   *)
(* the permits of the handshake limiter, the lanes of a session and, as    *)
(* long as the user list is not reloaded, the slots of a user; for any     *)
(* number of clients, connections and session objects.                     *)
(***************************************************************************)
EXTENDS MultiClientProofs, FiniteSetTheorems

-----------------------------------------------------------------------------
(* Permits and lanes *)

\* The connections that have a permit, and those that run lanes of a session.
Holders == {c \in Conn : conn[c].permit}
Lanes(s) == {c \in Conn : InLane(c) /\ conn[c].sess = s}

\* Where handleConn is tells whether it has the permit, and a lane has a
\* session.  A refused session is released without the permit, an aborted
\* handshake with it, so "release" tells nothing.
Fits(h) ==
    /\ h.pc = "idle" => ~h.permit
    /\ h.pc \in {"handshake", "assign", "orphan"} => h.permit
    /\ h.pc \in {"acquire", "claim", "join", "lane"} => ~h.permit
    /\ h.pc \in {"claim", "join", "lane"} => h.sess \in SessId

Counts ==
    /\ \A c \in Conn : Fits(conn[c])
    /\ sem = Cardinality(Holders)
    /\ ActiveCountsLanes

-----------------------------------------------------------------------------
LEMMA ConnSubsets ==
    ASSUME NEW S \in SUBSET Conn
    PROVE  IsFiniteSet(S) /\ Cardinality(S) \in Nat
BY ConnAssumption, FS_Subset, FS_CardinalityType

\* The permits after connection c has moved to h.
Bit(b) == IF b THEN 1 ELSE 0

LEMMA PermitKept ==
    ASSUME NEW x \in Int, NEW p \in BOOLEAN
    PROVE  x = x + Bit(p) - Bit(p)
BY DEF Bit

LEMMA HoldersMove ==
    ASSUME TypeOK, NEW c \in Conn, NEW h \in ConnType, Step(c, h)
    PROVE  Cardinality(Holders') = Cardinality(Holders) + Bit(h.permit) - Bit(conn[c].permit)
<1>1. \A d \in Conn : conn'[d] = IF d = c THEN h ELSE conn[d]
  BY DEF TypeOK, Step
<1>2. h.permit \in BOOLEAN /\ conn[c].permit \in BOOLEAN
  BY DEF TypeOK, ConnType
<1>3. IsFiniteSet(Holders) /\ Cardinality(Holders) \in Nat
  <2>1. Holders \in SUBSET Conn
    BY DEF Holders
  <2> QED  BY <2>1, ConnSubsets
<1>4. CASE h.permit /\ ~conn[c].permit
  <2>1. Holders' = Holders \cup {c} /\ c \notin Holders
    BY <1>1, <1>4 DEF Holders
  <2>2. Cardinality(Holders') = Cardinality(Holders) + 1
    BY <1>3, <2>1, FS_AddElement, Zenon
  <2> QED  BY <1>3, <1>4, <2>2 DEF Bit
<1>5. CASE ~h.permit /\ conn[c].permit
  <2>1. Holders' = Holders \ {c} /\ c \in Holders
    BY <1>1, <1>5 DEF Holders
  <2>2. Cardinality(Holders') = Cardinality(Holders) - 1
    BY <1>3, <2>1, FS_RemoveElement, Zenon
  <2> QED  BY <1>3, <1>5, <2>2 DEF Bit
<1>6. CASE h.permit = conn[c].permit
  <2>1. Holders' = Holders
    BY <1>1, <1>6 DEF Holders
  <2> QED  BY <1>2, <1>3, <1>6, <2>1 DEF Bit
<1> QED  BY <1>2, <1>4, <1>5, <1>6

\* Connection c moves to h and the permits move with it.
Moves(c, h) ==
    /\ Step(c, h)
    /\ Fits(h)
    /\ sem' = sem + Bit(h.permit) - Bit(conn[c].permit)

\* ... and no lane starts or ends.
Quietly(c, h) ==
    /\ Moves(c, h)
    /\ h.pc = "lane" <=> conn[c].pc = "lane"
    /\ h.pc = "lane" => h.sess = conn[c].sess
    /\ \A s \in SessId : sess'[s].active = sess[s].active

LEMMA MovesCount ==
    ASSUME TypeOK, Counts, NEW c \in Conn, NEW h \in ConnType, Moves(c, h)
    PROVE  sem' = Cardinality(Holders') /\ \A d \in Conn : Fits(conn'[d])
<1>1. \A d \in Conn : conn'[d] = IF d = c THEN h ELSE conn[d]
  BY DEF TypeOK, Moves, Step
<1>2. \A d \in Conn : Fits(conn'[d])
  BY <1>1 DEF Counts, Moves
<1>3. Cardinality(Holders') = Cardinality(Holders) + Bit(h.permit) - Bit(conn[c].permit)
  BY HoldersMove DEF Moves
<1> QED  BY <1>2, <1>3 DEF Counts, Moves

LEMMA QuietCounts ==
    ASSUME TypeOK, Counts, NEW c \in Conn, NEW h \in ConnType, Quietly(c, h)
    PROVE  Counts'
<1>1. \A d \in Conn : conn'[d] = IF d = c THEN h ELSE conn[d]
  BY DEF TypeOK, Quietly, Moves, Step
<1>2. \A s \in SessId : Lanes(s)' = Lanes(s)
  BY <1>1 DEF Quietly, Lanes, InLane
<1>3. ActiveCountsLanes'
  BY <1>2, Zenon DEF Quietly, Counts, ActiveCountsLanes, Lanes
<1>4. sem' = Cardinality(Holders') /\ \A d \in Conn : Fits(conn'[d])
  BY MovesCount DEF Quietly
<1>5. \A d \in Conn : Fits(conn[d])'
  BY <1>4 DEF Fits
<1> QED  BY <1>3, <1>4, <1>5 DEF Counts

-----------------------------------------------------------------------------
(* One step of a connection *)

\* handleConn returns before it has a lane.
LEMMA ReturnCounts ==
    ASSUME TypeOK, Counts, NEW c \in Conn, Return(c), UNCHANGED sess, conn[c].pc # "lane"
    PROVE  Counts'
<1>1. NoConnection \in ConnType /\ NoConnection.pc = "idle" /\ NoConnection.permit = FALSE
  BY IdleTyped DEF NoConnection
<1>2. Fits(NoConnection)
  BY <1>1 DEF Fits
<1>3. conn[c].permit \in BOOLEAN /\ sem \in Int
  BY DEF TypeOK, ConnType
<1>4. sem' = sem + Bit(NoConnection.permit) - Bit(conn[c].permit)
  BY <1>1, <1>3 DEF Return, Bit
<1>5. Quietly(c, NoConnection)
  BY <1>1, <1>2, <1>4 DEF Quietly, Moves, Return
<1> QED  BY <1>1, <1>5, QuietCounts

\* A step that keeps the permit and neither starts nor ends a lane.
LEMMA KeepsPermit ==
    ASSUME TypeOK, Counts, NEW c \in Conn, NEW h \in ConnType, Step(c, h), Fits(h),
           h.permit = conn[c].permit, UNCHANGED sem,
           h.pc = "lane" <=> conn[c].pc = "lane",
           h.pc = "lane" => h.sess = conn[c].sess,
           \A s \in SessId : sess'[s].active = sess[s].active
    PROVE  Counts'
<1>0. sem \in Int /\ conn[c].permit \in BOOLEAN
  BY Zenon DEF TypeOK, ConnType
<1>1. sem' = sem + Bit(h.permit) - Bit(conn[c].permit)
  BY <1>0, PermitKept, Zenon
<1> QED  BY <1>1, QuietCounts, Zenon DEF Quietly, Moves

LEMMA HandshakeCounts ==
    ASSUME TypeOK, KnownClient, Counts, NEW c \in Conn, Handshake(c), TypeOK'
    PROVE  Counts'
<1>0. conn[c] \in ConnType /\ conn'[c] \in ConnType /\ sem \in Int /\ Fits(conn[c])
  BY DEF TypeOK, Counts
<1>1. CASE Accept(c)
  <2> DEFINE h == [NoConnection EXCEPT !.pc = "handshake", !.permit = TRUE, !.db = db]
  <2>1. Step(c, h) /\ UNCHANGED sess /\ conn[c].pc = "idle" /\ sem' = sem + 1
    BY <1>1 DEF Accept
  <2>2. h.pc = "handshake" /\ h.permit = TRUE
    BY DEF NoConnection
  <2>3. h \in ConnType
    BY <1>0, <2>1 DEF Step, TypeOK
  <2> HIDE DEF h
  <2>4. Fits(h) /\ sem' = sem + Bit(h.permit) - Bit(conn[c].permit)
    BY <1>0, <2>1, <2>2 DEF Fits, Bit
  <2> QED  BY <2>1, <2>2, <2>3, <2>4, QuietCounts DEF Quietly, Moves
<1>2. CASE HandshakeFails(c)
  BY <1>2, ReturnCounts DEF HandshakeFails
<1>3. ASSUME NEW k \in Dials[c], Refuse(c, k) PROVE Counts'
  <2> DEFINE h == [conn[c] EXCEPT !.pc = "orphan", !.client = k, !.db = NilDB]
  <2>1. Step(c, h) /\ UNCHANGED <<sess, sem>> /\ conn[c].pc = "handshake"
    BY <1>3 DEF Refuse
  <2>2. h.pc = "orphan" /\ h.permit = conn[c].permit
    BY <1>0 DEF ConnType
  <2>3. h \in ConnType
    BY <1>0, <2>1 DEF Step, TypeOK
  <2> HIDE DEF h
  <2>4. Fits(h)
    BY <1>0, <2>1, <2>2 DEF Fits
  <2> QED  BY <2>1, <2>2, <2>3, <2>4, KeepsPermit
<1>4. ASSUME NEW k \in Dials[c], Authorize(c, k) PROVE Counts'
  <2> DEFINE h == [conn[c] EXCEPT !.pc = "assign", !.client = k,
                      !.user = AuthorizedName(conn[c].db, PeerKey, k), !.db = db, !.todo = Family]
  <2>1. Step(c, h) /\ UNCHANGED <<sess, sem>> /\ conn[c].pc = "handshake"
    BY <1>4 DEF Authorize
  <2>2. h.pc = "assign" /\ h.permit = conn[c].permit
    BY <1>0 DEF ConnType
  <2>3. h \in ConnType
    BY <1>0, <2>1 DEF Step, TypeOK
  <2> HIDE DEF h
  <2>4. Fits(h)
    BY <1>0, <2>1, <2>2 DEF Fits
  <2> QED  BY <2>1, <2>2, <2>3, <2>4, KeepsPermit
<1>5. ASSUME NEW a \in Requests, Assign(c, a) PROVE Counts'
  <2>1. PICK asg, todo : Step(c, [conn[c] EXCEPT !.asg = asg, !.todo = todo])
    BY <1>0, <1>5, Zenon DEF Assign, ConnType
  <2> DEFINE h == [conn[c] EXCEPT !.asg = asg, !.todo = todo]
  <2>2. UNCHANGED <<sess, sem>> /\ conn[c].pc = "assign"
    BY <1>5 DEF Assign
  <2>3. h.pc = conn[c].pc /\ h.permit = conn[c].permit
    BY <1>0 DEF ConnType
  <2>4. h \in ConnType
    BY <1>0, <2>1 DEF Step, TypeOK
  <2> HIDE DEF h
  <2>5. Fits(h)
    BY <1>0, <2>2, <2>3 DEF Fits
  <2> QED  BY <2>1, <2>2, <2>3, <2>4, <2>5, KeepsPermit, Zenon DEF h
<1>6. CASE HandshakeOK(c)
  <2> DEFINE h == [conn[c] EXCEPT !.pc = "acquire", !.permit = FALSE, !.db = NilDB]
  <2>1. Step(c, h) /\ UNCHANGED sess /\ conn[c].pc = "assign" /\ sem' = sem - 1
    BY <1>6 DEF HandshakeOK
  <2>2. h.pc = "acquire" /\ h.permit = FALSE
    BY <1>0 DEF ConnType
  <2>3. h \in ConnType
    BY <1>0, <2>1 DEF Step, TypeOK
  <2> HIDE DEF h
  <2>4. Fits(h) /\ sem' = sem + Bit(h.permit) - Bit(conn[c].permit)
    BY <1>0, <2>1, <2>2 DEF Fits, Bit
  <2> QED  BY <2>1, <2>2, <2>3, <2>4, QuietCounts DEF Quietly, Moves
<1>7. CASE NoAssignment(c)
  BY <1>7, ReturnCounts DEF NoAssignment
<1>8. CASE WriteFails(c)
  <2> DEFINE h == [conn[c] EXCEPT !.pc = "orphan", !.db = NilDB]
  <2>1. Step(c, h) /\ UNCHANGED <<sess, sem>> /\ conn[c].pc = "assign"
    BY <1>8 DEF WriteFails
  <2>2. h.pc = "orphan" /\ h.permit = conn[c].permit
    BY <1>0 DEF ConnType
  <2>3. h \in ConnType
    BY <1>0, <2>1 DEF Step, TypeOK
  <2> HIDE DEF h
  <2>4. Fits(h)
    BY <1>0, <2>1, <2>2 DEF Fits
  <2> QED  BY <2>1, <2>2, <2>3, <2>4, KeepsPermit
<1> QED
  BY <1>1, <1>2, <1>3, <1>4, <1>5, <1>6, <1>7, <1>8, Zenon DEF Handshake

LEMMA SessionCounts ==
    ASSUME TypeOK, KnownClient, Counts, NEW c \in Conn, Session(c), TypeOK'
    PROVE  Counts'
<1>0. conn[c] \in ConnType /\ conn'[c] \in ConnType /\ Fits(conn[c])
  BY DEF TypeOK, Counts
<1>1. CASE OrphanLive(c)
  BY <1>1, ReturnCounts DEF OrphanLive
<1>2. CASE ReleaseDone(c)
  BY <1>2, ReturnCounts DEF ReleaseDone
<1>3. CASE OrphanLock(c) \/ AcquireRefused(c)
  <2> DEFINE h == [conn[c] EXCEPT !.pc = "release", !.todo = Family]
  <2>1. Step(c, h) /\ UNCHANGED <<sess, sem>> /\ conn[c].pc \in {"orphan", "acquire"}
    BY <1>3 DEF OrphanLock, AcquireRefused
  <2>2. h.pc = "release" /\ h.permit = conn[c].permit
    BY <1>0 DEF ConnType
  <2>3. h \in ConnType
    BY <1>0, <2>1 DEF Step, TypeOK
  <2> HIDE DEF h
  <2>4. Fits(h)
    BY <2>2 DEF Fits
  <2> QED  BY <2>1, <2>2, <2>3, <2>4, KeepsPermit
<1>4. CASE ReleaseStep(c) \/ ClaimStep(c)
  <2>1. PICK todo : Step(c, [conn[c] EXCEPT !.todo = todo])
    BY <1>0, <1>4, Zenon DEF ReleaseStep, ClaimStep, ConnType
  <2> DEFINE h == [conn[c] EXCEPT !.todo = todo]
  <2>2. UNCHANGED <<sess, sem>>
    BY <1>4 DEF ReleaseStep, ClaimStep
  <2>3. h.pc = conn[c].pc /\ h.permit = conn[c].permit /\ h.sess = conn[c].sess
    BY <1>0 DEF ConnType
  <2>4. h \in ConnType
    BY <1>0, <2>1 DEF Step, TypeOK
  <2>5. Step(c, h)
    BY <2>1, Zenon
  <2> HIDE DEF h
  <2>6. Fits(h)
    BY <1>0, <2>3 DEF Fits
  <2> QED  BY <2>2, <2>3, <2>4, <2>5, <2>6, KeepsPermit
<1>5. CASE AcquireExisting(c)
  <2> DEFINE h == [conn[c] EXCEPT !.pc = "join", !.sess = sessions[conn[c].client]]
  <2>1. Step(c, h) /\ UNCHANGED <<sess, sem>> /\ conn[c].pc = "acquire" /\ Live(conn[c].client)
    BY <1>5 DEF AcquireExisting
  <2>2. sessions[conn[c].client] \in SessId
    BY <2>1 DEF TypeOK, KnownClient, Live
  <2>3. h.pc = "join" /\ h.permit = conn[c].permit /\ h.sess \in SessId
    BY <1>0, <2>2 DEF ConnType
  <2>4. h \in ConnType
    BY <1>0, <2>1 DEF Step, TypeOK
  <2> HIDE DEF h
  <2>5. Fits(h)
    BY <1>0, <2>1, <2>3, Zenon DEF Fits
  <2> QED  BY <2>1, <2>3, <2>4, <2>5, KeepsPermit
<1>6. CASE AcquireNew(c)
  <2>1. PICK s \in SessId :
          /\ sess[s] = NoSession
          /\ sess' = [sess EXCEPT ![s] = NewSession(conn[c])]
          /\ Step(c, [conn[c] EXCEPT !.pc = "claim", !.sess = s, !.todo = Assigned(conn[c].asg)])
    BY <1>6, Zenon DEF AcquireNew
  <2> DEFINE h == [conn[c] EXCEPT !.pc = "claim", !.sess = s, !.todo = Assigned(conn[c].asg)]
  <2>2. Step(c, h) /\ UNCHANGED sem /\ conn[c].pc = "acquire"
    BY <1>6, <2>1 DEF AcquireNew
  <2>3. h.pc = "claim" /\ h.permit = conn[c].permit /\ h.sess \in SessId
    BY <1>0 DEF ConnType
  <2>4. h \in ConnType
    BY <1>0, <2>2, Zenon DEF Step, TypeOK
  <2> HIDE DEF h
  <2>5. Fits(h)
    BY <1>0, <2>2, <2>3 DEF Fits
  <2>6. NewSession(conn[c]).active = 0 /\ NoSession.active = 0
    BY DEF NewSession, NoSession
  <2>7. \A x \in SessId : sess'[x].active = sess[x].active
    BY <2>1, <2>6 DEF TypeOK
  <2> QED  BY <2>2, <2>3, <2>4, <2>5, <2>7, KeepsPermit
<1>7. CASE ClaimDone(c)
  <2> DEFINE h == [conn[c] EXCEPT !.pc = "join"]
  <2>1. Step(c, h) /\ UNCHANGED <<sess, sem>> /\ conn[c].pc = "claim"
    BY <1>7 DEF ClaimDone
  <2>2. h.pc = "join" /\ h.permit = conn[c].permit /\ h.sess = conn[c].sess
    BY <1>0 DEF ConnType
  <2>3. h \in ConnType
    BY <1>0, <2>1 DEF Step, TypeOK
  <2> HIDE DEF h
  <2>4. Fits(h)
    BY <1>0, <2>1, <2>2, Zenon DEF Fits
  <2> QED  BY <2>1, <2>2, <2>3, <2>4, KeepsPermit, Zenon
<1> QED
  BY <1>1, <1>2, <1>3, <1>4, <1>5, <1>6, <1>7 DEF Session

LEMMA JoinCounts ==
    ASSUME TypeOK, Counts, NEW c \in Conn, Join(c), TypeOK'
    PROVE  Counts'
<1> DEFINE h == [conn[c] EXCEPT !.pc = "lane", !.up = TRUE, !.rx = TRUE, !.tx = TRUE]
           s == conn[c].sess
<1>1. /\ conn[c] \in ConnType /\ conn[c].pc = "join" /\ Fits(conn[c])
      /\ Step(c, h) /\ UNCHANGED sem /\ sess' = Touched(s, 1)
  BY DEF Join, TypeOK, Counts
<1>2. h.pc = "lane" /\ h.permit = conn[c].permit /\ h.sess = s
  BY <1>1 DEF ConnType
<1>3. h \in ConnType
  BY <1>1 DEF Step, TypeOK
<1>4. \A d \in Conn : conn'[d] = IF d = c THEN h ELSE conn[d]
  BY <1>1 DEF TypeOK, Step
<1> HIDE DEF h
<1>5. Fits(h) /\ s \in SessId
  BY <1>1, <1>2, Zenon DEF Fits
<1>6. sem' = sem + Bit(h.permit) - Bit(conn[c].permit)
  <2>1. sem \in Int /\ conn[c].permit \in BOOLEAN
    BY <1>1, Zenon DEF TypeOK, ConnType
  <2> QED  BY <1>1, <1>2, <2>1, PermitKept, Zenon
<1>7. sem' = Cardinality(Holders') /\ \A d \in Conn : Fits(conn'[d])
  BY <1>1, <1>3, <1>5, <1>6, MovesCount, Zenon DEF Moves
<1>8. ASSUME NEW x \in SessId PROVE sess'[x].active = Cardinality(Lanes(x)')
  <2>1. sess[x].active = Cardinality(Lanes(x)) /\ sess[x].active \in Int /\ sess[x] \in SessType
    BY Zenon DEF Counts, ActiveCountsLanes, Lanes, TypeOK, SessType
  <2>2. CASE x # s
    <3>1. Lanes(x)' = Lanes(x)
      BY <1>1, <1>2, <1>4, <2>2, Zenon DEF Lanes, InLane
    <3>2. sess'[x] = sess[x]
      BY <1>1, <2>2, Zenon DEF Touched, TypeOK
    <3> QED  BY <2>1, <3>1, <3>2, Zenon
  <2>3. CASE x = s
    <3>1. Lanes(x)' = Lanes(x) \cup {c} /\ c \notin Lanes(x)
      BY <1>1, <1>2, <1>4, <2>3 DEF Lanes, InLane
    <3>2. Lanes(x) \in SUBSET Conn
      BY DEF Lanes
    <3>3. Cardinality(Lanes(x)') = Cardinality(Lanes(x)) + 1
      BY <3>1, <3>2, ConnSubsets, FS_AddElement
    <3>4. sess'[x] = [sess[s] EXCEPT !.active = sess[s].active + 1, !.fresh = TRUE]
      BY <1>1, <1>5, <2>3, Zenon DEF Touched, TypeOK
    <3>5. sess'[x].active = sess[x].active + 1
      BY <2>1, <2>3, <3>4 DEF SessType
    <3> QED  BY <2>1, <3>3, <3>5, Zenon
  <2> QED  BY <2>2, <2>3, Zenon
<1>9. ActiveCountsLanes'
  BY <1>8, Zenon DEF ActiveCountsLanes, Lanes
<1> QED  BY <1>7, <1>9, Zenon DEF Counts, Fits

\* The deferred decrement; a session nothing refers to any more has no lane
\* left to count.
LEMMA LaneEndsCounts ==
    ASSUME TypeOK, Counts, NEW c \in Conn, LaneEnds(c), TypeOK'
    PROVE  Counts'
<1> DEFINE s == conn[c].sess
<1>1. /\ conn[c] \in ConnType /\ conn[c].pc = "lane" /\ Fits(conn[c]) /\ Return(c)
      /\ sess' = IF Referenced(s, c) THEN Touched(s, -1) ELSE [sess EXCEPT ![s] = NoSession]
  BY Zenon DEF LaneEnds, InLane, TypeOK, Counts
<1>2. NoConnection \in ConnType /\ NoConnection.pc = "idle" /\ NoConnection.permit = FALSE
  BY IdleTyped, Zenon DEF NoConnection
<1>3. \A d \in Conn : conn'[d] = IF d = c THEN NoConnection ELSE conn[d]
  BY <1>1, Zenon DEF Return, Step, TypeOK
<1>4. s \in SessId /\ conn[c].permit = FALSE /\ Fits(NoConnection)
  BY <1>1, <1>2, Zenon DEF Fits, ConnType
<1>5. sem' = sem + Bit(NoConnection.permit) - Bit(conn[c].permit)
  <2>1. sem \in Int /\ sem' = sem
    BY <1>1, <1>4, Zenon DEF Return, TypeOK
  <2> QED  BY <1>2, <1>4, <2>1, PermitKept, Zenon
<1>6. sem' = Cardinality(Holders') /\ \A d \in Conn : Fits(conn'[d])
  BY <1>1, <1>2, <1>4, <1>5, MovesCount, Zenon DEF Moves, Return
<1>7. ASSUME NEW x \in SessId PROVE sess'[x].active = Cardinality(Lanes(x)')
  <2>1. sess[x].active = Cardinality(Lanes(x)) /\ sess[x].active \in Int /\ sess[x] \in SessType
    BY Zenon DEF Counts, ActiveCountsLanes, Lanes, TypeOK, SessType
  <2>2. CASE x # s
    <3>1. Lanes(x)' = Lanes(x)
      BY <1>1, <1>2, <1>3, <2>2, Zenon DEF Lanes, InLane
    <3>2. sess'[x] = sess[x]
      BY <1>1, <2>2 DEF Touched, TypeOK
    <3> QED  BY <2>1, <3>1, <3>2, Zenon
  <2>3. CASE x = s /\ Referenced(s, c)
    <3>1. Lanes(x)' = Lanes(x) \ {c} /\ c \in Lanes(x)
      BY <1>1, <1>2, <1>3, <2>3 DEF Lanes, InLane
    <3>2. Lanes(x) \in SUBSET Conn
      BY DEF Lanes
    <3>3. Cardinality(Lanes(x)') = Cardinality(Lanes(x)) - 1
      BY <3>1, <3>2, ConnSubsets, FS_RemoveElement
    <3>4. sess'[x] = [sess[s] EXCEPT !.active = sess[s].active + (-1), !.fresh = TRUE]
      BY <1>1, <1>4, <2>3, Zenon DEF Touched, TypeOK
    <3>5. sess'[x].active = sess[x].active - 1
      BY <2>1, <2>3, <3>4, Zenon DEF SessType
    <3> QED  BY <2>1, <3>3, <3>5
  <2>4. CASE x = s /\ ~Referenced(s, c)
    <3>1. Lanes(x)' = {}
      BY <1>2, <1>3, <2>4 DEF Lanes, InLane, Referenced
    <3>2. sess'[x] = NoSession
      BY <1>1, <1>4, <2>4, Zenon DEF TypeOK
    <3> QED  BY <3>1, <3>2, FS_EmptySet DEF NoSession
  <2> QED  BY <2>2, <2>3, <2>4, Zenon
<1>8. ActiveCountsLanes'
  BY <1>7 DEF ActiveCountsLanes, Lanes
<1> QED  BY <1>6, <1>8 DEF Counts, Fits

LEMMA LaneCounts ==
    ASSUME TypeOK, Counts, NEW c \in Conn, Lane(c), TypeOK'
    PROVE  Counts'
<1>0. conn[c] \in ConnType /\ conn'[c] \in ConnType /\ Fits(conn[c])
  BY Zenon DEF TypeOK, Counts
<1>1. CASE Join(c)
  BY <1>1, JoinCounts
<1>2. CASE LaneEnds(c)
  BY <1>2, LaneEndsCounts
<1>3. CASE \/ PeerDrops(c) \/ WatcherCloses(c) \/ RxEnds(c) \/ RxFails(c)
           \/ TxEnds(c) \/ TxFails(c)
  <2>1. PICK h \in {[conn[c] EXCEPT !.up = FALSE], [conn[c] EXCEPT !.rx = FALSE],
                    [conn[c] EXCEPT !.tx = FALSE]} :
          Step(c, h) /\ UNCHANGED <<sess, sem>>
    BY <1>3, Zenon DEF PeerDrops, WatcherCloses, RxEnds, RxFails, TxEnds, TxFails
  <2>2. h.pc = conn[c].pc /\ h.permit = conn[c].permit /\ h.sess = conn[c].sess
    BY <1>0 DEF ConnType
  <2>3. h \in ConnType
    BY <1>0, <2>1 DEF Step, TypeOK
  <2>4. Fits(h)
    BY <1>0, <2>2, Zenon DEF Fits
  <2> QED  BY <2>1, <2>2, <2>3, <2>4, KeepsPermit, Zenon
<1> QED  BY <1>1, <1>2, <1>3 DEF Lane

-----------------------------------------------------------------------------
(* The collector, and the whole server *)

\* No connection moves, and no lane count changes.
LEMMA StillCounts ==
    ASSUME Counts, UNCHANGED <<conn, sem>>,
           \A s \in SessId : sess'[s].active = sess[s].active
    PROVE  Counts'
BY Zenon DEF Counts, Fits, Holders, ActiveCountsLanes, InLane

LEMMA CollectorCounts ==
    ASSUME TypeOK, Counts, Collector
    PROVE  Counts'
<1>1. \A s \in SessId : sess[s] \in SessType
  BY DEF TypeOK
<1>2. ASSUME NEW s \in SessId, Idles(s) PROVE Counts'
  <2>1. sess' = [sess EXCEPT ![s] = [sess[s] EXCEPT !.fresh = FALSE]] /\ UNCHANGED <<conn, sem>>
    BY <1>2 DEF Idles, TypeOK
  <2>2. \A x \in SessId : sess'[x].active = sess[x].active
    BY <1>1, <2>1 DEF TypeOK, SessType
  <2> QED  BY <2>1, <2>2, StillCounts
<1>3. ASSUME NEW s \in SessId, TearDownClose(s) PROVE Counts'
  <2>1. sess' = [sess EXCEPT ![s] = [sess[s] EXCEPT !.closed = TRUE]] /\ UNCHANGED <<conn, sem>>
    BY <1>3 DEF TearDownClose, TypeOK
  <2>2. \A x \in SessId : sess'[x].active = sess[x].active
    BY <1>1, <2>1 DEF TypeOK, SessType
  <2> QED  BY <2>1, <2>2, StillCounts
<1>4. CASE Collect \/ CollectAll \/ TearDownRelease
  <2>1. UNCHANGED <<conn, sem, sess>>
    BY <1>4 DEF Collect, CollectAll, TearDownRelease
  <2> QED  BY <2>1, StillCounts
<1>5. CASE TearDownSlot
  <2>1. UNCHANGED <<conn, sem>> /\ gc.cur \in SessId
    BY <1>5 DEF TearDownSlot, TypeOK, GCType
  <2>2. CASE \E c \in Conn : conn[c].sess = gc.cur
    <3>1. sess' = sess
      BY <1>5, <2>2 DEF TearDownSlot
    <3> QED  BY <2>1, <3>1, StillCounts
  <2>3. CASE ~\E c \in Conn : conn[c].sess = gc.cur
    <3>1. sess' = [sess EXCEPT ![gc.cur] = NoSession]
      BY <1>5, <2>3 DEF TearDownSlot
    <3>2. Lanes(gc.cur) = {}
      BY <2>3 DEF Lanes
    <3>3. sess[gc.cur].active = 0
      BY <2>1, <3>2, FS_EmptySet, Zenon DEF Counts, ActiveCountsLanes, Lanes
    <3>4. \A x \in SessId : sess'[x].active = sess[x].active
      BY <3>1, <3>3, Zenon DEF TypeOK, NoSession
    <3> QED  BY <2>1, <3>4, StillCounts
  <2> QED  BY <2>2, <2>3
<1> QED  BY <1>2, <1>3, <1>4, <1>5 DEF Collector

LEMMA CountsInit == Init => Counts
<1> SUFFICES ASSUME Init PROVE Counts
  OBVIOUS
<1>1. \A c \in Conn : conn[c] = NoConnection
  BY DEF Init
<1>2. NoConnection.pc = "idle" /\ NoConnection.permit = FALSE
  BY DEF NoConnection
<1>3. Holders = {} /\ \A s : Lanes(s) = {}
  BY <1>1, <1>2 DEF Holders, Lanes, InLane
<1>4. \A s \in SessId : sess[s].active = 0
  BY DEF Init, NoSession
<1>5. \A c \in Conn : Fits(conn[c])
  BY <1>1, <1>2, Zenon DEF Fits
<1>6. sem = 0
  BY DEF Init
<1> QED  BY <1>3, <1>4, <1>5, <1>6, FS_EmptySet, Zenon DEF Counts, ActiveCountsLanes, Lanes

LEMMA CountsStep == IInv /\ IInv' /\ Counts /\ [Next]_vars => Counts'
<1> SUFFICES ASSUME IInv, IInv', Counts, [Next]_vars PROVE Counts'
  OBVIOUS
<1>0. TypeOK /\ TypeOK' /\ KnownClient
  BY DEF IInv
<1>1. ASSUME NEW c \in Conn, Handshake(c) \/ Session(c) \/ Lane(c) PROVE Counts'
  BY <1>0, <1>1, HandshakeCounts, SessionCounts, LaneCounts
<1>2. CASE Collector
  BY <1>0, <1>2, CollectorCounts
<1>3. CASE (\E list \in UserLists : Reload(list)) \/ Cancel \/ UNCHANGED vars
  <2>1. UNCHANGED <<conn, sem, sess>>
    BY <1>3, Zenon DEF Reload, Cancel, vars
  <2> QED  BY <2>1, StillCounts
<1> QED  BY <1>1, <1>2, <1>3 DEF Next

\* Both counters, and where a connection has its permit and its session.
THEOREM ServerCounts == Spec => []Counts
BY ServerInvariant, CountsInit, CountsStep, PTL DEF Spec

\* The limiter's permits are those of connections that have not resolved their
\* handshake: none is lost or given back twice (releaseSlot's sync.Once).
THEOREM ServerPermits == Spec => []PermitsCountHandshakes
<1>1. Counts => PermitsCountHandshakes
  BY Zenon DEF Counts, PermitsCountHandshakes, Holders, Fits
<1> QED  BY <1>1, ServerCounts, PTL

\* session.active is the number of its running lanes, so collect judges a
\* session by the lanes it really has.
THEOREM ServerActive == Spec => []ActiveCountsLanes
<1>1. Counts => ActiveCountsLanes
  BY DEF Counts
<1> QED  BY <1>1, ServerCounts, PTL

-----------------------------------------------------------------------------
(***************************************************************************)
(* The slots.  A reload starts a database whose counts are all zero while  *)
(* the sessions go on, so the counts are those of a server whose users are *)
(* not reloaded.                                                           *)
(***************************************************************************)

\* The sessions that have taken a slot and not given it back.
Held == Tabled \cup gc.victims \cup ({gc.cur} \ {NoSess})

\* What the authorizer tells of a client: a user of the database, or nobody
\* when the database has no users.
Registered(n) == IF QuotaApplies THEN n \in Names /\ Known(db, n) ELSE n = NoUser

\* From the first message to acquireSession a connection's user is one that
\* AcquireSlot knows.
UserFits(h) ==
    /\ h.pc = "handshake" => h.db = db
    /\ h.pc \in {"assign", "acquire"} => Registered(h.user)

WithinQuota ==
    \A n \in Names : Known(db, n) /\ UserNamed(db, n).max > 0
        => slots[n] <= UserNamed(db, n).max

SlotInv ==
    /\ IsFiniteSet(Held)
    /\ \A c \in Conn : UserFits(conn[c])
    /\ \A s \in Held : Registered(sess[s].user)
    /\ SlotsCountSessions
    /\ WithinQuota

LEMMA HoldersHeld ==
    ASSUME SlotInv, NEW n
    PROVE  /\ SlotHolders(n) = {s \in Held : sess[s].user = n}
           /\ IsFiniteSet(SlotHolders(n)) /\ Cardinality(SlotHolders(n)) \in Nat
<1>1. SlotHolders(n) = {s \in Held : sess[s].user = n}
  BY Zenon DEF SlotHolders, Held
<1> QED  BY <1>1, FS_Subset, FS_CardinalityType, Zenon DEF SlotInv

\* A step that neither takes a slot nor gives one back.
LEMMA SlotsKept ==
    ASSUME SlotInv, UNCHANGED <<db, slots>>, Held' = Held,
           \A s \in Held : sess'[s].user = sess[s].user,
           \A c \in Conn : UserFits(conn[c])'
    PROVE  SlotInv'
<1>1. \A n : Registered(n)' = Registered(n)
  BY Zenon DEF Registered, QuotaApplies
<1>2. ASSUME NEW n PROVE SlotHolders(n)' = SlotHolders(n)
  BY Zenon DEF SlotHolders, Held
<1>3. SlotsCountSessions' /\ WithinQuota'
  BY <1>2, Zenon DEF SlotInv, SlotsCountSessions, WithinQuota
<1> QED  BY <1>1, <1>3, Zenon DEF SlotInv

\* A connection moves on; the tables and the collector stay.
LEMMA SlotsStep ==
    ASSUME TypeOK, SlotInv, NEW c \in Conn, NEW h, Step(c, h), UserFits(h),
           UNCHANGED <<db, slots, sessions, gc>>,
           \A s \in Held : sess'[s].user = sess[s].user
    PROVE  SlotInv'
<1>1. \A d \in Conn : conn'[d] = IF d = c THEN h ELSE conn[d]
  BY Zenon DEF TypeOK, Step
<1>2. \A d \in Conn : UserFits(conn[d])'
  BY <1>1, Zenon DEF SlotInv, UserFits, Registered, QuotaApplies
<1>3. Held' = Held
  BY Zenon DEF Held, Tabled
<1> QED  BY <1>2, <1>3, SlotsKept, Zenon

LEMMA IdleFits == UserFits(NoConnection)
BY Zenon DEF UserFits, NoConnection

\* The authorizer of handleConn and its assignFn see the same database.
LEMMA AuthorizedRegistered ==
    ASSUME NEW k, db \in DBType, AuthorizedName(db, PeerKey, k) # Unauthorized
    PROVE  Registered(AuthorizedName(db, PeerKey, k))
<1>1. \A u \in db.users : u.name \in Names
  BY Zenon DEF DBType, UserType
<1>2. CASE QuotaApplies
  <2>1. PICK u \in db.users : AuthorizedName(db, PeerKey, k) = u.name
    BY <1>2, Zenon DEF QuotaApplies, AuthorizedName
  <2> QED  BY <1>1, <1>2, <2>1, Zenon DEF Registered, Known
<1>3. CASE ~QuotaApplies
  BY <1>3, Zenon DEF QuotaApplies, AuthorizedName, Registered
<1> QED  BY <1>2, <1>3

LEMMA SlotsHandshake ==
    ASSUME TypeOK, SlotInv, NEW c \in Conn, Handshake(c)
    PROVE  SlotInv'
<1> USE DEF users, tables
<1>0. conn[c] \in ConnType /\ UserFits(conn[c]) /\ UserFits(NoConnection) /\ db \in DBType
  BY IdleFits DEF TypeOK, SlotInv
<1>1. UNCHANGED <<db, slots, sessions, gc, sess>>
  BY Zenon DEF Handshake, Accept, HandshakeFails, Refuse, Authorize, Assign, HandshakeOK,
               NoAssignment, WriteFails
<1>2. \A s \in Held : sess'[s].user = sess[s].user
  BY <1>1
<1>3. CASE Accept(c)
  <2> DEFINE h == [NoConnection EXCEPT !.pc = "handshake", !.permit = TRUE, !.db = db]
  <2>1. h.pc = "handshake" /\ h.db = db
    BY DEF NoConnection
  <2>2. Step(c, h)
    BY <1>3 DEF Accept
  <2> HIDE DEF h
  <2>3. UserFits(h)
    BY <2>1 DEF UserFits
  <2> QED  BY <1>1, <1>2, <2>2, <2>3, SlotsStep
<1>4. CASE HandshakeFails(c) \/ NoAssignment(c)
  <2>1. Step(c, NoConnection)
    BY <1>4, Zenon DEF HandshakeFails, NoAssignment, Return
  <2> QED  BY <1>0, <1>1, <1>2, <2>1, SlotsStep
<1>5. ASSUME NEW k \in Dials[c], Refuse(c, k) PROVE SlotInv'
  <2> DEFINE h == [conn[c] EXCEPT !.pc = "orphan", !.client = k, !.db = NilDB]
  <2>1. Step(c, h) /\ h.pc = "orphan"
    BY <1>0, <1>5, Zenon DEF Refuse, ConnType
  <2> HIDE DEF h
  <2>2. UserFits(h)
    BY <2>1 DEF UserFits
  <2> QED  BY <1>1, <1>2, <2>1, <2>2, SlotsStep
<1>6. ASSUME NEW k \in Dials[c], Authorize(c, k) PROVE SlotInv'
  <2> DEFINE u == AuthorizedName(conn[c].db, PeerKey, k)
             h == [conn[c] EXCEPT !.pc = "assign", !.client = k, !.user = u,
                                  !.db = db, !.todo = Family]
  <2>1. Step(c, h) /\ conn[c].pc = "handshake" /\ u # Unauthorized
    BY <1>6 DEF Authorize
  <2>2. h.pc = "assign" /\ h.user = u
    BY <1>0 DEF ConnType
  <2>3. conn[c].db = db
    BY <1>0, <2>1 DEF UserFits
  <2>4. Registered(u)
    BY <1>0, <2>1, <2>3, AuthorizedRegistered
  <2> HIDE DEF h, u
  <2>5. UserFits(h)
    BY <2>2, <2>4 DEF UserFits
  <2> QED  BY <1>1, <1>2, <2>1, <2>5, SlotsStep
<1>7. ASSUME NEW a \in Requests, Assign(c, a) PROVE SlotInv'
  <2>1. PICK asg, todo : Step(c, [conn[c] EXCEPT !.asg = asg, !.todo = todo])
    BY <1>0, <1>7, Zenon DEF Assign, ConnType
  <2> DEFINE h == [conn[c] EXCEPT !.asg = asg, !.todo = todo]
  <2>2. h.pc = conn[c].pc /\ h.user = conn[c].user /\ h.db = conn[c].db
    BY <1>0 DEF ConnType
  <2>3. Step(c, h)
    BY <2>1, Zenon
  <2> HIDE DEF h
  <2>4. UserFits(h)
    BY <1>0, <2>2, Zenon DEF UserFits
  <2> QED  BY <1>1, <1>2, <2>3, <2>4, SlotsStep
<1>8. CASE HandshakeOK(c)
  <2> DEFINE h == [conn[c] EXCEPT !.pc = "acquire", !.permit = FALSE, !.db = NilDB]
  <2>1. Step(c, h) /\ conn[c].pc = "assign"
    BY <1>8 DEF HandshakeOK
  <2>2. h.pc = "acquire" /\ h.user = conn[c].user
    BY <1>0 DEF ConnType
  <2> HIDE DEF h
  <2>3. UserFits(h)
    BY <1>0, <2>1, <2>2 DEF UserFits
  <2> QED  BY <1>1, <1>2, <2>1, <2>3, SlotsStep
<1>9. CASE WriteFails(c)
  <2> DEFINE h == [conn[c] EXCEPT !.pc = "orphan", !.db = NilDB]
  <2>1. Step(c, h) /\ h.pc = "orphan"
    BY <1>0, <1>9 DEF WriteFails, ConnType
  <2> HIDE DEF h
  <2>2. UserFits(h)
    BY <2>1 DEF UserFits
  <2> QED  BY <1>1, <1>2, <2>1, <2>2, SlotsStep
<1> QED
  BY <1>3, <1>4, <1>5, <1>6, <1>7, <1>8, <1>9, Zenon DEF Handshake

\* AcquireSlot: a session that is new takes one more slot of its user, within
\* the quota.
LEMMA SlotsAcquireNew ==
    ASSUME TypeOK, Ownership, KnownClient, SlotInv, NEW c \in Conn, AcquireNew(c)
    PROVE  SlotInv'
<1> DEFINE u == conn[c].user
<1>1. PICK s \in SessId :
        /\ sess[s] = NoSession
        /\ sess' = [sess EXCEPT ![s] = NewSession(conn[c])]
        /\ sessions' = [sessions EXCEPT ![conn[c].client] = s]
        /\ Step(c, [conn[c] EXCEPT !.pc = "claim", !.sess = s, !.todo = Assigned(conn[c].asg)])
  BY Zenon DEF AcquireNew
<1>2. /\ conn[c] \in ConnType /\ conn[c].pc = "acquire" /\ Registered(u) /\ Admitted(u)
      /\ ~Live(conn[c].client)
      /\ slots' = (IF QuotaApplies THEN AcquireSlot(slots, u) ELSE slots)
      /\ UNCHANGED <<db, gc>>
  BY Zenon DEF AcquireNew, TypeOK, SlotInv, UserFits
<1>3. \A d \in Conn : UserFits(conn[d])'
  <2> DEFINE h == [conn[c] EXCEPT !.pc = "claim", !.sess = s, !.todo = Assigned(conn[c].asg)]
  <2>1. h.pc = "claim"
    BY <1>2 DEF ConnType
  <2>2. \A d \in Conn : conn'[d] = IF d = c THEN h ELSE conn[d]
    BY <1>1, Zenon DEF TypeOK, Step
  <2> HIDE DEF h
  <2> QED  BY <1>2, <2>1, <2>2, Zenon DEF SlotInv, UserFits, Registered, QuotaApplies
<1>4. s \notin Held
  <2>1. sess[s].client = NoClient /\ NoClient \notin Client /\ s # NoSess
    BY <1>1, MultiClientAssumption DEF NoSession
  <2> QED  BY <2>1 DEF Held, Tabled, Ownership, Live
<1>5. Held' = Held \cup {s}
  <2>1. conn[c].client \in Client /\ sessions[conn[c].client] = NoSess /\ NoSess \notin SessId
    BY <1>2, MultiClientAssumption, Zenon DEF KnownClient, Live
  <2>2. Tabled' = Tabled \cup {s}
    BY <1>1, <2>1 DEF Tabled, TypeOK
  <2> QED  BY <1>2, <2>2, Zenon DEF Held
<1>6. /\ sess'[s].user = u
      /\ \A x \in Held : sess'[x] = sess[x]
  <2>1. Held \subseteq SessId
    BY Zenon DEF Held, Tabled, TypeOK, GCType
  <2> QED  BY <1>1, <1>4, <2>1 DEF TypeOK, NewSession
<1>7. \A n : Registered(n)' = Registered(n)
  BY <1>2, Zenon DEF Registered, QuotaApplies
<1>8. IsFiniteSet(Held') /\ \A x \in Held' : Registered(sess[x].user)'
  BY <1>2, <1>5, <1>6, <1>7, FS_AddElement, Zenon DEF SlotInv
<1>9. ASSUME NEW n \in Names
      PROVE  SlotHolders(n)' = IF n = u THEN SlotHolders(n) \cup {s} ELSE SlotHolders(n)
  <2>1. SlotHolders(n) = {x \in Held : sess[x].user = n}
    BY DEF SlotHolders, Held
  <2>2. SlotHolders(n)' = {x \in Held' : sess'[x].user = n}
    BY Zenon DEF SlotHolders, Held
  <2> QED  BY <1>4, <1>5, <1>6, <2>1, <2>2
<1>10. CASE QuotaApplies
  <2>1. u \in Names /\ slots' = [slots EXCEPT ![u] = slots[u] + 1] /\ slots \in [Names -> Int]
    BY <1>2, <1>10, Zenon DEF AcquireSlot, Registered, TypeOK
  <2>2. UserNamed(db, u).max > 0 => slots[u] < UserNamed(db, u).max
    BY <1>2, <1>10, Zenon DEF Admitted, CanAcquireSlot
  <2>3. ASSUME NEW n \in Names PROVE slots'[n] = Cardinality(SlotHolders(n)')
    <3>1. slots[n] = Cardinality(SlotHolders(n)) /\ s \notin SlotHolders(n)
      BY <1>4, HoldersHeld, Zenon DEF SlotInv, SlotsCountSessions
    <3>2. Cardinality(SlotHolders(n) \cup {s}) = Cardinality(SlotHolders(n)) + 1
      BY <3>1, HoldersHeld, FS_AddElement, Zenon
    <3> QED  BY <1>9, <2>1, <3>1, <3>2, Zenon
  <2>4. SlotsCountSessions'
    BY <2>3 DEF SlotsCountSessions
  <2>5. UserNamed(db, u).max \in Nat
    <3>1. UserNamed(db, u) \in db.users
      BY <1>2, <1>10 DEF Registered, Known, UserNamed
    <3> QED  BY <3>1, Zenon DEF TypeOK, DBType, UserType
  <2>6. WithinQuota'
    <3>1. WithinQuota /\ db' = db
      BY <1>2, Zenon DEF SlotInv
    <3>2. \A n \in Names : n # u => slots'[n] = slots[n]
      BY <2>1, Zenon
    <3>3. UserNamed(db, u).max > 0 => slots'[u] <= UserNamed(db, u).max
      <4> DEFINE m == UserNamed(db, u).max
      <4>1. slots'[u] = slots[u] + 1 /\ slots[u] \in Int
        BY <2>1, Zenon
      <4>2. m \in Nat /\ (m > 0 => slots[u] < m)
        BY <2>2, <2>5, Zenon
      <4> HIDE DEF m
      <4>3. m > 0 => slots'[u] <= m
        BY <4>1, <4>2
      <4> QED  BY <4>3, Zenon DEF m
    <3> QED  BY <3>1, <3>2, <3>3, Zenon DEF WithinQuota
  <2> QED  BY <1>3, <1>8, <2>4, <2>6 DEF SlotInv
<1>11. CASE ~QuotaApplies
  <2>1. u \notin Names /\ slots' = slots
    BY <1>2, <1>11, UserNames, Zenon DEF Registered
  <2>2. \A n \in Names : SlotHolders(n)' = SlotHolders(n)
    BY <1>9, <2>1, Zenon
  <2>3. SlotsCountSessions' /\ WithinQuota'
    BY <1>2, <2>1, <2>2, Zenon DEF SlotInv, SlotsCountSessions, WithinQuota
  <2> QED  BY <1>3, <1>8, <2>3, Zenon DEF SlotInv
<1> QED  BY <1>10, <1>11

LEMMA SlotsSession ==
    ASSUME TypeOK, Ownership, KnownClient, SlotInv, NEW c \in Conn, Session(c)
    PROVE  SlotInv'
<1> USE DEF users, tables
<1>0. conn[c] \in ConnType /\ UserFits(conn[c]) /\ UserFits(NoConnection)
  BY IdleFits DEF TypeOK, SlotInv
<1>1. CASE AcquireNew(c)
  BY <1>1, SlotsAcquireNew
<1>2. ASSUME NEW h, Step(c, h), UserFits(h), UNCHANGED <<db, slots, sessions, gc, sess>>
      PROVE  SlotInv'
  BY <1>2, SlotsStep, Zenon
<1>3. CASE OrphanLive(c) \/ ReleaseDone(c)
  BY <1>0, <1>2, <1>3, Zenon DEF OrphanLive, ReleaseDone, Return
<1>4. CASE OrphanLock(c) \/ AcquireRefused(c)
  <2> DEFINE h == [conn[c] EXCEPT !.pc = "release", !.todo = Family]
  <2>1. Step(c, h) /\ h.pc = "release" /\ UNCHANGED <<db, slots, sessions, gc, sess>>
    BY <1>0, <1>4, Zenon DEF OrphanLock, AcquireRefused, ConnType
  <2> HIDE DEF h
  <2> QED  BY <1>2, <2>1 DEF UserFits
<1>5. CASE ReleaseStep(c) \/ ClaimStep(c)
  <2>1. PICK todo : Step(c, [conn[c] EXCEPT !.todo = todo])
    BY <1>0, <1>5, Zenon DEF ReleaseStep, ClaimStep, ConnType
  <2> DEFINE h == [conn[c] EXCEPT !.todo = todo]
  <2>2. h.pc = conn[c].pc /\ h.user = conn[c].user /\ h.db = conn[c].db
    BY <1>0 DEF ConnType
  <2>3. Step(c, h) /\ UNCHANGED <<db, slots, sessions, gc, sess>>
    BY <1>5, <2>1, Zenon DEF ReleaseStep, ClaimStep
  <2> HIDE DEF h
  <2> QED  BY <1>0, <1>2, <2>2, <2>3, Zenon DEF UserFits
<1>6. CASE AcquireExisting(c)
  <2> DEFINE h == [conn[c] EXCEPT !.pc = "join", !.sess = sessions[conn[c].client]]
  <2>1. Step(c, h) /\ h.pc = "join" /\ UNCHANGED <<db, slots, sessions, gc, sess>>
    BY <1>0, <1>6 DEF AcquireExisting, ConnType
  <2> HIDE DEF h
  <2> QED  BY <1>2, <2>1, Zenon DEF UserFits
<1>7. CASE ClaimDone(c)
  <2> DEFINE h == [conn[c] EXCEPT !.pc = "join"]
  <2>1. Step(c, h) /\ h.pc = "join" /\ UNCHANGED <<db, slots, sessions, gc, sess>>
    BY <1>0, <1>7 DEF ClaimDone, ConnType
  <2> HIDE DEF h
  <2> QED  BY <1>2, <2>1 DEF UserFits
<1> QED
  BY <1>1, <1>3, <1>4, <1>5, <1>6, <1>7 DEF Session

LEMMA SlotsLane ==
    ASSUME TypeOK, SlotInv, NEW c \in Conn, Lane(c)
    PROVE  SlotInv'
<1> USE DEF users, tables
<1>0. conn[c] \in ConnType /\ UserFits(NoConnection) /\ Held \subseteq SessId
      /\ sess \in [SessId -> SessType]
  BY IdleFits, Zenon DEF TypeOK, Held, Tabled, GCType
<1>1. CASE Join(c)
  <2> DEFINE h == [conn[c] EXCEPT !.pc = "lane", !.up = TRUE, !.rx = TRUE, !.tx = TRUE]
  <2>1. Step(c, h) /\ h.pc = "lane" /\ UNCHANGED <<db, slots, sessions, gc>>
    BY <1>0, <1>1 DEF Join, ConnType
  <2>2. \A x \in SessId : sess'[x].user = sess[x].user
    BY <1>0, <1>1, Zenon DEF Join, Touched, SessType
  <2> HIDE DEF h
  <2> QED  BY <1>0, <2>1, <2>2, SlotsStep, Zenon DEF UserFits
<1>2. CASE LaneEnds(c)
  <2> DEFINE s == conn[c].sess
  <2>1. Step(c, NoConnection) /\ UNCHANGED <<db, slots, sessions, gc>>
    BY <1>2, Zenon DEF LaneEnds, Return
  <2>2. \A x \in Held : sess'[x].user = sess[x].user
    <3>1. CASE Referenced(s, c)
      BY <1>0, <1>2, <3>1, Zenon DEF LaneEnds, Touched, SessType
    <3>2. CASE ~Referenced(s, c)
      <4>1. \A x \in SessId : x # s => sess'[x] = sess[x]
        BY <1>0, <1>2, <3>2, Zenon DEF LaneEnds
      <4>2. s \notin Held
        BY <3>2, Zenon DEF Referenced, Held, Tabled
      <4> QED  BY <1>0, <4>1, <4>2, Zenon
    <3> QED  BY <3>1, <3>2, Zenon
  <2> QED  BY <1>0, <2>1, <2>2, SlotsStep, Zenon
<1>3. CASE \/ PeerDrops(c) \/ WatcherCloses(c) \/ RxEnds(c) \/ RxFails(c)
           \/ TxEnds(c) \/ TxFails(c)
  <2>1. PICK h \in {[conn[c] EXCEPT !.up = FALSE], [conn[c] EXCEPT !.rx = FALSE],
                    [conn[c] EXCEPT !.tx = FALSE]} :
          Step(c, h) /\ conn[c].pc = "lane" /\ UNCHANGED <<db, slots, sessions, gc, sess>>
    BY <1>3, Zenon DEF PeerDrops, WatcherCloses, RxEnds, RxFails, TxEnds, TxFails, InLane
  <2>2. h.pc = "lane"
    BY <1>0, <2>1, Zenon DEF ConnType
  <2> QED  BY <2>1, <2>2, SlotsStep DEF UserFits
<1> QED  BY <1>1, <1>2, <1>3, Zenon DEF Lane

\* ReleaseSlot: the user's count is not zero, and its database has it.
LEMMA SlotsTearDown ==
    ASSUME TypeOK, Ownership, SlotInv, TearDownSlot
    PROVE  SlotInv'
<1> DEFINE s == gc.cur
           u == sess[s].user
<1>1. /\ s \in SessId /\ s # NoSess /\ gc \in GCType
      /\ slots' = (IF u # NoUser THEN ReleaseSlot(db, slots, u) ELSE slots)
      /\ gc' = [gc EXCEPT !.cur = NoSess]
      /\ UNCHANGED <<db, sessions, conn>>
      /\ sess' = sess \/ sess' = [sess EXCEPT ![s] = NoSession]
  BY DEF TearDownSlot, TypeOK, GCType, tables
<1>2. s \in Held /\ Held \subseteq SessId
  BY <1>1 DEF Held, Tabled, GCType
<1>3. Held' = Held \ {s}
  <2>1. gc'.victims = gc.victims /\ gc'.cur = NoSess /\ Tabled' = Tabled
    BY <1>1 DEF GCType, Tabled
  <2>2. s \notin Tabled /\ s \notin gc.victims
    BY <1>1 DEF Ownership, Tabled
  <2> QED  BY <2>1, <2>2 DEF Held
<1>4. \A x \in Held' : sess'[x] = sess[x]
  BY <1>1, <1>2, <1>3 DEF TypeOK
<1>5. \A n : Registered(n)' = Registered(n)
  BY <1>1 DEF Registered, QuotaApplies
<1>6. /\ IsFiniteSet(Held') /\ \A x \in Held' : Registered(sess[x].user)'
      /\ \A c \in Conn : UserFits(conn[c])'
  BY <1>1, <1>3, <1>4, <1>5, FS_RemoveElement, Zenon DEF SlotInv, UserFits
<1>7. ASSUME NEW n \in Names
      PROVE  SlotHolders(n)' = IF n = u THEN SlotHolders(n) \ {s} ELSE SlotHolders(n)
  <2>1. SlotHolders(n) = {x \in Held : sess[x].user = n}
    BY Zenon DEF SlotHolders, Held
  <2>2. SlotHolders(n)' = {x \in Held' : sess'[x].user = n}
    BY Zenon DEF SlotHolders, Held
  <2> QED  BY <1>3, <1>4, <2>1, <2>2
<1>8. CASE u # NoUser
  <2>1. u \in Names /\ Known(db, u)
    BY <1>2, <1>8, Zenon DEF SlotInv, Registered
  <2>2. /\ s \in SlotHolders(u) /\ IsFiniteSet(SlotHolders(u))
        /\ Cardinality(SlotHolders(u)) \in Nat /\ slots[u] = Cardinality(SlotHolders(u))
    BY <1>2, <2>1, HoldersHeld, Zenon DEF SlotInv, SlotsCountSessions
  <2>3. /\ Cardinality(SlotHolders(u) \ {s}) = Cardinality(SlotHolders(u)) - 1
        /\ Cardinality(SlotHolders(u) \ {s}) \in Nat
    BY <2>2, FS_RemoveElement, FS_CardinalityType, Zenon
  <2>4. slots[u] > 0 /\ slots \in [Names -> Int]
    <3>1. slots \in [Names -> Int]
      BY Zenon DEF TypeOK
    <3> QED  BY <2>2, <2>3, <3>1
  <2>5. slots' = [slots EXCEPT ![u] = slots[u] - 1]
    BY <1>1, <1>8, <2>1, <2>4, Zenon DEF ReleaseSlot
  <2>6. SlotsCountSessions'
    <3>1. slots'[u] = slots[u] - 1 /\ \A n \in Names : n # u => slots'[n] = slots[n]
      BY <2>1, <2>4, <2>5, Zenon
    <3>2. ASSUME NEW n \in Names PROVE slots'[n] = Cardinality(SlotHolders(n)')
      <4>1. CASE n = u
        <5>1. SlotHolders(n)' = SlotHolders(n) \ {s}
          BY <1>7, <4>1, Zenon
        <5> QED  BY <2>2, <2>3, <3>1, <4>1, <5>1, Zenon
      <4>2. CASE n # u
        BY <1>7, <3>1, <4>2, Zenon DEF SlotInv, SlotsCountSessions
      <4> QED  BY <4>1, <4>2, Zenon
    <3> QED  BY <3>2, Zenon DEF SlotsCountSessions
  <2>7. \A n \in Names : slots'[n] <= slots[n] /\ slots'[n] \in Int /\ slots[n] \in Int
    <3>1. \A n \in Names : slots[n] \in Int /\ slots'[n] = IF n = u THEN slots[n] - 1 ELSE slots[n]
      BY <2>1, <2>4, <2>5, Zenon
    <3> QED  BY <3>1
  <2>8. WithinQuota'
    <3>1. \A n \in Names : Known(db, n) => UserNamed(db, n).max \in Nat
      <4>1. \A n \in Names : Known(db, n) => UserNamed(db, n) \in db.users
        BY DEF Known, UserNamed
      <4> QED  BY <4>1, Zenon DEF TypeOK, DBType, UserType
    <3>2. ASSUME NEW n \in Names, Known(db, n), UserNamed(db, n).max > 0
          PROVE  slots'[n] <= UserNamed(db, n).max
      <4> DEFINE m == UserNamed(db, n).max
      <4>1. slots[n] <= m /\ m \in Nat
        BY <3>1, <3>2, Zenon DEF SlotInv, WithinQuota
      <4>2. slots'[n] <= slots[n] /\ slots'[n] \in Int /\ slots[n] \in Int
        BY <2>7, Zenon
      <4> HIDE DEF m
      <4>3. slots'[n] <= m
        BY <4>1, <4>2
      <4> QED  BY <4>3, Zenon DEF m
    <3> QED  BY <1>1, <3>2, Zenon DEF WithinQuota
  <2> QED  BY <1>6, <2>6, <2>8, Zenon DEF SlotInv
<1>9. CASE u = NoUser
  <2>1. u \notin Names /\ slots' = slots
    BY <1>1, <1>9, UserNames, Zenon
  <2>2. SlotsCountSessions' /\ WithinQuota'
    BY <1>1, <1>7, <2>1, Zenon DEF SlotInv, SlotsCountSessions, WithinQuota
  <2> QED  BY <1>6, <2>2, Zenon DEF SlotInv
<1> QED  BY <1>8, <1>9

LEMMA SlotsCollector ==
    ASSUME TypeOK, Ownership, SlotInv, Collector
    PROVE  SlotInv'
<1> USE DEF users, tables
<1>0. /\ sess \in [SessId -> SessType] /\ gc \in GCType /\ Held \subseteq SessId
      /\ sessions \in [Client -> SessId \cup {NoSess}] /\ NoSess \notin SessId
      /\ \A c \in Conn : UserFits(conn[c])
  BY MultiClientAssumption, Zenon DEF TypeOK, Held, Tabled, GCType, SlotInv
<1>1. CASE TearDownSlot
  BY <1>1, SlotsTearDown
<1>2. ASSUME UNCHANGED <<db, slots, conn>>, Held' = Held,
             \A s \in Held : sess'[s].user = sess[s].user
      PROVE  SlotInv'
  <2>1. \A c \in Conn : UserFits(conn[c])'
    BY <1>0, <1>2, Zenon DEF UserFits, Registered, QuotaApplies
  <2> QED  BY <1>2, <2>1, SlotsKept, Zenon
<1>3. ASSUME NEW s \in SessId, Idles(s) PROVE SlotInv'
  <2>1. UNCHANGED <<db, slots, conn, sessions, gc>>
    BY <1>3 DEF Idles
  <2>2. \A x \in SessId : sess'[x].user = sess[x].user
    BY <1>0, <1>3, Zenon DEF Idles, SessType
  <2>3. Held' = Held
    BY <2>1, Zenon DEF Held, Tabled
  <2> QED  BY <1>0, <1>2, <2>1, <2>2, <2>3, Zenon
<1>4. ASSUME NEW s \in SessId, TearDownClose(s) PROVE SlotInv'
  <2>1. /\ UNCHANGED <<db, slots, conn, sessions>> /\ gc.cur = NoSess /\ s \in gc.victims
        /\ gc'.victims = gc.victims \ {s} /\ gc'.cur = s
    BY <1>0, <1>4 DEF TearDownClose, GCType
  <2>2. \A x \in SessId : sess'[x].user = sess[x].user
    BY <1>0, <1>4 DEF TearDownClose, SessType
  <2>3. Held' = Held
    BY <1>0, <2>1, Zenon DEF Held, Tabled
  <2> QED  BY <1>0, <1>2, <2>1, <2>2, <2>3, Zenon
<1>5. CASE Collect \/ CollectAll
  <2>1. /\ UNCHANGED <<db, slots, conn, sess>> /\ gc.victims = {} /\ gc.cur = NoSess
        /\ gc'.cur = NoSess
    BY <1>0, <1>5, Zenon DEF Collect, CollectAll, GCIdle, GCType
  <2>2. PICK S \in SUBSET Tabled :
          /\ \A k \in Client : sessions'[k] = IF sessions[k] \in S THEN NoSess ELSE sessions[k]
          /\ gc'.victims = S
    <3>1. CASE Collect
      <4>1. /\ \A k \in Client : sessions'[k] = IF sessions[k] \in Stale THEN NoSess ELSE sessions[k]
            /\ gc'.victims = Stale /\ Stale \in SUBSET Tabled
        BY <1>0, <3>1, Zenon DEF Collect, Untable, GCType, Stale
      <4> QED  BY <4>1, Zenon
    <3>2. CASE CollectAll
      <4>1. \A k \in Client : sessions[k] \in Tabled \/ sessions[k] = NoSess
        BY <1>0, Zenon DEF Tabled
      <4>2. \A k \in Client : sessions'[k] = IF sessions[k] \in Tabled THEN NoSess ELSE sessions[k]
        BY <3>2, <4>1 DEF CollectAll
      <4>3. gc'.victims = Tabled
        BY <1>0, <3>2, Zenon DEF CollectAll, GCType
      <4> QED  BY <4>2, <4>3, Zenon
    <3> QED  BY <1>5, <3>1, <3>2, Zenon
  <2>3. Tabled' = Tabled \ S
    BY <1>0, <2>2 DEF Tabled
  <2>4. Held' = Held
    BY <2>1, <2>2, <2>3, Zenon DEF Held
  <2> QED  BY <1>2, <2>1, <2>4, Zenon
<1>6. CASE TearDownRelease
  <2>1. UNCHANGED <<db, slots, conn, sessions, sess>> /\ gc'.victims = gc.victims /\ gc'.cur = gc.cur
    BY <1>0, <1>6, Zenon DEF TearDownRelease, GCType
  <2>2. Held' = Held
    BY <2>1, Zenon DEF Held, Tabled
  <2> QED  BY <1>2, <2>1, <2>2, Zenon
<1> QED  BY <1>1, <1>3, <1>4, <1>5, <1>6 DEF Collector

LEMMA SlotsInit == Init => SlotInv
<1> SUFFICES ASSUME Init PROVE SlotInv
  OBVIOUS
<1>1. Held = {}
  BY MultiClientAssumption, Zenon DEF Init, Held, Tabled
<1>2. \A n : SlotHolders(n) = {}
  BY <1>1, Zenon DEF SlotHolders, Held
<1>3. \A c \in Conn : UserFits(conn[c])
  BY Zenon DEF Init, UserFits, NoConnection
<1>4. SlotsCountSessions
  BY <1>2, FS_EmptySet, Zenon DEF Init, SlotsCountSessions
<1>5. WithinQuota
  <2>1. ASSUME NEW n \in Names, Known(db, n) PROVE slots[n] <= UserNamed(db, n).max
    <3> DEFINE m == UserNamed(db, n).max
    <3>1. UserNamed(db, n) \in db.users /\ db \in DBType
      BY <2>1, MultiClientAssumption, Zenon DEF Init, Known, UserNamed
    <3>2. m \in Nat /\ slots[n] = 0
      BY <3>1, Zenon DEF Init, DBType, UserType
    <3> HIDE DEF m
    <3>3. slots[n] <= m
      BY <3>2
    <3> QED  BY <3>3, Zenon DEF m
  <2> QED  BY <2>1, Zenon DEF WithinQuota
<1> QED  BY <1>1, <1>3, <1>4, <1>5, FS_EmptySet, Zenon DEF SlotInv

\* Every step but a reload keeps the counts.
LEMMA SlotsNext ==
    ASSUME IInv, SlotInv, [Next]_vars, [\A list \in UserLists : ~Reload(list)]_vars
    PROVE  SlotInv'
<1>0. TypeOK /\ Ownership /\ KnownClient
  BY DEF IInv
<1>1. ASSUME NEW c \in Conn, Handshake(c) \/ Session(c) \/ Lane(c) PROVE SlotInv'
  BY <1>0, <1>1, SlotsHandshake, SlotsSession, SlotsLane
<1>2. CASE Collector
  BY <1>0, <1>2, SlotsCollector
<1>3. CASE Cancel \/ UNCHANGED vars
  <2>1. UNCHANGED <<db, slots, conn, sessions, gc, sess>>
    BY <1>3, Zenon DEF Cancel, vars, users, tables
  <2>2. Held' = Held
    BY <2>1, Zenon DEF Held, Tabled
  <2>3. \A c \in Conn : UserFits(conn[c])'
    BY <2>1, Zenon DEF SlotInv, UserFits, Registered, QuotaApplies
  <2> QED  BY <2>1, <2>2, <2>3, SlotsKept, Zenon
<1> QED  BY <1>1, <1>2, <1>3 DEF Next

\* As long as the user list is not reloaded, a user's count is the number of
\* its sessions that have not been torn down: acquireSession takes one slot
\* for a new session and tearDown gives one back, whichever path ends it.
THEOREM ServerSlots ==
    Spec /\ [][\A list \in UserLists : ~Reload(list)]_vars => []SlotsCountSessions
<1>1. SlotInv => SlotsCountSessions
  BY Zenon DEF SlotInv
<1> QED  BY <1>1, SlotsInit, SlotsNext, ServerInvariant, PTL DEF Spec

\* ... and no user ever has more sessions than its quota.
THEOREM ServerQuota ==
    Spec /\ [][\A list \in UserLists : ~Reload(list)]_vars => []QuotaHolds
<1>1. SlotInv => QuotaHolds
  BY Zenon DEF SlotInv, SlotsCountSessions, WithinQuota, QuotaHolds
<1> QED  BY <1>1, SlotsInit, SlotsNext, ServerInvariant, PTL DEF Spec
=============================================================================
