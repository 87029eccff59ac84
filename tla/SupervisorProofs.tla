-------------------------- MODULE SupervisorProofs --------------------------
(***************************************************************************)
(* Proofs about the supervisors, for any numbers of lanes on both sides,   *)
(* any number of connections and any number of faults: every open end of a *)
(* connection has exactly one owner.  The count of owners is not inductive *)
(* by itself.  IInv says where connections can be (Placed), that the       *)
(* places of one side never share one (Apart, the listener's queue in the  *)
(* kernel included) and that an open end is in some place (Owned).         *)
(***************************************************************************)
EXTENDS Supervisor, FiniteSetTheorems, TLAPS

\* A supervisor and the accept loop have a connection exactly while they work
\* on it.
Placed ==
    /\ \A s \in Sup : IF sup[s].pc \in {"handshake", "lane"}
                      THEN sup[s].c \in Conn ELSE sup[s].c = NoConn
    /\ IF acc.pc \in {"handshake", "put"} THEN acc.c \in Conn ELSE acc.c = NoConn

\* No connection is twice in a queue.
Distinct(q) == \A i, j \in 1..Len(q) : q[i] = q[j] => i = j

\* No connection is in two hands of one side: not with two of its lanes, ...
LanesApart ==
    \A s, t \in Sup : s # t /\ s[1] = t[1] /\ sup[s].c # NoConn => sup[s].c # sup[t].c

\* ... not twice in the server's queues, ...
QueuesApart ==
    /\ Distinct(ready) /\ Distinct(backlog)
    /\ Queued(ready) \cap Queued(backlog) = {}

\* ... and not with the accept loop or a lane as well as in a queue, or with both.
HandsApart ==
    /\ acc.c \notin Queued(ready) \cup Queued(backlog)
    /\ \A s \in Server : /\ sup[s].c \notin Queued(ready) \cup Queued(backlog)
                         /\ acc.c # NoConn => sup[s].c # acc.c

Apart == LanesApart /\ QueuesApart /\ HandsApart

\* Every open end is in some hand.
Owned ==
    \A c \in Conn :
      /\ sock[c].srv = "open" => acc.c = c \/ c \in Queued(ready) \/ \E s \in Server : sup[s].c = c
      /\ sock[c].cli = "open" => \E s \in Client : sup[s].c = c

\* The inductive invariant.
IInv == TypeOK /\ Placed /\ Apart /\ Owned

-----------------------------------------------------------------------------
\* The ends of a connection (TypeOK).
SockType == [cli : {"none", "open", "closed"}, srv : {"none", "open", "closed"},
             reply : BOOLEAN, up : BOOLEAN]

\* Closing the client's end leaves the server's end and other connections alone.
LEMMA CloseClient ==
    ASSUME sock \in [Conn -> SockType], NEW c \in Conn, Close(c, "cli")
    PROVE  /\ sock' \in [Conn -> SockType]
           /\ sock'[c].cli = "closed" /\ sock'[c].srv = sock[c].srv
           /\ \A d \in Conn : d # c => sock'[d] = sock[d]
<1>1. Peer("cli") = "srv"
  BY DEF Peer
<1>2. sock' = [sock EXCEPT ![c] = IF sock[c].srv = "closed" THEN Gone
                                  ELSE [sock[c] EXCEPT !.cli = "closed"]]
  BY <1>1, Zenon DEF Close
<1>3. Gone \in SockType /\ Gone.cli = "closed" /\ Gone.srv = "closed"
  BY DEF Gone, SockType
<1>4. sock[c] \in SockType
  OBVIOUS
<1>5. LET r == [sock[c] EXCEPT !.cli = "closed"]
      IN  r \in SockType /\ r.cli = "closed" /\ r.srv = sock[c].srv
  BY <1>4 DEF SockType
<1> QED  BY <1>2, <1>3, <1>5

\* Closing the server's end leaves the client's end and other connections alone.
LEMMA CloseServer ==
    ASSUME sock \in [Conn -> SockType], NEW c \in Conn, Close(c, "srv")
    PROVE  /\ sock' \in [Conn -> SockType]
           /\ sock'[c].srv = "closed" /\ sock'[c].cli = sock[c].cli
           /\ \A d \in Conn : d # c => sock'[d] = sock[d]
<1>1. Peer("srv") = "cli"
  BY DEF Peer
<1>2. sock' = [sock EXCEPT ![c] = IF sock[c].cli = "closed" THEN Gone
                                  ELSE [sock[c] EXCEPT !.srv = "closed"]]
  BY <1>1, Zenon DEF Close
<1>3. Gone \in SockType /\ Gone.cli = "closed" /\ Gone.srv = "closed"
  BY DEF Gone, SockType
<1>4. sock[c] \in SockType
  OBVIOUS
<1>5. LET r == [sock[c] EXCEPT !.srv = "closed"]
      IN  r \in SockType /\ r.srv = "closed" /\ r.cli = sock[c].cli
  BY <1>4 DEF SockType
<1> QED  BY <1>2, <1>3, <1>5

\* A lane's supervisor is on one side.
LEMMA Sides ==
    /\ \A s \in Client : s \in Sup /\ s[1] = "cli" /\ s \notin Server
    /\ \A s \in Server : s \in Sup /\ s[1] = "srv" /\ s \notin Client
    /\ \A s \in Sup : s \in Client \/ s \in Server
BY DEF Sup, Client, Server

\* What a queue holds after a connection is added at its end.
LEMMA Appended ==
    ASSUME NEW q \in Seq(Conn), NEW c \in Conn
    PROVE  /\ Append(q, c) \in Seq(Conn)
           /\ Queued(Append(q, c)) = Queued(q) \cup {c}
           /\ Distinct(q) /\ c \notin Queued(q) => Distinct(Append(q, c))
<1> DEFINE r == Append(q, c)
<1>1. /\ r \in Seq(Conn) /\ Len(r) = Len(q) + 1 /\ Len(q) \in Nat
      /\ r[Len(q) + 1] = c /\ \A i \in 1..Len(q) : r[i] = q[i]
  OBVIOUS
<1>2. \A i \in 1..Len(r) : i \in 1..Len(q) \/ i = Len(q) + 1
  BY <1>1
<1>3. \A i \in 1..Len(q) : i \in 1..Len(r)
  BY <1>1
<1>4. Len(q) + 1 \in 1..Len(r)
  BY <1>1
<1> HIDE DEF r
<1>5. Queued(r) = Queued(q) \cup {c}
  BY <1>1, <1>2, <1>3, <1>4 DEF Queued
<1>6. Distinct(q) /\ c \notin Queued(q) => Distinct(r)
  BY <1>1, <1>2 DEF Distinct, Queued
<1> QED  BY <1>1, <1>5, <1>6 DEF r

\* What a queue holds after a connection is taken from its front.
LEMMA Taken ==
    ASSUME NEW q \in Seq(Conn), q # <<>>
    PROVE  /\ Head(q) \in Conn /\ Tail(q) \in Seq(Conn)
           /\ Queued(q) = Queued(Tail(q)) \cup {Head(q)}
           /\ Distinct(q) => Distinct(Tail(q)) /\ Head(q) \notin Queued(Tail(q))
<1> DEFINE r == Tail(q)
<1>1. /\ r \in Seq(Conn) /\ Len(r) = Len(q) - 1 /\ Len(q) \in Nat /\ Len(q) >= 1
      /\ Head(q) = q[1] /\ \A i \in 1..Len(r) : r[i] = q[i + 1]
  OBVIOUS
<1>2. Head(q) \in Conn
  BY <1>1
<1>3. \A i \in 1..Len(r) : i + 1 \in 1..Len(q) /\ i + 1 # 1
  BY <1>1
<1>4. \A i \in 1..Len(q) : i = 1 \/ (i - 1 \in 1..Len(r) /\ q[i] = r[i - 1])
  <2> SUFFICES ASSUME NEW i \in 1..Len(q), i # 1
               PROVE  i - 1 \in 1..Len(r) /\ q[i] = r[i - 1]
    OBVIOUS
  <2>1. i - 1 \in 1..Len(r) /\ (i - 1) + 1 = i
    BY <1>1
  <2> QED  BY <1>1, <2>1
<1>5. 1 \in 1..Len(q)
  BY <1>1
<1> HIDE DEF r
<1>6. Queued(q) = Queued(r) \cup {Head(q)}
  <2>1. \A x \in Queued(q) : x \in Queued(r) \cup {Head(q)}
    <3>1. ASSUME NEW k \in 1..Len(q) PROVE q[k] \in Queued(r) \cup {Head(q)}
      <4>1. CASE k = 1
        BY <1>1, <4>1, Zenon
      <4>2. CASE k - 1 \in 1..Len(r) /\ q[k] = r[k - 1]
        BY <4>2, Zenon DEF Queued
      <4> QED  BY <1>4, <4>1, <4>2, Zenon
    <3> QED  BY <3>1, Zenon DEF Queued
  <2>2. \A x \in Queued(r) : x \in Queued(q)
    BY <1>1, <1>3, Zenon DEF Queued
  <2>3. Head(q) \in Queued(q)
    BY <1>1, <1>5 DEF Queued
  <2> QED  BY <2>1, <2>2, <2>3
<1>7. Distinct(q) => Head(q) \notin Queued(r)
  BY <1>1, <1>3, <1>5 DEF Distinct, Queued
<1>8. Distinct(q) => Distinct(r)
  <2> SUFFICES ASSUME Distinct(q), NEW i \in 1..Len(r), NEW j \in 1..Len(r), r[i] = r[j]
               PROVE  i = j
    BY DEF Distinct
  <2>1. i + 1 = j + 1
    BY <1>1, <1>3, Zenon DEF Distinct
  <2> QED  BY <2>1
<1> QED  BY <1>1, <1>2, <1>6, <1>7, <1>8 DEF r

\* TypeOK, with the type of a connection named.
LEMMA TypeSock == TypeOK <=>
    /\ keyed \in BOOLEAN
    /\ sup \in [Sup -> SupType]
    /\ acc \in [pc : {"accept", "sleep", "handshake", "put", "done"}, c : Conn \cup {NoConn}]
    /\ ready \in Seq(Conn) /\ backlog \in Seq(Conn)
    /\ sock \in [Conn -> SockType]
    /\ cancelled \subseteq Side
    /\ assigned \in 0..1
    /\ faults \in 0..MaxFaults
BY DEF TypeOK, SockType

\* Set changes one supervisor.
LEMMA SetOne ==
    ASSUME sup \in [Sup -> SupType], NEW s \in Sup, NEW r \in SupType, Set(s, r)
    PROVE  /\ sup' \in [Sup -> SupType] /\ sup'[s] = r
           /\ \A t \in Sup : t # s => sup'[t] = sup[t]
BY DEF Set

\* Retry leaves the supervisor without a connection.
LEMMA RetrySets ==
    ASSUME sup \in [Sup -> SupType], NEW s \in Sup, Retry(s)
    PROVE  /\ sup' \in [Sup -> SupType]
           /\ sup'[s].pc \in {"done", "sleep"} /\ sup'[s].c = NoConn
           /\ \A t \in Sup : t # s => sup'[t] = sup[t]
<1> DEFINE r == [sup[s] EXCEPT !.pc = IF s[1] \in cancelled THEN "done" ELSE "sleep",
                               !.c = NoConn]
<1>1. sup[s] \in SupType
  OBVIOUS
<1>2. r \in SupType /\ r.pc \in {"done", "sleep"} /\ r.c = NoConn
  BY <1>1, Zenon DEF SupType
<1>3. Set(s, r)
  BY DEF Retry
<1> HIDE DEF r
<1> QED  BY <1>2, <1>3, SetOne

\* Up gives the supervisor its connection, and calls OnAssigned at most once.
LEMMA UpSets ==
    ASSUME sup \in [Sup -> SupType], assigned \in 0..1,
           NEW s \in Sup, NEW c \in Conn, Up(s, c)
    PROVE  /\ sup' \in [Sup -> SupType] /\ assigned' \in 0..1
           /\ sup'[s].pc = "lane" /\ sup'[s].c = c
           /\ \A t \in Sup : t # s => sup'[t] = sup[t]
<1> DEFINE news == s \in Client /\ Assigns /\ keyed /\ ~sup[s].notified
           r == [sup[s] EXCEPT !.pc = "lane", !.c = c, !.backoff = 0,
                               !.notified = @ \/ news, !.rx = TRUE, !.tx = TRUE]
<1>1. sup[s] \in SupType
  OBVIOUS
<1>2. 0 \in 0..BackoffMax
  BY SupervisorAssumption
<1>3. (sup[s].notified \/ news) \in BOOLEAN
  OBVIOUS
<1>4. r \in SupType /\ r.pc = "lane" /\ r.c = c
  BY <1>1, <1>2, <1>3, Zenon DEF SupType
<1>5. Set(s, r) /\ assigned' = IF news /\ assigned = 0 THEN 1 ELSE assigned
  BY DEF Up
<1> HIDE DEF r, news
<1> QED  BY <1>4, <1>5, SetOne

\* A queue holds connections.
LEMMA QueuedConns == \A q \in Seq(Conn) : Queued(q) \subseteq Conn
BY DEF Queued

\* A step in which no connection changes hands.
Kept ==
    /\ \A s \in Sup : sup'[s].c = sup[s].c
    /\ acc'.c = acc.c /\ ready' = ready /\ backlog' = backlog
    /\ \A c \in Conn : /\ sock'[c].srv = "open" => sock[c].srv = "open"
                       /\ sock'[c].cli = "open" => sock[c].cli = "open"

\* Such a step keeps ownership: ends are only closed.
LEMMA KeptOwned ==
    ASSUME Apart, Owned, Kept
    PROVE  Apart' /\ Owned'
<1>1. /\ Queued(ready)' = Queued(ready) /\ Queued(backlog)' = Queued(backlog)
      /\ Distinct(ready)' = Distinct(ready) /\ Distinct(backlog)' = Distinct(backlog)
  BY DEF Kept, Queued, Distinct
<1>2. LanesApart'
  BY DEF Kept, Apart, LanesApart
<1>3. QueuesApart'
  BY <1>1 DEF Apart, QueuesApart
<1>4. HandsApart'
  BY <1>1, Sides DEF Kept, Apart, HandsApart
<1>5. Owned'
  BY <1>1, Sides DEF Kept, Owned
<1> QED  BY <1>2, <1>3, <1>4, <1>5 DEF Apart

\* A step that ends one hand's work on its connection and closes its end.
LEMMA LaneLets ==
    ASSUME TypeOK, Apart, Owned, NEW s \in Sup, sup[s].c \in Conn,
           sup'[s].c = NoConn, \A t \in Sup : t # s => sup'[t] = sup[t],
           Close(sup[s].c, s[1]), UNCHANGED <<acc, ready, backlog>>
    PROVE  sock' \in [Conn -> SockType] /\ Apart' /\ Owned'
<1>1. sock \in [Conn -> SockType]
  BY TypeSock
<1>2. /\ Queued(ready)' = Queued(ready) /\ Queued(backlog)' = Queued(backlog)
      /\ Distinct(ready)' = Distinct(ready) /\ Distinct(backlog)' = Distinct(backlog)
  BY DEF Queued, Distinct
<1>3. NoConn \notin Queued(ready) \cup Queued(backlog)
  BY SupervisorAssumption, TypeSock, QueuedConns
<1>4. LanesApart'
  BY DEF Apart, LanesApart
<1>5. QueuesApart'
  BY <1>2 DEF Apart, QueuesApart
<1>6. HandsApart'
  BY <1>2, <1>3, Sides DEF Apart, HandsApart
<1>7. CASE s \in Client
  <2>1. /\ sock' \in [Conn -> SockType]
        /\ sock'[sup[s].c].cli = "closed" /\ sock'[sup[s].c].srv = sock[sup[s].c].srv
        /\ \A d \in Conn : d # sup[s].c => sock'[d] = sock[d]
    BY <1>1, <1>7, Sides, CloseClient
  <2>2. Owned'
    BY <1>2, <1>7, <2>1, Sides DEF Owned
  <2> QED  BY <1>4, <1>5, <1>6, <2>1, <2>2 DEF Apart
<1>8. CASE s \in Server
  <2>1. /\ sock' \in [Conn -> SockType]
        /\ sock'[sup[s].c].srv = "closed" /\ sock'[sup[s].c].cli = sock[sup[s].c].cli
        /\ \A d \in Conn : d # sup[s].c => sock'[d] = sock[d]
    BY <1>1, <1>8, Sides, CloseServer
  <2>2. Owned'
    BY <1>2, <1>8, <2>1, Sides DEF Owned
  <2> QED  BY <1>4, <1>5, <1>6, <2>1, <2>2 DEF Apart
<1> QED  BY <1>7, <1>8, Sides

\* The accept loop closes the server's end of its connection and lets it go.
LEMMA AcceptLets ==
    ASSUME TypeOK, Apart, Owned, acc.c \in Conn, acc'.c = NoConn,
           Close(acc.c, "srv"), UNCHANGED <<sup, ready, backlog>>
    PROVE  sock' \in [Conn -> SockType] /\ Apart' /\ Owned'
<1>1. sock \in [Conn -> SockType]
  BY TypeSock
<1>2. /\ Queued(ready)' = Queued(ready) /\ Queued(backlog)' = Queued(backlog)
      /\ Distinct(ready)' = Distinct(ready) /\ Distinct(backlog)' = Distinct(backlog)
  BY DEF Queued, Distinct
<1>3. NoConn \notin Queued(ready) \cup Queued(backlog)
  BY SupervisorAssumption, TypeSock, QueuedConns
<1>4. LanesApart'
  BY DEF Apart, LanesApart
<1>5. QueuesApart'
  BY <1>2 DEF Apart, QueuesApart
<1>6. HandsApart'
  BY <1>2, <1>3 DEF Apart, HandsApart
<1>7. /\ sock' \in [Conn -> SockType]
      /\ sock'[acc.c].srv = "closed" /\ sock'[acc.c].cli = sock[acc.c].cli
      /\ \A d \in Conn : d # acc.c => sock'[d] = sock[d]
  BY <1>1, CloseServer
<1>8. Owned'
  BY <1>2, <1>7 DEF Owned
<1> QED  BY <1>4, <1>5, <1>6, <1>7, <1>8 DEF Apart

-----------------------------------------------------------------------------
\* A dialled connection is one that nobody refers to; it is the client's lane's,
\* and waits in the kernel.
LEMMA DialKeeps ==
    ASSUME IInv, NEW s \in Client, Dial(s)
    PROVE  IInv'
<1>1. PICK c \in Conn : c = CHOOSE d \in Conn : Free(d)
  BY DEF Dial
<1>2. Free(c)
  BY <1>1 DEF Dial
<1>3. /\ s \in Sup /\ s[1] = "cli" /\ sock' = [sock EXCEPT ![c] = Dialled]
      /\ backlog' = Append(backlog, c)
      /\ \/ Set(s, [sup[s] EXCEPT !.pc = "handshake", !.c = c]) /\ UNCHANGED assigned
         \/ Up(s, c)
      /\ UNCHANGED <<keyed, acc, ready, cancelled, faults>>
      /\ sup[s].pc = "acquire"
  BY <1>1, Sides DEF Dial, NoFault
<1>4. /\ sup \in [Sup -> SupType] /\ sock \in [Conn -> SockType] /\ assigned \in 0..1
      /\ ready \in Seq(Conn) /\ backlog \in Seq(Conn)
  BY TypeSock DEF IInv
<1>5. Dialled \in SockType /\ Dialled.srv = "none"
  BY Zenon DEF Dialled, Gone, SockType
<1>6. sock' \in [Conn -> SockType] /\ sock'[c].srv = "none" /\ \A d \in Conn : d # c => sock'[d] = sock[d]
  BY <1>3, <1>4, <1>5
<1>7. /\ sup' \in [Sup -> SupType] /\ assigned' \in 0..1
      /\ sup'[s].pc \in {"handshake", "lane"} /\ sup'[s].c = c
      /\ \A t \in Sup : t # s => sup'[t] = sup[t]
  <2>1. CASE Up(s, c)
    BY <1>3, <1>4, <2>1, UpSets
  <2>2. CASE Set(s, [sup[s] EXCEPT !.pc = "handshake", !.c = c]) /\ UNCHANGED assigned
    <3> DEFINE r == [sup[s] EXCEPT !.pc = "handshake", !.c = c]
    <3>1. r \in SupType /\ r.pc = "handshake" /\ r.c = c
      BY <1>3, <1>4, Zenon DEF SupType
    <3> HIDE DEF r
    <3> QED  BY <1>3, <1>4, <2>2, <3>1, SetOne, Zenon DEF r
  <2> QED  BY <1>3, <2>1, <2>2
<1>8. /\ backlog' \in Seq(Conn) /\ Queued(backlog)' = Queued(backlog) \cup {c}
      /\ Distinct(backlog) /\ c \notin Queued(backlog) => Distinct(backlog)'
  BY <1>3, <1>4, Appended DEF Queued, Distinct
<1>9. Queued(ready)' = Queued(ready) /\ Distinct(ready)' = Distinct(ready)
  BY <1>3 DEF Queued, Distinct
<1>10. TypeOK'
  BY <1>3, <1>6, <1>7, <1>8, TypeSock DEF IInv, TypeOK, SockType
<1>11. Placed'
  BY <1>3, <1>7 DEF IInv, Placed
<1>12. LanesApart'
  BY <1>2, <1>3, <1>7 DEF IInv, Apart, LanesApart, Free
<1>13. QueuesApart'
  BY <1>2, <1>8, <1>9 DEF IInv, Apart, QueuesApart, Free
<1>14. HandsApart'
  BY <1>2, <1>3, <1>7, <1>8, <1>9, Sides, Zenon DEF IInv, Apart, HandsApart, Free
<1>15. Owned'
  <2>1. sup[s].c = NoConn /\ NoConn \notin Conn
    BY <1>3, SupervisorAssumption DEF IInv, Placed
  <2> QED  BY <1>2, <1>3, <1>6, <1>7, <1>9, <2>1, Sides DEF IInv, Owned, Free
<1> QED  BY <1>10, <1>11, <1>12, <1>13, <1>14, <1>15 DEF IInv, Apart

\* Faults are counted up to their bound.
LEMMA FaultType ==
    ASSUME faults \in 0..MaxFaults, Fault \/ NoFault
    PROVE  faults' \in 0..MaxFaults
BY SupervisorAssumption DEF Fault, NoFault

\* The other ends of clientSource: a failed dial or handshake, and a reply.
LEMMA ClientKeeps ==
    ASSUME IInv, NEW s \in Client, DialFails(s) \/ InitiateOK(s) \/ InitiateFails(s)
    PROVE  IInv'
<1>1. s \in Sup /\ s[1] = "cli"
  BY Sides
<1>2. /\ sup \in [Sup -> SupType] /\ sock \in [Conn -> SockType] /\ assigned \in 0..1
      /\ faults \in 0..MaxFaults
  BY TypeSock DEF IInv
<1>3. CASE DialFails(s)
  <2>1. /\ sup' \in [Sup -> SupType]
        /\ sup'[s].pc \in {"done", "sleep"} /\ sup'[s].c = NoConn
        /\ \A t \in Sup : t # s => sup'[t] = sup[t]
    BY <1>1, <1>2, <1>3, RetrySets DEF DialFails
  <2>2. sup[s].c = NoConn
    BY <1>1, <1>3 DEF IInv, Placed, DialFails
  <2>3. faults' \in 0..MaxFaults
    BY <1>2, <1>3, FaultType DEF DialFails
  <2>4. TypeOK'
    BY <1>3, <2>1, <2>3 DEF IInv, TypeOK, DialFails
  <2>5. Placed'
    BY <1>3, <2>1 DEF IInv, Placed, DialFails
  <2>6. Kept
    BY <1>3, <2>1, <2>2 DEF Kept, DialFails
  <2> QED  BY <2>4, <2>5, <2>6, KeptOwned DEF IInv
<1>4. CASE InitiateOK(s)
  <2>1. sup[s].c \in Conn
    BY <1>1, <1>4 DEF IInv, Placed, InitiateOK
  <2>2. /\ sup' \in [Sup -> SupType] /\ assigned' \in 0..1
        /\ sup'[s].pc = "lane" /\ sup'[s].c = sup[s].c
        /\ \A t \in Sup : t # s => sup'[t] = sup[t]
    BY <1>1, <1>2, <1>4, <2>1, UpSets DEF InitiateOK
  <2>3. TypeOK'
    BY <1>4, <2>2 DEF IInv, TypeOK, InitiateOK, NoFault
  <2>4. Placed'
    BY <1>4, <2>1, <2>2 DEF IInv, Placed, InitiateOK
  <2>5. Kept
    BY <1>4, <2>2 DEF Kept, InitiateOK
  <2> QED  BY <2>3, <2>4, <2>5, KeptOwned DEF IInv
<1>5. CASE InitiateFails(s)
  <2>1. sup[s].c \in Conn
    BY <1>1, <1>5, Zenon DEF IInv, Placed, InitiateFails
  <2>2. /\ sup' \in [Sup -> SupType]
        /\ sup'[s].pc \in {"done", "sleep"} /\ sup'[s].c = NoConn
        /\ \A t \in Sup : t # s => sup'[t] = sup[t]
    BY <1>1, <1>2, <1>5, RetrySets DEF InitiateFails
  <2>3. faults' \in 0..MaxFaults
    BY <1>2, <1>5, FaultType DEF InitiateFails
  <2>4. sock' \in [Conn -> SockType] /\ Apart' /\ Owned'
    BY <1>1, <1>5, <2>1, <2>2, LaneLets, Zenon DEF IInv, InitiateFails
  <2>5. TypeOK'
    BY <1>5, <2>2, <2>3, <2>4 DEF IInv, TypeOK, SockType, InitiateFails
  <2>6. Placed'
    BY <1>5, <2>2 DEF IInv, Placed, InitiateFails
  <2> QED  BY <2>4, <2>5, <2>6 DEF IInv
<1> QED  BY <1>3, <1>4, <1>5

\* sleepJitter does not touch connections.
LEMMA SleepKeeps ==
    ASSUME IInv, NEW s \in Client, Sleep(s)
    PROVE  IInv'
<1>1. s \in Sup
  BY Sides
<1>2. sup[s] \in SupType /\ sup \in [Sup -> SupType]
  BY <1>1, TypeSock DEF IInv
<1>3. nextBackoff(sup[s].backoff) \in 0..BackoffMax
  BY <1>2, SupervisorAssumption DEF SupType, nextBackoff
<1>4. PICK r \in SupType : r.pc \in {"acquire", "done"} /\ r.c = sup[s].c /\ Set(s, r)
  <2>1. LET r == [sup[s] EXCEPT !.pc = "acquire", !.backoff = nextBackoff(@)]
        IN  r \in SupType /\ r.pc = "acquire" /\ r.c = sup[s].c
    BY <1>2, <1>3, Zenon DEF SupType
  <2>2. LET r == [sup[s] EXCEPT !.pc = "done"]
        IN  r \in SupType /\ r.pc = "done" /\ r.c = sup[s].c
    BY <1>2 DEF SupType
  <2> QED  BY <2>1, <2>2, Zenon DEF Sleep
<1>5. /\ sup' \in [Sup -> SupType] /\ sup'[s] = r
      /\ \A t \in Sup : t # s => sup'[t] = sup[t]
  BY <1>1, <1>2, <1>4, SetOne
<1>6. TypeOK'
  BY <1>5 DEF IInv, TypeOK, Sleep
<1>7. Placed'
  BY <1>1, <1>4, <1>5 DEF IInv, Placed, Sleep
<1>8. Kept
  BY <1>4, <1>5 DEF Kept, Sleep
<1> QED  BY <1>6, <1>7, <1>8, KeptOwned DEF IInv

\* A connection goes from the front of the queue to the lane that claims it.
LEMMA ClaimKeeps ==
    ASSUME IInv, NEW s \in Server, Claim(s) \/ ClaimCancelled(s)
    PROVE  IInv'
<1>1. s \in Sup /\ s[1] = "srv"
  BY Sides
<1>2. /\ sup \in [Sup -> SupType] /\ ready \in Seq(Conn) /\ assigned \in 0..1
  BY TypeSock DEF IInv
<1>3. sup[s].c = NoConn
  BY <1>1 DEF IInv, Placed, Claim, ClaimCancelled
<1>4. CASE Claim(s)
  <2> DEFINE c == Head(ready)
  <2>1. /\ c \in Conn /\ ready' \in Seq(Conn)
        /\ Queued(ready) = Queued(ready)' \cup {c}
        /\ Distinct(ready) => Distinct(ready)' /\ c \notin Queued(ready)'
    <3>1. ready # <<>> /\ ready' = Tail(ready)
      BY <1>4 DEF Claim
    <3>2. /\ Queued(ready)' = Queued(Tail(ready))
          /\ Distinct(ready)' = Distinct(Tail(ready))
      BY <3>1 DEF Queued, Distinct
    <3> QED  BY <1>2, <3>1, <3>2, Taken
  <2>2. /\ Queued(backlog)' = Queued(backlog) /\ Distinct(backlog)' = Distinct(backlog)
    BY <1>4 DEF Claim, Queued, Distinct
  <2>3. /\ sup' \in [Sup -> SupType] /\ assigned' \in 0..1
        /\ sup'[s].pc = "lane" /\ sup'[s].c = c
        /\ \A t \in Sup : t # s => sup'[t] = sup[t]
    BY <1>1, <1>2, <1>4, <2>1, UpSets DEF Claim
  <2>4. UNCHANGED <<keyed, acc, backlog, sock, cancelled, faults>>
    BY <1>4 DEF Claim
  <2> HIDE DEF c
  <2>5. TypeOK'
    BY <2>1, <2>3, <2>4 DEF IInv, TypeOK
  <2>6. Placed'
    BY <2>1, <2>3, <2>4 DEF IInv, Placed
  <2>7. LanesApart'
    BY <1>1, <2>1, <2>3, Sides DEF IInv, Apart, LanesApart, HandsApart
  <2>8. QueuesApart'
    BY <2>1, <2>2 DEF IInv, Apart, QueuesApart
  <2>9. HandsApart'
    BY <1>1, <2>1, <2>2, <2>3, <2>4, Sides, Zenon DEF IInv, Apart, HandsApart, QueuesApart
  <2>10. Owned'
    BY <1>1, <1>3, <2>1, <2>3, <2>4, Sides, SupervisorAssumption DEF IInv, Owned
  <2> QED  BY <2>5, <2>6, <2>7, <2>8, <2>9, <2>10 DEF IInv, Apart
<1>5. CASE ClaimCancelled(s)
  <2>1. /\ sup' \in [Sup -> SupType]
        /\ sup'[s].pc \in {"done", "sleep"} /\ sup'[s].c = NoConn
        /\ \A t \in Sup : t # s => sup'[t] = sup[t]
    BY <1>1, <1>2, <1>5, RetrySets DEF ClaimCancelled
  <2>2. TypeOK'
    BY <1>5, <2>1 DEF IInv, TypeOK, ClaimCancelled
  <2>3. Placed'
    BY <1>5, <2>1 DEF IInv, Placed, ClaimCancelled
  <2>4. Kept
    BY <1>3, <1>5, <2>1 DEF Kept, ClaimCancelled
  <2> QED  BY <2>2, <2>3, <2>4, KeptOwned DEF IInv
<1> QED  BY <1>4, <1>5

-----------------------------------------------------------------------------
\* A connection goes from the kernel to the accept loop, or is turned away.
LEMMA AcceptKeeps ==
    ASSUME IInv, Accept
    PROVE  IInv'
<1> DEFINE c == Head(backlog)
<1>1. /\ acc.pc = "accept" /\ backlog # <<>> /\ backlog' = Tail(backlog)
      /\ UNCHANGED <<keyed, sup, ready, cancelled, assigned>>
  BY DEF Accept
<1>2. /\ sock \in [Conn -> SockType] /\ ready \in Seq(Conn) /\ backlog \in Seq(Conn)
      /\ faults \in 0..MaxFaults
  BY TypeSock DEF IInv
<1>3. /\ Queued(backlog)' = Queued(Tail(backlog))
      /\ Distinct(backlog)' = Distinct(Tail(backlog))
  BY <1>1 DEF Queued, Distinct
<1>4. /\ c \in Conn /\ backlog' \in Seq(Conn)
      /\ Queued(backlog) = Queued(backlog)' \cup {c}
      /\ Distinct(backlog) => Distinct(backlog)' /\ c \notin Queued(backlog)'
  BY <1>1, <1>2, <1>3, Taken
<1>5. Queued(ready)' = Queued(ready) /\ Distinct(ready)' = Distinct(ready)
  BY <1>1 DEF Queued, Distinct
<1>6. acc.c = NoConn /\ NoConn \notin Conn
  BY <1>1, SupervisorAssumption DEF IInv, Placed
<1>7. LanesApart'
  BY <1>1 DEF IInv, Apart, LanesApart
<1>8. QueuesApart'
  BY <1>4, <1>5 DEF IInv, Apart, QueuesApart
<1>9. CASE /\ sock' = [sock EXCEPT ![c].srv = "open"]
           /\ acc' = [pc |-> IF keyed THEN "handshake" ELSE "put", c |-> c]
           /\ NoFault
  <2>1. acc'.c = c /\ acc'.pc \in {"handshake", "put"}
    BY <1>9
  <2> HIDE DEF c
  <2>2. /\ sock' \in [Conn -> SockType] /\ sock'[c].cli = sock[c].cli
        /\ \A d \in Conn : d # c => sock'[d] = sock[d]
    <3>1. sock[c] \in SockType
      BY <1>2, <1>4
    <3>2. LET r == [sock[c] EXCEPT !.srv = "open"]
          IN  r \in SockType /\ r.cli = sock[c].cli
      BY <3>1 DEF SockType
    <3> QED  BY <1>2, <1>4, <1>9, <3>2
  <2>3. TypeOK'
    BY <1>1, <1>4, <1>9, <2>2 DEF IInv, TypeOK, SockType, NoFault
  <2>4. Placed'
    BY <1>1, <1>4, <2>1 DEF IInv, Placed
  <2>5. HandsApart'
    BY <1>1, <1>4, <1>5, <2>1 DEF IInv, Apart, HandsApart, QueuesApart
  <2>6. Owned'
    BY <1>1, <1>5, <1>6, <2>1, <2>2 DEF IInv, Owned
  <2> QED  BY <1>7, <1>8, <2>3, <2>4, <2>5, <2>6 DEF IInv, Apart
<1>10. CASE Close(c, "srv") /\ Fault /\ UNCHANGED acc
  <2> HIDE DEF c
  <2>1. /\ sock' \in [Conn -> SockType]
        /\ sock'[c].srv = "closed" /\ sock'[c].cli = sock[c].cli
        /\ \A d \in Conn : d # c => sock'[d] = sock[d]
    BY <1>2, <1>4, <1>10, CloseServer
  <2>2. faults' \in 0..MaxFaults
    BY <1>2, <1>10, FaultType
  <2>3. TypeOK'
    BY <1>1, <1>4, <1>10, <2>1, <2>2 DEF IInv, TypeOK, SockType
  <2>4. Placed'
    BY <1>1, <1>10 DEF IInv, Placed
  <2>5. HandsApart'
    BY <1>1, <1>4, <1>5, <1>10 DEF IInv, Apart, HandsApart
  <2>6. Owned'
    BY <1>1, <1>5, <1>10, <2>1 DEF IInv, Owned
  <2> QED  BY <1>7, <1>8, <2>3, <2>4, <2>5, <2>6 DEF IInv, Apart
<1> QED  BY <1>9, <1>10 DEF Accept

\* Steps of the accept loop that keep its connection, or have none.
LEMMA AcceptorWaits ==
    ASSUME IInv, AcceptFails \/ AcceptSleep \/ HandshakeOK
    PROVE  IInv'
<1>1. /\ acc \in [pc : {"accept", "sleep", "handshake", "put", "done"}, c : Conn \cup {NoConn}]
      /\ sock \in [Conn -> SockType] /\ faults \in 0..MaxFaults
  BY TypeSock DEF IInv
<1>2. CASE AcceptFails \/ AcceptSleep
  <2>1. PICK p \in {"accept", "sleep", "done"} : acc' = [acc EXCEPT !.pc = p]
    BY <1>2 DEF AcceptFails, AcceptSleep
  <2>2. /\ acc' \in [pc : {"accept", "sleep", "handshake", "put", "done"}, c : Conn \cup {NoConn}]
        /\ acc'.pc = p /\ acc'.c = acc.c
    BY <1>1, <2>1
  <2>3. faults' \in 0..MaxFaults
    BY <1>1, <1>2, FaultType DEF AcceptFails, AcceptSleep, NoFault
  <2>4. UNCHANGED <<keyed, sup, ready, backlog, sock, cancelled, assigned>>
    BY <1>2 DEF AcceptFails, AcceptSleep
  <2>5. acc.c = NoConn
    BY <1>2 DEF IInv, Placed, AcceptFails, AcceptSleep
  <2>6. TypeOK'
    BY <2>2, <2>3, <2>4 DEF IInv, TypeOK
  <2>7. Placed'
    BY <2>2, <2>4, <2>5 DEF IInv, Placed
  <2>8. Kept
    BY <2>2, <2>4 DEF Kept
  <2> QED  BY <2>6, <2>7, <2>8, KeptOwned DEF IInv
<1>3. CASE HandshakeOK
  <2>1. acc.c \in Conn
    BY <1>3 DEF IInv, Placed, HandshakeOK
  <2>2. /\ acc' \in [pc : {"accept", "sleep", "handshake", "put", "done"}, c : Conn \cup {NoConn}]
        /\ acc'.pc = "put" /\ acc'.c = acc.c
    BY <1>1, <1>3 DEF HandshakeOK
  <2>3. /\ sock' \in [Conn -> SockType]
        /\ \A c \in Conn : sock'[c].cli = sock[c].cli /\ sock'[c].srv = sock[c].srv
    <3>1. sock[acc.c] \in SockType
      BY <1>1, <2>1
    <3>2. LET r == [sock[acc.c] EXCEPT !.reply = TRUE]
          IN  r \in SockType /\ r.cli = sock[acc.c].cli /\ r.srv = sock[acc.c].srv
      BY <3>1, Zenon DEF SockType
    <3> QED  BY <1>1, <1>3, <2>1, <3>2 DEF HandshakeOK
  <2>4. TypeOK'
    BY <1>3, <2>2, <2>3 DEF IInv, TypeOK, SockType, HandshakeOK
  <2>5. Placed'
    BY <1>3, <2>1, <2>2 DEF IInv, Placed, HandshakeOK
  <2>6. Kept
    BY <1>3, <2>2, <2>3 DEF Kept, HandshakeOK
  <2> QED  BY <2>4, <2>5, <2>6, KeptOwned DEF IInv
<1> QED  BY <1>2, <1>3

\* The error paths of the accept loop close the connection.
LEMMA AcceptorLets ==
    ASSUME IInv, HandshakeFails \/ PutCancelled
    PROVE  IInv'
<1>1. acc.c \in Conn
  BY DEF IInv, Placed, HandshakeFails, PutCancelled
<1>2. /\ Close(acc.c, "srv") /\ acc'.pc \in {"accept", "done"} /\ acc'.c = NoConn
      /\ acc' \in [pc : {"accept", "sleep", "handshake", "put", "done"}, c : Conn \cup {NoConn}]
      /\ UNCHANGED <<keyed, sup, ready, backlog, cancelled, assigned>>
  BY DEF HandshakeFails, PutCancelled
<1>3. faults' \in 0..MaxFaults
  <2>1. faults \in 0..MaxFaults
    BY DEF IInv, TypeOK
  <2> QED  BY <2>1, FaultType DEF HandshakeFails, PutCancelled, NoFault
<1>4. sock' \in [Conn -> SockType] /\ Apart' /\ Owned'
  BY <1>1, <1>2, AcceptLets DEF IInv
<1>5. TypeOK'
  BY <1>2, <1>3, <1>4 DEF IInv, TypeOK, SockType
<1>6. Placed'
  BY <1>2 DEF IInv, Placed
<1> QED  BY <1>4, <1>5, <1>6 DEF IInv

\* A connection goes from the accept loop to the end of the queue.
LEMMA PutKeeps ==
    ASSUME IInv, Put
    PROVE  IInv'
<1>1. acc.c \in Conn
  BY DEF IInv, Placed, Put
<1>2. /\ ready' = Append(ready, acc.c) /\ acc'.pc = "accept" /\ acc'.c = NoConn
      /\ acc' \in [pc : {"accept", "sleep", "handshake", "put", "done"}, c : Conn \cup {NoConn}]
      /\ UNCHANGED <<keyed, sup, backlog, sock, cancelled, assigned, faults>>
  BY DEF Put
<1>3. ready \in Seq(Conn) /\ backlog \in Seq(Conn)
  BY DEF IInv, TypeOK
<1>4. /\ Queued(ready)' = Queued(Append(ready, acc.c))
      /\ Distinct(ready)' = Distinct(Append(ready, acc.c))
      /\ Queued(backlog)' = Queued(backlog) /\ Distinct(backlog)' = Distinct(backlog)
  BY <1>2, Zenon DEF Queued, Distinct
<1>5. /\ ready' \in Seq(Conn) /\ Queued(ready)' = Queued(ready) \cup {acc.c}
      /\ Distinct(ready) /\ acc.c \notin Queued(ready) => Distinct(ready)'
  BY <1>1, <1>2, <1>3, <1>4, Appended
<1>6. NoConn \notin Conn /\ Queued(ready) \subseteq Conn /\ Queued(backlog) \subseteq Conn
  BY <1>3, QueuedConns, SupervisorAssumption
<1>7. TypeOK'
  BY <1>2, <1>5 DEF IInv, TypeOK
<1>8. Placed'
  BY <1>2 DEF IInv, Placed
<1>9. LanesApart'
  BY <1>2 DEF IInv, Apart, LanesApart
<1>10. QueuesApart'
  BY <1>4, <1>5 DEF IInv, Apart, QueuesApart, HandsApart
<1>11. HandsApart'
  BY <1>1, <1>2, <1>4, <1>5, <1>6, Zenon DEF IInv, Apart, HandsApart
<1>12. Owned'
  BY <1>2, <1>5 DEF IInv, Owned
<1> QED  BY <1>7, <1>8, <1>9, <1>10, <1>11, <1>12 DEF IInv, Apart

-----------------------------------------------------------------------------
\* One half of a lane ends; the lane keeps its connection.
LEMMA HalfEnds ==
    ASSUME IInv, NEW s \in Sup, RxEnds(s) \/ TxEnds(s)
    PROVE  IInv'
<1>1. sup \in [Sup -> SupType] /\ sup[s] \in SupType /\ faults \in 0..MaxFaults
  BY DEF IInv, TypeOK
<1>2. PICK r \in SupType : r.pc = sup[s].pc /\ r.c = sup[s].c /\ Set(s, r)
  <2>1. LET r == [sup[s] EXCEPT !.rx = FALSE]
        IN  r \in SupType /\ r.pc = sup[s].pc /\ r.c = sup[s].c
    BY <1>1, Zenon DEF SupType
  <2>2. LET r == [sup[s] EXCEPT !.tx = FALSE]
        IN  r \in SupType /\ r.pc = sup[s].pc /\ r.c = sup[s].c
    BY <1>1, Zenon DEF SupType
  <2> QED  BY <2>1, <2>2, Zenon DEF RxEnds, TxEnds
<1>3. /\ sup' \in [Sup -> SupType] /\ sup'[s] = r
      /\ \A t \in Sup : t # s => sup'[t] = sup[t]
  BY <1>1, <1>2, SetOne
<1>4. UNCHANGED <<keyed, acc, ready, backlog, sock, cancelled, assigned>>
  BY DEF RxEnds, TxEnds
<1>5. faults' \in 0..MaxFaults
  BY <1>1, FaultType DEF RxEnds, TxEnds
<1>6. TypeOK'
  BY <1>3, <1>4, <1>5 DEF IInv, TypeOK
<1>7. Placed'
  BY <1>2, <1>3, <1>4 DEF IInv, Placed
<1>8. Kept
  BY <1>2, <1>3, <1>4 DEF Kept
<1> QED  BY <1>6, <1>7, <1>8, KeptOwned DEF IInv

\* The watcher closes the lane's own end under it.
LEMMA WatcherKeeps ==
    ASSUME IInv, NEW s \in Sup, Watcher(s)
    PROVE  IInv'
<1>1. sup[s].c \in Conn /\ sock \in [Conn -> SockType]
  BY TypeSock DEF IInv, Placed, Watcher
<1>2. Close(sup[s].c, s[1]) /\ UNCHANGED <<keyed, sup, acc, ready, backlog, cancelled, assigned, faults>>
  BY DEF Watcher
<1>3. /\ sock' \in [Conn -> SockType]
      /\ \A c \in Conn : /\ sock'[c].srv = "open" => sock[c].srv = "open"
                         /\ sock'[c].cli = "open" => sock[c].cli = "open"
  <2>1. CASE s[1] = "cli"
    <3>1. /\ sock' \in [Conn -> SockType]
          /\ sock'[sup[s].c].cli = "closed" /\ sock'[sup[s].c].srv = sock[sup[s].c].srv
          /\ \A d \in Conn : d # sup[s].c => sock'[d] = sock[d]
      BY <1>1, <1>2, <2>1, CloseClient
    <3> QED  BY <1>1, <3>1
  <2>2. CASE s[1] = "srv"
    <3>1. /\ sock' \in [Conn -> SockType]
          /\ sock'[sup[s].c].srv = "closed" /\ sock'[sup[s].c].cli = sock[sup[s].c].cli
          /\ \A d \in Conn : d # sup[s].c => sock'[d] = sock[d]
      BY <1>1, <1>2, <2>2, CloseServer, Zenon
    <3> QED  BY <1>1, <3>1
  <2> QED  BY <2>1, <2>2, Sides
<1>4. TypeOK'
  BY <1>2, <1>3 DEF IInv, TypeOK, SockType
<1>5. Placed'
  BY <1>2 DEF IInv, Placed
<1>6. Kept
  BY <1>2, <1>3 DEF Kept
<1> QED  BY <1>4, <1>5, <1>6, KeptOwned DEF IInv

\* runLane closes the lane's own end and gives the connection up.
LEMMA LaneDownKeeps ==
    ASSUME IInv, NEW s \in Sup, LaneDown(s)
    PROVE  IInv'
<1>1. sup \in [Sup -> SupType] /\ sup[s] \in SupType /\ sup[s].c \in Conn
  BY DEF IInv, TypeOK, Placed, LaneDown
<1> DEFINE r == [sup[s] EXCEPT !.pc = IF s[1] \in cancelled THEN "done" ELSE "acquire",
                               !.c = NoConn]
<1>2. r \in SupType /\ r.pc \in {"acquire", "done"} /\ r.c = NoConn
  BY <1>1, Zenon DEF SupType
<1>3. /\ Close(sup[s].c, s[1]) /\ Set(s, r)
      /\ UNCHANGED <<keyed, acc, ready, backlog, cancelled, assigned, faults>>
  BY DEF LaneDown
<1> HIDE DEF r
<1>4. /\ sup' \in [Sup -> SupType] /\ sup'[s] = r
      /\ \A t \in Sup : t # s => sup'[t] = sup[t]
  BY <1>1, <1>2, <1>3, SetOne
<1>5. sock' \in [Conn -> SockType] /\ Apart' /\ Owned'
  BY <1>1, <1>2, <1>3, <1>4, LaneLets DEF IInv
<1>6. TypeOK'
  BY <1>3, <1>4, <1>5 DEF IInv, TypeOK, SockType
<1>7. Placed'
  BY <1>2, <1>3, <1>4, Zenon DEF IInv, Placed
<1> QED  BY <1>5, <1>6, <1>7 DEF IInv

\* A lost path does not close an end.
LEMMA BreakKeeps ==
    ASSUME IInv, NEW c \in Conn, Break(c)
    PROVE  IInv'
<1>1. sock \in [Conn -> SockType] /\ sock[c] \in SockType /\ faults \in 0..MaxFaults
  BY TypeSock DEF IInv
<1>2. LET r == [sock[c] EXCEPT !.up = FALSE]
      IN  r \in SockType /\ r.cli = sock[c].cli /\ r.srv = sock[c].srv
  BY <1>1, Zenon DEF SockType
<1>3. /\ sock' \in [Conn -> SockType]
      /\ \A d \in Conn : sock'[d].cli = sock[d].cli /\ sock'[d].srv = sock[d].srv
  BY <1>1, <1>2 DEF Break
<1>4. faults' \in 0..MaxFaults
  BY <1>1, FaultType DEF Break
<1>5. TypeOK'
  BY <1>3, <1>4 DEF IInv, TypeOK, SockType, Break
<1>6. Placed'
  BY DEF IInv, Placed, Break
<1>7. Kept
  BY <1>3 DEF Kept, Break
<1> QED  BY <1>5, <1>6, <1>7, KeptOwned DEF IInv

\* A cancelled context, or nothing, changes.
LEMMA CancelKeeps ==
    ASSUME IInv, (\E side \in Side : Cancel(side)) \/ UNCHANGED vars
    PROVE  IInv'
<1>1. /\ UNCHANGED <<keyed, sup, acc, ready, backlog, sock, assigned, faults>>
      /\ cancelled' \subseteq Side
  BY DEF Cancel, vars, IInv, TypeOK
<1>2. TypeOK'
  BY <1>1 DEF IInv, TypeOK
<1>3. Placed'
  BY <1>1 DEF IInv, Placed
<1>4. Kept
  BY <1>1 DEF Kept
<1> QED  BY <1>2, <1>3, <1>4, KeptOwned DEF IInv

\* At the start nobody has a connection and every end is closed.
LEMMA SupervisorInit == Init => IInv
<1> SUFFICES ASSUME Init PROVE IInv
  OBVIOUS
<1>1. Started \in SupType /\ Started.pc = "acquire" /\ Started.c = NoConn
  BY SupervisorAssumption DEF Started, SupType
<1>2. Gone \in SockType /\ Gone.cli = "closed" /\ Gone.srv = "closed"
  BY DEF Gone, SockType
<1>3. \A s \in Sup : sup[s] = Started
  BY DEF Init
<1>4. \A c \in Conn : sock[c] = Gone
  BY DEF Init
<1>5. TypeOK
  BY <1>1, <1>2, TypeSock, SupervisorAssumption DEF Init
<1>6. Placed
  BY <1>1, <1>3 DEF Init, Placed
<1>7. Queued(ready) = {} /\ Queued(backlog) = {} /\ Distinct(ready) /\ Distinct(backlog)
  BY DEF Init, Queued, Distinct
<1>8. Apart
  BY <1>1, <1>3, <1>7 DEF Init, Apart, LanesApart, QueuesApart, HandsApart
<1>9. Owned
  BY <1>2, <1>4 DEF Owned
<1> QED  BY <1>5, <1>6, <1>8, <1>9 DEF IInv

\* Every step keeps the invariant.
LEMMA SupervisorStep == IInv /\ [Next]_vars => IInv'
<1> SUFFICES ASSUME IInv, [Next]_vars PROVE IInv'
  OBVIOUS
<1>1. CASE Acquire
  BY <1>1, DialKeeps, ClientKeeps, ClaimKeeps, SleepKeeps DEF Acquire
<1>2. CASE AcceptLoop
  BY <1>2, AcceptKeeps, AcceptorWaits, AcceptorLets, PutKeeps DEF AcceptLoop
<1>3. CASE RunLane
  BY <1>3, HalfEnds, WatcherKeeps, LaneDownKeeps DEF RunLane
<1>4. CASE \E c \in Conn : Break(c)
  BY <1>4, BreakKeeps
<1>5. CASE (\E side \in Side : Cancel(side)) \/ UNCHANGED vars
  BY <1>5, CancelKeeps
<1> QED  BY <1>1, <1>2, <1>3, <1>4, <1>5 DEF Next

\* The lanes of a side that have c: one or none.
LEMMA OneHolder ==
    ASSUME IInv, NEW side \in Side, NEW c \in Conn
    PROVE  Cardinality(Holders(side, c)) =
             IF \E s \in Sup : s[1] = side /\ sup[s].c = c THEN 1 ELSE 0
<1>1. CASE \E s \in Sup : s[1] = side /\ sup[s].c = c
  <2>1. PICK s \in Sup : s[1] = side /\ sup[s].c = c
    BY <1>1
  <2>2. Holders(side, c) = {s}
    BY <2>1, SupervisorAssumption DEF IInv, Apart, LanesApart, Holders
  <2> QED  BY <1>1, <2>2, FS_Singleton, Zenon
<1>2. CASE ~\E s \in Sup : s[1] = side /\ sup[s].c = c
  <2>1. Holders(side, c) = {}
    BY <1>2 DEF Holders
  <2> QED  BY <1>2, <2>1, FS_EmptySet
<1> QED  BY <1>1, <1>2

\* The places of c in the queue: one or none.
LEMMA OneSlot ==
    ASSUME IInv, NEW c \in Conn
    PROVE  Cardinality({k \in 1..Len(ready) : ready[k] = c}) =
             IF c \in Queued(ready) THEN 1 ELSE 0
<1> DEFINE K == {k \in 1..Len(ready) : ready[k] = c}
<1>1. CASE c \in Queued(ready)
  <2>1. PICK k \in 1..Len(ready) : ready[k] = c
    BY <1>1 DEF Queued
  <2>2. K = {k}
    BY <2>1 DEF IInv, Apart, QueuesApart, Distinct
  <2> QED  BY <1>1, <2>2, FS_Singleton, Zenon
<1>2. CASE c \notin Queued(ready)
  <2>1. K = {}
    BY <1>2 DEF Queued
  <2> QED  BY <1>2, <2>1, FS_EmptySet, Zenon
<1> QED  BY <1>1, <1>2

\* The invariant in numbers: lanes, queue and accept loop together own c once.
LEMMA InvSingleOwner == IInv => SingleOwner
<1> SUFFICES ASSUME IInv, NEW c \in Conn
             PROVE  /\ sock[c].srv = "open" => ServerOwners(c) = 1
                    /\ ServerOwners(c) <= 1
                    /\ sock[c].cli = "open" => Cardinality(Holders("cli", c)) = 1
  BY DEF SingleOwner
<1> DEFINE lane == \E s \in Server : sup[s].c = c
<1>1. (\E s \in Sup : s[1] = "srv" /\ sup[s].c = c) <=> lane
  BY Sides
<1>2. "srv" \in Side /\ "cli" \in Side
  BY DEF Side
<1>3. ServerOwners(c) = (IF lane THEN 1 ELSE 0)
                        + (IF c \in Queued(ready) THEN 1 ELSE 0)
                        + (IF acc.c = c THEN 1 ELSE 0)
  BY <1>1, <1>2, OneHolder, OneSlot DEF ServerOwners
<1>4. /\ ~(lane /\ c \in Queued(ready)) /\ ~(lane /\ acc.c = c)
      /\ ~(c \in Queued(ready) /\ acc.c = c)
  BY SupervisorAssumption, Zenon DEF IInv, Apart, HandsApart
<1>5. sock[c].srv = "open" => acc.c = c \/ c \in Queued(ready) \/ lane
  BY Zenon DEF IInv, Owned
<1>6. sock[c].cli = "open" => Cardinality(Holders("cli", c)) = 1
  BY <1>2, OneHolder, Sides DEF IInv, Owned
<1> HIDE DEF lane
<1> QED  BY <1>3, <1>4, <1>5, <1>6

\* Connections are where the invariant says in every reachable state (supervisor.go).
THEOREM SupervisorInv == Spec => []IInv
BY SupervisorInit, SupervisorStep, PTL DEF Spec

\* Every open end of a connection has exactly one owner, and no connection has
\* two on the server: none is lost on an error path of runAcceptLoop,
\* serverPool.source, clientSource or runLane, and none is claimed twice.
THEOREM SupervisorSingleOwner == Spec => []SingleOwner
BY SupervisorInv, InvSingleOwner, PTL

\* The state has its type; in particular OnAssigned is called at most once, whatever
\* the number of client lanes and of reconnections (clientSource, sync.Once).
THEOREM SupervisorType == Spec => []TypeOK
<1>1. IInv => TypeOK
  BY DEF IInv
<1> QED  BY <1>1, SupervisorInv, PTL
=============================================================================
