----------------------------- MODULE Supervisor -----------------------------
(***************************************************************************)
(* Client and single-client server: supervisor.go, Client.Run and the tail *)
(* of Server.Run.  Each side has one supervisor per lane, which acquires a *)
(* connection, runs the lane on it and starts over.  The client's dial;    *)
(* the server's claim connections that the accept loop has handshaken and  *)
(* put in the queue `ready'.                                               *)
(*                                                                         *)
(* A fault is whatever the network or the device does to a lane: a failed  *)
(* dial or accept, a timeout, a broken connection, a fatal error of one    *)
(* half.  There are at most MaxFaults of them: liveness is asked for once  *)
(* they have stopped.                                                      *)
(***************************************************************************)
EXTENDS Integers, Sequences, FiniteSets

CONSTANTS
    ClientLane,  \* lane numbers of the client (ClientConfig.Lanes of them)
    ServerLane,  \* and of the server (ServerConfig.Lanes)
    Conn,        \* identities of TCP connections, reused when forgotten
    NoConn,
    BackoffMax,  \* doublings from backoffInitial to backoffMax
    Assigns,     \* whether the handshake's reply carries an assignment
    MaxFaults    \* bound on faults

ASSUME SupervisorAssumption ==
    /\ IsFiniteSet(ClientLane) /\ IsFiniteSet(ServerLane)
    /\ ServerLane # {}
    /\ NoConn \notin Conn
    /\ BackoffMax \in Nat /\ MaxFaults \in Nat
    /\ Assigns \in BOOLEAN

VARIABLES
    keyed,     \* static keys are configured; else open mode, no handshake
    sup,       \* the supervisors of both sides
    acc,       \* runAcceptLoop: where it is and the connection it handles
    ready,     \* serverPool.ready
    backlog,   \* the listener's queue in the kernel
    sock,      \* both ends of each connection
    cancelled, \* the sides whose context is cancelled
    assigned,  \* number of calls of ClientConfig.OnAssigned
    faults     \* faults so far

vars == <<keyed, sup, acc, ready, backlog, sock, cancelled, assigned, faults>>

Side == {"cli", "srv"}
Peer(side) == IF side = "cli" THEN "srv" ELSE "cli"

\* A supervisor is named by its side and its lane.
Client == {"cli"} \X ClientLane
Server == {"srv"} \X ServerLane
Sup == Client \cup Server

\* "acquire": in src(ctx); rx and tx: sockToTun and tunToSock are running.
SupType == [pc : {"acquire", "handshake", "sleep", "lane", "done"},
            c : Conn \cup {NoConn}, backoff : 0..BackoffMax,
            notified : BOOLEAN, rx : BOOLEAN, tx : BOOLEAN]

Started == [pc |-> "acquire", c |-> NoConn, backoff |-> 0,
            notified |-> FALSE, rx |-> FALSE, tx |-> FALSE]

\* An end of a connection; an end that was not handed to the program is "none".
\* reply: the second handshake message is on its way or read; up: the path works.
Gone == [cli |-> "closed", srv |-> "closed", reply |-> FALSE, up |-> TRUE]
Dialled == [Gone EXCEPT !.cli = "open", !.srv = "none"]

Capacity == Cardinality(ServerLane)

\* Server.Run closes the listener when the last supervisor has returned.
Listening == \E s \in Server : sup[s].pc # "done"

Queued(q) == {q[k] : k \in 1..Len(q)}

\* The supervisor, the queue or the accept loop that has the end of c.
Holders(side, c) == {s \in Sup : s[1] = side /\ sup[s].c = c}

\* An identity can be used again when nothing refers to the connection.
Free(c) ==
    /\ \A s \in Sup : sup[s].c # c
    /\ acc.c # c
    /\ c \notin Queued(ready) \cup Queued(backlog)

\* Reads and writes at this end of c fail.
Fails(c, side) ==
    \/ "closed" \in {sock[c][side], sock[c][Peer(side)]}
    \/ ~sock[c].up
    \/ c \in Queued(backlog) /\ ~Listening

Init ==
    /\ keyed \in BOOLEAN
    /\ sup = [s \in Sup |-> Started]
    /\ acc = [pc |-> "accept", c |-> NoConn]
    /\ ready = <<>>
    /\ backlog = <<>>
    /\ sock = [c \in Conn |-> Gone]
    /\ cancelled = {}
    /\ assigned = 0
    /\ faults = 0

-----------------------------------------------------------------------------
Fault == faults < MaxFaults /\ faults' = faults + 1

NoFault == UNCHANGED faults

Set(s, r) == sup' = [sup EXCEPT ![s] = r]

\* Nothing more is to be known of a connection once both ends are closed.
Close(c, side) ==
    sock' = [sock EXCEPT ![c] = IF @[Peer(side)] = "closed" THEN Gone
                                ELSE [@ EXCEPT ![side] = "closed"]]

nextBackoff(d) == IF d < BackoffMax THEN d + 1 ELSE BackoffMax

\* Mutant: the supervisor gives up at the first error.
RetryNever(s) == Set(s, [sup[s] EXCEPT !.pc = "done", !.c = NoConn])

\* src(ctx) has failed: sleep, or return when the context is cancelled.
Retry(s) ==
    Set(s, [sup[s] EXCEPT !.pc = IF s[1] \in cancelled THEN "done" ELSE "sleep",
                          !.c = NoConn])

\* Mutant: the backoff survives a success and the assignment is not recorded.
UpAgain(s, c) ==
    /\ Set(s, [sup[s] EXCEPT !.pc = "lane", !.c = c, !.rx = TRUE, !.tx = TRUE])
    /\ assigned' = IF s \in Client /\ Assigns /\ keyed THEN assigned + 1 ELSE assigned

\* src(ctx) has returned c: the lane starts.  OnAssigned goes through sync.Once.
Up(s, c) ==
    LET news == s \in Client /\ Assigns /\ keyed /\ ~sup[s].notified
    IN  /\ Set(s, [sup[s] EXCEPT !.pc = "lane", !.c = c, !.backoff = 0,
                                 !.notified = @ \/ news,
                                 !.rx = TRUE, !.tx = TRUE])
        /\ assigned' = IF news /\ assigned = 0 THEN 1 ELSE assigned

-----------------------------------------------------------------------------
(* The client's source: clientSource. *)

Dial(s) ==
    /\ sup[s].pc = "acquire" /\ s[1] \notin cancelled
    /\ Listening
    /\ \E c \in Conn : Free(c)
    /\ LET c == CHOOSE d \in Conn : Free(d)
       IN  /\ sock' = [sock EXCEPT ![c] = Dialled]
           /\ backlog' = Append(backlog, c)
           /\ \/ keyed
                 /\ Set(s, [sup[s] EXCEPT !.pc = "handshake", !.c = c])
                 /\ UNCHANGED assigned
              \/ ~keyed /\ Up(s, c)
    /\ NoFault
    /\ UNCHANGED <<keyed, acc, ready, cancelled>>

DialFails(s) ==
    /\ sup[s].pc = "acquire"
    /\ IF Listening /\ s[1] \notin cancelled THEN Fault ELSE NoFault
    /\ Retry(s)
    /\ UNCHANGED <<keyed, acc, ready, backlog, sock, cancelled, assigned>>

\* initiateHandshake reads the reply.
InitiateOK(s) ==
    LET c == sup[s].c
    IN  /\ sup[s].pc = "handshake"
        /\ sock[c].reply /\ sock[c].up
        /\ Up(s, c)
        /\ NoFault
        /\ UNCHANGED <<keyed, acc, ready, backlog, sock, cancelled>>

\* The accept loop waits for a place in the queue while every lane has a half that
\* runs, or has returned while a lane keeps Run, and so the listener, alive.
Stalled ==
    \/ acc.pc = "done"
    \/ /\ acc.pc = "put" /\ Len(ready) >= Capacity
       /\ \A s \in Server : sup[s].rx \/ sup[s].tx

\* The server hung up without a reply, or the deadline passed: behind a stalled
\* accept loop it always does, else the network is to blame.
InitiateFails(s) ==
    LET c == sup[s].c
    IN  /\ sup[s].pc = "handshake"
        /\ IF (Fails(c, "cli") \/ Stalled) /\ ~(sock[c].reply /\ sock[c].up)
           THEN NoFault ELSE Fault
        /\ Close(c, "cli")
        /\ Retry(s)
        /\ UNCHANGED <<keyed, acc, ready, backlog, cancelled, assigned>>

\* sleepJitter, to the end or cut short.
Sleep(s) ==
    /\ sup[s].pc = "sleep"
    /\ \/ Set(s, [sup[s] EXCEPT !.pc = "acquire", !.backoff = nextBackoff(@)])
       \/ s[1] \in cancelled /\ Set(s, [sup[s] EXCEPT !.pc = "done"])
    /\ UNCHANGED <<keyed, acc, ready, backlog, sock, cancelled, assigned, faults>>

-----------------------------------------------------------------------------
(* The server's source: runAcceptLoop and serverPool. *)

\* allowIP may turn the connection away; in open mode there is no handshake.
Accept ==
    /\ acc.pc = "accept" /\ Listening /\ backlog # <<>>
    /\ backlog' = Tail(backlog)
    /\ LET c == Head(backlog)
       IN  \/ /\ sock' = [sock EXCEPT ![c].srv = "open"]
              /\ acc' = [pc |-> IF keyed THEN "handshake" ELSE "put", c |-> c]
              /\ NoFault
           \/ /\ Close(c, "srv")
              /\ Fault
              /\ UNCHANGED acc
    /\ UNCHANGED <<keyed, sup, ready, cancelled, assigned>>

AcceptFails ==
    /\ acc.pc = "accept"
    /\ IF Listening THEN Fault ELSE NoFault
    /\ acc' = [acc EXCEPT !.pc = IF "srv" \in cancelled THEN "done" ELSE "sleep"]
    /\ UNCHANGED <<keyed, sup, ready, backlog, sock, cancelled, assigned>>

AcceptSleep ==
    /\ acc.pc = "sleep"
    /\ \/ acc' = [acc EXCEPT !.pc = "accept"]
       \/ "srv" \in cancelled /\ acc' = [acc EXCEPT !.pc = "done"]
    /\ UNCHANGED <<keyed, sup, ready, backlog, sock, cancelled, assigned, faults>>

\* The client's first message is in the buffer even if it has hung up since.
HandshakeOK ==
    /\ acc.pc = "handshake" /\ sock[acc.c].up
    /\ sock' = [sock EXCEPT ![acc.c].reply = TRUE]
    /\ acc' = [acc EXCEPT !.pc = "put"]
    /\ UNCHANGED <<keyed, sup, ready, backlog, cancelled, assigned, faults>>

\* Mutant: the error path forgets the socket.
HandshakeFailsOpen ==
    /\ acc.pc = "handshake"
    /\ IF Fails(acc.c, "srv") THEN NoFault ELSE Fault
    /\ acc' = [pc |-> "accept", c |-> NoConn]
    /\ UNCHANGED <<keyed, sup, ready, backlog, sock, cancelled, assigned>>

HandshakeFails ==
    /\ acc.pc = "handshake"
    /\ IF Fails(acc.c, "srv") THEN NoFault ELSE Fault
    /\ Close(acc.c, "srv")
    /\ acc' = [pc |-> "accept", c |-> NoConn]
    /\ UNCHANGED <<keyed, sup, ready, backlog, cancelled, assigned>>

Put ==
    /\ acc.pc = "put" /\ Len(ready) < Capacity
    /\ ready' = Append(ready, acc.c)
    /\ acc' = [pc |-> "accept", c |-> NoConn]
    /\ UNCHANGED <<keyed, sup, backlog, sock, cancelled, assigned, faults>>

PutCancelled ==
    /\ acc.pc = "put" /\ "srv" \in cancelled
    /\ Close(acc.c, "srv")
    /\ acc' = [pc |-> "done", c |-> NoConn]
    /\ UNCHANGED <<keyed, sup, ready, backlog, cancelled, assigned, faults>>

\* A server's supervisor receives from the queue, or sees the context done.
Claim(s) ==
    /\ sup[s].pc = "acquire" /\ ready # <<>>
    /\ Up(s, Head(ready))
    /\ ready' = Tail(ready)
    /\ UNCHANGED <<keyed, acc, backlog, sock, cancelled, faults>>

ClaimCancelled(s) ==
    /\ sup[s].pc = "acquire" /\ "srv" \in cancelled
    /\ Retry(s)
    /\ UNCHANGED <<keyed, acc, ready, backlog, sock, cancelled, assigned, faults>>

-----------------------------------------------------------------------------
(* The lane, on either side: runLane and the watcher of runSupervised. *)

\* The path between the two ends of a connection is lost.
Break(c) ==
    /\ sock[c].up /\ sock[c].cli = "open"
    /\ sock' = [sock EXCEPT ![c].up = FALSE]
    /\ Fault
    /\ UNCHANGED <<keyed, sup, acc, ready, backlog, cancelled, assigned>>

\* sockToTun reads from a dead socket, or meets an error of its own.
RxEnds(s) ==
    /\ sup[s].pc = "lane" /\ sup[s].rx
    /\ IF Fails(sup[s].c, s[1]) THEN NoFault ELSE Fault
    /\ Set(s, [sup[s] EXCEPT !.rx = FALSE])
    /\ UNCHANGED <<keyed, acc, ready, backlog, sock, cancelled, assigned>>

\* A packet arrives on the queue and cannot be written, or the read fails.
TxEnds(s) ==
    /\ sup[s].pc = "lane" /\ sup[s].tx
    /\ IF Fails(sup[s].c, s[1]) THEN NoFault ELSE Fault
    /\ Set(s, [sup[s] EXCEPT !.tx = FALSE])
    /\ UNCHANGED <<keyed, acc, ready, backlog, sock, cancelled, assigned>>

\* Mutant: the watcher is only started once the reader has ended.
WatcherLate(s) ==
    /\ sup[s].pc = "lane" /\ s[1] \in cancelled /\ ~sup[s].rx
    /\ sock[sup[s].c][s[1]] = "open"
    /\ Close(sup[s].c, s[1])
    /\ UNCHANGED <<keyed, sup, acc, ready, backlog, cancelled, assigned, faults>>

\* On cancellation the watcher closes the socket under the running lane.
Watcher(s) ==
    /\ sup[s].pc = "lane" /\ s[1] \in cancelled
    /\ sock[sup[s].c][s[1]] = "open"
    /\ Close(sup[s].c, s[1])
    /\ UNCHANGED <<keyed, sup, acc, ready, backlog, cancelled, assigned, faults>>

\* Both halves have ended: runLane closes the socket and returns.
LaneDown(s) ==
    /\ sup[s].pc = "lane" /\ ~sup[s].rx /\ ~sup[s].tx
    /\ Close(sup[s].c, s[1])
    /\ Set(s, [sup[s] EXCEPT !.pc = IF s[1] \in cancelled THEN "done" ELSE "acquire",
                             !.c = NoConn])
    /\ UNCHANGED <<keyed, acc, ready, backlog, cancelled, assigned, faults>>

\* A signal cancels the context of one side.
Cancel(side) ==
    /\ side \notin cancelled
    /\ cancelled' = cancelled \cup {side}
    /\ UNCHANGED <<keyed, sup, acc, ready, backlog, sock, assigned, faults>>

-----------------------------------------------------------------------------
Acquire ==
    \/ \E s \in Client : Dial(s) \/ DialFails(s) \/ InitiateOK(s) \/ InitiateFails(s)
    \/ \E s \in Server : Claim(s) \/ ClaimCancelled(s)
    \/ \E s \in Client : Sleep(s)

AcceptLoop ==
    \/ Accept \/ AcceptFails \/ AcceptSleep
    \/ HandshakeOK \/ HandshakeFails \/ Put \/ PutCancelled

RunLane == \E s \in Sup : RxEnds(s) \/ TxEnds(s) \/ Watcher(s) \/ LaneDown(s)

Next ==
    \/ Acquire
    \/ AcceptLoop
    \/ RunLane
    \/ \E c \in Conn : Break(c)
    \/ \E side \in Side : Cancel(side)

Spec == Init /\ [][Next]_vars

\* What happens by itself: goroutines run and timers fire.  Nothing makes a signal
\* or a fault happen, nor a packet arrive on a queue: ReadBatch polls the device
\* without a timeout, so TxEnds may never come.
Fairness ==
    /\ \A s \in Client :
        /\ WF_vars(NoFault /\ (Dial(s) \/ DialFails(s)))
        /\ WF_vars(NoFault /\ (InitiateOK(s) \/ InitiateFails(s)))
        /\ WF_vars(Sleep(s))
    /\ \A s \in Server : WF_vars(Claim(s) \/ ClaimCancelled(s))
    /\ \A s \in Sup :
        WF_vars(NoFault /\ RxEnds(s)) /\ WF_vars(Watcher(s)) /\ WF_vars(LaneDown(s))
    /\ WF_vars(NoFault /\ AcceptLoop)

FairSpec == Spec /\ Fairness

-----------------------------------------------------------------------------
(* Properties *)

\* The state has its type; OnAssigned is called at most once for all lanes
\* together ("invoked once per Client lifetime", ClientConfig.OnAssigned).
TypeOK ==
    /\ keyed \in BOOLEAN
    /\ sup \in [Sup -> SupType]
    /\ acc \in [pc : {"accept", "sleep", "handshake", "put", "done"}, c : Conn \cup {NoConn}]
    /\ ready \in Seq(Conn) /\ backlog \in Seq(Conn)
    /\ sock \in [Conn -> [cli : {"none", "open", "closed"}, srv : {"none", "open", "closed"},
                          reply : BOOLEAN, up : BOOLEAN]]
    /\ cancelled \subseteq Side
    /\ assigned \in 0..1
    /\ faults \in 0..MaxFaults

\* The parts of the server that have connection c.
ServerOwners(c) ==
    Cardinality(Holders("srv", c))
    + Cardinality({k \in 1..Len(ready) : ready[k] = c})
    + (IF acc.c = c THEN 1 ELSE 0)

\* Every open end of a connection has exactly one owner: no accepted connection
\* is lost on an error path or claimed by two supervisors, and the sockets a
\* client dials are closed when their lane gives them up (runAcceptLoop,
\* serverPool.source, clientSource, runLane).
SingleOwner ==
    \A c \in Conn :
        /\ sock[c].srv = "open" => ServerOwners(c) = 1
        /\ ServerOwners(c) <= 1
        /\ sock[c].cli = "open" => Cardinality(Holders("cli", c)) = 1

Running(s) == sup[s].pc = "lane" /\ sup[s].rx /\ sup[s].tx

\* A lane that works on both sides, and one of which a half has stopped.
Joined(s) ==
    Running(s) /\ \E t \in Server : Running(t) /\ sup[t].c = sup[s].c
HalfStopped(s) == sup[s].pc = "lane" /\ sup[s].rx # sup[s].tx

\* Once faults stop, and unless a side is shut down, every client lane comes to
\* run for good on a connection that a server lane runs on too: dead connections
\* in the queue, timeouts and blocked accepts of earlier attempts do not keep the
\* two sides apart (runSupervised).  What can is a lane of which one half has
\* stopped and the other waits for a packet: it never reconnects, or it holds up
\* the queue so long that every new handshake times out behind it.
Reconnects ==
    \/ <>[](\/ cancelled # {}
            \/ \A s \in Client : Joined(s)
            \/ \E s \in Sup : HalfStopped(s))
    \/ []<>(Stalled /\ \E s \in Server : HalfStopped(s))

\* All that is left of a lane is tunToSock, waiting for a packet of a quiet
\* device, over a socket that is closed.
HeldByDevice(s) ==
    HalfStopped(s) /\ sup[s].tx /\ sock[sup[s].c][s[1]] = "closed"

\* A cancelled context ends every supervisor of its side, and then the accept
\* loop, wherever they are: dialling, in a handshake, asleep, waiting for a
\* connection or a place in the queue, or in a lane.  Only a quiet device can
\* hold them up (Client.Run, Server.Run).
ShutdownCompletes ==
    /\ \A s \in Sup : s[1] \in cancelled ~> (sup[s].pc = "done" \/ HeldByDevice(s))
    /\ "srv" \in cancelled ~> (acc.pc = "done" \/ \E s \in Server : HeldByDevice(s))

\* runLane "drives a single TUN-queue <-> outer-socket lane to first I/O error on
\* either side" (lane.go): when one half has stopped, the lane ends.
LaneEndsOnError ==
    \A s \in Sup : HalfStopped(s) ~> (~HalfStopped(s) \/ cancelled # {})
=============================================================================
