------------------------------- MODULE TProxy -------------------------------
(***************************************************************************)
(* TPROXYListener (tproxy_listen_linux.go): Start and Stop, the TCP accept *)
(* loop with a relay per connection, and the UDP accept loop that shares   *)
(* its flow table with one reply pump per flow.                            *)
(*                                                                         *)
(* Time is counted in ticks.  A flow's age is the time since its           *)
(* lastActivity, up to the idle timeout; the read deadline of a pump is    *)
(* the number of ticks left.  The mutex flowsMu is held for one step.      *)
(***************************************************************************)
EXTENDS Integers, FiniteSets

CONSTANTS
    Src, Dst,          \* client addresses and original destinations
    PoolNet,           \* destinations inside PoolV4 or PoolV6
    ServerIP,          \* the server's own tunnel addresses
    EnforceIsolation,
    UDPIdleTimeout,    \* in ticks
    udpBatchSize,      \* datagrams per recvmmsg
    FlowId, NoFlow,    \* identities of flows, reused after shutdown
    Tcp                \* identities of TCP connections, reused after their end

ASSUME TProxyAssumption ==
    /\ IsFiniteSet(FlowId) /\ NoFlow \notin FlowId /\ IsFiniteSet(Tcp)
    /\ UDPIdleTimeout \in Nat \ {0} /\ udpBatchSize \in Nat \ {0}
    /\ EnforceIsolation \in BOOLEAN

VARIABLES
    lis,       \* the listener: its state, sockets and WaitGroup
    cancelled, \* the context of Server.Run is done
    tcpLoop,   \* tcpAcceptLoop is running
    conn,      \* the handleTCP goroutines
    udpLoop,   \* udpAcceptLoop: where it is, datagrams left, flow in hand
    flows,     \* the flow table
    flow       \* the flows and their pumps

vars == <<lis, cancelled, tcpLoop, conn, udpLoop, flows, flow>>

Key == Src \X Dst

inPool(a) == a \notin ServerIP /\ a \in PoolNet

Isolated(a) == EnforceIsolation /\ inPool(a)

Shut == [pc |-> "none", key |-> NoFlow, age |-> 0, left |-> 0]
NoConn == [pc |-> "none", halves |-> 0]

Init ==
    /\ lis = [state |-> "new", tcp |-> FALSE, udp |-> FALSE, wg |-> 0]
    /\ cancelled = FALSE
    /\ tcpLoop = FALSE
    /\ conn = [c \in Tcp |-> NoConn]
    /\ udpLoop = [pc |-> "gone", n |-> 0, f |-> NoFlow]
    /\ flows = [k \in Key |-> NoFlow]
    /\ flow = [f \in FlowId |-> Shut]

Set(f, r) == flow' = [flow EXCEPT ![f] = r]

\* t.closed is closed.
Closed == lis.state \in {"closing", "stopped"}

-----------------------------------------------------------------------------
(* Start, Stop, the context *)

StartOK ==
    /\ lis.state = "new"
    /\ lis' = [state |-> "running", tcp |-> TRUE, udp |-> TRUE, wg |-> 2]
    /\ tcpLoop' = TRUE
    /\ udpLoop' = [udpLoop EXCEPT !.pc = "top"]
    /\ UNCHANGED <<cancelled, conn, flows, flow>>

\* Either socket cannot be bound; the TCP listener is closed again.
StartFails ==
    /\ lis.state = "new"
    /\ lis' = [lis EXCEPT !.state = "failed", !.tcp = FALSE]
    /\ UNCHANGED <<cancelled, tcpLoop, conn, udpLoop, flows, flow>>

StopBegins ==
    /\ lis.state = "running"
    /\ lis' = [lis EXCEPT !.state = "closing", !.tcp = FALSE, !.udp = FALSE]
    /\ UNCHANGED <<cancelled, tcpLoop, conn, udpLoop, flows, flow>>

StopReturns ==
    /\ lis.state = "closing" /\ lis.wg = 0
    /\ lis' = [lis EXCEPT !.state = "stopped"]
    /\ UNCHANGED <<cancelled, tcpLoop, conn, udpLoop, flows, flow>>

Cancel ==
    /\ ~cancelled
    /\ cancelled' = TRUE
    /\ UNCHANGED <<lis, tcpLoop, conn, udpLoop, flows, flow>>

-----------------------------------------------------------------------------
(* TCP *)

TcpAccept(c) ==
    /\ tcpLoop /\ lis.tcp /\ conn[c] = NoConn
    /\ conn' = [conn EXCEPT ![c].pc = "dial"]
    /\ UNCHANGED <<lis, cancelled, tcpLoop, udpLoop, flows, flow>>

TcpLoopEnds ==
    /\ tcpLoop /\ ~lis.tcp
    /\ tcpLoop' = FALSE
    /\ lis' = [lis EXCEPT !.wg = @ - 1]
    /\ UNCHANGED <<cancelled, conn, udpLoop, flows, flow>>

\* The rest of handleTCP: refuse an isolated destination, dial, relay.
TcpDial(c) ==
    /\ conn[c].pc = "dial"
    /\ \E d \in Dst :
        \/ conn' = [conn EXCEPT ![c] = NoConn]
        \/ /\ ~Isolated(d) /\ ~cancelled
           /\ conn' = [conn EXCEPT ![c] = [pc |-> "relay", halves |-> 2]]
    /\ UNCHANGED <<lis, cancelled, tcpLoop, udpLoop, flows, flow>>

\* One direction of relayTCP ends and half-closes the other socket; after the
\* second both sockets are closed.
TcpHalfEnds(c) ==
    /\ conn[c].pc = "relay"
    /\ conn' = [conn EXCEPT ![c] = IF @.halves = 2 THEN [@ EXCEPT !.halves = 1] ELSE NoConn]
    /\ UNCHANGED <<lis, cancelled, tcpLoop, udpLoop, flows, flow>>

-----------------------------------------------------------------------------
(* The UDP accept loop *)

UdpReceive ==
    /\ udpLoop.pc = "top" /\ lis.udp
    /\ \E n \in 1..udpBatchSize : udpLoop' = [udpLoop EXCEPT !.pc = "next", !.n = n]
    /\ UNCHANGED <<lis, cancelled, tcpLoop, conn, flows, flow>>

UdpLoopEnds ==
    /\ udpLoop.pc = "top" /\ Closed
    /\ udpLoop' = [udpLoop EXCEPT !.pc = "gone"]
    /\ lis' = [lis EXCEPT !.wg = @ - 1]
    /\ UNCHANGED <<cancelled, tcpLoop, conn, flows, flow>>

Advance(n) == IF n = 1 THEN "top" ELSE "next"

\* A datagram without payload or destination, to an isolated destination, or
\* whose flow cannot be opened, is passed over.
UdpSkip ==
    /\ udpLoop.pc = "next"
    /\ udpLoop' = [udpLoop EXCEPT !.pc = Advance(udpLoop.n), !.n = @ - 1]
    /\ UNCHANGED <<lis, cancelled, tcpLoop, conn, flows, flow>>

\* The datagram's flow is in the table: bump it.
UdpFound(k) ==
    /\ udpLoop.pc = "next" /\ ~Isolated(k[2])
    /\ flows[k] # NoFlow
    /\ Set(flows[k], [flow[flows[k]] EXCEPT !.age = 0])
    /\ udpLoop' = [udpLoop EXCEPT !.pc = "write", !.f = flows[k]]
    /\ UNCHANGED <<lis, cancelled, tcpLoop, conn, flows>>

\* openUDPFlow: both sockets are open, the activity is now.
Opened(k) == [pc |-> "check", key |-> k, age |-> 0, left |-> 0]

\* Which unused identity a new flow takes does not matter.
Spare == {f \in FlowId : flow[f] = Shut}
NewFlow == CHOOSE f \in FlowId : flow[f] = Shut

\* Mutant: the pump is not counted by the WaitGroup.
UdpOpensUncounted(k) ==
    /\ udpLoop.pc = "next" /\ ~Isolated(k[2])
    /\ flows[k] = NoFlow /\ Spare # {}
    /\ Set(NewFlow, Opened(k))
    /\ flows' = [flows EXCEPT ![k] = NewFlow]
    /\ udpLoop' = [udpLoop EXCEPT !.pc = "write", !.f = NewFlow]
    /\ UNCHANGED <<lis, cancelled, tcpLoop, conn>>

\* It is not: open one, enter it, start its pump.
UdpOpens(k) ==
    /\ udpLoop.pc = "next" /\ ~Isolated(k[2])
    /\ flows[k] = NoFlow /\ Spare # {}
    /\ Set(NewFlow, Opened(k))
    /\ flows' = [flows EXCEPT ![k] = NewFlow]
    /\ lis' = [lis EXCEPT !.wg = @ + 1]
    /\ udpLoop' = [udpLoop EXCEPT !.pc = "write", !.f = NewFlow]
    /\ UNCHANGED <<cancelled, tcpLoop, conn>>

\* The write upstream, outside the mutex; its error is ignored.
UdpWrite ==
    /\ udpLoop.pc = "write"
    /\ udpLoop' = [pc |-> Advance(udpLoop.n), n |-> udpLoop.n - 1, f |-> NoFlow]
    /\ UNCHANGED <<lis, cancelled, tcpLoop, conn, flows, flow>>

-----------------------------------------------------------------------------
(* runUDPReplyPump *)

Idle(f) == flow[f].age >= UDPIdleTimeout

\* Mutant: the deadline is a full timeout from now and expiry is not rechecked.
PumpChecksOnce(f) ==
    /\ flow[f].pc = "check"
    /\ Set(f, [flow[f] EXCEPT !.pc = IF cancelled \/ Closed THEN "exit" ELSE "read",
                              !.left = UDPIdleTimeout])
    /\ UNCHANGED <<lis, cancelled, tcpLoop, conn, udpLoop, flows>>

\* Mutant: the pump does not look at t.closed.
PumpChecksDeaf(f) ==
    /\ flow[f].pc = "check"
    /\ Set(f, IF cancelled \/ Idle(f) THEN [flow[f] EXCEPT !.pc = "exit"]
              ELSE [flow[f] EXCEPT !.pc = "read", !.left = UDPIdleTimeout - flow[f].age])
    /\ UNCHANGED <<lis, cancelled, tcpLoop, conn, udpLoop, flows>>

\* The top of the loop: leave, or read until the deadline.
PumpChecks(f) ==
    /\ flow[f].pc = "check"
    /\ Set(f, IF cancelled \/ Closed \/ Idle(f) THEN [flow[f] EXCEPT !.pc = "exit"]
              ELSE [flow[f] EXCEPT !.pc = "read", !.left = UDPIdleTimeout - flow[f].age])
    /\ UNCHANGED <<lis, cancelled, tcpLoop, conn, udpLoop, flows>>

\* A datagram from upstream is passed to the client; an empty one is dropped
\* and counts for nothing.
PumpReads(f) ==
    /\ flow[f].pc = "read"
    /\ \E age \in {0, flow[f].age} :
        Set(f, [flow[f] EXCEPT !.pc = "check", !.age = age, !.left = 0])
    /\ UNCHANGED <<lis, cancelled, tcpLoop, conn, udpLoop, flows>>

PumpTimesOut(f) ==
    /\ flow[f].pc = "read" /\ flow[f].left = 0
    /\ Set(f, [flow[f] EXCEPT !.pc = "check"])
    /\ UNCHANGED <<lis, cancelled, tcpLoop, conn, udpLoop, flows>>

\* The upstream socket reports an error.
PumpFails(f) ==
    /\ flow[f].pc = "read"
    /\ Set(f, [flow[f] EXCEPT !.pc = "exit", !.left = 0])
    /\ UNCHANGED <<lis, cancelled, tcpLoop, conn, udpLoop, flows>>

\* Mutant: the flow is shut down first and taken out of the table afterwards.
PumpShutsFirst(f) ==
    /\ flow[f].pc = "exit"
    /\ Set(f, [flow[f] EXCEPT !.pc = "shut"])
    /\ UNCHANGED <<lis, cancelled, tcpLoop, conn, udpLoop, flows>>

\* The deferred function, under the mutex ...
PumpDeletes(f) ==
    /\ flow[f].pc = "exit"
    /\ flows' = [k \in Key |-> IF k = flow[f].key /\ flows[k] = f THEN NoFlow ELSE flows[k]]
    /\ Set(f, [flow[f] EXCEPT !.pc = "shut"])
    /\ UNCHANGED <<lis, cancelled, tcpLoop, conn, udpLoop>>

\* ... and after it: shutdown closes both sockets, then wg.Done.
PumpEnds(f) ==
    /\ flow[f].pc = "shut"
    /\ Set(f, Shut)
    /\ lis' = [lis EXCEPT !.wg = @ - 1]
    /\ UNCHANGED <<cancelled, tcpLoop, conn, udpLoop, flows>>

\* Time passes.
Aged(r) ==
    [pc |-> r.pc, key |-> r.key,
     age |-> IF r.age < UDPIdleTimeout THEN r.age + 1 ELSE r.age,
     left |-> IF r.left > 0 THEN r.left - 1 ELSE 0]

Tick ==
    /\ flow' = [f \in FlowId |-> IF flow[f] = Shut THEN Shut ELSE Aged(flow[f])]
    /\ UNCHANGED <<lis, cancelled, tcpLoop, conn, udpLoop, flows>>

-----------------------------------------------------------------------------
UdpLoop ==
    \/ UdpReceive \/ UdpLoopEnds \/ UdpSkip \/ UdpWrite
    \/ \E k \in Key : UdpFound(k)
    \/ \E k \in Key : UdpOpens(k)

Pump(f) ==
    \/ PumpChecks(f) \/ PumpReads(f) \/ PumpTimesOut(f) \/ PumpFails(f)
    \/ PumpDeletes(f) \/ PumpEnds(f)

Next ==
    \/ StartOK \/ StartFails \/ StopBegins \/ StopReturns \/ Cancel
    \/ TcpLoopEnds
    \/ \E c \in Tcp : TcpAccept(c) \/ TcpDial(c) \/ TcpHalfEnds(c)
    \/ UdpLoop
    \/ \E f \in FlowId : Pump(f)
    \/ Tick

Spec == Init /\ [][Next]_vars

\* Goroutines run and time passes; no datagram or error need ever arrive.
Fairness ==
    /\ WF_vars(Tick)
    /\ WF_vars(StopReturns) /\ WF_vars(TcpLoopEnds) /\ WF_vars(UdpLoopEnds)
    /\ WF_vars(UdpSkip \/ UdpWrite)
    /\ \A f \in FlowId : /\ WF_vars(PumpChecks(f)) /\ WF_vars(PumpTimesOut(f))
                         /\ WF_vars(PumpDeletes(f)) /\ WF_vars(PumpEnds(f))

FairSpec == Spec /\ Fairness

-----------------------------------------------------------------------------
(* Properties *)

\* The table and the flows belong together: an entry leads to the one flow of
\* its key whose sockets are open and whose pump has not yet left, and every
\* such flow is in the table.  A datagram is never looked up to a flow that is
\* shut down, and no flow is stranded outside the table with a running pump
\* (udpAcceptLoop and runUDPReplyPump around flowsMu).
TableSound ==
    \A f \in FlowId, k \in Key :
        flows[k] = f <=> flow[f].pc \in {"check", "read", "exit"} /\ flow[f].key = k

\* When Stop has returned, both accept loops and all pumps have ended and every
\* socket of a flow is closed ("waits for the accept and flow goroutines to
\* drain", Stop).  TCP relays are not among them: nothing waits for handleTCP.
UdpDrained ==
    lis.state = "stopped" =>
        ~tcpLoop /\ udpLoop.pc = "gone" /\ \A f \in FlowId : flow[f] = Shut

\* A flow is not kept for ever: from any time on it is shut down or sees new
\* traffic (the pump's idle deadline against bump from the accept loop).
IdleFlowsEnd == \A f \in FlowId : []<>(flow[f] = Shut \/ flow[f].age = 0)

\* Stop returns, whatever the flows are doing when it is called.
StopTerminates == lis.state = "closing" ~> lis.state = "stopped"
=============================================================================
