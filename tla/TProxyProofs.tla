---------------------------- MODULE TProxyProofs ----------------------------
(***************************************************************************)
(* The flow table agrees with the reply pumps, and Stop returns only when  *)
(* the accept loops and all pumps have ended, for any clients,             *)
(* destinations, timeouts and numbers of flows.                            *)
(***************************************************************************)
EXTENDS TProxy, FiniteSetTheorems, TLAPS

FlowType == [pc : {"none", "check", "read", "exit", "shut"},
             key : Key \cup {NoFlow}, age : Nat, left : Nat]

ListenerType == [state : {"new", "failed", "running", "closing", "stopped"},
                 tcp : BOOLEAN, udp : BOOLEAN, wg : Int]

UdpLoopType == [pc : {"gone", "top", "next", "write"}, n : Int, f : FlowId \cup {NoFlow}]

\* The flows whose pump has not called wg.Done.
Pumps == {f \in FlowId : flow[f].pc # "none"}

One(b) == IF b THEN 1 ELSE 0

\* The part of the invariant about the table.
TableInv ==
    /\ flow \in [FlowId -> FlowType]
    /\ flows \in [Key -> FlowId \cup {NoFlow}]
    /\ \A f \in FlowId : flow[f].pc = "none" => flow[f] = Shut
    /\ TableSound

\* The part about Stop: the WaitGroup counts the goroutines that run, and none
\* run before Start.
CountInv ==
    /\ lis \in ListenerType
    /\ udpLoop \in UdpLoopType
    /\ tcpLoop \in BOOLEAN
    /\ lis.wg = One(tcpLoop) + One(udpLoop.pc # "gone") + Cardinality(Pumps)
    /\ lis.state \in {"new", "failed", "stopped"} =>
        ~tcpLoop /\ udpLoop.pc = "gone" /\ Pumps = {}

-----------------------------------------------------------------------------
\* A step that leaves the table alone, and changes one flow without changing
\* its key or whether it is in the table, keeps the table sound.
LEMMA SetKeepsTable ==
    ASSUME TableInv, NEW f \in FlowId, NEW r \in FlowType, Set(f, r), UNCHANGED flows,
           r.key = flow[f].key, flow[f].pc # "none", r.pc # "none",
           r.pc \in {"check", "read", "exit"} <=> flow[f].pc \in {"check", "read", "exit"}
    PROVE  TableInv' /\ Pumps' = Pumps
<1>1. /\ flow' \in [FlowId -> FlowType]
      /\ flow'[f] = r
      /\ \A g \in FlowId : g # f => flow'[g] = flow[g]
  BY DEF TableInv, Set
<1>2. \A g \in FlowId : flow'[g].pc = "none" => flow'[g] = Shut
  BY <1>1 DEF TableInv
<1>3. TableSound'
  BY <1>1 DEF TableInv, TableSound
<1>4. Pumps' = Pumps
  BY <1>1 DEF Pumps
<1> QED  BY <1>1, <1>2, <1>3, <1>4 DEF TableInv

\* A new flow takes an identity whose last flow is shut down.
LEMMA NewFlowSpare ==
    ASSUME Spare # {}
    PROVE  NewFlow \in FlowId /\ flow[NewFlow] = Shut
BY DEF Spare, NewFlow

LEMMA OpensKeepsTable ==
    ASSUME TableInv, NEW k \in Key, UdpOpens(k)
    PROVE  TableInv' /\ NewFlow \in FlowId \ Pumps /\ Pumps' = Pumps \cup {NewFlow}
<1> DEFINE g == NewFlow
<1>1. g \in FlowId /\ flow[g] = Shut
  BY NewFlowSpare DEF UdpOpens
<1>2. /\ Opened(k) \in FlowType
      /\ Opened(k).pc = "check" /\ Opened(k).key = k
      /\ Shut.pc = "none"
  BY DEF Opened, FlowType, Shut
<1> HIDE DEF g
<1>3. flow' = [flow EXCEPT ![g] = Opened(k)] /\ flows' = [flows EXCEPT ![k] = g]
  BY DEF UdpOpens, Set, g
<1>4. /\ flow' \in [FlowId -> FlowType]
      /\ flow'[g] = Opened(k)
      /\ \A f \in FlowId : f # g => flow'[f] = flow[f]
  BY <1>1, <1>2, <1>3 DEF TableInv
<1>5. /\ flows' \in [Key -> FlowId \cup {NoFlow}]
      /\ flows'[k] = g
      /\ \A l \in Key : l # k => flows'[l] = flows[l]
  BY <1>1, <1>3 DEF TableInv
<1>6. \A f \in FlowId : flow'[f].pc = "none" => flow'[f] = Shut
  BY <1>2, <1>4 DEF TableInv
<1>7. flows[k] = NoFlow /\ NoFlow \notin FlowId
  BY TProxyAssumption DEF UdpOpens
<1>8. TableSound'
  BY <1>1, <1>2, <1>4, <1>5, <1>7 DEF TableInv, TableSound
<1>9. g \notin Pumps /\ Pumps' = Pumps \cup {g}
  BY <1>1, <1>2, <1>4 DEF Pumps
<1> QED  BY <1>1, <1>4, <1>5, <1>6, <1>8, <1>9 DEF TableInv, g

LEMMA DeletesKeepsTable ==
    ASSUME TableInv, NEW f \in FlowId, PumpDeletes(f)
    PROVE  TableInv' /\ Pumps' = Pumps
<1> DEFINE r == [flow[f] EXCEPT !.pc = "shut"]
<1>1. flow[f].pc = "exit" /\ flow[f] \in FlowType
  BY DEF PumpDeletes, TableInv
<1>2. r \in FlowType /\ r.pc = "shut" /\ r.key = flow[f].key
  BY <1>1 DEF FlowType
<1>3. /\ flow' = [flow EXCEPT ![f] = r]
      /\ flows' = [k \in Key |-> IF k = flow[f].key /\ flows[k] = f THEN NoFlow ELSE flows[k]]
  BY DEF PumpDeletes, Set
<1> HIDE DEF r
<1>4. /\ flow' \in [FlowId -> FlowType]
      /\ flow'[f] = r
      /\ \A g \in FlowId : g # f => flow'[g] = flow[g]
  BY <1>2, <1>3 DEF TableInv
<1>5. /\ flows' \in [Key -> FlowId \cup {NoFlow}]
      /\ \A k \in Key : flows'[k] = IF k = flow[f].key /\ flows[k] = f THEN NoFlow ELSE flows[k]
  BY <1>3 DEF TableInv
<1>6. \A g \in FlowId : flow'[g].pc = "none" => flow'[g] = Shut
  BY <1>2, <1>4 DEF TableInv
<1>7. TableSound'
  BY <1>1, <1>2, <1>4, <1>5, TProxyAssumption DEF TableInv, TableSound
<1>8. Pumps' = Pumps
  BY <1>1, <1>2, <1>4 DEF Pumps
<1> QED  BY <1>4, <1>5, <1>6, <1>7, <1>8 DEF TableInv

LEMMA EndsKeepsTable ==
    ASSUME TableInv, NEW f \in FlowId, PumpEnds(f)
    PROVE  TableInv' /\ f \in Pumps /\ Pumps' = Pumps \ {f}
<1>1. flow[f].pc = "shut" /\ flow' = [flow EXCEPT ![f] = Shut] /\ UNCHANGED flows
  BY DEF PumpEnds, Set
<1>2. Shut \in FlowType /\ Shut.pc = "none"
  BY DEF FlowType, Shut
<1>3. /\ flow' \in [FlowId -> FlowType]
      /\ flow'[f] = Shut
      /\ \A g \in FlowId : g # f => flow'[g] = flow[g]
  BY <1>1, <1>2 DEF TableInv
<1>4. TableSound'
  BY <1>1, <1>2, <1>3 DEF TableInv, TableSound
<1>5. f \in Pumps /\ Pumps' = Pumps \ {f}
  BY <1>1, <1>2, <1>3 DEF Pumps
<1> QED  BY <1>1, <1>3, <1>4, <1>5 DEF TableInv

LEMMA TickKeepsTable ==
    ASSUME TableInv, Tick
    PROVE  TableInv' /\ Pumps' = Pumps
<1>1. Shut \in FlowType /\ Shut.pc = "none"
  BY DEF FlowType, Shut
<1>2. ASSUME NEW f \in FlowId
      PROVE  /\ Aged(flow[f]) \in FlowType
             /\ Aged(flow[f]).pc = flow[f].pc /\ Aged(flow[f]).key = flow[f].key
  <2>1. flow[f] \in FlowType
    BY DEF TableInv
  <2> QED  BY <2>1 DEF FlowType, Aged
<1>3. flow' = [f \in FlowId |-> IF flow[f] = Shut THEN Shut ELSE Aged(flow[f])] /\ flows' = flows
  BY DEF Tick
<1>4. flow' \in [FlowId -> FlowType]
  BY <1>1, <1>2, <1>3
<1>5. ASSUME NEW f \in FlowId
      PROVE  /\ flow'[f].pc = flow[f].pc /\ flow'[f].key = flow[f].key
             /\ flow[f].pc = "none" => flow'[f] = Shut
  BY <1>1, <1>2, <1>3 DEF TableInv
<1>6. TableSound'
  BY <1>3, <1>5 DEF TableInv, TableSound
<1>7. Pumps' = Pumps
  BY <1>5 DEF Pumps
<1>8. flows' \in [Key -> FlowId \cup {NoFlow}]
  BY <1>3 DEF TableInv
<1>9. \A f \in FlowId : flow'[f].pc = "none" => flow'[f] = Shut
  BY <1>5
<1> QED  BY <1>4, <1>6, <1>7, <1>8, <1>9 DEF TableInv

-----------------------------------------------------------------------------
LEMMA PumpsFinite == IsFiniteSet(Pumps) /\ Cardinality(Pumps) \in Nat
<1>1. Pumps \subseteq FlowId
  BY DEF Pumps
<1> QED  BY <1>1, FS_Subset, FS_CardinalityType, TProxyAssumption

\* A step that starts and ends no goroutine keeps the count.
LEMMA CountSame ==
    ASSUME CountInv, Pumps' = Pumps, UNCHANGED <<lis, tcpLoop>>,
           udpLoop' \in UdpLoopType, udpLoop'.pc = "gone" <=> udpLoop.pc = "gone"
    PROVE  CountInv'
BY DEF CountInv

LEMMA StartCounts == ASSUME CountInv, StartOK, Pumps' = Pumps PROVE CountInv'
<1>1. lis.state = "new"
  BY DEF StartOK
<1>2. /\ lis' = [state |-> "running", tcp |-> TRUE, udp |-> TRUE, wg |-> 2]
      /\ tcpLoop' = TRUE
      /\ udpLoop' = [udpLoop EXCEPT !.pc = "top"]
  BY DEF StartOK
<1>3. udpLoop' \in UdpLoopType /\ udpLoop'.pc = "top"
  BY <1>2 DEF CountInv, UdpLoopType
<1>4. lis' \in ListenerType /\ lis'.wg = 2 /\ lis'.state = "running"
  BY <1>2 DEF ListenerType
<1>5. Cardinality(Pumps') = 0
  BY <1>1, FS_EmptySet DEF CountInv
<1> QED  BY <1>2, <1>3, <1>4, <1>5 DEF CountInv, One

\* Stop returns only with nothing left to count.
LEMMA StopCounts == ASSUME CountInv, StopReturns, Pumps' = Pumps PROVE CountInv'
<1>1. lis.wg = 0 /\ lis \in ListenerType
  BY DEF StopReturns, CountInv
<1>2. lis' = [lis EXCEPT !.state = "stopped"] /\ UNCHANGED <<tcpLoop, udpLoop>>
  BY DEF StopReturns
<1>3. lis' \in ListenerType /\ lis'.wg = 0 /\ lis'.state = "stopped"
  BY <1>1, <1>2 DEF ListenerType
<1>4. One(tcpLoop) = 0 /\ One(udpLoop.pc # "gone") = 0 /\ Cardinality(Pumps) = 0
  BY <1>1, PumpsFinite DEF CountInv, One
<1>5. ~tcpLoop /\ udpLoop.pc = "gone"
  BY <1>4 DEF One, CountInv
<1>6. Pumps = {}
  BY <1>4, PumpsFinite, FS_EmptySet
<1> QED  BY <1>1, <1>2, <1>3, <1>5, <1>6 DEF CountInv

\* StopBegins and StartFails change nothing that is counted.
LEMMA ListenerCounts ==
    ASSUME CountInv, StartFails \/ StopBegins, Pumps' = Pumps
    PROVE  CountInv'
<1>1. lis \in ListenerType
  BY DEF CountInv
<1>2. CASE StartFails
  <2>1. /\ lis.state = "new" /\ lis' = [lis EXCEPT !.state = "failed", !.tcp = FALSE]
        /\ UNCHANGED <<tcpLoop, udpLoop>>
    BY <1>2 DEF StartFails
  <2>2. lis' \in ListenerType /\ lis'.wg = lis.wg
    BY <1>1, <2>1, Zenon DEF ListenerType
  <2> QED  BY <2>1, <2>2 DEF CountInv
<1>3. CASE StopBegins
  <2>1. /\ lis' = [lis EXCEPT !.state = "closing", !.tcp = FALSE, !.udp = FALSE]
        /\ UNCHANGED <<tcpLoop, udpLoop>>
    BY <1>3 DEF StopBegins
  <2>2. lis' \in ListenerType /\ lis'.wg = lis.wg /\ lis'.state = "closing"
    BY <1>1, <2>1, Zenon DEF ListenerType
  <2> QED  BY <2>1, <2>2 DEF CountInv
<1> QED  BY <1>2, <1>3

\* An accept loop ends and is no longer counted.
LEMMA LoopEndCounts ==
    ASSUME CountInv, TcpLoopEnds \/ UdpLoopEnds, Pumps' = Pumps
    PROVE  CountInv'
<1>1. lis \in ListenerType /\ udpLoop \in UdpLoopType
  BY DEF CountInv
<1>2. lis' = [lis EXCEPT !.wg = lis.wg - 1]
  BY DEF TcpLoopEnds, UdpLoopEnds
<1>3. lis' \in ListenerType /\ lis'.wg = lis.wg - 1 /\ lis'.state = lis.state
  BY <1>1, <1>2 DEF ListenerType
<1>4. CASE TcpLoopEnds
  <2>1. tcpLoop = TRUE /\ tcpLoop' = FALSE /\ UNCHANGED udpLoop
    BY <1>4 DEF TcpLoopEnds, CountInv
  <2>2. lis'.wg = One(tcpLoop') + One(udpLoop'.pc # "gone") + Cardinality(Pumps')
    BY <1>1, <1>3, <2>1, PumpsFinite DEF CountInv, One
  <2>3. lis.state \notin {"new", "failed", "stopped"}
    BY <2>1 DEF CountInv
  <2> QED  BY <1>1, <1>3, <2>1, <2>2, <2>3, Zenon DEF CountInv
<1>5. CASE UdpLoopEnds
  <2>1. udpLoop.pc = "top" /\ udpLoop' = [udpLoop EXCEPT !.pc = "gone"] /\ UNCHANGED tcpLoop
    BY <1>5 DEF UdpLoopEnds
  <2>2. udpLoop' \in UdpLoopType /\ udpLoop'.pc = "gone"
    BY <1>1, <2>1 DEF UdpLoopType
  <2>3. lis'.wg = One(tcpLoop') + One(udpLoop'.pc # "gone") + Cardinality(Pumps')
    BY <1>1, <1>3, <2>1, <2>2, PumpsFinite DEF CountInv, One
  <2>4. lis.state \notin {"new", "failed", "stopped"}
    BY <2>1 DEF CountInv
  <2> QED  BY <1>1, <1>3, <2>1, <2>2, <2>3, <2>4 DEF CountInv
<1> QED  BY <1>4, <1>5

\* A flow is opened and its pump counted; a pump ends and is not.
LEMMA OpenCounts ==
    ASSUME TableInv, CountInv, NEW k \in Key, UdpOpens(k)
    PROVE  CountInv'
<1>1. NewFlow \in FlowId \ Pumps /\ Pumps' = Pumps \cup {NewFlow}
  BY OpensKeepsTable
<1>2. Cardinality(Pumps') = Cardinality(Pumps) + 1
  BY <1>1, PumpsFinite, FS_AddElement, Zenon
<1>3. lis \in ListenerType /\ udpLoop \in UdpLoopType /\ udpLoop.pc = "next"
  BY DEF UdpOpens, CountInv
<1>4. /\ lis' = [lis EXCEPT !.wg = lis.wg + 1]
      /\ udpLoop' = [udpLoop EXCEPT !.pc = "write", !.f = NewFlow]
      /\ tcpLoop' = tcpLoop
  BY DEF UdpOpens
<1>5. lis' \in ListenerType /\ lis'.wg = lis.wg + 1 /\ lis'.state = lis.state
  BY <1>3, <1>4 DEF ListenerType
<1>6. udpLoop' \in UdpLoopType /\ udpLoop'.pc = "write"
  BY <1>1, <1>3, <1>4, Zenon DEF UdpLoopType
<1>7. lis'.wg = One(tcpLoop') + One(udpLoop'.pc # "gone") + Cardinality(Pumps')
  BY <1>2, <1>3, <1>4, <1>5, <1>6, PumpsFinite DEF CountInv, One
<1>8. lis.state \notin {"new", "failed", "stopped"}
  BY <1>3 DEF CountInv
<1> QED  BY <1>4, <1>5, <1>6, <1>7, <1>8 DEF CountInv

LEMMA EndCounts ==
    ASSUME TableInv, CountInv, NEW f \in FlowId, PumpEnds(f)
    PROVE  CountInv'
<1>1. f \in Pumps /\ Pumps' = Pumps \ {f}
  BY EndsKeepsTable
<1>2. Cardinality(Pumps') = Cardinality(Pumps) - 1
  BY <1>1, PumpsFinite, FS_RemoveElement, Zenon
<1>3. lis \in ListenerType /\ udpLoop \in UdpLoopType
  BY DEF CountInv
<1>4. /\ lis' = [lis EXCEPT !.wg = lis.wg - 1]
      /\ UNCHANGED <<tcpLoop, udpLoop>>
  BY DEF PumpEnds
<1>5. lis' \in ListenerType /\ lis'.wg = lis.wg - 1 /\ lis'.state = lis.state
  BY <1>3, <1>4 DEF ListenerType
<1>6. lis'.wg = One(tcpLoop') + One(udpLoop'.pc # "gone") + Cardinality(Pumps')
  BY <1>2, <1>3, <1>4, <1>5, PumpsFinite DEF CountInv, One
<1>7. lis.state \notin {"new", "failed", "stopped"}
  BY <1>1 DEF CountInv
<1> QED  BY <1>3, <1>4, <1>5, <1>6, <1>7 DEF CountInv

-----------------------------------------------------------------------------
IInv == TableInv /\ CountInv

LEMMA TProxyInit == Init => IInv
<1> SUFFICES ASSUME Init PROVE IInv
  OBVIOUS
<1>1. /\ flow = [f \in FlowId |-> Shut] /\ flows = [k \in Key |-> NoFlow]
      /\ Shut \in FlowType /\ Shut.pc = "none"
  BY DEF Init, Shut, FlowType
<1>2. Pumps = {}
  BY <1>1 DEF Pumps
<1>3. TableSound
  BY <1>1, TProxyAssumption DEF TableSound
<1>4. TableInv
  BY <1>1, <1>3 DEF TableInv
<1>5. lis \in ListenerType /\ lis.wg = 0 /\ udpLoop \in UdpLoopType /\ udpLoop.pc = "gone"
  BY DEF Init, ListenerType, UdpLoopType
<1>6. tcpLoop = FALSE /\ Cardinality(Pumps) = 0
  BY <1>2, FS_EmptySet DEF Init
<1>7. lis.wg = One(tcpLoop) + One(udpLoop.pc # "gone") + Cardinality(Pumps)
  BY <1>5, <1>6 DEF One
<1>8. CountInv
  BY <1>2, <1>5, <1>6, <1>7, Zenon DEF CountInv
<1> QED  BY <1>4, <1>8 DEF IInv

\* A step that touches neither flows nor table.
LEMMA TableSame ==
    ASSUME TableInv, UNCHANGED <<flows, flow>>
    PROVE  TableInv' /\ Pumps' = Pumps
BY DEF TableInv, TableSound, Pumps

\* The accept loop's steps that start and end nothing.
LEMMA UdpCounts ==
    ASSUME CountInv, Pumps' = Pumps,
           UdpReceive \/ UdpSkip \/ UdpWrite \/ \E k \in Key : UdpFound(k) /\ flows[k] \in FlowId
    PROVE  CountInv'
<1>1. udpLoop \in UdpLoopType /\ udpLoop.pc # "gone"
  BY Zenon DEF CountInv, UdpReceive, UdpSkip, UdpWrite, UdpFound
<1>2. UNCHANGED <<lis, tcpLoop>>
  BY Zenon DEF UdpReceive, UdpSkip, UdpWrite, UdpFound
<1>3. udpLoop' \in UdpLoopType /\ udpLoop'.pc # "gone"
  <2>1. CASE UdpReceive
    <3>1. PICK n \in 1..udpBatchSize : udpLoop' = [udpLoop EXCEPT !.pc = "next", !.n = n]
      BY <2>1, Zenon DEF UdpReceive
    <3>2. n \in Int
      BY TProxyAssumption
    <3> QED  BY <1>1, <3>1, <3>2, Zenon DEF UdpLoopType
  <2>2. CASE UdpSkip
    <3>1. Advance(udpLoop.n) \in {"top", "next"} /\ udpLoop.n - 1 \in Int
      BY <1>1 DEF UdpLoopType, Advance
    <3>2. udpLoop' = [udpLoop EXCEPT !.pc = Advance(udpLoop.n), !.n = udpLoop.n - 1]
      BY <1>1, <2>2 DEF UdpSkip
    <3> QED  BY <1>1, <3>1, <3>2, Zenon DEF UdpLoopType
  <2>3. CASE UdpWrite
    BY <1>1, <2>3 DEF UdpWrite, UdpLoopType, Advance
  <2>4. CASE \E k \in Key : UdpFound(k) /\ flows[k] \in FlowId
    <3>1. PICK k \in Key : UdpFound(k) /\ flows[k] \in FlowId
      BY <2>4
    <3>2. udpLoop' = [udpLoop EXCEPT !.pc = "write", !.f = flows[k]]
      BY <3>1, Zenon DEF UdpFound
    <3> QED  BY <1>1, <3>1, <3>2, Zenon DEF UdpLoopType
  <2> QED  BY <2>1, <2>2, <2>3, <2>4
<1> QED  BY <1>1, <1>2, <1>3, CountSame

\* A pump's steps inside its loop.
LEMMA PumpKeepsTable ==
    ASSUME TableInv, NEW f \in FlowId,
           PumpChecks(f) \/ PumpReads(f) \/ PumpTimesOut(f) \/ PumpFails(f)
    PROVE  TableInv' /\ Pumps' = Pumps
<1>1. flow[f] \in FlowType /\ flow[f].pc \in {"check", "read"} /\ UNCHANGED flows
  BY DEF TableInv, PumpChecks, PumpReads, PumpTimesOut, PumpFails
<1>2. \E r \in FlowType : Set(f, r) /\ r.key = flow[f].key /\ r.pc \in {"check", "read", "exit"}
  <2>1. CASE PumpChecks(f)
    <3>1. CASE cancelled \/ Closed \/ Idle(f)
      <4> DEFINE r == [flow[f] EXCEPT !.pc = "exit"]
      <4>1. r \in FlowType /\ r.key = flow[f].key /\ r.pc = "exit"
        BY <1>1 DEF FlowType
      <4>2. Set(f, r)
        BY <2>1, <3>1 DEF PumpChecks
      <4> QED  BY <4>1, <4>2, Zenon
    <3>2. CASE ~(cancelled \/ Closed \/ Idle(f))
      <4> DEFINE r == [flow[f] EXCEPT !.pc = "read", !.left = UDPIdleTimeout - flow[f].age]
      <4>1. UDPIdleTimeout - flow[f].age \in Nat
        BY <1>1, <3>2, TProxyAssumption DEF Idle, FlowType
      <4>2. r \in FlowType /\ r.key = flow[f].key /\ r.pc = "read"
        BY <1>1, <4>1, Zenon DEF FlowType
      <4>3. Set(f, r)
        BY <2>1, <3>2 DEF PumpChecks
      <4> QED  BY <4>2, <4>3, Zenon
    <3> QED  BY <3>1, <3>2
  <2>2. CASE PumpReads(f)
    <3>1. PICK a \in {0, flow[f].age} : Set(f, [flow[f] EXCEPT !.pc = "check", !.age = a, !.left = 0])
      BY <2>2, Zenon DEF PumpReads
    <3> DEFINE r == [flow[f] EXCEPT !.pc = "check", !.age = a, !.left = 0]
    <3>2. a \in Nat
      BY <1>1 DEF FlowType
    <3>3. r \in FlowType /\ r.key = flow[f].key /\ r.pc = "check"
      BY <1>1, <3>2, Zenon DEF FlowType
    <3> QED  BY <3>1, <3>3, Zenon
  <2>3. CASE PumpTimesOut(f)
    <3> DEFINE r == [flow[f] EXCEPT !.pc = "check"]
    <3>1. r \in FlowType /\ r.key = flow[f].key /\ r.pc = "check"
      BY <1>1 DEF FlowType
    <3> QED  BY <2>3, <3>1, Zenon DEF PumpTimesOut
  <2>4. CASE PumpFails(f)
    <3> DEFINE r == [flow[f] EXCEPT !.pc = "exit", !.left = 0]
    <3>1. r \in FlowType /\ r.key = flow[f].key /\ r.pc = "exit"
      BY <1>1, Zenon DEF FlowType
    <3> QED  BY <2>4, <3>1, Zenon DEF PumpFails
  <2> QED  BY <2>1, <2>2, <2>3, <2>4
<1> QED  BY <1>1, <1>2, SetKeepsTable

LEMMA FoundKeepsTable ==
    ASSUME TableInv, NEW k \in Key, UdpFound(k)
    PROVE  TableInv' /\ Pumps' = Pumps /\ flows[k] \in FlowId
<1>1. flows[k] \in FlowId /\ UNCHANGED flows
  BY DEF UdpFound, TableInv
<1>2. flow[flows[k]] \in FlowType /\ flow[flows[k]].pc \in {"check", "read", "exit"}
  BY <1>1 DEF TableInv, TableSound
<1> DEFINE r == [flow[flows[k]] EXCEPT !.age = 0]
<1>3. r \in FlowType /\ r.key = flow[flows[k]].key /\ r.pc = flow[flows[k]].pc
  BY <1>2 DEF FlowType
<1>4. Set(flows[k], r)
  BY DEF UdpFound
<1> HIDE DEF r
<1> QED  BY <1>1, <1>2, <1>3, <1>4, SetKeepsTable

LEMMA TProxyStep == IInv /\ [Next]_vars => IInv'
<1> SUFFICES ASSUME IInv, [Next]_vars PROVE IInv'
  OBVIOUS
<1> USE DEF IInv
<1>1. CASE StartOK
  BY <1>1, TableSame, StartCounts DEF StartOK
<1>2. CASE StartFails \/ StopBegins
  BY <1>2, TableSame, ListenerCounts DEF StartFails, StopBegins
<1>3. CASE StopReturns
  BY <1>3, TableSame, StopCounts DEF StopReturns
<1>4. CASE \/ Cancel
           \/ \E c \in Tcp : TcpAccept(c) \/ TcpDial(c) \/ TcpHalfEnds(c)
           \/ UNCHANGED vars
  <2>1. UNCHANGED <<lis, tcpLoop, udpLoop, flows, flow>>
    BY <1>4 DEF Cancel, TcpAccept, TcpDial, TcpHalfEnds, vars
  <2>2. udpLoop' \in UdpLoopType
    BY <2>1 DEF CountInv
  <2> QED  BY <2>1, <2>2, TableSame, CountSame
<1>5. CASE TcpLoopEnds \/ UdpLoopEnds
  BY <1>5, TableSame, LoopEndCounts, Zenon DEF TcpLoopEnds, UdpLoopEnds
<1>6. CASE UdpReceive \/ UdpSkip \/ UdpWrite
  BY <1>6, TableSame, UdpCounts, Zenon DEF UdpReceive, UdpSkip, UdpWrite
<1>7. ASSUME NEW k \in Key, UdpFound(k) PROVE IInv'
  BY <1>7, FoundKeepsTable, UdpCounts
<1>8. ASSUME NEW k \in Key, UdpOpens(k) PROVE IInv'
  BY <1>8, OpensKeepsTable, OpenCounts
<1>9. ASSUME NEW f \in FlowId, Pump(f) PROVE IInv'
  <2>1. CASE PumpChecks(f) \/ PumpReads(f) \/ PumpTimesOut(f) \/ PumpFails(f)
    <3>1. UNCHANGED <<lis, tcpLoop, udpLoop>>
      BY <2>1 DEF PumpChecks, PumpReads, PumpTimesOut, PumpFails
    <3>2. udpLoop' \in UdpLoopType
      BY <3>1 DEF CountInv
    <3> QED  BY <2>1, <3>1, <3>2, PumpKeepsTable, CountSame
  <2>2. CASE PumpDeletes(f)
    <3>1. UNCHANGED <<lis, tcpLoop, udpLoop>>
      BY <2>2 DEF PumpDeletes
    <3>2. udpLoop' \in UdpLoopType
      BY <3>1 DEF CountInv
    <3> QED  BY <2>2, <3>1, <3>2, DeletesKeepsTable, CountSame
  <2>3. CASE PumpEnds(f)
    BY <2>3, EndsKeepsTable, EndCounts
  <2> QED  BY <1>9, <2>1, <2>2, <2>3 DEF Pump
<1>10. CASE Tick
  <2>1. UNCHANGED <<lis, tcpLoop, udpLoop>>
    BY <1>10 DEF Tick
  <2>2. udpLoop' \in UdpLoopType
    BY <2>1 DEF CountInv
  <2> QED  BY <1>10, <2>1, <2>2, TickKeepsTable, CountSame
<1> QED
  BY <1>1, <1>2, <1>3, <1>4, <1>5, <1>6, <1>7, <1>8, <1>9, <1>10 DEF Next, UdpLoop

\* The inductive invariant: the table and its pumps agree, and the WaitGroup
\* counts exactly the goroutines that Stop has to wait for.
THEOREM TProxyInvariant == Spec => []IInv
BY TProxyInit, TProxyStep, PTL DEF Spec

\* The flow table leads exactly to the flows whose pump is running, for any
\* clients, destinations and numbers of flows (udpAcceptLoop, runUDPReplyPump).
THEOREM TProxyTableSound == Spec => []TableSound
<1>1. IInv => TableSound
  BY DEF IInv, TableInv
<1> QED  BY <1>1, TProxyInvariant, PTL

\* Once Stop has returned no accept loop and no pump runs (Stop's wg.Wait).
THEOREM TProxyUdpDrained == Spec => []UdpDrained
<1>1. IInv => UdpDrained
  BY DEF IInv, TableInv, CountInv, UdpDrained, Pumps
<1> QED  BY <1>1, TProxyInvariant, PTL
=============================================================================
