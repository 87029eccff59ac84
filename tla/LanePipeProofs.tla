--------------------------- MODULE LanePipeProofs ---------------------------
(***************************************************************************)
(* Proofs about LanePipe, for every set of packet sizes, every number of   *)
(* packets and every capacity: the counters of the two seals stay in step, *)
(* length fields are true unless one packet alone is too large for them,   *)
(* and the lane is a first-in-first-out pipe (PacketPipe).                 *)
(***************************************************************************)
EXTENDS LanePipe, SequenceTheorems, NaturalsInduction, WellFoundedInduction, TLAPS

-----------------------------------------------------------------------------
(* The queue of the stack *)

DevType == [kind : {"tun", "netstack"}, state : {"running", "closed"},
            writer : Packet \cup {NoPacket}]

QueueInv ==
    /\ dev \in DevType
    /\ next \in Nat \ {0}

\* At the start, and
LEMMA QueueInit == Init => QueueInv
<1> SUFFICES ASSUME Init PROVE QueueInv
  OBVIOUS
<1>1. /\ dev \in [kind : {"tun", "netstack"}, state : {"running"}, writer : {NoPacket}]
      /\ next = 1
  BY Zenon DEF Init
<1>2. dev \in DevType
  BY <1>1, Zenon DEF DevType
<1> QED  BY <1>1, <1>2 DEF QueueInv

\* after every step.
LEMMA QueueStep == QueueInv /\ [Next]_vars => QueueInv'
<1> SUFFICES ASSUME QueueInv, [Next]_vars PROVE QueueInv'
  OBVIOUS
<1> USE DEF QueueInv
<1>1. CASE WriteChecks
  <2>1. PICK n \in Sizes : dev' = [dev EXCEPT !.writer = [id |-> next, size |-> n]]
    BY <1>1 DEF WriteChecks
  <2>2. next <= MaxPackets /\ next' = next + 1 /\ dev.state = "running"
    BY <1>1 DEF WriteChecks
  <2>3. [id |-> next, size |-> n] \in Packet
    BY <2>2, PipeAssumption DEF Packet
  <2> QED  BY <2>1, <2>2, <2>3 DEF DevType
<1>2. CASE WriteSends \/ WritePanics
  <2>1. dev' = [dev EXCEPT !.writer = NoPacket] /\ UNCHANGED next
    BY <1>2, Zenon DEF WriteSends, WritePanics
  <2> QED  BY <2>1, Zenon DEF DevType
<1>3. CASE EndpointCloses
  <2>1. dev' = [dev EXCEPT !.state = "closed"] /\ UNCHANGED next
    BY <1>3, Zenon DEF EndpointCloses
  <2> QED  BY <2>1, Zenon DEF DevType
<1>4. CASE KernelPacket
  BY <1>4 DEF KernelPacket
<1>5. CASE \/ ReadQueue \/ ReadFails \/ SendSingle \/ BufferPacket \/ FlushFull \/ FlushLast
           \/ FlushFails \/ Break \/ ReadFrame \/ WritePacket \/ ReceiverEnds \/ UNCHANGED vars
  BY <1>5, Zenon DEF ReadQueue, ReadFails, SendSingle, BufferPacket, FlushFull, FlushLast,
              FlushFails, Break, ReadFrame, WritePacket, ReceiverEnds, vars
<1> QED  BY <1>1, <1>2, <1>3, <1>4, <1>5 DEF Next

-----------------------------------------------------------------------------
(* Types, and the shape of the two halves *)

\* read cuts a packet to maxRead, of which there are two values.
SizeType == Sizes \cup {n \in {maxPkt, maxPkt - 16} : \E m \in Sizes : m >= n}
AnyPacket == [id : 1..MaxPackets, size : SizeType]

FrameType == [typ : {"single", "batch"}, pkts : Seq(AnyPacket) \ {<<>>},
              counter : Nat, size : Nat, len : Nat]
TxType == [pc : {"read", "single", "batch", "done"}, burst : Seq(AnyPacket),
           plain : Seq(AnyPacket), size : Nat, counter : Nat]
RxType == [pc : {"read", "write", "done"}, pt : Seq(AnyPacket), counter : Nat]

\* The buffer is empty when its length says so, a lone packet is the whole
\* burst, and a reader has packets to write exactly while it writes.
TxShape ==
    /\ tx.pc = "read" => tx.burst = <<>> /\ tx.plain = <<>>
    /\ tx.pc = "single" => Len(tx.burst) = 1 /\ tx.plain = <<>>
    /\ tx.size = 0 <=> tx.plain = <<>>

RxShape ==
    /\ rx.pc = "read" => rx.pt = <<>>
    /\ rx.pc = "write" => rx.pt # <<>>

PipeInv ==
    /\ QueueInv
    /\ keyed \in BOOLEAN /\ up \in BOOLEAN
    /\ outQueue \in Seq(Packet)
    /\ tx \in TxType /\ TxShape
    /\ wire \in Seq(FrameType)
    /\ rx \in RxType /\ RxShape

\* Packets keep to their type when they are queued and when they are read.
LEMMA Sums ==
    \A a, b \in Nat : /\ a + 2 + b \in Nat /\ a + 2 + b # 0
                      /\ (a + b) + 1 = a + (b + 1)
                      /\ a + b = (a + 1) + (b - 1)
OBVIOUS

\* Packets keep their type when read cuts them.
LEMMA PacketTypes ==
    /\ SizeType \subseteq Nat
    /\ Packet \subseteq AnyPacket
<1>1. SizeType \subseteq Nat
  <2>1. maxPkt \in Nat /\ maxPkt - 16 \in Nat
    BY DEF maxPkt
  <2> QED  BY <2>1, PipeAssumption, Zenon DEF SizeType
<1>2. Packet \subseteq AnyPacket
  BY DEF Packet, AnyPacket, SizeType
<1> QED  BY <1>1, <1>2

\* What read returns, and that a packet that fits is not cut.
LEMMA ReadType ==
    ASSUME keyed \in BOOLEAN, NEW p \in Packet
    PROVE  Read(p) \in AnyPacket /\ Read(p).size <= maxRead /\ (p.size <= maxRead => Read(p) = p)
<1>1. maxRead \in {maxPkt, maxPkt - 16} /\ maxRead \in Nat
  BY DEF maxRead, overhead, maxPkt
<1>2. p.size \in Sizes /\ p.size \in Nat /\ p \in AnyPacket
  BY PipeAssumption, PacketTypes, Zenon DEF Packet
<1> DEFINE n == IF p.size < maxRead THEN p.size ELSE maxRead
<1>3. Read(p) = [p EXCEPT !.size = n]
  BY <1>2 DEF Read, Packet
<1>4. n \in SizeType /\ n <= maxRead /\ (p.size <= maxRead => n = p.size)
  BY <1>1, <1>2 DEF SizeType
<1> HIDE DEF n
<1>5. Read(p) \in AnyPacket /\ Read(p).size = n
  BY <1>2, <1>3, <1>4, Zenon DEF AnyPacket
<1>6. n = p.size => Read(p) = p
  BY <1>2, <1>3, Zenon DEF AnyPacket
<1> QED  BY <1>4, <1>5, <1>6

\* Types and shapes at the start.
LEMMA PipeInit == Init => PipeInv
<1> SUFFICES ASSUME Init PROVE PipeInv
  OBVIOUS
<1>1. /\ keyed \in BOOLEAN /\ up \in BOOLEAN /\ outQueue = <<>> /\ wire = <<>>
      /\ tx = [pc |-> "read", burst |-> <<>>, plain |-> <<>>, size |-> 0, counter |-> 0]
      /\ rx = [pc |-> "read", pt |-> <<>>, counter |-> 0]
  BY DEF Init, Idle
<1>2. tx \in TxType /\ TxShape
  BY <1>1 DEF TxType, TxShape
<1>3. rx \in RxType /\ RxShape
  BY <1>1 DEF RxType, RxShape
<1>4. outQueue \in Seq(Packet) /\ wire \in Seq(FrameType)
  BY <1>1
<1> QED  BY <1>1, <1>2, <1>3, <1>4, QueueInit DEF PipeInv

\* A queued packet is one of Packet.
LEMMA EnqueueType ==
    ASSUME PipeInv, NEW p \in Packet, Enqueue(p)
    PROVE  outQueue' \in Seq(Packet)
BY DEF PipeInv, Enqueue

\* Records of the sending half, by their fields.
LEMMA TxRecord ==
    ASSUME NEW pc \in {"read", "single", "batch", "done"}, NEW burst \in Seq(AnyPacket),
           NEW plain \in Seq(AnyPacket), NEW n \in Nat, NEW k \in Nat
    PROVE  [pc |-> pc, burst |-> burst, plain |-> plain, size |-> n, counter |-> k] \in TxType
BY Zenon DEF TxType

\* The sending half is idle again after k frames.
LEMMA IdleType ==
    ASSUME NEW k \in Nat, NEW pc \in {"read", "done"}, tx' = [Idle(k) EXCEPT !.pc = pc]
    PROVE  (tx \in TxType)' /\ TxShape' /\ tx'.counter = k /\ tx'.pc = pc
<1>1. tx' = [pc |-> pc, burst |-> <<>>, plain |-> <<>>, size |-> 0, counter |-> k]
  BY DEF Idle
<1>2. tx' \in TxType
  <2>1. <<>> \in Seq(AnyPacket) /\ 0 \in Nat /\ pc \in {"read", "single", "batch", "done"}
    OBVIOUS
  <2>2. [pc |-> pc, burst |-> <<>>, plain |-> <<>>, size |-> 0, counter |-> k] \in TxType
    BY <2>1, TxRecord, Zenon
  <2> QED  BY <1>1, <2>2, Zenon
<1> QED  BY <1>1, <1>2 DEF TxShape

\* Between bursts the sending half has its type.
LEMMA IdleIs ==
    ASSUME NEW k
    PROVE  Idle(k) = [Idle(k) EXCEPT !.pc = "read"]
BY DEF Idle

\* The frame that flush writes.
LEMMA FrameOfType ==
    ASSUME PipeInv, NEW typ \in {"single", "batch"}, NEW pkts \in Seq(AnyPacket), pkts # <<>>,
           NEW n \in Nat
    PROVE  /\ Frame(typ, pkts, n) \in FrameType
           /\ Frame(typ, pkts, n).typ = typ /\ Frame(typ, pkts, n).pkts = pkts
           /\ Frame(typ, pkts, n).counter = tx.counter
           /\ Frame(typ, pkts, n).size = n + overhead
           /\ Frame(typ, pkts, n).len = Frame(typ, pkts, n).size % lenValues
<1>1. tx.counter \in Nat /\ n + overhead \in Nat
  BY DEF PipeInv, TxType, overhead
<1>2. (n + overhead) % lenValues \in Nat
  BY <1>1 DEF lenValues
<1> QED  BY <1>1, <1>2 DEF Frame, FrameType

LEMMA LenZero ==
    ASSUME NEW S, NEW s \in Seq(S)
    PROVE  Len(s) = 0 <=> s = <<>>
BY EmptySeq

\* What PipeInv says of the two halves, field by field.
LEMMA TxFields ==
    ASSUME PipeInv
    PROVE  /\ tx.pc \in {"read", "single", "batch", "done"}
           /\ tx.burst \in Seq(AnyPacket) /\ tx.plain \in Seq(AnyPacket)
           /\ tx.size \in Nat /\ tx.counter \in Nat
BY Zenon DEF PipeInv, TxType

\* ReadBatch or Read: a burst of n packets leaves the queue.
LEMMA ReadQueueEffect ==
    ASSUME PipeInv, ReadQueue
    PROVE  \E n \in 1..Len(outQueue) :
             LET burst == [k \in 1..n |-> Read(outQueue[k])]
             IN  /\ outQueue' = SubSeq(outQueue, n + 1, Len(outQueue))
                 /\ burst \in Seq(AnyPacket) /\ Len(burst) = n
                 /\ tx.plain = <<>> /\ tx.burst = <<>> /\ tx.pc = "read"
                 /\ tx' = [pc |-> IF n = 1 THEN "single" ELSE "batch", burst |-> burst,
                           plain |-> <<>>, size |-> 0, counter |-> tx.counter]
<1> DEFINE most == IF dev.kind = "tun" THEN maxBatch ELSE 1
           n == IF Len(outQueue) < most THEN Len(outQueue) ELSE most
           burst == [k \in 1..n |-> Read(outQueue[k])]
<1>1. most \in Nat \ {0}
  BY PipeAssumption
<1>2. outQueue \in Seq(Packet) /\ keyed \in BOOLEAN /\ tx \in TxType /\ TxShape
  BY Zenon DEF PipeInv
<1>3. Len(outQueue) \in Nat \ {0}
  BY <1>2 DEF ReadQueue
<1>4. n \in 1..Len(outQueue)
  <2> HIDE DEF most
  <2> QED  BY <1>1, <1>3
<1>5. /\ tx.pc = "read" /\ outQueue' = SubSeq(outQueue, n + 1, Len(outQueue))
      /\ tx' = [tx EXCEPT !.burst = burst, !.pc = IF n = 1 THEN "single" ELSE "batch"]
  BY Zenon DEF ReadQueue
<1> HIDE DEF n
<1>6. tx.burst = <<>> /\ tx.plain = <<>> /\ tx.size = 0
  BY <1>2, <1>5, Zenon DEF TxShape
<1>7. \A k \in 1..n : Read(outQueue[k]) \in AnyPacket
  BY <1>2, <1>4, ReadType
<1>8. burst \in Seq(AnyPacket) /\ Len(burst) = n
  BY <1>4, <1>7
<1> HIDE DEF burst
<1>9. tx' = [pc |-> IF n = 1 THEN "single" ELSE "batch", burst |-> burst,
             plain |-> <<>>, size |-> 0, counter |-> tx.counter]
  BY <1>2, <1>5, <1>6, Zenon DEF TxType
<1> QED  BY <1>4, <1>5, <1>6, <1>8, <1>9, Zenon DEF burst

\* A burst has its type.
LEMMA ReadQueueKeeps ==
    ASSUME PipeInv, ReadQueue
    PROVE  outQueue' \in Seq(Packet) /\ tx' \in TxType /\ TxShape'
<1>1. PICK n \in 1..Len(outQueue) :
             LET burst == [k \in 1..n |-> Read(outQueue[k])]
             IN  /\ outQueue' = SubSeq(outQueue, n + 1, Len(outQueue))
                 /\ burst \in Seq(AnyPacket) /\ Len(burst) = n
                 /\ tx.plain = <<>> /\ tx.burst = <<>> /\ tx.pc = "read"
                 /\ tx' = [pc |-> IF n = 1 THEN "single" ELSE "batch", burst |-> burst,
                           plain |-> <<>>, size |-> 0, counter |-> tx.counter]
  BY ReadQueueEffect
<1> DEFINE burst == [k \in 1..n |-> Read(outQueue[k])]
           pc == IF n = 1 THEN "single" ELSE "batch"
<1>2. /\ outQueue' = SubSeq(outQueue, n + 1, Len(outQueue))
      /\ burst \in Seq(AnyPacket) /\ Len(burst) = n
      /\ tx' = [pc |-> pc, burst |-> burst, plain |-> <<>>, size |-> 0, counter |-> tx.counter]
  BY <1>1, Zenon
<1>3. /\ pc \in {"read", "single", "batch", "done"} /\ pc # "read" /\ (pc = "single" => n = 1)
      /\ <<>> \in Seq(AnyPacket) /\ 0 \in Nat
  OBVIOUS
<1> HIDE DEF burst, pc
<1>4. outQueue' \in Seq(Packet)
  BY <1>2 DEF PipeInv
<1>5. [pc |-> pc, burst |-> burst, plain |-> <<>>, size |-> 0, counter |-> tx.counter] \in TxType
  BY <1>2, <1>3, TxFields, TxRecord, Zenon
<1>6. TxShape'
  BY <1>2, <1>3, Zenon DEF TxShape
<1> QED  BY <1>2, <1>4, <1>5, <1>6, Zenon

\* The head of a burst, and the rest of it.
LEMMA BurstHead ==
    ASSUME PipeInv, tx.burst # <<>>
    PROVE  Head(tx.burst) \in AnyPacket /\ Head(tx.burst).size \in Nat /\ Tail(tx.burst) \in Seq(AnyPacket)
<1>1. Head(tx.burst) \in AnyPacket /\ Tail(tx.burst) \in Seq(AnyPacket)
  BY TxFields
<1>2. Head(tx.burst).size \in SizeType
  BY <1>1, Zenon DEF AnyPacket
<1> QED  BY <1>1, <1>2, PacketTypes, Zenon

\* A flush of pkts, n bytes, by a sending half that seals its next frame after.
Flushed(typ, pkts, n) ==
    /\ typ \in {"single", "batch"} /\ pkts \in Seq(AnyPacket) /\ pkts # <<>> /\ n \in Nat
    /\ up
    /\ wire' = Append(wire, Frame(typ, pkts, n))
    /\ tx'.counter = tx.counter + 1

\* A flush leaves frames on the socket.
LEMMA FlushedType ==
    ASSUME PipeInv, NEW typ, NEW pkts, NEW n, Flushed(typ, pkts, n)
    PROVE  wire' \in Seq(FrameType)
<1>1. Frame(typ, pkts, n) \in FrameType
  BY FrameOfType, Zenon DEF Flushed
<1>2. wire \in Seq(FrameType) /\ wire' = Append(wire, Frame(typ, pkts, n))
  BY Zenon DEF PipeInv, Flushed
<1> HIDE DEF Frame
<1> QED  BY <1>1, <1>2

\* SendSingle drops the one packet of its burst, or sends it.
LEMMA SendSingleEffect ==
    ASSUME PipeInv, SendSingle
    PROVE  LET p == Head(tx.burst)
           IN  /\ tx.burst = <<p>> /\ tx.plain = <<>> /\ p \in AnyPacket /\ p.size \in Nat
               /\ \/ p.size < minRead /\ UNCHANGED wire /\ tx' = Idle(tx.counter)
                  \/ /\ p.size >= minRead /\ Flushed("single", <<p>>, p.size)
                     /\ tx' = Idle(tx.counter + 1)
<1> DEFINE p == Head(tx.burst)
<1>1. tx.pc = "single"
  BY DEF SendSingle
<1>2. Len(tx.burst) = 1 /\ tx.plain = <<>>
  BY <1>1, Zenon DEF PipeInv, TxShape
<1>3. tx.burst \in Seq(AnyPacket)
  BY TxFields
<1>4. tx.burst # <<>> /\ tx.burst = <<p>>
  BY <1>2, <1>3
<1>5. p \in AnyPacket /\ p.size \in Nat
  BY <1>4, BurstHead
<1>6. \/ p.size < minRead /\ UNCHANGED wire /\ tx' = Idle(tx.counter)
      \/ p.size >= minRead /\ Flush("single", <<p>>, p.size) /\ tx' = Idle(tx.counter + 1)
  BY Zenon DEF SendSingle
<1> HIDE DEF p
<1>7. <<p>> \in Seq(AnyPacket) /\ <<p>> # <<>>
  BY <1>5
<1>8. tx' = Idle(tx.counter + 1) => tx'.counter = tx.counter + 1
  BY DEF Idle
<1>9. /\ Flush("single", <<p>>, p.size) /\ tx' = Idle(tx.counter + 1)
      => Flushed("single", <<p>>, p.size)
  BY <1>5, <1>7, <1>8, Zenon DEF Flush, Flushed
<1>10. \/ p.size < minRead /\ UNCHANGED wire /\ tx' = Idle(tx.counter)
       \/ /\ p.size >= minRead /\ Flushed("single", <<p>>, p.size)
          /\ tx' = Idle(tx.counter + 1)
  BY <1>6, <1>9, Zenon
<1> QED  BY <1>2, <1>4, <1>5, <1>10, Zenon DEF p

\* The loop over a burst passes its head into the buffer, or drops it.
LEMMA BufferPacketEffect ==
    ASSUME PipeInv, BufferPacket
    PROVE  LET p == Head(tx.burst)
           IN  /\ tx.burst # <<>> /\ tx.pc = "batch" /\ p \in AnyPacket /\ p.size \in Nat
               /\ \/ /\ p.size < minRead
                     /\ tx' = [pc |-> "batch", burst |-> Tail(tx.burst), plain |-> tx.plain,
                               size |-> tx.size, counter |-> tx.counter]
                  \/ /\ p.size >= minRead /\ ~Overfull(p)
                     /\ tx' = [pc |-> "batch", burst |-> Tail(tx.burst),
                               plain |-> Append(tx.plain, p), size |-> tx.size + 2 + p.size,
                               counter |-> tx.counter]
<1> DEFINE p == Head(tx.burst)
<1>1. /\ tx.pc = "batch" /\ tx.burst # <<>>
      /\ \/ p.size < minRead /\ tx' = [tx EXCEPT !.burst = Tail(@)]
         \/ /\ p.size >= minRead /\ ~Overfull(p)
            /\ tx' = [tx EXCEPT !.burst = Tail(@), !.plain = Append(@, p), !.size = @ + 2 + p.size]
  BY Zenon DEF BufferPacket
<1>2. p \in AnyPacket /\ p.size \in Nat
  BY <1>1, BurstHead
<1>3. tx \in TxType
  BY Zenon DEF PipeInv
<1> HIDE DEF p
<1>4. CASE p.size < minRead /\ tx' = [tx EXCEPT !.burst = Tail(@)]
  <2>1. tx' = [pc |-> "batch", burst |-> Tail(tx.burst), plain |-> tx.plain,
               size |-> tx.size, counter |-> tx.counter]
    BY <1>1, <1>3, <1>4, Zenon DEF TxType
  <2> QED  BY <1>1, <1>2, <1>4, <2>1, Zenon DEF p
<1>5. CASE /\ p.size >= minRead /\ ~Overfull(p)
           /\ tx' = [tx EXCEPT !.burst = Tail(@), !.plain = Append(@, p), !.size = @ + 2 + p.size]
  <2>1. tx' = [pc |-> "batch", burst |-> Tail(tx.burst), plain |-> Append(tx.plain, p),
               size |-> tx.size + 2 + p.size, counter |-> tx.counter]
    BY <1>1, <1>3, <1>5, Zenon DEF TxType
  <2> QED  BY <1>1, <1>2, <1>5, <2>1, Zenon DEF p
<1> QED  BY <1>1, <1>4, <1>5, Zenon

\* A packet at the end of a sequence.
LEMMA Appended ==
    \A a \in Seq(AnyPacket), p \in AnyPacket :
        Append(a, p) \in Seq(AnyPacket) /\ Append(a, p) # <<>>
<1>1. ASSUME NEW a \in Seq(AnyPacket), NEW p \in AnyPacket
      PROVE  Append(a, p) \in Seq(AnyPacket) /\ Append(a, p) # <<>>
  BY AppendProperties, Zenon
<1> QED  BY <1>1, Zenon

\* The loop over a burst keeps the types, one turn at a time.
LEMMA BufferPacketKeeps ==
    ASSUME PipeInv, BufferPacket
    PROVE  tx' \in TxType /\ TxShape'
<1> DEFINE p == Head(tx.burst)
<1>1. /\ tx.burst # <<>> /\ p \in AnyPacket /\ p.size \in Nat
      /\ \/ tx' = [pc |-> "batch", burst |-> Tail(tx.burst), plain |-> tx.plain,
                   size |-> tx.size, counter |-> tx.counter]
         \/ tx' = [pc |-> "batch", burst |-> Tail(tx.burst), plain |-> Append(tx.plain, p),
                   size |-> tx.size + 2 + p.size, counter |-> tx.counter]
  BY BufferPacketEffect, Zenon
<1> HIDE DEF p
<1>2. /\ Tail(tx.burst) \in Seq(AnyPacket) /\ tx.plain \in Seq(AnyPacket)
      /\ tx.size \in Nat /\ tx.counter \in Nat /\ "batch" \in {"read", "single", "batch", "done"}
  BY <1>1, BurstHead, TxFields, Zenon
<1>3. tx.size = 0 <=> tx.plain = <<>>
  BY Zenon DEF PipeInv, TxShape
<1>4. ASSUME NEW plain \in Seq(AnyPacket), NEW n \in Nat, n = 0 <=> plain = <<>>,
             tx' = [pc |-> "batch", burst |-> Tail(tx.burst), plain |-> plain,
                    size |-> n, counter |-> tx.counter]
      PROVE  tx' \in TxType /\ TxShape'
  <2>1. [pc |-> "batch", burst |-> Tail(tx.burst), plain |-> plain,
         size |-> n, counter |-> tx.counter] \in TxType
    BY <1>2, TxRecord, Zenon
  <2>2. tx' \in TxType
    BY <1>4, <2>1, Zenon
  <2>3. tx'.pc = "batch" /\ tx'.plain = plain /\ tx'.size = n
    BY <1>4
  <2> QED  BY <1>4, <2>2, <2>3 DEF TxShape
<1>5. CASE tx' = [pc |-> "batch", burst |-> Tail(tx.burst), plain |-> tx.plain,
                  size |-> tx.size, counter |-> tx.counter]
  BY <1>2, <1>3, <1>4, <1>5, Zenon
<1>6. CASE tx' = [pc |-> "batch", burst |-> Tail(tx.burst), plain |-> Append(tx.plain, p),
                  size |-> tx.size + 2 + p.size, counter |-> tx.counter]
  <2> DEFINE plain == Append(tx.plain, p)
             n == tx.size + 2 + p.size
  <2>1. plain \in Seq(AnyPacket) /\ plain # <<>> /\ n \in Nat /\ n # 0
    <3>1. tx.plain \in Seq(AnyPacket) /\ p \in AnyPacket /\ tx.size \in Nat /\ p.size \in Nat
      BY <1>1, <1>2, Zenon
    <3>2. plain \in Seq(AnyPacket) /\ plain # <<>>
      BY <3>1, Appended, Zenon
    <3>3. n \in Nat /\ n # 0
      BY <3>1, Sums, Zenon
    <3> QED  BY <3>2, <3>3, Zenon
  <2>2. tx' = [pc |-> "batch", burst |-> Tail(tx.burst), plain |-> plain,
               size |-> n, counter |-> tx.counter]
    BY <1>6, Zenon
  <2> HIDE DEF plain, n
  <2> QED  BY <1>4, <2>1, <2>2, Zenon
<1> QED  BY <1>1, <1>5, <1>6, Zenon

\* The buffer is flushed, and its next content is the head of the burst.
LEMMA FlushFullEffect ==
    ASSUME PipeInv, FlushFull
    PROVE  LET p == Head(tx.burst)
           IN  /\ tx.burst # <<>> /\ tx.pc = "batch" /\ p \in AnyPacket /\ p.size \in Nat
               /\ p.size >= minRead /\ Flushed("batch", tx.plain, tx.size)
               /\ tx' = [pc |-> "batch", burst |-> Tail(tx.burst), plain |-> <<p>>,
                         size |-> 2 + p.size, counter |-> tx.counter + 1]
<1> DEFINE p == Head(tx.burst)
<1>1. /\ tx.pc = "batch" /\ tx.burst # <<>> /\ p.size >= minRead /\ Overfull(p)
      /\ up /\ wire' = Append(wire, Frame("batch", tx.plain, tx.size))
      /\ tx' = [tx EXCEPT !.burst = Tail(@), !.plain = <<p>>, !.size = 2 + p.size, !.counter = @ + 1]
  BY Zenon DEF FlushFull, Flush
<1>2. p \in AnyPacket /\ p.size \in Nat
  BY <1>1, BurstHead
<1>3. tx \in TxType /\ (tx.size = 0 <=> tx.plain = <<>>)
  BY Zenon DEF PipeInv, TxShape
<1> HIDE DEF p
<1>4. tx' = [pc |-> "batch", burst |-> Tail(tx.burst), plain |-> <<p>>,
             size |-> 2 + p.size, counter |-> tx.counter + 1]
  BY <1>1, <1>3, Zenon DEF TxType
<1>5. tx.size # 0
  BY <1>1 DEF Overfull
<1>6. tx'.counter = tx.counter + 1
  BY <1>4
<1>7. Flushed("batch", tx.plain, tx.size)
  BY <1>1, <1>3, <1>5, <1>6, TxFields, Zenon DEF Flushed
<1> QED  BY <1>1, <1>2, <1>4, <1>7, Zenon DEF p

\* A flush in the middle of a burst keeps them too.
LEMMA FlushFullKeeps ==
    ASSUME PipeInv, FlushFull
    PROVE  tx' \in TxType /\ TxShape'
<1> DEFINE p == Head(tx.burst)
           n == 2 + p.size
           k == tx.counter + 1
<1>1. /\ tx.burst # <<>> /\ p \in AnyPacket /\ p.size \in Nat
      /\ tx' = [pc |-> "batch", burst |-> Tail(tx.burst), plain |-> <<p>>, size |-> n, counter |-> k]
  BY FlushFullEffect, Zenon
<1> HIDE DEF p
<1>2. <<p>> \in Seq(AnyPacket) /\ <<p>> # <<>> /\ n \in Nat /\ n # 0 /\ k \in Nat
  <2>1. p \in AnyPacket /\ p.size \in Nat /\ tx.counter \in Nat
    BY <1>1, TxFields, Zenon
  <2> QED  BY <2>1
<1> HIDE DEF n, k
<1>3. Tail(tx.burst) \in Seq(AnyPacket) /\ "batch" \in {"read", "single", "batch", "done"}
  BY <1>1, BurstHead, Zenon
<1>4. [pc |-> "batch", burst |-> Tail(tx.burst), plain |-> <<p>>, size |-> n, counter |-> k] \in TxType
  BY <1>2, <1>3, TxRecord, Zenon
<1>5. tx'.pc = "batch" /\ tx'.plain = <<p>> /\ tx'.size = n
  BY <1>1
<1>6. TxShape'
  BY <1>2, <1>5 DEF TxShape
<1> QED  BY <1>1, <1>4, <1>6, Zenon

\* The end of a burst.
LEMMA FlushLastEffect ==
    ASSUME PipeInv, FlushLast
    PROVE  /\ tx.burst = <<>> /\ tx.pc = "batch"
           /\ \/ tx.plain = <<>> /\ UNCHANGED wire /\ tx' = Idle(tx.counter)
              \/ Flushed("batch", tx.plain, tx.size) /\ tx' = Idle(tx.counter + 1)
<1>1. /\ tx.pc = "batch" /\ tx.burst = <<>>
      /\ \/ tx.size = 0 /\ UNCHANGED wire /\ tx' = Idle(tx.counter)
         \/ /\ tx.size > 0 /\ up /\ wire' = Append(wire, Frame("batch", tx.plain, tx.size))
            /\ tx' = Idle(tx.counter + 1)
  BY Zenon DEF FlushLast, Flush
<1>2. tx.size = 0 <=> tx.plain = <<>>
  BY Zenon DEF PipeInv, TxShape
<1>3. tx' = Idle(tx.counter + 1) => tx'.counter = tx.counter + 1
  BY DEF Idle
<1>4. tx.size > 0 => tx.size # 0
  OBVIOUS
<1> QED  BY <1>1, <1>2, <1>3, <1>4, TxFields, Zenon DEF Flushed

\* A burst that is over leaves the sending half idle.
LEMMA IdleKeeps ==
    ASSUME PipeInv, tx' = Idle(tx.counter) \/ tx' = Idle(tx.counter + 1)
    PROVE  tx' \in TxType /\ TxShape' /\ tx'.pc = "read"
<1>1. tx.counter \in Nat /\ tx.counter + 1 \in Nat
  BY TxFields
<1>2. PICK k \in Nat : tx' = Idle(k)
  BY <1>1, Zenon
<1>3. tx' = [Idle(k) EXCEPT !.pc = "read"]
  BY <1>2, IdleIs, Zenon
<1> QED  BY <1>3, IdleType, Zenon

\* The steps of the receiving half.
LEMMA ReceiverKeeps ==
    ASSUME PipeInv, ReadFrame \/ WritePacket \/ ReceiverEnds
    PROVE  wire' \in Seq(FrameType) /\ rx' \in RxType /\ RxShape'
<1>1. wire \in Seq(FrameType) /\ rx \in RxType /\ RxShape
  BY Zenon DEF PipeInv
<1>2. rx.pt \in Seq(AnyPacket) /\ rx.counter \in Nat
  BY <1>1, Zenon DEF RxType
<1>3. ASSUME NEW pc \in {"read", "write", "done"}, NEW pt \in Seq(AnyPacket), NEW k \in Nat,
             pc = "read" => pt = <<>>, pc = "write" => pt # <<>>,
             rx' = [rx EXCEPT !.counter = k, !.pc = pc, !.pt = pt]
      PROVE  rx' \in RxType /\ RxShape'
  <2>1. rx' \in RxType
    BY <1>1, <1>3, Zenon DEF RxType
  <2>2. rx'.pc = pc /\ rx'.pt = pt
    BY <1>1, <1>3, Zenon DEF RxType
  <2> QED  BY <1>3, <2>1, <2>2, Zenon DEF RxShape
<1>4. CASE ReadFrame
  <2> DEFINE pc == IF Opens(Head(wire)) THEN "write" ELSE "done"
             pt == IF Opens(Head(wire)) THEN Head(wire).pkts ELSE <<>>
             k == rx.counter + 1
  <2>1. wire # <<>> /\ wire' = Tail(wire) /\ rx' = [rx EXCEPT !.counter = k, !.pc = pc, !.pt = pt]
    BY <1>1, <1>4, Zenon DEF ReadFrame, RxType
  <2>2. Head(wire) \in FrameType /\ wire' \in Seq(FrameType)
    BY <1>1, <2>1
  <2>3. Head(wire).pkts \in Seq(AnyPacket) /\ Head(wire).pkts # <<>>
    BY <2>2, Zenon DEF FrameType
  <2>4. pt \in Seq(AnyPacket) /\ k \in Nat
    BY <1>2, <2>3
  <2>5. pc \in {"read", "write", "done"} /\ pc # "read" /\ (pc = "write" => pt # <<>>)
    BY <2>3
  <2> HIDE DEF pc, pt, k
  <2> QED  BY <1>3, <2>1, <2>2, <2>4, <2>5, Zenon
<1>5. CASE WritePacket
  <2> DEFINE pc == IF Len(rx.pt) = 1 THEN "read" ELSE "write"
             pt == Tail(rx.pt)
  <2>1. rx.pc = "write" /\ UNCHANGED wire /\ rx' = [rx EXCEPT !.counter = rx.counter, !.pc = pc, !.pt = pt]
    BY <1>1, <1>5, Zenon DEF WritePacket, RxType
  <2>2. rx.pt # <<>>
    BY <1>1, <2>1, Zenon DEF RxShape
  <2>3. pt \in Seq(AnyPacket) /\ (Len(rx.pt) = 1 <=> pt = <<>>)
    <3>1. pt \in Seq(AnyPacket) /\ Len(rx.pt) \in Nat /\ Len(pt) = Len(rx.pt) - 1
      BY <1>2, <2>2
    <3>2. Len(pt) = 0 <=> pt = <<>>
      BY <3>1, LenZero, Zenon
    <3> HIDE DEF pt
    <3> QED  BY <3>1, <3>2
  <2>4. pc \in {"read", "write", "done"} /\ (pc = "read" => pt = <<>>) /\ (pc = "write" => pt # <<>>)
    BY <2>3
  <2> HIDE DEF pc, pt
  <2> QED  BY <1>1, <1>2, <1>3, <2>1, <2>3, <2>4, Zenon
<1>6. CASE ReceiverEnds
  <2>1. UNCHANGED wire /\ rx' = [rx EXCEPT !.counter = rx.counter, !.pc = "done", !.pt = <<>>]
    BY <1>1, <1>6, Zenon DEF ReceiverEnds, RxType
  <2>2. <<>> \in Seq(AnyPacket) /\ "done" # "read" /\ "done" # "write"
    OBVIOUS
  <2> QED  BY <1>1, <1>2, <1>3, <2>1, <2>2, Zenon
<1> QED  BY <1>4, <1>5, <1>6, Zenon

\* Every step keeps types and shapes.
LEMMA PipeStep == PipeInv /\ [Next]_vars => PipeInv'
<1> SUFFICES ASSUME PipeInv, [Next]_vars PROVE PipeInv'
  OBVIOUS
<1>0. QueueInv'
  BY QueueStep, Zenon DEF PipeInv
<1>1. CASE KernelPacket \/ WriteChecks \/ WriteSends \/ EndpointCloses \/ UNCHANGED vars
  <2>1. UNCHANGED <<keyed, up, tx, wire, rx>>
    BY <1>1, Zenon DEF KernelPacket, WriteChecks, WriteSends, EndpointCloses, vars
  <2>2. outQueue' \in Seq(Packet)
    <3>1. UNCHANGED outQueue => outQueue' \in Seq(Packet)
      BY Zenon DEF PipeInv
    <3>2. CASE KernelPacket
      <4>1. PICK n \in Sizes : Enqueue([id |-> next, size |-> n])
        BY <3>2, Zenon DEF KernelPacket
      <4>2. next <= MaxPackets /\ next \in Nat \ {0}
        BY <3>2, Zenon DEF KernelPacket, PipeInv, QueueInv
      <4>3. [id |-> next, size |-> n] \in Packet
        BY <4>2, PipeAssumption DEF Packet
      <4> QED  BY <4>1, <4>3, EnqueueType, Zenon
    <3>3. CASE WriteSends
      <4>1. dev.writer \in Packet
        BY <3>3, Zenon DEF WriteSends, PipeInv, QueueInv, DevType
      <4> QED  BY <3>3, <4>1, EnqueueType, Zenon DEF WriteSends
    <3> QED  BY <1>1, <3>1, <3>2, <3>3, Zenon DEF WriteChecks, EndpointCloses, vars
  <2> QED  BY <1>0, <2>1, <2>2, Zenon DEF PipeInv, TxShape, RxShape
<1>2. ASSUME UNCHANGED <<keyed, up, rx>>, outQueue' \in Seq(Packet), wire' \in Seq(FrameType),
             tx' \in TxType, TxShape'
      PROVE  PipeInv'
  BY <1>0, <1>2, Zenon DEF PipeInv, RxShape
<1>3. CASE ReadQueue
  BY <1>2, <1>3, ReadQueueKeeps, Zenon DEF ReadQueue, PipeInv
<1>4. CASE ReadFails
  <2>1. tx.pc = "read" /\ tx' = [tx EXCEPT !.pc = "done"]
    BY <1>4, Zenon DEF ReadFails
  <2>2. tx \in TxType /\ (tx.size = 0 <=> tx.plain = <<>>)
    BY Zenon DEF PipeInv, TxShape
  <2>3. tx' \in TxType /\ tx'.pc = "done" /\ tx'.size = tx.size /\ tx'.plain = tx.plain
    BY <2>1, <2>2, Zenon DEF TxType
  <2>4. TxShape'
    BY <2>2, <2>3 DEF TxShape
  <2> QED  BY <1>2, <1>4, <2>3, <2>4, Zenon DEF ReadFails, PipeInv
<1>5. CASE SendSingle
  <2>1. wire' \in Seq(FrameType) /\ (tx' = Idle(tx.counter) \/ tx' = Idle(tx.counter + 1))
    BY <1>5, SendSingleEffect, FlushedType, Zenon DEF PipeInv
  <2> QED  BY <1>2, <1>5, <2>1, IdleKeeps, Zenon DEF SendSingle, PipeInv
<1>6. CASE BufferPacket
  BY <1>2, <1>6, BufferPacketKeeps, Zenon DEF BufferPacket, PipeInv
<1>7. CASE FlushFull
  <2>1. wire' \in Seq(FrameType)
    BY <1>7, FlushFullEffect, FlushedType, Zenon
  <2> QED  BY <1>2, <1>7, <2>1, FlushFullKeeps, Zenon DEF FlushFull, PipeInv
<1>8. CASE FlushLast
  <2>1. wire' \in Seq(FrameType) /\ (tx' = Idle(tx.counter) \/ tx' = Idle(tx.counter + 1))
    BY <1>8, FlushLastEffect, FlushedType, Zenon DEF PipeInv
  <2> QED  BY <1>2, <1>8, <2>1, IdleKeeps, Zenon DEF FlushLast, PipeInv
<1>9. CASE FlushFails
  <2>1. tx.counter + 1 \in Nat
    BY TxFields
  <2>2. tx' \in TxType /\ TxShape'
    BY <1>9, <2>1, IdleType, Zenon DEF FlushFails
  <2> QED  BY <1>2, <1>9, <2>2, Zenon DEF FlushFails, PipeInv
<1>10. CASE Break \/ WritePanics
  <2>1. PICK n \in 0..Len(wire) : wire' = SubSeq(wire, 1, n)
    BY <1>10, Zenon DEF Break, WritePanics, Lose
  <2>2. wire' \in Seq(FrameType)
    BY <2>1 DEF PipeInv
  <2>3. up' \in BOOLEAN /\ UNCHANGED <<keyed, rx>>
    BY <1>10, Zenon DEF Break, WritePanics, Lose
  <2>4. CASE Break
    <3>1. UNCHANGED <<outQueue, tx>>
      BY <2>4, Zenon DEF Break
    <3> QED  BY <1>0, <2>2, <2>3, <3>1, Zenon DEF PipeInv, TxShape, RxShape
  <2>5. CASE WritePanics
    <3>1. tx.counter \in Nat
      BY TxFields
    <3>2. tx' \in TxType /\ TxShape'
      BY <2>5, <3>1, IdleType, Zenon DEF WritePanics
    <3>3. outQueue' \in Seq(Packet)
      BY <2>5 DEF WritePanics
    <3> QED  BY <1>0, <2>2, <2>3, <3>2, <3>3, Zenon DEF PipeInv, RxShape
  <2> QED  BY <1>10, <2>4, <2>5, Zenon
<1>11. CASE ReadFrame \/ WritePacket \/ ReceiverEnds
  <2>1. UNCHANGED <<keyed, up, outQueue, tx>>
    BY <1>11, Zenon DEF ReadFrame, WritePacket, ReceiverEnds
  <2> QED  BY <1>0, <1>11, <2>1, ReceiverKeeps, Zenon DEF PipeInv, TxShape
<1> QED
  BY <1>1, <1>3, <1>4, <1>5, <1>6, <1>7, <1>8, <1>9, <1>10, <1>11, Zenon DEF Next

-----------------------------------------------------------------------------
(* The counters of the two seals *)

\* A frame sealed with the next counter keeps the frames in step.
LEMMA FlushedInStep ==
    ASSUME PipeInv, Lockstep, NEW typ, NEW pkts, NEW n, Flushed(typ, pkts, n), UNCHANGED <<rx, up>>
    PROVE  Lockstep'
<1> DEFINE f == Frame(typ, pkts, n)
<1>1. f.counter = tx.counter /\ f \in FrameType
  <2>1. typ \in {"single", "batch"} /\ pkts \in Seq(AnyPacket) /\ pkts # <<>> /\ n \in Nat
    BY Zenon DEF Flushed
  <2> QED  BY <2>1, FrameOfType
<1>2. up /\ wire' = Append(wire, f) /\ tx'.counter = tx.counter + 1
  BY Zenon DEF Flushed
<1>3. tx.counter \in Nat /\ rx.counter \in Nat /\ wire \in Seq(FrameType)
  BY TxFields, Zenon DEF PipeInv, RxType
<1> HIDE DEF f
<1> SUFFICES ASSUME rx.pc # "done"
             PROVE  /\ \A k \in 1..Len(wire') : wire'[k].counter = rx.counter + k - 1
                    /\ tx'.counter = rx.counter + Len(wire')
  BY Zenon DEF Lockstep
<1>4. /\ \A k \in 1..Len(wire) : wire[k].counter = rx.counter + k - 1
      /\ tx.counter = rx.counter + Len(wire)
  BY <1>2, Zenon DEF Lockstep
<1>5. Len(wire) \in Nat /\ Len(wire') = Len(wire) + 1
  BY <1>1, <1>2, <1>3
<1>6. \A k \in 1..Len(wire') : wire'[k] = IF k <= Len(wire) THEN wire[k] ELSE f
  BY <1>1, <1>2, <1>3
<1>7. ASSUME NEW k \in 1..Len(wire') PROVE wire'[k].counter = rx.counter + k - 1
  <2>1. CASE k <= Len(wire)
    BY <1>4, <1>5, <1>6, <2>1
  <2>2. CASE k = Len(wire) + 1
    <3>1. ~(k <= Len(wire)) /\ rx.counter + Len(wire) = rx.counter + k - 1
      BY <1>3, <1>5, <2>2
    <3>2. wire'[k] = f
      BY <1>6, <3>1, Zenon
    <3> QED  BY <1>1, <1>4, <3>1, <3>2, Zenon
  <2> QED  BY <1>5, <2>1, <2>2
<1>8. tx'.counter = rx.counter + Len(wire')
  <2>1. tx'.counter = (rx.counter + Len(wire)) + 1
    BY <1>2, <1>4, Zenon
  <2>2. (rx.counter + Len(wire)) + 1 = rx.counter + (Len(wire) + 1)
    BY <1>3, <1>5, Sums, Zenon
  <2> QED  BY <1>5, <2>1, <2>2, Zenon
<1> QED  BY <1>7, <1>8

\* A step without a frame.
LEMMA IdleInStep ==
    ASSUME Lockstep, UNCHANGED <<wire, up>>, up => tx'.counter = tx.counter,
           rx'.pc # "done" => rx.pc # "done" /\ rx'.counter = rx.counter
    PROVE  Lockstep'
BY Zenon DEF Lockstep

\* The connection keeps a prefix of what was written.
LEMMA LoseInStep ==
    ASSUME PipeInv, Lockstep, Lose, UNCHANGED rx
    PROVE  Lockstep'
<1>1. PICK n \in 0..Len(wire) : wire' = SubSeq(wire, 1, n)
  BY Zenon DEF Lose
<1>2. up' = FALSE /\ UNCHANGED rx
  BY Zenon DEF Lose
<1>3. Len(wire') = n /\ \A k \in 1..n : wire'[k] = wire[k] /\ k \in 1..Len(wire)
  BY <1>1 DEF PipeInv
<1> QED  BY <1>2, <1>3, Zenon DEF Lockstep

\* A frame that is read takes its counter with it.
LEMMA ReadFrameInStep ==
    ASSUME PipeInv, Lockstep, ReadFrame
    PROVE  Lockstep'
<1>1. rx \in RxType /\ wire \in Seq(FrameType) /\ tx.counter \in Nat
  BY TxFields, Zenon DEF PipeInv
<1>2. rx.pc = "read" /\ wire # <<>> /\ wire' = Tail(wire) /\ UNCHANGED <<tx, up>>
  BY Zenon DEF ReadFrame
<1>3. rx.counter \in Nat /\ rx'.counter = rx.counter + 1
  BY <1>1, Zenon DEF ReadFrame, RxType
<1>4. /\ Len(wire) \in Nat /\ Len(wire') = Len(wire) - 1
      /\ \A k \in 1..Len(wire') : wire'[k] = wire[k + 1] /\ k + 1 \in 1..Len(wire)
  BY <1>1, <1>2
<1>5. /\ \A k \in 1..Len(wire) : wire[k].counter = rx.counter + k - 1
      /\ up => tx.counter = rx.counter + Len(wire)
  BY <1>2 DEF Lockstep
<1>6. up => tx.counter = rx'.counter + Len(wire')
  <2>1. rx.counter + Len(wire) = (rx.counter + 1) + (Len(wire) - 1)
    BY <1>3, <1>4, Sums, Zenon
  <2> QED  BY <1>3, <1>4, <1>5, <2>1, Zenon
<1>7. ASSUME NEW k \in 1..Len(wire') PROVE wire'[k].counter = rx'.counter + k - 1
  <2>1. k + 1 \in 1..Len(wire) /\ wire'[k] = wire[k + 1]
    BY <1>4
  <2>2. wire[k + 1].counter = rx.counter + (k + 1) - 1
    BY <1>5, <2>1
  <2> QED  BY <1>3, <2>1, <2>2
<1> QED  BY <1>2, <1>6, <1>7, Zenon DEF Lockstep

\* Every step keeps the counters in lockstep.
LEMMA CounterStep == PipeInv /\ Lockstep /\ [Next]_vars => Lockstep'
<1> SUFFICES ASSUME PipeInv, Lockstep, [Next]_vars PROVE Lockstep'
  OBVIOUS
<1>1. CASE KernelPacket \/ WriteChecks \/ WriteSends \/ EndpointCloses \/ UNCHANGED vars
  <2>1. UNCHANGED <<up, wire, tx, rx>>
    BY <1>1, Zenon DEF KernelPacket, WriteChecks, WriteSends, EndpointCloses, vars
  <2> QED  BY <2>1, IdleInStep, Zenon
<1>2. CASE ReadQueue \/ ReadFails \/ BufferPacket
  <2>1. tx \in TxType /\ UNCHANGED <<up, wire, rx>>
    BY <1>2, Zenon DEF PipeInv, ReadQueue, ReadFails, BufferPacket
  <2>2. tx'.counter = tx.counter
    BY <1>2, <2>1, Zenon DEF ReadQueue, ReadFails, BufferPacket, TxType
  <2> QED  BY <2>1, <2>2, IdleInStep, Zenon
<1>3. tx' = Idle(tx.counter) => tx'.counter = tx.counter
  BY DEF Idle
<1>4. CASE SendSingle
  <2>1. UNCHANGED <<up, rx>>
    BY <1>4, Zenon DEF SendSingle
  <2>2. \/ UNCHANGED wire /\ tx' = Idle(tx.counter)
        \/ \E typ, pkts, n : Flushed(typ, pkts, n)
    BY <1>4, SendSingleEffect, Zenon
  <2> QED  BY <1>3, <2>1, <2>2, IdleInStep, FlushedInStep, Zenon
<1>5. CASE FlushFull
  BY <1>5, FlushFullEffect, FlushedInStep, Zenon DEF FlushFull
<1>6. CASE FlushLast
  <2>1. UNCHANGED <<up, rx>>
    BY <1>6, Zenon DEF FlushLast
  <2> QED  BY <1>3, <1>6, <2>1, FlushLastEffect, IdleInStep, FlushedInStep, Zenon
<1>7. CASE FlushFails
  BY <1>7, IdleInStep, Zenon DEF FlushFails
<1>8. CASE Break \/ WritePanics
  BY <1>8, LoseInStep, Zenon DEF Break, WritePanics
<1>9. CASE ReadFrame
  BY <1>9, ReadFrameInStep
<1>10. CASE WritePacket \/ ReceiverEnds
  <2>1. rx.pc # "done" /\ rx \in RxType /\ UNCHANGED <<up, wire, tx>>
    BY <1>10 DEF WritePacket, ReceiverEnds, PipeInv
  <2>2. rx'.counter = rx.counter
    BY <1>10, <2>1, Zenon DEF WritePacket, ReceiverEnds, RxType
  <2> QED  BY <2>1, <2>2, IdleInStep, Zenon
<1> QED
  BY <1>1, <1>2, <1>4, <1>5, <1>6, <1>7, <1>8, <1>9, <1>10, Zenon DEF Next

\* The counters of seal and open stay in lockstep whatever the bursts, however
\* they are split into frames, and wherever the connection breaks.
THEOREM PipeLockstep == Spec => []Lockstep
<1>1. Init => Lockstep
  <2> SUFFICES ASSUME Init PROVE Lockstep
    OBVIOUS
  <2>1. tx.counter = 0 /\ rx.counter = 0 /\ Len(wire) = 0
    BY DEF Init, Idle
  <2> QED  BY <2>1 DEF Lockstep
<1> QED  BY <1>1, PipeInit, PipeStep, CounterStep, PTL DEF Spec

-----------------------------------------------------------------------------
(* The length field *)

\* The buffer is within maxFrame, or holds one packet that is not.
Alone(pkts, n) == Len(pkts) = 1 /\ n = pkts[1].size + 2

\* The length field is true, or the frame is a batch of one packet that leaves no
\* room for its own length and the seal.
FrameFits(f) ==
    /\ f.len = f.size % lenValues
    /\ f.size < lenValues \/ (f.typ = "batch" /\ Len(f.pkts) = 1 /\ f.size <= f.pkts[1].size + 18)

SizeInv ==
    /\ \A k \in 1..Len(tx.burst) : tx.burst[k].size <= maxRead
    /\ tx.size <= maxFrame \/ Alone(tx.plain, tx.size)
    /\ \A k \in 1..Len(wire) : FrameFits(wire[k])

\* A frame that flush writes, when its payload keeps to the limits.
LEMMA FlushedFits ==
    ASSUME PipeInv, SizeInv, NEW typ, NEW pkts, NEW n, Flushed(typ, pkts, n),
           \/ typ = "single" /\ n <= maxRead
           \/ typ = "batch" /\ (n <= maxFrame \/ Alone(pkts, n))
    PROVE  \A k \in 1..Len(wire') : FrameFits(wire'[k])
<1> DEFINE f == Frame(typ, pkts, n)
<1>1. typ \in {"single", "batch"} /\ pkts \in Seq(AnyPacket) /\ pkts # <<>> /\ n \in Nat
  BY Zenon DEF Flushed
<1>2. /\ f \in FrameType /\ f.typ = typ /\ f.pkts = pkts
      /\ f.size = n + overhead /\ f.len = f.size % lenValues
  BY <1>1, FrameOfType
<1>3. wire' = Append(wire, f) /\ wire \in Seq(FrameType)
  BY Zenon DEF Flushed, PipeInv
<1> HIDE DEF f
<1>4. overhead \in {0, 16} /\ maxRead = 65535 - overhead
  BY DEF overhead, maxRead, maxPkt, PipeInv
<1>5. FrameFits(f)
  <2>1. CASE typ = "single" /\ n <= maxRead
    BY <1>1, <1>2, <1>4, <2>1 DEF FrameFits, lenValues
  <2>2. CASE typ = "batch" /\ n <= maxFrame
    BY <1>1, <1>2, <1>4, <2>2 DEF FrameFits, lenValues, maxFrame
  <2>3. CASE typ = "batch" /\ Alone(pkts, n)
    <3>1. Len(pkts) = 1 /\ n = pkts[1].size + 2
      BY <2>3, Zenon DEF Alone
    <3>2. pkts[1] \in AnyPacket
      BY <1>1, <3>1
    <3>3. pkts[1].size \in Nat
      BY <3>2, PacketTypes, Zenon DEF AnyPacket
    <3>4. f.size <= pkts[1].size + 18
      BY <1>2, <1>4, <3>1, <3>3
    <3> QED  BY <1>2, <2>3, <3>1, <3>4, Zenon DEF FrameFits
  <2> QED  BY <2>1, <2>2, <2>3
<1>6. Len(wire) \in Nat /\ Len(wire') = Len(wire) + 1
  BY <1>2, <1>3
<1>7. \A k \in 1..Len(wire') : wire'[k] = IF k <= Len(wire) THEN wire[k] ELSE f
  BY <1>2, <1>3
<1>8. \A k \in 1..Len(wire) : FrameFits(wire[k])
  BY Zenon DEF SizeInv
<1> QED  BY <1>5, <1>6, <1>7, <1>8

\* An idle sending half is within its limits.
LEMMA IdleFits ==
    ASSUME NEW k, NEW pc, tx' = [Idle(k) EXCEPT !.pc = pc] \/ tx' = Idle(k)
    PROVE  tx'.burst = <<>> /\ tx'.size <= maxFrame
<1>1. tx'.burst = <<>> /\ tx'.size = 0
  BY DEF Idle
<1> QED  BY <1>1 DEF maxFrame

\* Every step keeps what is known of sizes.
LEMMA SizeStep == PipeInv /\ SizeInv /\ [Next]_vars => SizeInv'
<1> SUFFICES ASSUME PipeInv, SizeInv, [Next]_vars PROVE SizeInv'
  OBVIOUS
<1>1. UNCHANGED keyed
  BY Zenon DEF Next, KernelPacket, WriteChecks, WriteSends, WritePanics, EndpointCloses, ReadQueue, ReadFails,
     SendSingle, BufferPacket, FlushFull, FlushLast, FlushFails, Break, ReadFrame, WritePacket,
     ReceiverEnds, vars
<1>2. maxRead' = maxRead
  BY <1>1, Zenon DEF maxRead, overhead
<1>3. /\ \A k \in 1..Len(tx.burst) : tx.burst[k].size <= maxRead
      /\ tx.size <= maxFrame \/ Alone(tx.plain, tx.size)
      /\ \A k \in 1..Len(wire) : FrameFits(wire[k])
  BY Zenon DEF SizeInv
<1>4. ASSUME /\ \A k \in 1..Len(tx'.burst) : tx'.burst[k].size <= maxRead
             /\ tx'.size <= maxFrame \/ Alone(tx'.plain, tx'.size)
             /\ \A k \in 1..Len(wire') : FrameFits(wire'[k])
      PROVE  SizeInv'
  BY <1>2, <1>4, Zenon DEF SizeInv, Alone, FrameFits
<1>5. CASE \/ KernelPacket \/ WriteChecks \/ WriteSends \/ EndpointCloses \/ UNCHANGED vars
           \/ WritePacket \/ ReceiverEnds
  <2>1. UNCHANGED <<tx, wire>>
    BY <1>5, Zenon DEF KernelPacket, WriteChecks, WriteSends, EndpointCloses, vars, WritePacket,
       ReceiverEnds
  <2> QED  BY <1>3, <1>4, <2>1, Zenon
<1>6. CASE ReadQueue
  <2>1. PICK n \in 1..Len(outQueue) :
             LET burst == [k \in 1..n |-> Read(outQueue[k])]
             IN  /\ outQueue' = SubSeq(outQueue, n + 1, Len(outQueue))
                 /\ burst \in Seq(AnyPacket) /\ Len(burst) = n
                 /\ tx.plain = <<>> /\ tx.burst = <<>> /\ tx.pc = "read"
                 /\ tx' = [pc |-> IF n = 1 THEN "single" ELSE "batch", burst |-> burst,
                           plain |-> <<>>, size |-> 0, counter |-> tx.counter]
    BY <1>6, ReadQueueEffect, Zenon
  <2> DEFINE burst == [k \in 1..n |-> Read(outQueue[k])]
  <2>2. Len(burst) = n /\ tx'.burst = burst /\ tx'.size = 0
    BY <2>1, Zenon
  <2>3. ASSUME NEW k \in 1..n PROVE burst[k].size <= maxRead
    <3>1. burst[k] = Read(outQueue[k])
      OBVIOUS
    <3>2. keyed \in BOOLEAN /\ outQueue[k] \in Packet
      BY DEF PipeInv
    <3> QED  BY <3>1, <3>2, ReadType
  <2>4. tx'.size <= maxFrame
    BY <2>2 DEF maxFrame
  <2> HIDE DEF burst
  <2>5. UNCHANGED wire
    BY <1>6, Zenon DEF ReadQueue
  <2> QED  BY <1>3, <1>4, <2>2, <2>3, <2>4, <2>5, Zenon
<1>7. ASSUME \/ UNCHANGED wire
             \/ \A k \in 1..Len(wire') : FrameFits(wire'[k]),
             NEW k, NEW pc, tx' = [Idle(k) EXCEPT !.pc = pc] \/ tx' = Idle(k)
      PROVE  SizeInv'
  <2>1. tx'.burst = <<>> /\ tx'.size <= maxFrame
    BY <1>7, IdleFits
  <2>2. \A j \in 1..Len(tx'.burst) : tx'.burst[j].size <= maxRead
    BY <2>1
  <2> QED  BY <1>3, <1>4, <1>7, <2>1, <2>2, Zenon
<1>8. CASE ReadFails
  <2>1. UNCHANGED wire /\ tx' = [tx EXCEPT !.pc = "done"] /\ tx \in TxType
    BY <1>8, Zenon DEF ReadFails, PipeInv
  <2>2. tx'.burst = tx.burst /\ tx'.plain = tx.plain /\ tx'.size = tx.size
    BY <2>1, Zenon DEF TxType
  <2> QED  BY <1>3, <1>4, <2>1, <2>2, Zenon
<1>9. CASE FlushFails
  BY <1>7, <1>9, Zenon DEF FlushFails
<1>10. CASE SendSingle
  <2> DEFINE p == Head(tx.burst)
  <2>1. /\ tx.burst = <<p>>
        /\ \/ UNCHANGED wire /\ tx' = Idle(tx.counter)
           \/ Flushed("single", <<p>>, p.size) /\ tx' = Idle(tx.counter + 1)
    BY <1>10, SendSingleEffect, Zenon
  <2>2. p.size <= maxRead
    BY <1>3, <2>1
  <2>3. Flushed("single", <<p>>, p.size) => \A k \in 1..Len(wire') : FrameFits(wire'[k])
    BY <2>2, FlushedFits, Zenon
  <2> QED  BY <1>7, <2>1, <2>3, Zenon
<1>11. CASE FlushLast
  <2>1. Flushed("batch", tx.plain, tx.size) => \A k \in 1..Len(wire') : FrameFits(wire'[k])
    BY <1>3, FlushedFits, Zenon
  <2> QED  BY <1>7, <1>11, <2>1, FlushLastEffect, Zenon
<1>12. ASSUME tx.burst # <<>>, tx'.burst = Tail(tx.burst)
       PROVE  \A k \in 1..Len(tx'.burst) : tx'.burst[k].size <= maxRead
  BY <1>3, <1>12, TxFields
<1>13. CASE BufferPacket
  <2> DEFINE p == Head(tx.burst)
  <2>1. /\ tx.burst # <<>> /\ p \in AnyPacket /\ p.size \in Nat
        /\ \/ tx' = [pc |-> "batch", burst |-> Tail(tx.burst), plain |-> tx.plain,
                     size |-> tx.size, counter |-> tx.counter]
           \/ /\ ~Overfull(p)
              /\ tx' = [pc |-> "batch", burst |-> Tail(tx.burst), plain |-> Append(tx.plain, p),
                        size |-> tx.size + 2 + p.size, counter |-> tx.counter]
    BY <1>13, BufferPacketEffect, Zenon
  <2> HIDE DEF p
  <2>2. tx'.burst = Tail(tx.burst)
    <3>1. tx \in TxType
      BY Zenon DEF PipeInv
    <3> QED  BY <1>13, <3>1, Zenon DEF BufferPacket, TxType
  <2>3. tx'.size <= maxFrame \/ Alone(tx'.plain, tx'.size)
    <3>1. CASE tx' = [pc |-> "batch", burst |-> Tail(tx.burst), plain |-> tx.plain,
                      size |-> tx.size, counter |-> tx.counter]
      <4>1. tx'.plain = tx.plain /\ tx'.size = tx.size
        BY <3>1, Zenon
      <4> QED  BY <1>3, <4>1, Zenon
    <3>2. CASE /\ ~Overfull(p)
               /\ tx' = [pc |-> "batch", burst |-> Tail(tx.burst), plain |-> Append(tx.plain, p),
                         size |-> tx.size + 2 + p.size, counter |-> tx.counter]
      <4>1. tx'.plain = Append(tx.plain, p) /\ tx'.size = tx.size + 2 + p.size
        BY <3>2, Zenon
      <4>2. CASE tx.size = 0
        <5>1. tx.plain = <<>>
          BY <4>2, Zenon DEF PipeInv, TxShape
        <5>2. tx'.plain = <<p>> /\ tx'.size = p.size + 2
          BY <2>1, <4>1, <4>2, <5>1
        <5>3. Len(<<p>>) = 1 /\ <<p>>[1] = p
          OBVIOUS
        <5> QED  BY <5>2, <5>3, Zenon DEF Alone
      <4>3. CASE tx.size # 0
        <5>1. tx.size \in Nat /\ maxFrame \in Nat
          BY TxFields DEF maxFrame
        <5>2. ~(tx.size + 2 + p.size > maxFrame)
          BY <3>2, <4>3, <5>1 DEF Overfull
        <5> QED  BY <2>1, <4>1, <5>1, <5>2
      <4> QED  BY <4>2, <4>3
    <3> QED  BY <2>1, <3>1, <3>2, Zenon
  <2>4. UNCHANGED wire
    BY <1>13, Zenon DEF BufferPacket
  <2> QED  BY <1>3, <1>4, <1>12, <2>1, <2>2, <2>3, <2>4, Zenon
<1>14. CASE FlushFull
  <2> DEFINE p == Head(tx.burst)
  <2>0. /\ tx.burst # <<>> /\ p.size \in Nat /\ Flushed("batch", tx.plain, tx.size)
        /\ tx' = [pc |-> "batch", burst |-> Tail(tx.burst), plain |-> <<p>>,
                  size |-> 2 + p.size, counter |-> tx.counter + 1]
    BY <1>14, FlushFullEffect, Zenon
  <2> HIDE DEF p
  <2>1. /\ tx.burst # <<>> /\ p.size \in Nat /\ Flushed("batch", tx.plain, tx.size)
        /\ tx'.burst = Tail(tx.burst) /\ tx'.plain = <<p>> /\ tx'.size = 2 + p.size
    BY <2>0
  <2>2. Alone(tx'.plain, tx'.size)
    BY <2>1 DEF Alone
  <2>3. \A k \in 1..Len(wire') : FrameFits(wire'[k])
    BY <1>3, <2>1, FlushedFits, Zenon
  <2> QED  BY <1>4, <1>12, <2>1, <2>2, <2>3, Zenon
<1>15. CASE Break \/ WritePanics
  <2>1. PICK n \in 0..Len(wire) : wire' = SubSeq(wire, 1, n)
    BY <1>15, Zenon DEF Break, WritePanics, Lose
  <2>2. Len(wire') = n /\ \A k \in 1..n : wire'[k] = wire[k] /\ k \in 1..Len(wire)
    BY <2>1 DEF PipeInv
  <2>3. \A k \in 1..Len(wire') : FrameFits(wire'[k])
    BY <1>3, <2>2, Zenon
  <2>4. CASE UNCHANGED tx
    BY <1>3, <1>4, <2>3, <2>4, Zenon
  <2>5. CASE WritePanics
    BY <1>7, <2>3, <2>5, Zenon DEF WritePanics
  <2> QED  BY <1>15, <2>4, <2>5, Zenon DEF Break
<1>16. CASE ReadFrame
  <2>1. wire # <<>> /\ wire' = Tail(wire) /\ UNCHANGED tx
    BY <1>16, Zenon DEF ReadFrame
  <2>2. \A k \in 1..Len(wire') : wire'[k] = wire[k + 1] /\ k + 1 \in 1..Len(wire)
    BY <2>1 DEF PipeInv
  <2> QED  BY <1>3, <1>4, <2>1, <2>2, Zenon
<1> QED
  BY <1>5, <1>6, <1>8, <1>9, <1>10, <1>11, <1>13, <1>14, <1>15, <1>16, Zenon DEF Next

\* Sizes at the start.
LEMMA SizeInit == Init => SizeInv
<1> SUFFICES ASSUME Init PROVE SizeInv
  OBVIOUS
<1>1. tx.burst = <<>> /\ tx.size = 0 /\ wire = <<>>
  BY DEF Init, Idle
<1>2. tx.size <= maxFrame
  BY <1>1 DEF maxFrame
<1>3. /\ \A k \in 1..Len(tx.burst) : tx.burst[k].size <= maxRead
      /\ \A k \in 1..Len(wire) : FrameFits(wire[k])
  BY <1>1
<1> QED  BY <1>2, <1>3, Zenon DEF SizeInv

\* The frames whose length field can be wrong: batches of one packet of more
\* than 65517 bytes.
OnlyGiantsMisread ==
    \A k \in 1..Len(wire) :
        \/ wire[k].len = wire[k].size
        \/ wire[k].typ = "batch" /\ Len(wire[k].pkts) = 1 /\ wire[k].pkts[1].size + 18 >= lenValues

\* With those sizes, only a packet too large for a batch is misread.
LEMMA FitsOrGiant == PipeInv /\ SizeInv => OnlyGiantsMisread
<1> SUFFICES ASSUME PipeInv, SizeInv, NEW k \in 1..Len(wire)
             PROVE  \/ wire[k].len = wire[k].size
                    \/ /\ wire[k].typ = "batch" /\ Len(wire[k].pkts) = 1
                       /\ wire[k].pkts[1].size + 18 >= lenValues
  BY Zenon DEF OnlyGiantsMisread
<1> DEFINE f == wire[k]
<1>1. FrameFits(f)
  BY Zenon DEF SizeInv
<1>2. f \in FrameType
  BY DEF PipeInv
<1> HIDE DEF f
<1>3. f.size \in Nat /\ f.pkts \in Seq(AnyPacket)
  BY <1>2, Zenon DEF FrameType
<1>4. CASE f.size < lenValues
  <2>1. f.len = f.size % lenValues
    BY <1>1, Zenon DEF FrameFits
  <2>2. f.size % lenValues = f.size
    BY <1>3, <1>4 DEF lenValues
  <2> QED  BY <2>1, <2>2, Zenon DEF f
<1>5. CASE ~(f.size < lenValues)
  <2>1. f.typ = "batch" /\ Len(f.pkts) = 1 /\ f.size <= f.pkts[1].size + 18
    BY <1>1, <1>5, Zenon DEF FrameFits
  <2>2. f.pkts[1] \in AnyPacket
    BY <1>3, <2>1
  <2>3. f.pkts[1].size \in Nat
    BY <2>2, PacketTypes, Zenon DEF AnyPacket
  <2>4. f.pkts[1].size + 18 >= lenValues
    BY <1>3, <1>5, <2>1, <2>3 DEF lenValues
  <2> QED  BY <2>1, <2>4, Zenon DEF f
<1> QED  BY <1>4, <1>5

\* For every packet size the device may hand out: a length field is wrong only
\* when tunToSockBatch puts a packet of more than 65517 bytes into a batch of
\* its own; no other frame, single or batch, is ever misread.
THEOREM PipeOnlyGiantsMisread == Spec => []OnlyGiantsMisread
BY FitsOrGiant, PipeInit, PipeStep, SizeInit, SizeStep, PTL DEF Spec

\* A packet fits into a batch of its own: 2 bytes for its length, 16 for the seal.
PacketsFit == \A n \in Sizes : n + 18 < lenValues

\* Without such packets, nothing is.
LEMMA FitsAll ==
    ASSUME PacketsFit
    PROVE  PipeInv /\ SizeInv => LengthFits
<1> SUFFICES ASSUME PipeInv, SizeInv, NEW k \in 1..Len(wire)
             PROVE  wire[k].len = wire[k].size
  BY Zenon DEF LengthFits
<1> DEFINE f == wire[k]
<1>1. \/ f.len = f.size
      \/ Len(f.pkts) = 1 /\ f.pkts[1].size + 18 >= lenValues
  BY FitsOrGiant, Zenon DEF OnlyGiantsMisread
<1>2. f \in FrameType
  BY DEF PipeInv
<1> HIDE DEF f
<1>3. f.pkts \in Seq(AnyPacket)
  BY <1>2, Zenon DEF FrameType
<1>4. SizeType \subseteq Sizes
  <2>1. ASSUME NEW n \in Sizes PROVE ~(n >= maxPkt) /\ ~(n >= maxPkt - 16)
    <3>1. n \in Nat /\ n + 18 < lenValues
      BY PipeAssumption, Zenon DEF PacketsFit
    <3> QED  BY <3>1 DEF lenValues, maxPkt
  <2> QED  BY <2>1, Zenon DEF SizeType
<1>5. ASSUME Len(f.pkts) = 1, f.pkts[1].size + 18 >= lenValues PROVE FALSE
  <2>1. f.pkts[1] \in AnyPacket
    BY <1>3, <1>5
  <2>2. f.pkts[1].size \in Sizes
    BY <1>4, <2>1, Zenon DEF AnyPacket
  <2>3. f.pkts[1].size + 18 < lenValues /\ f.pkts[1].size \in Nat
    BY <2>2, PipeAssumption, Zenon DEF PacketsFit
  <2> QED  BY <1>5, <2>3 DEF lenValues
<1> QED  BY <1>1, <1>5, Zenon DEF f

\* "maxFrame caps the batch plaintext so the ciphertext stays under the 16-bit
\* length field": true for bursts of any length, as long as no packet is larger
\* than 65517 bytes.  (Without that assumption it is refuted by a run.)
THEOREM PipeLengthFits ==
    ASSUME PacketsFit
    PROVE  Spec => []LengthFits
BY FitsAll, PipeInit, PipeStep, SizeInit, SizeStep, PTL DEF Spec

-----------------------------------------------------------------------------
(* Sequences: induction over their length, and what Flatten computes *)

Associate(a, b, c) == (a \o b) \o c = a \o (b \o c)

LEMMA Associative ==
    ASSUME NEW S, NEW a \in Seq(S), NEW b \in Seq(S), NEW c \in Seq(S)
    PROVE  Associate(a, b, c)
<1>1. (a \o b) \o c = a \o (b \o c)
  <2> DEFINE l == (a \o b) \o c
             r == a \o (b \o c)
  <2>1. l \in Seq(S) /\ r \in Seq(S)
    BY ConcatProperties, Zenon
  <2>2. Len(l) = Len(r)
    OBVIOUS
  <2>3. \A k \in 1..Len(l) : l[k] = r[k]
    OBVIOUS
  <2> HIDE DEF l, r
  <2>4. l = r
    BY <2>1, <2>2, <2>3, SeqEqual, Zenon
  <2> QED  BY <2>4, Zenon DEF l, r
<1> QED  BY <1>1, Zenon DEF Associate

\* A set of natural numbers has a least element.
LEMMA LeastMember ==
    ASSUME NEW S \in SUBSET Nat, S # {}
    PROVE  \E x \in S : \A y \in S : x <= y
<1> DEFINE R == {ss \in Nat \X Nat : ss[1] < ss[2]}
<1>1. IsWellFoundedOn(R, Nat)
  BY NatLessThanWellFounded DEF OpToRel
<1> HIDE DEF R
<1>2. PICK x \in S : \A y \in S : ~(<<y, x>> \in R)
  BY <1>1, WFMin, Zenon
<1>3. ASSUME NEW y \in S PROVE x <= y
  <2>1. y < x => <<y, x>> \in R
    BY DEF R
  <2> QED
    BY <2>1, <1>2
<1> QED
  BY <1>3

\* A set that holds 0 and with n also n + 1 holds every number up to N.
LEMMA UpTo ==
    ASSUME NEW N \in Nat, NEW G, 0 \in G,
           \A n \in 0..N-1 : n \in G => n + 1 \in G
    PROVE  \A n \in 0..N : n \in G
<1> DEFINE B == {n \in 0..N : n \notin G}
<1> SUFFICES ASSUME B # {} PROVE FALSE
  OBVIOUS
<1>1. B \in SUBSET Nat
  OBVIOUS
<1> HIDE DEF B
<1>2. PICK m \in B : \A y \in B : m <= y
  BY <1>1, LeastMember
<1>3. m \in 0..N /\ m \notin G
  BY DEF B
<1>4. m # 0
  BY <1>3
<1>5. m - 1 \in 0..N-1 /\ m - 1 \in 0..N /\ (m - 1) + 1 = m
  BY <1>3, <1>4
<1>6. m - 1 \notin B
  BY <1>2, <1>5
<1>7. m - 1 \in G
  BY <1>5, <1>6 DEF B
<1> QED  BY <1>3, <1>5, <1>7

IsFlat(f, s, n) == f = [i \in 0..n |-> IF i = 0 THEN <<>> ELSE f[i-1] \o s[i]]

\* The recursive function inside Flatten exists,
LEMMA FlatExists ==
    ASSUME NEW s, NEW N \in Nat
    PROVE  \E f : IsFlat(f, s, N)
<1> DEFINE G == {n \in Nat : \E f : IsFlat(f, s, n)}
<1>1. 0 \in G
  <2> DEFINE f == [i \in 0..0 |-> <<>>]
  <2>1. \A i \in 0..0 : (IF i = 0 THEN <<>> ELSE f[i-1] \o s[i]) = <<>>
    OBVIOUS
  <2>2. f = [i \in 0..0 |-> IF i = 0 THEN <<>> ELSE f[i-1] \o s[i]]
    BY <2>1, Zenon
  <2> HIDE DEF f
  <2>3. \E h : IsFlat(h, s, 0)
    BY <2>2, Zenon DEF IsFlat
  <2> QED  BY <2>3
<1>2. ASSUME NEW n \in 0..N-1, n \in G PROVE n + 1 \in G
  <2>1. PICK f : IsFlat(f, s, n)
    BY <1>2
  <2> DEFINE e == f[n] \o s[n + 1]
             g == [i \in 0..n+1 |-> IF i = n + 1 THEN e ELSE f[i]]
  <2>2. \A i \in 0..n+1 : g[i] = IF i = n + 1 THEN e ELSE f[i]
    BY Zenon
  <2>3. g = [i \in 0..n+1 |-> g[i]]
    BY Zenon
  <2> HIDE DEF g, e
  <2>4. ASSUME NEW i \in 0..n+1
        PROVE  g[i] = IF i = 0 THEN <<>> ELSE g[i-1] \o s[i]
    <3>1. CASE i = n + 1
      <4>1. i - 1 = n /\ n \in 0..n+1 /\ n # n + 1 /\ i # 0
        BY <3>1
      <4>2. g[n] = f[n] /\ g[i] = e
        BY <2>2, <3>1, <4>1, Zenon
      <4> QED  BY <3>1, <4>1, <4>2, Zenon DEF e
    <3>2. CASE i # n + 1
      <4>1. i \in 0..n /\ (i # 0 => i - 1 \in 0..n+1 /\ i - 1 # n + 1)
        BY <3>2
      <4>2. f[i] = IF i = 0 THEN <<>> ELSE f[i-1] \o s[i]
        BY <2>1, <4>1, Zenon DEF IsFlat
      <4>3. g[i] = f[i] /\ (i # 0 => g[i-1] = f[i-1])
        BY <2>2, <3>2, <4>1, Zenon
      <4> QED  BY <4>2, <4>3, Zenon
    <3> QED  BY <3>1, <3>2, Zenon
  <2>5. g = [i \in 0..n+1 |-> IF i = 0 THEN <<>> ELSE g[i-1] \o s[i]]
    BY <2>3, <2>4, Zenon
  <2>6. \E h : IsFlat(h, s, n + 1)
    BY <2>5, Zenon DEF IsFlat
  <2> QED  BY <2>6
<1>3. \A n \in 0..N : n \in G
  <2> HIDE DEF G
  <2> QED  BY <1>1, <1>2, UpTo
<1> QED  BY <1>3

\* and Flatten is its last value.
LEMMA FlatUnfold ==
    ASSUME NEW s, Len(s) \in Nat
    PROVE  \E f : IsFlat(f, s, Len(s)) /\ Flatten(s) = f[Len(s)]
<1> DEFINE h == CHOOSE f : f = [i \in 0..Len(s) |-> IF i = 0 THEN <<>> ELSE f[i-1] \o s[i]]
<1>1. IsFlat(h, s, Len(s))
  BY FlatExists, Zenon DEF IsFlat
<1>2. Flatten(s) = h[Len(s)]
  BY Zenon DEF Flatten
<1> QED  BY <1>1, <1>2, Zenon

Agree(f, g, n) == \A i \in 1..n : f[i] = g[i]

\* Two of them agree as far as their sequences do.
LEMMA FlatAgree ==
    ASSUME NEW s, NEW t, NEW m \in Nat, NEW n \in Nat, m <= n, NEW f, NEW g,
           IsFlat(f, s, m), IsFlat(g, t, n), Agree(s, t, m)
    PROVE  f[m] = g[m]
<1> DEFINE G == {i \in 0..m : f[i] = g[i]}
<1>0. 0 \in 0..m /\ 0 \in 0..n /\ m \in 0..m
  OBVIOUS
<1>1. 0 \in G
  BY <1>0, Zenon DEF IsFlat
<1>2. ASSUME NEW k \in 0..m-1, k \in G PROVE k + 1 \in G
  <2>1. k + 1 \in 0..m /\ k + 1 \in 0..n /\ k + 1 \in 1..m /\ k + 1 # 0 /\ (k + 1) - 1 = k
    OBVIOUS
  <2>2. f[k+1] = f[k] \o s[k+1] /\ g[k+1] = g[k] \o t[k+1]
    BY <2>1, Zenon DEF IsFlat
  <2>3. s[k+1] = t[k+1]
    BY <2>1, Zenon DEF Agree
  <2>4. f[k] = g[k]
    BY <1>2, Zenon
  <2> QED  BY <2>1, <2>2, <2>3, <2>4, Zenon
<1> HIDE DEF G
<1>3. \A i \in 0..m : i \in G
  BY <1>1, <1>2, UpTo
<1> QED  BY <1>0, <1>3, Zenon DEF G

\* Flatten of nothing,
LEMMA FlatEmpty == Flatten(<<>>) = <<>>
<1>1. Len(<<>>) = 0 /\ 0 \in Nat /\ 0 \in 0..0
  OBVIOUS
<1>2. PICK f : IsFlat(f, <<>>, 0) /\ Flatten(<<>>) = f[0]
  BY <1>1, FlatUnfold, Zenon
<1> QED  BY <1>1, <1>2, Zenon DEF IsFlat

\* of one sequence more,
LEMMA FlatAppend ==
    ASSUME NEW S, NEW s \in Seq(Seq(S)), NEW x \in Seq(S)
    PROVE  Flatten(Append(s, x)) = Flatten(s) \o x
<1> DEFINE t == Append(s, x)
           n == Len(s)
<1>1. n \in Nat /\ Len(t) = n + 1 /\ t[n+1] = x /\ Agree(s, t, n)
  BY DEF Agree
<1> HIDE DEF t, n
<1>2. n + 1 \in Nat /\ n <= n + 1 /\ n + 1 \in 0..n+1 /\ n + 1 # 0 /\ (n + 1) - 1 = n
  BY <1>1
<1>3. PICK g : IsFlat(g, t, n + 1) /\ Flatten(t) = g[n + 1]
  BY <1>1, <1>2, FlatUnfold, Zenon
<1>4. PICK f : IsFlat(f, s, n) /\ Flatten(s) = f[n]
  BY <1>1, FlatUnfold, Zenon DEF n
<1>5. f[n] = g[n]
  BY <1>1, <1>2, <1>3, <1>4, FlatAgree
<1>6. g[n+1] = g[n] \o t[n+1]
  BY <1>2, <1>3, Zenon DEF IsFlat
<1> QED  BY <1>1, <1>3, <1>4, <1>5, <1>6, Zenon DEF t

\* A prefix one longer
LEMMA PrefixNext ==
    ASSUME NEW S, NEW s \in Seq(S), NEW n \in 0..Len(s)-1
    PROVE  /\ SubSeq(s, 1, n) \in Seq(S)
           /\ s[n + 1] \in S
           /\ SubSeq(s, 1, n + 1) = Append(SubSeq(s, 1, n), s[n + 1])
<1>1. Len(s) \in Nat /\ n + 1 \in 1..Len(s) /\ s[n+1] \in S /\ SubSeq(s, 1, n) \in Seq(S)
      /\ SubSeq(s, 1, n + 1) \in Seq(S)
  OBVIOUS
<1>2. Len(SubSeq(s, 1, n)) = n /\ Len(SubSeq(s, 1, n + 1)) = n + 1
  BY <1>1
<1>3. \A i \in 1..n : SubSeq(s, 1, n)[i] = s[i]
  BY <1>1
<1>4. \A i \in 1..n+1 : SubSeq(s, 1, n + 1)[i] = s[i]
  BY <1>1
<1> DEFINE a == SubSeq(s, 1, n)
           b == SubSeq(s, 1, n + 1)
<1> HIDE DEF a, b
<1>5. Append(a, s[n+1]) \in Seq(S) /\ Len(Append(a, s[n+1])) = n + 1
  BY <1>1, <1>2 DEF a
<1>6. \A i \in 1..n+1 : Append(a, s[n+1])[i] = s[i]
  BY <1>1, <1>2, <1>3 DEF a
<1>7. b = Append(a, s[n+1])
  BY <1>1, <1>2, <1>4, <1>5, <1>6, SeqEqual DEF b
<1> QED  BY <1>1, <1>7 DEF a, b

\* its type,
LEMMA FlatType ==
    ASSUME NEW S, NEW s \in Seq(Seq(S))
    PROVE  Flatten(s) \in Seq(S)
<1> DEFINE P(n) == Flatten(SubSeq(s, 1, n)) \in Seq(S)
           G == {n \in 0..Len(s) : P(n)}
<1>0. Len(s) \in Nat /\ SubSeq(s, 1, 0) = <<>> /\ SubSeq(s, 1, Len(s)) = s
  BY SubSeqFull, SubSeqEmpty
<1>1. 0 \in G
  <2>1. <<>> \in Seq(S)
    OBVIOUS
  <2>2. P(0)
    BY <1>0, <2>1, FlatEmpty, Zenon
  <2> HIDE DEF P
  <2> QED  BY <1>0, <2>2
<1>2. ASSUME NEW n \in 0..Len(s)-1, n \in G PROVE n + 1 \in G
  <2> DEFINE a == SubSeq(s, 1, n)
  <2>1. a \in Seq(Seq(S)) /\ s[n+1] \in Seq(S) /\ SubSeq(s, 1, n + 1) = Append(a, s[n+1])
    BY PrefixNext
  <2>2. Flatten(a) \in Seq(S)
    BY <1>2
  <2> HIDE DEF a
  <2>3. Flatten(Append(a, s[n+1])) \in Seq(S)
    BY <2>1, <2>2, FlatAppend, ConcatProperties, Zenon
  <2>4. P(n + 1)
    BY <2>1, <2>3, Zenon
  <2> HIDE DEF P
  <2> QED  BY <1>0, <2>4
<1> HIDE DEF G
<1>3. \A n \in 0..Len(s) : n \in G
  BY <1>0, <1>1, <1>2, UpTo, Zenon
<1>4. P(Len(s))
  <2> HIDE DEF P
  <2> QED  BY <1>0, <1>3 DEF G
<1> QED  BY <1>0, <1>4, Zenon

LEMMA FlatAppends ==
    ASSUME NEW S, NEW s \in Seq(Seq(S)), NEW x \in Seq(S)
    PROVE  Flatten(Append(s, x)) = Flatten(s) \o x
<1>1. s = <<>> => Flatten(s) \o x = x
  BY FlatEmpty, ConcatEmptySeq
<1> QED  BY <1>1, FlatAppend

LEMMA AppendLast ==
    ASSUME NEW S, NEW a \in Seq(S), NEW b \in Seq(S), NEW x \in S
    PROVE  a \o Append(b, x) = Append(a \o b, x) /\ a \o b \in Seq(S)
<1>1. <<x>> \in Seq(S) /\ a \o b \in Seq(S)
  OBVIOUS
<1>2. Append(b, x) = b \o <<x>> /\ Append(a \o b, x) = (a \o b) \o <<x>>
  BY <1>1, AppendIsConcat, Zenon
<1>3. (a \o b) \o <<x>> = a \o (b \o <<x>>)
  <2> DEFINE y == <<x>>
  <2>1. y \in Seq(S)
    BY <1>1
  <2> HIDE DEF y
  <2>2. (a \o b) \o y = a \o (b \o y)
    <3>1. Associate(a, b, y)
      BY <2>1, Associative, Zenon
    <3> QED  BY <3>1, Zenon DEF Associate
  <2> QED  BY <2>2, Zenon DEF y
<1> QED  BY <1>1, <1>2, <1>3, Zenon

\* of two sequences one after the other,
LEMMA FlatConcat ==
    ASSUME NEW S, NEW s \in Seq(Seq(S)), NEW t \in Seq(Seq(S))
    PROVE  Flatten(s \o t) = Flatten(s) \o Flatten(t)
<1> DEFINE a(n) == SubSeq(t, 1, n)
           P(n) == Flatten(s \o a(n)) = Flatten(s) \o Flatten(a(n))
           G == {n \in 0..Len(t) : P(n)}
<1>0. Len(t) \in Nat /\ a(0) = <<>> /\ a(Len(t)) = t
  BY SubSeqFull, SubSeqEmpty
<1>1. 0 \in G
  <2>1. s \o <<>> = s /\ Flatten(s) \o <<>> = Flatten(s)
    BY FlatType, ConcatEmptySeq
  <2>2. P(0)
    BY <1>0, <2>1, FlatEmpty, Zenon
  <2> HIDE DEF P
  <2> QED  BY <1>0, <2>2
<1>2. ASSUME NEW n \in 0..Len(t)-1, n \in G PROVE n + 1 \in G
  <2> DEFINE u == SubSeq(t, 1, n)
             x == t[n + 1]
  <2>1. u \in Seq(Seq(S)) /\ x \in Seq(S) /\ a(n + 1) = Append(u, x)
    BY PrefixNext
  <2>2. Flatten(s \o u) = Flatten(s) \o Flatten(u)
    BY <1>2
  <2> HIDE DEF u, x
  <2>4. s \o Append(u, x) = Append(s \o u, x) /\ s \o u \in Seq(Seq(S))
    BY <2>1, AppendLast, Zenon
  <2>5. Flatten(s \o Append(u, x)) = Flatten(s \o u) \o x
    BY <2>1, <2>4, FlatAppends, Zenon
  <2>6. Flatten(Append(u, x)) = Flatten(u) \o x
    BY <2>1, FlatAppends, Zenon
  <2>7. Flatten(s) \in Seq(S) /\ Flatten(u) \in Seq(S)
    BY <2>1, FlatType
  <2>8. (Flatten(s) \o Flatten(u)) \o x = Flatten(s) \o (Flatten(u) \o x)
    <3> DEFINE fs == Flatten(s)
               fu == Flatten(u)
    <3>1. fs \in Seq(S) /\ fu \in Seq(S) /\ x \in Seq(S)
      BY <2>1, <2>7, Zenon
    <3> HIDE DEF fs, fu
    <3>2. (fs \o fu) \o x = fs \o (fu \o x)
      <4>1. Associate(fs, fu, x)
        BY <3>1, Associative, Zenon
      <4> QED  BY <4>1, Zenon DEF Associate
    <3> QED  BY <3>2, Zenon DEF fs, fu
  <2>9. P(n + 1)
    BY <2>1, <2>2, <2>5, <2>6, <2>8, Zenon
  <2> HIDE DEF P
  <2> QED  BY <1>0, <2>9
<1> HIDE DEF G
<1>3. \A n \in 0..Len(t) : n \in G
  BY <1>0, <1>1, <1>2, UpTo, Zenon
<1>4. P(Len(t))
  <2> HIDE DEF P
  <2> QED  BY <1>0, <1>3 DEF G
<1> QED  BY <1>0, <1>4, Zenon

\* and of a single one.
LEMMA FlatOne ==
    ASSUME NEW S, NEW x \in Seq(S)
    PROVE  Flatten(<<x>>) = x
<1>1. <<>> \in Seq(Seq(S)) /\ Append(<<>>, x) = <<x>>
  OBVIOUS
<1>2. Flatten(Append(<<>>, x)) = <<>> \o x
  BY <1>1, FlatAppend, FlatEmpty, Zenon
<1>3. <<>> \o x = x
  BY ConcatEmptySeq, Zenon
<1> QED  BY <1>1, <1>2, <1>3, Zenon

\* Cutting a sequence, and taking its head, as concatenations.
LEMMA SplitAt ==
    ASSUME NEW S, NEW s \in Seq(S), NEW n \in 0..Len(s)
    PROVE  /\ SubSeq(s, 1, n) \in Seq(S) /\ SubSeq(s, n + 1, Len(s)) \in Seq(S)
           /\ s = SubSeq(s, 1, n) \o SubSeq(s, n + 1, Len(s))
<1>1. Len(s) \in Nat
  OBVIOUS
<1>2. 1 \in 1..Len(s)+1 /\ n \in 1-1..Len(s) /\ Len(s) \in n..Len(s)
  BY <1>1
<1>3. SubSeq(s, 1, n) \o SubSeq(s, n + 1, Len(s)) = SubSeq(s, 1, Len(s))
  BY <1>2, ConcatAdjacentSubSeq, Zenon
<1>4. SubSeq(s, 1, n) \in Seq(S) /\ SubSeq(s, n + 1, Len(s)) \in Seq(S)
  BY <1>1
<1> QED  BY <1>3, <1>4, SubSeqFull, Zenon

LEMMA HeadFirst ==
    ASSUME NEW S, NEW s \in Seq(S), s # <<>>
    PROVE  Head(s) \in S /\ Tail(s) \in Seq(S) /\ s = <<Head(s)>> \o Tail(s)
<1>1. Head(s) \in S /\ Tail(s) \in Seq(S) /\ Len(s) \in Nat \ {0}
  OBVIOUS
<1>2. 1 \in 1..Len(s) /\ Len(s) \in 1..Len(s)
  BY <1>1
<1>3. SubSeq(s, 1, Len(s)) = <<s[1]>> \o SubSeq(s, 2, Len(s))
  BY <1>2, SubSeqRecursiveFirst
<1>4. SubSeq(s, 1, Len(s)) = s /\ SubSeq(s, 2, Len(s)) = Tail(s)
  BY SubSeqFull, TailIsSubSeq, Zenon
<1>5. Head(s) = s[1]
  OBVIOUS
<1> QED  BY <1>1, <1>3, <1>4, <1>5, Zenon

\* Concatenation of packets.
LEMMA Assoc == \A a, b, c \in Seq(AnyPacket) : (a \o b) \o c = a \o (b \o c)
<1>1. ASSUME NEW a \in Seq(AnyPacket), NEW b \in Seq(AnyPacket), NEW c \in Seq(AnyPacket)
      PROVE  (a \o b) \o c = a \o (b \o c)
  <2>1. Associate(a, b, c)
    BY Associative, Zenon
  <2> QED  BY <2>1, Zenon DEF Associate
<1> QED  BY <1>1, Zenon

\* A concatenation, element by element.
LEMMA IsConcat ==
    ASSUME NEW S, NEW x \in Seq(S), NEW y \in Seq(S), NEW z \in Seq(S),
           Len(z) = Len(x) + Len(y), \A k \in 1..Len(x) : z[k] = x[k],
           \A k \in 1..Len(y) : z[Len(x) + k] = y[k]
    PROVE  z = x \o y
<1>1. /\ x \o y \in Seq(S) /\ Len(x \o y) = Len(x) + Len(y)
      /\ \A k \in 1..Len(x)+Len(y) : (x \o y)[k] = IF k <= Len(x) THEN x[k] ELSE y[k - Len(x)]
  BY ConcatProperties, Zenon
<1>2. Len(x) \in Nat /\ Len(y) \in Nat
  OBVIOUS
<1> DEFINE c == x \o y
<1> HIDE DEF c
<1>3. ASSUME NEW k \in 1..Len(z) PROVE z[k] = c[k]
  <2>1. CASE k <= Len(x)
    <3>1. k \in 1..Len(x) /\ k \in 1..Len(x)+Len(y)
      BY <1>2, <2>1
    <3> QED  BY <1>1, <2>1, <3>1, Zenon DEF c
  <2>2. CASE ~(k <= Len(x))
    <3>1. k - Len(x) \in 1..Len(y) /\ Len(x) + (k - Len(x)) = k /\ k \in 1..Len(x)+Len(y)
      BY <1>2, <2>2
    <3>2. z[k] = y[k - Len(x)]
      BY <3>1, Zenon
    <3> QED  BY <1>1, <2>2, <3>1, <3>2, Zenon DEF c
  <2> QED  BY <2>1, <2>2
<1> QED  BY <1>1, <1>3, SeqEqual, Zenon DEF c

LEMMA Empty == \A a \in Seq(AnyPacket) : a \o <<>> = a /\ <<>> \o a = a
BY ConcatEmptySeq

LEMMA Joins == <<>> \in Seq(AnyPacket) /\ \A a, b \in Seq(AnyPacket) : a \o b \in Seq(AnyPacket)
BY ConcatProperties

-----------------------------------------------------------------------------
(* The lane is a pipe of packets *)

\* The packets of frames, and those of a queue that are not runts, piece by piece.
Bodies(w) == [k \in 1..Len(w) |-> w[k].pkts]
Chunk(p) == IF p.size >= minRead THEN <<p>> ELSE <<>>
Chunks(q) == [k \in 1..Len(q) |-> Chunk(q[k])]

\* The pieces of a concatenation are those of its parts.
LEMMA PayloadParts ==
    ASSUME NEW a \in Seq(FrameType), NEW b \in Seq(FrameType)
    PROVE  Payload(a) \in Seq(AnyPacket) /\ Payload(a \o b) = Payload(a) \o Payload(b)
<1>1. ASSUME NEW w \in Seq(FrameType)
      PROVE  /\ Bodies(w) \in Seq(Seq(AnyPacket)) /\ Len(Bodies(w)) = Len(w)
             /\ \A k \in 1..Len(w) : Bodies(w)[k] = w[k].pkts
  <2>1. Len(w) \in Nat /\ \A k \in 1..Len(w) : w[k] \in FrameType
    OBVIOUS
  <2>2. \A k \in 1..Len(w) : w[k].pkts \in Seq(AnyPacket)
    BY <2>1, Zenon DEF FrameType
  <2> QED  BY <2>1, <2>2 DEF Bodies
<1> DEFINE c == a \o b
           x == Bodies(a)
           y == Bodies(b)
           z == Bodies(c)
<1>2. /\ c \in Seq(FrameType) /\ Len(a) \in Nat /\ Len(b) \in Nat /\ Len(c) = Len(a) + Len(b)
      /\ \A k \in 1..Len(a) : c[k] = a[k] /\ k \in 1..Len(c)
      /\ \A k \in 1..Len(b) : c[Len(a) + k] = b[k] /\ Len(a) + k \in 1..Len(c)
  OBVIOUS
<1> HIDE DEF c
<1>3. /\ x \in Seq(Seq(AnyPacket)) /\ Len(x) = Len(a) /\ \A k \in 1..Len(a) : x[k] = a[k].pkts
      /\ y \in Seq(Seq(AnyPacket)) /\ Len(y) = Len(b) /\ \A k \in 1..Len(b) : y[k] = b[k].pkts
  BY <1>1, Zenon
<1>4. z \in Seq(Seq(AnyPacket)) /\ Len(z) = Len(c) /\ \A k \in 1..Len(c) : z[k] = c[k].pkts
  BY <1>1, <1>2, Zenon
<1>5. /\ Len(z) = Len(x) + Len(y) /\ \A k \in 1..Len(x) : z[k] = x[k]
      /\ \A k \in 1..Len(y) : z[Len(x) + k] = y[k]
  BY <1>2, <1>3, <1>4, Zenon
<1>6. z = x \o y
  BY <1>3, <1>4, <1>5, IsConcat, Zenon
<1>7. Flatten(z) = Flatten(x) \o Flatten(y)
  BY <1>3, <1>6, FlatConcat, Zenon
<1>8. Flatten(x) \in Seq(AnyPacket)
  BY <1>3, FlatType, Zenon
<1> QED  BY <1>7, <1>8, Zenon DEF Payload, Bodies, c

LEMMA ReadableParts ==
    ASSUME NEW a \in Seq(AnyPacket), NEW b \in Seq(AnyPacket)
    PROVE  Readable(a) \in Seq(AnyPacket) /\ Readable(a \o b) = Readable(a) \o Readable(b)
<1>1. ASSUME NEW w \in Seq(AnyPacket)
      PROVE  /\ Chunks(w) \in Seq(Seq(AnyPacket)) /\ Len(Chunks(w)) = Len(w)
             /\ \A k \in 1..Len(w) : Chunks(w)[k] = Chunk(w[k])
  <2>1. Len(w) \in Nat /\ \A k \in 1..Len(w) : w[k] \in AnyPacket
    OBVIOUS
  <2>2. \A k \in 1..Len(w) : Chunk(w[k]) \in Seq(AnyPacket)
    BY <2>1 DEF Chunk
  <2> QED  BY <2>1, <2>2 DEF Chunks
<1> DEFINE c == a \o b
           x == Chunks(a)
           y == Chunks(b)
           z == Chunks(c)
<1>2. /\ c \in Seq(AnyPacket) /\ Len(a) \in Nat /\ Len(b) \in Nat /\ Len(c) = Len(a) + Len(b)
      /\ \A k \in 1..Len(a) : c[k] = a[k] /\ k \in 1..Len(c)
      /\ \A k \in 1..Len(b) : c[Len(a) + k] = b[k] /\ Len(a) + k \in 1..Len(c)
  OBVIOUS
<1> HIDE DEF c
<1>3. /\ x \in Seq(Seq(AnyPacket)) /\ Len(x) = Len(a) /\ \A k \in 1..Len(a) : x[k] = Chunk(a[k])
      /\ y \in Seq(Seq(AnyPacket)) /\ Len(y) = Len(b) /\ \A k \in 1..Len(b) : y[k] = Chunk(b[k])
  BY <1>1, Zenon
<1>4. z \in Seq(Seq(AnyPacket)) /\ Len(z) = Len(c) /\ \A k \in 1..Len(c) : z[k] = Chunk(c[k])
  BY <1>1, <1>2, Zenon
<1>5. /\ Len(z) = Len(x) + Len(y) /\ \A k \in 1..Len(x) : z[k] = x[k]
      /\ \A k \in 1..Len(y) : z[Len(x) + k] = y[k]
  BY <1>2, <1>3, <1>4, Zenon
<1>6. z = x \o y
  BY <1>3, <1>4, <1>5, IsConcat, Zenon
<1>7. Flatten(z) = Flatten(x) \o Flatten(y)
  BY <1>3, <1>6, FlatConcat, Zenon
<1>8. Flatten(x) \in Seq(AnyPacket)
  BY <1>3, FlatType, Zenon
<1> QED  BY <1>7, <1>8, Zenon DEF Readable, Chunks, Chunk, c

\* Payload and Readable of one frame, one packet and none.
LEMMA PayloadOne ==
    ASSUME NEW f \in FrameType
    PROVE  Payload(<<f>>) = f.pkts
<1>1. f.pkts \in Seq(AnyPacket)
  BY Zenon DEF FrameType
<1>2. [k \in 1..Len(<<f>>) |-> <<f>>[k].pkts] = <<f.pkts>>
  OBVIOUS
<1>3. Flatten(<<f.pkts>>) = f.pkts
  BY <1>1, FlatOne, Zenon
<1> QED  BY <1>2, <1>3, Zenon DEF Payload

LEMMA ReadableOne ==
    ASSUME NEW p \in AnyPacket
    PROVE  Readable(<<p>>) = Chunk(p) /\ Chunk(p) \in Seq(AnyPacket)
<1>1. Chunk(p) \in Seq(AnyPacket)
  BY DEF Chunk
<1>2. [k \in 1..Len(<<p>>) |-> Chunk(<<p>>[k])] = <<Chunk(p)>>
  OBVIOUS
<1>3. Flatten(<<Chunk(p)>>) = Chunk(p)
  BY <1>1, FlatOne, Zenon
<1> QED  BY <1>1, <1>2, <1>3, Zenon DEF Readable, Chunk

LEMMA ReadableNone == Readable(<<>>) = <<>>
<1>1. [k \in 1..Len(<<>>) |-> Chunk(<<>>[k])] = <<>>
  OBVIOUS
<1> QED  BY <1>1, FlatEmpty, Zenon DEF Readable, Chunk

\* The first part of a concatenation is a prefix of it.
LEMMA PrefixOf ==
    ASSUME NEW S, NEW a \in Seq(S), NEW b \in Seq(S)
    PROVE  Len(a) \in 0..Len(a \o b) /\ SubSeq(a \o b, 1, Len(a)) = a
<1>1. Len(a) \in Nat /\ Len(a \o b) = Len(a) + Len(b) /\ Len(b) \in Nat
  OBVIOUS
<1>2. CASE a = <<>>
  <2>1. Len(a) = 0
    BY <1>2
  <2>2. SubSeq(a \o b, 1, 0) = <<>>
    BY SubSeqEmpty
  <2> QED  BY <1>1, <1>2, <2>1, <2>2
<1>3. CASE a # <<>>
  <2>1. 1 \in 1..Len(a) /\ Len(a) \in 1..Len(a)
    BY <1>1, <1>3
  <2>2. SubSeq(a \o b, 1, Len(a)) = SubSeq(a, 1, Len(a))
    BY <2>1, SubSeqOfConcat1
  <2>3. SubSeq(a, 1, Len(a)) = a
    BY SubSeqFull
  <2>4. Len(a) \in 0..Len(a \o b)
    BY <1>1
  <2> QED  BY <2>2, <2>3, <2>4, Zenon
<1> QED  BY <1>2, <1>3

\* UnderWay in two parts: what has reached the socket, and what the sending half
\* still holds or will read.
Ahead == rx.pt \o Payload(wire)
Behind == tx.plain \o Readable(tx.burst) \o Readable(outQueue)
Rest == IF up /\ tx.pc # "done" THEN Behind ELSE <<>>

LEMMA Parts == UnderWay = IF rx.pc = "done" THEN <<>> ELSE Ahead \o Rest
BY Zenon DEF UnderWay, Ahead, Rest, Behind

\* All of them are sequences of packets, now and after a step.
LEMMA PartTypes ==
    ASSUME PipeInv
    PROVE  /\ rx.pt \in Seq(AnyPacket) /\ Payload(wire) \in Seq(AnyPacket)
           /\ Readable(tx.burst) \in Seq(AnyPacket) /\ Readable(outQueue) \in Seq(AnyPacket)
           /\ Ahead \in Seq(AnyPacket) /\ Behind \in Seq(AnyPacket) /\ Rest \in Seq(AnyPacket)
           /\ UnderWay \in Seq(AnyPacket)
<1>1. rx.pt \in Seq(AnyPacket) /\ wire \in Seq(FrameType)
  BY Zenon DEF PipeInv, RxType
<1>2. tx.burst \in Seq(AnyPacket) /\ tx.plain \in Seq(AnyPacket)
  BY TxFields
<1>3. outQueue \in Seq(AnyPacket)
  BY PacketTypes, SeqMonotonic, Zenon DEF PipeInv
<1>4. Payload(wire) \in Seq(AnyPacket)
  BY <1>1, PayloadParts, Zenon
<1>5. Readable(tx.burst) \in Seq(AnyPacket) /\ Readable(outQueue) \in Seq(AnyPacket)
  BY <1>2, <1>3, ReadableParts, Zenon
<1>6. ASSUME NEW a \in Seq(AnyPacket), NEW b \in Seq(AnyPacket) PROVE a \o b \in Seq(AnyPacket)
  BY ConcatProperties, Zenon
<1>7. Ahead \in Seq(AnyPacket)
  BY <1>1, <1>4, <1>6, Zenon DEF Ahead
<1>8. Behind \in Seq(AnyPacket)
  BY <1>2, <1>5, <1>6, Zenon DEF Behind
<1>9. <<>> \in Seq(AnyPacket)
  OBVIOUS
<1>10. Rest \in Seq(AnyPacket)
  BY <1>8, <1>9, Zenon DEF Rest
<1>11. UnderWay \in Seq(AnyPacket)
  BY <1>6, <1>7, <1>9, <1>10, Parts, Zenon
<1> QED  BY <1>1, <1>4, <1>5, <1>7, <1>8, <1>10, <1>11, Zenon

LEMMA TypesNow == PipeInv => Behind \in Seq(AnyPacket) /\ UnderWay \in Seq(AnyPacket)
BY PartTypes, Zenon

LEMMA TypesNext == PipeInv' => (Behind \in Seq(AnyPacket))' /\ (UnderWay \in Seq(AnyPacket))'
BY TypesNow, PTL

\* The kind of a device never changes, and with it what a runt is.
LEMMA KindStays ==
    ASSUME PipeInv, [Next]_vars
    PROVE  minRead' = minRead
<1>1. dev \in DevType
  BY Zenon DEF PipeInv, QueueInv
<1>2. dev'.kind = dev.kind
  BY <1>1, Zenon DEF Next, KernelPacket, WriteChecks, WriteSends, WritePanics, EndpointCloses, ReadQueue, ReadFails,
     SendSingle, BufferPacket, FlushFull, FlushLast, FlushFails, Break, ReadFrame, WritePacket,
     ReceiverEnds, vars, DevType
<1> QED  BY <1>2, Zenon DEF minRead

LEMMA ReadableNext ==
    ASSUME minRead' = minRead
    PROVE  Readable(tx.burst)' = Readable(tx'.burst) /\ Readable(outQueue)' = Readable(outQueue')
BY Zenon DEF Readable

\* The steps of the pipe that the lane takes.
LEMMA PipeStays ==
    ASSUME UnderWay' = UnderWay, UNCHANGED delivered
    PROVE  [Pipe!Next]_(Pipe!vars)
BY Zenon DEF Pipe!vars

\* A tail is lost.
LEMMA PipeCut ==
    ASSUME NEW b \in Seq(AnyPacket), UnderWay' \in Seq(AnyPacket), UnderWay = UnderWay' \o b,
           UNCHANGED delivered
    PROVE  [Pipe!Next]_(Pipe!vars)
<1> DEFINE n == Len(UnderWay')
<1>1. n \in 0..Len(UnderWay) /\ UnderWay' = SubSeq(UnderWay, 1, n)
  BY PrefixOf, Zenon
<1> QED  BY <1>1, Zenon DEF Pipe!Next, Pipe!Cut

\* A packet is queued: it enters the pipe, unless the queue is full, the packet is
\* a runt, or the lane no longer reads the queue.
LEMMA EnqueueRefines ==
    ASSUME PipeInv, minRead' = minRead, NEW p \in Packet, Enqueue(p),
           UNCHANGED <<up, tx, wire, rx, delivered>>
    PROVE  [Pipe!Next]_(Pipe!vars)
<1> DEFINE x == Chunk(p)
<1>1. p \in AnyPacket /\ outQueue \in Seq(AnyPacket)
  BY PacketTypes, SeqMonotonic, Zenon DEF PipeInv
<1>2. x \in Seq(AnyPacket)
  BY <1>1, ReadableOne, Zenon
<1>3. Ahead' = Ahead
  BY Zenon DEF Ahead, Payload
<1>4. UnderWay' = IF rx.pc = "done" THEN <<>> ELSE Ahead \o Rest'
  BY <1>3, Zenon DEF UnderWay, Ahead, Rest, Behind
<1>5. CASE UNCHANGED outQueue
  <2>1. Behind' = Behind
    BY <1>5, ReadableNext, Zenon DEF Behind
  <2>2. Rest' = Rest
    BY <2>1, Zenon DEF Rest
  <2> QED  BY <1>4, <2>2, Parts, PipeStays, Zenon
<1>6. CASE outQueue' = Append(outQueue, p)
  <2>1. outQueue' = outQueue \o <<p>> /\ <<p>> \in Seq(AnyPacket)
    BY <1>1, <1>6, AppendIsConcat
  <2>2. Readable(outQueue') = Readable(outQueue) \o x
    BY <1>1, <2>1, ReadableParts, ReadableOne, Zenon
  <2> DEFINE h == tx.plain \o Readable(tx.burst)
             q == Readable(outQueue)
  <2>3. h \in Seq(AnyPacket) /\ q \in Seq(AnyPacket)
    BY TxFields, PartTypes, ConcatProperties, Zenon
  <2>4. Behind' = h \o (q \o x)
    BY <2>2, ReadableNext, Zenon DEF Behind
  <2>5. Behind = h \o q
    BY Zenon DEF Behind
  <2> HIDE DEF x, h, q
  <2>6. Behind' = Behind \o x
    <3>1. (h \o q) \o x = h \o (q \o x)
      BY <1>2, <2>3, Assoc, Zenon
    <3> QED  BY <2>4, <2>5, <3>1, Zenon
  <2>7. CASE rx.pc = "done" \/ ~(up /\ tx.pc # "done")
    <3>1. rx.pc # "done" => Rest' = Rest
      BY <2>7, Zenon DEF Rest
    <3> QED  BY <1>4, <3>1, Parts, PipeStays, Zenon
  <2>8. CASE rx.pc # "done" /\ up /\ tx.pc # "done"
    <3>1. Rest = Behind /\ Rest' = Behind \o x
      BY <2>6, <2>8, Zenon DEF Rest
    <3>2. UnderWay = Ahead \o Behind /\ UnderWay' = Ahead \o (Behind \o x)
      BY <1>4, <2>8, <3>1, Parts, Zenon
    <3>3. UnderWay' = UnderWay \o x
      <4>1. Ahead \in Seq(AnyPacket) /\ Behind \in Seq(AnyPacket)
        BY PartTypes, Zenon
      <4>2. (Ahead \o Behind) \o x = Ahead \o (Behind \o x)
        BY <1>2, <4>1, Assoc, Zenon
      <4> QED  BY <3>2, <4>2, Zenon
    <3>4. CASE x = <<>>
      BY <3>3, <3>4, PartTypes, Empty, PipeStays, Zenon
    <3>5. CASE x = <<p>>
      <4>1. UnderWay' = Append(UnderWay, p)
        BY <1>1, <3>3, <3>5, PartTypes, AppendIsConcat, Zenon
      <4> QED  BY <4>1, Zenon DEF Pipe!Next, Pipe!Enter
    <3> QED  BY <3>4, <3>5, Zenon DEF x, Chunk
  <2> QED  BY <2>7, <2>8, Zenon
<1> QED  BY <1>5, <1>6, Zenon DEF Enqueue

\* The sending half passes x from its buffer, burst or queue to the socket, or
\* only moves packets between those three.
LEMMA SenderRefines ==
    ASSUME PipeInv, PipeInv', NEW x \in Seq(AnyPacket),
           Payload(wire') = Payload(wire) \o x, Behind = x \o Behind', up \/ x = <<>>,
           tx.pc # "done", tx'.pc # "done", UNCHANGED <<up, rx, delivered>>
    PROVE  [Pipe!Next]_(Pipe!vars)
<1> DEFINE b == Behind'
           w == Payload(wire)
<1>1. b \in Seq(AnyPacket)
  BY TypesNext, Zenon
<1>2. w \in Seq(AnyPacket) /\ rx.pt \in Seq(AnyPacket) /\ Ahead \in Seq(AnyPacket)
  BY PartTypes, Zenon
<1>3. Ahead = rx.pt \o w /\ Ahead' = rx.pt \o (w \o x)
  BY Zenon DEF Ahead, Payload
<1>4. UnderWay' = IF rx.pc = "done" THEN <<>> ELSE Ahead' \o Rest'
  BY Zenon DEF UnderWay, Ahead, Rest, Behind
<1>5. Behind = x \o b /\ Rest' = IF up THEN b ELSE <<>>
  BY Zenon DEF Rest
<1>6. Rest = IF up THEN x \o b ELSE <<>>
  BY <1>5, Zenon DEF Rest
<1> HIDE DEF b, w
<1>7. Ahead' = Ahead \o x
  <2>1. (rx.pt \o w) \o x = rx.pt \o (w \o x)
    BY <1>2, Assoc, Zenon
  <2> QED  BY <1>3, <2>1, Zenon
<1>8. CASE up
  <2>1. Ahead' \o b = Ahead \o (x \o b)
    <3>1. (Ahead \o x) \o b = Ahead \o (x \o b)
      BY <1>1, <1>2, Assoc, Zenon
    <3> QED  BY <1>7, <3>1, Zenon
  <2>2. UnderWay' = UnderWay
    BY <1>4, <1>5, <1>6, <1>8, <2>1, Parts, Zenon
  <2> QED  BY <2>2, PipeStays, Zenon
<1>9. CASE ~up
  <2>1. Ahead' = Ahead
    BY <1>2, <1>7, <1>9, Empty, Zenon
  <2>2. UnderWay' = UnderWay
    BY <1>4, <1>5, <1>6, <1>9, <2>1, Parts, Zenon
  <2> QED  BY <2>2, PipeStays, Zenon
<1> QED  BY <1>8, <1>9, Zenon

\* Packets move between queue, burst and buffer.
LEMMA SenderMoves ==
    ASSUME PipeInv, PipeInv', Behind' = Behind, UNCHANGED wire,
           tx.pc # "done", tx'.pc # "done", UNCHANGED <<up, rx, delivered>>
    PROVE  [Pipe!Next]_(Pipe!vars)
<1>1. Behind = <<>> \o Behind' /\ Payload(wire) = Payload(wire) \o <<>> /\ <<>> \in Seq(AnyPacket)
  BY PartTypes, Empty, Joins, Zenon
<1>2. Payload(wire') = Payload(wire) \o <<>>
  BY <1>1, Zenon
<1> QED  BY <1>1, <1>2, SenderRefines, Zenon

\* Every packet fits the buffer it is read into, with room for a seal.
NoTruncation == \A n \in Sizes : n + 16 <= maxPkt

\* Then read leaves it whole.
LEMMA ReadWhole ==
    ASSUME NoTruncation, PipeInv, NEW p \in Packet
    PROVE  Read(p) = p
<1>1. p.size \in Sizes /\ p.size \in Nat
  BY PipeAssumption, Zenon DEF Packet
<1>2. p.size + 16 <= maxPkt
  BY <1>1, Zenon DEF NoTruncation
<1>3. p.size <= maxRead
  BY <1>1, <1>2 DEF maxRead, overhead, maxPkt
<1>4. keyed \in BOOLEAN
  BY Zenon DEF PipeInv
<1> QED  BY <1>3, <1>4, ReadType, Zenon

\* A burst is read: queue to burst.
LEMMA ReadQueueRefines ==
    ASSUME NoTruncation, PipeInv, PipeInv', minRead' = minRead, ReadQueue
    PROVE  [Pipe!Next]_(Pipe!vars)
<1>1. PICK n \in 1..Len(outQueue) :
             LET burst == [k \in 1..n |-> Read(outQueue[k])]
             IN  /\ outQueue' = SubSeq(outQueue, n + 1, Len(outQueue))
                 /\ burst \in Seq(AnyPacket) /\ Len(burst) = n
                 /\ tx.plain = <<>> /\ tx.burst = <<>> /\ tx.pc = "read"
                 /\ tx' = [pc |-> IF n = 1 THEN "single" ELSE "batch", burst |-> burst,
                           plain |-> <<>>, size |-> 0, counter |-> tx.counter]
  BY ReadQueueEffect
<1> DEFINE burst == [k \in 1..n |-> Read(outQueue[k])]
           a == SubSeq(outQueue, 1, n)
           b == SubSeq(outQueue, n + 1, Len(outQueue))
<1>2. /\ outQueue' = b /\ burst \in Seq(AnyPacket) /\ Len(burst) = n
      /\ tx.plain = <<>> /\ tx.burst = <<>> /\ tx.pc = "read"
      /\ tx' = [pc |-> IF n = 1 THEN "single" ELSE "batch", burst |-> burst,
                plain |-> <<>>, size |-> 0, counter |-> tx.counter]
  BY <1>1, Zenon
<1>3. outQueue \in Seq(AnyPacket) /\ outQueue \in Seq(Packet)
  BY PacketTypes, SeqMonotonic, Zenon DEF PipeInv
<1>4. n \in 0..Len(outQueue) /\ Len(outQueue) \in Nat
  BY <1>3
<1>5. a \in Seq(AnyPacket) /\ b \in Seq(AnyPacket) /\ outQueue = a \o b
  BY <1>3, <1>4, SplitAt, Zenon
<1>6. Len(a) = n /\ \A k \in 1..n : a[k] = outQueue[k] /\ outQueue[k] \in Packet
  BY <1>3, <1>4
<1>7. \A k \in 1..n : burst[k] = a[k]
  <2>1. \A k \in 1..n : burst[k] = Read(outQueue[k])
    OBVIOUS
  <2> QED  BY <1>6, <2>1, ReadWhole, Zenon
<1>8. burst = a
  BY <1>2, <1>5, <1>6, <1>7, SeqEqual, Zenon
<1> HIDE DEF burst, a, b
<1>9. tx'.burst = a /\ tx'.plain = <<>> /\ tx'.pc # "done"
  BY <1>2, <1>8
<1>10. Readable(a) \in Seq(AnyPacket) /\ Readable(b) \in Seq(AnyPacket)
       /\ Readable(outQueue) = Readable(a) \o Readable(b)
  BY <1>5, ReadableParts, Zenon
<1>11. Behind' = (<<>> \o Readable(a)) \o Readable(b)
  BY <1>2, <1>9, ReadableNext, Zenon DEF Behind
<1>12. Behind = (<<>> \o <<>>) \o (Readable(a) \o Readable(b))
  BY <1>2, <1>10, ReadableNone, Zenon DEF Behind
<1>13. Behind' = Behind
  BY <1>10, <1>11, <1>12, Empty, Joins, Zenon
<1>14. tx.pc # "done" /\ UNCHANGED <<wire, up, rx, delivered>>
  BY <1>2, Zenon DEF ReadQueue
<1> QED  BY <1>9, <1>13, <1>14, SenderMoves, Zenon

\* The device ends: what it still holds is cut off.
LEMMA ReadFailsRefines ==
    ASSUME PipeInv, PipeInv', ReadFails
    PROVE  [Pipe!Next]_(Pipe!vars)
<1>1. tx \in TxType /\ tx' = [tx EXCEPT !.pc = "done"] /\ UNCHANGED <<up, wire, rx, delivered>>
  BY Zenon DEF PipeInv, ReadFails
<1>2. tx'.pc = "done"
  BY <1>1, Zenon DEF TxType
<1>3. UnderWay' = IF rx.pc = "done" THEN <<>> ELSE Ahead \o <<>>
  BY <1>1, <1>2, Zenon DEF UnderWay, Ahead, Payload
<1>4. Ahead \o <<>> = Ahead /\ Ahead \in Seq(AnyPacket) /\ Rest \in Seq(AnyPacket)
  BY PartTypes, Empty, Zenon
<1>5. CASE rx.pc = "done"
  BY <1>1, <1>3, <1>5, Parts, PipeStays, Zenon
<1>6. CASE rx.pc # "done"
  <2>1. UnderWay = UnderWay' \o Rest /\ UnderWay' \in Seq(AnyPacket)
    BY <1>3, <1>4, <1>6, Parts, Zenon
  <2> QED  BY <1>1, <1>4, <2>1, PipeCut, Zenon
<1> QED  BY <1>5, <1>6, Zenon

\* What a flush adds to the socket.
LEMMA FlushedPayload ==
    ASSUME PipeInv, NEW typ, NEW pkts, NEW n, Flushed(typ, pkts, n)
    PROVE  Payload(wire') = Payload(wire) \o pkts
<1> DEFINE f == Frame(typ, pkts, n)
<1>1. typ \in {"single", "batch"} /\ pkts \in Seq(AnyPacket) /\ pkts # <<>> /\ n \in Nat
  BY Zenon DEF Flushed
<1>2. f \in FrameType /\ f.pkts = pkts
  BY <1>1, FrameOfType
<1>3. wire' = Append(wire, f) /\ wire \in Seq(FrameType)
  BY Zenon DEF Flushed, PipeInv
<1> HIDE DEF f
<1>4. wire' = wire \o <<f>> /\ <<f>> \in Seq(FrameType)
  BY <1>2, <1>3, AppendIsConcat
<1> QED  BY <1>2, <1>3, <1>4, PayloadParts, PayloadOne, Zenon

LEMMA IdleFields ==
    ASSUME NEW k
    PROVE  Idle(k).pc = "read" /\ Idle(k).plain = <<>> /\ Idle(k).burst = <<>>
BY DEF Idle

\* Between bursts the sending half holds nothing.
LEMMA BehindIdle ==
    ASSUME PipeInv', minRead' = minRead, UNCHANGED outQueue, NEW k, tx' = Idle(k),
           Readable(outQueue) \in Seq(AnyPacket)
    PROVE  Behind' = Readable(outQueue) /\ tx'.pc # "done"
<1>1. tx'.pc = "read" /\ tx'.plain = <<>> /\ tx'.burst = <<>>
  BY IdleFields, Zenon
<1>2. Behind' = (<<>> \o <<>>) \o Readable(outQueue)
  BY <1>1, ReadableNext, ReadableNone, Zenon DEF Behind
<1> QED  BY <1>1, <1>2, Empty, Joins, Zenon

\* A runt is no packet of the pipe.
LEMMA ChunkIs ==
    ASSUME NEW p, p.size \in Nat
    PROVE  /\ p.size < minRead => Chunk(p) = <<>>
           /\ p.size >= minRead => Chunk(p) = <<p>>
           /\ p.size < minRead \/ p.size >= minRead
<1>1. minRead \in Nat
  BY DEF minRead, virtioNetHdrLen
<1>2. /\ p.size < minRead => ~(p.size >= minRead)
      /\ p.size < minRead \/ p.size >= minRead
  BY <1>1
<1> QED  BY <1>2, Zenon DEF Chunk

\* A lone packet: burst to socket.
LEMMA SendSingleRefines ==
    ASSUME PipeInv, PipeInv', minRead' = minRead, SendSingle
    PROVE  [Pipe!Next]_(Pipe!vars)
<1> DEFINE p == Head(tx.burst)
           q == Readable(outQueue)
<1>1. /\ tx.burst = <<p>> /\ tx.plain = <<>> /\ p \in AnyPacket /\ p.size \in Nat
      /\ \/ p.size < minRead /\ UNCHANGED wire /\ tx' = Idle(tx.counter)
         \/ p.size >= minRead /\ Flushed("single", <<p>>, p.size) /\ tx' = Idle(tx.counter + 1)
  BY SendSingleEffect, Zenon
<1>2. tx.pc # "done" /\ UNCHANGED <<outQueue, up, rx, delivered>>
  BY Zenon DEF SendSingle
<1>3. q \in Seq(AnyPacket) /\ Payload(wire) \in Seq(AnyPacket)
  BY PartTypes, Zenon
<1> HIDE DEF p
<1>4. Behind' = q /\ tx'.pc # "done"
  BY <1>1, <1>2, <1>3, BehindIdle, Zenon
<1>5. Behind = (<<>> \o Chunk(p)) \o q /\ Chunk(p) \in Seq(AnyPacket)
  BY <1>1, ReadableOne, Zenon DEF Behind
<1>6. Behind = Chunk(p) \o Behind'
  BY <1>3, <1>4, <1>5, Empty, Zenon
<1>7. CASE p.size < minRead /\ UNCHANGED wire
  <2>1. Chunk(p) = <<>>
    BY <1>1, <1>7, ChunkIs, Zenon
  <2>2. Behind' = Behind
    BY <1>3, <1>4, <1>6, <2>1, Empty, Zenon
  <2> QED  BY <1>2, <1>4, <1>7, <2>2, SenderMoves, Zenon
<1>8. CASE p.size >= minRead /\ Flushed("single", <<p>>, p.size)
  <2>1. Chunk(p) = <<p>>
    BY <1>8, Zenon DEF Chunk
  <2>2. Payload(wire') = Payload(wire) \o <<p>> /\ up
    BY <1>8, FlushedPayload, Zenon DEF Flushed
  <2> QED  BY <1>2, <1>4, <1>5, <1>6, <2>1, <2>2, SenderRefines, Zenon
<1> QED  BY <1>1, <1>7, <1>8, Zenon

\* A burst that is not empty, as the head that the loop takes and the rest.
LEMMA BehindBurst ==
    ASSUME PipeInv, tx.burst # <<>>
    PROVE  LET c == Chunk(Head(tx.burst))
               r == Readable(Tail(tx.burst))
           IN  /\ c \in Seq(AnyPacket) /\ r \in Seq(AnyPacket)
               /\ Behind = (tx.plain \o (c \o r)) \o Readable(outQueue)
<1> DEFINE p == Head(tx.burst)
           t == Tail(tx.burst)
<1>1. p \in AnyPacket /\ t \in Seq(AnyPacket) /\ tx.burst = <<p>> \o t
  BY TxFields, HeadFirst, Zenon
<1> HIDE DEF p, t
<1>2. <<p>> \in Seq(AnyPacket)
  BY <1>1
<1>3. Readable(tx.burst) = Chunk(p) \o Readable(t)
  BY <1>1, <1>2, ReadableParts, ReadableOne, Zenon
<1>4. Readable(t) \in Seq(AnyPacket) /\ Chunk(p) \in Seq(AnyPacket)
  BY <1>1, ReadableParts, ReadableOne, Zenon
<1> QED  BY <1>3, <1>4, Zenon DEF Behind, p, t

\* A turn of the loop: burst to buffer.
LEMMA BufferPacketRefines ==
    ASSUME PipeInv, PipeInv', minRead' = minRead, BufferPacket
    PROVE  [Pipe!Next]_(Pipe!vars)
<1> DEFINE p == Head(tx.burst)
           c == Chunk(p)
           r == Readable(Tail(tx.burst))
           q == Readable(outQueue)
           h == tx.plain
<1>1. /\ tx.burst # <<>> /\ tx.pc = "batch" /\ p \in AnyPacket /\ p.size \in Nat
      /\ \/ /\ p.size < minRead
            /\ tx' = [pc |-> "batch", burst |-> Tail(tx.burst), plain |-> h,
                      size |-> tx.size, counter |-> tx.counter]
         \/ /\ p.size >= minRead
            /\ tx' = [pc |-> "batch", burst |-> Tail(tx.burst), plain |-> Append(h, p),
                      size |-> tx.size + 2 + p.size, counter |-> tx.counter]
  BY BufferPacketEffect, Zenon
<1>2. UNCHANGED <<outQueue, up, wire, rx, delivered>>
  BY Zenon DEF BufferPacket
<1>3. c \in Seq(AnyPacket) /\ r \in Seq(AnyPacket) /\ Behind = (h \o (c \o r)) \o q
  BY <1>1, BehindBurst, Zenon
<1>4. h \in Seq(AnyPacket) /\ q \in Seq(AnyPacket)
  BY TxFields, PartTypes, Zenon
<1> HIDE DEF p
<1>5. tx'.burst = Tail(tx.burst) /\ tx'.pc = "batch"
  <2>1. ASSUME NEW plain, NEW n,
               tx' = [pc |-> "batch", burst |-> Tail(tx.burst), plain |-> plain,
                      size |-> n, counter |-> tx.counter]
        PROVE  tx'.burst = Tail(tx.burst) /\ tx'.pc = "batch"
    BY <2>1
  <2> QED  BY <1>1, <2>1, Zenon
<1>6. Behind' = (tx'.plain \o r) \o q
  BY <1>2, <1>5, ReadableNext, Zenon DEF Behind
<1>7. tx'.plain = h \o c
  <2>1. CASE /\ p.size < minRead
             /\ tx' = [pc |-> "batch", burst |-> Tail(tx.burst), plain |-> h,
                       size |-> tx.size, counter |-> tx.counter]
    <3>1. c = <<>> /\ tx'.plain = h
      BY <1>1, <2>1, ChunkIs, Zenon
    <3> QED  BY <1>4, <3>1, Empty, Zenon
  <2>2. CASE /\ p.size >= minRead
             /\ tx' = [pc |-> "batch", burst |-> Tail(tx.burst), plain |-> Append(h, p),
                       size |-> tx.size + 2 + p.size, counter |-> tx.counter]
    <3>1. c = <<p>> /\ tx'.plain = Append(h, p)
      BY <1>1, <2>2, ChunkIs, Zenon
    <3> QED  BY <1>1, <1>4, <3>1, AppendIsConcat, Zenon
  <2> QED  BY <1>1, <2>1, <2>2, Zenon
<1> HIDE DEF c, r, q, h
<1>8. (h \o c) \o r = h \o (c \o r)
  BY <1>3, <1>4, Assoc, Zenon
<1>9. Behind' = Behind
  BY <1>3, <1>6, <1>7, <1>8, Zenon
<1>10. tx.pc # "done" /\ tx'.pc # "done"
  BY <1>1, <1>5
<1> QED  BY <1>2, <1>9, <1>10, SenderMoves, Zenon

\* A turn of the loop that flushes: buffer to socket, burst to buffer.
LEMMA FlushFullRefines ==
    ASSUME PipeInv, PipeInv', minRead' = minRead, FlushFull
    PROVE  [Pipe!Next]_(Pipe!vars)
<1> DEFINE p == Head(tx.burst)
           c == Chunk(p)
           r == Readable(Tail(tx.burst))
           q == Readable(outQueue)
           h == tx.plain
<1>1. /\ tx.burst # <<>> /\ tx.pc = "batch" /\ p \in AnyPacket /\ p.size \in Nat
      /\ p.size >= minRead /\ Flushed("batch", h, tx.size)
      /\ tx' = [pc |-> "batch", burst |-> Tail(tx.burst), plain |-> <<p>>,
                size |-> 2 + p.size, counter |-> tx.counter + 1]
  BY FlushFullEffect, Zenon
<1>2. UNCHANGED <<outQueue, up, rx, delivered>>
  BY Zenon DEF FlushFull
<1>3. c \in Seq(AnyPacket) /\ r \in Seq(AnyPacket) /\ Behind = (h \o (c \o r)) \o q
  BY <1>1, BehindBurst, Zenon
<1>4. h \in Seq(AnyPacket) /\ q \in Seq(AnyPacket)
  BY TxFields, PartTypes, Zenon
<1>5. c = <<p>>
  BY <1>1, Zenon DEF Chunk
<1> HIDE DEF p
<1>6. tx'.burst = Tail(tx.burst) /\ tx'.pc # "done" /\ tx'.plain = <<p>> /\ tx.pc # "done"
  BY <1>1
<1>7. Behind' = (c \o r) \o q
  BY <1>2, <1>5, <1>6, ReadableNext, Zenon DEF Behind
<1>8. Payload(wire') = Payload(wire) \o h /\ up
  BY <1>1, FlushedPayload, Zenon DEF Flushed
<1> HIDE DEF c, r, q, h
<1>9. (h \o (c \o r)) \o q = h \o ((c \o r) \o q)
  <2> DEFINE e == c \o r
  <2>1. e \in Seq(AnyPacket)
    BY <1>3, Joins, Zenon
  <2> HIDE DEF e
  <2>2. (h \o e) \o q = h \o (e \o q)
    BY <1>4, <2>1, Assoc, Zenon
  <2> QED  BY <2>2, Zenon DEF e
<1>10. Behind = h \o Behind'
  BY <1>3, <1>7, <1>9, Zenon
<1> QED  BY <1>2, <1>4, <1>6, <1>8, <1>10, SenderRefines, Zenon

\* The end of a burst: buffer to socket.
LEMMA FlushLastRefines ==
    ASSUME PipeInv, PipeInv', minRead' = minRead, FlushLast
    PROVE  [Pipe!Next]_(Pipe!vars)
<1> DEFINE q == Readable(outQueue)
           h == tx.plain
<1>1. /\ tx.burst = <<>> /\ tx.pc = "batch"
      /\ \/ h = <<>> /\ UNCHANGED wire /\ tx' = Idle(tx.counter)
         \/ Flushed("batch", h, tx.size) /\ tx' = Idle(tx.counter + 1)
  BY FlushLastEffect, Zenon
<1>2. UNCHANGED <<outQueue, up, rx, delivered>>
  BY Zenon DEF FlushLast
<1>3. h \in Seq(AnyPacket) /\ q \in Seq(AnyPacket)
  BY TxFields, PartTypes, Zenon
<1>4. Behind' = q /\ tx'.pc # "done" /\ tx.pc # "done"
  <2>1. tx.pc # "done"
    BY <1>1
  <2> QED  BY <1>1, <1>2, <1>3, <2>1, BehindIdle, Zenon
<1>5. Behind = (h \o <<>>) \o q
  BY <1>1, ReadableNone, Zenon DEF Behind
<1>6. Behind = h \o Behind'
  BY <1>3, <1>4, <1>5, Empty, Zenon
<1>7. CASE h = <<>> /\ UNCHANGED wire
  <2>1. Behind' = Behind
    BY <1>3, <1>4, <1>6, <1>7, Empty, Zenon
  <2> QED  BY <1>2, <1>4, <1>7, <2>1, SenderMoves, Zenon
<1>8. CASE Flushed("batch", h, tx.size)
  <2>1. Payload(wire') = Payload(wire) \o h /\ up
    BY <1>8, FlushedPayload, Zenon DEF Flushed
  <2> QED  BY <1>2, <1>3, <1>4, <1>6, <2>1, SenderRefines, Zenon
<1> QED  BY <1>1, <1>7, <1>8, Zenon

\* Steps in which the socket is lost already.
LEMMA FlushFailsRefines ==
    ASSUME FlushFails
    PROVE  [Pipe!Next]_(Pipe!vars)
<1>1. ~up /\ UNCHANGED <<up, wire, rx, delivered>>
  BY Zenon DEF FlushFails
<1>2. UnderWay' = UnderWay
  BY <1>1, Zenon DEF UnderWay, Payload
<1> QED  BY <1>1, <1>2, PipeStays, Zenon

\* The connection is lost: a tail of the frames, and all behind them.
LEMMA LoseRefines ==
    ASSUME PipeInv, PipeInv', Lose, UNCHANGED <<rx, delivered>>
    PROVE  [Pipe!Next]_(Pipe!vars)
<1>1. PICK n \in 0..Len(wire) : wire' = SubSeq(wire, 1, n)
  BY Zenon DEF Lose
<1>2. up' = FALSE /\ UNCHANGED <<rx, delivered>>
  BY Zenon DEF Lose
<1> DEFINE z == SubSeq(wire, n + 1, Len(wire))
           u == Payload(wire')
           v == Payload(z)
           pt == rx.pt
<1>3. wire \in Seq(FrameType)
  BY Zenon DEF PipeInv
<1>4. wire' \in Seq(FrameType) /\ z \in Seq(FrameType) /\ wire = wire' \o z
  BY <1>1, <1>3, SplitAt, Zenon
<1>5. Payload(wire) = u \o v /\ u \in Seq(AnyPacket) /\ v \in Seq(AnyPacket)
  BY <1>4, PayloadParts, Zenon
<1>6. pt \in Seq(AnyPacket) /\ Rest \in Seq(AnyPacket)
  BY PartTypes, Zenon
<1>7. UnderWay' = IF rx.pc = "done" THEN <<>> ELSE (pt \o u) \o <<>>
  BY <1>2, Zenon DEF UnderWay, Payload
<1>8. UnderWay = IF rx.pc = "done" THEN <<>> ELSE (pt \o (u \o v)) \o Rest
  BY <1>5, Parts, Zenon DEF Ahead
<1> HIDE DEF z, u, v, pt
<1>9. CASE rx.pc = "done"
  BY <1>2, <1>7, <1>8, <1>9, PipeStays, Zenon
<1>10. CASE rx.pc # "done"
  <2> DEFINE g == pt \o u
             b == v \o Rest
  <2>1. g \in Seq(AnyPacket) /\ b \in Seq(AnyPacket)
    BY <1>5, <1>6, Joins, Zenon
  <2>2. pt \o (u \o v) = g \o v
    BY <1>5, <1>6, Assoc, Zenon
  <2> HIDE DEF g
  <2>3. (g \o v) \o Rest = g \o b
    <3>1. g \in Seq(AnyPacket) /\ v \in Seq(AnyPacket) /\ Rest \in Seq(AnyPacket)
      BY <1>5, <1>6, <2>1, Zenon
    <3> QED  BY <3>1, Assoc, Zenon
  <2>4. UnderWay' = g
    BY <1>7, <1>10, <2>1, Empty, Zenon DEF g
  <2>5. UnderWay = g \o b
    BY <1>8, <1>10, <2>2, <2>3, Zenon
  <2> HIDE DEF b
  <2> QED  BY <1>2, <2>1, <2>4, <2>5, PipeCut, Zenon
<1> QED  BY <1>9, <1>10, Zenon

-----------------------------------------------------------------------------
\* A step of the receiving half leaves the rest as it is.
LEMMA RestStays ==
    ASSUME minRead' = minRead, UNCHANGED <<up, tx, outQueue>>
    PROVE  Rest' = Rest
<1>1. Behind' = Behind
  BY ReadableNext, Zenon DEF Behind
<1> QED  BY <1>1, Zenon DEF Rest

\* The reader ends: all that is under way is lost with it.
LEMMA ReaderGone ==
    ASSUME PipeInv, rx'.pc = "done", UNCHANGED delivered
    PROVE  [Pipe!Next]_(Pipe!vars)
<1>1. UnderWay' = <<>> /\ UnderWay \in Seq(AnyPacket)
  BY PartTypes, Zenon DEF UnderWay
<1>2. UnderWay = <<>> \o UnderWay /\ <<>> \in Seq(AnyPacket)
  BY <1>1, Empty, Joins, Zenon
<1> QED  BY <1>1, <1>2, PipeCut, Zenon

\* A fatal error or the end of the stream.
LEMMA ReceiverEndsRefines ==
    ASSUME PipeInv, ReceiverEnds
    PROVE  [Pipe!Next]_(Pipe!vars)
<1>1. rx \in RxType /\ rx' = [rx EXCEPT !.pc = "done", !.pt = <<>>] /\ UNCHANGED delivered
  BY Zenon DEF PipeInv, ReceiverEnds
<1>2. rx'.pc = "done"
  BY <1>1, Zenon DEF RxType
<1> QED  BY <1>1, <1>2, ReaderGone, Zenon

\* A frame is read: socket to reader.
LEMMA ReadFrameRefines ==
    ASSUME PipeInv, minRead' = minRead, ReadFrame
    PROVE  [Pipe!Next]_(Pipe!vars)
<1> DEFINE f == Head(wire)
           t == Tail(wire)
           ok == Opens(f)
<1>1. /\ rx.pc = "read" /\ wire # <<>> /\ wire' = t
      /\ rx' = [rx EXCEPT !.counter = @ + 1, !.pc = IF ok THEN "write" ELSE "done",
                          !.pt = IF ok THEN f.pkts ELSE <<>>]
      /\ UNCHANGED <<outQueue, up, tx, delivered>>
  BY Zenon DEF ReadFrame
<1>2. rx \in RxType /\ rx.pt = <<>> /\ wire \in Seq(FrameType)
  BY <1>1, Zenon DEF PipeInv, RxShape
<1>3. f \in FrameType /\ t \in Seq(FrameType) /\ wire = <<f>> \o t
  BY <1>1, <1>2, HeadFirst, Zenon
<1> HIDE DEF f, t, ok
<1>4. rx'.pc = (IF ok THEN "write" ELSE "done") /\ rx'.pt = IF ok THEN f.pkts ELSE <<>>
  BY <1>1, <1>2, Zenon DEF RxType
<1>5. CASE ~ok
  BY <1>1, <1>4, <1>5, ReaderGone, Zenon
<1>6. CASE ok
  <2>1. rx'.pc # "done" /\ rx.pc # "done" /\ rx'.pt = f.pkts
    BY <1>1, <1>4, <1>6
  <2>2. <<f>> \in Seq(FrameType)
    BY <1>3
  <2>3. Payload(wire) = f.pkts \o Payload(t)
    BY <1>3, <2>2, PayloadParts, PayloadOne, Zenon
  <2>4. Payload(wire) \in Seq(AnyPacket)
    BY PartTypes, Zenon
  <2>5. Ahead = Payload(wire)
    BY <1>2, <2>4, Empty, Zenon DEF Ahead
  <2>6. Ahead' = f.pkts \o Payload(t)
    BY <1>1, <2>1, Zenon DEF Ahead, Payload
  <2>7. Rest' = Rest
    BY <1>1, RestStays, Zenon
  <2>8. UnderWay' = Ahead' \o Rest'
    BY <2>1, Zenon DEF UnderWay, Ahead, Rest, Behind
  <2>9. UnderWay = Ahead \o Rest
    BY <2>1, Parts, Zenon
  <2>10. UnderWay' = UnderWay
    BY <2>3, <2>5, <2>6, <2>7, <2>8, <2>9, Zenon
  <2> QED  BY <1>1, <2>10, PipeStays, Zenon
<1> QED  BY <1>5, <1>6, Zenon

\* Head and tail of a sequence that begins with p.
LEMMA HeadOf ==
    ASSUME NEW p \in AnyPacket, NEW u \in Seq(AnyPacket)
    PROVE  <<p>> \o u # <<>> /\ Head(<<p>> \o u) = p /\ Tail(<<p>> \o u) = u
<1> DEFINE s == <<p>> \o u
<1>1. <<p>> \in Seq(AnyPacket) /\ Len(<<p>>) = 1 /\ Len(u) \in Nat
  OBVIOUS
<1>2. s \in Seq(AnyPacket) /\ Len(s) = 1 + Len(u) /\ s[1] = p
      /\ \A k \in 1..Len(u) : s[k + 1] = u[k]
  BY <1>1
<1> HIDE DEF s
<1>3. s # <<>> /\ Head(s) = p
  BY <1>1, <1>2
<1>4. Tail(s) \in Seq(AnyPacket) /\ Len(Tail(s)) = Len(u) /\ \A k \in 1..Len(u) : Tail(s)[k] = s[k + 1]
  BY <1>1, <1>2, <1>3
<1>5. Tail(s) = u
  BY <1>2, <1>4, SeqEqual, Zenon
<1> QED  BY <1>3, <1>5, Zenon DEF s

\* The oldest packet is delivered, or refused.
LEMMA WritePacketRefines ==
    ASSUME PipeInv, PipeInv', minRead' = minRead, WritePacket
    PROVE  [Pipe!Next]_(Pipe!vars)
<1> DEFINE p == Head(rx.pt)
           t == Tail(rx.pt)
           w == Payload(wire)
<1>1. /\ rx.pc = "write" /\ delivered' \in {Append(delivered, p), delivered}
      /\ rx' = [rx EXCEPT !.pt = t, !.pc = IF Len(rx.pt) = 1 THEN "read" ELSE "write"]
      /\ UNCHANGED <<outQueue, up, tx, wire>>
  BY Zenon DEF WritePacket
<1>2. rx \in RxType /\ rx.pt # <<>> /\ rx.pt \in Seq(AnyPacket)
  BY <1>1, Zenon DEF PipeInv, RxShape, RxType
<1>3. p \in AnyPacket /\ t \in Seq(AnyPacket) /\ rx.pt = <<p>> \o t
  BY <1>2, HeadFirst, Zenon
<1>4. w \in Seq(AnyPacket) /\ Rest \in Seq(AnyPacket)
  BY PartTypes, Zenon
<1> HIDE DEF p, t
<1>5. rx'.pt = t /\ rx'.pc = IF Len(rx.pt) = 1 THEN "read" ELSE "write"
  BY <1>1, <1>2, Zenon DEF RxType
<1>6. rx'.pc # "done" /\ rx.pc # "done"
  BY <1>1, <1>5
<1>7. Ahead = (<<p>> \o t) \o w
  BY <1>3, Zenon DEF Ahead
<1>8. Ahead' = t \o w
  BY <1>1, <1>5, Zenon DEF Ahead, Payload
<1>9. Rest' = Rest
  BY <1>1, RestStays, Zenon
<1>10. UnderWay' = Ahead' \o Rest'
  BY <1>6, Zenon DEF UnderWay, Ahead, Rest, Behind
<1>11. UnderWay = Ahead \o Rest
  BY <1>6, Parts, Zenon
<1> DEFINE u == t \o w
           o == <<p>>
<1>12. u \in Seq(AnyPacket) /\ o \in Seq(AnyPacket) /\ UnderWay' \in Seq(AnyPacket)
  <2>1. o \in Seq(AnyPacket)
    BY <1>3
  <2> QED  BY <1>3, <1>4, <2>1, Joins, TypesNext, Zenon
<1> HIDE DEF w, o
<1>13. (o \o t) \o w = o \o u
  <2>1. o \in Seq(AnyPacket) /\ t \in Seq(AnyPacket) /\ w \in Seq(AnyPacket)
    BY <1>3, <1>4, <1>12, Zenon
  <2> QED  BY <2>1, Assoc, Zenon
<1>14. Ahead = o \o u /\ Ahead' = u
  BY <1>7, <1>8, <1>13, Zenon DEF o
<1> HIDE DEF u
<1>15. (o \o u) \o Rest = o \o (u \o Rest)
  BY <1>4, <1>12, Assoc, Zenon
<1>16. UnderWay = <<p>> \o UnderWay'
  BY <1>9, <1>10, <1>11, <1>14, <1>15, Zenon DEF o
<1>17. UnderWay # <<>> /\ Head(UnderWay) = p /\ Tail(UnderWay) = UnderWay'
  BY <1>3, <1>12, <1>16, HeadOf, Zenon
<1>18. CASE delivered' = Append(delivered, p)
  BY <1>17, <1>18, Zenon DEF Pipe!Next, Pipe!Deliver
<1>19. CASE delivered' = delivered
  BY <1>17, <1>19, Zenon DEF Pipe!Next, Pipe!Refuse
<1> QED  BY <1>1, <1>18, <1>19, Zenon

\* Steps of the device: a packet is queued, or the lane does not move.
LEMMA DeviceRefines ==
    ASSUME PipeInv, minRead' = minRead,
           KernelPacket \/ WriteChecks \/ WriteSends \/ EndpointCloses \/ UNCHANGED vars
    PROVE  [Pipe!Next]_(Pipe!vars)
<1>1. UNCHANGED <<up, tx, wire, rx, delivered>>
  BY Zenon DEF KernelPacket, WriteChecks, WriteSends, EndpointCloses, vars
<1>2. CASE UNCHANGED outQueue
  <2>1. Rest' = Rest
    BY <1>1, <1>2, RestStays, Zenon
  <2>2. Ahead' = Ahead
    BY <1>1, Zenon DEF Ahead, Payload
  <2>3. UnderWay' = IF rx.pc = "done" THEN <<>> ELSE Ahead' \o Rest'
    BY <1>1, Zenon DEF UnderWay, Ahead, Rest, Behind
  <2>4. UnderWay' = UnderWay
    BY <2>1, <2>2, <2>3, Parts, Zenon
  <2> QED  BY <1>1, <2>4, PipeStays, Zenon
<1>3. CASE KernelPacket
  <2>1. PICK n \in Sizes : Enqueue([id |-> next, size |-> n])
    BY <1>3, Zenon DEF KernelPacket
  <2>2. next <= MaxPackets /\ next \in Nat \ {0}
    BY <1>3, Zenon DEF KernelPacket, PipeInv, QueueInv
  <2>3. [id |-> next, size |-> n] \in Packet
    BY <2>2, PipeAssumption DEF Packet
  <2> QED  BY <1>1, <2>1, <2>3, EnqueueRefines, Zenon
<1>4. CASE WriteSends /\ Enqueue(dev.writer)
  <2>1. dev.writer \in Packet
    BY <1>4, Zenon DEF WriteSends, PipeInv, QueueInv, DevType
  <2> QED  BY <1>1, <1>4, <2>1, EnqueueRefines, Zenon
<1> QED  BY <1>2, <1>3, <1>4, Zenon DEF WriteChecks, WriteSends, EndpointCloses, vars

\* The lane starts as an empty pipe,
LEMMA RefInit == Init => Pipe!Init
<1> SUFFICES ASSUME Init PROVE Pipe!Init
  OBVIOUS
<1>1. PipeInv
  BY PipeInit, Zenon
<1>2. wire = <<>> /\ outQueue = <<>> /\ delivered = <<>>
  BY Zenon DEF Init
<1>3. tx.pc = "read" /\ rx.pc = "read"
  BY DEF Init, Idle
<1>4. tx.plain = <<>> /\ tx.burst = <<>> /\ rx.pt = <<>>
  BY <1>1, <1>3, Zenon DEF PipeInv, TxShape, RxShape
<1>5. Payload(wire) = <<>>
  <2>1. [k \in 1..Len(<<>>) |-> <<>>[k].pkts] = <<>>
    OBVIOUS
  <2> QED  BY <1>2, <2>1, FlatEmpty, Zenon DEF Payload
<1>6. Ahead = <<>> \o <<>> /\ Behind = (<<>> \o <<>>) \o <<>>
  BY <1>2, <1>4, <1>5, ReadableNone, Zenon DEF Ahead, Behind
<1>7. Ahead = <<>> /\ Rest = <<>>
  BY <1>6, Empty, Joins, Zenon DEF Rest
<1>8. UnderWay = <<>>
  BY <1>7, Parts, Empty, Joins, Zenon
<1> QED  BY <1>2, <1>8, Zenon DEF Pipe!Init

\* and every step of it is a step of the pipe, or none.
LEMMA RefStep ==
    ASSUME NoTruncation, PipeInv, PipeInv', [Next]_vars
    PROVE  [Pipe!Next]_(Pipe!vars)
<1>0. minRead' = minRead
  BY KindStays, Zenon
<1>1. CASE KernelPacket \/ WriteChecks \/ WriteSends \/ EndpointCloses \/ UNCHANGED vars
  BY <1>0, <1>1, DeviceRefines, Zenon
<1>2. CASE ReadQueue
  BY <1>0, <1>2, ReadQueueRefines, Zenon
<1>3. CASE ReadFails
  BY <1>3, ReadFailsRefines, Zenon
<1>4. CASE SendSingle
  BY <1>0, <1>4, SendSingleRefines, Zenon
<1>5. CASE BufferPacket
  BY <1>0, <1>5, BufferPacketRefines, Zenon
<1>6. CASE FlushFull
  BY <1>0, <1>6, FlushFullRefines, Zenon
<1>7. CASE FlushLast
  BY <1>0, <1>7, FlushLastRefines, Zenon
<1>8. CASE FlushFails
  BY <1>8, FlushFailsRefines, Zenon
<1>9. CASE Break \/ WritePanics
  BY <1>9, LoseRefines, Zenon DEF Break, WritePanics
<1>10. CASE ReadFrame
  BY <1>0, <1>10, ReadFrameRefines, Zenon
<1>11. CASE WritePacket
  BY <1>0, <1>11, WritePacketRefines, Zenon
<1>12. CASE ReceiverEnds
  BY <1>12, ReceiverEndsRefines, Zenon
<1> QED  BY <1>1, <1>2, <1>3, <1>4, <1>5, <1>6, <1>7, <1>8, <1>9, <1>10, <1>11, <1>12, Zenon
         DEF Next

\* Unless a packet is cut short while it is read (NoTruncation), the lane is a
\* first-in-first-out pipe: whatever the sizes, the bursts, the length of the
\* queue and the moment the connection or a half ends, tunToSock, tunToSockBatch
\* and sockToTun deliver packets in the order the device gave them, each at most
\* once and unaltered, and lose only a tail, or what writeTun is refused.
THEOREM PipeRefines == ASSUME NoTruncation PROVE Spec => ImplementsPipe
<1>1. PipeInv /\ PipeInv' /\ [Next]_vars => [Pipe!Next]_(Pipe!vars)
  BY RefStep, Zenon
<1> QED  BY <1>1, RefInit, PipeInit, PipeStep, PTL DEF Spec, ImplementsPipe, Pipe!Spec
=============================================================================
