------------------------------ MODULE LanePipe ------------------------------
(***************************************************************************)
(* One direction of a lane, from device to device: the queue of the device *)
(* (netstack's endpoint, or a kernel TUN), tunToSock or tunToSockBatch,    *)
(* the frames on the socket, and sockToTun at the other end.               *)
(*                                                                         *)
(* A packet is an identity and a size in bytes; sizes, length fields and   *)
(* limits have the values of lane.go.  A frame is read correctly when its  *)
(* 16-bit length field is the size of its body.                            *)
(***************************************************************************)
EXTENDS Integers, Sequences

CONSTANTS
    Sizes,       \* sizes of the packets the device hands out
    MaxPackets,  \* bound on the number of packets
    QueueCap,    \* capacity of the device's queue (1024 in netstack)
    maxBatch     \* packets per ReadBatch (32 in lane.go)

ASSUME PipeAssumption ==
    /\ Sizes \subseteq Nat
    /\ MaxPackets \in Nat /\ QueueCap \in Nat /\ maxBatch \in Nat \ {0}

VARIABLES
    dev,       \* the device: [kind, state, writer]
    keyed,     \* frames are sealed
    next,      \* identity of the next packet
    outQueue,  \* packets the device has for the lane
    up,        \* the connection works
    tx,        \* the sending half
    wire,      \* frames on the socket
    rx,        \* the receiving half
    delivered  \* packets written to the device at the other end

vars == <<dev, keyed, next, outQueue, up, tx, wire, rx, delivered>>

maxPkt == 65535
maxFrame == 60000
lenValues == 65536  \* of the 16-bit length field
overhead == IF keyed THEN 16 ELSE 0
maxRead == maxPkt - overhead
virtioNetHdrLen == 10

\* A queue with vnet_hdr never carries less than the header and one byte.
minRead == IF dev.kind = "tun" THEN virtioNetHdrLen + 1 ELSE 1

Packet == [id : 1..MaxPackets, size : Sizes]
NoPacket == [id |-> 0, size |-> 0]

\* The sending half between two bursts, k frames sealed.  (The buffer of the last
\* burst is emptied before it is used again.)
Idle(k) == [pc |-> "read", burst |-> <<>>, plain |-> <<>>, size |-> 0, counter |-> k]

Init ==
    /\ dev \in [kind : {"tun", "netstack"}, state : {"running"}, writer : {NoPacket}]
    /\ keyed \in BOOLEAN
    /\ next = 1
    /\ outQueue = <<>>
    /\ up = TRUE
    /\ tx = Idle(0)
    /\ wire = <<>>
    /\ rx = [pc |-> "read", pt |-> <<>>, counter |-> 0]
    /\ delivered = <<>>

-----------------------------------------------------------------------------
(* The device *)

Enqueue(p) == outQueue' = IF Len(outQueue) < QueueCap THEN Append(outQueue, p) ELSE outQueue

\* The kernel queues a packet for a TUN reader.
KernelPacket ==
    /\ dev.kind = "tun" /\ next <= MaxPackets
    /\ \E n \in Sizes : Enqueue([id |-> next, size |-> n])
    /\ next' = next + 1
    /\ UNCHANGED <<dev, keyed, up, tx, wire, rx, delivered>>

\* WritePackets has found the endpoint open, for one packet of its list.
WriteChecks ==
    /\ dev.kind = "netstack" /\ dev.writer = NoPacket /\ next <= MaxPackets
    /\ dev.state = "running"
    /\ \E n \in Sizes : dev' = [dev EXCEPT !.writer = [id |-> next, size |-> n]]
    /\ next' = next + 1
    /\ UNCHANGED <<keyed, outQueue, up, tx, wire, rx, delivered>>

\* ... and sends it without blocking.
WriteSends ==
    /\ dev.writer # NoPacket /\ dev.state = "running"
    /\ dev' = [dev EXCEPT !.writer = NoPacket]
    /\ Enqueue(dev.writer)
    /\ UNCHANGED <<keyed, next, up, tx, wire, rx, delivered>>

\* The connection is gone, with a tail of what was written to it.
Lose ==
    /\ up' = FALSE
    /\ \E n \in 0..Len(wire) : wire' = SubSeq(wire, 1, n)

\* The endpoint was closed since the check: the send on the closed channel panics,
\* and the sending process is gone.
WritePanics ==
    /\ dev.writer # NoPacket /\ dev.state = "closed"
    /\ dev' = [dev EXCEPT !.writer = NoPacket]
    /\ outQueue' = <<>>
    /\ tx' = [Idle(tx.counter) EXCEPT !.pc = "done"]
    /\ Lose
    /\ UNCHANGED <<keyed, next, rx, delivered>>

\* endpoint.Close closes the queue, and what is in it can still be read.  Neither
\* Endpoint.Close nor Stack.Close waits for every sender: Stack.Wait does not
\* know of the lane's own goroutine (inject) nor of the application's.
EndpointCloses ==
    /\ dev.kind = "netstack" /\ dev.state = "running"
    /\ dev' = [dev EXCEPT !.state = "closed"]
    /\ UNCHANGED <<keyed, next, outQueue, up, tx, wire, rx, delivered>>

-----------------------------------------------------------------------------
(* The sending half *)

\* read copies into a buffer of maxRead bytes.
Read(p) == [p EXCEPT !.size = IF @ < maxRead THEN @ ELSE maxRead]

\* ReadBatch takes what is queued, at most maxBatch packets; the endpoint's
\* Read takes one.
ReadQueue ==
    LET most == IF dev.kind = "tun" THEN maxBatch ELSE 1
        n == IF Len(outQueue) < most THEN Len(outQueue) ELSE most
    IN  /\ tx.pc = "read" /\ outQueue # <<>>
        /\ outQueue' = SubSeq(outQueue, n + 1, Len(outQueue))
        /\ tx' = [tx EXCEPT !.burst = [k \in 1..n |-> Read(outQueue[k])],
                            !.pc = IF n = 1 THEN "single" ELSE "batch"]
        /\ UNCHANGED <<dev, keyed, next, up, wire, rx, delivered>>

\* Read fails: the queue is closed and empty, or the TUN has an error.
ReadFails ==
    /\ tx.pc = "read"
    /\ dev.kind = "tun" \/ (dev.state = "closed" /\ outQueue = <<>>)
    /\ tx' = [tx EXCEPT !.pc = "done"]
    /\ UNCHANGED <<dev, keyed, next, outQueue, up, wire, rx, delivered>>

\* A sealed body of n bytes and a header whose length field has 16 bits.
Frame(typ, pkts, n) ==
    [typ |-> typ, pkts |-> pkts, counter |-> tx.counter,
     size |-> n + overhead, len |-> (n + overhead) % lenValues]

Flush(typ, pkts, n) == up /\ wire' = Append(wire, Frame(typ, pkts, n))

\* A lone packet is a frame of its own, and a runt is dropped.
SendSingle ==
    LET p == Head(tx.burst)
    IN  /\ tx.pc = "single"
        /\ \/ p.size < minRead /\ UNCHANGED wire /\ tx' = Idle(tx.counter)
           \/ p.size >= minRead /\ Flush("single", <<p>>, p.size) /\ tx' = Idle(tx.counter + 1)
        /\ UNCHANGED <<dev, keyed, next, outQueue, up, rx, delivered>>

\* Mutant: a burst goes into one frame whatever its size.
NeverOverfull(p) == FALSE

\* The buffer holds something, and p with its length does not fit any more.
Overfull(p) == tx.size > 0 /\ tx.size + 2 + p.size > maxFrame

\* A turn of the loop over a burst that sends nothing: drop a runt, or buffer
\* the packet after its length.
BufferPacket ==
    LET p == Head(tx.burst)
    IN  /\ tx.pc = "batch" /\ tx.burst # <<>>
        /\ \/ p.size < minRead /\ tx' = [tx EXCEPT !.burst = Tail(@)]
           \/ /\ p.size >= minRead /\ ~Overfull(p)
              /\ tx' = [tx EXCEPT !.burst = Tail(@), !.plain = Append(@, p),
                                  !.size = @ + 2 + p.size]
        /\ UNCHANGED <<dev, keyed, next, outQueue, up, wire, rx, delivered>>

\* Mutant: a batch frame does not advance the counter.
FlushSameNonce ==
    LET p == Head(tx.burst)
    IN  /\ tx.pc = "batch" /\ tx.burst # <<>> /\ p.size >= minRead /\ Overfull(p)
        /\ Flush("batch", tx.plain, tx.size)
        /\ tx' = [tx EXCEPT !.burst = Tail(@), !.plain = <<p>>, !.size = 2 + p.size]
        /\ UNCHANGED <<dev, keyed, next, outQueue, up, rx, delivered>>

\* Mutant: the buffer is emptied for p without being flushed.
FlushForgets ==
    LET p == Head(tx.burst)
    IN  /\ tx.pc = "batch" /\ tx.burst # <<>> /\ p.size >= minRead /\ Overfull(p)
        /\ tx' = [tx EXCEPT !.burst = Tail(@), !.plain = <<p>>, !.size = 2 + p.size]
        /\ UNCHANGED <<dev, keyed, next, outQueue, up, wire, rx, delivered>>

\* A turn of the loop that flushes the buffer first, because the packet does not
\* fit.
FlushFull ==
    LET p == Head(tx.burst)
    IN  /\ tx.pc = "batch" /\ tx.burst # <<>> /\ p.size >= minRead /\ Overfull(p)
        /\ Flush("batch", tx.plain, tx.size)
        /\ tx' = [tx EXCEPT !.burst = Tail(@), !.plain = <<p>>, !.size = 2 + p.size,
                            !.counter = @ + 1]
        /\ UNCHANGED <<dev, keyed, next, outQueue, up, rx, delivered>>

\* The end of the burst flushes what is left.
FlushLast ==
    /\ tx.pc = "batch" /\ tx.burst = <<>>
    /\ \/ tx.size = 0 /\ UNCHANGED wire /\ tx' = Idle(tx.counter)
       \/ tx.size > 0 /\ Flush("batch", tx.plain, tx.size) /\ tx' = Idle(tx.counter + 1)
    /\ UNCHANGED <<dev, keyed, next, outQueue, up, rx, delivered>>

\* A frame is sealed, and the write of it fails.
FlushFails ==
    /\ ~up
    /\ \/ tx.pc = "single" /\ Head(tx.burst).size >= minRead
       \/ /\ tx.pc = "batch" /\ tx.burst # <<>>
          /\ Head(tx.burst).size >= minRead /\ Overfull(Head(tx.burst))
       \/ tx.pc = "batch" /\ tx.burst = <<>> /\ tx.size > 0
    /\ tx' = [Idle(tx.counter + 1) EXCEPT !.pc = "done"]
    /\ UNCHANGED <<dev, keyed, next, outQueue, up, wire, rx, delivered>>

\* The network breaks the connection.
Break ==
    /\ up
    /\ Lose
    /\ UNCHANGED <<dev, keyed, next, outQueue, tx, rx, delivered>>

-----------------------------------------------------------------------------
(* The receiving half *)

\* The frame can be read: its length field is true and its seal has the next
\* counter.
Opens(f) == f.len = f.size /\ (keyed => f.counter = rx.counter)

\* A frame that cannot be read leaves the reader inside it: nothing opens any
\* more.  (Without a seal it would go on with payload for headers; that happens
\* only where LengthFits is already violated, and is not followed further.)
ReadFrame ==
    /\ rx.pc = "read" /\ wire # <<>>
    /\ rx' = [rx EXCEPT !.counter = @ + 1,
                        !.pc = IF Opens(Head(wire)) THEN "write" ELSE "done",
                        !.pt = IF Opens(Head(wire)) THEN Head(wire).pkts ELSE <<>>]
    /\ wire' = Tail(wire)
    /\ UNCHANGED <<dev, keyed, next, outQueue, up, tx, delivered>>

\* writeTun: delivered, or refused by a device that is down or busy.
WritePacket ==
    /\ rx.pc = "write"
    /\ delivered' \in {Append(delivered, Head(rx.pt)), delivered}
    /\ rx' = [rx EXCEPT !.pt = Tail(@), !.pc = IF Len(rx.pt) = 1 THEN "read" ELSE "write"]
    /\ UNCHANGED <<dev, keyed, next, outQueue, up, tx, wire>>

\* A fatal error of the device, or the end of the stream.
ReceiverEnds ==
    /\ \/ rx.pc = "write"
       \/ rx.pc = "read" /\ wire = <<>> /\ (~up \/ tx.pc = "done")
    /\ rx' = [rx EXCEPT !.pc = "done", !.pt = <<>>]
    /\ UNCHANGED <<dev, keyed, next, outQueue, up, tx, wire, delivered>>

-----------------------------------------------------------------------------
Next ==
    \/ KernelPacket \/ WriteChecks \/ WriteSends \/ WritePanics \/ EndpointCloses
    \/ ReadQueue \/ ReadFails
    \/ SendSingle \/ BufferPacket \/ FlushFull \/ FlushLast \/ FlushFails
    \/ Break
    \/ ReadFrame \/ WritePacket \/ ReceiverEnds

Spec == Init /\ [][Next]_vars

-----------------------------------------------------------------------------
(* Properties *)

\* Frames on the socket carry the counters the receiver's seal expects, in
\* order, and the sender's counter comes next: no nonce is used twice or
\* skipped while the lane runs (frameAEAD.seal and open keep "in lockstep").
Lockstep ==
    rx.pc # "done" =>
        /\ \A k \in 1..Len(wire) : wire[k].counter = rx.counter + k - 1
        /\ up => tx.counter = rx.counter + Len(wire)

\* "maxFrame caps the batch plaintext so the ciphertext stays under the 16-bit
\* length field" (lane.go, flush): every frame's header tells its size.
LengthFits == \A k \in 1..Len(wire) : wire[k].len = wire[k].size

\* The sequences of ss one after the other.
Flatten(ss) ==
    LET joined[n \in 0..Len(ss)] == IF n = 0 THEN <<>> ELSE joined[n - 1] \o ss[n]
    IN  joined[Len(ss)]

\* The packets of reader, socket, buffer, burst and queue, oldest first, that are
\* still to be delivered.  After the connection is lost the rest of the queue
\* waits for the next lane.
Payload(w) == Flatten([k \in 1..Len(w) |-> w[k].pkts])
Readable(q) == Flatten([k \in 1..Len(q) |-> IF q[k].size >= minRead THEN <<q[k]>> ELSE <<>>])
UnderWay ==
    IF rx.pc = "done" THEN <<>>
    ELSE rx.pt \o Payload(wire)
         \o (IF up /\ tx.pc # "done"
             THEN tx.plain \o Readable(tx.burst) \o Readable(outQueue)
             ELSE <<>>)

Pipe == INSTANCE PacketPipe WITH pipe <- UnderWay, out <- delivered

\* The lane is a first-in-first-out pipe of packets: batching, splitting at
\* maxFrame, closing the queue, a panic and losing the connection neither reorder nor
\* duplicate nor drop a packet from the middle (tunToSock, tunToSockBatch,
\* sockToTun).
ImplementsPipe == Pipe!Spec
=============================================================================
