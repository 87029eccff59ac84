----------------------------- MODULE PacketPipe -----------------------------
(***************************************************************************)
(* What one direction of a lane promises to the devices at its ends: a     *)
(* first-in-first-out pipe of whole packets.  Nothing is invented,         *)
(* duplicated, altered or reordered.  A packet can be lost in two places:  *)
(* refused by the device it is delivered to, or in the tail that is cut    *)
(* off when the lane ends.                                                 *)
(***************************************************************************)
EXTENDS Integers, Sequences

CONSTANT Packet

VARIABLES
    pipe,  \* packets under way, oldest first
    out    \* packets delivered

vars == <<pipe, out>>

Init == pipe = <<>> /\ out = <<>>

Enter(p) == pipe' = Append(pipe, p) /\ UNCHANGED out

Deliver ==
    /\ pipe # <<>>
    /\ out' = Append(out, Head(pipe))
    /\ pipe' = Tail(pipe)

Refuse == pipe # <<>> /\ pipe' = Tail(pipe) /\ UNCHANGED out

Cut(n) == pipe' = SubSeq(pipe, 1, n) /\ UNCHANGED out

Next ==
    \/ \E p \in Packet : Enter(p)
    \/ Deliver
    \/ Refuse
    \/ \E n \in 0..Len(pipe) : Cut(n)

Spec == Init /\ [][Next]_vars
=============================================================================
