--------------------------- MODULE MCMultiClient ----------------------------
(***************************************************************************)
(* Small instances of the multi-client server.  The IPv4 subnets are a /30 *)
(* or a /29: 0 is the network address, 1 the server's, the last one the    *)
(* broadcast address, and newIPPool reserves all three.                    *)
(***************************************************************************)
EXTENDS MultiClient, TLC

CONSTANTS k1, k2, c1, c2, c3, u1, u2, s1, s2, s3

V4 == {"v4"}
Dual == {"v4", "v6"}

Subnet30 == [f \in Family |-> 0..3]
Reserved30 == [f \in Family |-> IF f = "v4" THEN {0, 1, 3} ELSE {0, 1}]

\* One IPv4 host for two clients; u1 reserves an IPv6 address.
SubnetDual == [f \in Family |-> IF f = "v4" THEN 0..3 ELSE 0..7]
ReservedDual == [f \in Family |-> IF f = "v4" THEN {0, 1, 3} ELSE {0, 1, 4}]

\* Two clients whose first hashed addresses collide; the second address of
\* the second client is the reserved one.
HashColliding == [k \in Client |-> IF k = k1 THEN <<2, 3>> ELSE <<2, 4>>]

Quiet == [f \in Family |-> <<>>]
Reserving == [f \in Family |-> IF f = "v6" THEN <<4>> ELSE <<>>]
User(n, k, max, r) == [name |-> n, key |-> k, max |-> max, reserved |-> r]

TwoUsers == NewUserDB(<<User(u1, k1, 1, Quiet), User(u2, k2, 0, Quiet)>>)
Reserved4 == NewUserDB(<<User(u1, k1, 0, Reserving), User(u2, k2, 0, Quiet)>>)

NoReload == {}
\* The second user is revoked; the first loses its reservation.
RevokeOther == {<<User(u1, k1, 0, Quiet)>>}

TwoLanesOne == c1 :> {k1} @@ c2 :> {k1}
TwoLanesAndOne == c1 :> {k1} @@ c2 :> {k1} @@ c3 :> {k2}

NoRequest == {NoAddr}
AskOutside == {NoAddr, 9}
AskFor2or4 == {NoAddr, 2, 4}

SessSymmetry == Permutations(SessId)
=============================================================================
