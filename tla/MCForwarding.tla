---------------------------- MODULE MCForwarding ----------------------------
(***************************************************************************)
(* Command lines and files that exercise the overlay and the installer.    *)
(***************************************************************************)
EXTENDS Forwarding

NoFlags == [key |-> "none", peer |-> "none", subnet |-> "none", ip |-> "none",
            subnet6 |-> "none", ip6 |-> "none"]
KeyFlags == [NoFlags EXCEPT !.key = "cli", !.peer = "cli"]
PoolFlags == [KeyFlags EXCEPT !.subnet = "cli", !.ip = "cli"]

Flags == {NoFlags, KeyFlags, PoolFlags}
OnlyKeys == {KeyFlags}

NoFile == [key |-> "none", peer |-> "none", users |-> FALSE,
           subnet |-> "none", ip |-> "none", subnet6 |-> "none", ip6 |-> "none",
           forward |-> {}, nft |-> "none", tproxy |-> "none",
           redirectPort |-> 0, listenPort |-> 0]
DualFile == [NoFile EXCEPT !.key = "file", !.users = TRUE,
                           !.subnet = "file", !.ip = "file",
                           !.subnet6 = "file", !.ip6 = "file"]

\* No file, a dual-stack pool, and one that names a subnet but no server address.
Pools == {NoFile, DualFile, [DualFile EXCEPT !.ip = "none"],
          [DualFile EXCEPT !.subnet = "none", !.ip = "none"]}

Forwards == {{}, {"tproxy"}, {"isolation", "metering"}, {"tproxy", "isolation", "masquerade"}}

\* The nft installer is switched off only together with the listener.
Consistent ==
    {[p EXCEPT !.forward = f, !.redirectPort = port, !.nft = o, !.tproxy = o] :
        p \in Pools, f \in Forwards, port \in {0, 14000}, o \in {"none", "no"}}

\* The hypothesis of the proofs about these files.
ASSUME ConsistentAssumption == \A fc \in Consistent : PortsAgree(fc)

\* A pool server with TPROXY.
PoolForward == {[DualFile EXCEPT !.forward = {"tproxy"}]}

\* The forward block is removed, or added again.
OnAndOff == {[DualFile EXCEPT !.forward = f] : f \in {{}, {"tproxy"}}}
=============================================================================
