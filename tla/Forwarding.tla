----------------------------- MODULE Forwarding -----------------------------
(***************************************************************************)
(* The server process and the forwarding state it keeps in the kernel:     *)
(* command line and YAML file become a ServerConfig (runServer,            *)
(* FileConfig.ApplyServer), Server.Run installs the nft table and the      *)
(* policy routing (NFTInstaller), starts the TPROXY listener, serves, and  *)
(* takes everything down again.  The process may be killed at any time;    *)
(* the kernel state survives it, and the next run has to cope.             *)
(*                                                                         *)
(* One step runs one external command (nft or ip).  A command fails when   *)
(* its object is missing or already there, or for no reason of ours: a     *)
(* fault, of which there are at most MaxFaults.                            *)
(***************************************************************************)
EXTENDS Integers, Sequences, FiniteSets

CONSTANTS
    CommandLines,    \* command lines the server may be started with
    Files,           \* contents of the YAML file
    MayReconfigure,  \* whether they may change from one start to the next
    MaxFaults        \* bound on commands that fail without reason

VARIABLES
    cli, file,  \* the configuration of the latest start
    proc,       \* the process: where Run is, commands to run, what went wrong
    listener,   \* port of the TPROXY listener, 0 when there is none
    kernel,     \* what nft and ip have put into the kernel
    faults      \* faults so far

vars == <<cli, file, proc, listener, kernel, faults>>

-----------------------------------------------------------------------------
(* Configuration.  "none" is a field that is not set; addresses are named   *)
(* after the source that gave them, and a subnet contains the server        *)
(* addresses of its own source.  The mark and the routing table keep their  *)
(* defaults.                                                                *)

defaultPort == 13338

\* nft.enabled and tproxy.enabled override what the forward block implies.
Override(o, d) == IF o = "none" THEN d ELSE o = "yes"

applyForward(fc, cfg) ==
    [nft |-> Override(fc.nft, fc.forward # {}), features |-> fc.forward,
     redirect |-> fc.redirectPort, table |-> 0,
     v4 |-> cfg.subnet # "none" \/ cfg.subnet6 = "none",
     v6 |-> cfg.subnet6 # "none",
     tproxy |-> Override(fc.tproxy, "tproxy" \in fc.forward),
     listen |-> IF fc.listenPort # 0 THEN fc.listenPort ELSE fc.redirectPort]

\* Keys come from the command line first, the pool from the file first.
ApplyServer(fc, cl) ==
    LET First(a, b) == IF a # "none" THEN a ELSE b
        cfg == [key |-> First(cl.key, fc.key), peer |-> First(cl.peer, fc.peer),
                users |-> fc.users,
                subnet |-> First(fc.subnet, cl.subnet), ip |-> First(fc.ip, cl.ip),
                subnet6 |-> First(fc.subnet6, cl.subnet6), ip6 |-> First(fc.ip6, cl.ip6)]
    IN  [cfg |-> cfg, fwd |-> applyForward(fc, cfg)]

\* ServerConfig.Validate; one lane and one queue is what runServer opens.
Validate(cfg) ==
    cfg.subnet # "none" \/ cfg.subnet6 # "none" =>
        /\ cfg.key # "none" /\ (cfg.peer # "none" \/ cfg.users)
        /\ cfg.subnet # "none" => cfg.ip = cfg.subnet
        /\ cfg.subnet6 # "none" => cfg.ip6 = cfg.subnet6

\* NewNFTInstaller and NewTPROXYListener: defaults for what is zero.
Installer(fwd) ==
    LET port == IF fwd.redirect = 0 THEN defaultPort ELSE fwd.redirect
    IN  [fwd EXCEPT !.redirect = port, !.table = IF @ = 0 THEN port ELSE @]
ListenPort(fwd) == IF fwd.listen = 0 THEN defaultPort ELSE fwd.listen

Config == ApplyServer(file, cli).cfg
Forward == Installer(ApplyServer(file, cli).fwd)

\* Run serves with multiClientLoop.
Pooled == Config.subnet # "none" \/ Config.subnet6 # "none"

Families(fwd) == {f \in {"v4", "v6"} : IF f = "v4" THEN fwd.v4 ELSE fwd.v6}

-----------------------------------------------------------------------------
(* The installer's commands *)

NoTable == {<<"no table">>}

\* buildScript: the rules of the table, by chain.
buildScript(fwd) ==
    (IF "tproxy" \in fwd.features
     THEN {<<"redirect", f, fwd.redirect>> : f \in Families(fwd)} ELSE {})
    \cup {<<"chain", c>> : c \in fwd.features \ {"tproxy"}}

Routing == <<"rule", "route">>

\* ip rule and ip route for each family, in the order of the code.
IPCommands(op, fwd) ==
    LET of(f) == [k \in 1..2 |-> [op |-> op, what |-> Routing[k], fam |-> f, table |-> fwd.table]]
    IN  (IF fwd.v4 THEN of("v4") ELSE <<>>) \o (IF fwd.v6 THEN of("v6") ELSE <<>>)

TableCommand(op) == [op |-> op, what |-> "table", fam |-> "inet", table |-> 0]

\* With TPROXY off the mark and the table number are zero, and what
\* removeIPRouting would delete is nothing the installer ever adds.
removeIPRouting(fwd) == IF "tproxy" \in fwd.features THEN IPCommands("del", fwd) ELSE <<>>

Install(fwd) ==
    <<TableCommand("add")>>
    \o (IF "tproxy" \in fwd.features THEN IPCommands("add", fwd) ELSE <<>>)

\* Mutant: Reconcile trusts that no policy routing is left over.
ReconcileTable(fwd) == <<TableCommand("del")>> \o Install(fwd)

Reconcile(fwd) == <<TableCommand("del")>> \o removeIPRouting(fwd) \o Install(fwd)

\* Mutant: Remove leaves the policy routing.
RemoveTable(fwd) == <<TableCommand("del")>>

Remove(fwd) == removeIPRouting(fwd) \o <<TableCommand("del")>>

\* The kernel's side: the object is there, and the effect of a command.
Present(c) ==
    IF c.what = "table" THEN kernel.table # NoTable
    ELSE <<c.fam, c.table>> \in kernel[c.what]

\* Adding to a table that exists merges the rules: the script has no flush.
Effect(c) ==
    IF c.what = "table"
    THEN [kernel EXCEPT !.table =
            IF c.op = "del" THEN NoTable
            ELSE buildScript(Forward) \cup (IF @ = NoTable THEN {} ELSE @)]
    ELSE [kernel EXCEPT ![c.what] =
            IF c.op = "del" THEN @ \ {<<c.fam, c.table>>} ELSE @ \cup {<<c.fam, c.table>>}]

\* Without a fault, a deletion needs the object; so does, the other way round,
\* an addition, save that of the table.
Works(c) == IF c.op = "del" THEN Present(c) ELSE c.what = "table" \/ ~Present(c)

-----------------------------------------------------------------------------
Off(how) == [pc |-> "off", todo |-> <<>>, how |-> how, faulty |-> FALSE]

Init ==
    /\ cli \in CommandLines /\ file \in Files
    /\ proc = Off("never")
    /\ listener = 0
    /\ kernel = [table |-> NoTable, rule |-> {}, route |-> {}]
    /\ faults = 0

Fault == faults < MaxFaults /\ faults' = faults + 1

\* The process ends; it remembers (for the properties) whether a fault hit it.
Exit(how) == proc' = [Off(how) EXCEPT !.faulty = proc.faulty]

\* The deferred calls of Run from here on: Stop, then Remove.
Unwind(how, bad) ==
    /\ listener' = 0
    /\ proc' = [pc |-> "remove", how |-> how, faulty |-> proc.faulty \/ bad,
                todo |-> IF Forward.nft THEN Remove(Forward) ELSE <<>>]

\* runServer up to Run: configuration, NewServer's Validate, then Reconcile,
\* unless there is no nft binary.
Start ==
    /\ proc.pc = "off"
    /\ cli' \in IF MayReconfigure THEN CommandLines ELSE {cli}
    /\ file' \in IF MayReconfigure THEN Files ELSE {file}
    /\ \/ /\ proc' = IF ~Validate(Config') THEN Off("invalid")
                     ELSE [pc |-> "reconcile", how |-> "running", faulty |-> FALSE,
                           todo |-> IF Forward'.nft THEN Reconcile(Forward') ELSE <<>>]
          /\ UNCHANGED faults
       \/ /\ Validate(Config') /\ Forward'.nft
          /\ Fault
          /\ proc' = [Off("failed") EXCEPT !.faulty = TRUE]
    /\ UNCHANGED <<listener, kernel>>

CommandOK ==
    /\ proc.todo # <<>> /\ Works(Head(proc.todo))
    /\ kernel' = Effect(Head(proc.todo))
    /\ proc' = [proc EXCEPT !.todo = Tail(@)]
    /\ UNCHANGED <<cli, file, listener, faults>>

\* Mutant: the error of an ip command does not end the installation.
CommandFailsOn ==
    /\ proc.todo # <<>>
    /\ IF Works(Head(proc.todo)) THEN Fault ELSE UNCHANGED faults
    /\ proc' = [proc EXCEPT !.todo = Tail(@), !.faulty = @ \/ faults' # faults]
    /\ UNCHANGED <<cli, file, listener, kernel>>

\* The error of a deletion is swallowed or logged.  That of an addition ends
\* Install; after an ip command the table is deleted again.
CommandFails ==
    LET c == Head(proc.todo)
        bad == proc.faulty \/ Works(c)
    IN  /\ proc.todo # <<>>
        /\ IF Works(c) THEN Fault ELSE UNCHANGED faults
        /\ proc' = IF c.op = "del"
                   THEN [proc EXCEPT !.todo = Tail(@), !.faulty = bad]
                   ELSE [pc |-> "rollback", how |-> "failed", faulty |-> bad,
                         todo |-> IF c.what = "table" THEN <<>>
                                  ELSE <<TableCommand("del")>>]
        /\ UNCHANGED <<cli, file, listener, kernel>>

Reconciled ==
    /\ proc.pc = "reconcile" /\ proc.todo = <<>>
    /\ proc' = [proc EXCEPT !.pc = "tproxy"]
    /\ UNCHANGED <<cli, file, listener, kernel, faults>>

\* TPROXYListener.Start.
TProxyStarts ==
    /\ proc.pc = "tproxy"
    /\ \/ /\ listener' = IF Forward.tproxy THEN ListenPort(Forward) ELSE 0
          /\ proc' = [proc EXCEPT !.pc = "listen"]
          /\ UNCHANGED faults
       \/ Forward.tproxy /\ Unwind("failed", TRUE) /\ Fault
    /\ UNCHANGED <<cli, file, kernel>>

\* The listening socket; then the pool and the shared TUN, or the accept loop.
Listens ==
    /\ proc.pc = "listen"
    /\ \/ proc' = [proc EXCEPT !.pc = "serving"] /\ UNCHANGED <<listener, faults>>
       \/ Unwind("failed", TRUE) /\ Fault
    /\ UNCHANGED <<cli, file, kernel>>

\* A signal cancels the context.
Signal ==
    /\ proc.pc = "serving"
    /\ proc' = [proc EXCEPT !.pc = "cancelled"]
    /\ UNCHANGED <<cli, file, listener, kernel, faults>>

\* The supervisors have returned.  With a pool, multiClientLoop looks at the
\* context only when Accept fails, and cancellation does not close the listener:
\* it goes on serving until some fault of the socket ends it.
Shutdown ==
    /\ proc.pc = "cancelled"
    /\ IF Pooled THEN Fault ELSE UNCHANGED faults
    /\ Unwind("stopped", FALSE)
    /\ UNCHANGED <<cli, file, kernel>>

\* Run returns once the deferred calls, or the roll-back of Install, are done.
Returns ==
    /\ proc.pc \in {"remove", "rollback"} /\ proc.todo = <<>>
    /\ Exit(proc.how)
    /\ UNCHANGED <<cli, file, listener, kernel, faults>>

\* The process is killed.
Crash ==
    /\ proc.pc # "off"
    /\ Exit("crashed")
    /\ listener' = 0
    /\ UNCHANGED <<cli, file, kernel, faults>>

Next ==
    \/ Start \/ CommandOK \/ CommandFails \/ Reconciled
    \/ TProxyStarts \/ Listens \/ Signal \/ Shutdown \/ Returns \/ Crash

Spec == Init /\ [][Next]_vars

(***************************************************************************)
(* Fairness.  A process that can go on without a fault does; nothing makes *)
(* anyone start, signal or kill it.                                        *)
(***************************************************************************)
Proceed ==
    /\ \/ CommandOK \/ CommandFails \/ Reconciled
       \/ TProxyStarts \/ Listens \/ Shutdown \/ Returns
    /\ faults' = faults

FairSpec == Spec /\ WF_vars(Proceed)

-----------------------------------------------------------------------------
(* Properties *)

\* The file keeps the redirection and the listener together: where the rules
\* redirect, the listener is on, and on their port.
PortsAgree(fc) ==
    Override(fc.nft, fc.forward # {}) /\ "tproxy" \in fc.forward =>
        /\ Override(fc.tproxy, TRUE)
        /\ fc.listenPort \in {0, IF fc.redirectPort = 0 THEN defaultPort ELSE fc.redirectPort}

\* The forwarding state that a configuration asks for.
Asked ==
    IF ~Forward.nft THEN [table |-> NoTable, rule |-> {}, route |-> {}]
    ELSE LET r == IF "tproxy" \in Forward.features
                  THEN Families(Forward) \X {Forward.table} ELSE {}
         IN  [table |-> buildScript(Forward), rule |-> r, route |-> r]

\* From the first connection it accepts to the last, the kernel holds exactly
\* what the configuration asks for, whatever a killed, failed or half-removed
\* earlier run has left behind, and what is redirected has a listener (Reconcile,
\* Install, and the order of Server.Run).
PostureExact ==
    proc.pc \in {"serving", "cancelled"} =>
        /\ kernel = Asked
        /\ \A r \in kernel.table : r[1] = "redirect" => listener = r[3]

\* A start fails only if something went wrong in this very start: what an
\* earlier run left behind never stands in the way ("tolerates a stale table
\* from a previous ungraceful exit", Server.Run).
StaleNeverBlocks == proc.how = "failed" => proc.faulty

\* When Run returns after a signal it has taken everything with it, if its
\* commands worked ("removed together", NFTConfig; the deferred calls of
\* Server.Run).  Whether it returns is another matter: RemovedOnShutdown.
NothingLeft ==
    proc.pc = "off" /\ proc.how = "stopped" /\ ~proc.faulty =>
        kernel = [table |-> NoTable, rule |-> {}, route |-> {}] /\ listener = 0

\* "the server installs a dedicated nftables table at startup and removes it on
\* shutdown" (README.md): a signal is followed by the removal, unless the process
\* is killed or a command fails.
RemovedOnShutdown ==
    proc.pc = "cancelled" ~>
        kernel.table = NoTable \/ proc.how = "crashed" \/ proc.faulty

\* Removing the forward block "leaves packethose in pure-tunnel mode: no
\* nftables, no TPROXY listener, no policy routing" (README.md).
PureTunnel ==
    proc.pc = "serving" /\ file.forward = {} =>
        kernel.table = NoTable /\ listener = 0 /\ kernel.rule = {}
=============================================================================
