-------------------------- MODULE ForwardingProofs --------------------------
(***************************************************************************)
(* Proofs about the forwarding state, for every set of command lines and   *)
(* files and any number of faults and crashes.  Two invariants: SInv says  *)
(* what the commands still to run tell of the routing entries, and holds   *)
(* whatever the configurations; PInv adds that the kernel holds nothing    *)
(* but the installer's own work, and holds while the configuration stays.  *)
(***************************************************************************)
EXTENDS Forwarding, TLAPS

Ops == {"add", "del"}
Kinds == {"rule", "route"}

\* The ip command for one family and kind of entry, and the installer's commands.
IPCommand(op, w, f, fwd) == [op |-> op, what |-> w, fam |-> f, table |-> fwd.table]
IPSet(op, fwd) == {IPCommand(op, w, f, fwd) : w \in Kinds, f \in Families(fwd)}
Cmds(fwd) == {TableCommand(op) : op \in Ops} \cup IPSet("add", fwd) \cup IPSet("del", fwd)

\* A list of commands: which they are, none of them twice, deletions first.
Commands(q) == {q[k] : k \in 1..Len(q)}
Once(q) == \A i, j \in 1..Len(q) : q[i] = q[j] => i = j
DelsFirst(q) == \A i, j \in 1..Len(q) : i < j /\ q[i].op = "add" => q[j].op = "add"

\* Where Run is from Reconcile until it unwinds.
Up == {"reconcile", "tproxy", "listen", "serving", "cancelled"}

Pcs == Up \cup {"off", "rollback", "remove"}
Hows == {"never", "invalid", "failed", "running", "stopped", "crashed"}
ProcType == [pc : Pcs, todo : Seq(Cmds(Forward)), how : Hows, faulty : BOOLEAN]

\* The installer runs, with TPROXY.
TProxied == Forward.nft /\ "tproxy" \in Forward.features

\* The process and its list of commands; a failure has had a fault.
ProcOK ==
    /\ proc \in ProcType
    /\ proc.pc \notin {"reconcile", "remove", "rollback"} => proc.todo = <<>>
    /\ proc.pc \in {"remove", "rollback"} => \A c \in Commands(proc.todo) : c.op = "del"
    /\ proc.pc \in Up => proc.how = "running" /\ Once(proc.todo) /\ DelsFirst(proc.todo)
    /\ proc.pc \in Up /\ ~TProxied => Commands(proc.todo) \cap IPSet("add", Forward) = {}
    /\ proc.pc \in Up /\ ~Forward.nft => proc.todo = <<>>
    /\ proc.pc = "rollback" => proc.how = "failed"
    /\ proc.how = "failed" => proc.faulty

KernelOK == kernel = [table |-> kernel.table, rule |-> kernel.rule, route |-> kernel.route]

\* Reconcile deletes before it adds: an entry yet to be added is out of the way
\* once its deletion was tried, unless a fault kept it; one whose addition is
\* done is there.
Installing ==
    proc.pc \in Up /\ TProxied =>
      \A w \in Kinds, f \in Families(Forward) :
        LET C == Commands(proc.todo)
            add == IPCommand("add", w, f, Forward)
            del == IPCommand("del", w, f, Forward)
            x == <<f, Forward.table>>
        IN  /\ del \in C => add \in C
            /\ add \notin C => x \in kernel[w]
            /\ add \in C /\ del \notin C /\ ~proc.faulty => x \notin kernel[w]

SInv == ProcOK /\ KernelOK /\ Installing

\* What is in the kernel is what this configuration puts there.
Ours ==
    /\ kernel.table = NoTable \/ (Forward.nft /\ kernel.table = buildScript(Forward))
    /\ \A w \in Kinds : \A x \in kernel[w] :
         TProxied /\ \E f \in Families(Forward) : x = <<f, Forward.table>>

\* The table is deleted before it is added, and stays.
TableUp ==
    proc.pc \in Up /\ Forward.nft =>
        /\ TableCommand("del") \in Commands(proc.todo) => TableCommand("add") \in Commands(proc.todo)
        /\ TableCommand("add") \notin Commands(proc.todo) => kernel.table = buildScript(Forward)

\* The TPROXY listener is there from TPROXYListener.Start until Run unwinds.
Listener ==
    listener = IF proc.pc \in {"listen", "serving", "cancelled"} /\ Forward.tproxy
               THEN ListenPort(Forward) ELSE 0

\* What Remove has tried to delete is gone, unless a fault kept it.
Removing ==
    /\ proc.pc = "remove" \/ (proc.pc = "off" /\ proc.how = "stopped")
    /\ ~proc.faulty
    =>
        /\ TableCommand("del") \notin Commands(proc.todo) => kernel.table = NoTable
        /\ \A w \in Kinds, f \in Families(Forward) :
             IPCommand("del", w, f, Forward) \notin Commands(proc.todo) =>
               <<f, Forward.table>> \notin kernel[w]

Started == file \in Files /\ cli \in CommandLines

PInv == SInv /\ Started /\ Ours /\ TableUp /\ Listener /\ Removing

-----------------------------------------------------------------------------
(* Lists of commands *)

\* A list without its first command.
LEMMA Taken ==
    ASSUME NEW S, NEW q \in Seq(S), q # <<>>
    PROVE  /\ Head(q) \in S /\ Tail(q) \in Seq(S)
           /\ Commands(q) = Commands(Tail(q)) \cup {Head(q)}
           /\ Once(q) => Once(Tail(q)) /\ Head(q) \notin Commands(Tail(q))
           /\ DelsFirst(q) => /\ DelsFirst(Tail(q))
                              /\ Head(q).op = "add" => \A c \in Commands(Tail(q)) : c.op = "add"
<1> DEFINE r == Tail(q)
<1>1. /\ r \in Seq(S) /\ Len(r) = Len(q) - 1 /\ Len(q) \in Nat /\ Len(q) >= 1
      /\ Head(q) = q[1] /\ \A i \in 1..Len(r) : r[i] = q[i + 1]
  OBVIOUS
<1>2. Head(q) \in S
  BY <1>1
<1>3. \A i \in 1..Len(r) : i \in Int /\ i + 1 \in 1..Len(q) /\ i + 1 # 1 /\ 1 < i + 1
  BY <1>1
<1>4. \A i \in 1..Len(q) : i = 1 \/ (i - 1 \in 1..Len(r) /\ q[i] = r[i - 1])
  <2> SUFFICES ASSUME NEW i \in 1..Len(q), i # 1
               PROVE  i - 1 \in 1..Len(r) /\ q[i] = r[i - 1]
    OBVIOUS
  <2>1. i - 1 \in 1..Len(r) /\ (i - 1) + 1 = i
    BY <1>1
  <2> QED  BY <1>1, <2>1
<1>5. 1 \in 1..Len(q)
  BY <1>1
<1> HIDE DEF r
<1>6. Commands(q) = Commands(r) \cup {Head(q)}
  <2>1. \A x \in Commands(q) : x \in Commands(r) \cup {Head(q)}
    <3>1. ASSUME NEW k \in 1..Len(q) PROVE q[k] \in Commands(r) \cup {Head(q)}
      <4>1. CASE k = 1
        BY <1>1, <4>1, Zenon
      <4>2. CASE k - 1 \in 1..Len(r) /\ q[k] = r[k - 1]
        BY <4>2, Zenon DEF Commands
      <4> QED  BY <1>4, <4>1, <4>2, Zenon
    <3> QED  BY <3>1, Zenon DEF Commands
  <2>2. \A x \in Commands(r) : x \in Commands(q)
    BY <1>1, <1>3, Zenon DEF Commands
  <2>3. Head(q) \in Commands(q)
    BY <1>1, <1>5 DEF Commands
  <2> QED  BY <2>1, <2>2, <2>3
<1>7. Once(q) => Head(q) \notin Commands(r)
  BY <1>1, <1>3, <1>5 DEF Once, Commands
<1>8. Once(q) => Once(r)
  <2> SUFFICES ASSUME Once(q), NEW i \in 1..Len(r), NEW j \in 1..Len(r), r[i] = r[j]
               PROVE  i = j
    BY DEF Once
  <2>1. i + 1 = j + 1
    BY <1>1, <1>3, Zenon DEF Once
  <2> QED  BY <2>1
<1>9. DelsFirst(q) => DelsFirst(r)
  <2> SUFFICES ASSUME DelsFirst(q), NEW i \in 1..Len(r), NEW j \in 1..Len(r), i < j,
                      r[i].op = "add"
               PROVE  r[j].op = "add"
    BY DEF DelsFirst
  <2>1. i + 1 < j + 1
    BY <1>3
  <2> QED  BY <1>1, <1>3, <2>1, Zenon DEF DelsFirst
<1>10. DelsFirst(q) /\ Head(q).op = "add" => \A c \in Commands(r) : c.op = "add"
  BY <1>1, <1>3, <1>5, Zenon DEF DelsFirst, Commands
<1> QED  BY <1>1, <1>2, <1>6, <1>7, <1>8, <1>9, <1>10 DEF r

\* Two lists one after the other.
LEMMA Joined ==
    ASSUME NEW S, NEW p \in Seq(S), NEW q \in Seq(S)
    PROVE  /\ p \o q \in Seq(S)
           /\ Commands(p \o q) = Commands(p) \cup Commands(q)
           /\ Once(p) /\ Once(q) /\ Commands(p) \cap Commands(q) = {} => Once(p \o q)
<1> DEFINE r == p \o q
<1>1. /\ r \in Seq(S) /\ Len(r) = Len(p) + Len(q) /\ Len(p) \in Nat /\ Len(q) \in Nat
      /\ \A i \in 1..Len(p) : r[i] = p[i]
      /\ \A i \in 1..Len(r) : i > Len(p) => r[i] = q[i - Len(p)]
  OBVIOUS
<1> HIDE DEF r
<1>2. \A i \in 1..Len(p) : i \in 1..Len(r)
  BY <1>1
<1>3. \A i \in 1..Len(q) : i + Len(p) \in 1..Len(r) /\ r[i + Len(p)] = q[i]
  <2> SUFFICES ASSUME NEW i \in 1..Len(q)
               PROVE  i + Len(p) \in 1..Len(r) /\ r[i + Len(p)] = q[i]
    OBVIOUS
  <2>1. i + Len(p) \in 1..Len(r) /\ i + Len(p) > Len(p) /\ (i + Len(p)) - Len(p) = i
    BY <1>1
  <2> QED  BY <1>1, <2>1
<1>4. \A i \in 1..Len(r) :
        \/ i \in 1..Len(p) /\ r[i] = p[i]
        \/ i - Len(p) \in 1..Len(q) /\ r[i] = q[i - Len(p)]
  <2> SUFFICES ASSUME NEW i \in 1..Len(r), i \notin 1..Len(p)
               PROVE  i - Len(p) \in 1..Len(q) /\ r[i] = q[i - Len(p)]
    BY <1>1
  <2>1. i > Len(p) /\ i - Len(p) \in 1..Len(q)
    BY <1>1
  <2> QED  BY <1>1, <2>1
<1>5. Commands(r) = Commands(p) \cup Commands(q)
  <2>1. \A x \in Commands(r) : x \in Commands(p) \cup Commands(q)
    BY <1>4, Zenon DEF Commands
  <2>2. \A x \in Commands(p) : x \in Commands(r)
    BY <1>1, <1>2, Zenon DEF Commands
  <2>3. \A x \in Commands(q) : x \in Commands(r)
    BY <1>3, Zenon DEF Commands
  <2> QED  BY <2>1, <2>2, <2>3
<1>6. Once(p) /\ Once(q) /\ Commands(p) \cap Commands(q) = {} => Once(r)
  <2> SUFFICES ASSUME Once(p), Once(q), Commands(p) \cap Commands(q) = {},
                      NEW i \in 1..Len(r), NEW j \in 1..Len(r), r[i] = r[j]
               PROVE  i = j
    BY DEF Once
  <2>1. \A m \in 1..Len(p), n \in 1..Len(q) : p[m] # q[n]
    BY Zenon DEF Commands
  <2>2. CASE i \in 1..Len(p) /\ r[i] = p[i] /\ j \in 1..Len(p) /\ r[j] = p[j]
    BY <2>2, Zenon DEF Once
  <2>3. CASE /\ i - Len(p) \in 1..Len(q) /\ r[i] = q[i - Len(p)]
             /\ j - Len(p) \in 1..Len(q) /\ r[j] = q[j - Len(p)]
    <3>1. i - Len(p) = j - Len(p)
      BY <2>3, Zenon DEF Once
    <3> QED  BY <1>1, <3>1
  <2> QED  BY <1>4, <2>1, <2>2, <2>3
<1> QED  BY <1>1, <1>5, <1>6 DEF r

\* Deletions followed by additions.
LEMMA DelsThenAdds ==
    ASSUME NEW S, NEW p \in Seq(S), NEW q \in Seq(S),
           \A c \in Commands(p) : c.op = "del", \A c \in Commands(q) : c.op = "add"
    PROVE  DelsFirst(p \o q)
<1> DEFINE r == p \o q
<1>1. /\ Len(r) = Len(p) + Len(q) /\ Len(p) \in Nat /\ Len(q) \in Nat
      /\ \A i \in 1..Len(p) : r[i] = p[i]
      /\ \A i \in 1..Len(r) : i > Len(p) => r[i] = q[i - Len(p)]
  OBVIOUS
<1> HIDE DEF r
<1>2. \A i \in 1..Len(p) : r[i].op = "del"
  BY <1>1 DEF Commands
<1>3. \A i \in 1..Len(r) : i > Len(p) => r[i].op = "add"
  <2> SUFFICES ASSUME NEW i \in 1..Len(r), i > Len(p) PROVE r[i].op = "add"
    OBVIOUS
  <2>1. i - Len(p) \in 1..Len(q)
    BY <1>1
  <2> QED  BY <1>1, <2>1 DEF Commands
<1>4. DelsFirst(r)
  <2> SUFFICES ASSUME NEW i \in 1..Len(r), NEW j \in 1..Len(r), i < j, r[i].op = "add"
               PROVE  r[j].op = "add"
    BY DEF DelsFirst
  <2>1. i \notin 1..Len(p)
    BY <1>2
  <2>2. j > Len(p)
    BY <1>1, <2>1
  <2> QED  BY <1>3, <2>2
<1> QED  BY <1>4 DEF r

\* A list of one command.
LEMMA Single ==
    ASSUME NEW S, NEW c \in S
    PROVE  <<c>> \in Seq(S) /\ Commands(<<c>>) = {c} /\ Once(<<c>>)
BY DEF Commands, Once

\* No commands.
LEMMA Empty ==
    ASSUME NEW S
    PROVE  <<>> \in Seq(S) /\ Commands(<<>>) = {} /\ Once(<<>>) /\ DelsFirst(<<>>)
BY DEF Commands, Once, DelsFirst

\* IPCommands lists each entry of each family once.
LEMMA IPCommandsAre ==
    ASSUME NEW op \in Ops, NEW fwd
    PROVE  /\ IPCommands(op, fwd) \in Seq(Cmds(fwd))
           /\ Commands(IPCommands(op, fwd)) = IPSet(op, fwd)
           /\ Once(IPCommands(op, fwd))
<1> DEFINE of(f) == [k \in 1..2 |-> [op |-> op, what |-> Routing[k], fam |-> f, table |-> fwd.table]]
           S == Cmds(fwd)
           a == IF fwd.v4 THEN of("v4") ELSE <<>>
           b == IF fwd.v6 THEN of("v6") ELSE <<>>
<1>1. IPCommands(op, fwd) = a \o b
  BY DEF IPCommands
<1>2. Routing[1] = "rule" /\ Routing[2] = "route"
  BY DEF Routing
<1>3. ASSUME NEW f \in Families(fwd)
      PROVE  /\ of(f) \in Seq(S) /\ Once(of(f))
             /\ Commands(of(f)) = {IPCommand(op, "rule", f, fwd), IPCommand(op, "route", f, fwd)}
  <2> DEFINE q == of(f)
  <2>1. /\ q[1] = IPCommand(op, "rule", f, fwd) /\ q[2] = IPCommand(op, "route", f, fwd)
        /\ q = [k \in 1..2 |-> q[k]]
    BY <1>2 DEF IPCommand
  <2>2. IPCommand(op, "rule", f, fwd) \in S /\ IPCommand(op, "route", f, fwd) \in S
    BY DEF Cmds, IPSet, Kinds, Ops
  <2>3. IPCommand(op, "rule", f, fwd) # IPCommand(op, "route", f, fwd)
    BY DEF IPCommand
  <2> HIDE DEF q, S
  <2>4. \A k \in 1..2 : q[k] \in S
    BY <2>1, <2>2
  <2>5. q \in Seq(S) /\ Len(q) = 2
    BY <2>1, <2>4
  <2>6. Commands(q) = {IPCommand(op, "rule", f, fwd), IPCommand(op, "route", f, fwd)}
    BY <2>1, <2>5 DEF Commands
  <2>7. Once(q)
    BY <2>1, <2>3, <2>5 DEF Once
  <2> QED  BY <2>5, <2>6, <2>7 DEF q
<1>4. ("v4" \in Families(fwd) <=> fwd.v4) /\ ("v6" \in Families(fwd) <=> fwd.v6)
  BY DEF Families
<1>5. /\ a \in Seq(S) /\ Once(a)
      /\ Commands(a) = IF fwd.v4 THEN {IPCommand(op, "rule", "v4", fwd), IPCommand(op, "route", "v4", fwd)} ELSE {}
  <2> HIDE DEF of
  <2> QED  BY <1>3, <1>4, Empty, Zenon
<1>6. /\ b \in Seq(S) /\ Once(b)
      /\ Commands(b) = IF fwd.v6 THEN {IPCommand(op, "rule", "v6", fwd), IPCommand(op, "route", "v6", fwd)} ELSE {}
  <2> HIDE DEF of
  <2> QED  BY <1>3, <1>4, Empty, Zenon
<1> HIDE DEF a, b, S
<1>7. Commands(a) \cap Commands(b) = {}
  <2>1. \A w, x \in Kinds : IPCommand(op, w, "v4", fwd) # IPCommand(op, x, "v6", fwd)
    BY DEF IPCommand
  <2> QED  BY <1>5, <1>6, <2>1 DEF Kinds
<1>8. Commands(a) \cup Commands(b) = IPSet(op, fwd)
  <2>1. \A f \in Families(fwd) : (f = "v4" /\ fwd.v4) \/ (f = "v6" /\ fwd.v6)
    BY DEF Families
  <2>2. \A x \in IPSet(op, fwd) : x \in Commands(a) \cup Commands(b)
    BY <1>5, <1>6, <2>1 DEF IPSet, Kinds
  <2>3. \A x \in Commands(a) \cup Commands(b) : x \in IPSet(op, fwd)
    BY <1>4, <1>5, <1>6 DEF IPSet, Kinds
  <2> QED  BY <2>2, <2>3
<1>9. a \o b \in Seq(S) /\ Commands(a \o b) = Commands(a) \cup Commands(b) /\ Once(a \o b)
  <2>1. a \in Seq(S) /\ b \in Seq(S) /\ Once(a) /\ Once(b)
    BY <1>5, <1>6
  <2> QED  BY <1>7, <2>1, Joined
<1> QED  BY <1>1, <1>8, <1>9 DEF S

\* Commands for the table and for the routing are told apart by their fields.
LEMMA CommandsDiffer ==
    ASSUME NEW fwd
    PROVE  /\ \A c \in IPSet("add", fwd) : c.op = "add" /\ c.what \in Kinds
           /\ \A c \in IPSet("del", fwd) : c.op = "del" /\ c.what \in Kinds
           /\ \A op \in Ops : TableCommand(op).op = op /\ TableCommand(op).what = "table"
           /\ "table" \notin Kinds
           /\ TableCommand("del") \in Cmds(fwd) /\ TableCommand("add") \in Cmds(fwd)
BY DEF IPSet, IPCommand, TableCommand, Kinds, Cmds, Ops

\* Install adds the table and then, with TPROXY, every routing entry.
LEMMA InstallIs ==
    ASSUME NEW fwd
    PROVE  /\ Install(fwd) \in Seq(Cmds(fwd)) /\ Once(Install(fwd))
           /\ Commands(Install(fwd)) = {TableCommand("add")}
                \cup (IF "tproxy" \in fwd.features THEN IPSet("add", fwd) ELSE {})
<1> DEFINE q == IF "tproxy" \in fwd.features THEN IPCommands("add", fwd) ELSE <<>>
<1>1. /\ q \in Seq(Cmds(fwd)) /\ Once(q)
      /\ Commands(q) = IF "tproxy" \in fwd.features THEN IPSet("add", fwd) ELSE {}
  BY IPCommandsAre, Empty, Zenon DEF Ops
<1>2. /\ <<TableCommand("add")>> \in Seq(Cmds(fwd)) /\ Once(<<TableCommand("add")>>)
      /\ Commands(<<TableCommand("add")>>) = {TableCommand("add")}
  BY CommandsDiffer, Single
<1>3. TableCommand("add") \notin Commands(q)
  BY <1>1, CommandsDiffer DEF Ops
<1> DEFINE p == <<TableCommand("add")>>
           S == Cmds(fwd)
<1>4. Install(fwd) = p \o q
  BY DEF Install
<1>5. /\ p \in Seq(S) /\ Once(p) /\ q \in Seq(S) /\ Once(q)
      /\ Commands(p) \cap Commands(q) = {}
  BY <1>1, <1>2, <1>3
<1>6. Commands(p) \cup Commands(q) = {TableCommand("add")}
                \cup (IF "tproxy" \in fwd.features THEN IPSet("add", fwd) ELSE {})
  BY <1>1, <1>2
<1> HIDE DEF p, q, S
<1>7. p \o q \in Seq(S) /\ Commands(p \o q) = Commands(p) \cup Commands(q) /\ Once(p \o q)
  BY <1>5, Joined
<1> QED  BY <1>4, <1>6, <1>7 DEF S

\* removeIPRouting deletes every routing entry.
LEMMA RemoveRoutingIs ==
    ASSUME NEW fwd
    PROVE  /\ removeIPRouting(fwd) \in Seq(Cmds(fwd)) /\ Once(removeIPRouting(fwd))
           /\ Commands(removeIPRouting(fwd)) =
                IF "tproxy" \in fwd.features THEN IPSet("del", fwd) ELSE {}
BY IPCommandsAre, Empty, Zenon DEF Ops, removeIPRouting

\* Reconcile deletes everything that Install then adds, each once.
LEMMA ReconcileIs ==
    ASSUME NEW fwd
    PROVE  /\ Reconcile(fwd) \in Seq(Cmds(fwd)) /\ Once(Reconcile(fwd)) /\ DelsFirst(Reconcile(fwd))
           /\ Commands(Reconcile(fwd)) = {TableCommand("del"), TableCommand("add")}
                \cup (IF "tproxy" \in fwd.features THEN IPSet("del", fwd) \cup IPSet("add", fwd) ELSE {})
<1> DEFINE a == <<TableCommand("del")>>
           b == removeIPRouting(fwd)
           c == Install(fwd)
           S == Cmds(fwd)
<1>1. a \in Seq(S) /\ Once(a) /\ Commands(a) = {TableCommand("del")}
  BY CommandsDiffer, Single
<1>2. /\ b \in Seq(S) /\ Once(b)
      /\ Commands(b) = IF "tproxy" \in fwd.features THEN IPSet("del", fwd) ELSE {}
  BY RemoveRoutingIs
<1>3. /\ c \in Seq(S) /\ Once(c)
      /\ Commands(c) = {TableCommand("add")}
                \cup (IF "tproxy" \in fwd.features THEN IPSet("add", fwd) ELSE {})
  BY InstallIs
<1>4. Reconcile(fwd) = (a \o b) \o c
  BY DEF Reconcile
<1> HIDE DEF a, b, c, S
<1>5. /\ a \o b \in Seq(S) /\ Once(a \o b)
      /\ Commands(a \o b) = {TableCommand("del")}
           \cup IF "tproxy" \in fwd.features THEN IPSet("del", fwd) ELSE {}
  <2>1. Commands(a) \cap Commands(b) = {}
    BY <1>1, <1>2, CommandsDiffer DEF Ops
  <2> QED  BY <1>1, <1>2, <2>1, Joined
<1>6. \A x \in Commands(a \o b) : x.op = "del"
  BY <1>5, CommandsDiffer DEF Ops
<1>7. \A x \in Commands(c) : x.op = "add"
  BY <1>3, CommandsDiffer DEF Ops
<1>8. Commands(a \o b) \cap Commands(c) = {}
  BY <1>6, <1>7
<1>9. Once((a \o b) \o c) /\ (a \o b) \o c \in Seq(S)
      /\ Commands((a \o b) \o c) = Commands(a \o b) \cup Commands(c)
  <2> DEFINE d == a \o b
  <2>1. /\ d \in Seq(S) /\ Once(d) /\ c \in Seq(S) /\ Once(c)
        /\ Commands(d) \cap Commands(c) = {}
    BY <1>3, <1>5, <1>8, Zenon
  <2> HIDE DEF d
  <2>2. d \o c \in Seq(S) /\ Commands(d \o c) = Commands(d) \cup Commands(c) /\ Once(d \o c)
    BY <2>1, Joined
  <2> QED  BY <2>2 DEF d
<1>10. DelsFirst((a \o b) \o c)
  BY <1>3, <1>5, <1>6, <1>7, DelsThenAdds, Zenon
<1> QED  BY <1>3, <1>4, <1>5, <1>9, <1>10 DEF S

\* Remove deletes everything that Install adds.
LEMMA RemoveIs ==
    ASSUME NEW fwd
    PROVE  /\ Remove(fwd) \in Seq(Cmds(fwd))
           /\ Commands(Remove(fwd)) = {TableCommand("del")}
                \cup (IF "tproxy" \in fwd.features THEN IPSet("del", fwd) ELSE {})
           /\ \A c \in Commands(Remove(fwd)) : c.op = "del"
<1> DEFINE a == removeIPRouting(fwd)
           b == <<TableCommand("del")>>
           S == Cmds(fwd)
<1>1. /\ a \in Seq(S)
      /\ Commands(a) = IF "tproxy" \in fwd.features THEN IPSet("del", fwd) ELSE {}
  BY RemoveRoutingIs
<1>2. b \in Seq(S) /\ Commands(b) = {TableCommand("del")}
  BY CommandsDiffer, Single
<1>3. Remove(fwd) = a \o b
  BY DEF Remove
<1> HIDE DEF a, b, S
<1>4. a \o b \in Seq(S) /\ Commands(a \o b) = Commands(a) \cup Commands(b)
  BY <1>1, <1>2, Joined
<1>5. \A c \in Commands(a \o b) : c.op = "del"
  BY <1>1, <1>2, <1>4, CommandsDiffer DEF Ops
<1> QED  BY <1>1, <1>2, <1>3, <1>4, <1>5 DEF S

-----------------------------------------------------------------------------
\* The forwarding configuration is a function of command line and file.
LEMMA SameConfig ==
    ASSUME UNCHANGED <<cli, file>>
    PROVE  /\ Forward' = Forward /\ (TProxied' <=> TProxied)
           /\ ProcType' = ProcType
BY DEF Forward, TProxied, ProcType

\* An nft command changes the table only.
LEMMA TableEffect ==
    ASSUME KernelOK, NEW op \in Ops, kernel' = Effect(TableCommand(op))
    PROVE  /\ KernelOK' /\ \A w \in Kinds : kernel'[w] = kernel[w]
           /\ kernel'.table = IF op = "del" THEN NoTable
                ELSE buildScript(Forward) \cup (IF kernel.table = NoTable THEN {} ELSE kernel.table)
<1> DEFINE T == IF op = "del" THEN NoTable
                ELSE buildScript(Forward) \cup (IF kernel.table = NoTable THEN {} ELSE kernel.table)
<1>1. TableCommand(op).what = "table" /\ TableCommand(op).op = op
  BY DEF TableCommand
<1>2. kernel' = [kernel EXCEPT !.table = T]
  BY <1>1 DEF Effect
<1> HIDE DEF T
<1>3. kernel' = [table |-> T, rule |-> kernel.rule, route |-> kernel.route]
  BY <1>2 DEF KernelOK
<1>4. kernel'.table = T /\ kernel'["rule"] = kernel["rule"] /\ kernel'["route"] = kernel["route"]
  BY <1>3
<1>5. KernelOK'
  BY <1>3, <1>4 DEF KernelOK
<1> QED  BY <1>4, <1>5 DEF T, Kinds

\* An ip command changes one kind of entry only.
LEMMA IPEffect ==
    ASSUME KernelOK, NEW op \in Ops, NEW w \in Kinds, NEW f,
           kernel' = Effect(IPCommand(op, w, f, Forward))
    PROVE  /\ KernelOK' /\ kernel'.table = kernel.table
           /\ kernel'[w] = IF op = "del" THEN kernel[w] \ {<<f, Forward.table>>}
                           ELSE kernel[w] \cup {<<f, Forward.table>>}
           /\ \A v \in Kinds : v # w => kernel'[v] = kernel[v]
<1> DEFINE X == IF op = "del" THEN kernel[w] \ {<<f, Forward.table>>}
                ELSE kernel[w] \cup {<<f, Forward.table>>}
           c == IPCommand(op, w, f, Forward)
<1>1. c.what = w /\ c.op = op /\ c.fam = f /\ c.table = Forward.table /\ w # "table"
  BY DEF IPCommand, Kinds
<1>2. kernel' = [kernel EXCEPT ![w] = X]
  BY <1>1 DEF Effect
<1> HIDE DEF X
<1>3. CASE w = "rule"
  <2>1. kernel' = [table |-> kernel.table, rule |-> X, route |-> kernel.route]
    BY <1>2, <1>3, Zenon DEF KernelOK
  <2>2. kernel'["table"] = kernel["table"] /\ kernel'["rule"] = X /\ kernel'["route"] = kernel["route"]
    BY <2>1
  <2> QED  BY <1>3, <2>1, <2>2 DEF KernelOK, Kinds, X
<1>4. CASE w = "route"
  <2>1. kernel' = [table |-> kernel.table, rule |-> kernel.rule, route |-> X]
    BY <1>2, <1>4, Zenon DEF KernelOK
  <2>2. kernel'["table"] = kernel["table"] /\ kernel'["route"] = X /\ kernel'["rule"] = kernel["rule"]
    BY <2>1
  <2> QED  BY <1>4, <2>1, <2>2 DEF KernelOK, Kinds, X
<1> QED  BY <1>3, <1>4 DEF Kinds

\* When a command works, in terms of the kernel.
LEMMA WorksMeans ==
    /\ Works(TableCommand("add"))
    /\ Works(TableCommand("del")) <=> kernel.table # NoTable
    /\ \A w \in Kinds, f \in Families(Forward) :
        /\ Works(IPCommand("add", w, f, Forward)) <=> <<f, Forward.table>> \notin kernel[w]
        /\ Works(IPCommand("del", w, f, Forward)) <=> <<f, Forward.table>> \in kernel[w]
BY DEF Works, Present, TableCommand, IPCommand, Kinds

\* A command is one of the table's or one of the routing.
LEMMA CommandCases ==
    ASSUME NEW c \in Cmds(Forward)
    PROVE  \/ \E op \in Ops : c = TableCommand(op)
           \/ \E op \in Ops, w \in Kinds, f \in Families(Forward) : c = IPCommand(op, w, f, Forward)
BY DEF Cmds, IPSet, Ops

\* The next command and those after it.
LEMMA Pop ==
    ASSUME ProcOK, proc.todo # <<>>
    PROVE  LET c == Head(proc.todo)
               t == Tail(proc.todo)
           IN  /\ c \in Cmds(Forward) /\ t \in Seq(Cmds(Forward))
               /\ Commands(proc.todo) = Commands(t) \cup {c}
               /\ proc.pc \in {"reconcile", "remove", "rollback"}
               /\ proc.pc = "reconcile" =>
                    /\ Forward.nft /\ Once(t) /\ DelsFirst(t) /\ c \notin Commands(t)
                    /\ c.op = "add" => \A d \in Commands(t) : d.op = "add"
               /\ proc.pc # "reconcile" => c.op = "del" /\ \A d \in Commands(t) : d.op = "del"
<1>1. proc.todo \in Seq(Cmds(Forward)) /\ proc.pc \in {"reconcile", "remove", "rollback"}
  BY DEF ProcOK, ProcType
<1> DEFINE S == Cmds(Forward)
           q == proc.todo
<1>2. q \in Seq(S) /\ q # <<>>
  BY <1>1
<1> HIDE DEF S, q
<1>3. /\ Head(q) \in S /\ Tail(q) \in Seq(S)
      /\ Commands(q) = Commands(Tail(q)) \cup {Head(q)}
      /\ Once(q) => Once(Tail(q)) /\ Head(q) \notin Commands(Tail(q))
      /\ DelsFirst(q) => /\ DelsFirst(Tail(q))
                         /\ Head(q).op = "add" => \A c \in Commands(Tail(q)) : c.op = "add"
  BY <1>2, Taken
<1>4. /\ proc.pc = "reconcile" => Forward.nft /\ Once(q) /\ DelsFirst(q)
      /\ proc.pc \in {"remove", "rollback"} => \A c \in Commands(q) : c.op = "del"
  BY <1>2 DEF ProcOK, Up, q
<1> QED  BY <1>1, <1>3, <1>4 DEF S, q

\* Commands for different entries differ.
LEMMA DistinctIP ==
    ASSUME NEW op, NEW o, NEW w, NEW v, NEW f, NEW g,
           IPCommand(op, w, f, Forward) = IPCommand(o, v, g, Forward)
    PROVE  op = o /\ w = v /\ f = g
BY DEF IPCommand

\* An ip command is no nft command.
LEMMA IPOp ==
    ASSUME NEW op, NEW w \in Kinds, NEW f
    PROVE  /\ IPCommand(op, w, f, Forward).op = op
           /\ \A o : IPCommand(op, w, f, Forward) # TableCommand(o)
BY DEF IPCommand, TableCommand, Kinds

\* A command that works leaves a shorter list.
LEMMA CommandOKProc ==
    ASSUME ProcOK, CommandOK
    PROVE  /\ ProcOK' /\ proc'.todo = Tail(proc.todo) /\ proc'.pc = proc.pc
           /\ proc'.how = proc.how /\ proc'.faulty = proc.faulty
<1> DEFINE t == Tail(proc.todo)
<1>1. proc.todo # <<>> /\ proc' = [proc EXCEPT !.todo = t] /\ UNCHANGED <<cli, file>>
  BY DEF CommandOK
<1>2. proc \in ProcType /\ t \in Seq(Cmds(Forward))
  BY <1>1, Pop DEF ProcOK
<1> HIDE DEF t
<1>3. /\ proc' \in ProcType /\ proc'.todo = t /\ proc'.pc = proc.pc
      /\ proc'.how = proc.how /\ proc'.faulty = proc.faulty
  BY <1>1, <1>2 DEF ProcType
<1>4. /\ Commands(proc.todo)' = Commands(t) /\ Once(proc.todo)' = Once(t)
      /\ DelsFirst(proc.todo)' = DelsFirst(t)
  BY <1>3 DEF Commands, Once, DelsFirst
<1>5. /\ proc.pc \in {"reconcile", "remove", "rollback"}
      /\ proc.pc = "reconcile" => Forward.nft /\ Once(t) /\ DelsFirst(t)
      /\ proc.pc # "reconcile" => \A d \in Commands(t) : d.op = "del"
      /\ Commands(t) \subseteq Commands(proc.todo)
  BY <1>1, Pop DEF t
<1>6. proc.pc \in Up <=> proc.pc = "reconcile"
  BY <1>5 DEF Up
<1>7. proc.pc = "reconcile" /\ ~TProxied => Commands(t) \cap IPSet("add", Forward) = {}
  BY <1>5, <1>6 DEF ProcOK
<1>8. ProcOK'
  BY <1>1, <1>3, <1>4, <1>5, <1>6, <1>7, SameConfig DEF ProcOK
<1> QED  BY <1>3, <1>8 DEF t

\* A command that works keeps what the list tells of the entries.
LEMMA CommandOKInstalls ==
    ASSUME SInv, CommandOK
    PROVE  Installing'
<1> DEFINE c == Head(proc.todo)
           C == Commands(proc.todo)
           D == Commands(Tail(proc.todo))
<1>1. /\ proc.todo # <<>> /\ kernel' = Effect(c) /\ UNCHANGED <<cli, file>>
      /\ proc'.todo = Tail(proc.todo) /\ proc'.pc = proc.pc /\ proc'.faulty = proc.faulty
      /\ Commands(proc.todo)' = D
  BY CommandOKProc DEF CommandOK, SInv, Commands
<1>2. SUFFICES ASSUME proc.pc \in Up, TProxied, NEW w \in Kinds, NEW f \in Families(Forward)
               PROVE  LET add == IPCommand("add", w, f, Forward)
                          del == IPCommand("del", w, f, Forward)
                          x == <<f, Forward.table>>
                      IN  /\ del \in D => add \in D
                          /\ add \notin D => x \in kernel'[w]
                          /\ add \in D /\ del \notin D /\ ~proc.faulty => x \notin kernel'[w]
  BY <1>1, SameConfig DEF Installing
<1> DEFINE add == IPCommand("add", w, f, Forward)
           del == IPCommand("del", w, f, Forward)
           x == <<f, Forward.table>>
<1>3. /\ del \in C => add \in C
      /\ add \notin C => x \in kernel[w]
      /\ add \in C /\ del \notin C /\ ~proc.faulty => x \notin kernel[w]
  BY <1>2 DEF SInv, Installing
<1>4. /\ c \in Cmds(Forward) /\ C = D \cup {c} /\ c \notin D
      /\ c.op = "add" => \A d \in D : d.op = "add"
  BY <1>1, <1>2, Pop DEF SInv, Up
<1>5. add.op = "add" /\ del.op = "del" /\ add # del
  BY IPOp
<1>6. del \in D => add \in D
  BY <1>3, <1>4, <1>5
<1>7. CASE \E op \in Ops : c = TableCommand(op)
  <2>1. PICK op \in Ops : c = TableCommand(op)
    BY <1>7
  <2>2. kernel'[w] = kernel[w]
    BY <1>1, <1>2, <2>1, TableEffect DEF SInv
  <2>3. c # add /\ c # del
    BY <2>1, IPOp
  <2> HIDE DEF c, C, D, add, del, x
  <2>4. (add \in D <=> add \in C) /\ (del \in D <=> del \in C)
    BY <1>4, <2>3
  <2> QED  BY <1>3, <1>6, <2>2, <2>4 DEF add, del, x
<1>8. CASE \E op \in Ops, v \in Kinds, g \in Families(Forward) : c = IPCommand(op, v, g, Forward)
  <2>1. PICK op \in Ops, v \in Kinds, g \in Families(Forward) : c = IPCommand(op, v, g, Forward)
    BY <1>8
  <2>2. /\ kernel'[v] = IF op = "del" THEN kernel[v] \ {<<g, Forward.table>>}
                        ELSE kernel[v] \cup {<<g, Forward.table>>}
        /\ w # v => kernel'[w] = kernel[w]
    <3>1. KernelOK /\ kernel' = Effect(IPCommand(op, v, g, Forward))
      BY <1>1, <2>1 DEF SInv
    <3>2. /\ kernel'[v] = IF op = "del" THEN kernel[v] \ {<<g, Forward.table>>}
                          ELSE kernel[v] \cup {<<g, Forward.table>>}
          /\ \A u \in Kinds : u # v => kernel'[u] = kernel[u]
      BY <3>1, IPEffect, Zenon
    <3> QED  BY <3>2
  <2>3. CASE w = v /\ f = g
    <3>1. c = IF op = "del" THEN del ELSE add
      BY <2>1, <2>3 DEF Ops
    <3>2. kernel'[w] = IF op = "del" THEN kernel[w] \ {x} ELSE kernel[w] \cup {x}
      BY <2>2, <2>3
    <3> HIDE DEF c, C, D, add, del, x
    <3>3. CASE op = "del"
      BY <1>3, <1>4, <1>5, <1>6, <3>1, <3>2, <3>3 DEF add, del, x
    <3>4. CASE op = "add"
      BY <1>3, <1>4, <1>5, <1>6, <3>1, <3>2, <3>4 DEF add, del, x
    <3> QED  BY <3>3, <3>4 DEF Ops
  <2>4. CASE ~(w = v /\ f = g)
    <3>1. c # add /\ c # del
      BY <2>1, <2>4, DistinctIP
    <3>2. x \in kernel'[w] <=> x \in kernel[w]
      BY <2>2, <2>4
    <3> HIDE DEF c, C, D, add, del, x
    <3>3. (add \in D <=> add \in C) /\ (del \in D <=> del \in C)
      BY <1>4, <3>1
    <3> QED  BY <1>3, <1>6, <3>2, <3>3 DEF add, del, x
  <2> QED  BY <2>3, <2>4
<1> QED  BY <1>4, <1>7, <1>8, CommandCases

\* A command that works keeps the first invariant.
LEMMA CommandOKKeeps ==
    ASSUME SInv, CommandOK
    PROVE  SInv'
<1>1. KernelOK'
  <2>1. Head(proc.todo) \in Cmds(Forward) /\ kernel' = Effect(Head(proc.todo))
    BY Pop DEF CommandOK, SInv
  <2> QED  BY <2>1, CommandCases, TableEffect, IPEffect, Zenon DEF SInv
<1> QED  BY <1>1, CommandOKProc, CommandOKInstalls DEF SInv

\* The command that fails is a deletion: the rest of the list goes on.
LEMMA DeletionFails ==
    ASSUME SInv, CommandFails, Head(proc.todo).op = "del"
    PROVE  SInv'
<1> DEFINE c == Head(proc.todo)
           t == Tail(proc.todo)
           C == Commands(proc.todo)
           D == Commands(t)
<1>1. /\ proc.todo # <<>> /\ UNCHANGED <<cli, file, kernel>>
      /\ proc' = [proc EXCEPT !.todo = t, !.faulty = proc.faulty \/ Works(c)]
  BY DEF CommandFails
<1>2. proc \in ProcType /\ t \in Seq(Cmds(Forward))
  BY <1>1, Pop DEF ProcOK, SInv
<1>3. /\ proc' \in ProcType /\ proc'.todo = t /\ proc'.pc = proc.pc
      /\ proc'.how = proc.how /\ (proc'.faulty <=> proc.faulty \/ Works(c))
  <2> DEFINE b == proc.faulty \/ Works(c)
  <2>1. b \in BOOLEAN
    BY <1>2 DEF ProcType
  <2>2. proc' = [proc EXCEPT !.todo = t, !.faulty = b]
    BY <1>1
  <2> HIDE DEF b, t
  <2>3. /\ proc' \in ProcType /\ proc'.todo = t /\ proc'.pc = proc.pc
        /\ proc'.how = proc.how /\ proc'.faulty = b
    BY <1>2, <2>1, <2>2, Zenon DEF ProcType
  <2> QED  BY <2>3, Zenon DEF b
<1>4. /\ Commands(proc.todo)' = D /\ Once(proc.todo)' = Once(t)
      /\ DelsFirst(proc.todo)' = DelsFirst(t)
  BY <1>3 DEF Commands, Once, DelsFirst
<1>5. /\ proc.pc \in {"reconcile", "remove", "rollback"}
      /\ proc.pc = "reconcile" => Forward.nft /\ Once(t) /\ DelsFirst(t) /\ c \notin D
      /\ proc.pc # "reconcile" => \A d \in D : d.op = "del"
      /\ C = D \cup {c} /\ c \in Cmds(Forward)
  BY <1>1, Pop DEF SInv
<1>6. proc.pc \in Up <=> proc.pc = "reconcile"
  BY <1>5 DEF Up
<1>7. proc.pc = "reconcile" /\ ~TProxied => D \cap IPSet("add", Forward) = {}
  BY <1>5, <1>6 DEF SInv, ProcOK
<1> HIDE DEF c, t, C, D
<1>8. ProcOK'
  BY <1>1, <1>3, <1>4, <1>5, <1>6, <1>7, SameConfig DEF ProcOK, SInv
<1>9. KernelOK'
  BY <1>1 DEF SInv, KernelOK
<1>10. Installing'
  <2>1. SUFFICES ASSUME proc.pc \in Up, TProxied, NEW w \in Kinds, NEW f \in Families(Forward)
                 PROVE  LET add == IPCommand("add", w, f, Forward)
                            del == IPCommand("del", w, f, Forward)
                            x == <<f, Forward.table>>
                        IN  /\ del \in D => add \in D
                            /\ add \notin D => x \in kernel[w]
                            /\ add \in D /\ del \notin D /\ ~proc'.faulty => x \notin kernel[w]
    BY <1>1, <1>3, <1>4, SameConfig DEF Installing
  <2> DEFINE add == IPCommand("add", w, f, Forward)
             del == IPCommand("del", w, f, Forward)
             x == <<f, Forward.table>>
  <2>2. /\ del \in C => add \in C
        /\ add \notin C => x \in kernel[w]
        /\ add \in C /\ del \notin C /\ ~proc.faulty => x \notin kernel[w]
    BY <2>1 DEF SInv, Installing, C
  <2>3. add.op = "add" /\ (Works(del) <=> x \in kernel[w])
    BY IPOp, WorksMeans
  <2>4. c.op = "del"
    BY DEF c
  <2> HIDE DEF add, del, x
  <2>5. add # c
    BY <2>3, <2>4
  <2> QED  BY <1>3, <1>5, <2>2, <2>3, <2>5 DEF add, del, x
<1> QED  BY <1>8, <1>9, <1>10 DEF SInv

\* A process that is off has nothing to run.
LEMMA OffKeeps ==
    ASSUME KernelOK', proc' \in ProcType', proc'.pc = "off", proc'.todo = <<>>,
           proc'.how = "failed" => proc'.faulty
    PROVE  SInv'
BY Zenon DEF SInv, ProcOK, Installing, Up, Commands

\* An addition fails only after a fault: nothing else is in its way.
LEMMA AdditionFails ==
    ASSUME SInv, CommandFails, Head(proc.todo).op = "add"
    PROVE  SInv'
<1> DEFINE c == Head(proc.todo)
           q == IF c.what = "table" THEN <<>> ELSE <<TableCommand("del")>>
           bad == proc.faulty \/ Works(c)
<1>1. /\ proc.todo # <<>> /\ UNCHANGED <<cli, file, kernel>>
      /\ proc' = [pc |-> "rollback", how |-> "failed", faulty |-> bad, todo |-> q]
  BY DEF CommandFails
<1>2. /\ c \in Cmds(Forward) /\ proc.pc = "reconcile" /\ c \in Commands(proc.todo)
      /\ \A d \in Commands(proc.todo) : d.op = "add"
  BY <1>1, Pop DEF SInv
<1>3. bad
  <2>1. CASE \E op \in Ops : c = TableCommand(op)
    BY <2>1, CommandsDiffer, WorksMeans DEF Ops
  <2>2. CASE \E op \in Ops, w \in Kinds, f \in Families(Forward) : c = IPCommand(op, w, f, Forward)
    <3>1. PICK w \in Kinds, f \in Families(Forward) : c = IPCommand("add", w, f, Forward)
      BY <2>2, IPOp
    <3>2. TProxied
      <4>1. c \in IPSet("add", Forward)
        BY <3>1 DEF IPSet
      <4> QED  BY <1>2, <4>1 DEF SInv, ProcOK, Up
    <3>3. IPCommand("del", w, f, Forward) \notin Commands(proc.todo)
      BY <1>2, IPOp
    <3>4. ~proc.faulty => <<f, Forward.table>> \notin kernel[w]
      <4> HIDE DEF c
      <4> QED  BY <1>2, <3>1, <3>2, <3>3 DEF SInv, Installing, Up
    <3> QED  BY <3>1, <3>4, WorksMeans
  <2> QED  BY <1>2, <2>1, <2>2, CommandCases
<1>4. q \in Seq(Cmds(Forward)) /\ \A d \in Commands(q) : d.op = "del"
  BY Empty, Single, CommandsDiffer DEF Ops
<1> HIDE DEF q, bad, c
<1>5. /\ proc'.pc = "rollback" /\ proc'.how = "failed" /\ proc'.faulty = bad /\ proc'.todo = q
  BY <1>1
<1>6. bad \in BOOLEAN
  BY DEF bad, SInv, ProcOK, ProcType
<1>7. proc' \in ProcType
  BY <1>1, <1>4, <1>6 DEF ProcType, Pcs, Hows
<1>8. Commands(proc.todo)' = Commands(q)
  BY <1>5 DEF Commands
<1>9. ProcOK'
  BY <1>1, <1>3, <1>4, <1>5, <1>7, <1>8, SameConfig DEF ProcOK, Up
<1>10. KernelOK' /\ Installing'
  BY <1>1, <1>5 DEF SInv, KernelOK, Installing, Up
<1> QED  BY <1>9, <1>10 DEF SInv

\* A command that fails keeps the first invariant.
LEMMA CommandFailsKeeps ==
    ASSUME SInv, CommandFails
    PROVE  SInv'
<1>1. Head(proc.todo).op \in Ops
  <2>1. Head(proc.todo) \in Cmds(Forward)
    BY Pop DEF SInv, CommandFails
  <2> QED  BY <2>1, CommandsDiffer DEF Cmds, Ops
<1> QED  BY <1>1, DeletionFails, AdditionFails DEF Ops

\* Run goes on after the last command.
LEMMA GoesOn ==
    ASSUME SInv, proc.pc \in Up, proc.todo = <<>>, NEW p \in Up, p # "reconcile",
           proc' = [proc EXCEPT !.pc = p], UNCHANGED <<cli, file, kernel>>
    PROVE  /\ SInv' /\ proc'.pc = p /\ proc'.todo = <<>> /\ proc'.how = proc.how
           /\ proc'.faulty = proc.faulty
<1>1. proc \in ProcType /\ p \in Pcs
  BY DEF SInv, ProcOK, Up, Pcs
<1>2. /\ proc' \in ProcType /\ proc'.pc = p /\ proc'.todo = proc.todo
      /\ proc'.how = proc.how /\ proc'.faulty = proc.faulty
  BY <1>1 DEF ProcType
<1>3. /\ Commands(proc.todo)' = Commands(proc.todo) /\ Once(proc.todo)' = Once(proc.todo)
      /\ DelsFirst(proc.todo)' = DelsFirst(proc.todo)
  BY <1>2 DEF Commands, Once, DelsFirst
<1>4. p \notin {"remove", "rollback"}
  BY DEF Up
<1>5. ProcOK'
  BY <1>2, <1>3, <1>4, SameConfig DEF SInv, ProcOK
<1>6. KernelOK'
  BY DEF SInv, KernelOK
<1>7. Installing'
  BY <1>2, <1>3, SameConfig DEF SInv, Installing
<1> QED  BY <1>2, <1>5, <1>6, <1>7 DEF SInv

\* The deferred calls: the listener is gone, and Remove is to run.
LEMMA UnwindSets ==
    ASSUME SInv, NEW how \in {"failed", "stopped"}, NEW bad \in BOOLEAN,
           how = "failed" => bad, Unwind(how, bad), UNCHANGED <<cli, file, kernel>>
    PROVE  /\ SInv' /\ listener' = 0 /\ proc'.pc = "remove" /\ proc'.how = how
           /\ proc'.todo = (IF Forward.nft THEN Remove(Forward) ELSE <<>>)
           /\ (proc'.faulty <=> proc.faulty \/ bad)
<1> DEFINE q == IF Forward.nft THEN Remove(Forward) ELSE <<>>
           b == proc.faulty \/ bad
<1>1. /\ listener' = 0
      /\ proc' = [pc |-> "remove", how |-> how, faulty |-> b, todo |-> q]
  BY DEF Unwind
<1>2. q \in Seq(Cmds(Forward)) /\ \A d \in Commands(q) : d.op = "del"
  BY RemoveIs, Empty
<1>3. b \in BOOLEAN /\ (b <=> proc.faulty \/ bad) /\ (how = "failed" => b)
  BY DEF SInv, ProcOK, ProcType
<1> HIDE DEF q, b
<1>4. proc'.pc = "remove" /\ proc'.how = how /\ proc'.faulty = b /\ proc'.todo = q
  BY <1>1
<1>5. proc' \in ProcType
  BY <1>1, <1>2, <1>3 DEF ProcType, Pcs, Hows
<1>6. Commands(proc.todo)' = Commands(q)
  BY <1>4 DEF Commands
<1>7. ProcOK'
  BY <1>2, <1>3, <1>4, <1>5, <1>6, SameConfig DEF ProcOK, Up
<1>8. KernelOK' /\ Installing'
  BY <1>4 DEF SInv, KernelOK, Installing, Up
<1> QED  BY <1>1, <1>3, <1>4, <1>7, <1>8 DEF SInv, q

\* The fields of a process that has ended.
LEMMA OffIs ==
    ASSUME NEW how \in Hows, NEW b \in BOOLEAN
    PROVE  LET r == [Off(how) EXCEPT !.faulty = b]
           IN  /\ r.pc = "off" /\ r.todo = <<>> /\ r.how = how /\ r.faulty = b
               /\ r \in ProcType'
BY Empty, Zenon DEF Off, ProcType, Pcs

\* A start lists every command, so nothing is claimed of the kernel yet.
LEMMA StartKeeps ==
    ASSUME SInv, Start
    PROVE  SInv'
<1>1. KernelOK'
  BY DEF Start, SInv, KernelOK
<1>2. CASE proc' = [Off("failed") EXCEPT !.faulty = TRUE]
  BY <1>1, <1>2, OffIs, OffKeeps, Zenon DEF Hows
<1>3. CASE proc' = Off("invalid")
  <2>1. LET r == Off("invalid")
        IN  r.pc = "off" /\ r.todo = <<>> /\ r.how = "invalid" /\ r \in ProcType'
    BY Empty DEF Off, ProcType, Pcs, Hows
  <2> QED  BY <1>1, <1>3, <2>1, OffKeeps
<1>4. CASE proc' = [pc |-> "reconcile", how |-> "running", faulty |-> FALSE,
                    todo |-> IF Forward'.nft THEN Reconcile(Forward') ELSE <<>>]
  <2> DEFINE F == Forward'
             q == IF F.nft THEN Reconcile(F) ELSE <<>>
  <2>1. /\ q \in Seq(Cmds(F)) /\ Once(q) /\ DelsFirst(q)
        /\ Commands(q) = IF ~F.nft THEN {}
             ELSE {TableCommand("del"), TableCommand("add")}
                \cup (IF "tproxy" \in F.features THEN IPSet("del", F) \cup IPSet("add", F) ELSE {})
    BY ReconcileIs, Empty, Zenon
  <2>2. ~F.nft => q = <<>>
    OBVIOUS
  <2>3. proc' = [pc |-> "reconcile", how |-> "running", faulty |-> FALSE, todo |-> q]
    BY <1>4
  <2>4. TProxied' <=> F.nft /\ "tproxy" \in F.features
    BY DEF TProxied
  <2>5. ProcType' = [pc : Pcs, todo : Seq(Cmds(F)), how : Hows, faulty : BOOLEAN]
    BY DEF ProcType
  <2> HIDE DEF q, F
  <2>6. proc'.pc = "reconcile" /\ proc'.how = "running" /\ ~proc'.faulty /\ proc'.todo = q
    BY <2>3
  <2>7. proc' \in ProcType'
    BY <2>1, <2>3, <2>5 DEF Pcs, Up, Hows
  <2>8. /\ Commands(proc.todo)' = Commands(q) /\ Once(proc.todo)' = Once(q)
        /\ DelsFirst(proc.todo)' = DelsFirst(q)
    BY <2>6 DEF Commands, Once, DelsFirst
  <2>9. ~TProxied' => Commands(q) \cap IPSet("add", F) = {}
    BY <2>1, <2>4, CommandsDiffer DEF Ops
  <2>10. ProcOK'
    BY <2>1, <2>2, <2>6, <2>7, <2>8, <2>9 DEF ProcOK, F
  <2>11. TProxied' => IPSet("del", F) \cup IPSet("add", F) \subseteq Commands(q)
    BY <2>1, <2>4
  <2>12. \A w \in Kinds, f \in Families(F) : /\ IPCommand("add", w, f, F) \in IPSet("add", F)
                                           /\ IPCommand("del", w, f, F) \in IPSet("del", F)
    BY DEF IPSet
  <2>13. Installing'
    BY <2>8, <2>11, <2>12 DEF Installing, F
  <2> QED  BY <1>1, <2>10, <2>13 DEF SInv
<1> QED  BY <1>2, <1>3, <1>4 DEF Start

\* The process ends, by itself or killed.
LEMMA ExitKeeps ==
    ASSUME SInv, NEW how \in Hows, how = "failed" => proc.faulty, Exit(how),
           UNCHANGED <<cli, file, kernel>>
    PROVE  /\ SInv' /\ proc'.pc = "off" /\ proc'.todo = <<>> /\ proc'.how = how
           /\ proc'.faulty = proc.faulty
<1>1. KernelOK' /\ proc.faulty \in BOOLEAN
  BY DEF SInv, KernelOK, ProcOK, ProcType
<1>2. /\ proc'.pc = "off" /\ proc'.todo = <<>> /\ proc'.how = how /\ proc'.faulty = proc.faulty
      /\ proc' \in ProcType'
  BY <1>1, OffIs DEF Exit
<1> QED  BY <1>1, <1>2, OffKeeps

\* The first invariant holds before the first start.
LEMMA InitHolds == Init => SInv
<1> SUFFICES ASSUME Init PROVE SInv
  OBVIOUS
<1>1. /\ proc.pc = "off" /\ proc.todo = <<>> /\ proc.how = "never" /\ proc.faulty = FALSE
      /\ proc = [pc |-> "off", todo |-> <<>>, how |-> "never", faulty |-> FALSE]
  BY DEF Init, Off
<1>2. proc \in ProcType
  BY <1>1, Empty DEF ProcType, Pcs, Hows
<1>3. KernelOK
  BY DEF Init, KernelOK
<1> QED  BY <1>1, <1>2, <1>3 DEF SInv, ProcOK, Installing, Up

\* Every step keeps the first invariant, a start with a new configuration too.
LEMMA StaleStep == SInv /\ [Next]_vars => SInv'
<1> SUFFICES ASSUME SInv, [Next]_vars PROVE SInv'
  OBVIOUS
<1>1. CASE Start
  BY <1>1, StartKeeps
<1>2. CASE CommandOK
  BY <1>2, CommandOKKeeps
<1>3. CASE CommandFails
  BY <1>3, CommandFailsKeeps
<1>4. CASE Reconciled
  BY <1>4, GoesOn DEF Reconciled, Up
<1>5. CASE TProxyStarts
  <2>1. proc.todo = <<>> /\ proc.pc \in Up /\ UNCHANGED <<cli, file, kernel>>
    BY <1>5 DEF TProxyStarts, SInv, ProcOK, Up
  <2>2. CASE proc' = [proc EXCEPT !.pc = "listen"]
    BY <2>1, <2>2, GoesOn DEF Up
  <2>3. CASE Unwind("failed", TRUE)
    BY <2>1, <2>3, UnwindSets, Zenon
  <2> QED  BY <1>5, <2>2, <2>3, Zenon DEF TProxyStarts
<1>6. CASE Listens
  <2>1. proc.todo = <<>> /\ proc.pc \in Up /\ UNCHANGED <<cli, file, kernel>>
    BY <1>6 DEF Listens, SInv, ProcOK, Up
  <2>2. CASE proc' = [proc EXCEPT !.pc = "serving"]
    BY <2>1, <2>2, GoesOn DEF Up
  <2>3. CASE Unwind("failed", TRUE)
    BY <2>1, <2>3, UnwindSets, Zenon
  <2> QED  BY <1>6, <2>2, <2>3, Zenon DEF Listens
<1>7. CASE Signal
  <2>1. proc.todo = <<>> /\ proc.pc \in Up /\ UNCHANGED <<cli, file, kernel>>
    BY <1>7 DEF Signal, SInv, ProcOK, Up
  <2> QED  BY <1>7, <2>1, GoesOn DEF Signal, Up
<1>8. CASE Shutdown
  BY <1>8, UnwindSets, Zenon DEF Shutdown
<1>9. CASE Returns
  <2>1. proc.how \in Hows /\ (proc.how = "failed" => proc.faulty)
    BY DEF SInv, ProcOK, ProcType
  <2> QED  BY <1>9, <2>1, ExitKeeps DEF Returns
<1>10. CASE Crash
  BY <1>10, ExitKeeps DEF Crash, Hows
<1>11. CASE UNCHANGED vars
  <2>1. UNCHANGED <<cli, file, proc, kernel>>
    BY <1>11 DEF vars
  <2>2. /\ Commands(proc.todo)' = Commands(proc.todo) /\ Once(proc.todo)' = Once(proc.todo)
        /\ DelsFirst(proc.todo)' = DelsFirst(proc.todo)
    BY <2>1 DEF Commands, Once, DelsFirst
  <2>3. ProcOK'
    BY <2>1, <2>2, SameConfig DEF SInv, ProcOK
  <2>4. KernelOK'
    BY <2>1 DEF SInv, KernelOK
  <2>5. Installing'
    BY <2>1, <2>2, SameConfig, Zenon DEF SInv, Installing
  <2> QED  BY <2>3, <2>4, <2>5 DEF SInv
<1> QED  BY <1>1, <1>2, <1>3, <1>4, <1>5, <1>6, <1>7, <1>8, <1>9, <1>10, <1>11 DEF Next

\* A start fails only if something goes wrong in this very start: Reconcile copes
\* with whatever earlier runs left behind, of this or of another configuration.
THEOREM ForwardingStale == Spec => []StaleNeverBlocks
<1>1. SInv => StaleNeverBlocks
  BY DEF SInv, ProcOK, StaleNeverBlocks
<1> QED  BY <1>1, InitHolds, StaleStep, PTL DEF Spec

-----------------------------------------------------------------------------
\* A command that works does the installer's own work.
LEMMA CommandOKPosture ==
    ASSUME PInv, CommandOK
    PROVE  Ours' /\ TableUp' /\ Listener' /\ Removing'
<1> DEFINE c == Head(proc.todo)
           C == Commands(proc.todo)
           D == Commands(Tail(proc.todo))
           at == TableCommand("add")
           dt == TableCommand("del")
<1>1. /\ proc.todo # <<>> /\ kernel' = Effect(c) /\ UNCHANGED <<cli, file, listener>>
      /\ proc'.todo = Tail(proc.todo) /\ proc'.pc = proc.pc /\ proc'.faulty = proc.faulty
      /\ proc'.how = proc.how /\ Commands(proc.todo)' = D
  BY CommandOKProc DEF CommandOK, PInv, SInv, Commands
<1>2. /\ c \in Cmds(Forward) /\ C = D \cup {c} /\ proc.pc \in {"reconcile", "remove", "rollback"}
      /\ proc.pc = "reconcile" =>
           /\ Forward.nft /\ c \notin D /\ (c.op = "add" => \A d \in D : d.op = "add")
      /\ proc.pc # "reconcile" => c.op = "del"
  BY <1>1, Pop DEF PInv, SInv
<1>3. Forward' = Forward /\ (TProxied' <=> TProxied)
  BY <1>1, SameConfig
<1>4. at.op = "add" /\ dt.op = "del" /\ at # dt
  BY CommandsDiffer DEF Ops
<1>5. Listener'
  BY <1>1, <1>2, <1>3, Zenon DEF PInv, Listener
<1>6. c = at => proc.pc = "reconcile" /\ Forward.nft
  BY <1>2, <1>4
<1>7. proc.pc \in Up /\ dt \in D => at \in D
  <2> HIDE DEF c, C, D, at, dt
  <2> QED  BY <1>2, <1>4 DEF PInv, TableUp, Up, C, at, dt
<1>8. CASE \E op \in Ops : c = TableCommand(op)
  <2>1. PICK op \in Ops : c = TableCommand(op)
    BY <1>8
  <2>2. /\ \A w \in Kinds : kernel'[w] = kernel[w]
        /\ kernel'.table = IF op = "del" THEN NoTable
             ELSE buildScript(Forward) \cup (IF kernel.table = NoTable THEN {} ELSE kernel.table)
    BY <1>1, <2>1, TableEffect, Zenon DEF PInv, SInv
  <2>3. c = IF op = "del" THEN dt ELSE at
    BY <2>1 DEF Ops
  <2>4. kernel'.table = IF op = "del" THEN NoTable ELSE buildScript(Forward)
    BY <2>2, Zenon DEF PInv, Ours
  <2>5. \A w \in Kinds, f \in Families(Forward) : c # IPCommand("del", w, f, Forward)
    BY <2>1, IPOp
  <2> HIDE DEF c, C, D, at, dt
  <2>6. Ours'
    BY <1>3, <1>6, <2>2, <2>3, <2>4 DEF PInv, Ours
  <2>7. TableUp'
    <3> SUFFICES ASSUME proc.pc \in Up, Forward.nft, at \notin D
                 PROVE  kernel'.table = buildScript(Forward)
      BY <1>1, <1>3, <1>7 DEF TableUp, at, dt
    <3>1. CASE op = "del"
      BY <1>2, <1>4, <2>3, <3>1 DEF PInv, TableUp, C, at, dt
    <3>2. CASE op = "add"
      BY <2>4, <3>2
    <3> QED  BY <3>1, <3>2 DEF Ops
  <2>8. Removing'
    <3> SUFFICES ASSUME proc.pc = "remove", ~proc.faulty
                 PROVE  /\ dt \notin D => kernel'.table = NoTable
                        /\ \A w \in Kinds, f \in Families(Forward) :
                             IPCommand("del", w, f, Forward) \notin D =>
                               <<f, Forward.table>> \notin kernel'[w]
      BY <1>1, <1>2, <1>3 DEF Removing, dt
    <3>1. op = "del"
      BY <1>2, <1>4, <2>3 DEF Ops
    <3>2. kernel'.table = NoTable
      BY <2>4, <3>1
    <3>3. \A w \in Kinds, f \in Families(Forward) :
             IPCommand("del", w, f, Forward) \notin D => <<f, Forward.table>> \notin kernel'[w]
      BY <1>2, <2>2, <2>5 DEF PInv, Removing, C
    <3> QED  BY <3>2, <3>3
  <2> QED  BY <1>5, <2>6, <2>7, <2>8
<1>9. CASE \E op \in Ops, v \in Kinds, g \in Families(Forward) : c = IPCommand(op, v, g, Forward)
  <2>1. PICK op \in Ops, v \in Kinds, g \in Families(Forward) : c = IPCommand(op, v, g, Forward)
    BY <1>9
  <2>2. /\ kernel'.table = kernel.table
        /\ kernel'[v] = IF op = "del" THEN kernel[v] \ {<<g, Forward.table>>}
                        ELSE kernel[v] \cup {<<g, Forward.table>>}
        /\ \A w \in Kinds : w # v => kernel'[w] = kernel[w]
    <3>1. KernelOK /\ kernel' = Effect(IPCommand(op, v, g, Forward))
      BY <1>1, <2>1, Zenon DEF PInv, SInv
    <3> QED  BY <3>1, IPEffect, Zenon
  <2>3. c # at /\ c # dt /\ c.op = op
    BY <2>1, IPOp
  <2>4. op = "add" => TProxied
    <3>1. op = "add" => c \in IPSet("add", Forward) /\ proc.pc = "reconcile"
      BY <1>2, <2>1, <2>3 DEF IPSet
    <3> QED  BY <1>2, <3>1 DEF PInv, SInv, ProcOK, Up
  <2>5. \A w \in Kinds : \A x \in kernel'[w] :
          x \in kernel[w] \/ (op = "add" /\ x = <<g, Forward.table>>)
    BY <2>2 DEF Ops
  <2> HIDE DEF c, C, D, at, dt
  <2>6. Ours'
    BY <1>3, <2>2, <2>4, <2>5 DEF PInv, Ours
  <2>7. TableUp'
    BY <1>1, <1>2, <1>3, <1>7, <2>2, <2>3, Zenon DEF PInv, TableUp, C, at, dt
  <2>8. Removing'
    <3> SUFFICES ASSUME proc.pc = "remove", ~proc.faulty
                 PROVE  /\ dt \notin D => kernel'.table = NoTable
                        /\ \A w \in Kinds, f \in Families(Forward) :
                             IPCommand("del", w, f, Forward) \notin D =>
                               <<f, Forward.table>> \notin kernel'[w]
      BY <1>1, <1>2, <1>3, Zenon DEF Removing, dt
    <3>1. op = "del"
      BY <1>2, <2>3 DEF Ops
    <3>2. dt \notin D => kernel'.table = NoTable
      BY <1>2, <2>2, <2>3, Zenon DEF PInv, Removing, C, dt
    <3>3. ASSUME NEW w \in Kinds, NEW f \in Families(Forward),
                 IPCommand("del", w, f, Forward) \notin D
          PROVE  <<f, Forward.table>> \notin kernel'[w]
      <4>1. CASE IPCommand("del", w, f, Forward) = c
        <5>1. w = v /\ f = g
          BY <2>1, <4>1, DistinctIP
        <5> QED  BY <2>2, <3>1, <5>1
      <4>2. CASE IPCommand("del", w, f, Forward) # c
        <5>1. <<f, Forward.table>> \notin kernel[w]
          BY <1>2, <3>3, <4>2 DEF PInv, Removing, C
        <5> QED  BY <2>5, <3>1, <5>1
      <4> QED  BY <4>1, <4>2, Zenon
    <3> QED  BY <3>2, <3>3
  <2> QED  BY <1>5, <2>6, <2>7, <2>8
<1> QED  BY <1>2, <1>8, <1>9, CommandCases

\* A deletion that fails without a fault had nothing to delete.
LEMMA DeletionFailsPosture ==
    ASSUME PInv, CommandFails, Head(proc.todo).op = "del"
    PROVE  Ours' /\ TableUp' /\ Listener' /\ Removing'
<1> DEFINE c == Head(proc.todo)
           t == Tail(proc.todo)
           C == Commands(proc.todo)
           D == Commands(t)
           b == proc.faulty \/ Works(c)
           at == TableCommand("add")
           dt == TableCommand("del")
<1>1. /\ proc.todo # <<>> /\ UNCHANGED <<cli, file, kernel, listener>>
      /\ proc' = [proc EXCEPT !.todo = t, !.faulty = b]
  BY DEF CommandFails
<1>2. proc \in ProcType /\ t \in Seq(Cmds(Forward)) /\ b \in BOOLEAN
  BY <1>1, Pop DEF ProcOK, SInv, PInv, ProcType
<1>3. /\ c \in Cmds(Forward) /\ C = D \cup {c} /\ c.op = "del"
      /\ proc.pc \in {"reconcile", "remove", "rollback"}
  BY <1>1, Pop DEF PInv, SInv
<1>4. b <=> proc.faulty \/ Works(c)
  OBVIOUS
<1> HIDE DEF b, t
<1>5. /\ proc'.todo = t /\ proc'.pc = proc.pc /\ proc'.how = proc.how /\ proc'.faulty = b
      /\ Commands(proc.todo)' = D
  BY <1>1, <1>2 DEF ProcType, Commands
<1>6. Forward' = Forward /\ (TProxied' <=> TProxied)
  BY <1>1, SameConfig
<1>7. at.op = "add"
  BY CommandsDiffer DEF Ops
<1>8. Ours'
  BY <1>1, <1>6 DEF PInv, Ours
<1>9. Listener'
  BY <1>1, <1>3, <1>5, <1>6 DEF PInv, Listener
<1> HIDE DEF c, C, D, at, dt
<1>10. TableUp'
  <2>1. at # c
    BY <1>3, <1>7
  <2> QED  BY <1>1, <1>3, <1>5, <1>6, <2>1 DEF PInv, TableUp, C, at, dt
<1>11. Removing'
  <2> SUFFICES ASSUME proc.pc = "remove", ~b
               PROVE  /\ dt \notin D => kernel.table = NoTable
                      /\ \A w \in Kinds, f \in Families(Forward) :
                           IPCommand("del", w, f, Forward) \notin D =>
                             <<f, Forward.table>> \notin kernel[w]
    BY <1>1, <1>3, <1>5, <1>6 DEF Removing, dt
  <2>1. /\ dt \notin C => kernel.table = NoTable
        /\ \A w \in Kinds, f \in Families(Forward) :
             IPCommand("del", w, f, Forward) \notin C => <<f, Forward.table>> \notin kernel[w]
    BY <1>4 DEF PInv, Removing, C, dt
  <2>2. dt \notin D => kernel.table = NoTable
    BY <1>3, <1>4, <2>1, WorksMeans DEF dt
  <2>3. \A w \in Kinds, f \in Families(Forward) :
          IPCommand("del", w, f, Forward) \notin D => <<f, Forward.table>> \notin kernel[w]
    BY <1>3, <1>4, <2>1, WorksMeans
  <2> QED  BY <2>2, <2>3
<1> QED  BY <1>8, <1>9, <1>10, <1>11

\* An addition that fails leaves the kernel and ends the installation.
LEMMA AdditionFailsPosture ==
    ASSUME PInv, CommandFails, Head(proc.todo).op = "add"
    PROVE  Ours' /\ TableUp' /\ Listener' /\ Removing'
<1>1. /\ UNCHANGED <<cli, file, kernel, listener>> /\ proc.todo # <<>>
      /\ proc'.pc = "rollback" /\ proc'.how = "failed"
  BY DEF CommandFails
<1>2. proc.pc = "reconcile"
  BY <1>1, Pop, Zenon DEF PInv, SInv
<1>3. Forward' = Forward /\ (TProxied' <=> TProxied)
  BY <1>1, SameConfig
<1>4. Ours'
  BY <1>1, <1>3 DEF PInv, Ours
<1>5. Listener'
  BY <1>1, <1>2, <1>3 DEF PInv, Listener
<1>6. TableUp' /\ Removing'
  BY <1>1 DEF TableUp, Removing, Up
<1> QED  BY <1>4, <1>5, <1>6

\* The deferred Remove has everything to take down on its list.
LEMMA UnwindPosture ==
    ASSUME PInv, NEW how \in {"failed", "stopped"}, NEW bad \in BOOLEAN,
           how = "failed" => bad, Unwind(how, bad), UNCHANGED <<cli, file, kernel>>
    PROVE  PInv'
<1>1. /\ SInv' /\ listener' = 0 /\ proc'.pc = "remove"
      /\ proc'.todo = (IF Forward.nft THEN Remove(Forward) ELSE <<>>)
  BY UnwindSets DEF PInv
<1>2. Forward' = Forward /\ (TProxied' <=> TProxied)
  BY SameConfig
<1>3. Commands(proc.todo)' = IF Forward.nft
        THEN {TableCommand("del")} \cup (IF "tproxy" \in Forward.features THEN IPSet("del", Forward) ELSE {})
        ELSE {}
  <2>1. Commands(proc.todo)' = Commands(IF Forward.nft THEN Remove(Forward) ELSE <<>>)
    BY <1>1 DEF Commands
  <2> QED  BY <2>1, RemoveIs, Empty, Zenon
<1>4. Ours'
  BY <1>2 DEF PInv, Ours
<1>5. Listener' /\ TableUp' /\ Started'
  BY <1>1 DEF PInv, Listener, TableUp, Up, Started
<1>6. ~Forward.nft => kernel.table = NoTable
  BY DEF PInv, Ours
<1>7. ~TProxied => \A w \in Kinds : kernel[w] = {}
  BY DEF PInv, Ours
<1>8. TProxied => Commands(proc.todo)' = {TableCommand("del")} \cup IPSet("del", Forward)
  BY <1>3 DEF TProxied
<1>9. \A w \in Kinds, f \in Families(Forward) :
        TProxied => IPCommand("del", w, f, Forward) \in Commands(proc.todo)'
  BY <1>8 DEF IPSet
<1>10. Removing'
  BY <1>1, <1>2, <1>3, <1>6, <1>7, <1>9, Zenon DEF Removing
<1> QED  BY <1>1, <1>4, <1>5, <1>10 DEF PInv

\* Between commands Run goes on with the kernel as it is.
LEMMA GoesOnPosture ==
    ASSUME PInv, proc.pc \in Up, proc.todo = <<>>, NEW p \in Up, p # "reconcile",
           proc' = [proc EXCEPT !.pc = p], UNCHANGED <<cli, file, kernel>>, Listener'
    PROVE  PInv'
<1>1. /\ SInv' /\ proc'.pc = p /\ proc'.todo = <<>>
  BY GoesOn DEF PInv
<1>2. Forward' = Forward /\ (TProxied' <=> TProxied)
  BY SameConfig
<1>3. Commands(proc.todo)' = Commands(proc.todo)
  BY <1>1 DEF Commands
<1>4. Ours' /\ Started'
  BY <1>2 DEF PInv, Ours, Started
<1>5. TableUp'
  BY <1>2, <1>3 DEF PInv, TableUp
<1>6. Removing'
  BY <1>1 DEF Removing, Up
<1> QED  BY <1>1, <1>4, <1>5, <1>6 DEF PInv

\* A new start with the same configuration finds only what is its own.
LEMMA StartPosture ==
    ASSUME PInv, Start, ~MayReconfigure
    PROVE  PInv'
<1>1. UNCHANGED <<cli, file, kernel, listener>> /\ proc.pc = "off"
  BY DEF Start
<1>2. Forward' = Forward /\ (TProxied' <=> TProxied)
  BY <1>1, SameConfig
<1>3. SInv'
  BY StartKeeps DEF PInv
<1>4. Ours' /\ Started'
  BY <1>1, <1>2 DEF PInv, Ours, Started
<1>5. \/ proc'.pc = "off" /\ proc'.how # "stopped"
      \/ proc'.pc = "reconcile" /\ proc'.todo = (IF Forward'.nft THEN Reconcile(Forward') ELSE <<>>)
  BY DEF Start, Off
<1>6. Listener'
  BY <1>1, <1>5 DEF PInv, Listener
<1>7. Removing'
  BY <1>5 DEF Removing
<1>8. TableUp'
  <2> SUFFICES ASSUME proc'.pc \in Up, Forward.nft
               PROVE  TableCommand("add") \in Commands(proc.todo)'
    BY <1>2 DEF TableUp
  <2>1. Commands(proc.todo)' = Commands(Reconcile(Forward))
    BY <1>2, <1>5 DEF Up, Commands
  <2> QED  BY <2>1, ReconcileIs
<1> QED  BY <1>3, <1>4, <1>6, <1>7, <1>8 DEF PInv

\* The kernel survives the process.
LEMMA ExitPosture ==
    ASSUME PInv, NEW how \in Hows, how = "failed" => proc.faulty, Exit(how),
           UNCHANGED <<cli, file, kernel>>, listener' = 0,
           how = "stopped" => proc.pc = "remove" /\ proc.todo = <<>>
    PROVE  PInv'
<1>1. /\ SInv' /\ proc'.pc = "off" /\ proc'.todo = <<>> /\ proc'.how = how
      /\ proc'.faulty = proc.faulty
  BY ExitKeeps DEF PInv
<1>2. Forward' = Forward /\ (TProxied' <=> TProxied)
  BY SameConfig
<1>3. Ours' /\ Started'
  BY <1>2 DEF PInv, Ours, Started
<1>4. Listener' /\ TableUp'
  BY <1>1 DEF Listener, TableUp, Up
<1>5. Removing'
  <2>1. how = "stopped" => Commands(proc.todo)' = Commands(proc.todo)
    BY <1>1 DEF Commands
  <2> QED  BY <1>1, <1>2, <2>1, Zenon DEF PInv, Removing
<1> QED  BY <1>1, <1>3, <1>4, <1>5 DEF PInv

\* The second invariant holds before the first start.
LEMMA PostureInit == Init => PInv
<1> SUFFICES ASSUME Init PROVE PInv
  OBVIOUS
<1>1. proc.pc = "off" /\ proc.how = "never" /\ listener = 0
  BY DEF Init, Off
<1>2. kernel.table = NoTable /\ kernel["rule"] = {} /\ kernel["route"] = {}
  BY DEF Init
<1>3. Ours
  BY <1>2 DEF Ours, Kinds
<1>4. Started
  BY DEF Init, Started
<1>5. TableUp /\ Listener /\ Removing
  BY <1>1 DEF TableUp, Listener, Removing, Up
<1> QED  BY <1>3, <1>4, <1>5, InitHolds DEF PInv

\* Every step keeps the second invariant if a start has the same configuration.
LEMMA PostureStep ==
    ASSUME ~MayReconfigure
    PROVE  PInv /\ [Next]_vars => PInv'
<1> SUFFICES ASSUME PInv, [Next]_vars PROVE PInv'
  OBVIOUS
<1>1. CASE Start
  BY <1>1, StartPosture
<1>2. CASE CommandOK
  <2>1. SInv' /\ Started'
    BY <1>2, CommandOKKeeps DEF PInv, Started, CommandOK
  <2> QED  BY <1>2, <2>1, CommandOKPosture DEF PInv
<1>3. CASE CommandFails
  <2>1. SInv' /\ Started'
    BY <1>3, CommandFailsKeeps DEF PInv, Started, CommandFails
  <2>2. Head(proc.todo).op \in Ops
    <3>1. Head(proc.todo) \in Cmds(Forward)
      BY <1>3, Pop DEF PInv, SInv, CommandFails
    <3> QED  BY <3>1, CommandsDiffer DEF Cmds, Ops
  <2> QED  BY <1>3, <2>1, <2>2, DeletionFailsPosture, AdditionFailsPosture DEF PInv, Ops
<1>4. CASE Reconciled
  <2>1. /\ proc.pc = "reconcile" /\ proc.todo = <<>> /\ proc' = [proc EXCEPT !.pc = "tproxy"]
        /\ UNCHANGED <<cli, file, listener, kernel>>
    BY <1>4 DEF Reconciled
  <2>2. proc'.pc = "tproxy"
    BY <2>1, GoesOn DEF PInv, Up
  <2>3. Listener'
    BY <2>1, <2>2 DEF PInv, Listener
  <2> QED  BY <2>1, <2>3, GoesOnPosture DEF Up
<1>5. CASE TProxyStarts
  <2>1. proc.pc = "tproxy" /\ proc.todo = <<>> /\ proc.pc \in Up /\ UNCHANGED <<cli, file, kernel>>
    BY <1>5 DEF TProxyStarts, PInv, SInv, ProcOK, Up
  <2>2. CASE /\ listener' = IF Forward.tproxy THEN ListenPort(Forward) ELSE 0
             /\ proc' = [proc EXCEPT !.pc = "listen"]
    <3>1. proc'.pc = "listen"
      BY <2>1, <2>2, GoesOn DEF PInv, Up
    <3>2. Listener'
      BY <2>1, <2>2, <3>1, SameConfig DEF Listener
    <3> QED  BY <2>1, <2>2, <3>2, GoesOnPosture DEF Up
  <2>3. CASE Unwind("failed", TRUE)
    BY <2>1, <2>3, UnwindPosture, Zenon
  <2> QED  BY <1>5, <2>2, <2>3, Zenon DEF TProxyStarts
<1>6. CASE Listens
  <2>1. proc.pc = "listen" /\ proc.todo = <<>> /\ proc.pc \in Up /\ UNCHANGED <<cli, file, kernel>>
    BY <1>6 DEF Listens, PInv, SInv, ProcOK, Up
  <2>2. CASE proc' = [proc EXCEPT !.pc = "serving"] /\ UNCHANGED listener
    <3>1. proc'.pc = "serving"
      BY <2>1, <2>2, GoesOn DEF PInv, Up
    <3>2. Listener'
      BY <2>1, <2>2, <3>1, SameConfig DEF PInv, Listener
    <3> QED  BY <2>1, <2>2, <3>2, GoesOnPosture DEF Up
  <2>3. CASE Unwind("failed", TRUE)
    BY <2>1, <2>3, UnwindPosture, Zenon
  <2> QED  BY <1>6, <2>2, <2>3, Zenon DEF Listens
<1>7. CASE Signal
  <2>1. /\ proc.pc = "serving" /\ proc.todo = <<>> /\ proc.pc \in Up
        /\ UNCHANGED <<cli, file, kernel, listener>> /\ proc' = [proc EXCEPT !.pc = "cancelled"]
    BY <1>7 DEF Signal, PInv, SInv, ProcOK, Up
  <2>2. proc'.pc = "cancelled"
    BY <2>1, GoesOn DEF PInv, Up
  <2>3. Listener'
    BY <2>1, <2>2, SameConfig DEF PInv, Listener
  <2> QED  BY <2>1, <2>3, GoesOnPosture DEF Up
<1>8. CASE Shutdown
  BY <1>8, UnwindPosture, Zenon DEF Shutdown
<1>9. CASE Returns
  <2>1. /\ proc.how \in Hows /\ (proc.how = "failed" => proc.faulty)
        /\ proc.pc \in {"remove", "rollback"} /\ proc.todo = <<>> /\ Exit(proc.how)
        /\ UNCHANGED <<cli, file, kernel, listener>>
    BY <1>9 DEF PInv, SInv, ProcOK, ProcType, Returns
  <2>2. listener' = 0
    BY <2>1 DEF PInv, Listener
  <2>3. proc.how = "stopped" => proc.pc = "remove"
    BY <2>1, Zenon DEF PInv, SInv, ProcOK
  <2> QED  BY <2>1, <2>2, <2>3, ExitPosture
<1>10. CASE Crash
  BY <1>10, ExitPosture DEF Crash, Hows
<1>11. CASE UNCHANGED vars
  <2>1. UNCHANGED <<cli, file, proc, kernel, listener>>
    BY <1>11 DEF vars
  <2>2. Commands(proc.todo)' = Commands(proc.todo) /\ SInv'
    BY <1>11, <2>1, StaleStep DEF PInv, Commands
  <2>3. Ours' /\ Started' /\ Listener'
    BY <2>1, SameConfig DEF PInv, Ours, Started, Listener
  <2>4. TableUp' /\ Removing'
    BY <2>1, <2>2, SameConfig, Zenon DEF PInv, TableUp, Removing
  <2> QED  BY <2>1, <2>2, <2>3, <2>4 DEF PInv
<1> QED  BY <1>1, <1>2, <1>3, <1>4, <1>5, <1>6, <1>7, <1>8, <1>9, <1>10, <1>11 DEF Next

-----------------------------------------------------------------------------
\* The fields of the installer's configuration, from the file.
LEMMA ForwardIs ==
    /\ Forward.nft = Override(file.nft, file.forward # {})
    /\ Forward.features = file.forward
    /\ Forward.redirect = (IF file.redirectPort = 0 THEN defaultPort ELSE file.redirectPort)
    /\ Forward.tproxy = Override(file.tproxy, "tproxy" \in file.forward)
    /\ Forward.listen = (IF file.listenPort # 0 THEN file.listenPort ELSE file.redirectPort)
BY Zenon DEF Forward, Installer, ApplyServer, applyForward

\* The listener is on and on the port of the rules.
LEMMA ListenerMatches ==
    ASSUME PortsAgree(file), TProxied
    PROVE  Forward.tproxy /\ ListenPort(Forward) = Forward.redirect
<1>1. Override(file.nft, file.forward # {}) /\ "tproxy" \in file.forward
  BY ForwardIs DEF TProxied
<1>2. /\ Override(file.tproxy, TRUE)
      /\ file.listenPort \in {0, IF file.redirectPort = 0 THEN defaultPort ELSE file.redirectPort}
  BY <1>1, Zenon DEF PortsAgree
<1>3. Forward.tproxy
  BY <1>1, <1>2, ForwardIs, Zenon DEF Override
<1>4. defaultPort # 0
  BY DEF defaultPort
<1> QED  BY <1>2, <1>3, <1>4, ForwardIs DEF ListenPort

\* Nothing is left to run, so everything asked for is there, and nothing else.
LEMMA InvPosture ==
    ASSUME PInv, \A fc \in Files : PortsAgree(fc)
    PROVE  PostureExact
<1> SUFFICES ASSUME proc.pc \in {"serving", "cancelled"}
             PROVE  /\ kernel = Asked
                    /\ \A r \in kernel.table : r[1] = "redirect" => listener = r[3]
  BY DEF PostureExact
<1>1. proc.todo = <<>> /\ proc.pc \in Up /\ Commands(proc.todo) = {}
  BY Empty DEF PInv, SInv, ProcOK, Up
<1>2. kernel.table = IF Forward.nft THEN buildScript(Forward) ELSE NoTable
  BY <1>1 DEF PInv, TableUp, Ours
<1>3. \A w \in Kinds : kernel[w] = IF TProxied THEN Families(Forward) \X {Forward.table} ELSE {}
  <2>1. \A w \in Kinds : TProxied => \A f \in Families(Forward) : <<f, Forward.table>> \in kernel[w]
    BY <1>1, Zenon DEF PInv, SInv, Installing
  <2>2. \A w \in Kinds : \A x \in kernel[w] :
          TProxied /\ \E f \in Families(Forward) : x = <<f, Forward.table>>
    BY Zenon DEF PInv, Ours
  <2>3. \A x : x \in Families(Forward) \X {Forward.table}
                <=> \E f \in Families(Forward) : x = <<f, Forward.table>>
    OBVIOUS
  <2> DEFINE R == Families(Forward) \X {Forward.table}
  <2>4. \A w \in Kinds : \A x : x \in kernel[w] <=> TProxied /\ x \in R
    BY <2>1, <2>2, <2>3
  <2> HIDE DEF R
  <2>5. CASE TProxied
    BY <2>4, <2>5, Zenon DEF R
  <2>6. CASE ~TProxied
    BY <2>4, <2>6, Zenon
  <2> QED  BY <2>5, <2>6
<1>4. kernel = [table |-> kernel.table, rule |-> kernel["rule"], route |-> kernel["route"]]
  BY DEF PInv, SInv, KernelOK
<1>5. kernel = Asked
  BY <1>2, <1>3, <1>4 DEF Asked, TProxied, Kinds
<1>6. ASSUME NEW r \in kernel.table, r[1] = "redirect"
      PROVE  listener = r[3]
  <2>1. Forward.nft
    <3>1. <<"no table">>[1] # "redirect"
      OBVIOUS
    <3>2. ~Forward.nft => r = <<"no table">>
      BY <1>2, Zenon DEF NoTable
    <3> QED  BY <1>6, <3>1, <3>2, Zenon
  <2>2. "tproxy" \in Forward.features /\ r[3] = Forward.redirect
    BY <1>2, <1>6, <2>1 DEF buildScript
  <2>3. Forward.tproxy /\ ListenPort(Forward) = Forward.redirect
    BY <2>1, <2>2, ListenerMatches DEF TProxied, PInv, Started
  <2> QED  BY <2>2, <2>3 DEF PInv, Listener
<1> QED  BY <1>5, <1>6

\* Nothing is left to delete, so nothing is there.
LEMMA InvNothingLeft == PInv => NothingLeft
<1> SUFFICES ASSUME PInv, proc.pc = "off", proc.how = "stopped", ~proc.faulty
             PROVE  kernel = [table |-> NoTable, rule |-> {}, route |-> {}] /\ listener = 0
  BY DEF NothingLeft
<1>1. Commands(proc.todo) = {}
  BY Empty DEF PInv, SInv, ProcOK
<1>2. kernel.table = NoTable
  BY <1>1 DEF PInv, Removing
<1>3. \A w \in Kinds : kernel[w] = {}
  BY <1>1 DEF PInv, Removing, Ours
<1>4. kernel = [table |-> kernel.table, rule |-> kernel["rule"], route |-> kernel["route"]]
  BY DEF PInv, SInv, KernelOK
<1>5. listener = 0
  BY DEF PInv, Listener
<1> QED  BY <1>2, <1>3, <1>4, <1>5 DEF Kinds

\* While the configuration stays the same and its file keeps redirection and
\* listener together, the kernel holds exactly what it asks for from the first
\* connection to the last, whatever crashes and faults came before (Server.Run).
THEOREM ForwardingPosture ==
    ASSUME ~MayReconfigure, \A fc \in Files : PortsAgree(fc)
    PROVE  Spec => []PostureExact
<1>1. PInv => PostureExact
  BY InvPosture
<1>2. PInv /\ [Next]_vars => PInv'
  BY PostureStep
<1> QED  BY <1>1, <1>2, PostureInit, PTL DEF Spec

\* While the configuration stays the same, a Run that returns after a signal and
\* whose commands work has left nothing in the kernel (its deferred calls).  That a
\* server with a pool returns at all is not claimed.
THEOREM ForwardingNothingLeft ==
    ASSUME ~MayReconfigure
    PROVE  Spec => []NothingLeft
<1>1. PInv /\ [Next]_vars => PInv'
  BY PostureStep
<1> QED  BY <1>1, InvNothingLeft, PostureInit, PTL DEF Spec
=============================================================================
