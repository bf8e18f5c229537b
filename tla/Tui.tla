-------------------------------- MODULE Tui --------------------------------
(***************************************************************************)
(* The event loop of the terminal interface (internal/tui): Update handles *)
(* one message at a time, a key or the result of a command, while the      *)
(* commands it started run concurrently and report in any order.           *)
(*                                                                         *)
(* Two things make it delicate.  The model is a value, so the closure of a *)
(* confirm dialog returns the model as it was when the dialog opened.  And *)
(* the command log is a Go slice: copies of the model share its array      *)
(* until an append finds it full.  heap holds the arrays, log the headers. *)
(*                                                                         *)
(* What the commands do to the VMs is the subject of other modules; others *)
(* change them too, so here a list that comes back is any list.  It has no *)
(* more than the VMs' numbers: a key whose effect depends on the state or  *)
(* the address of the VM may do either.                                    *)
(***************************************************************************)
EXTENDS Naturals, Sequences, FiniteSets

CONSTANTS
  NumVMs,      \* VMs are numbered, and listed in that order
  MaxOps,      \* bound on the log entries of a behaviour
  MaxFlight    \* bound on the commands under way at a time

ASSUME TuiAssumption ==
  NumVMs \in Nat /\ MaxOps \in Nat /\ MaxFlight \in Nat

VMs == 1 .. NumVMs

VARIABLES
  heap,      \* the arrays behind the log's slices
  m,         \* the model: vms, cursor, focus, log, logCursor
  mode,      \* m.mode, "quit", or "panic" once an index is out of range
  dialog,    \* confirmAction, while it asks: the command, and the model captured
  flight,    \* the commands that were started and not yet reported
  ops,       \* how many log entries there have been, which numbers them
  connects   \* no ssh session fails in this behaviour; else any may

vars == <<heap, m, mode, dialog, flight, ops, connects>>

Modes    == {"list", "create", "bridge", "playbook", "output", "confirm", "quit", "panic"}
Commands == {"refresh", "ssh", "create", "power", "stop", "delete", "playbook", "bridge"}
NoEntry  == [op |-> 0, status |-> "none"]
NoDialog == [what |-> "none"]

\* A command that has a log entry is known by it; of the others at most one of
\* a kind is under way.
Command(id, what, v, idx) == [op |-> id, what |-> what, vm |-> v, idx |-> idx]
Refresh == Command(0, "refresh", 0, 0)
Session == Command(0, "ssh", 0, 0)

\* The program starts with a refresh under way.
Init ==
  /\ heap = <<>>
  /\ m = [vms |-> <<>>, cursor |-> 0, focus |-> "vms",
          log |-> [arr |-> 0, len |-> 0], logCursor |-> 0]
  /\ mode = "list"
  /\ dialog = NoDialog
  /\ flight = {Refresh}
  /\ ops = 0
  /\ connects \in BOOLEAN

Entry == [op : 0 .. MaxOps, status : {"none", "running", "ended"}]
IsModel(x) ==
  /\ x.vms \in Seq(VMs) /\ Len(x.vms) <= NumVMs
  /\ x.cursor \in Nat /\ x.logCursor \in Nat
  /\ x.focus \in {"vms", "log"}
  /\ x.log.arr \in 0 .. Len(heap)
  /\ x.log.len \in 0 .. (IF x.log.arr = 0 THEN 0 ELSE Len(heap[x.log.arr]))
IsCommand(c) == /\ c.op \in 0 .. ops /\ c.what \in Commands
                /\ c.vm \in VMs \cup {0} /\ c.idx \in 0 .. MaxOps

TypeOK ==
  /\ heap \in Seq(Seq(Entry))
  /\ IsModel(m)
  /\ mode \in Modes
  /\ dialog # NoDialog => dialog.what \in Commands /\ IsModel(dialog.base)
  /\ \A c \in flight : IsCommand(c)
  /\ ops \in 0 .. MaxOps
  /\ connects \in BOOLEAN

-----------------------------------------------------------------------------
(* The log: append on a slice                                              *)

Room(log) == IF log.arr = 0 THEN 0 ELSE Len(heap[log.arr])

\* x with an entry more; in place when there is room, else in an array of
\* twice the size.
Appended(x) ==
  IF x.log.len < Room(x.log) THEN [x EXCEPT !.log.len = @ + 1]
  ELSE [x EXCEPT !.log = [arr |-> Len(heap) + 1, len |-> x.log.len + 1]]

Stored(log, e) ==
  IF log.len < Room(log) THEN [heap EXCEPT ![log.arr][log.len + 1] = e]
  ELSE Append(heap, [i \in 1 .. (IF log.len = 0 THEN 1 ELSE 2 * log.len) |->
                       IF i <= log.len THEN heap[log.arr][i]
                       ELSE IF i = log.len + 1 THEN e ELSE NoEntry])

\* addLog on the model x, with a status.
AddLog(x, status) ==
  /\ ops < MaxOps
  /\ ops' = ops + 1
  /\ m' = Appended(x)
  /\ heap' = Stored(x.log, [op |-> ops + 1, status |-> status])

\* Broken: the index of the entry is the length of the log before it.
Launch_Before(x, what, v) ==
  /\ AddLog(x, "running")
  /\ flight' = flight \cup {Command(ops + 1, what, v, x.log.len)}

\* addLog and the command that reports to the entry
Launch(x, what, v) ==
  /\ AddLog(x, "running")
  /\ Cardinality(flight) < MaxFlight
  /\ flight' = flight \cup {Command(ops + 1, what, v, x.log.len + 1)}

-----------------------------------------------------------------------------
(* Keys                                                                    *)

Selected   == m.vms[m.cursor + 1]
OnVMs      == mode = "list" /\ m.focus = "vms"
OnSelected == OnVMs /\ m.vms # <<>>
Keep       == UNCHANGED <<heap, flight, ops>>

Tab == /\ mode = "list"
       /\ m' = [m EXCEPT !.focus = IF @ = "vms" THEN "log" ELSE "vms"]
       /\ UNCHANGED <<mode, dialog>> /\ Keep

Up == /\ mode = "list"
      /\ \/ m.focus = "vms" /\ m.cursor > 0 /\ m' = [m EXCEPT !.cursor = @ - 1]
         \/ m.focus = "log" /\ m.logCursor > 0 /\ m' = [m EXCEPT !.logCursor = @ - 1]
      /\ UNCHANGED <<mode, dialog>> /\ Keep

Down == /\ mode = "list"
        /\ \/ /\ m.focus = "vms" /\ m.cursor + 1 < Len(m.vms)
              /\ m' = [m EXCEPT !.cursor = @ + 1]
           \/ /\ m.focus = "log" /\ m.logCursor + 1 < m.log.len
              /\ m' = [m EXCEPT !.logCursor = @ + 1]
        /\ UNCHANGED <<mode, dialog>> /\ Keep

\* enter on an entry that has output
ShowOutput == /\ mode = "list" /\ m.focus = "log" /\ m.log.len > 0
              /\ heap[m.log.arr][m.logCursor + 1].status # "running"
              /\ mode' = "output"
              /\ UNCHANGED <<m, dialog>> /\ Keep

SSH ==
  /\ OnSelected
  /\ \/ /\ Cardinality(flight) < MaxFlight
        /\ flight' = flight \cup {Session}
        /\ UNCHANGED <<m, heap, ops>>
     \/ AddLog(m, "ended") /\ UNCHANGED flight     \* no address, or no command
  /\ UNCHANGED <<mode, dialog>>

RefreshKey == /\ mode = "list"
              /\ Cardinality(flight) < MaxFlight
              /\ flight' = flight \cup {Refresh}
              /\ UNCHANGED <<heap, m, mode, dialog, ops>>

EnterCreate == OnVMs /\ mode' = "create" /\ UNCHANGED <<m, dialog>> /\ Keep

EnterPlaybook == /\ OnSelected
                 /\ mode' = "playbook"
                 /\ UNCHANGED <<m, dialog>> /\ Keep

\* runLifecycle: "s" on a VM that is off, and "a"
PowerKey == /\ OnSelected
            /\ Launch(m, "power", Selected)
            /\ UNCHANGED <<mode, dialog>>

\* The closure of the dialog keeps the model of this moment.
Ask(what, v) == /\ dialog' = [what |-> what, vm |-> v, base |-> m]
                /\ mode' = "confirm"
                /\ UNCHANGED m /\ Keep

AskStop   == OnSelected /\ Ask("stop", Selected)
AskDelete == OnSelected /\ Ask("delete", Selected)

\* Broken: the closure acts on the selection of the moment of the answer.
Yes_OnSelected ==
  /\ mode = "confirm"
  /\ LET v == IF dialog.what = "bridge" \/ m.vms = <<>> THEN dialog.vm ELSE Selected
     IN  Launch(m, dialog.what, v)
  /\ mode' = "list"
  /\ dialog' = NoDialog

\* confirmAction: on the model that the dialog captured
Yes == /\ mode = "confirm"
       /\ Launch(dialog.base, dialog.what, dialog.vm)
       /\ mode' = "list"
       /\ dialog' = NoDialog

Submit == /\ mode = "create"
          /\ Launch(m, "create", 0)
          /\ mode' = "list"
          /\ UNCHANGED dialog

EnterBridge  == mode = "create" /\ mode' = "bridge" /\ UNCHANGED <<m, dialog>> /\ Keep
SubmitBridge == mode = "bridge" /\ Ask("bridge", 0)

RunPlaybook == /\ mode = "playbook"
               /\ Launch(m, "playbook", Selected)
               /\ mode' = "list"
               /\ UNCHANGED dialog

\* esc, "n"
Cancel == /\ mode \in {"create", "bridge", "playbook", "output", "confirm"}
          /\ mode' = IF mode = "bridge" THEN "create" ELSE "list"
          /\ dialog' = NoDialog
          /\ UNCHANGED m /\ Keep

Quit == /\ mode \in {"list", "create", "bridge", "playbook"}
        /\ mode' = "quit" /\ flight' = {}
        /\ UNCHANGED <<heap, m, dialog, ops>>

Key == \/ Tab \/ Up \/ Down \/ ShowOutput \/ SSH \/ RefreshKey \/ EnterCreate
       \/ EnterPlaybook \/ PowerKey \/ AskStop \/ AskDelete \/ Yes \/ Submit
       \/ EnterBridge \/ SubmitBridge \/ RunPlaybook \/ Cancel \/ Quit

-----------------------------------------------------------------------------
(* The messages of the commands, each from a goroutine of its own          *)

\* Manager.List: of the VMs there are, nil when there is none or it fails.
Lists == {vms \in UNION {[1 .. n -> VMs] : n \in 0 .. NumVMs} :
            \A i, j \in DOMAIN vms : i < j => vms[i] < vms[j]}

Alive == mode \notin {"quit", "panic"}

\* Broken: clamps the cursor when there is no VM too.
Replaced_Below(vms) ==
  [m EXCEPT !.vms = vms, !.cursor = IF @ >= Len(vms) THEN Len(vms) - 1 ELSE @]

\* m.vms, and a cursor that fits them
Replaced(vms) ==
  [m EXCEPT !.vms = vms,
            !.cursor = IF @ >= Len(vms) /\ Len(vms) > 0 THEN Len(vms) - 1 ELSE @]

\* View follows each Update: in playbook mode it shows m.vms[m.cursor].
View(x) == IF mode = "playbook" /\ x.cursor >= Len(x.vms) THEN "panic" ELSE mode

RefreshMsg(c) ==
  /\ Alive /\ c.what = "refresh"
  /\ \E vms \in Lists : /\ m' = Replaced(vms)
                        /\ mode' = View(Replaced(vms))
  /\ flight' = flight \ {c}
  /\ UNCHANGED <<heap, dialog, ops>>

SSHDoneMsg(c) ==
  /\ Alive /\ c.what = "ssh"
  /\ \/ UNCHANGED <<m, heap, ops>>
     \/ ~connects /\ AddLog(m, "ended")
  /\ flight' = (flight \ {c}) \cup {Refresh}
  /\ UNCHANGED <<mode, dialog>>

\* Broken: takes index 0 for none.
Marked_NotFirst(c) ==
  IF c.idx \in 2 .. m.log.len
    THEN [heap EXCEPT ![m.log.arr][c.idx].status = "ended"]
    ELSE heap

\* The entry of a command, in the log of the moment.
Marked(c) ==
  IF c.idx \in 1 .. m.log.len
    THEN [heap EXCEPT ![m.log.arr][c.idx].status = "ended"]
    ELSE heap

\* cmdDoneMsg and, for a bridge that was created, bridgeCreatedMsg
CmdDoneMsg(c) ==
  /\ Alive /\ c.what \notin {"refresh", "ssh"}
  /\ heap' = Marked(c)
  /\ \E vms \in Lists : m' = IF vms # <<>> /\ c.what # "bridge" THEN Replaced(vms) ELSE m
  /\ flight' = flight \ {c}
  /\ UNCHANGED <<mode, dialog, ops>>

Update == \/ Key
          \/ \E c \in flight : RefreshMsg(c) \/ SSHDoneMsg(c) \/ CmdDoneMsg(c)

Next == Update /\ UNCHANGED connects

Spec == Init /\ [][Next]_vars

-----------------------------------------------------------------------------
(* Properties                                                              *)

\* updateList indexes vms with cursor, and log with logCursor, when they are
\* not empty; a dialog brings back a list and a cursor of an earlier moment.
IndicesFit == /\ m.vms # <<>> => m.cursor \in 0 .. Len(m.vms) - 1
              /\ m.log.len > 0 => m.logCursor \in 0 .. m.log.len - 1

\* A command reports to its own entry, whatever was appended or brought back
\* since: two commands under way never share one.
OwnEntry == \A c \in flight : c.idx # 0 =>
              /\ c.idx \in 1 .. m.log.len
              /\ heap[m.log.arr][c.idx] = [op |-> c.op, status |-> "running"]

\* No entry shows a command as running that has reported, where ssh sessions do
\* not fail: the entry of a failed session is appended in an array the model of
\* an open dialog shares, and is then lost with a report that came for it.
NoZombie == connects /\ mode # "quit" => \A i \in 1 .. m.log.len :
              heap[m.log.arr][i].status = "running" =>
                \E c \in flight : c.op = heap[m.log.arr][i].op

\* Nothing indexes past the VMs: the code has it but for View, when the last VM
\* goes while the playbook menu is open.
NoPanic == mode # "panic"

\* What is shut down or deleted is what the dialog named when it said so.
NamedByDialog ==
  [][\A c \in flight' : c.op > ops /\ c.what \in {"stop", "delete"} =>
       mode = "confirm" /\ dialog.what = c.what /\ dialog.vm = c.vm
       /\ \E i \in 1 .. Len(dialog.base.vms) :
            i = dialog.base.cursor + 1 /\ dialog.base.vms[i] = c.vm]_vars
=============================================================================
