------------------------------ MODULE Adapters ------------------------------
(***************************************************************************)
(* The two adapters over the workflows: the REST handlers and the commands *)
(* of the command line.  A call, which is a request or a process, opens a  *)
(* Manager of its own, runs one workflow, closes the Manager and answers.  *)
(*                                                                         *)
(* Of the host this is about which VMs there are: which run, and which     *)
(* libvirt has a definition of.  One that runs without a definition is gone *)
(* once it stops.  A workflow is the steps at which other calls can change *)
(* what its answer says: the lookup of its VM, what it does by that handle, *)
(* the Info that follows, and for a list each domain that is read.  A call *)
(* does not notice that its client has gone (ctx goes nowhere): a client   *)
(* that gives up and asks again is another call beside the first.          *)
(***************************************************************************)
EXTENDS Api, FiniteSets

CONSTANTS
  Calls, VMs,
  NoVM,          \* of a call that is about no VM
  Asks,          \* what each call may be for: pairs of a surface and an operation
  MaxBirths      \* bound on the domains created in a behaviour

\* Execute: the operations that are commands.
Commands == Operations \ {"GetDocs", "GetOpenAPIJSON", "GetOpenAPISpec", "ListBridges",
                          "ListPlaybooks"}
Offered  == {"rest"} \X Operations \cup {"cli"} \X Commands

ASSUME AdaptersAssumption == /\ NoVM \notin VMs
                             /\ Asks \in [Calls -> SUBSET Offered]
                             /\ MaxBirths \in Nat

VARIABLES
  vm,            \* the domain under each name, 0 for none
  on,            \* the names of those that run or are paused
  kept,          \* the names of those that have a definition
  born,          \* how many domains were created so far
  conns,         \* the calls that libvirt has an open connection of
  call,          \* what each call is at
  saw            \* history: of the VMs that its answer is about, which there
                 \* were throughout, at all, and defined throughout, since it came

host == <<vm, on, kept>>
vars == <<vm, on, kept, born, conns, call, saw>>

Present(w) == {v \in VMs : w[v] # 0}
Nothing    == [always |-> {}, ever |-> {}, kept |-> {}]
NoAnswer   == <<0, "none">>

Outcomes == {"ok", "invalid", "not_found", "conflict", "bad_gateway", "internal",
             "late", "late_invalid",       \* a create that failed and returns its VM
             "grow_failed",                \* a resize that did not grow the filesystem
             "remote_failed", "transport", \* ssh's exit status: the command's, or 255
             "upgrade_failed"}             \* the WebSocket library has answered

NoCall == [pc |-> "idle", via |-> "rest", op |-> "GetDocs", vm |-> NoVM,
           dom |-> 0, wason |-> FALSE,      \* the handle it holds, and wasRunning
           handles |-> {}, listed |-> {}, missed |-> {}, out |-> "ok", answer |-> NoAnswer]

AtWork == {"act", "start", "do", "state", "stop", "change", "read", "show"}
InUse  == {"check", "close"} \cup AtWork
PCs    == {"idle", "open", "answer"} \cup InUse

Init == /\ vm \in [VMs -> {0}] /\ on = {} /\ kept = {} /\ born = 0
        /\ conns = {}
        /\ call = [c \in Calls |-> NoCall]
        /\ saw = [c \in Calls |-> Nothing]

-----------------------------------------------------------------------------
(* The handlers: what each answers to the outcome of its workflow          *)

\* kindOf and the switch of a handler: an error of no kind it knows is a 500.
ByKind(out, success, statuses) ==
  IF out = "ok" THEN success
  ELSE <<IF out \in DOMAIN statuses THEN statuses[out] ELSE 500, "Error">>

Unkinded   == [o \in {} |-> 500]
NotFound   == [not_found |-> 404]
OrInvalid  == [not_found |-> 404, invalid |-> 400]
OrConflict == [not_found |-> 404, invalid |-> 400, conflict |-> 409]

\* Broken: that there is no address is reported in the body of a success.
RunPlaybook_InBody(out) == IF out \in DOMAIN OrInvalid THEN <<OrInvalid[out], "Error">>
                           ELSE <<IF out = "internal" THEN 500 ELSE 200, "PlaybookResult">>

\* Broken: does not know the kind of a VM without an address.
RunVMCommand_NoConflict(out) ==
  IF out \in {"remote_failed", "transport"} THEN <<200, "CmdResult">>
  ELSE ByKind(out, <<200, "CmdResult">>,
              [not_found |-> 404, invalid |-> 400, bad_gateway |-> 502])

ListVMs(out)       == ByKind(out, <<200, "VMInfos">>, Unkinded)
GetVM(out)         == ByKind(out, <<200, "VMInfo">>, NotFound)
CreateVM(out)      == ByKind(IF out = "late_invalid" THEN "invalid" ELSE out,
                             <<201, "VMInfo">>, OrInvalid)
DeleteVM(out)      == ByKind(out, <<204, "none">>, NotFound)
Power(out)         == ByKind(out, <<200, "VMInfo">>, NotFound)
SetAutostart(out)  == ByKind(out, <<200, "VMInfo">>, NotFound)
RunVMCommand(out)  == IF out \in {"remote_failed", "transport"} THEN <<200, "CmdResult">>
                      ELSE ByKind(out, <<200, "CmdResult">>,
                                  [not_found |-> 404, invalid |-> 400, conflict |-> 409,
                                   bad_gateway |-> 502])
RunPlaybook(out)   == IF out \in DOMAIN OrConflict THEN <<OrConflict[out], "Error">>
                      ELSE <<IF out = "ok" THEN 200 ELSE 500, "PlaybookResult">>
MigrateDisk(out)   == ByKind(out, <<200, "VMInfo">>, OrInvalid)
ResizeDisk(out)    == IF out = "grow_failed" THEN <<200, "ResizeDiskResult">>
                      ELSE ByKind(out, <<200, "ResizeDiskResult">>, OrInvalid)
AddDisk(out)       == ByKind(out, <<200, "AddDiskResult">>, OrInvalid)
ListNames(out)     == ByKind(out, <<200, "names">>, Unkinded)
ListImages(out)    == ByKind(out, <<200, "images">>, Unkinded)
DeleteImage(out)   == ByKind(out, <<204, "none">>, NotFound)
ListPools(out)     == ByKind(out, <<200, "pools">>, Unkinded)
CreatePool(out)    == ByKind(out, <<201, "CreatePoolResult">>, [invalid |-> 400])
ListPlaybooks(out) == ByKind(out, <<200, "names">>, Unkinded)
Console(out)       == IF out = "upgrade_failed" THEN <<400, "text">>
                      ELSE ByKind(out, <<101, "none">>,
                                  [not_found |-> 404, invalid |-> 400, conflict |-> 409,
                                   bad_gateway |-> 502])

PowerOps == {"StartVM", "StopVM", "ResumeVM", "PoweroffVM", "RebootVM"}
Docs     == [GetDocs |-> "html", GetOpenAPIJSON |-> "document", GetOpenAPISpec |-> "yaml"]

Handler(op, out) ==
  CASE op \in PowerOps       -> Power(out)
    [] op = "GetVM"          -> GetVM(out)
    [] op = "CreateVM"       -> CreateVM(out)
    [] op = "DeleteVM"       -> DeleteVM(out)
    [] op = "ListVMs"        -> ListVMs(out)
    [] op = "SetAutostart"   -> SetAutostart(out)
    [] op = "RunVMCommand"   -> RunVMCommand(out)
    [] op = "OpenVMConsole"  -> Console(out)
    [] op = "RunPlaybook"    -> RunPlaybook(out)
    [] op = "MigrateDisk"    -> MigrateDisk(out)
    [] op = "ResizeDisk"     -> ResizeDisk(out)
    [] op = "AddDisk"        -> AddDisk(out)
    [] op \in {"ListNetworks", "ListBridges"} -> ListNames(out)
    [] op = "ListImages"     -> ListImages(out)
    [] op = "DeleteImage"    -> DeleteImage(out)
    [] op = "ListPools"      -> ListPools(out)
    [] op = "CreatePool"     -> CreatePool(out)
    [] op = "ListPlaybooks"  -> ListPlaybooks(out)
    [] OTHER                 -> <<200, Docs[op]>>

-----------------------------------------------------------------------------
(* The commands: the exit status, and what is printed                      *)

\* An error is printed and exits with 1.
Command(out, prints) == IF out = "ok" THEN <<0, prints>> ELSE <<1, "Error">>

CreateCmd(out)       == <<IF out = "ok" THEN 0 ELSE 1,
                          IF out \in {"ok", "late", "late_invalid"} THEN "VMInfo" ELSE "Error">>
PowerCmd(out)        == Command(out, "done")
DeleteCmd(out)       == Command(out, "done")
ListCmd(out)         == Command(out, "VMInfos")
InfoCmd(out)         == Command(out, "VMInfo")
SSHCmd(out)          == Command(out, "none")
\* Execute exits with the status of ssh, of the command or its own 255.
CmdCmd(out)          == CASE out = "remote_failed" -> <<2, "CmdResult">>
                          [] out = "transport"     -> <<255, "CmdResult">>
                          [] OTHER                 -> Command(out, "CmdResult")
RebootCmd(out)       == Command(out, "done")
AutostartCmd(out)    == Command(out, "done")
NetworksCmd(out)     == Command(out, "names")
PlaybookCmd(out)     == Command(out, "PlaybookResult")
ImagesListCmd(out)   == Command(out, "images")
ImagesDeleteCmd(out) == Command(out, "done")
PoolListCmd(out)     == Command(out, "pools")
PoolCreateCmd(out)   == Command(out, "done")
MigrateDiskCmd(out)  == Command(out, "done")
ResizeDiskCmd(out)   == IF out = "grow_failed" THEN <<1, "ResizeDiskResult">>
                        ELSE Command(out, "ResizeDiskResult")
AddDiskCmd(out)      == Command(out, "AddDiskResult")

Exit(op, out) ==
  CASE op \in PowerOps \ {"RebootVM"} -> PowerCmd(out)
    [] op = "RebootVM"       -> RebootCmd(out)
    [] op = "GetVM"          -> InfoCmd(out)
    [] op = "CreateVM"       -> CreateCmd(out)
    [] op = "DeleteVM"       -> DeleteCmd(out)
    [] op = "ListVMs"        -> ListCmd(out)
    [] op = "SetAutostart"   -> AutostartCmd(out)
    [] op = "RunVMCommand"   -> CmdCmd(out)
    [] op = "OpenVMConsole"  -> SSHCmd(out)
    [] op = "RunPlaybook"    -> PlaybookCmd(out)
    [] op = "MigrateDisk"    -> MigrateDiskCmd(out)
    [] op = "ResizeDisk"     -> ResizeDiskCmd(out)
    [] op = "AddDisk"        -> AddDiskCmd(out)
    [] op = "ListNetworks"   -> NetworksCmd(out)
    [] op = "ListImages"     -> ImagesListCmd(out)
    [] op = "DeleteImage"    -> ImagesDeleteCmd(out)
    [] op = "ListPools"      -> PoolListCmd(out)
    [] OTHER                 -> PoolCreateCmd(out)

Reply(via, op, out) == IF via = "rest" THEN Handler(op, out) ELSE Exit(op, out)

-----------------------------------------------------------------------------
(* A call from its arrival to its answer                                   *)

At(c, pc)     == call[c].pc = pc
Become(c, r)  == call' = [call EXCEPT ![c] = r]
Goto(c, pc)   == Become(c, [call[c] EXCEPT !.pc = pc])
\* The deferred Free of the handle, then on to the last Info or to the end.
ToShow(c)     == Become(c, [call[c] EXCEPT !.pc = "show", !.dom = 0, !.wason = FALSE])
Finish(c, k)  == Become(c, [call[c] EXCEPT !.pc = "close", !.dom = 0, !.wason = FALSE, !.out = k])
Answers(c, a) == [call[c] EXCEPT !.pc = "answer", !.out = "ok", !.answer = a]

NoManager == {"GetDocs", "GetOpenAPIJSON", "GetOpenAPISpec", "ListPlaybooks"}
OnVM      == PowerOps \cup {"GetVM", "SetAutostart", "RunVMCommand", "OpenVMConsole",
                            "RunPlaybook", "MigrateDisk", "ResizeDisk", "AddDisk"}

Named == OnVM \cup {"CreateVM", "DeleteVM"}

\* The VMs that an answer says something of.
About(op, v) == CASE op \in Named    -> {v}
                  [] op = "ListVMs"  -> VMs
                  [] OTHER           -> {}

\* The handlers that look at the input before they open a Manager.
OwnChecks == {"CreateVM", "RunVMCommand", "RunPlaybook", "MigrateDisk", "ResizeDisk",
              "AddDisk", "CreatePool", "OpenVMConsole"}
\* The commands that parse a value after they opened one.
Checked   == {"CreateVM", "RunPlaybook", "SetAutostart", "ResizeDisk", "AddDisk"}

Arrives(via, op, v) ==
  [NoCall EXCEPT !.pc = IF op \in NoManager THEN "act" ELSE "open",
                 !.via = via, !.op = op, !.vm = v]

Ask(c) ==
  /\ At(c, "idle")
  /\ \E ask \in Asks[c] : \E v \in IF ask[2] \in Named THEN VMs ELSE {NoVM} :
       LET here == Present(vm) \cap About(ask[2], v) IN
       /\ Become(c, Arrives(ask[1], ask[2], v))
       /\ saw' = [saw EXCEPT ![c] = [always |-> here, ever |-> here, kept |-> here \cap kept]]
  /\ UNCHANGED <<host, born, conns>>

\* What the generated code, the handler or cobra refuses by itself.
Refuse(c) ==
  /\ At(c, "open")
  /\ LET op == call[c].op IN
     \/ /\ call[c].via = "rest" /\ op \in WithQuery \cup WithBody
        /\ Become(c, Answers(c, Malformed))
     \/ /\ call[c].via = "rest" /\ op \in OwnChecks
        /\ Become(c, Answers(c, <<400, "Error">>))
     \/ /\ call[c].via = "rest" /\ op = "OpenVMConsole"
        /\ Become(c, Answers(c, <<403, "Error">>))
     \/ /\ call[c].via = "cli"
        /\ Become(c, Answers(c, <<1, "Error">>))
  /\ UNCHANGED <<host, born, conns, saw>>

\* NewManager
Open(c) ==
  /\ At(c, "open")
  /\ \/ /\ conns' = conns \cup {c}
        /\ Goto(c, IF call[c].via = "cli" /\ call[c].op \in Checked THEN "check" ELSE "act")
     \/ /\ Become(c, Answers(c, Reply(call[c].via, call[c].op, "internal")))
        /\ UNCHANGED conns
  /\ UNCHANGED <<host, born, saw>>

\* parseExtraVars, ParseUint, on or off
Check(c) ==
  /\ At(c, "check")
  /\ Goto(c, "act") \/ Finish(c, "invalid")
  /\ UNCHANGED <<host, born, conns, saw>>

-----------------------------------------------------------------------------
(* The workflows                                                           *)

\* Those that are about no VM.
Elsewhere(c) ==
  /\ At(c, "act") /\ call[c].op \notin OnVM \cup {"CreateVM", "DeleteVM", "ListVMs"}
  /\ \/ Finish(c, "ok")
     \/ call[c].op \notin DOMAIN Docs /\ Finish(c, "internal")
     \/ call[c].op = "DeleteImage" /\ Finish(c, "not_found")
  /\ UNCHANGED <<host, born, conns, saw>>

NeedIP   == {"RunVMCommand", "OpenVMConsole", "RunPlaybook"}
NeedMore == {"MigrateDisk", "ResizeDisk", "AddDisk"}      \* a disk, or a pool

\* What can fail once the VM was found.
Fails(op) == {"internal"} \cup (IF op \in NeedIP THEN {"conflict"} ELSE {})
                         \cup (IF op \in NeedIP \ {"RunPlaybook"} THEN {"bad_gateway"} ELSE {})
                         \cup (IF op \in NeedMore THEN {"not_found"} ELSE {})

\* How what ends without an Info ends: ssh may fail by itself or return the
\* status of what it ran; a console has answered before its ssh ends.
Ends(via, op) == {"ok"} \cup
  (IF op = "RunVMCommand" \/ (op = "OpenVMConsole" /\ via = "cli")
     THEN {"remote_failed", "transport"} ELSE {}) \cup
  (IF op = "OpenVMConsole" /\ via = "rest" THEN {"upgrade_failed"} ELSE {})

\* What the calls that are under way see of a change.
Changed(w, k) ==
  /\ vm' = w /\ kept' = k
  /\ saw' = [d \in Calls |->
               IF call[d].pc \in {"idle", "answer"} THEN saw[d]
               ELSE [always |-> saw[d].always \cap Present(w),
                     ever   |-> saw[d].ever \cup (Present(w) \cap About(call[d].op, call[d].vm)),
                     kept   |-> saw[d].kept \cap k]]

Name(c)  == call[c].vm
\* Whether the domain of the handle that a call holds is still there.
There(c) == vm[Name(c)] = call[c].dom

\* libvirt on a domain that stops, and on one that loses its definition.
PowerOff(v) == /\ on' = on \ {v}
               /\ Changed([vm EXCEPT ![v] = IF v \in kept THEN @ ELSE 0], kept)
Forget(v)   == /\ Changed([vm EXCEPT ![v] = IF v \in on THEN @ ELSE 0], kept \ {v})
               /\ UNCHANGED on
\* On one that is defined, anew or again, and on one that is started.
Register(v, id) == Changed([vm EXCEPT ![v] = id], kept \cup {v}) /\ UNCHANGED on
StartUp(v)      == on' = on \cup {v} /\ UNCHANGED <<vm, kept, saw>>

\* A guest stops by itself, as a shutdown or its own user asked it.
GuestOff(v) == v \in on /\ PowerOff(v) /\ UNCHANGED <<born, conns, call>>

\* A call by a handle fails: of a domain that is gone, as not found.
Stops(c) == /\ Finish(c, IF There(c) THEN "internal" ELSE "not_found")
            /\ UNCHANGED <<host, saw>>

\* LookupDomainByName, which Manager.Start does of its own after a create's
\* Define and after a migration's.
Lookup(c) ==
  /\ \/ At(c, "act") /\ call[c].op \in OnVM \cup {"DeleteVM"}
     \/ At(c, "start")
  /\ \/ call[c].op = "RunPlaybook" /\ Finish(c, "invalid")
     \/ vm[Name(c)] = 0 /\ Finish(c, "not_found")
     \/ Finish(c, "internal")
     \/ /\ vm[Name(c)] # 0
        /\ Become(c, [call[c] EXCEPT !.dom = vm[Name(c)],
                        !.pc = IF At(c, "act") /\ call[c].op \in {"DeleteVM", "MigrateDisk"}
                               THEN "state" ELSE "do"])
  /\ UNCHANGED <<host, born, conns, saw>>

\* dom.Create
Start(c) ==
  /\ At(c, "do") /\ call[c].op \in {"StartVM", "CreateVM", "MigrateDisk"}
  /\ \/ Stops(c)
     \/ /\ There(c) /\ Name(c) \in kept \ on
        /\ StartUp(Name(c)) /\ ToShow(c)
  /\ UNCHANGED <<born, conns>>

\* dom.Destroy, of a poweroff.
Poweroff(c) ==
  /\ At(c, "do") /\ call[c].op = "PoweroffVM"
  /\ \/ Stops(c)
     \/ There(c) /\ Name(c) \in on /\ PowerOff(Name(c)) /\ ToShow(c)
  /\ UNCHANGED <<born, conns>>

\* The operations that ask something of the domain and leave it there.
After(c) ==
  /\ At(c, "do")
  /\ \/ call[c].op \in {"StopVM", "ResumeVM", "RebootVM", "SetAutostart"} /\ Stops(c)
     \/ /\ There(c) /\ ToShow(c)
        /\ \/ call[c].op \in {"StopVM", "ResumeVM", "RebootVM"} /\ Name(c) \in on
           \/ call[c].op = "SetAutostart" /\ Name(c) \in kept
  /\ UNCHANGED <<host, born, conns, saw>>

\* A disk or a pool may be what is not found; a disk is added to a definition.
OnDisk(c) ==
  /\ At(c, "do") /\ call[c].op \in {"ResizeDisk", "AddDisk"}
  /\ \/ \E k \in Fails(call[c].op) : Finish(c, k)
     \/ /\ There(c)
        /\ call[c].op = "AddDisk" => Name(c) \in kept
        /\ ToShow(c)
  /\ UNCHANGED <<host, born, conns, saw>>

\* What only asks for the Info: to show it, or for the address of the guest.
Inspect(c) ==
  /\ At(c, "do") /\ call[c].op \in {"GetVM"} \cup NeedIP
  /\ \/ ~There(c) /\ Finish(c, "not_found")
     \/ There(c) /\ \E k \in Fails(call[c].op) \cup Ends(call[c].via, call[c].op) : Finish(c, k)
  /\ UNCHANGED <<host, born, conns, saw>>

\* dom.GetState, by which a delete and a migration know whether to stop the VM.
GetState(c) ==
  /\ At(c, "state")
  /\ \/ Stops(c)
     \/ /\ There(c)
        /\ Become(c, [call[c] EXCEPT !.pc = IF Name(c) \in on THEN "stop" ELSE "change",
                        !.wason = call[c].op = "MigrateDisk" /\ Name(c) \in on])
  /\ UNCHANGED <<host, born, conns, saw>>

\* dom.Destroy, of a delete and of a migration.
Destroy(c) ==
  /\ At(c, "stop")
  /\ \/ Stops(c)
     \/ There(c) /\ Name(c) \in on /\ PowerOff(Name(c)) /\ Goto(c, "change")
  /\ UNCHANGED <<born, conns>>

\* Broken: the error of dom.Undefine is ignored.
Undefine_Ignored(c) ==
  /\ At(c, "change") /\ call[c].op = "DeleteVM"
  /\ \/ UNCHANGED <<host, saw>>
     \/ There(c) /\ Name(c) \in kept /\ Forget(Name(c))
  /\ Finish(c, "ok")
  /\ UNCHANGED <<born, conns>>

\* dom.Undefine, after which a volume or ForgetMachine may still fail; of a
\* domain that was started since GetState only the definition goes.
Undefine(c) ==
  /\ At(c, "change") /\ call[c].op = "DeleteVM"
  /\ \/ Stops(c)
     \/ /\ There(c) /\ Name(c) \in kept /\ Forget(Name(c))
        /\ \E k \in {"ok", "internal", "not_found"} : Finish(c, k)
  /\ UNCHANGED <<born, conns>>

\* The copy, which may find no volume or pool, and DomainDefineXML of the
\* domain of the handle: one that was deleted since is registered again.
Redefine(c) ==
  /\ At(c, "change") /\ call[c].op = "MigrateDisk"
  /\ \/ (\E k \in Fails("MigrateDisk") : Finish(c, k)) /\ UNCHANGED <<host, saw>>
     \/ /\ vm[Name(c)] \in {0, call[c].dom} /\ Register(Name(c), call[c].dom)
        /\ \/ \E k \in Fails("MigrateDisk") : Finish(c, k)
           \/ IF call[c].wason THEN Goto(c, "start") ELSE ToShow(c)
  /\ UNCHANGED <<born, conns>>

\* The last Info, and of a resize what became of the filesystem.
ShowKinds(op) == CASE op = "CreateVM"   -> {"ok", "internal", "late", "late_invalid"}
                   [] op = "ResizeDisk" -> {"ok", "internal", "grow_failed"}
                   [] OTHER             -> {"ok", "internal"}

\* By the time of the last Info of a create that failed late the VM may be gone.
Show(c) ==
  /\ At(c, "show")
  /\ \/ vm[Name(c)] = 0 /\ Finish(c, "not_found")
     \/ vm[Name(c)] # 0 /\ \E k \in ShowKinds(call[c].op) : Finish(c, k)
     \/ call[c].op = "CreateVM" /\ \E k \in {"internal", "late", "late_invalid"} : Finish(c, k)
  /\ UNCHANGED <<host, born, conns, saw>>

\* To the Define, which libvirt refuses for a name it has.
Create(c) ==
  /\ At(c, "act") /\ call[c].op = "CreateVM"
  /\ \/ /\ \E k \in {"invalid", "not_found", "internal"} : Finish(c, k)
        /\ UNCHANGED <<host, born, saw>>
     \/ /\ vm[Name(c)] = 0 /\ born < MaxBirths
        /\ born' = born + 1
        /\ Register(Name(c), born')
        /\ Goto(c, "start")
  /\ UNCHANGED conns

\* ListAllDomains, then a few reads of each domain it returned.
List(c) ==
  /\ At(c, "act") /\ call[c].op = "ListVMs"
  /\ \/ Finish(c, "internal")
     \/ Become(c, [call[c] EXCEPT !.pc = "read",
                      !.handles = {<<v, vm[v]>> : v \in Present(vm)}])
  /\ UNCHANGED <<host, born, conns, saw>>

\* Broken: the first domain that cannot be read ends the list.
Read_Stops(c) ==
  /\ At(c, "read")
  /\ \/ call[c].handles = {} /\ Finish(c, "ok")
     \/ \E h \in call[c].handles :
          Become(c, [call[c] EXCEPT
            !.handles = IF vm[h[1]] = h[2] THEN @ \ {h} ELSE {},
            !.listed  = IF vm[h[1]] = h[2] THEN @ \cup {h[1]} ELSE @])
  /\ UNCHANGED <<host, born, conns, saw>>

\* A domain that cannot be read, because it is gone or otherwise, is skipped.
Read(c) ==
  /\ At(c, "read")
  /\ \/ call[c].handles = {} /\ Finish(c, "ok")
     \/ \E h \in call[c].handles :
          LET there == vm[h[1]] = h[2] IN
          \/ Become(c, [call[c] EXCEPT !.handles = @ \ {h},
                          !.listed = IF there THEN @ \cup {h[1]} ELSE @])
          \/ /\ there
             /\ Become(c, [call[c] EXCEPT !.handles = @ \ {h}, !.missed = @ \cup {h[1]}])
  /\ UNCHANGED <<host, born, conns, saw>>

-----------------------------------------------------------------------------
(* The end of a call                                                       *)

\* Broken: the Manager of a call that failed stays open.
Close_OnSuccess(c) ==
  /\ At(c, "close")
  /\ conns' = IF call[c].out = "ok" THEN conns \ {c} ELSE conns
  /\ Become(c, Answers(c, Reply(call[c].via, call[c].op, call[c].out)))
  /\ UNCHANGED <<host, born, saw>>

\* The deferred Close, then the answer.
Close(c) ==
  /\ At(c, "close")
  /\ conns' = conns \ {c}
  /\ Become(c, Answers(c, Reply(call[c].via, call[c].op, call[c].out)))
  /\ UNCHANGED <<host, born, saw>>

Answer(c) == /\ At(c, "answer")
             /\ Become(c, NoCall)
             /\ saw' = [saw EXCEPT ![c] = Nothing]
             /\ UNCHANGED <<host, born, conns>>

\* A process is killed: a command, or the server with all its requests.
Killed(dead) == /\ conns' = conns \ dead
                /\ call' = [c \in Calls |-> IF c \in dead THEN NoCall ELSE call[c]]
                /\ saw'  = [c \in Calls |-> IF c \in dead THEN Nothing ELSE saw[c]]
                /\ UNCHANGED <<host, born>>

Dies(c)    == call[c].via = "cli" /\ Killed({c})
ServerDies == /\ \E c \in Calls : call[c].via = "rest" /\ ~At(c, "idle")
              /\ Killed({c \in Calls : call[c].via = "rest"})

Next == \/ \E c \in Calls : \/ Ask(c) \/ Refuse(c) \/ Open(c) \/ Check(c) \/ Elsewhere(c)
                            \/ Lookup(c) \/ Start(c) \/ Poweroff(c) \/ After(c) \/ OnDisk(c)
                            \/ Inspect(c) \/ GetState(c) \/ Destroy(c) \/ Undefine(c)
                            \/ Redefine(c) \/ Show(c) \/ Create(c)
                            \/ List(c) \/ Read(c) \/ Close(c) \/ Answer(c) \/ Dies(c)
        \/ ServerDies
        \/ \E v \in VMs : GuestOff(v)

Spec == Init /\ [][Next]_vars

-----------------------------------------------------------------------------
(* Properties                                                              *)

\* A call's locals are of their types.
Call == [pc : PCs, via : {"rest", "cli"}, op : Operations, vm : VMs \cup {NoVM},
         dom : 0 .. MaxBirths, wason : BOOLEAN,
         handles : SUBSET (VMs \X (1 .. MaxBirths)), listed : SUBSET VMs, missed : SUBSET VMs,
         out : Outcomes, answer : Nat \X STRING]

TypeOK == /\ vm \in [VMs -> 0 .. MaxBirths] /\ born \in 0 .. MaxBirths
          /\ on \subseteq Present(vm) /\ kept \subseteq Present(vm)
          /\ conns \subseteq Calls
          /\ call \in [Calls -> Call]
          /\ saw \in [Calls -> [always : SUBSET VMs, ever : SUBSET VMs, kept : SUBSET VMs]]

\* A connection to libvirt is open for the calls between Open and Close and for
\* no other, whatever fails, is refused or is killed (withManager).
ManagersClosed ==
  conns = {c \in Calls : call[c].pc \in InUse /\ call[c].op \notin NoManager}

Success(a) == a[1] \in {0, 101, 200, 201, 204}

\* What an answer says of a VM was so at some moment of the call: a success,
\* that it was there; a 404, that it was not (of a disk operation a disk or a pool
\* may be what was not found); of a create that did well, both; of a delete that did
\* well, that it was there and lost its definition, and of one that found none, that
\* libvirt had no definition of it (Manager.Delete's GetState, Destroy and Undefine
\* are three calls, and one that was started between them runs on).
AnswerWasTrue ==
  \A c \in Calls : At(c, "answer") =>
    LET op == call[c].op  v == call[c].vm  ok == Success(call[c].answer)
        none == call[c].answer[1] = 404
        was == v \in saw[c].ever  wasNot == v \notin saw[c].always IN
    /\ ok /\ op \in OnVM \cup {"CreateVM", "DeleteVM"} => was
    /\ ok /\ op = "CreateVM" => wasNot
    /\ none /\ op \in OnVM \ NeedMore => wasNot
    /\ (ok \/ none) /\ op = "DeleteVM" => v \notin saw[c].kept

\* "deleted" (vmtool.yaml:116, of the 204): the VM was gone at some moment of the call.
DeletedIsGone ==
  \A c \in Calls : At(c, "answer") /\ call[c].op = "DeleteVM" /\ Success(call[c].answer) =>
    call[c].vm \notin saw[c].always

\* A list names every VM that was there throughout and could be read, and
\* nothing that was there at no time (Manager.List).
ListIsFair ==
  \A c \in Calls : At(c, "answer") /\ call[c].op = "ListVMs" /\ Success(call[c].answer) =>
    /\ saw[c].always \ call[c].missed \subseteq call[c].listed
    /\ call[c].listed \subseteq saw[c].ever

\* What an outcome is called is the same on both surfaces, except where they are
\* meant to differ: a filesystem not grown, and the status of a remote command
\* (spec-first.md, resize contract; vmtool.yaml, cmd).
AdaptersAgree ==
  \A c \in Calls : At(c, "close") /\ call[c].op \in Commands =>
    \/ call[c].out \in {"grow_failed", "remote_failed", "transport"}
    \/ Success(Handler(call[c].op, call[c].out)) <=> Success(Exit(call[c].op, call[c].out))

\* No handler lacks a kind of error that its workflow can end with and that the
\* document has a status for (kindOf and the 26 switches; consoleStatus).
StatusOf == [not_found |-> 404, invalid |-> 400, conflict |-> 409, bad_gateway |-> 502]
KindAnswered ==
  \A c \in Calls : At(c, "close") /\ call[c].via = "rest" /\ call[c].out \in DOMAIN StatusOf =>
    LET right == <<StatusOf[call[c].out], "Error">> IN
    right \in Declared[call[c].op] => Handler(call[c].op, call[c].out) = right

\* "source of record for every route, payload, and status code"
AllDeclared ==
  \A c \in Calls : At(c, "answer") /\ call[c].via = "rest" =>
    call[c].answer \in Declared[call[c].op]

\* The generated client decodes every answer that has a body into one of its fields.
AllUnderstood ==
  \A c \in Calls : At(c, "answer") /\ call[c].via = "rest" /\ call[c].answer[2] # "none" =>
    call[c].answer \in Understood[call[c].op]

\* "502 if SSH transport fails"
TransportIs502 ==
  \A c \in Calls : At(c, "close") /\ call[c].via = "rest" /\ call[c].out = "transport" =>
    Handler(call[c].op, call[c].out)[1] = 502

\* "List returns info for all VMs managed by libvirt."
ListsAll ==
  \A c \in Calls : At(c, "answer") /\ call[c].op = "ListVMs" /\ Success(call[c].answer) =>
    saw[c].always \subseteq call[c].listed

\* A list was the VMs of some moment (nothing promises so).
ListIsSnapshot ==
  [][\A c \in Calls : At(c, "read") /\ call'[c].pc = "close" =>
       call[c].listed \cup call[c].missed = Present(vm)]_vars
=============================================================================
