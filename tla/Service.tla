------------------------------ MODULE Service ------------------------------
(***************************************************************************)
(* The workflows of internal/app that take many steps over libvirt, the    *)
(* guest and the credentials under .machines: CreateVM, DeleteVM and       *)
(* RunPlaybook, with the answer the REST server gives to the first.        *)
(*                                                                         *)
(* Here every Manager call is one step that succeeds or fails (what it     *)
(* does inside is the module Manager), and a disk is known by the guest    *)
(* installed on it.  Credentials are good for the guest they were made on. *)
(***************************************************************************)
EXTENDS Naturals, FiniteSets

CONSTANTS
  Clients, VMs, IPs,
  MaxClones,     \* bound on the disks cloned in a behaviour
  Options        \* what a create may ask for: a subset of AllOptions

AllOptions == {"noclone", "size", "extra_disk", "inventory", "playbook", "bad_playbook"}

ASSUME ServiceAssumption ==
  /\ MaxClones \in Nat
  /\ Options \subseteq AllOptions
  /\ VMs \cap IPs = {}

None   == 0
Image  == MaxClones + 1            \* the guest of the image itself
Guests == 1 .. Image
NoIP   == "no IP"

VARIABLES
  clones,      \* how many disks were cloned so far
  vol,         \* the clone in the volume named after a VM, or None
  dom,         \* the domains: the guest on their disk, and whether they run
  lease,       \* the address of each running VM
  machines,    \* .machines: by name or address, the guest the entry is good for
  call         \* what each client is at

host == <<clones, vol, dom, lease>>
vars == <<host, machines, call>>

NoDomain == [guest |-> None, on |-> FALSE]
NoCall   == [pc |-> "idle", op |-> "none", vm |-> None, opt |-> {}, keep |-> FALSE, guest |-> None,
             addr |-> NoIP, auth |-> None, started |-> FALSE, did |-> {},
             kind |-> "ok", info |-> FALSE]

Init == /\ clones = 0
        /\ vol = [v \in VMs |-> None]
        /\ dom = [v \in VMs |-> NoDomain]
        /\ lease = [v \in VMs |-> NoIP]
        /\ machines = [k \in VMs \cup IPs |-> None]
        /\ call = [c \in Clients |-> NoCall]

PCs == {"idle", "forget", "clone", "prepare", "define", "start", "wait", "info",
        "forget_ip", "auth", "grow", "playbook", "reboot", "final",
        "delete", "delete_forget", "play", "answer"}
Ops    == {"none", "create", "delete", "playbook"}
Extras == {"grow", "playbook", "reboot"}
Kinds  == {"ok", "invalid", "not_found", "conflict", "internal"}

Call ==
  [pc : PCs, op : Ops, vm : VMs \cup {None}, opt : SUBSET Options, keep : BOOLEAN,
   guest : {None} \cup Guests, addr : IPs \cup {NoIP}, auth : {None} \cup Guests,
   started : BOOLEAN, did : SUBSET Extras, kind : Kinds, info : BOOLEAN]

TypeOK ==
  /\ clones \in 0 .. MaxClones
  /\ vol \in [VMs -> 0 .. MaxClones]
  /\ dom \in [VMs -> [guest : {None} \cup Guests, on : BOOLEAN]]
  /\ lease \in [VMs -> IPs \cup {NoIP}]
  /\ machines \in [VMs \cup IPs -> {None} \cup Guests]
  /\ call \in [Clients -> Call]

-----------------------------------------------------------------------------
(* What the steps have in common                                           *)

At(c, pc)    == call[c].pc = pc
Wants(c, o)  == o \in call[c].opt
Defined(v)   == dom[v].guest # None
GuestAt(a)   == LET here == {v \in VMs : lease[v] = a} IN
                IF here = {} THEN None ELSE dom[CHOOSE v \in here : TRUE].guest

Become(c, r)      == call' = [call EXCEPT ![c] = r]
Goto(c, pc)       == Become(c, [call[c] EXCEPT !.pc = pc])
Return(c, k, has) == Become(c, [call[c] EXCEPT !.pc = "answer", !.kind = k, !.info = has])

\* wrap: an error of libvirt is internal unless the domain is not there.
Wrapped(v) == IF Defined(v) THEN "internal" ELSE "not_found"

\* ForgetMachine(keys...), which removes directories: it may stop half-way.
Forgets(keys)      == machines' = [k \in DOMAIN machines |->
                                     IF k \in keys THEN None ELSE machines[k]]
ForgetsSome(keys)  == \E some \in SUBSET keys : Forgets(some)

\* ResolveAuth: the entry of the address, else of the name, else the caller's.
ResolveAuth(a, v) == IF a # NoIP /\ machines[a] # None THEN machines[a]
                                                       ELSE machines[v]

\* A playbook may be setup_bot.yml, which stores the credentials it makes for
\* the host under the inventory's host name, the VM's; it may then fail still.
PlaybookStores(c) ==
  \/ UNCHANGED machines
  \/ /\ GuestAt(call[c].addr) # None
     /\ machines' = [machines EXCEPT ![call[c].vm] = GuestAt(call[c].addr)]

-----------------------------------------------------------------------------
(* CreateVM                                                                *)

\* The checks of the input and ImagePath; any volume can serve as an image.
CreateBegin(c) ==
  /\ At(c, "idle")
  /\ \E v \in VMs, opt \in SUBSET Options :
       /\ ~ {"playbook", "bad_playbook"} \subseteq opt
       /\ \E k \in {"ok", "invalid", "not_found", "internal"},
              image \in ({Image} \cup {vol[w] : w \in VMs}) \ {None} :
            Become(c, [NoCall EXCEPT !.op = "create", !.vm = v, !.opt = opt, !.kind = k,
                         !.pc = IF k # "ok" THEN "answer"
                                ELSE IF "noclone" \in opt THEN "prepare" ELSE "forget",
                         !.guest = IF "noclone" \in opt THEN image ELSE None])
  /\ UNCHANGED <<host, machines>>

\* Broken: the credentials of a previous VM of that name stay.
CreateForget_Skips(c) == /\ At(c, "forget") /\ Goto(c, "clone")
                         /\ UNCHANGED <<host, machines>>

CreateForget(c) ==
  /\ At(c, "forget")
  /\ \/ Forgets({call[c].vm}) /\ Goto(c, "clone")
     \/ ForgetsSome({call[c].vm}) /\ Return(c, "internal", FALSE)
  /\ UNCHANGED host

CreateClone(c) ==
  /\ At(c, "clone")
  /\ \/ /\ vol[call[c].vm] = None /\ clones < MaxClones
        /\ clones' = clones + 1
        /\ vol' = [vol EXCEPT ![call[c].vm] = clones + 1]
        /\ Become(c, [call[c] EXCEPT !.pc = "prepare", !.guest = clones + 1])
     \/ /\ Return(c, "internal", FALSE)
        /\ UNCHANGED <<clones, vol>>
  /\ UNCHANGED <<dom, lease, machines>>

\* ResizeVolume and CreateVolume, those that were asked for.
CreatePrepare(c) ==
  /\ At(c, "prepare")
  /\ \/ Goto(c, "define")
     \/ /\ Wants(c, "size") \/ Wants(c, "extra_disk")
        /\ Return(c, "internal", FALSE)
  /\ UNCHANGED <<host, machines>>

CreateDefine(c) ==
  /\ At(c, "define")
  /\ \/ /\ ~Defined(call[c].vm)
        /\ dom' = [dom EXCEPT ![call[c].vm] = [guest |-> call[c].guest, on |-> FALSE]]
        /\ Goto(c, "start")
     \/ /\ Return(c, "internal", FALSE)
        /\ UNCHANGED dom
  /\ UNCHANGED <<clones, vol, lease, machines>>

CreateStart(c) ==
  /\ At(c, "start")
  /\ \/ /\ Defined(call[c].vm) /\ ~dom[call[c].vm].on
        /\ dom' = [dom EXCEPT ![call[c].vm].on = TRUE]
        /\ Become(c, [call[c] EXCEPT !.pc = "wait", !.started = TRUE])
     \/ /\ Return(c, Wrapped(call[c].vm), FALSE)
        /\ UNCHANGED dom
  /\ UNCHANGED <<clones, vol, lease, machines>>

\* WaitForIP returns an address or, after the timeout, an error.
CreateWait(c) ==
  /\ At(c, "wait")
  /\ \E a \in {lease[call[c].vm], NoIP} :
       Become(c, [call[c] EXCEPT !.pc = "info", !.addr = a])
  /\ UNCHANGED <<host, machines>>

\* Broken: an IP timeout is a success unless the disk was to be grown.
CreateInfo_OnlyGrow(c) ==
  /\ At(c, "info")
  /\ \/ /\ Defined(call[c].vm) /\ call[c].addr # NoIP
        /\ Goto(c, IF Wants(c, "noclone") THEN "auth" ELSE "forget_ip")
     \/ /\ Defined(call[c].vm) /\ call[c].addr = NoIP
        /\ Return(c, IF Wants(c, "size") THEN "internal" ELSE "ok", TRUE)
     \/ Return(c, Wrapped(call[c].vm), FALSE)
  /\ UNCHANGED <<host, machines>>

CreateInfo(c) ==
  /\ At(c, "info")
  /\ \/ /\ Defined(call[c].vm) /\ call[c].addr # NoIP
        /\ Goto(c, IF Wants(c, "noclone") THEN "auth" ELSE "forget_ip")
     \/ /\ Defined(call[c].vm) /\ call[c].addr = NoIP
        /\ Return(c, IF call[c].opt \cap {"size", "playbook", "bad_playbook"} # {}
                       THEN "internal" ELSE "ok", TRUE)
     \/ Return(c, Wrapped(call[c].vm), FALSE)
  /\ UNCHANGED <<host, machines>>

CreateForgetIP(c) ==
  /\ At(c, "forget_ip")
  /\ \/ Forgets({call[c].addr}) /\ Goto(c, "auth")
     \/ ForgetsSome({call[c].addr}) /\ Return(c, "internal", TRUE)
  /\ UNCHANGED host

AfterGrow(c) == IF call[c].opt \cap {"playbook", "bad_playbook"} # {}
                  THEN "playbook" ELSE "final"

\* ResolveAuth and WriteInventory
CreateAuth(c) ==
  /\ At(c, "auth")
  /\ LET auth == ResolveAuth(call[c].addr, call[c].vm) IN
     \/ Become(c, [call[c] EXCEPT !.auth = auth,
                      !.pc = IF Wants(c, "size") THEN "grow" ELSE AfterGrow(c)])
     \/ /\ Wants(c, "inventory")
        /\ Return(c, "internal", TRUE)
  /\ UNCHANGED <<host, machines>>

CreateGrow(c) ==
  /\ At(c, "grow")
  /\ \/ Become(c, [call[c] EXCEPT !.did = @ \cup {"grow"}, !.pc = AfterGrow(c)])
     \/ Return(c, "internal", TRUE)
  /\ UNCHANGED <<host, machines>>

\* resolvePlaybook, then RunPlaybook
CreatePlaybook(c) ==
  /\ At(c, "playbook")
  /\ \/ /\ Wants(c, "bad_playbook")
        /\ Return(c, "invalid", TRUE)
        /\ UNCHANGED machines
     \/ /\ Wants(c, "playbook")
        /\ \/ Become(c, [call[c] EXCEPT !.did = @ \cup {"playbook"}, !.pc = "reboot"])
           \/ Return(c, "internal", TRUE)
        /\ PlaybookStores(c)
  /\ UNCHANGED host

CreateReboot(c) ==
  /\ At(c, "reboot")
  /\ \/ /\ Defined(call[c].vm) /\ dom[call[c].vm].on
        /\ Become(c, [call[c] EXCEPT !.did = @ \cup {"reboot"}, !.pc = "final"])
     \/ Return(c, Wrapped(call[c].vm), TRUE)
  /\ UNCHANGED <<host, machines>>

CreateFinal(c) ==
  /\ At(c, "final")
  /\ \/ Defined(call[c].vm) /\ Return(c, "ok", TRUE)
     \/ Return(c, Wrapped(call[c].vm), FALSE)
  /\ UNCHANGED <<host, machines>>

CreateVM(c) == \/ CreateBegin(c) \/ CreateForget(c) \/ CreateClone(c)
               \/ CreatePrepare(c) \/ CreateDefine(c) \/ CreateStart(c)
               \/ CreateWait(c) \/ CreateInfo(c) \/ CreateForgetIP(c)
               \/ CreateAuth(c) \/ CreateGrow(c) \/ CreatePlaybook(c)
               \/ CreateReboot(c) \/ CreateFinal(c)

\* handlers.CreateVM
Status(c) == CASE call[c].kind = "ok"        -> 201
               [] call[c].kind = "invalid"   -> 400
               [] call[c].kind = "not_found" -> 404
               [] OTHER                      -> 500
BodyHasVM(c) == Status(c) \in {201, 500} /\ call[c].info

-----------------------------------------------------------------------------
(* DeleteVM                                                                *)

\* Info, whose failure is ignored.
DeleteBegin(c) ==
  /\ At(c, "idle")
  /\ \E v \in VMs, keep \in BOOLEAN : \E a \in {lease[v], NoIP} :
       Become(c, [NoCall EXCEPT !.pc = "delete", !.op = "delete",
                                !.vm = v, !.keep = keep, !.addr = a])
  /\ UNCHANGED <<host, machines>>

\* Manager.Delete, which may fail before or after the domain is undefined.
DeleteDomain(c) ==
  /\ At(c, "delete")
  /\ LET v == call[c].vm IN
     \/ /\ Defined(v)
        /\ dom' = [dom EXCEPT ![v] = NoDomain]
        /\ lease' = [lease EXCEPT ![v] = NoIP]
        /\ \/ /\ vol' = [w \in VMs |-> IF ~call[c].keep /\ vol[w] = dom[v].guest
                                        THEN None ELSE vol[w]]
              /\ IF call[c].keep THEN Return(c, "ok", FALSE)
                                 ELSE Goto(c, "delete_forget")
           \/ /\ ~call[c].keep
              /\ Return(c, "internal", FALSE)
              /\ UNCHANGED vol
     \/ /\ Return(c, Wrapped(v), FALSE)
        /\ UNCHANGED <<dom, lease, vol>>
  /\ UNCHANGED <<clones, machines>>

DeleteForget(c) ==
  /\ At(c, "delete_forget")
  /\ LET keys == {call[c].vm, call[c].addr} IN
     \/ Forgets(keys) /\ Return(c, "ok", FALSE)
     \/ ForgetsSome(keys) /\ Return(c, "internal", FALSE)
  /\ UNCHANGED host

DeleteVM(c) == DeleteBegin(c) \/ DeleteDomain(c) \/ DeleteForget(c)

-----------------------------------------------------------------------------
(* RunPlaybook, and the calls that turn a VM on or off                     *)

PlaybookBegin(c) ==
  /\ At(c, "idle")
  /\ \E v \in VMs :
       LET r == [NoCall EXCEPT !.op = "playbook", !.vm = v] IN
       \/ /\ Defined(v) /\ lease[v] # NoIP
          /\ Become(c, [r EXCEPT !.pc = "play", !.addr = lease[v]])
       \/ /\ Defined(v) /\ lease[v] = NoIP
          /\ Become(c, [r EXCEPT !.pc = "answer", !.kind = "conflict"])
       \/ Become(c, [r EXCEPT !.pc = "answer", !.kind = Wrapped(v)])
       \/ Become(c, [r EXCEPT !.pc = "answer", !.kind = "invalid"])
  /\ UNCHANGED <<host, machines>>

PlaybookRun(c) ==
  /\ At(c, "play")
  /\ \E k \in {"ok", "internal"} :
       Become(c, [call[c] EXCEPT !.pc = "answer", !.kind = k,
                                 !.auth = ResolveAuth(call[c].addr, call[c].vm)])
  /\ PlaybookStores(c)
  /\ UNCHANGED host

RunPlaybook(c) == PlaybookBegin(c) \/ PlaybookRun(c)

\* StartVM, StopVM, PoweroffVM
Power(c) ==
  /\ At(c, "idle")
  /\ \E v \in VMs : /\ Defined(v)
                    /\ dom' = [dom EXCEPT ![v].on = ~@]
                    /\ lease' = [lease EXCEPT ![v] = NoIP]
  /\ UNCHANGED <<clones, vol, machines, call>>

Answer(c) == /\ At(c, "answer")
             /\ Become(c, NoCall)
             /\ UNCHANGED <<host, machines>>

\* The process is killed.
Dies(c) == /\ call[c].pc \notin {"idle", "answer"}
           /\ Become(c, NoCall)
           /\ UNCHANGED <<host, machines>>

-----------------------------------------------------------------------------
(* External: DHCP, and an operator who runs setup_bot.yml by address       *)

Lease(v) ==
  /\ dom[v].on /\ lease[v] = NoIP
  /\ \E a \in IPs : /\ \A w \in VMs : lease[w] # a
                    /\ lease' = [lease EXCEPT ![v] = a]
  /\ UNCHANGED <<clones, vol, dom, machines, call>>

Operator(v) ==
  /\ lease[v] # NoIP
  /\ machines' = [machines EXCEPT ![lease[v]] = dom[v].guest]
  /\ UNCHANGED <<host, call>>

Next == \/ \E c \in Clients : \/ CreateVM(c) \/ DeleteVM(c) \/ RunPlaybook(c)
                             \/ Power(c) \/ Answer(c) \/ Dies(c)
        \/ \E v \in VMs : Lease(v) \/ Operator(v)

Spec == Init /\ [][Next]_vars

-----------------------------------------------------------------------------
(* Properties                                                              *)

Answered(c) == At(c, "answer") /\ call[c].op = "create"

\* 201: the domain was started and all that was asked of it succeeded; only
\* when nothing was may the address be missing (spec-first.md, create matrix).
CreatedMeansDone ==
  \A c \in Clients : Answered(c) /\ Status(c) = 201 =>
    /\ call[c].started
    /\ Wants(c, "size") => "grow" \in call[c].did
    /\ ~Wants(c, "bad_playbook")
    /\ Wants(c, "playbook") => {"playbook", "reboot"} \subseteq call[c].did

OwnAuth(c) == call[c].auth \in {None, dom[call[c].vm].guest}

\* A create that clones its disk logs in, to grow the filesystem and to run the
\* playbook, with the caller's credentials or those of its own guest, never with
\* what a previous VM of its name or address left behind.
CreateAuthFits ==
  \A c \in Clients :
    call[c].op = "create" /\ ~Wants(c, "noclone") /\ call[c].pc \in {"grow", "playbook"}
      => OwnAuth(c)

\* The same of a create with noclone, which forgets nothing, and of RunPlaybook,
\* whose address may be one that another VM had; the code has neither.
NocloneAuthFits ==
  \A c \in Clients :
    call[c].op = "create" /\ Wants(c, "noclone") /\ call[c].pc \in {"grow", "playbook"}
      => OwnAuth(c)
PlaybookAuthFits == [][\A c \in Clients : PlaybookRun(c) => OwnAuth(c)']_vars

\* A failed create with a VM to show says so: 500, not 400 or 404.
FailureIs500 ==
  \A c \in Clients : Answered(c) /\ call[c].started => Status(c) \in {201, 500}

\* "Failure after the domain exists: (*VMInfo, *Error)"
FailureShowsVM ==
  \A c \in Clients : Answered(c) /\ call[c].started /\ Status(c) = 500 => BodyHasVM(c)

\* CreateVM drops credentials "left by a previous VM of the same name", not
\* those of a VM that is there.
DropsOnlyPrevious ==
  [][\A v \in VMs : (\E c \in Clients : At(c, "forget") /\ call[c].vm = v)
       => (machines[v] # None /\ machines[v] = dom[v].guest => machines'[v] = machines[v])]_vars
=============================================================================
