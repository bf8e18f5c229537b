--------------------------- MODULE ManagerProofs ---------------------------
(***************************************************************************)
(* Proofs about Manager, for any number of clients, VMs, pools and faults: *)
(* its types and the locals of its calls, whatever operations run; who     *)
(* owns the volumes, for the plain operations; and, for one client at a    *)
(* time, that a migration loses no disk either.                            *)
(***************************************************************************)
EXTENDS Manager, TLAPS

(***************************************************************************)
(* Type correctness.  TypeOK is inductive together with TypeInv's facts on *)
(* the locals that a pc relies on.                                         *)
(***************************************************************************)
CallOK(f) ==
  /\ f \in [Clients -> Call]
  /\ \A c \in Clients :
       /\ f[c].pc # "idle" => f[c].vm \in VMs
       /\ f[c].pc = "migrate_define" => f[c].new \in Path

DomOK(f) == f \in [VMs -> Domain]

LEMMA BecomeOK ==
  ASSUME CallOK(call), NEW c \in Clients, NEW l \in Call, Become(c, l),
         l.pc # "idle" => l.vm \in VMs,
         l.pc = "migrate_define" => l.new \in Path
  PROVE  CallOK(call')
BY DEF CallOK, Become

LEMMA ReturnOK ==
  ASSUME CallOK(call), NEW c \in Clients, NEW r \in {"none", "ok", "err", "died"},
         Return(c, r)
  PROVE  CallOK(call')
<1>1. NoCall(r) \in Call
  BY DEF NoCall, Call, PCs, Power
<1> QED BY <1>1, BecomeOK DEF Return, NoCall

LEMMA GotoOK ==
  ASSUME CallOK(call), NEW c \in Clients, NEW pc \in PCs \ {"migrate_define"},
         call[c].pc # "idle", Goto(c, pc)
  PROVE  CallOK(call')
<1>1. [call[c] EXCEPT !.pc = pc] \in Call
  BY DEF CallOK, Call
<1> QED BY <1>1, BecomeOK DEF Goto, CallOK, Call

\* What the RPCs do to the domains keeps their type.
LEMMA ReplaceOK ==
  ASSUME DomOK(dom), NEW v \in VMs, NEW r \in Domain,
         dom' = [dom EXCEPT ![v] = r]
  PROVE  DomOK(dom')
BY DEF DomOK

LEMMA EffectsOK ==
  ASSUME DomOK(dom), NEW v \in VMs
  PROVE  /\ \A id \in Uuids \cup {None}, D \in SUBSET Disk : DefineXML(v, id, D) => DomOK(dom')
         /\ Create(v) => DomOK(dom')
         /\ PowerOff(v) => DomOK(dom')
         /\ Undefine(v) => DomOK(dom')
         /\ \A d \in Disk, b \in BOOLEAN : Attach(v, d, b) => DomOK(dom')
         /\ Unpause(v) => DomOK(dom')
<1>0. Absent \in Domain
  BY DEF Absent, Domain, Power
<1>a. dom[v] \in Domain
  BY DEF DomOK
<1>1. ASSUME NEW id \in Uuids \cup {None}, NEW D \in SUBSET Disk, DefineXML(v, id, D)
      PROVE  DomOK(dom')
  <2>1. [dom[v] EXCEPT !.id = id, !.persistent = TRUE, !.config = D] \in Domain
    BY <1>a DEF Domain
  <2> QED BY <1>1, <2>1, ReplaceOK DEF DefineXML, DomOK
<1>2. ASSUME Create(v) PROVE DomOK(dom')
  <2>1. [dom[v] EXCEPT !.power = "running", !.live = dom[v].config] \in Domain
    BY <1>a DEF Domain, Power
  <2> QED BY <1>2, <2>1, ReplaceOK DEF Create, DomOK
<1>3. ASSUME PowerOff(v) PROVE DomOK(dom')
  <2>1. [dom[v] EXCEPT !.power = "shutoff", !.live = {}] \in Domain
    BY <1>a DEF Domain, Power
  <2> QED BY <1>3, <1>0, <2>1, ReplaceOK DEF PowerOff, DomOK
<1>4. ASSUME Undefine(v) PROVE DomOK(dom')
  <2>1. [dom[v] EXCEPT !.persistent = FALSE, !.config = {}] \in Domain
    BY <1>a DEF Domain
  <2> QED BY <1>4, <1>0, <2>1, ReplaceOK DEF Undefine, DomOK
<1>5. ASSUME NEW d \in Disk, NEW b \in BOOLEAN, Attach(v, d, b) PROVE DomOK(dom')
  <2> DEFINE L == dom[v].live \cup {e \in {d} : b}
             r == [dom[v] EXCEPT !.config = dom[v].config \cup {d}, !.live = L]
  <2>1. L \in SUBSET Disk
    BY <1>a DEF Domain
  <2>2. dom' = [dom EXCEPT ![v] = r]
    BY <1>5 DEF Attach, DomOK
  <2> HIDE DEF L
  <2>3. r \in Domain
    BY <1>a, <2>1 DEF Domain
  <2> QED BY <2>2, <2>3, ReplaceOK
<1>6. ASSUME Unpause(v) PROVE DomOK(dom')
  <2>1. [dom[v] EXCEPT !.power = "running"] \in Domain
    BY <1>a DEF Domain, Power
  <2> QED BY <1>6, <2>1, ReplaceOK DEF Unpause, DomOK
<1> QED BY <1>1, <1>2, <1>3, <1>4, <1>5, <1>6

\* An error return keeps every type.
TypeInv == /\ vols \subseteq Path
           /\ DomOK(dom)
           /\ CallOK(call)
           /\ faults \in 0..MaxFaults

LEMMA FailsOK ==
  ASSUME faults \in 0..MaxFaults, NEW can, Fails(can)
  PROVE  faults' \in 0..MaxFaults
BY ManagerAssumption DEF Fails

LEMMA ReturnErrOK ==
  ASSUME TypeInv, NEW c \in Clients, NEW can, ReturnErr(c, can)
  PROVE  TypeInv'
BY ReturnOK, FailsOK DEF ReturnErr, TypeInv, hostVars, DomOK

LEMMA MakeVolOK ==
  ASSUME TypeInv, NEW c \in Clients, NEW p, NEW can, NEW l, MakeVol(c, p, can, l),
         can => CanCreateVol(p),
         CanCreateVol(p) /\ Become(c, l) => CallOK(call')
  PROVE  TypeInv'
<1>1. CASE CanCreateVol(p) /\ CreateVol(p) /\ Become(c, l) /\ UNCHANGED <<dom, faults>>
  BY <1>1 DEF TypeInv, DomOK, CanCreateVol, CreateVol
<1>2. CASE CanCreateVol(p) /\ CreateVol(p) /\ Fails(TRUE) /\ Return(c, "err") /\ UNCHANGED dom
  BY <1>2, ReturnOK, FailsOK DEF TypeInv, DomOK, CanCreateVol, CreateVol
<1> QED BY <1>1, <1>2, ReturnErrOK DEF MakeVol

\* The locals a lookup starts with.
LEMMA FirstLocals ==
  ASSUME NEW v \in VMs, NEW pc \in PCs, NEW h \in Uuids \cup {None}
  PROVE  /\ [NoCall("none") EXCEPT !.pc = pc, !.vm = v] \in Call
         /\ [NoCall("none") EXCEPT !.pc = pc, !.vm = v, !.hnd = h] \in Call
BY DEF NoCall, Call, Power

LEMMA LookupOK ==
  ASSUME TypeInv, NEW c \in Clients, NEW op, NEW pc \in PCs \ {"migrate_define"},
         Lookup(c, op, pc)
  PROVE  TypeInv'
<1>1. PICK v \in VMs : Become(c, [NoCall("none") EXCEPT !.pc = pc, !.vm = v,
                                                        !.hnd = dom[v].id])
  BY DEF Lookup
<1> DEFINE l == [NoCall("none") EXCEPT !.pc = pc, !.vm = v, !.hnd = dom[v].id]
<1>2. dom[v].id \in Uuids \cup {None}
  BY DEF TypeInv, DomOK, Domain
<1>3. l \in Call /\ l.pc = pc /\ l.vm = v
  BY <1>2, FirstLocals DEF NoCall
<1> HIDE DEF l
<1>4. CallOK(call')
  BY <1>1, <1>3, BecomeOK DEF TypeInv, l
<1> QED BY <1>4 DEF Lookup, TypeInv, DomOK

LEMMA GetStateOK ==
  ASSUME TypeInv, NEW c \in Clients, NEW pc \in PCs \ {"migrate_define"},
         call[c].pc # "idle", GetState(c, pc)
  PROVE  TypeInv'
<1> DEFINE l == [call[c] EXCEPT !.pc = pc, !.seen = dom[call[c].vm].power]
<1>1. call[c] \in Call /\ call[c].vm \in VMs
  BY DEF TypeInv, CallOK
<1>2. dom[call[c].vm].power \in Power
  BY <1>1 DEF TypeInv, DomOK, Domain
<1>3. l \in Call /\ l.pc = pc /\ l.vm = call[c].vm
  BY <1>1, <1>2 DEF Call
<1> HIDE DEF l
<1>4. CallOK(call')
  BY <1>1, <1>3, BecomeOK DEF TypeInv, GetState, l
<1> QED BY <1>4 DEF GetState, TypeInv, DomOK

LEMMA CreateTypes ==
  ASSUME TypeInv, NEW c \in Clients, CreateVM(c)
  PROVE  TypeInv'
<1>a. call[c] \in Call /\ (call[c].pc # "idle" => call[c].vm \in VMs)
  BY DEF TypeInv, CallOK
<1>1. CASE CreateBegin(c)
  <2>1. PICK v \in VMs : Become(c, [NoCall("none") EXCEPT !.pc = "create_clone", !.vm = v])
    BY <1>1 DEF CreateBegin
  <2> DEFINE l == [NoCall("none") EXCEPT !.pc = "create_clone", !.vm = v]
  <2>2. l \in Call /\ l.pc = "create_clone" /\ l.vm = v
    BY FirstLocals DEF NoCall, PCs, CreatePCs
  <2> HIDE DEF l
  <2>3. CallOK(call')
    BY <2>1, <2>2, BecomeOK DEF TypeInv, l
  <2> QED BY <1>1, <2>3 DEF CreateBegin, TypeInv, DomOK
<1>2. CASE CreateClone(c)
  <2> DEFINE l(g, p) == [call[c] EXCEPT
                          !.pc = IF g THEN "create_resize" ELSE "create_extra",
                          !.disks = {[target |-> 1, path |-> p]}]
  <2>1. ASSUME NEW g \in BOOLEAN, NEW p \in Path
        PROVE  /\ l(g, p) \in Call /\ l(g, p).vm = call[c].vm
               /\ l(g, p).pc \in {"create_resize", "create_extra"}
    <3>1. {[target |-> 1, path |-> p]} \in SUBSET Disk
      BY LibvirtAssumption DEF Disk, Target
    <3>2. CASE g
      BY <1>a, <3>1, <3>2 DEF Call, PCs, CreatePCs
    <3>3. CASE ~g
      BY <1>a, <3>1, <3>3 DEF Call, PCs, CreatePCs
    <3> QED BY <3>2, <3>3
  <2>2. call[c].pc # "idle"
    BY <1>2 DEF CreateClone, At
  <2> HIDE DEF l
  <2>3. \A g \in BOOLEAN, p \in Path : Become(c, l(g, p)) => CallOK(call')
    BY <1>a, <2>1, <2>2, BecomeOK DEF TypeInv
  <2>4. PICK image \in Images, grow \in BOOLEAN :
          \/ image \in vols /\ Become(c, l(grow, image)) /\ UNCHANGED <<vols, dom, faults>>
          \/ \E pool \in PoolArgs :
               LET p == <<pool, CloneVol(call[c].vm)>>
               IN MakeVol(c, p, image \in vols /\ CanCreateVol(p), l(grow, p))
    BY <1>2 DEF CreateClone, l
  <2>5. CASE image \in vols /\ Become(c, l(grow, image)) /\ UNCHANGED <<vols, dom, faults>>
    BY <2>3, <2>5 DEF TypeInv, DomOK
  <2>6. ASSUME NEW p, MakeVol(c, p, image \in vols /\ CanCreateVol(p), l(grow, p))
        PROVE  TypeInv'
    <3>1. CanCreateVol(p) /\ Become(c, l(grow, p)) => CallOK(call')
      BY <2>3 DEF CanCreateVol
    <3> QED BY <2>6, <3>1, MakeVolOK
  <2> QED BY <2>4, <2>5, <2>6
<1>3. CASE CreateResize(c)
  BY <1>3, GotoOK, ReturnErrOK DEF CreateResize, TypeInv, DomOK, At, PCs, CreatePCs
<1>4. CASE CreateExtra(c)
  <2>0. call[c].pc # "idle"
    BY <1>4 DEF CreateExtra, At
  <2>1. CASE Goto(c, "create_define") /\ UNCHANGED <<vols, dom, faults>>
    BY <2>0, <2>1, GotoOK DEF TypeInv, DomOK, PCs, CreatePCs
  <2> DEFINE l(p) == [call[c] EXCEPT !.pc = "create_define",
                        !.disks = @ \cup {[target |-> 2, path |-> p]}]
  <2>2. ASSUME NEW p, 2 \in Target, CanCreateVol(p), Become(c, l(p))
        PROVE  CallOK(call')
    <3>0. call[c].disks \cup {[target |-> 2, path |-> p]} \in SUBSET Disk
      BY <1>a, <2>2 DEF Call, Disk, CanCreateVol
    <3>1. l(p) \in Call /\ l(p).vm = call[c].vm /\ l(p).pc = "create_define"
      BY <1>a, <3>0 DEF Call, PCs, CreatePCs
    <3> HIDE DEF l
    <3> QED BY <1>a, <2>0, <2>2, <3>1, BecomeOK DEF TypeInv
  <2>3. ASSUME NEW p, 2 \in Target, MakeVol(c, p, CanCreateVol(p), l(p))
        PROVE  TypeInv'
    <3> HIDE DEF l
    <3> QED BY <2>2, <2>3, MakeVolOK
  <2> QED BY <1>4, <2>1, <2>3 DEF CreateExtra
<1>5. CASE CreateDefine(c)
  <2>1. call[c].pc # "idle" /\ call[c].vm \in VMs /\ call[c].disks \in SUBSET Disk
    BY <1>a, <1>5 DEF CreateDefine, At, Call
  <2>2. ASSUME NEW id \in Uuids, DefineXML(call[c].vm, id, call[c].disks),
               Goto(c, "create_start"), UNCHANGED <<vols, faults>>
        PROVE  TypeInv'
    BY <2>1, <2>2, EffectsOK, GotoOK DEF TypeInv, PCs, CreatePCs
  <2> QED BY <1>5, <2>2, ReturnErrOK DEF CreateDefine
<1>6. CASE CreateStart(c)
  <2>1. call[c].vm \in VMs
    BY <1>a, <1>6 DEF CreateStart, At
  <2> QED BY <1>6, <2>1, EffectsOK, ReturnOK, ReturnErrOK DEF CreateStart, TypeInv
<1> QED BY <1>1, <1>2, <1>3, <1>4, <1>5, <1>6 DEF CreateVM

\* A step that changes locals other than the vm.
LEMMA LocalsOK ==
  ASSUME TypeInv, NEW c \in Clients, call[c].pc # "idle",
         NEW pc \in PCs \ {"migrate_define"}, NEW D \in SUBSET Disk,
         Become(c, [call[c] EXCEPT !.pc = pc, !.disks = D])
  PROVE  CallOK(call')
<1> DEFINE l == [call[c] EXCEPT !.pc = pc, !.disks = D]
<1>1. call[c] \in Call /\ call[c].vm \in VMs
  BY DEF TypeInv, CallOK
<1>2. l \in Call /\ l.pc = pc /\ l.vm = call[c].vm
  BY <1>1 DEF Call
<1> HIDE DEF l
<1> QED BY <1>1, <1>2, BecomeOK DEF TypeInv, l

LEMMA XMLDescOK ==
  ASSUME TypeInv, NEW v \in VMs
  PROVE  XMLDesc(v) \in SUBSET Disk
BY DEF TypeInv, DomOK, Domain, XMLDesc

LEMMA AddTypes ==
  ASSUME TypeInv, NEW c \in Clients, AddDisk(c)
  PROVE  TypeInv'
<1> USE DEF PCs, AddPCs
<1>a. /\ call[c] \in Call /\ call[c].disks \in SUBSET Disk
      /\ call[c].pc # "idle" => call[c].vm \in VMs
  BY DEF TypeInv, CallOK, Call
<1>1. CASE AddBegin(c)
  BY <1>1, LookupOK DEF AddBegin
<1>2. CASE AddXML(c)
  <2>1. call[c].pc # "idle" /\ XMLDesc(call[c].vm) \in SUBSET Disk
    BY <1>a, <1>2, XMLDescOK DEF AddXML, At
  <2> QED BY <1>2, <2>1, LocalsOK, ReturnErrOK DEF AddXML, TypeInv, DomOK
<1>3. CASE AddVolume(c)
  <2>1. call[c].pc # "idle"
    BY <1>3 DEF AddVolume, At
  <2> DEFINE l(t, p) == [call[c] EXCEPT !.pc = "add_state",
                           !.disks = {[target |-> t, path |-> p]}]
  <2>2. ASSUME NEW t \in Target, NEW p, CanCreateVol(p), Become(c, l(t, p))
        PROVE  CallOK(call')
    <3>1. {[target |-> t, path |-> p]} \in SUBSET Disk
      BY <2>2 DEF Disk, CanCreateVol
    <3> QED BY <2>1, <2>2, <3>1, LocalsOK
  <2>3. ASSUME NEW t \in Target, NEW p, MakeVol(c, p, CanCreateVol(p), l(t, p))
        PROVE  TypeInv'
    <3> HIDE DEF l
    <3> QED BY <2>2, <2>3, MakeVolOK
  <2> QED BY <1>3, <2>3 DEF AddVolume, FreeTargets
<1>4. CASE AddState(c)
  <2>1. call[c].pc # "idle"
    BY <1>4 DEF AddState, At
  <2> QED BY <1>4, <2>1, GetStateOK, GotoOK, FailsOK DEF AddState, hostVars, TypeInv, DomOK
<1>5. CASE AddAttach(c)
  <2>1. call[c].pc # "idle" /\ call[c].vm \in VMs /\ WasActive(c) \in BOOLEAN
    BY <1>a, <1>5 DEF AddAttach, At, WasActive
  <2>2. ASSUME NEW d \in call[c].disks, Attach(call[c].vm, d, WasActive(c)),
               Return(c, "ok"), UNCHANGED <<vols, faults>>
        PROVE  TypeInv'
    BY <1>a, <2>1, <2>2, EffectsOK, ReturnOK DEF TypeInv
  <2>3. ASSUME NEW can, Fails(can), Goto(c, "add_rollback"), UNCHANGED hostVars
        PROVE  TypeInv'
    BY <2>1, <2>3, GotoOK, FailsOK DEF hostVars, TypeInv, DomOK
  <2> QED BY <1>5, <2>2, <2>3 DEF AddAttach
<1>6. CASE AddRollback(c)
  BY <1>6, ReturnOK, FailsOK DEF AddRollback, hostVars, DeleteVol, TypeInv, DomOK
<1> QED BY <1>1, <1>2, <1>3, <1>4, <1>5, <1>6 DEF AddDisk

LEMMA DeleteTypes ==
  ASSUME TypeInv, NEW c \in Clients, Delete(c)
  PROVE  TypeInv'
<1> USE DEF PCs, DeletePCs
<1>a. /\ call[c] \in Call /\ call[c].disks \in SUBSET Disk
      /\ call[c].pc # "idle" => call[c].vm \in VMs
  BY DEF TypeInv, CallOK, Call
<1>1. CASE DeleteBegin(c)
  BY <1>1, LookupOK DEF DeleteBegin
<1>2. CASE DeleteXML(c)
  <2>1. call[c].pc # "idle" /\ XMLDesc(call[c].vm) \in SUBSET Disk
    BY <1>a, <1>2, XMLDescOK DEF DeleteXML, At
  <2> QED BY <1>2, <2>1, LocalsOK, GotoOK, FailsOK DEF DeleteXML, hostVars, TypeInv, DomOK
<1>3. CASE DeleteState(c)
  <2>1. call[c].pc # "idle"
    BY <1>3 DEF DeleteState, At
  <2> QED BY <1>3, <2>1, GetStateOK, ReturnErrOK DEF DeleteState
<1>4. CASE DeleteDestroy(c)
  <2>1. call[c].pc # "idle" /\ call[c].vm \in VMs
    BY <1>a, <1>4 DEF DeleteDestroy, At
  <2> QED BY <1>4, <2>1, EffectsOK, GotoOK, ReturnErrOK DEF DeleteDestroy, TypeInv
<1>5. CASE DeleteUndefine(c)
  <2>1. call[c].pc # "idle" /\ call[c].vm \in VMs
    BY <1>a, <1>5 DEF DeleteUndefine, At
  <2> QED BY <1>5, <2>1, EffectsOK, GotoOK, ReturnOK, ReturnErrOK
          DEF DeleteUndefine, TypeInv
<1>6. CASE DeleteVols(c)
  <2>1. call[c].pc # "idle" /\ call[c].pc = "delete_vols"
    BY <1>6 DEF DeleteVols, At
  <2>2. ASSUME NEW d \in call[c].disks,
               \/ Return(c, "ok")
               \/ Become(c, [call[c] EXCEPT !.disks = call[c].disks \ {d}])
        PROVE  CallOK(call')
    <3>1. CASE Return(c, "ok")
      BY <3>1, ReturnOK DEF TypeInv
    <3>2. CASE Become(c, [call[c] EXCEPT !.disks = call[c].disks \ {d}])
      <4> DEFINE l == [call[c] EXCEPT !.disks = call[c].disks \ {d}]
      <4>1. l \in Call /\ l.pc = call[c].pc /\ l.vm = call[c].vm
        BY <1>a DEF Call
      <4> HIDE DEF l
      <4> QED BY <1>a, <2>1, <3>2, <4>1, BecomeOK DEF TypeInv, l
    <3> QED BY <2>2, <3>1, <3>2
  <2>3. PICK d \in call[c].disks :
          \/ /\ Return(c, "ok") \/ Become(c, [call[c] EXCEPT !.disks = call[c].disks \ {d}])
             /\ \/ DeleteVol(d.path) /\ UNCHANGED <<dom, faults>>
                \/ Fails(TRUE) /\ UNCHANGED hostVars
          \/ ReturnErr(c, TRUE)
    BY <1>6 DEF DeleteVols
  <2> QED BY <2>2, <2>3, FailsOK, ReturnErrOK DEF hostVars, DeleteVol, TypeInv, DomOK
<1> QED BY <1>1, <1>2, <1>3, <1>4, <1>5, <1>6 DEF Delete

LEMMA MigrateTypes ==
  ASSUME TypeInv, NEW c \in Clients, MigrateDisk(c)
  PROVE  TypeInv'
<1> USE DEF PCs, MigratePCs
<1>a. /\ call[c] \in Call /\ call[c].disks \in SUBSET Disk
      /\ call[c].hnd \in Uuids \cup {None}
      /\ call[c].pc # "idle" => call[c].vm \in VMs
      /\ call[c].pc = "migrate_define" => call[c].new \in Path
  BY DEF TypeInv, CallOK, Call
<1>1. CASE MigrateBegin(c)
  BY <1>1, LookupOK DEF MigrateBegin
<1>2. CASE MigrateState(c)
  <2>1. call[c].pc # "idle"
    BY <1>2 DEF MigrateState, At
  <2> QED BY <1>2, <2>1, GetStateOK, ReturnErrOK DEF MigrateState
<1>3. CASE MigrateXML(c)
  <2>1. call[c].pc # "idle" /\ XMLDesc(call[c].vm) \in SUBSET Disk
    BY <1>a, <1>3, XMLDescOK DEF MigrateXML, At
  <2>2. ASSUME NEW pc \in {"migrate_destroy", "migrate_copy"},
               Become(c, [call[c] EXCEPT !.disks = XMLDesc(call[c].vm), !.pc = pc]),
               UNCHANGED <<vols, dom, faults>>
        PROVE  TypeInv'
    <3>1. Become(c, [call[c] EXCEPT !.pc = pc, !.disks = XMLDesc(call[c].vm)])
      BY <1>a, <2>2 DEF Become, Call
    <3> QED BY <2>1, <2>2, <3>1, LocalsOK DEF TypeInv, DomOK
  <2> QED BY <1>3, <2>2, ReturnErrOK DEF MigrateXML
<1>4. CASE MigrateDestroy(c)
  <2>1. call[c].pc # "idle" /\ call[c].vm \in VMs
    BY <1>a, <1>4 DEF MigrateDestroy, At
  <2> QED BY <1>4, <2>1, EffectsOK, GotoOK, ReturnErrOK DEF MigrateDestroy, TypeInv
<1>5. CASE MigrateCopy(c)
  <2>1. call[c].pc # "idle"
    BY <1>5 DEF MigrateCopy, At
  <2>2. ASSUME NEW p, CanCreateVol(p),
               Become(c, [call[c] EXCEPT !.pc = "migrate_define", !.new = p])
        PROVE  CallOK(call')
    <3> DEFINE l == [call[c] EXCEPT !.pc = "migrate_define", !.new = p]
    <3>1. l \in Call /\ l.pc = "migrate_define" /\ l.vm = call[c].vm /\ l.new \in Path
      BY <1>a, <2>2 DEF Call, CanCreateVol
    <3> HIDE DEF l
    <3> QED BY <1>a, <2>1, <2>2, <3>1, BecomeOK DEF TypeInv, l
  <2>3. ASSUME NEW p, NEW d \in call[c].disks,
               MakeVol(c, p, d.path \in vols /\ CanCreateVol(p),
                       [call[c] EXCEPT !.pc = "migrate_define", !.new = p])
        PROVE  TypeInv'
    BY <2>2, <2>3, MakeVolOK
  <2> QED BY <1>5, <2>3 DEF MigrateCopy
<1>6. CASE MigrateDefine(c)
  <2>1. call[c].pc # "idle" /\ call[c].vm \in VMs /\ call[c].new \in Path
    BY <1>a, <1>6 DEF MigrateDefine, At
  <2>2. ASSUME NEW d \in call[c].disks, NEW D,
               D = (call[c].disks \ {d}) \cup {[target |-> d.target, path |-> call[c].new]},
               DefineXML(call[c].vm, call[c].hnd, D),
               Goto(c, "migrate_delete"), UNCHANGED <<vols, faults>>
        PROVE  TypeInv'
    <3>1. D \in SUBSET Disk
      BY <1>a, <2>1, <2>2 DEF Disk
    <3>2. DomOK(dom')
      BY <1>a, <2>1, <2>2, <3>1, EffectsOK DEF TypeInv
    <3> QED BY <2>1, <2>2, <3>2, GotoOK DEF TypeInv
  <2> QED BY <1>6, <2>2, ReturnErrOK DEF MigrateDefine, Replaced
<1>7. CASE MigrateDelete(c)
  BY <1>7, GotoOK, ReturnOK, ReturnErrOK DEF MigrateDelete, At, DeleteVol, TypeInv, DomOK
<1>8. CASE MigrateRestart(c)
  <2>1. call[c].vm \in VMs
    BY <1>a, <1>8 DEF MigrateRestart, At
  <2> QED BY <1>8, <2>1, EffectsOK, ReturnOK, ReturnErrOK DEF MigrateRestart, TypeInv
<1> QED BY <1>1, <1>2, <1>3, <1>4, <1>5, <1>6, <1>7, <1>8 DEF MigrateDisk

LEMMA OtherTypes ==
  ASSUME TypeInv, NEW c \in Clients,
         \/ Start(c) \/ Destroy(c) \/ Resume(c) \/ Stop(c)
         \/ DeleteImage(c) \/ Dies(c)
  PROVE  TypeInv'
<1> USE DEF PCs
<1>a. call[c].pc # "idle" => call[c].vm \in VMs
  BY DEF TypeInv, CallOK
<1>1. CASE Start(c)
  BY <1>1, EffectsOK, ReturnOK, ReturnErrOK DEF Start, OneRPC, TypeInv
<1>2. CASE Destroy(c)
  BY <1>2, EffectsOK, ReturnOK, ReturnErrOK DEF Destroy, OneRPC, TypeInv
<1>3. CASE Resume(c)
  BY <1>3, EffectsOK, ReturnOK, ReturnErrOK DEF Resume, OneRPC, TypeInv, Power
<1>4. CASE StopBegin(c)
  BY <1>4, LookupOK DEF StopBegin
<1>5. CASE StopState(c)
  <2>1. call[c].pc # "idle" /\ call[c].vm \in VMs
    BY <1>a, <1>5 DEF StopState, At
  <2> QED BY <1>5, <2>1, EffectsOK, GotoOK, ReturnErrOK DEF StopState, TypeInv, Power, DomOK
<1>6. CASE StopShutdown(c)
  BY <1>6, ReturnOK, ReturnErrOK DEF StopShutdown, TypeInv, DomOK
<1>7. CASE DeleteImage(c)
  BY <1>7, ReturnOK, ReturnErrOK DEF DeleteImage, DeleteVol, TypeInv, DomOK
<1>8. CASE Dies(c)
  BY <1>8, ReturnOK DEF Dies, TypeInv, DomOK
<1> QED BY <1>1, <1>2, <1>3, <1>4, <1>5, <1>6, <1>7, <1>8 DEF Stop

\* Every step keeps every variable within its type, whatever operations run.
LEMMA TypeStep == TypeInv /\ [Next]_vars => TypeInv'
<1> SUFFICES ASSUME TypeInv, [Next]_vars PROVE TypeInv'
  OBVIOUS
<1>1. CASE UNCHANGED vars
  BY <1>1 DEF vars, TypeInv, DomOK, CallOK
<1>2. ASSUME NEW c \in Clients,
             \/ CreateVM(c) \/ AddDisk(c) \/ Delete(c) \/ MigrateDisk(c)
             \/ Start(c) \/ Destroy(c) \/ Resume(c) \/ Stop(c)
             \/ DeleteImage(c) \/ Dies(c)
      PROVE  TypeInv'
  BY <1>2, CreateTypes, AddTypes, DeleteTypes, MigrateTypes, OtherTypes
<1>3. ASSUME NEW v \in VMs, Guest(v) PROVE TypeInv'
  <2>1. CASE GuestPowersOff(v)
    BY <1>3, <2>1, EffectsOK DEF Guest, GuestPowersOff, TypeInv, CallOK
  <2>2. CASE Suspend(v)
    <3>1. [dom[v] EXCEPT !.power = "paused"] \in Domain
      BY DEF TypeInv, DomOK, Domain, Power
    <3>2. DomOK(dom')
      BY <2>2, <3>1, ReplaceOK DEF Suspend, TypeInv, DomOK
    <3> QED BY <1>3, <2>2, <3>2 DEF Guest, Suspend, TypeInv, CallOK
  <2> QED BY <1>3, <2>1, <2>2 DEF Guest
<1> QED BY <1>1, <1>2, <1>3 DEF Next

LEMMA TypeInit == Init => TypeInv
<1> SUFFICES ASSUME Init PROVE TypeInv
  OBVIOUS
<1>1. NoCall("none") \in Call
  BY DEF NoCall, Call, PCs, Power
<1>2. Absent \in Domain
  BY DEF Absent, Domain, Power
<1> QED BY <1>1, <1>2, LibvirtAssumption, ManagerAssumption
        DEF Init, HostInit, TypeInv, DomOK, CallOK, NoCall

\* Manager never leaves its types, for every choice of operations.
THEOREM TypeCorrect == Spec => []TypeOK
<1>1. TypeInv => TypeOK
  BY DEF TypeInv, TypeOK, HostTypeOK, DomOK, CallOK
<1> QED BY <1>1, TypeInit, TypeStep, PTL DEF Spec

(***************************************************************************)
(* What the locals of a call look like at each step, whatever operations   *)
(* run: an operation that is under way has no result yet, an AddDisk holds *)
(* one disk, no two disks have one target, and a Delete with noclone has   *)
(* read no disks.                                                          *)
(***************************************************************************)
Distinct(D) == \A d, e \in D : d.target = e.target => d = e

HoldsOneDisk == {"add_state", "add_attach", "add_rollback"}

LocalOK(l) ==
  /\ l.pc # "idle" => l.result = "none"
  /\ Distinct(l.disks)
  /\ l.pc \in HoldsOneDisk => \E d \in l.disks : l.disks = {d}
  /\ l.pc \in {"create_resize", "create_extra"} => \A d \in l.disks : d.target = 1
  /\ "delete" \notin Ops /\ l.pc \in DeletePCs =>
       l.pc \notin {"delete_xml", "delete_vols"} /\ l.disks = {}

DomDistinct(f) == \A v \in VMs : Distinct(f[v].config) /\ Distinct(f[v].live)

Shape == /\ \A c \in Clients : LocalOK(call[c])
         /\ DomDistinct(dom)

\* A step of c changes its own locals only, to some that are as they should be.
StepOf(c) == \E l : Become(c, l) /\ LocalOK(l)

LEMMA OthersKeep ==
  ASSUME TypeInv, NEW c \in Clients, NEW l, Become(c, l)
  PROVE  call'[c] = l /\ \A b \in Clients : b # c => call'[b] = call[b]
BY DEF TypeInv, CallOK, Become

LEMMA ReturnShape ==
  ASSUME NEW c \in Clients, NEW r, Return(c, r)
  PROVE  StepOf(c)
<1>1. NoCall(r).pc = "idle" /\ NoCall(r).disks = {}
  BY DEF NoCall
<1>2. LocalOK(NoCall(r))
  BY <1>1 DEF LocalOK, Distinct, HoldsOneDisk, DeletePCs
<1> QED BY <1>2 DEF Return, StepOf

LEMMA ReturnErrShape ==
  ASSUME NEW c \in Clients, NEW can, ReturnErr(c, can)
  PROVE  StepOf(c)
BY ReturnShape DEF ReturnErr

LEMMA GotoShape ==
  ASSUME TypeInv, Shape, NEW c \in Clients, NEW pc, Goto(c, pc), call[c].pc # "idle",
         pc \in HoldsOneDisk => call[c].pc \in HoldsOneDisk,
         pc \in {"create_resize", "create_extra"} => call[c].pc = "create_resize",
         pc \in DeletePCs => call[c].pc \in DeletePCs /\ pc # "delete_xml"
                             /\ (pc = "delete_vols" => call[c].disks # {})
  PROVE  StepOf(c)
<1> DEFINE l == [call[c] EXCEPT !.pc = pc]
<1>1. l.pc = pc /\ l.disks = call[c].disks /\ l.result = call[c].result
  BY DEF TypeInv, CallOK, Call
<1> HIDE DEF l
<1>2. LocalOK(call[c])
  BY DEF Shape
<1>3. LocalOK(l)
  BY <1>1, <1>2 DEF LocalOK
<1> QED BY <1>3 DEF Goto, StepOf, l

LEMMA GetStateShape ==
  ASSUME TypeInv, Shape, NEW c \in Clients, NEW pc, GetState(c, pc), call[c].pc # "idle",
         pc \in HoldsOneDisk => call[c].pc \in HoldsOneDisk,
         pc \notin {"create_resize", "create_extra", "delete_xml", "delete_vols"},
         pc \in DeletePCs => call[c].pc \in DeletePCs
  PROVE  StepOf(c)
<1> DEFINE l == [call[c] EXCEPT !.pc = pc, !.seen = dom[call[c].vm].power]
<1>1. l.pc = pc /\ l.disks = call[c].disks /\ l.result = call[c].result
  BY DEF TypeInv, CallOK, Call
<1>2. Become(c, l)
  BY DEF GetState
<1> HIDE DEF l
<1>3. LocalOK(call[c])
  BY DEF Shape
<1>4. LocalOK(l)
  BY <1>1, <1>3 DEF LocalOK
<1> QED BY <1>2, <1>4 DEF StepOf

LEMMA LookupShape ==
  ASSUME NEW c \in Clients, NEW op, NEW pc, Lookup(c, op, pc),
         pc \notin HoldsOneDisk \cup {"delete_vols"},
         pc = "delete_xml" => op = "delete"
  PROVE  StepOf(c)
<1>1. PICK v \in VMs : Become(c, [NoCall("none") EXCEPT !.pc = pc, !.vm = v,
                                                        !.hnd = dom[v].id])
  BY DEF Lookup
<1> DEFINE l == [NoCall("none") EXCEPT !.pc = pc, !.vm = v, !.hnd = dom[v].id]
<1>2. l.pc = pc /\ l.disks = {} /\ l.result = "none"
  BY DEF NoCall
<1> HIDE DEF l
<1>3. pc = "delete_xml" => "delete" \in Ops
  BY DEF Lookup
<1>4. LocalOK(l)
  BY <1>2, <1>3 DEF LocalOK, Distinct
<1> QED BY <1>1, <1>4 DEF StepOf, l

LEMMA MakeVolShape ==
  ASSUME NEW c \in Clients, NEW p, NEW can, NEW l, MakeVol(c, p, can, l), LocalOK(l)
  PROVE  StepOf(c)
<1>1. CASE Become(c, l)
  BY <1>1 DEF StepOf
<1> QED BY <1>1, ReturnShape, ReturnErrShape DEF MakeVol

\* What a domain has to show has distinct targets.
LEMMA XMLDistinct ==
  ASSUME Shape, NEW v \in VMs
  PROVE  Distinct(XMLDesc(v))
BY DEF Shape, DomDistinct, XMLDesc

LEMMA CreateShapes ==
  ASSUME TypeInv, Shape, NEW c \in Clients, CreateVM(c)
  PROVE  StepOf(c)
<1>a. call[c] \in Call /\ LocalOK(call[c])
  BY DEF TypeInv, CallOK, Shape
<1>1. CASE CreateBegin(c)
  <2>1. PICK v \in VMs : Become(c, [NoCall("none") EXCEPT !.pc = "create_clone", !.vm = v])
    BY <1>1 DEF CreateBegin
  <2> DEFINE l == [NoCall("none") EXCEPT !.pc = "create_clone", !.vm = v]
  <2>2. l.pc = "create_clone" /\ l.disks = {} /\ l.result = "none"
    BY DEF NoCall
  <2> HIDE DEF l
  <2>3. LocalOK(l)
    BY <2>2 DEF LocalOK, Distinct, HoldsOneDisk, DeletePCs
  <2> QED BY <2>1, <2>3 DEF StepOf, l
<1>2. CASE CreateClone(c)
  <2> DEFINE l(g, p) == [call[c] EXCEPT
                          !.pc = IF g THEN "create_resize" ELSE "create_extra",
                          !.disks = {[target |-> 1, path |-> p]}]
  <2>1. ASSUME NEW g \in BOOLEAN, NEW p PROVE LocalOK(l(g, p))
    <3> DEFINE d == [target |-> 1, path |-> p]
               k == l(g, p)
    <3>1. k.disks = {d} /\ d.target = 1 /\ k.result = call[c].result
      BY <1>a DEF Call
    <3>2. k.pc \in {"create_resize", "create_extra"}
      BY <1>a DEF Call
    <3>3. k.result = "none"
      BY <1>a, <1>2, <3>1 DEF LocalOK, CreateClone, At
    <3> HIDE DEF k, d
    <3>4. LocalOK(k)
      BY <3>1, <3>2, <3>3 DEF LocalOK, Distinct, HoldsOneDisk, DeletePCs
    <3> QED BY <3>4 DEF k
  <2>2. PICK image \in Images, grow \in BOOLEAN :
          \/ Become(c, l(grow, image))
          \/ \E pool \in PoolArgs :
               LET p == <<pool, CloneVol(call[c].vm)>>
               IN MakeVol(c, p, image \in vols /\ CanCreateVol(p), l(grow, p))
    BY <1>2 DEF CreateClone
  <2> HIDE DEF l
  <2>3. CASE Become(c, l(grow, image))
    BY <2>1, <2>3 DEF StepOf
  <2>4. ASSUME NEW p, MakeVol(c, p, image \in vols /\ CanCreateVol(p), l(grow, p))
        PROVE  StepOf(c)
    BY <2>1, <2>4, MakeVolShape
  <2> QED BY <2>2, <2>3, <2>4
<1>3. CASE CreateResize(c)
  <2>1. call[c].pc = "create_resize"
    BY <1>3 DEF CreateResize, At
  <2>2. CASE Goto(c, "create_extra")
    BY <2>1, <2>2, GotoShape DEF HoldsOneDisk, DeletePCs
  <2> QED BY <1>3, <2>2, ReturnErrShape DEF CreateResize
<1>4. CASE CreateExtra(c)
  <2>1. call[c].pc = "create_extra"
    BY <1>4 DEF CreateExtra, At
  <2>2. CASE Goto(c, "create_define")
    BY <2>1, <2>2, GotoShape DEF HoldsOneDisk, DeletePCs
  <2> DEFINE l(p) == [call[c] EXCEPT !.pc = "create_define",
                        !.disks = @ \cup {[target |-> 2, path |-> p]}]
  <2>3. ASSUME NEW p PROVE LocalOK(l(p))
    <3> DEFINE d == [target |-> 2, path |-> p]
               k == l(p)
    <3>1. k.disks = call[c].disks \cup {d} /\ k.result = call[c].result /\ d.target = 2
          /\ k.pc = "create_define"
      BY <1>a DEF Call
    <3> HIDE DEF k, d
    <3>2. k.result = "none" /\ Distinct(call[c].disks) /\ \A e \in call[c].disks : e.target = 1
      BY <1>a, <2>1, <3>1 DEF LocalOK
    <3>3. Distinct(k.disks)
      BY <3>1, <3>2 DEF Distinct
    <3>4. LocalOK(k)
      BY <3>1, <3>2, <3>3 DEF LocalOK, HoldsOneDisk, DeletePCs
    <3> QED BY <3>4 DEF k
  <2>4. ASSUME NEW p, MakeVol(c, p, CanCreateVol(p), l(p)) PROVE StepOf(c)
    <3> HIDE DEF l
    <3> QED BY <2>3, <2>4, MakeVolShape
  <2> QED BY <1>4, <2>2, <2>4 DEF CreateExtra
<1>5. CASE CreateDefine(c)
  <2>1. call[c].pc = "create_define"
    BY <1>5 DEF CreateDefine, At
  <2>2. CASE Goto(c, "create_start")
    BY <2>1, <2>2, GotoShape DEF HoldsOneDisk, DeletePCs
  <2> QED BY <1>5, <2>2, ReturnErrShape DEF CreateDefine
<1>6. CASE CreateStart(c)
  BY <1>6, ReturnShape, ReturnErrShape DEF CreateStart
<1> QED BY <1>1, <1>2, <1>3, <1>4, <1>5, <1>6 DEF CreateVM

\* New disks and a new pc, from what the domain shows.
LEMMA DisksShape ==
  ASSUME TypeInv, Shape, NEW c \in Clients, call[c].pc # "idle", NEW pc, NEW D,
         Become(c, [call[c] EXCEPT !.pc = pc, !.disks = D]), Distinct(D),
         pc \notin HoldsOneDisk \cup {"create_resize", "create_extra"},
         pc \in DeletePCs => "delete" \in Ops /\ pc \notin {"delete_xml", "delete_vols"}
  PROVE  StepOf(c)
<1> DEFINE l == [call[c] EXCEPT !.pc = pc, !.disks = D]
<1>1. l.pc = pc /\ l.disks = D /\ l.result = call[c].result
  BY DEF TypeInv, CallOK, Call
<1> HIDE DEF l
<1>2. call[c].result = "none"
  BY DEF Shape, LocalOK
<1>3. LocalOK(l)
  BY <1>1, <1>2 DEF LocalOK
<1> QED BY <1>3 DEF StepOf, l

LEMMA AddShapes ==
  ASSUME TypeInv, Shape, NEW c \in Clients, AddDisk(c)
  PROVE  StepOf(c)
<1> USE DEF HoldsOneDisk, DeletePCs
<1>a. call[c] \in Call /\ (call[c].pc # "idle" => call[c].vm \in VMs)
  BY DEF TypeInv, CallOK
<1>1. CASE AddBegin(c)
  BY <1>1, LookupShape DEF AddBegin
<1>2. CASE AddXML(c)
  <2>1. call[c].pc = "add_xml" /\ Distinct(XMLDesc(call[c].vm))
    BY <1>a, <1>2, XMLDistinct DEF AddXML, At
  <2>2. ASSUME NEW pc \in {"add_volume"},
               Become(c, [call[c] EXCEPT !.pc = pc, !.disks = XMLDesc(call[c].vm)])
        PROVE  StepOf(c)
    BY <2>1, <2>2, DisksShape
  <2> QED BY <1>2, <2>2, ReturnErrShape DEF AddXML
<1>3. CASE AddVolume(c)
  <2>1. call[c].pc = "add_volume"
    BY <1>3 DEF AddVolume, At
  <2> DEFINE l(t, p) == [call[c] EXCEPT !.pc = "add_state",
                           !.disks = {[target |-> t, path |-> p]}]
  <2>2. ASSUME NEW t, NEW p PROVE LocalOK(l(t, p))
    <3> DEFINE d == [target |-> t, path |-> p]
               k == l(t, p)
    <3>1. k.pc = "add_state" /\ k.disks = {d} /\ k.result = call[c].result
      BY <1>a DEF Call
    <3> HIDE DEF k, d
    <3>2. k.result = "none"
      BY <2>1, <3>1 DEF Shape, LocalOK
    <3>3. LocalOK(k)
      BY <3>1, <3>2 DEF LocalOK, Distinct
    <3> QED BY <3>3 DEF k
  <2>3. ASSUME NEW t, NEW p, MakeVol(c, p, CanCreateVol(p), l(t, p))
        PROVE  StepOf(c)
    <3> HIDE DEF l
    <3> QED BY <2>2, <2>3, MakeVolShape
  <2> QED BY <1>3, <2>3 DEF AddVolume
<1>4. CASE AddState(c)
  <2>1. call[c].pc = "add_state"
    BY <1>4 DEF AddState, At
  <2>2. CASE GetState(c, "add_attach")
    BY <2>1, <2>2, GetStateShape
  <2>3. CASE Goto(c, "add_rollback")
    BY <2>1, <2>3, GotoShape
  <2> QED BY <1>4, <2>2, <2>3 DEF AddState
<1>5. CASE AddAttach(c)
  <2>1. call[c].pc = "add_attach"
    BY <1>5 DEF AddAttach, At
  <2>2. CASE Goto(c, "add_rollback")
    BY <2>1, <2>2, GotoShape
  <2> QED BY <1>5, <2>2, ReturnShape DEF AddAttach
<1>6. CASE AddRollback(c)
  BY <1>6, ReturnShape DEF AddRollback
<1> QED BY <1>1, <1>2, <1>3, <1>4, <1>5, <1>6 DEF AddDisk

LEMMA DeleteShapes ==
  ASSUME TypeInv, Shape, NEW c \in Clients, Delete(c)
  PROVE  StepOf(c)
<1> USE DEF HoldsOneDisk, DeletePCs
<1>a. /\ call[c] \in Call /\ (call[c].pc # "idle" => call[c].vm \in VMs)
      /\ LocalOK(call[c])
  BY DEF TypeInv, CallOK, Shape
<1>1. CASE DeleteBegin(c)
  BY <1>1, LookupShape DEF DeleteBegin
<1>2. CASE DeleteXML(c)
  <2>1. call[c].pc = "delete_xml" /\ Distinct(XMLDesc(call[c].vm))
    BY <1>a, <1>2, XMLDistinct DEF DeleteXML, At
  <2>2. "delete" \in Ops
    BY <1>a, <2>1 DEF LocalOK
  <2>3. ASSUME NEW pc \in {"delete_state"},
               Become(c, [call[c] EXCEPT !.pc = pc, !.disks = XMLDesc(call[c].vm)])
        PROVE  StepOf(c)
    BY <2>1, <2>2, <2>3, DisksShape
  <2>4. CASE Goto(c, "delete_state")
    BY <2>1, <2>4, GotoShape
  <2> QED BY <1>2, <2>3, <2>4 DEF DeleteXML
<1>3. CASE DeleteState(c)
  <2>1. call[c].pc = "delete_state"
    BY <1>3 DEF DeleteState, At
  <2>2. ASSUME NEW pc \in {"delete_destroy", "delete_undefine"}, GetState(c, pc)
        PROVE  StepOf(c)
    BY <2>1, <2>2, GetStateShape
  <2> QED BY <1>3, <2>2, ReturnErrShape DEF DeleteState
<1>4. CASE DeleteDestroy(c)
  <2>1. call[c].pc = "delete_destroy"
    BY <1>4 DEF DeleteDestroy, At
  <2>2. CASE Goto(c, "delete_undefine")
    BY <2>1, <2>2, GotoShape
  <2> QED BY <1>4, <2>2, ReturnErrShape DEF DeleteDestroy
<1>5. CASE DeleteUndefine(c)
  <2>1. call[c].pc = "delete_undefine"
    BY <1>5 DEF DeleteUndefine, At
  <2>2. CASE call[c].disks # {} /\ Goto(c, "delete_vols")
    BY <2>1, <2>2, GotoShape
  <2> QED BY <1>5, <2>2, ReturnShape, ReturnErrShape DEF DeleteUndefine
<1>6. CASE DeleteVols(c)
  <2>1. call[c].pc = "delete_vols"
    BY <1>6 DEF DeleteVols, At
  <2>2. "delete" \in Ops /\ call[c].result = "none" /\ Distinct(call[c].disks)
    BY <1>a, <2>1 DEF LocalOK
  <2>3. ASSUME NEW d, Become(c, [call[c] EXCEPT !.disks = call[c].disks \ {d}])
        PROVE  StepOf(c)
    <3> DEFINE l == [call[c] EXCEPT !.disks = call[c].disks \ {d}]
    <3>1. l.pc = "delete_vols" /\ l.disks = call[c].disks \ {d} /\ l.result = "none"
      BY <1>a, <2>1, <2>2 DEF Call
    <3> HIDE DEF l
    <3>2. LocalOK(l)
      BY <2>2, <3>1 DEF LocalOK, Distinct
    <3> QED BY <2>3, <3>2 DEF StepOf, l
  <2>4. PICK d \in call[c].disks :
          \/ Return(c, "ok")
          \/ Become(c, [call[c] EXCEPT !.disks = call[c].disks \ {d}])
          \/ ReturnErr(c, TRUE)
    BY <1>6 DEF DeleteVols
  <2> QED BY <2>3, <2>4, ReturnShape, ReturnErrShape
<1> QED BY <1>1, <1>2, <1>3, <1>4, <1>5, <1>6 DEF Delete

LEMMA MigrateShapes ==
  ASSUME TypeInv, Shape, NEW c \in Clients, MigrateDisk(c)
  PROVE  StepOf(c)
<1> USE DEF HoldsOneDisk, DeletePCs
<1>a. /\ call[c] \in Call /\ (call[c].pc # "idle" => call[c].vm \in VMs)
      /\ LocalOK(call[c])
  BY DEF TypeInv, CallOK, Shape
<1>1. CASE MigrateBegin(c)
  BY <1>1, LookupShape DEF MigrateBegin
<1>2. CASE MigrateState(c)
  <2>1. call[c].pc = "migrate_state"
    BY <1>2 DEF MigrateState, At
  <2>2. CASE GetState(c, "migrate_xml")
    BY <2>1, <2>2, GetStateShape
  <2> QED BY <1>2, <2>2, ReturnErrShape DEF MigrateState
<1>3. CASE MigrateXML(c)
  <2>1. call[c].pc = "migrate_xml" /\ Distinct(XMLDesc(call[c].vm))
    BY <1>a, <1>3, XMLDistinct DEF MigrateXML, At
  <2>2. ASSUME NEW pc \in {"migrate_destroy", "migrate_copy"},
               Become(c, [call[c] EXCEPT !.disks = XMLDesc(call[c].vm), !.pc = pc])
        PROVE  StepOf(c)
    <3>1. Become(c, [call[c] EXCEPT !.pc = pc, !.disks = XMLDesc(call[c].vm)])
      BY <1>a, <2>2 DEF Become, Call
    <3> QED BY <2>1, <3>1, DisksShape
  <2> QED BY <1>3, <2>2, ReturnErrShape DEF MigrateXML
<1>4. CASE MigrateDestroy(c)
  <2>1. call[c].pc = "migrate_destroy"
    BY <1>4 DEF MigrateDestroy, At
  <2>2. CASE Goto(c, "migrate_copy")
    BY <2>1, <2>2, GotoShape
  <2> QED BY <1>4, <2>2, ReturnErrShape DEF MigrateDestroy
<1>5. CASE MigrateCopy(c)
  <2>1. call[c].pc = "migrate_copy"
    BY <1>5 DEF MigrateCopy, At
  <2>2. ASSUME NEW p PROVE LocalOK([call[c] EXCEPT !.pc = "migrate_define", !.new = p])
    <3> DEFINE l == [call[c] EXCEPT !.pc = "migrate_define", !.new = p]
    <3>1. l.pc = "migrate_define" /\ l.disks = call[c].disks /\ l.result = call[c].result
      BY <1>a DEF Call
    <3> HIDE DEF l
    <3>2. LocalOK(l)
      BY <1>a, <2>1, <3>1 DEF LocalOK
    <3> QED BY <3>2 DEF l
  <2> QED BY <1>5, <2>2, MakeVolShape DEF MigrateCopy
<1>6. CASE MigrateDefine(c)
  <2>1. call[c].pc = "migrate_define"
    BY <1>6 DEF MigrateDefine, At
  <2>2. CASE Goto(c, "migrate_delete")
    BY <2>1, <2>2, GotoShape
  <2> QED BY <1>6, <2>2, ReturnErrShape DEF MigrateDefine
<1>7. CASE MigrateDelete(c)
  <2>1. call[c].pc = "migrate_delete"
    BY <1>7 DEF MigrateDelete, At
  <2>2. CASE Goto(c, "migrate_restart")
    BY <2>1, <2>2, GotoShape
  <2> QED BY <1>7, <2>2, ReturnShape, ReturnErrShape DEF MigrateDelete
<1>8. CASE MigrateRestart(c)
  BY <1>8, ReturnShape, ReturnErrShape DEF MigrateRestart
<1> QED BY <1>1, <1>2, <1>3, <1>4, <1>5, <1>6, <1>7, <1>8 DEF MigrateDisk

LEMMA OtherShapes ==
  ASSUME TypeInv, Shape, NEW c \in Clients,
         \/ Start(c) \/ Destroy(c) \/ Resume(c) \/ Stop(c)
         \/ DeleteImage(c) \/ Dies(c)
  PROVE  StepOf(c)
<1> USE DEF HoldsOneDisk, DeletePCs
<1>1. CASE Start(c) \/ Destroy(c) \/ Resume(c)
  BY <1>1, ReturnShape, ReturnErrShape DEF Start, Destroy, Resume, OneRPC
<1>2. CASE StopBegin(c)
  BY <1>2, LookupShape DEF StopBegin
<1>3. CASE StopState(c)
  <2>1. call[c].pc = "stop_state"
    BY <1>3 DEF StopState, At
  <2>2. CASE Goto(c, "stop_shutdown")
    BY <2>1, <2>2, GotoShape
  <2> QED BY <1>3, <2>2, ReturnErrShape DEF StopState
<1>4. CASE StopShutdown(c)
  BY <1>4, ReturnShape, ReturnErrShape DEF StopShutdown
<1>5. CASE DeleteImage(c)
  BY <1>5, ReturnShape, ReturnErrShape DEF DeleteImage
<1>6. CASE Dies(c)
  BY <1>6, ReturnShape DEF Dies
<1> QED BY <1>1, <1>2, <1>3, <1>4, <1>5, <1>6 DEF Stop

\* One of the steps that a client takes.
Acts(c) == \/ CreateVM(c) \/ AddDisk(c) \/ Delete(c) \/ MigrateDisk(c)
           \/ Start(c) \/ Destroy(c) \/ Resume(c) \/ Stop(c)
           \/ DeleteImage(c) \/ Dies(c)

LEMMA ActsShape ==
  ASSUME TypeInv, Shape, NEW c \in Clients, Acts(c)
  PROVE  StepOf(c)
BY CreateShapes, AddShapes, DeleteShapes, MigrateShapes, OtherShapes DEF Acts

(* The targets of the domains' definitions. *)
LEMMA ReplaceDistinct ==
  ASSUME DomOK(dom), DomDistinct(dom), NEW v \in VMs, NEW r,
         dom' = [dom EXCEPT ![v] = r], Distinct(r.config), Distinct(r.live)
  PROVE  DomDistinct(dom')
BY DEF DomOK, DomDistinct

LEMMA EffectsDistinct ==
  ASSUME DomOK(dom), DomDistinct(dom), NEW v \in VMs
  PROVE  /\ \A id, D : DefineXML(v, id, D) /\ Distinct(D) => DomDistinct(dom')
         /\ Create(v) => DomDistinct(dom')
         /\ PowerOff(v) => DomDistinct(dom')
         /\ Undefine(v) => DomDistinct(dom')
         /\ \A d, b : CanAttach(v, d, b) /\ Attach(v, d, b) => DomDistinct(dom')
         /\ Unpause(v) => DomDistinct(dom')
<1>a. dom[v] \in Domain /\ Distinct(dom[v].config) /\ Distinct(dom[v].live)
      /\ Distinct({}) /\ Absent.config = {} /\ Absent.live = {}
  BY DEF DomOK, DomDistinct, Distinct, Absent
<1>1. ASSUME NEW id, NEW D, DefineXML(v, id, D), Distinct(D) PROVE DomDistinct(dom')
  <2> DEFINE r == [dom[v] EXCEPT !.id = id, !.persistent = TRUE, !.config = D]
  <2>1. r.config = D /\ r.live = dom[v].live
    BY <1>a DEF Domain
  <2>2. dom' = [dom EXCEPT ![v] = r]
    BY <1>1 DEF DefineXML, DomOK
  <2> HIDE DEF r
  <2> QED BY <1>1, <1>a, <2>1, <2>2, ReplaceDistinct
<1>2. ASSUME Create(v) PROVE DomDistinct(dom')
  <2> DEFINE r == [dom[v] EXCEPT !.power = "running", !.live = dom[v].config]
  <2>1. r.config = dom[v].config /\ r.live = dom[v].config
    BY <1>a DEF Domain
  <2>2. dom' = [dom EXCEPT ![v] = r]
    BY <1>2 DEF Create, DomOK
  <2> HIDE DEF r
  <2> QED BY <1>a, <2>1, <2>2, ReplaceDistinct
<1>3. ASSUME PowerOff(v) PROVE DomDistinct(dom')
  <2> DEFINE r == IF dom[v].persistent THEN [dom[v] EXCEPT !.power = "shutoff", !.live = {}]
                  ELSE Absent
  <2>1. r.config \in {dom[v].config, {}} /\ r.live = {}
    BY <1>a DEF Domain
  <2>2. dom' = [dom EXCEPT ![v] = r]
    BY <1>3 DEF PowerOff, DomOK
  <2> HIDE DEF r
  <2> QED BY <1>a, <2>1, <2>2, ReplaceDistinct
<1>4. ASSUME Undefine(v) PROVE DomDistinct(dom')
  <2> DEFINE r == IF Active(v) THEN [dom[v] EXCEPT !.persistent = FALSE, !.config = {}]
                  ELSE Absent
  <2>1. r.config = {} /\ r.live \in {dom[v].live, {}}
    BY <1>a DEF Domain
  <2>2. dom' = [dom EXCEPT ![v] = r]
    BY <1>4 DEF Undefine, DomOK
  <2> HIDE DEF r
  <2> QED BY <1>a, <2>1, <2>2, ReplaceDistinct
<1>5. ASSUME NEW d, NEW b, CanAttach(v, d, b), Attach(v, d, b) PROVE DomDistinct(dom')
  <2> DEFINE C == dom[v].config \cup {d}
             L == dom[v].live \cup {e \in {d} : b}
             r == [dom[v] EXCEPT !.config = C, !.live = L]
  <2>1. r.config = C /\ r.live = L
    BY <1>a DEF Domain
  <2>2. dom' = [dom EXCEPT ![v] = r]
    BY <1>5 DEF Attach, DomOK
  <2>3. Distinct(C)
    BY <1>5, <1>a DEF Distinct, CanAttach, Targets
  <2>4. Distinct(L)
    BY <1>5, <1>a DEF Distinct, CanAttach, Targets
  <2> HIDE DEF r, C, L
  <2> QED BY <2>1, <2>2, <2>3, <2>4, ReplaceDistinct
<1>6. ASSUME Unpause(v) PROVE DomDistinct(dom')
  <2> DEFINE r == [dom[v] EXCEPT !.power = "running"]
  <2>1. r.config = dom[v].config /\ r.live = dom[v].live
    BY <1>a DEF Domain
  <2>2. dom' = [dom EXCEPT ![v] = r]
    BY <1>6 DEF Unpause, DomOK
  <2> HIDE DEF r
  <2> QED BY <1>a, <2>1, <2>2, ReplaceDistinct
<1> QED BY <1>1, <1>2, <1>3, <1>4, <1>5, <1>6

\* No two disks of a definition, or of what runs, get one target.
LEMMA ActsDistinct ==
  ASSUME TypeInv, Shape, NEW c \in Clients, Acts(c)
  PROVE  DomDistinct(dom')
<1>a. DomOK(dom) /\ DomDistinct(dom) /\ LocalOK(call[c]) /\ Distinct(call[c].disks)
      /\ (call[c].pc # "idle" => call[c].vm \in VMs)
  BY DEF TypeInv, CallOK, Shape, LocalOK
<1>1. CASE dom' = dom
  BY <1>1, <1>a
<1>2. CASE CreateDefine(c)
  <2>1. call[c].vm \in VMs
    BY <1>2, <1>a DEF CreateDefine, At
  <2>2. \/ \E id : DefineXML(call[c].vm, id, call[c].disks)
        \/ dom' = dom
    BY <1>2 DEF CreateDefine, ReturnErr, hostVars
  <2> QED BY <1>1, <1>a, <2>1, <2>2, EffectsDistinct
<1>3. CASE CreateStart(c) \/ MigrateRestart(c) \/ MigrateDestroy(c) \/ DeleteDestroy(c)
           \/ DeleteUndefine(c) \/ StopState(c)
  <2>1. call[c].vm \in VMs
    BY <1>3, <1>a DEF CreateStart, MigrateRestart, MigrateDestroy, DeleteDestroy,
                      DeleteUndefine, StopState, At
  <2>2. \/ Create(call[c].vm) \/ PowerOff(call[c].vm) \/ Undefine(call[c].vm)
        \/ Unpause(call[c].vm) \/ dom' = dom
    BY <1>3 DEF CreateStart, MigrateRestart, MigrateDestroy, DeleteDestroy,
                DeleteUndefine, StopState, ReturnErr, hostVars
  <2> QED BY <1>1, <1>a, <2>1, <2>2, EffectsDistinct
<1>4. CASE AddAttach(c)
  <2>1. call[c].vm \in VMs
    BY <1>4, <1>a DEF AddAttach, At
  <2>2. \/ \E d, b : CanAttach(call[c].vm, d, b) /\ Attach(call[c].vm, d, b)
        \/ dom' = dom
    BY <1>4 DEF AddAttach, hostVars
  <2> QED BY <1>1, <1>a, <2>1, <2>2, EffectsDistinct
<1>5. CASE MigrateDefine(c)
  <2>1. call[c].vm \in VMs
    BY <1>5, <1>a DEF MigrateDefine, At
  <2>2. \/ \E d \in call[c].disks :
              DefineXML(call[c].vm, call[c].hnd, (call[c].disks \ {d})
                        \cup {[target |-> d.target, path |-> call[c].new]})
        \/ dom' = dom
    BY <1>5 DEF MigrateDefine, ReturnErr, hostVars, Replaced
  <2>3. ASSUME NEW d \in call[c].disks
        PROVE  Distinct((call[c].disks \ {d}) \cup {[target |-> d.target, path |-> call[c].new]})
    <3> DEFINE n == [target |-> d.target, path |-> call[c].new]
    <3>1. n.target = d.target
      OBVIOUS
    <3> HIDE DEF n
    <3> QED BY <1>a, <3>1 DEF Distinct
  <2> QED BY <1>1, <1>a, <2>1, <2>2, <2>3, EffectsDistinct
<1>6. CASE Start(c) \/ Destroy(c) \/ Resume(c)
  <2>1. \/ \E v \in VMs : Create(v) \/ PowerOff(v) \/ Unpause(v)
        \/ dom' = dom
    BY <1>6 DEF Start, Destroy, Resume, OneRPC, ReturnErr, hostVars
  <2> QED BY <1>1, <1>a, <2>1, EffectsDistinct
<1>7. CASE \/ CreateBegin(c) \/ CreateClone(c) \/ CreateResize(c) \/ CreateExtra(c)
           \/ AddBegin(c) \/ AddXML(c) \/ AddVolume(c) \/ AddState(c) \/ AddRollback(c)
  <2>1. dom' = dom
    BY <1>7 DEF CreateBegin, CreateClone, CreateResize, CreateExtra, AddBegin, AddXML,
       AddVolume, AddState, AddRollback, MakeVol, Lookup, GetState, ReturnErr, hostVars
  <2> QED BY <1>1, <2>1
<1>8. CASE \/ DeleteBegin(c) \/ DeleteXML(c) \/ DeleteState(c) \/ DeleteVols(c)
           \/ MigrateBegin(c) \/ MigrateState(c) \/ MigrateXML(c) \/ MigrateCopy(c)
           \/ MigrateDelete(c) \/ StopBegin(c) \/ StopShutdown(c) \/ DeleteImage(c)
           \/ Dies(c)
  <2>1. dom' = dom
    BY <1>8 DEF DeleteBegin, DeleteXML, DeleteState, DeleteVols, MigrateBegin,
       MigrateState, MigrateXML, MigrateCopy, MigrateDelete, StopBegin, StopShutdown,
       DeleteImage, Dies, MakeVol, Lookup, GetState, ReturnErr, hostVars
  <2> QED BY <1>1, <2>1
<1> QED BY <1>2, <1>3, <1>4, <1>5, <1>6, <1>7, <1>8
        DEF Acts, CreateVM, AddDisk, Delete, MigrateDisk, Stop

LEMMA GuestDistinct ==
  ASSUME TypeInv, Shape, NEW v \in VMs, Guest(v)
  PROVE  DomDistinct(dom')
<1>a. DomOK(dom) /\ DomDistinct(dom) /\ dom[v] \in Domain
  BY DEF TypeInv, DomOK, Shape
<1>1. CASE GuestPowersOff(v)
  BY <1>1, <1>a, EffectsDistinct DEF GuestPowersOff
<1>2. CASE Suspend(v)
  <2> DEFINE r == [dom[v] EXCEPT !.power = "paused"]
  <2>1. r.config = dom[v].config /\ r.live = dom[v].live
    BY <1>a DEF Domain
  <2>2. dom' = [dom EXCEPT ![v] = r]
    BY <1>2 DEF Suspend, DomOK
  <2> HIDE DEF r
  <2>3. Distinct(dom[v].config) /\ Distinct(dom[v].live)
    BY <1>a DEF DomDistinct
  <2> QED BY <1>a, <2>1, <2>2, <2>3, ReplaceDistinct
<1> QED BY <1>1, <1>2 DEF Guest

\* A step is one client's, one guest's, or none.
LEMMA WhoSteps ==
  ASSUME [Next]_vars
  PROVE  (\E c \in Clients : Acts(c)) \/ (\E v \in VMs : Guest(v)) \/ UNCHANGED vars
BY DEF Next, Acts

LEMMA ShapeStep ==
  ASSUME TypeInv, Shape, [Next]_vars
  PROVE  Shape'
<1>1. ASSUME NEW c \in Clients, Acts(c) PROVE Shape'
  <2>1. PICK l : Become(c, l) /\ LocalOK(l)
    BY <1>1, ActsShape DEF StepOf
  <2>2. call'[c] = l /\ \A b \in Clients : b # c => call'[b] = call[b]
    BY <2>1, OthersKeep
  <2>3. \A b \in Clients : LocalOK(call'[b])
    BY <2>1, <2>2 DEF Shape
  <2>4. DomDistinct(dom')
    BY <1>1, ActsDistinct
  <2> QED BY <2>3, <2>4 DEF Shape, LocalOK, DomDistinct
<1>2. ASSUME NEW v \in VMs, Guest(v) PROVE Shape'
  BY <1>2, GuestDistinct DEF Shape, Guest, LocalOK, DomDistinct
<1>3. CASE UNCHANGED vars
  BY <1>3 DEF vars, Shape, LocalOK, DomDistinct
<1> QED BY <1>1, <1>2, <1>3, WhoSteps

LEMMA ShapeInit == Init => Shape
<1> SUFFICES ASSUME Init PROVE Shape
  OBVIOUS
<1>1. NoCall("none").pc = "idle" /\ NoCall("none").disks = {}
      /\ Absent.config = {} /\ Absent.live = {}
  BY DEF NoCall, Absent
<1>2. \A c \in Clients : call[c] = NoCall("none")
  BY DEF Init
<1>3. \A v \in VMs : dom[v] = Absent
  BY DEF Init, HostInit
<1> HIDE DEF NoCall, Absent
<1>4. LocalOK(NoCall("none"))
  BY <1>1 DEF LocalOK, Distinct, HoldsOneDisk, DeletePCs
<1>5. DomDistinct(dom)
  BY <1>1, <1>3 DEF DomDistinct, Distinct
<1> QED BY <1>2, <1>4, <1>5 DEF Shape

\* Another client's step, a guest's, or none leaves c's locals as they are.
LEMMA NotMine ==
  ASSUME TypeInv, Shape, NEW c \in Clients, [Next]_vars, call'[c] # call[c]
  PROVE  Acts(c)
<1>1. ASSUME NEW b \in Clients, b # c, Acts(b) PROVE call'[c] = call[c]
  <2>1. PICK l : Become(b, l)
    BY <1>1, ActsShape DEF StepOf
  <2> QED BY <1>1, <2>1, OthersKeep
<1>2. ASSUME NEW v \in VMs, Guest(v) PROVE call'[c] = call[c]
  BY <1>2 DEF Guest
<1>3. UNCHANGED vars => call'[c] = call[c]
  BY DEF vars
<1> QED BY <1>1, <1>2, <1>3, WhoSteps

\* A client at pc takes an action of that pc, or dies.
LEMMA AddActs ==
  ASSUME NEW c \in Clients, Acts(c), call[c].pc \in HoldsOneDisk
  PROVE  AddState(c) \/ AddAttach(c) \/ AddRollback(c) \/ Dies(c)
<1> USE DEF At, HoldsOneDisk
<1>1. ~CreateVM(c)
  BY DEF CreateVM, CreateBegin, CreateClone, CreateResize, CreateExtra, CreateDefine,
         CreateStart
<1>2. ~AddBegin(c) /\ ~AddXML(c) /\ ~AddVolume(c)
  BY DEF AddBegin, Lookup, AddXML, AddVolume
<1>3. ~Delete(c)
  BY DEF Delete, DeleteBegin, Lookup, DeleteXML, DeleteState, DeleteDestroy,
         DeleteUndefine, DeleteVols
<1>4. ~MigrateDisk(c)
  BY DEF MigrateDisk, MigrateBegin, Lookup, MigrateState, MigrateXML, MigrateDestroy,
         MigrateCopy, MigrateDefine, MigrateDelete, MigrateRestart
<1>5. ~Start(c) /\ ~Destroy(c) /\ ~Resume(c) /\ ~Stop(c) /\ ~DeleteImage(c)
  BY DEF Start, Destroy, Resume, OneRPC, Stop, StopBegin, Lookup, StopState, StopShutdown,
         DeleteImage
<1> QED BY <1>1, <1>2, <1>3, <1>4, <1>5 DEF Acts, AddDisk

LEMMA AddVolumeActs ==
  ASSUME NEW c \in Clients, Acts(c), At(c, "add_volume")
  PROVE  AddVolume(c) \/ Dies(c)
<1> USE DEF At
<1>1. ~CreateVM(c)
  BY DEF CreateVM, CreateBegin, CreateClone, CreateResize, CreateExtra, CreateDefine,
         CreateStart
<1>2. ~AddBegin(c) /\ ~AddXML(c) /\ ~AddState(c) /\ ~AddAttach(c) /\ ~AddRollback(c)
  BY DEF AddBegin, Lookup, AddXML, AddState, AddAttach, AddRollback
<1>3. ~Delete(c)
  BY DEF Delete, DeleteBegin, Lookup, DeleteXML, DeleteState, DeleteDestroy,
         DeleteUndefine, DeleteVols
<1>4. ~MigrateDisk(c)
  BY DEF MigrateDisk, MigrateBegin, Lookup, MigrateState, MigrateXML, MigrateDestroy,
         MigrateCopy, MigrateDefine, MigrateDelete, MigrateRestart
<1>5. ~Start(c) /\ ~Destroy(c) /\ ~Resume(c) /\ ~Stop(c) /\ ~DeleteImage(c)
  BY DEF Start, Destroy, Resume, OneRPC, Stop, StopBegin, Lookup, StopState, StopShutdown,
         DeleteImage
<1> QED BY <1>1, <1>2, <1>3, <1>4, <1>5 DEF Acts, AddDisk

LEMMA DeleteActs ==
  ASSUME NEW c \in Clients, Acts(c), call[c].pc \in DeletePCs
  PROVE  \/ DeleteXML(c) \/ DeleteState(c) \/ DeleteDestroy(c) \/ DeleteUndefine(c)
         \/ DeleteVols(c) \/ Dies(c)
<1> USE DEF At, DeletePCs
<1>1. ~CreateVM(c)
  BY DEF CreateVM, CreateBegin, CreateClone, CreateResize, CreateExtra, CreateDefine,
         CreateStart
<1>2. ~AddDisk(c)
  BY DEF AddDisk, AddBegin, Lookup, AddXML, AddVolume, AddState, AddAttach, AddRollback
<1>3. ~DeleteBegin(c)
  BY DEF DeleteBegin, Lookup
<1>4. ~MigrateDisk(c)
  BY DEF MigrateDisk, MigrateBegin, Lookup, MigrateState, MigrateXML, MigrateDestroy,
         MigrateCopy, MigrateDefine, MigrateDelete, MigrateRestart
<1>5. ~Start(c) /\ ~Destroy(c) /\ ~Resume(c) /\ ~Stop(c) /\ ~DeleteImage(c)
  BY DEF Start, Destroy, Resume, OneRPC, Stop, StopBegin, Lookup, StopState, StopShutdown,
         DeleteImage
<1> QED BY <1>1, <1>2, <1>3, <1>4, <1>5 DEF Acts, Delete

\* What AddDisk answers of its volume, whatever other operations cross it: "ok"
\* means that the disk it made is defined, an error that no volume was made or
\* that it is gone again, but for the two failures it does not clean up after: of
\* the rollback's own RPC, and of vol.GetPath in CreateVolume (libvirt.go:719-722).
THEOREM AddDiskIsAtomic == Spec => AddDiskAllOrNothing
<1>1. ASSUME TypeInv, Shape, [Next]_vars, NEW c \in Clients, NEW d \in call[c].disks,
             call[c].pc \in HoldsOneDisk
      PROVE  /\ call'[c].result = "ok"  => d \in dom'[call[c].vm].config
             /\ call'[c].result = "err" => d.path \notin vols' \/ faults' # faults
  <2>1. call[c].result = "none" /\ call[c].disks = {d} /\ call[c].vm \in VMs
    BY <1>1 DEF Shape, LocalOK, HoldsOneDisk, TypeInv, CallOK
  <2>2. CASE call'[c] = call[c]
    BY <2>1, <2>2
  <2>3. CASE call'[c] # call[c]
    <3>0. AddState(c) \/ AddAttach(c) \/ AddRollback(c) \/ Dies(c)
      BY <1>1, <2>3, NotMine, AddActs
    <3>a. ASSUME NEW r, Return(c, r) PROVE call'[c].result = r
      BY <1>1, <3>a DEF Return, Become, NoCall, TypeInv, CallOK
    <3>b. ASSUME NEW pc, Goto(c, pc) PROVE call'[c].result = "none"
      BY <1>1, <2>1, <3>b DEF Goto, Become, TypeInv, CallOK, Call
    <3>1. CASE AddState(c)
      <4>1. CASE Goto(c, "add_rollback")
        BY <3>b, <4>1
      <4>2. CASE GetState(c, "add_attach")
        <5>1. call'[c].result = call[c].result
          BY <1>1, <4>2 DEF GetState, Become, TypeInv, CallOK, Call
        <5> QED BY <2>1, <5>1
      <4> QED BY <3>1, <4>1, <4>2 DEF AddState
    <3>2. CASE AddAttach(c)
      <4>1. CASE Goto(c, "add_rollback")
        BY <3>b, <4>1
      <4>2. ASSUME Attach(call[c].vm, d, WasActive(c)), Return(c, "ok")
            PROVE  call'[c].result = "ok" /\ d \in dom'[call[c].vm].config
        <5>1. dom \in [VMs -> Domain] /\ dom[call[c].vm] \in Domain
          BY <1>1, <2>1 DEF TypeInv, DomOK
        <5>2. dom'[call[c].vm].config = dom[call[c].vm].config \cup {d}
          BY <2>1, <4>2, <5>1 DEF Attach, Domain
        <5> QED BY <3>a, <4>2, <5>2
      <4> QED BY <2>1, <3>2, <4>1, <4>2 DEF AddAttach
    <3>3. CASE AddRollback(c)
      <4>1. call'[c].result = "err"
        BY <3>3, <3>a DEF AddRollback
      <4>2. d.path \notin vols' \/ faults' = faults + 1
        BY <2>1, <3>3 DEF AddRollback, DeleteVol, Fails
      <4>3. faults \in Nat
        BY <1>1, ManagerAssumption DEF TypeInv
      <4> QED BY <4>1, <4>2, <4>3
    <3>4. CASE Dies(c)
      BY <3>4, <3>a DEF Dies
    <3> QED BY <3>0, <3>1, <3>2, <3>3, <3>4
  <2> QED BY <2>2, <2>3
<1>2. ASSUME TypeInv, Shape, [Next]_vars, NEW c \in Clients, At(c, "add_volume"),
             call'[c].result = "err"
      PROVE  vols' = vols \/ faults' # faults
  <2>1. faults \in Nat /\ call[c].result = "none" /\ call[c] \in Call
    BY <1>2, ManagerAssumption DEF Shape, LocalOK, TypeInv, CallOK, At
  <2>2. AddVolume(c) \/ Dies(c)
    BY <1>2, <2>1, NotMine, AddVolumeActs
  <2>3. CASE AddVolume(c)
    <3>1. PICK p, t : MakeVol(c, p, CanCreateVol(p),
                              [call[c] EXCEPT !.pc = "add_state",
                                 !.disks = {[target |-> t, path |-> p]}])
      BY <2>3 DEF AddVolume
    <3> DEFINE l == [call[c] EXCEPT !.pc = "add_state",
                                    !.disks = {[target |-> t, path |-> p]}]
    <3>2. l.result = "none"
      BY <2>1 DEF Call
    <3>3. MakeVol(c, p, CanCreateVol(p), l)
      BY <3>1
    <3> HIDE DEF l
    <3>4. ~Become(c, l)
      BY <1>2, <3>2 DEF Become, TypeInv, CallOK
    <3>5. Fails(TRUE) \/ vols' = vols
      BY <3>3, <3>4 DEF MakeVol, ReturnErr, hostVars
    <3> QED BY <2>1, <3>5 DEF Fails
  <2>4. CASE Dies(c)
    BY <2>4 DEF Dies
  <2> QED BY <2>2, <2>3, <2>4
<1>3. TypeInv /\ Shape /\ [Next]_vars =>
        [\A c \in Clients :
           /\ \A d \in call[c].disks :
                call[c].pc \in {"add_state", "add_attach", "add_rollback"} =>
                  /\ call'[c].result = "ok"  => d \in dom'[call[c].vm].config
                  /\ call'[c].result = "err" => d.path \notin vols' \/ faults' # faults
           /\ At(c, "add_volume") /\ call'[c].result = "err" =>
                vols' = vols \/ faults' # faults]_vars
  BY <1>1, <1>2 DEF HoldsOneDisk
<1> QED
  BY <1>3, TypeInit, ShapeInit, TypeStep, ShapeStep, PTL DEF Spec, AddDiskAllOrNothing

\* No step of a delete takes a base image away, where deletes keep the volumes
\* (noclone): whatever is attached, migrated or deleted meanwhile.
THEOREM ImagesOutliveDeletes == ASSUME "delete" \notin Ops PROVE Spec => ImagesSurvive
<1>1. ASSUME TypeInv, Shape, [Next]_vars, NEW c \in Clients, call[c].pc \in DeletePCs,
             call'[c] # call[c]
      PROVE  vols' = vols
  <2>1. \/ DeleteXML(c) \/ DeleteState(c) \/ DeleteDestroy(c) \/ DeleteUndefine(c)
        \/ DeleteVols(c) \/ Dies(c)
    BY <1>1, NotMine, DeleteActs
  <2>2. call[c].pc # "delete_vols"
    BY <1>1 DEF Shape, LocalOK
  <2> QED BY <2>1, <2>2 DEF DeleteXML, DeleteState, DeleteDestroy, DeleteUndefine,
       DeleteVols, Dies, At, GetState, ReturnErr, hostVars
<1>2. TypeInv /\ Shape /\ [Next]_vars =>
        [\A c \in Clients :
           call[c].pc \in DeletePCs /\ call'[c] # call[c]
             => Images \cap vols \subseteq vols']_vars
  BY <1>1
<1> QED
  BY <1>2, TypeInit, ShapeInit, TypeStep, ShapeStep, PTL DEF Spec, ImagesSurvive

\* No two disks of a VM ever claim the same target, of its definition or of what
\* runs, whatever operations cross: libvirt refuses a second one, and the code
\* numbers the disks of a new VM.
THEOREM TargetsDistinct == Spec => []DomDistinct(dom)
<1>1. Shape => DomDistinct(dom)
  BY DEF Shape
<1> QED BY <1>1, TypeInit, ShapeInit, TypeStep, ShapeStep, PTL DEF Spec

-----------------------------------------------------------------------------
(***************************************************************************)
(* Ownership: with the plain operations, any number of clients, VMs, pools,*)
(* RPC failures and deaths leave every volume at most one owner, and       *)
(* therefore every definition its disks.                                   *)
(***************************************************************************)

Inv == /\ TypeInv
       /\ Ownership
       /\ \A c \in Clients : call[c].pc \notin MigratePCs

\* l, as the new locals of c, holds no volume c does not hold already.
HoldsNoMore(c, l) ==
  /\ l.pc \notin MigratePCs
  /\ l.pc \in HoldPCs => Holding(c) /\ l.disks \subseteq call[c].disks

\* What l says a Delete has read of its domain is defined after the step.
SawDefined(l) ==
  /\ l.pc \in DeletePCs \ {"delete_vols"}
  /\ dom'[l.vm].id = l.hnd
  /\ dom'[l.vm].persistent
  => l.disks \subseteq dom'[l.vm].config

(***************************************************************************)
(* The kinds of steps.  First: no volume changes, and a definition stays   *)
(* or goes.                                                                *)
(***************************************************************************)
LEMMA QuietStep ==
  ASSUME Inv, TypeInv', NEW c \in Clients, NEW l, Become(c, l), HoldsNoMore(c, l),
         SawDefined(l), vols' = vols,
         \A v \in VMs : /\ dom'[v].config \in {dom[v].config, {}}
                        /\ dom'[v].persistent => /\ dom[v].persistent
                                                 /\ dom'[v].id = dom[v].id
                                                 /\ dom'[v].config = dom[v].config,
         AbsentClean', LiveInConfig'
  PROVE  Inv'
<1>0. /\ call'[c] = l
      /\ \A b \in Clients : b # c => call'[b] = call[b]
  BY DEF Become, Inv, TypeInv, CallOK
<1>1. \A b \in Clients : call'[b].pc \notin MigratePCs
  BY <1>0 DEF Inv, HoldsNoMore
<1>h. \A b \in Clients : call'[b].pc \in HoldPCs =>
        call[b].pc \in HoldPCs /\ call'[b].disks \subseteq call[b].disks
  BY <1>0 DEF HoldsNoMore, Holding
<1>v. \A v \in VMs : dom'[v].config \subseteq dom[v].config
  OBVIOUS
<1>2. DefinedExist'
  BY <1>v DEF Inv, Ownership, DefinedExist
<1>3. NoSharedVolume'
  BY <1>v DEF Inv, Ownership, NoSharedVolume
<1>4. HeldExist'
  BY <1>h DEF Inv, Ownership, HeldExist, Holding
<1>5. HeldOnce'
  BY <1>h DEF Inv, Ownership, HeldOnce, Holding
<1>6. HeldUndefined'
  BY <1>h, <1>v DEF Inv, Ownership, HeldUndefined, Holding
<1>7. SeenDefined'
  <2> SUFFICES ASSUME NEW b \in Clients,
                      call'[b].pc \in DeletePCs \ {"delete_vols"},
                      dom'[call'[b].vm].id = call'[b].hnd,
                      dom'[call'[b].vm].persistent
               PROVE  call'[b].disks \subseteq dom'[call'[b].vm].config
    BY DEF SeenDefined, Alive
  <2>1. CASE b = c
    BY <1>0, <2>1 DEF SawDefined
  <2>2. CASE b # c
    <3>1. call'[b] = call[b] /\ call[b].vm \in VMs
      BY <1>0, <2>2 DEF Inv, TypeInv, CallOK, DeletePCs
    <3> QED BY <3>1 DEF Inv, Ownership, SeenDefined, Alive
  <2> QED BY <2>1, <2>2
<1> QED BY <1>1, <1>2, <1>3, <1>4, <1>5, <1>6, <1>7 DEF Inv, Ownership

\* The domains do not change either.
LEMMA LocalStep ==
  ASSUME Inv, TypeInv', NEW c \in Clients, NEW l, Become(c, l), HoldsNoMore(c, l),
         SawDefined(l), UNCHANGED <<vols, dom>>
  PROVE  Inv'
BY QuietStep DEF Inv, Ownership, AbsentClean, LiveInConfig, Registered

(* Second: c makes the volume p and holds it. *)
LEMMA AcquireStep ==
  ASSUME Inv, TypeInv', NEW c \in Clients, NEW l, Become(c, l), NEW d,
         l.pc \in HoldPCs \ MigratePCs, d.path \notin vols, vols' = vols \cup {d.path},
         l.disks = {d} \/ (Holding(c) /\ l.disks = call[c].disks \cup {d}),
         UNCHANGED dom
  PROVE  Inv'
<1>0. /\ call'[c] = l
      /\ \A b \in Clients : b # c => call'[b] = call[b]
  BY DEF Become, Inv, TypeInv, CallOK
<1>1. \A b \in Clients : call'[b].pc \notin MigratePCs
  BY <1>0 DEF Inv
<1>h. \A b \in Clients : call'[b].pc \in HoldPCs => \A e \in call'[b].disks :
        \/ b = c /\ e = d
        \/ Holding(b) /\ e \in call[b].disks
  BY <1>0 DEF Holding
<1>2. AbsentClean' /\ LiveInConfig' /\ NoSharedVolume'
  BY DEF Inv, Ownership, AbsentClean, LiveInConfig, NoSharedVolume, Registered
<1>3. DefinedExist'
  BY DEF Inv, Ownership, DefinedExist
<1>4. HeldExist'
  BY <1>h DEF Inv, Ownership, HeldExist, Holding
<1>5. HeldOnce'
  <2> SUFFICES ASSUME NEW a \in Clients, NEW b \in Clients,
                      call'[a].pc \in HoldPCs, call'[b].pc \in HoldPCs,
                      NEW x \in call'[a].disks, NEW y \in call'[b].disks,
                      x.path = y.path
               PROVE  a = b /\ x = y
    BY DEF HeldOnce, Holding
  <2>1. Holding(a) /\ x \in call[a].disks => x.path # d.path
    BY DEF Inv, Ownership, HeldExist
  <2>2. Holding(b) /\ y \in call[b].disks => y.path # d.path
    BY DEF Inv, Ownership, HeldExist
  <2> QED BY <1>h, <2>1, <2>2 DEF Inv, Ownership, HeldOnce
<1>6. HeldUndefined'
  <2> SUFFICES ASSUME NEW b \in Clients, NEW v \in VMs, call'[b].pc \in HoldPCs,
                      NEW x \in call'[b].disks, NEW y \in dom[v].config
               PROVE  x.path # y.path
    BY DEF HeldUndefined, Holding
  <2> QED BY <1>h DEF Inv, Ownership, HeldUndefined, DefinedExist
<1>7. SeenDefined'
  <2>1. l.pc \notin DeletePCs \ {"delete_vols"}
    BY DEF HoldPCs, DeletePCs
  <2> QED BY <1>0, <2>1 DEF Inv, Ownership, SeenDefined, Alive
<1> QED BY <1>1, <1>2, <1>3, <1>4, <1>5, <1>6, <1>7 DEF Inv, Ownership

\* A volume is made and left behind: c fails to read its path, and returns.
LEMMA OrphanStep ==
  ASSUME Inv, TypeInv', NEW c \in Clients, Return(c, "err"), vols \subseteq vols',
         UNCHANGED dom
  PROVE  Inv'
<1>0. /\ call'[c].pc = "idle"
      /\ \A b \in Clients : b # c => call'[b] = call[b]
  BY DEF Return, Become, NoCall, Inv, TypeInv, CallOK
<1>1. \A b \in Clients : call'[b].pc \notin MigratePCs
  BY <1>0 DEF Inv, MigratePCs
<1>2. AbsentClean' /\ LiveInConfig' /\ NoSharedVolume' /\ DefinedExist'
  BY DEF Inv, Ownership, AbsentClean, LiveInConfig, NoSharedVolume, DefinedExist, Registered
<1>h. \A b \in Clients : call'[b].pc \in HoldPCs => Holding(b) /\ call'[b] = call[b]
  BY <1>0 DEF HoldPCs, Holding
<1>3. HeldExist' /\ HeldOnce' /\ HeldUndefined'
  BY <1>h DEF Inv, Ownership, HeldExist, HeldOnce, HeldUndefined, Holding
<1>4. SeenDefined'
  BY <1>0 DEF Inv, Ownership, SeenDefined, Alive, DeletePCs
<1> QED BY <1>1, <1>2, <1>3, <1>4 DEF Inv, Ownership

(* Third: c deletes a volume it holds. *)
LEMMA ReleaseStep ==
  ASSUME Inv, TypeInv', NEW c \in Clients, Holding(c), NEW d \in call[c].disks,
         DeleteVol(d.path), NEW l, Become(c, l), HoldsNoMore(c, l),
         l.pc \in HoldPCs => d \notin l.disks, SawDefined(l), UNCHANGED dom
  PROVE  Inv'
<1>0. /\ call'[c] = l
      /\ \A b \in Clients : b # c => call'[b] = call[b]
  BY DEF Become, Inv, TypeInv, CallOK
<1>1. \A b \in Clients : call'[b].pc \notin MigratePCs
  BY <1>0 DEF Inv, HoldsNoMore
<1>h. \A b \in Clients : call'[b].pc \in HoldPCs =>
        /\ call[b].pc \in HoldPCs /\ call'[b].disks \subseteq call[b].disks
        /\ b = c => d \notin call'[b].disks
  BY <1>0 DEF HoldsNoMore, Holding
<1>2. AbsentClean' /\ LiveInConfig' /\ NoSharedVolume'
  BY DEF Inv, Ownership, AbsentClean, LiveInConfig, NoSharedVolume, Registered
<1>3. DefinedExist'
  BY DEF Inv, Ownership, DefinedExist, HeldUndefined, DeleteVol
<1>4. HeldExist'
  <2> SUFFICES ASSUME NEW b \in Clients, call'[b].pc \in HoldPCs, NEW x \in call'[b].disks
               PROVE  x.path \in vols'
    BY DEF HeldExist, Holding
  <2>1. x \in call[b].disks /\ x.path \in vols /\ (b = c => x # d)
    BY <1>h DEF Inv, Ownership, HeldExist, Holding
  <2>2. x.path # d.path
    BY <1>h, <2>1 DEF Inv, Ownership, HeldOnce, Holding
  <2> QED BY <2>1, <2>2 DEF DeleteVol
<1>5. HeldOnce'
  BY <1>h DEF Inv, Ownership, HeldOnce, Holding
<1>6. HeldUndefined'
  BY <1>h DEF Inv, Ownership, HeldUndefined, Holding
<1>7. SeenDefined'
  BY <1>0 DEF Inv, Ownership, SeenDefined, Alive, SawDefined
<1> QED BY <1>1, <1>2, <1>3, <1>4, <1>5, <1>6, <1>7 DEF Inv, Ownership

(***************************************************************************)
(* The actions.                                                            *)
(***************************************************************************)
LEMMA ReturnStep ==
  ASSUME Inv, TypeInv', NEW c \in Clients, NEW r, Return(c, r), UNCHANGED <<vols, dom>>
  PROVE  Inv'
<1>1. NoCall(r).pc = "idle"
  BY DEF NoCall
<1>2. HoldsNoMore(c, NoCall(r)) /\ SawDefined(NoCall(r))
  BY <1>1 DEF HoldsNoMore, SawDefined, HoldPCs, MigratePCs, DeletePCs
<1> HIDE DEF NoCall
<1> QED BY <1>2, LocalStep DEF Return

LEMMA ReturnErrStep ==
  ASSUME Inv, TypeInv', NEW c \in Clients, NEW can, ReturnErr(c, can)
  PROVE  Inv'
BY ReturnStep DEF ReturnErr, hostVars

\* Making the volume of the disk d, from the locals l on.
LEMMA MakeVolStep ==
  ASSUME Inv, TypeInv', NEW c \in Clients, NEW d, NEW can, NEW l,
         MakeVol(c, d.path, can, l), can => CanCreateVol(d.path),
         l.pc \in HoldPCs \ MigratePCs,
         l.disks = {d} \/ (Holding(c) /\ l.disks = call[c].disks \cup {d})
  PROVE  Inv'
<1>1. CASE CanCreateVol(d.path) /\ CreateVol(d.path) /\ Become(c, l) /\ UNCHANGED dom
  BY <1>1, AcquireStep DEF CanCreateVol, CreateVol
<1>2. CASE CreateVol(d.path) /\ Return(c, "err") /\ UNCHANGED dom
  BY <1>2, OrphanStep DEF CreateVol
<1> QED BY <1>1, <1>2, ReturnErrStep DEF MakeVol

\* Going on to another step of the same call, the disks untouched.
LEMMA GotoStep ==
  ASSUME Inv, TypeInv', NEW c \in Clients, NEW pc \in PCs \ MigratePCs, Goto(c, pc),
         UNCHANGED <<vols, dom>>,
         pc \in HoldPCs => Holding(c),
         pc \in DeletePCs \ {"delete_vols"} => call[c].pc \in DeletePCs \ {"delete_vols"}
  PROVE  Inv'
<1> DEFINE l == [call[c] EXCEPT !.pc = pc]
<1>1. l.pc = pc /\ l.disks = call[c].disks /\ l.vm = call[c].vm /\ l.hnd = call[c].hnd
  BY DEF Inv, TypeInv, CallOK, Call
<1> HIDE DEF l
<1>2. HoldsNoMore(c, l) /\ SawDefined(l)
  BY <1>1 DEF HoldsNoMore, SawDefined, Inv, Ownership, SeenDefined, Alive
<1> QED BY <1>2, LocalStep DEF Goto, l

LEMMA GetStateStep ==
  ASSUME Inv, TypeInv', NEW c \in Clients, NEW pc \in PCs \ MigratePCs, GetState(c, pc),
         pc \in HoldPCs => Holding(c),
         pc \in DeletePCs \ {"delete_vols"} => call[c].pc \in DeletePCs \ {"delete_vols"}
  PROVE  Inv'
<1> DEFINE l == [call[c] EXCEPT !.pc = pc, !.seen = dom[call[c].vm].power]
<1>1. l.pc = pc /\ l.disks = call[c].disks /\ l.vm = call[c].vm /\ l.hnd = call[c].hnd
  BY DEF Inv, TypeInv, CallOK, Call
<1> HIDE DEF l
<1>2. Become(c, l) /\ UNCHANGED <<vols, dom>>
  BY DEF GetState, l
<1>3. HoldsNoMore(c, l) /\ SawDefined(l)
  BY <1>1, <1>2 DEF HoldsNoMore, SawDefined, Inv, Ownership, SeenDefined, Alive
<1> QED BY <1>2, <1>3, LocalStep

LEMMA LookupStep ==
  ASSUME Inv, TypeInv', NEW c \in Clients, NEW op, NEW pc \in PCs \ MigratePCs,
         pc \notin HoldPCs, Lookup(c, op, pc)
  PROVE  Inv'
<1>1. PICK v \in VMs : Become(c, [NoCall("none") EXCEPT !.pc = pc, !.vm = v,
                                                        !.hnd = dom[v].id])
  BY DEF Lookup
<1> DEFINE l == [NoCall("none") EXCEPT !.pc = pc, !.vm = v, !.hnd = dom[v].id]
<1>2. l.pc = pc /\ l.disks = {}
  BY DEF NoCall
<1> HIDE DEF l
<1>3. HoldsNoMore(c, l) /\ SawDefined(l)
  BY <1>2 DEF HoldsNoMore, SawDefined
<1> QED BY <1>1, <1>3, LocalStep DEF Lookup, l

\* A domain starts, stops, resumes or is suspended; c goes on or returns.
LEMMA PowerStep ==
  ASSUME Inv, TypeInv', NEW v \in VMs,
         \/ CanCreate(v) /\ Create(v)
         \/ PowerOff(v)
         \/ Registered(v) /\ Unpause(v)
  PROVE  /\ AbsentClean' /\ LiveInConfig'
         /\ \A w \in VMs : /\ dom'[w].config \in {dom[w].config, {}}
                           /\ dom'[w].persistent => /\ dom[w].persistent
                                                    /\ dom'[w].id = dom[w].id
                                                    /\ dom'[w].config = dom[w].config
<1> USE DEF Inv, Ownership, AbsentClean, LiveInConfig, Registered
<1>0. dom \in [VMs -> Domain] /\ dom[v] \in Domain /\ Absent \in Domain
  BY DEF TypeInv, DomOK, Absent, Domain, Power
<1>1. CASE CanCreate(v) /\ Create(v)
  <2> DEFINE r == [dom[v] EXCEPT !.power = "running", !.live = dom[v].config]
  <2>1. /\ r.id = dom[v].id /\ r.persistent = dom[v].persistent
        /\ r.config = dom[v].config /\ r.live = dom[v].config
    BY <1>0 DEF Domain
  <2> HIDE DEF r
  <2>2. dom' = [dom EXCEPT ![v] = r]
    BY <1>0, <1>1 DEF Create, r
  <2>3. dom[v].id # None
    BY <1>1 DEF CanCreate, Absent
  <2> QED BY <1>0, <2>1, <2>2, <2>3
<1>2. CASE PowerOff(v)
  <2>1. CASE dom[v].persistent
    <3> DEFINE r == [dom[v] EXCEPT !.power = "shutoff", !.live = {}]
    <3>1. /\ r.id = dom[v].id /\ r.persistent = dom[v].persistent
          /\ r.config = dom[v].config /\ r.live = {}
      BY <1>0 DEF Domain
    <3> HIDE DEF r
    <3>2. dom' = [dom EXCEPT ![v] = r]
      BY <1>0, <1>2, <2>1 DEF PowerOff, r
    <3>3. dom[v].id # None
      BY <2>1 DEF Absent
    <3> QED BY <1>0, <3>1, <3>2, <3>3
  <2>2. CASE ~dom[v].persistent
    <3>1. dom' = [dom EXCEPT ![v] = Absent]
      BY <1>0, <1>2, <2>2 DEF PowerOff
    <3> QED BY <1>0, <3>1 DEF Absent
  <2> QED BY <2>1, <2>2
<1>3. CASE Registered(v) /\ Unpause(v)
  <2> DEFINE r == [dom[v] EXCEPT !.power = "running"]
  <2>1. /\ r.id = dom[v].id /\ r.persistent = dom[v].persistent
        /\ r.config = dom[v].config /\ r.live = dom[v].live
    BY <1>0 DEF Domain
  <2> HIDE DEF r
  <2>2. dom' = [dom EXCEPT ![v] = r]
    BY <1>0, <1>3 DEF Unpause, r
  <2> QED BY <1>0, <1>3, <2>1, <2>2
<1> QED BY <1>1, <1>2, <1>3

\* Such a step that ends c's call.
LEMMA PowerReturn ==
  ASSUME Inv, TypeInv', NEW c \in Clients, NEW v \in VMs, NEW r, Return(c, r),
         UNCHANGED vols,
         \/ CanCreate(v) /\ Create(v)
         \/ PowerOff(v)
         \/ Registered(v) /\ Unpause(v)
  PROVE  Inv'
<1>1. NoCall(r).pc = "idle"
  BY DEF NoCall
<1>2. HoldsNoMore(c, NoCall(r)) /\ SawDefined(NoCall(r))
  BY <1>1 DEF HoldsNoMore, SawDefined, HoldPCs, MigratePCs, DeletePCs
<1>3. /\ AbsentClean' /\ LiveInConfig'
      /\ \A w \in VMs : /\ dom'[w].config \in {dom[w].config, {}}
                        /\ dom'[w].persistent => /\ dom[w].persistent
                                                 /\ dom'[w].id = dom[w].id
                                                 /\ dom'[w].config = dom[w].config
  BY PowerStep
<1>4. Become(c, NoCall(r))
  BY DEF Return
<1> HIDE DEF NoCall
<1> QED BY <1>2, <1>3, <1>4, QuietStep

\* Such a step after which c goes on, its disks untouched.
LEMMA PowerGoto ==
  ASSUME Inv, TypeInv', NEW c \in Clients, NEW v \in VMs, NEW pc \in PCs \ MigratePCs,
         Goto(c, pc), UNCHANGED vols,
         pc \notin HoldPCs,
         pc \in DeletePCs => call[c].pc \in DeletePCs \ {"delete_vols"},
         \/ CanCreate(v) /\ Create(v)
         \/ PowerOff(v)
         \/ Registered(v) /\ Unpause(v)
  PROVE  Inv'
<1> DEFINE l == [call[c] EXCEPT !.pc = pc]
<1>1. l.pc = pc /\ l.disks = call[c].disks /\ l.vm = call[c].vm /\ l.hnd = call[c].hnd
  BY DEF Inv, TypeInv, CallOK, Call
<1> HIDE DEF l
<1>2. /\ AbsentClean' /\ LiveInConfig'
      /\ \A w \in VMs : /\ dom'[w].config \in {dom[w].config, {}}
                        /\ dom'[w].persistent => /\ dom[w].persistent
                                                 /\ dom'[w].id = dom[w].id
                                                 /\ dom'[w].config = dom[w].config
  BY PowerStep
<1>3. HoldsNoMore(c, l)
  BY <1>1 DEF HoldsNoMore
<1>4. call[c].pc \in DeletePCs \ {"delete_vols"} => call[c].vm \in VMs
  BY DEF Inv, TypeInv, CallOK, DeletePCs
<1>5. SawDefined(l)
  BY <1>1, <1>2, <1>4 DEF SawDefined, Inv, Ownership, SeenDefined, Alive
<1>6. Become(c, l)
  BY DEF Goto, l
<1> QED BY <1>2, <1>3, <1>5, <1>6, QuietStep

LEMMA CreateSteps ==
  ASSUME Inv, TypeInv', NEW c \in Clients, Ops \subseteq PlainOps, CreateVM(c)
  PROVE  Inv'
<1>a. call[c] \in Call /\ dom \in [VMs -> Domain]
  BY DEF Inv, TypeInv, CallOK, DomOK
<1>1. CASE CreateBegin(c)
  <2>1. PICK v \in VMs : Become(c, [NoCall("none") EXCEPT !.pc = "create_clone", !.vm = v])
    BY <1>1 DEF CreateBegin
  <2> DEFINE l == [NoCall("none") EXCEPT !.pc = "create_clone", !.vm = v]
  <2>2. l.pc = "create_clone"
    BY DEF NoCall
  <2> HIDE DEF l
  <2>3. HoldsNoMore(c, l) /\ SawDefined(l)
    BY <2>2 DEF HoldsNoMore, SawDefined, MigratePCs, HoldPCs, DeletePCs
  <2> QED BY <1>1, <2>1, <2>3, LocalStep DEF CreateBegin, l
<1>2. CASE CreateClone(c)
  <2>0. "create_noclone" \notin Ops
    BY DEF PlainOps
  <2> DEFINE l(g, p) == [call[c] EXCEPT
                          !.pc = IF g THEN "create_resize" ELSE "create_extra",
                          !.disks = {[target |-> 1, path |-> p]}]
  <2>1. ASSUME NEW g \in BOOLEAN, NEW p, NEW i,
               MakeVol(c, p, i /\ CanCreateVol(p), l(g, p))
        PROVE  Inv'
    <3> DEFINE d == [target |-> 1, path |-> p]
               k == l(g, p)
    <3>1. k.disks = {d} /\ d.path = p
      BY <1>a DEF Call
    <3>2. k.pc = IF g THEN "create_resize" ELSE "create_extra"
      BY <1>a DEF Call
    <3>3. k.pc \in HoldPCs \ MigratePCs
      BY <3>2 DEF HoldPCs, MigratePCs
    <3>4. MakeVol(c, d.path, i /\ CanCreateVol(d.path), k)
      BY <2>1, <3>1
    <3> HIDE DEF k, d
    <3> QED BY <3>1, <3>3, <3>4, MakeVolStep
  <2>2. PICK grow \in BOOLEAN :
          \E image \in Images, pool \in PoolArgs :
            LET p == <<pool, CloneVol(call[c].vm)>>
            IN MakeVol(c, p, image \in vols /\ CanCreateVol(p), l(grow, p))
    BY <1>2, <2>0 DEF CreateClone
  <2> HIDE DEF l
  <2> QED BY <2>1, <2>2
<1>3. CASE CreateResize(c)
  <2>1. Holding(c)
    BY <1>3 DEF CreateResize, At, Holding, HoldPCs
  <2>2. CASE Goto(c, "create_extra") /\ UNCHANGED <<vols, dom, faults>>
    BY <2>1, <2>2, GotoStep DEF PCs, CreatePCs, MigratePCs, DeletePCs
  <2> QED BY <1>3, <2>2, ReturnErrStep DEF CreateResize
<1>4. CASE CreateExtra(c)
  <2>1. Holding(c)
    BY <1>4 DEF CreateExtra, At, Holding, HoldPCs
  <2>2. CASE Goto(c, "create_define") /\ UNCHANGED <<vols, dom, faults>>
    BY <2>1, <2>2, GotoStep DEF PCs, CreatePCs, MigratePCs, DeletePCs
  <2> DEFINE l(p) == [call[c] EXCEPT !.pc = "create_define",
                        !.disks = @ \cup {[target |-> 2, path |-> p]}]
  <2>3. ASSUME NEW p, MakeVol(c, p, CanCreateVol(p), l(p))
        PROVE  Inv'
    <3> DEFINE d == [target |-> 2, path |-> p]
               k == l(p)
               can == CanCreateVol(d.path)
    <3>1. k.pc = "create_define" /\ k.disks = call[c].disks \cup {d} /\ d.path = p
      BY <1>a DEF Call
    <3>2. k.pc \in HoldPCs \ MigratePCs
      BY <3>1 DEF HoldPCs, MigratePCs
    <3>3. MakeVol(c, d.path, can, k) /\ (can => CanCreateVol(d.path))
      BY <2>3, <3>1
    <3> HIDE DEF k, d, can
    <3> QED BY <2>1, <3>1, <3>2, <3>3, MakeVolStep
  <2> QED BY <1>4, <2>2, <2>3 DEF CreateExtra
<1>6. CASE CreateStart(c)
  <2>1. call[c].vm \in VMs
    BY <1>6 DEF CreateStart, At, Inv, TypeInv, CallOK
  <2>2. ASSUME CanCreate(call[c].vm), Create(call[c].vm), Return(c, "ok"), UNCHANGED <<vols, faults>>
        PROVE  Inv'
    BY <2>1, <2>2, PowerReturn
  <2> QED BY <1>6, <2>2, ReturnErrStep DEF CreateStart
<1>5. CASE CreateDefine(c)
  <2>1. /\ call[c].pc = "create_define" /\ Holding(c) /\ call[c].vm \in VMs
    BY <1>5 DEF CreateDefine, At, Holding, HoldPCs, Inv, TypeInv, CallOK
  <2>2. ASSUME NEW id \in Uuids, Fresh(id), CanDefine(call[c].vm, id),
               DefineXML(call[c].vm, id, call[c].disks), Goto(c, "create_start"),
               UNCHANGED <<vols, faults>>
        PROVE  Inv'
    <3> DEFINE v == call[c].vm
               r == [dom[v] EXCEPT !.id = id, !.persistent = TRUE, !.config = call[c].disks]
    <3>0. /\ dom[v].id = None /\ dom[v] = Absent /\ dom[v].live = {} /\ dom[v].config = {}
          /\ id # None
      <4>1. id # None
        BY LibvirtAssumption DEF LibvirtAssumption
      <4>2. dom[v].id = None
        BY <2>1, <2>2, <4>1 DEF Fresh, CanDefine
      <4>3. dom[v] = Absent
        BY <2>1, <4>2 DEF Inv, Ownership, AbsentClean, Registered
      <4> QED BY <4>1, <4>2, <4>3 DEF Absent
    <3>1. r.id = id /\ r.persistent = TRUE /\ r.config = call[c].disks /\ r.live = {}
      BY <1>a, <2>1, <3>0 DEF Domain
    <3> HIDE DEF r
    <3>2. dom' = [dom EXCEPT ![v] = r]
      BY <1>a, <2>1, <2>2 DEF DefineXML, r
    <3>3. /\ dom'[v] = r
          /\ \A w \in VMs : w # v => dom'[w] = dom[w]
      BY <1>a, <2>1, <3>2
    <3>4. /\ call'[c].pc = "create_start"
          /\ \A b \in Clients : b # c => call'[b] = call[b]
      BY <1>a, <2>2 DEF Goto, Become, Inv, TypeInv, CallOK, Call
    <3>h. \A b \in Clients : call'[b].pc \in HoldPCs => b # c /\ call'[b] = call[b]
      BY <3>4 DEF HoldPCs
    <3>5. \A b \in Clients : call'[b].pc \notin MigratePCs
      BY <3>4 DEF MigratePCs, Inv
    <3>6. AbsentClean' /\ LiveInConfig'
      BY <3>0, <3>1, <3>3 DEF Inv, Ownership, AbsentClean, LiveInConfig, Registered
    <3>7. DefinedExist'
      BY <2>1, <2>2, <3>1, <3>3 DEF Inv, Ownership, DefinedExist, HeldExist
    <3>8. NoSharedVolume'
      BY <2>1, <3>1, <3>3 DEF Inv, Ownership, NoSharedVolume, HeldOnce, HeldUndefined
    <3>9. HeldExist' /\ HeldOnce'
      BY <2>2, <3>h DEF Inv, Ownership, HeldExist, HeldOnce, Holding
    <3>10. HeldUndefined'
      BY <2>1, <3>h, <3>1, <3>3 DEF Inv, Ownership, HeldUndefined, HeldOnce, Holding
    <3>11. SeenDefined'
      <4> SUFFICES ASSUME NEW b \in Clients, call'[b].pc \in DeletePCs \ {"delete_vols"},
                          dom'[call'[b].vm].id = call'[b].hnd,
                          dom'[call'[b].vm].persistent
                   PROVE  call'[b].disks \subseteq dom'[call'[b].vm].config
        BY DEF SeenDefined, Alive
      <4>1. b # c /\ call'[b] = call[b] /\ call[b].vm \in VMs /\ call[b].hnd # id
        BY <2>2, <3>4 DEF DeletePCs, Fresh, Inv, TypeInv, CallOK
      <4>2. call[b].vm # v
        BY <3>1, <3>3, <4>1
      <4> QED BY <3>3, <4>1, <4>2 DEF Inv, Ownership, SeenDefined, Alive
    <3> QED BY <3>5, <3>6, <3>7, <3>8, <3>9, <3>10, <3>11 DEF Inv, Ownership
  <2> QED BY <1>5, <2>2, ReturnErrStep DEF CreateDefine
<1> QED BY <1>1, <1>2, <1>3, <1>4, <1>5, <1>6 DEF CreateVM

\* AddAttach: the volume c holds becomes a disk of its domain.
LEMMA AttachStep ==
  ASSUME Inv, TypeInv', NEW c \in Clients, At(c, "add_attach"), NEW d \in call[c].disks,
         CanAttach(call[c].vm, d, WasActive(c)), Attach(call[c].vm, d, WasActive(c)),
         Return(c, "ok"), UNCHANGED vols
  PROVE  Inv'
<1>a. call[c] \in Call /\ dom \in [VMs -> Domain] /\ call[c].vm \in VMs /\ Holding(c)
  BY DEF Inv, TypeInv, CallOK, DomOK, At, Holding, HoldPCs
<1> DEFINE v == call[c].vm
           E == {e \in {d} : WasActive(c)}
           r == [dom[v] EXCEPT !.config = dom[v].config \cup {d}, !.live = dom[v].live \cup E]
<1>1. /\ r.id = dom[v].id /\ r.persistent = dom[v].persistent
      /\ r.config = dom[v].config \cup {d} /\ r.live = dom[v].live \cup E
      /\ E \subseteq {d}
  BY <1>a DEF Domain
<1>2. dom' = [dom EXCEPT ![v] = r]
  BY <1>a DEF Attach
<1> HIDE DEF r, E
<1>3. dom'[v] = r /\ \A w \in VMs : w # v => dom'[w] = dom[w]
  BY <1>a, <1>2
<1>p. dom[v].persistent /\ dom[v].id # None
  BY <1>a DEF CanAttach, Inv, Ownership, AbsentClean, Registered, Absent
<1>4. call'[c].pc = "idle" /\ \A b \in Clients : b # c => call'[b] = call[b]
  BY <1>a DEF Return, Become, NoCall, Inv, TypeInv, CallOK
<1>h. \A b \in Clients : call'[b].pc \in HoldPCs => b # c /\ call'[b] = call[b]
  BY <1>4 DEF HoldPCs
<1>5. \A b \in Clients : call'[b].pc \notin MigratePCs
  BY <1>4 DEF MigratePCs, Inv
<1>6. AbsentClean'
  BY <1>p, <1>1, <1>3 DEF Inv, Ownership, AbsentClean, Registered
<1>7. LiveInConfig'
  BY <1>p, <1>1, <1>3 DEF Inv, Ownership, LiveInConfig
<1>8. DefinedExist'
  BY <1>a, <1>1, <1>3 DEF Inv, Ownership, DefinedExist, HeldExist
<1>9. NoSharedVolume'
  <2>1. \A w \in VMs : \A e \in dom'[w].config : e \in dom[w].config \/ (w = v /\ e = d)
    BY <1>1, <1>3
  <2>2. \A w \in VMs : \A e \in dom[w].config : e.path # d.path
    BY <1>a DEF Inv, Ownership, HeldUndefined
  <2> QED BY <2>1, <2>2 DEF Inv, Ownership, NoSharedVolume
<1>10. HeldExist' /\ HeldOnce'
  BY <1>h DEF Inv, Ownership, HeldExist, HeldOnce, Holding
<1>11. HeldUndefined'
  BY <1>a, <1>h, <1>1, <1>3 DEF Inv, Ownership, HeldUndefined, HeldOnce, Holding
<1>12. SeenDefined'
  <2> SUFFICES ASSUME NEW b \in Clients, call'[b].pc \in DeletePCs \ {"delete_vols"},
                      dom'[call'[b].vm].id = call'[b].hnd,
                      dom'[call'[b].vm].persistent
               PROVE  call'[b].disks \subseteq dom'[call'[b].vm].config
    BY DEF SeenDefined, Alive
  <2>1. b # c /\ call'[b] = call[b] /\ call[b].vm \in VMs
    BY <1>4 DEF DeletePCs, Inv, TypeInv, CallOK
  <2> QED BY <1>1, <1>3, <2>1 DEF Inv, Ownership, SeenDefined, Alive
<1> QED BY <1>5, <1>6, <1>7, <1>8, <1>9, <1>10, <1>11, <1>12 DEF Inv, Ownership

LEMMA AddSteps ==
  ASSUME Inv, TypeInv', NEW c \in Clients, AddDisk(c)
  PROVE  Inv'
<1>a. call[c] \in Call
  BY DEF Inv, TypeInv, CallOK
<1>b. {"add_xml", "add_state", "add_attach", "add_rollback"} \subseteq PCs \ (MigratePCs \cup DeletePCs)
  BY DEF PCs, AddPCs, MigratePCs, DeletePCs
<1>1. CASE AddBegin(c)
  BY <1>1, <1>b, LookupStep DEF AddBegin, HoldPCs
<1>2. CASE AddXML(c)
  <2> DEFINE l == [call[c] EXCEPT !.pc = "add_volume", !.disks = XMLDesc(call[c].vm)]
  <2>1. l.pc = "add_volume"
    BY <1>a DEF Call
  <2>2. CASE Become(c, l) /\ UNCHANGED <<vols, dom>>
    <3> HIDE DEF l
    <3>1. HoldsNoMore(c, l) /\ SawDefined(l)
      BY <2>1 DEF HoldsNoMore, SawDefined, HoldPCs, MigratePCs, DeletePCs
    <3> QED BY <2>2, <3>1, LocalStep
  <2> QED BY <1>2, <2>2, ReturnErrStep DEF AddXML
<1>3. CASE AddVolume(c)
  <2> DEFINE l(t, p) == [call[c] EXCEPT !.pc = "add_state",
                           !.disks = {[target |-> t, path |-> p]}]
  <2>1. ASSUME NEW t, NEW p, MakeVol(c, p, CanCreateVol(p), l(t, p))
        PROVE  Inv'
    <3> DEFINE d == [target |-> t, path |-> p]
               k == l(t, p)
               can == CanCreateVol(d.path)
    <3>1. k.pc = "add_state" /\ k.disks = {d} /\ d.path = p
      BY <1>a DEF Call
    <3>2. k.pc \in HoldPCs \ MigratePCs
      BY <3>1 DEF HoldPCs, MigratePCs
    <3>3. MakeVol(c, d.path, can, k) /\ (can => CanCreateVol(d.path))
      BY <2>1, <3>1
    <3> HIDE DEF k, d, can
    <3> QED BY <3>1, <3>2, <3>3, MakeVolStep
  <2> QED BY <1>3, <2>1 DEF AddVolume
<1>4. CASE AddState(c)
  <2>1. Holding(c)
    BY <1>4 DEF AddState, At, Holding, HoldPCs
  <2>2. CASE GetState(c, "add_attach")
    BY <1>b, <2>1, <2>2, GetStateStep
  <2>3. CASE Goto(c, "add_rollback") /\ UNCHANGED hostVars
    BY <1>b, <2>1, <2>3, GotoStep DEF hostVars
  <2> QED BY <1>4, <2>2, <2>3 DEF AddState
<1>5. CASE AddAttach(c)
  <2>1. Holding(c) /\ At(c, "add_attach")
    BY <1>5 DEF AddAttach, At, Holding, HoldPCs
  <2>2. CASE Goto(c, "add_rollback") /\ UNCHANGED hostVars
    BY <1>b, <2>1, <2>2, GotoStep DEF hostVars
  <2> QED BY <1>5, <2>1, <2>2, AttachStep DEF AddAttach
<1>6. CASE AddRollback(c)
  <2>1. Holding(c) /\ Return(c, "err")
    BY <1>6 DEF AddRollback, At, Holding, HoldPCs
  <2> DEFINE l == NoCall("err")
  <2>2. l.pc = "idle"
    BY DEF NoCall
  <2> HIDE DEF l
  <2>3. HoldsNoMore(c, l) /\ SawDefined(l) /\ l.pc \notin HoldPCs
    BY <2>2 DEF HoldsNoMore, SawDefined, HoldPCs, MigratePCs, DeletePCs
  <2>4. ASSUME NEW d \in call[c].disks, DeleteVol(d.path), UNCHANGED dom
        PROVE  Inv'
    BY <2>1, <2>3, <2>4, ReleaseStep DEF Return, l
  <2>5. CASE UNCHANGED hostVars
    BY <2>1, <2>5, ReturnStep DEF hostVars
  <2> QED BY <1>6, <2>4, <2>5 DEF AddRollback
<1> QED BY <1>1, <1>2, <1>3, <1>4, <1>5, <1>6 DEF AddDisk

\* DeleteUndefine: what the definition named now belongs to c, or to nobody.
LEMMA UndefineStep ==
  ASSUME Inv, TypeInv', NEW c \in Clients, At(c, "delete_undefine"), Alive(c),
         CanUndefine(call[c].vm), Undefine(call[c].vm),
         Return(c, "ok") \/ Goto(c, "delete_vols"), UNCHANGED vols
  PROVE  Inv'
<1>a. call[c] \in Call /\ dom \in [VMs -> Domain] /\ call[c].vm \in VMs
  BY DEF Inv, TypeInv, CallOK, DomOK, At
<1> DEFINE v == call[c].vm
           r == IF Active(v) THEN [dom[v] EXCEPT !.persistent = FALSE, !.config = {}]
                             ELSE Absent
<1>1. /\ r.config = {} /\ r.persistent = FALSE
      /\ r = Absent \/ r.id = dom[v].id
  BY <1>a DEF Domain, Absent
<1>2. dom' = [dom EXCEPT ![v] = r]
  BY <1>a DEF Undefine
<1> HIDE DEF r
<1>3. dom'[v] = r /\ \A w \in VMs : w # v => dom'[w] = dom[w]
  BY <1>a, <1>2
<1>p. dom[v].persistent /\ dom[v].id # None
  BY <1>a DEF CanUndefine, Inv, Ownership, AbsentClean, Registered, Absent
<1>s. call[c].disks \subseteq dom[v].config
  BY <1>p DEF At, DeletePCs, Inv, Ownership, SeenDefined
<1>4. /\ call'[c].pc \in {"idle", "delete_vols"}
      /\ call'[c].pc = "delete_vols" => call'[c].disks = call[c].disks
      /\ \A b \in Clients : b # c => call'[b] = call[b]
  BY <1>a DEF Return, Goto, Become, NoCall, Inv, TypeInv, CallOK, Call
<1>h. \A b \in Clients : call'[b].pc \in HoldPCs =>
        IF b = c THEN call'[b].disks \subseteq dom[v].config
                 ELSE Holding(b) /\ call'[b] = call[b]
  BY <1>4, <1>s DEF HoldPCs, Holding
<1>5. \A b \in Clients : call'[b].pc \notin MigratePCs
  BY <1>4 DEF MigratePCs, Inv
<1>6. AbsentClean'
  BY <1>p, <1>1, <1>3 DEF Inv, Ownership, AbsentClean, Registered
<1>7. LiveInConfig' /\ DefinedExist' /\ NoSharedVolume'
  BY <1>1, <1>3 DEF Inv, Ownership, LiveInConfig, DefinedExist, NoSharedVolume
<1>8. HeldExist'
  BY <1>a, <1>h DEF Inv, Ownership, HeldExist, DefinedExist, Holding
<1>9. HeldOnce'
  <2> SUFFICES ASSUME NEW a \in Clients, NEW b \in Clients,
                      call'[a].pc \in HoldPCs, call'[b].pc \in HoldPCs,
                      NEW x \in call'[a].disks, NEW y \in call'[b].disks,
                      x.path = y.path
               PROVE  a = b /\ x = y
    BY DEF HeldOnce, Holding
  <2>1. CASE a = c /\ b = c
    BY <1>a, <1>h, <2>1 DEF Inv, Ownership, NoSharedVolume
  <2>2. CASE a = c /\ b # c
    BY <1>a, <1>h, <2>2 DEF Inv, Ownership, HeldUndefined
  <2>3. CASE a # c /\ b = c
    BY <1>a, <1>h, <2>3 DEF Inv, Ownership, HeldUndefined
  <2>4. CASE a # c /\ b # c
    BY <1>h, <2>4 DEF Inv, Ownership, HeldOnce
  <2> QED BY <2>1, <2>2, <2>3, <2>4
<1>10. HeldUndefined'
  <2> SUFFICES ASSUME NEW b \in Clients, NEW w \in VMs, call'[b].pc \in HoldPCs,
                      NEW x \in call'[b].disks, NEW y \in dom'[w].config
               PROVE  x.path # y.path
    BY DEF HeldUndefined, Holding
  <2>1. w # v /\ y \in dom[w].config
    BY <1>1, <1>3
  <2>2. CASE b = c
    BY <1>a, <1>h, <2>1, <2>2 DEF Inv, Ownership, NoSharedVolume
  <2>3. CASE b # c
    BY <1>h, <2>1, <2>3 DEF Inv, Ownership, HeldUndefined
  <2> QED BY <2>2, <2>3
<1>11. SeenDefined'
  <2> SUFFICES ASSUME NEW b \in Clients, call'[b].pc \in DeletePCs \ {"delete_vols"},
                      dom'[call'[b].vm].id = call'[b].hnd,
                      dom'[call'[b].vm].persistent
               PROVE  call'[b].disks \subseteq dom'[call'[b].vm].config
    BY DEF SeenDefined, Alive
  <2>1. b # c /\ call'[b] = call[b] /\ call[b].vm \in VMs
    BY <1>4 DEF DeletePCs, Inv, TypeInv, CallOK
  <2> QED BY <1>1, <1>3, <2>1 DEF Inv, Ownership, SeenDefined, Alive
<1> QED BY <1>5, <1>6, <1>7, <1>8, <1>9, <1>10, <1>11 DEF Inv, Ownership

LEMMA DeleteSteps ==
  ASSUME Inv, TypeInv', NEW c \in Clients, Delete(c)
  PROVE  Inv'
<1>a. call[c] \in Call
  BY DEF Inv, TypeInv, CallOK
<1>b. {"delete_xml", "delete_state", "delete_destroy", "delete_undefine"}
         \subseteq (PCs \cap DeletePCs) \ (MigratePCs \cup HoldPCs \cup {"delete_vols"})
  BY DEF PCs, DeletePCs, MigratePCs, HoldPCs
<1>c. call[c].pc \in DeletePCs => call[c].vm \in VMs
  BY DEF Inv, TypeInv, CallOK, DeletePCs
<1>1. CASE DeleteBegin(c)
  BY <1>1, <1>b, LookupStep DEF DeleteBegin
<1>2. CASE DeleteXML(c)
  <2>0. call[c].pc = "delete_xml" /\ call[c].vm \in VMs
    BY <1>2, <1>b, <1>c DEF DeleteXML, At
  <2> DEFINE l == [call[c] EXCEPT !.pc = "delete_state", !.disks = XMLDesc(call[c].vm)]
  <2>1. l.pc = "delete_state" /\ l.vm = call[c].vm /\ l.disks = XMLDesc(call[c].vm)
    BY <1>a DEF Call
  <2>2. CASE Become(c, l) /\ UNCHANGED hostVars
    <3> HIDE DEF l
    <3>1. HoldsNoMore(c, l)
      BY <2>1 DEF HoldsNoMore, HoldPCs, MigratePCs
    <3>2. UNCHANGED <<vols, dom>>
      BY <2>2 DEF hostVars
    <3>3. SawDefined(l)
      BY <2>0, <2>1, <3>2 DEF SawDefined, XMLDesc, Inv, Ownership, LiveInConfig
    <3> QED BY <2>2, <3>1, <3>2, <3>3, LocalStep
  <2>3. CASE Goto(c, "delete_state") /\ UNCHANGED hostVars
    BY <1>b, <2>0, <2>3, GotoStep DEF hostVars
  <2> QED BY <1>2, <2>2, <2>3 DEF DeleteXML
<1>3. CASE DeleteState(c)
  <2>1. call[c].pc = "delete_state"
    BY <1>3 DEF DeleteState, At
  <2>2. ASSUME NEW pc \in {"delete_destroy", "delete_undefine"}, GetState(c, pc)
        PROVE  Inv'
    BY <1>b, <2>1, <2>2, GetStateStep
  <2> QED BY <1>3, <2>2, ReturnErrStep DEF DeleteState
<1>4. CASE DeleteDestroy(c)
  <2>1. call[c].pc = "delete_destroy" /\ call[c].vm \in VMs
    BY <1>4, <1>b, <1>c DEF DeleteDestroy, At
  <2>2. CASE PowerOff(call[c].vm) /\ Goto(c, "delete_undefine") /\ UNCHANGED vols
    BY <1>b, <2>1, <2>2, PowerGoto
  <2> QED BY <1>4, <2>2, ReturnErrStep DEF DeleteDestroy
<1>5. CASE DeleteUndefine(c)
  BY <1>5, UndefineStep, ReturnErrStep DEF DeleteUndefine
<1>6. CASE DeleteVols(c)
  <2>1. call[c].pc = "delete_vols" /\ Holding(c)
    BY <1>6 DEF DeleteVols, At, Holding, HoldPCs
  <2>2. PICK d \in call[c].disks :
          LET rest == call[c].disks \ {d}
              next == IF rest = {} THEN Return(c, "ok")
                      ELSE Become(c, [call[c] EXCEPT !.disks = rest])
          IN \/ DeleteVol(d.path) /\ next /\ UNCHANGED <<dom, faults>>
             \/ Fails(TRUE) /\ next /\ UNCHANGED hostVars
             \/ ReturnErr(c, TRUE)
    BY <1>6 DEF DeleteVols
  <2>3. ASSUME NEW l, l = NoCall("ok") \/ l = [call[c] EXCEPT !.disks = @ \ {d}]
        PROVE  /\ HoldsNoMore(c, l) /\ SawDefined(l)
               /\ l.pc \in HoldPCs => d \notin l.disks
    <3>1. CASE l = NoCall("ok")
      <4>1. l.pc = "idle"
        BY <3>1 DEF NoCall
      <4> QED BY <4>1 DEF HoldsNoMore, SawDefined, HoldPCs, MigratePCs, DeletePCs
    <3>2. CASE l = [call[c] EXCEPT !.disks = @ \ {d}]
      <4>1. l.pc = "delete_vols" /\ l.disks = call[c].disks \ {d}
        BY <1>a, <2>1, <3>2 DEF Call
      <4> QED BY <2>1, <4>1 DEF HoldsNoMore, SawDefined, MigratePCs
    <3> QED BY <2>3, <3>1, <3>2
  <2> DEFINE l == IF call[c].disks \ {d} = {} THEN NoCall("ok")
                  ELSE [call[c] EXCEPT !.disks = @ \ {d}]
  <2>4. HoldsNoMore(c, l) /\ SawDefined(l) /\ (l.pc \in HoldPCs => d \notin l.disks)
    BY <2>3
  <2>5. \/ DeleteVol(d.path) /\ Become(c, l) /\ UNCHANGED <<dom, faults>>
        \/ Become(c, l) /\ UNCHANGED hostVars
        \/ ReturnErr(c, TRUE)
    BY <2>2 DEF Return
  <2> HIDE DEF l
  <2>6. CASE DeleteVol(d.path) /\ Become(c, l) /\ UNCHANGED <<dom, faults>>
    BY <2>1, <2>4, <2>6, ReleaseStep
  <2>7. CASE Become(c, l) /\ UNCHANGED hostVars
    BY <2>4, <2>7, LocalStep DEF hostVars
  <2> QED BY <2>5, <2>6, <2>7, ReturnErrStep
<1> QED BY <1>1, <1>2, <1>3, <1>4, <1>5, <1>6 DEF Delete

LEMMA MigrateSteps ==
  ASSUME Inv, NEW c \in Clients, Ops \subseteq PlainOps, MigrateDisk(c)
  PROVE  FALSE
<1>1. "migrate" \notin Ops
  BY DEF PlainOps
<1>2. call[c].pc \notin MigratePCs
  BY DEF Inv
<1> QED BY <1>1, <1>2 DEF MigrateDisk, MigrateBegin, Lookup, MigrateState, MigrateXML,
           MigrateDestroy, MigrateCopy, MigrateDefine, MigrateDelete, MigrateRestart,
           At, MigratePCs

LEMMA OtherSteps ==
  ASSUME Inv, TypeInv', NEW c \in Clients,
         Start(c) \/ Destroy(c) \/ Resume(c) \/ Stop(c) \/ Dies(c)
  PROVE  Inv'
<1>p. ASSUME NEW v \in VMs, Paused(v) PROVE Registered(v)
  BY <1>p DEF Paused, Registered, Inv, Ownership, AbsentClean, Absent
<1>1. CASE Start(c)
  <2>1. \E v \in VMs : \/ CanCreate(v) /\ Create(v) /\ Return(c, "ok") /\ UNCHANGED vols
                       \/ ReturnErr(c, CanCreate(v))
    BY <1>1 DEF Start, OneRPC
  <2> QED BY <2>1, PowerReturn, ReturnErrStep
<1>2. CASE Destroy(c)
  <2>1. \E v \in VMs : \/ PowerOff(v) /\ Return(c, "ok") /\ UNCHANGED vols
                       \/ ReturnErr(c, Active(v))
    BY <1>2 DEF Destroy, OneRPC
  <2> QED BY <2>1, PowerReturn, ReturnErrStep
<1>3. CASE Resume(c)
  <2>1. \E v \in VMs : \/ Paused(v) /\ Unpause(v) /\ Return(c, "ok") /\ UNCHANGED vols
                       \/ ReturnErr(c, Paused(v))
    BY <1>3 DEF Resume, OneRPC
  <2> QED BY <1>p, <2>1, PowerReturn, ReturnErrStep
<1>4. CASE StopBegin(c)
  BY <1>4, LookupStep DEF StopBegin, PCs, MigratePCs, HoldPCs
<1>5. CASE StopState(c)
  <2>1. call[c].vm \in VMs
    BY <1>5 DEF StopState, At, Inv, TypeInv, CallOK
  <2>2. "stop_shutdown" \in PCs \ (MigratePCs \cup HoldPCs \cup DeletePCs)
    BY DEF PCs, MigratePCs, HoldPCs, DeletePCs
  <2>3. CASE Paused(call[c].vm) /\ Unpause(call[c].vm) /\ Goto(c, "stop_shutdown") /\ UNCHANGED vols
    BY <1>p, <2>1, <2>2, <2>3, PowerGoto
  <2>4. CASE UNCHANGED <<vols, dom>> /\ Goto(c, "stop_shutdown")
    BY <2>2, <2>4, GotoStep
  <2> QED BY <1>5, <2>3, <2>4, ReturnErrStep DEF StopState
<1>6. CASE StopShutdown(c)
  BY <1>6, ReturnStep, ReturnErrStep DEF StopShutdown
<1>7. CASE Dies(c)
  BY <1>7, ReturnStep DEF Dies
<1> QED BY <1>1, <1>2, <1>3, <1>4, <1>5, <1>6, <1>7 DEF Stop

LEMMA GuestSteps ==
  ASSUME Inv, TypeInv', NEW v \in VMs, Guest(v)
  PROVE  Ownership' /\ \A c \in Clients : call'[c].pc \notin MigratePCs
<1>1. vols' = vols /\ call' = call
  BY DEF Guest, GuestPowersOff, Suspend
<1>2. /\ AbsentClean' /\ LiveInConfig'
      /\ \A w \in VMs : /\ dom'[w].config \in {dom[w].config, {}}
                        /\ dom'[w].persistent => /\ dom[w].persistent
                                                 /\ dom'[w].id = dom[w].id
                                                 /\ dom'[w].config = dom[w].config
  <2>1. CASE PowerOff(v)
    BY <2>1, PowerStep
  <2>2. CASE Suspend(v)
    <3> DEFINE r == [dom[v] EXCEPT !.power = "paused"]
    <3>0. dom \in [VMs -> Domain] /\ dom[v] \in Domain
      BY DEF Inv, TypeInv, DomOK
    <3>1. /\ r.id = dom[v].id /\ r.persistent = dom[v].persistent
          /\ r.config = dom[v].config /\ r.live = dom[v].live
      BY <3>0 DEF Domain
    <3> HIDE DEF r
    <3>2. dom' = [dom EXCEPT ![v] = r]
      BY <2>2, <3>0 DEF Suspend, r
    <3>3. dom[v].id # None
      BY <2>2 DEF Suspend, Inv, Ownership, AbsentClean, Registered, Absent
    <3> QED BY <3>0, <3>1, <3>2, <3>3 DEF Inv, Ownership, AbsentClean, LiveInConfig, Registered
  <2> QED BY <2>1, <2>2 DEF Guest, GuestPowersOff
<1>v. \A w \in VMs : dom'[w].config \subseteq dom[w].config
  BY <1>2
<1>3. DefinedExist' /\ NoSharedVolume'
  BY <1>1, <1>v DEF Inv, Ownership, DefinedExist, NoSharedVolume
<1>4. HeldExist' /\ HeldOnce' /\ HeldUndefined'
  BY <1>1, <1>v DEF Inv, Ownership, HeldExist, HeldOnce, HeldUndefined, Holding
<1>5. SeenDefined'
  <2>1. \A c \in Clients : call[c].pc \in DeletePCs => call[c].vm \in VMs
    BY DEF DeletePCs, Inv, TypeInv, CallOK
  <2> QED BY <1>1, <1>2, <2>1 DEF Inv, Ownership, SeenDefined, Alive
<1> QED BY <1>1, <1>2, <1>3, <1>4, <1>5 DEF Inv, Ownership

(***************************************************************************)
(* The theorems.                                                           *)
(***************************************************************************)
LEMMA OwnershipStep ==
  ASSUME Inv, Ops \subseteq PlainOps, [Next]_vars
  PROVE  Inv'
<1>t. TypeInv'
  BY TypeStep DEF Inv
<1>1. ASSUME NEW c \in Clients, CreateVM(c) PROVE Inv'
  BY <1>t, <1>1, CreateSteps
<1>2. ASSUME NEW c \in Clients, AddDisk(c) PROVE Inv'
  BY <1>t, <1>2, AddSteps
<1>3. ASSUME NEW c \in Clients, Delete(c) PROVE Inv'
  BY <1>t, <1>3, DeleteSteps
<1>4. ASSUME NEW c \in Clients, MigrateDisk(c) PROVE Inv'
  BY <1>4, MigrateSteps
<1>5. ASSUME NEW c \in Clients, Start(c) \/ Destroy(c) \/ Resume(c) \/ Stop(c) \/ Dies(c)
      PROVE  Inv'
  BY <1>t, <1>5, OtherSteps
<1>6. ASSUME NEW c \in Clients, DeleteImage(c) PROVE Inv'
  BY <1>6 DEF DeleteImage, PlainOps
<1>7. ASSUME NEW v \in VMs, Guest(v) PROVE Inv'
  BY <1>t, <1>7, GuestSteps DEF Inv
<1>8. CASE UNCHANGED vars
  BY <1>8 DEF vars, Inv, TypeInv, CallOK, DomOK, Ownership, AbsentClean, LiveInConfig,
       DefinedExist, NoSharedVolume, HeldExist, HeldOnce, HeldUndefined, SeenDefined,
       Registered, Holding, Alive
<1> QED BY <1>1, <1>2, <1>3, <1>4, <1>5, <1>6, <1>7, <1>8 DEF Next

LEMMA OwnershipInit ==
  ASSUME Init
  PROVE  Inv
<1>1. TypeInv
  BY TypeInit
<1>2. \A c \in Clients : call[c] = NoCall("none")
  BY DEF Init
<1>3. NoCall("none").pc = "idle"
  BY DEF NoCall
<1>4. \A c \in Clients : call[c].pc = "idle"
  BY <1>2, <1>3
<1>5. \A v \in VMs : dom[v] = Absent
  BY DEF Init, HostInit
<1>6. /\ Absent.id = None /\ Absent.persistent = FALSE
      /\ Absent.config = {}
  BY DEF Absent
<1>7. AbsentClean /\ LiveInConfig /\ DefinedExist /\ NoSharedVolume
  BY <1>5, <1>6 DEF AbsentClean, LiveInConfig, DefinedExist, NoSharedVolume, Registered
<1>8. HeldExist /\ HeldOnce /\ HeldUndefined /\ SeenDefined
  BY <1>4 DEF HeldExist, HeldOnce, HeldUndefined, SeenDefined, Holding, HoldPCs, DeletePCs
<1>9. \A c \in Clients : call[c].pc \notin MigratePCs
  BY <1>4 DEF MigratePCs
<1> QED BY <1>1, <1>7, <1>8, <1>9 DEF Inv, Ownership

(* What runs names no volume twice: with DomDistinct, TargetsUnique. *)
LiveUnique == \A v \in VMs : \A d, e \in dom[v].live : d.path = e.path => d = e

LEMMA LiveReplaced ==
  ASSUME Inv, LiveUnique, NEW v \in VMs, NEW r, dom' = [dom EXCEPT ![v] = r],
         \A d, e \in r.live : d.path = e.path => d = e
  PROVE  LiveUnique'
BY DEF Inv, TypeInv, DomOK, LiveUnique

LEMMA LiveEffects ==
  ASSUME Inv, LiveUnique, NEW v \in VMs
  PROVE  /\ \A id, D : DefineXML(v, id, D) => LiveUnique'
         /\ Create(v) => LiveUnique'
         /\ PowerOff(v) => LiveUnique'
         /\ Undefine(v) => LiveUnique'
         /\ Unpause(v) => LiveUnique'
         /\ Suspend(v) => LiveUnique'
<1>a. /\ dom[v] \in Domain /\ dom \in [VMs -> Domain] /\ Absent.live = {}
      /\ \A d, e \in dom[v].live : d.path = e.path => d = e
      /\ \A d, e \in dom[v].config : d.path = e.path => d = e
  BY DEF Inv, TypeInv, DomOK, LiveUnique, Absent, Ownership, NoSharedVolume
<1>1. ASSUME NEW id, NEW D, DefineXML(v, id, D) PROVE LiveUnique'
  <2> DEFINE r == [dom[v] EXCEPT !.id = id, !.persistent = TRUE, !.config = D]
  <2>1. r.live = dom[v].live /\ dom' = [dom EXCEPT ![v] = r]
    BY <1>1, <1>a DEF DefineXML, Domain
  <2> HIDE DEF r
  <2> QED BY <1>a, <2>1, LiveReplaced
<1>2. ASSUME Create(v) PROVE LiveUnique'
  <2> DEFINE r == [dom[v] EXCEPT !.power = "running", !.live = dom[v].config]
  <2>1. r.live = dom[v].config /\ dom' = [dom EXCEPT ![v] = r]
    BY <1>2, <1>a DEF Create, Domain
  <2> HIDE DEF r
  <2> QED BY <1>a, <2>1, LiveReplaced
<1>3. ASSUME PowerOff(v) PROVE LiveUnique'
  <2> DEFINE r == IF dom[v].persistent THEN [dom[v] EXCEPT !.power = "shutoff", !.live = {}]
                  ELSE Absent
  <2>1. r.live = {} /\ dom' = [dom EXCEPT ![v] = r]
    BY <1>3, <1>a DEF PowerOff, Domain
  <2> HIDE DEF r
  <2> QED BY <2>1, LiveReplaced
<1>4. ASSUME Undefine(v) PROVE LiveUnique'
  <2> DEFINE r == IF Active(v) THEN [dom[v] EXCEPT !.persistent = FALSE, !.config = {}]
                  ELSE Absent
  <2>1. r.live \in {dom[v].live, {}} /\ dom' = [dom EXCEPT ![v] = r]
    BY <1>4, <1>a DEF Undefine, Domain
  <2> HIDE DEF r
  <2> QED BY <1>a, <2>1, LiveReplaced
<1>5. ASSUME Unpause(v) PROVE LiveUnique'
  <2> DEFINE r == [dom[v] EXCEPT !.power = "running"]
  <2>1. r.live = dom[v].live /\ dom' = [dom EXCEPT ![v] = r]
    BY <1>5, <1>a DEF Unpause, Domain
  <2> HIDE DEF r
  <2> QED BY <1>a, <2>1, LiveReplaced
<1>6. ASSUME Suspend(v) PROVE LiveUnique'
  <2> DEFINE r == [dom[v] EXCEPT !.power = "paused"]
  <2>1. r.live = dom[v].live /\ dom' = [dom EXCEPT ![v] = r]
    BY <1>6, <1>a DEF Suspend, Domain
  <2> HIDE DEF r
  <2> QED BY <1>a, <2>1, LiveReplaced
<1> QED BY <1>1, <1>2, <1>3, <1>4, <1>5, <1>6

\* AddDisk attaches a volume that it holds, and so none the domain has.
LEMMA LiveAttach ==
  ASSUME Inv, LiveUnique, NEW c \in Clients, AddAttach(c)
  PROVE  LiveUnique'
<1> DEFINE v == call[c].vm
<1>a. /\ v \in VMs /\ dom \in [VMs -> Domain] /\ dom[v] \in Domain /\ Holding(c)
  BY DEF AddAttach, At, Inv, TypeInv, CallOK, DomOK, Holding, HoldPCs
<1>1. CASE dom' = dom
  BY <1>1 DEF LiveUnique
<1>2. ASSUME NEW d \in call[c].disks, NEW b, CanAttach(v, d, b), Attach(v, d, b)
      PROVE  LiveUnique'
  <2> DEFINE C == dom[v].config \cup {d}
             L == dom[v].live \cup {e \in {d} : b}
             r == [dom[v] EXCEPT !.config = C, !.live = L]
  <2>1. r.live = L /\ dom' = [dom EXCEPT ![v] = r]
    BY <1>2, <1>a DEF Attach, Domain
  <2>2. dom[v].live \subseteq dom[v].config
    BY <1>2, <1>a DEF CanAttach, Inv, Ownership, LiveInConfig
  <2>3. \A e \in dom[v].live : e.path # d.path
    BY <1>a, <2>2 DEF Inv, Ownership, HeldUndefined
  <2>4. \A x, y \in L : x.path = y.path => x = y
    BY <1>a, <2>3 DEF LiveUnique
  <2> HIDE DEF r, L
  <2> QED BY <1>a, <2>1, <2>4, LiveReplaced
<1>3. \/ \E d \in call[c].disks : \E b : CanAttach(v, d, b) /\ Attach(v, d, b)
      \/ dom' = dom
  BY DEF AddAttach, hostVars
<1> QED BY <1>1, <1>2, <1>3

LEMMA LiveStep ==
  ASSUME Inv, LiveUnique, Ops \subseteq PlainOps, [Next]_vars
  PROVE  LiveUnique'
<1>1. CASE dom' = dom
  BY <1>1 DEF LiveUnique
<1>2. ASSUME NEW c \in Clients, Acts(c) PROVE LiveUnique'
  <2>0. call[c].pc # "idle" => call[c].vm \in VMs
    BY DEF Inv, TypeInv, CallOK
  <2>1. CASE AddAttach(c)
    BY <2>1, LiveAttach
  <2>2. CASE \/ CreateDefine(c) \/ CreateStart(c) \/ DeleteDestroy(c) \/ DeleteUndefine(c)
             \/ StopState(c)
    <3>1. call[c].vm \in VMs
      BY <2>0, <2>2 DEF CreateDefine, CreateStart, DeleteDestroy, DeleteUndefine, StopState, At
    <3>2. \/ \E id : DefineXML(call[c].vm, id, call[c].disks)
          \/ Create(call[c].vm) \/ PowerOff(call[c].vm) \/ Undefine(call[c].vm)
          \/ Unpause(call[c].vm) \/ dom' = dom
      BY <2>2 DEF CreateDefine, CreateStart, DeleteDestroy, DeleteUndefine, StopState,
                  ReturnErr, hostVars
    <3> QED BY <1>1, <3>1, <3>2, LiveEffects
  <2>3. CASE Start(c) \/ Destroy(c) \/ Resume(c)
    <3>1. \/ \E v \in VMs : Create(v) \/ PowerOff(v) \/ Unpause(v)
          \/ dom' = dom
      BY <2>3 DEF Start, Destroy, Resume, OneRPC, ReturnErr, hostVars
    <3> QED BY <1>1, <3>1, LiveEffects
  <2>4. CASE \/ CreateBegin(c) \/ CreateClone(c) \/ CreateResize(c) \/ CreateExtra(c)
             \/ AddBegin(c) \/ AddXML(c) \/ AddVolume(c) \/ AddState(c) \/ AddRollback(c)
    <3>1. dom' = dom
      BY <2>4 DEF CreateBegin, CreateClone, CreateResize, CreateExtra, AddBegin, AddXML,
         AddVolume, AddState, AddRollback, MakeVol, Lookup, GetState, ReturnErr, hostVars
    <3> QED BY <1>1, <3>1
  <2>5. CASE \/ DeleteBegin(c) \/ DeleteXML(c) \/ DeleteState(c) \/ DeleteVols(c)
             \/ StopBegin(c) \/ StopShutdown(c) \/ DeleteImage(c) \/ Dies(c)
    <3>1. dom' = dom
      BY <2>5 DEF DeleteBegin, DeleteXML, DeleteState, DeleteVols, StopBegin, StopShutdown,
         DeleteImage, Dies, MakeVol, Lookup, GetState, ReturnErr, hostVars
    <3> QED BY <1>1, <3>1
  <2>6. ~MigrateDisk(c)
    BY MigrateSteps
  <2> QED BY <1>2, <2>1, <2>2, <2>3, <2>4, <2>5, <2>6
          DEF Acts, CreateVM, AddDisk, Delete, Stop
<1>3. ASSUME NEW v \in VMs, Guest(v) PROVE LiveUnique'
  BY <1>3, LiveEffects DEF Guest, GuestPowersOff
<1>4. UNCHANGED vars => dom' = dom
  BY DEF vars
<1> QED BY <1>1, <1>2, <1>3, <1>4, WhoSteps

LEMMA InvImplies ==
  ASSUME Inv
  PROVE  NoDanglingDisk /\ NoSharedVolume /\ DeletesOnlyUnused
<1>1. NoDanglingDisk
  BY DEF Inv, Ownership, DefinedExist, NoDanglingDisk, Paths
<1>2. NoSharedVolume
  BY DEF Inv, Ownership
<1>3. DeletesOnlyUnused
  BY DEF Inv, Ownership, HeldUndefined, DeletesOnlyUnused, Paths, Holding, HoldPCs
<1> QED BY <1>1, <1>2, <1>3

\* Every volume has at most one owner, a definition or an operation in
\* progress, in every reachable state of any number of concurrent callers.
THEOREM OwnershipHolds == ASSUME Ops \subseteq PlainOps PROVE Spec => []Ownership
<1>1. Inv => Ownership
  BY DEF Inv
<1> QED BY <1>1, OwnershipInit, OwnershipStep, PTL DEF Spec

\* No VM's definition names a volume that does not exist: what Start needs is
\* there, whatever failed, died or interleaved before.
THEOREM DisksExist == ASSUME Ops \subseteq PlainOps PROVE Spec => []NoDanglingDisk
<1> QED BY InvImplies, OwnershipInit, OwnershipStep, PTL DEF Spec

\* No two definitions name one volume, whatever the naming scheme of the
\* volumes: libvirt's refusal of an existing name is what the code rests on.
THEOREM VolumesUnshared == ASSUME Ops \subseteq PlainOps PROVE Spec => []NoSharedVolume
<1> QED BY InvImplies, OwnershipInit, OwnershipStep, PTL DEF Spec

\* AddDisk's rollback and Delete's loop never delete a volume in use.
THEOREM OnlyUnusedDeleted == ASSUME Ops \subseteq PlainOps PROVE Spec => []DeletesOnlyUnused
<1> QED BY InvImplies, OwnershipInit, OwnershipStep, PTL DEF Spec

\* No two disks of a VM claim the same target or the same volume, of its
\* definition or of what runs, whatever the concurrent operations read before.
THEOREM DisksUnique == ASSUME Ops \subseteq PlainOps PROVE Spec => []TargetsUnique
<1>1. Init => Inv /\ Shape /\ LiveUnique
  <2>1. Init => LiveUnique
    BY DEF Init, HostInit, Absent, LiveUnique
  <2> QED BY <2>1, OwnershipInit, ShapeInit
<1>2. Inv /\ Shape /\ LiveUnique /\ [Next]_vars => Inv' /\ Shape' /\ LiveUnique'
  BY OwnershipStep, ShapeStep, LiveStep DEF Inv
<1>3. Inv /\ Shape /\ LiveUnique => TargetsUnique
  <2>1. ASSUME Inv, Shape, LiveUnique, NEW v \in VMs
        PROVE  \A D \in {dom[v].config, dom[v].live} : \A d, e \in D :
                 d.target = e.target \/ d.path = e.path => d = e
    <3>1. Distinct(dom[v].config) /\ Distinct(dom[v].live)
      BY <2>1 DEF Shape, DomDistinct
    <3>2. \A d, e \in dom[v].config : d.target = e.target \/ d.path = e.path => d = e
      BY <2>1, <3>1 DEF Distinct, Inv, Ownership, NoSharedVolume
    <3>3. \A d, e \in dom[v].live : d.target = e.target \/ d.path = e.path => d = e
      BY <2>1, <3>1 DEF Distinct, LiveUnique
    <3> QED BY <3>2, <3>3
  <2> QED BY <2>1 DEF TargetsUnique
<1> QED BY <1>1, <1>2, <1>3, PTL DEF Spec

-----------------------------------------------------------------------------
(***************************************************************************)
(* One client at a time, and any VMs, pools, RPC failures, deaths and      *)
(* doings of the guests: no operation that clones and deletes its own      *)
(* volumes loses a disk, migrations included.                              *)
(***************************************************************************)

\* The operations but those that share an image or delete one.
SoloOps == {"create", "add_disk", "delete", "migrate", "start", "stop", "resume",
            "poweroff"}

\* What the theorems below assume.
Solo == /\ Ops \subseteq SoloOps
        /\ \A b, c \in Clients : b = c

\* A domain is defined, or there is none; what runs is what is defined.
Settled == \A v \in VMs :
  IF Registered(v)
    THEN dom[v].persistent /\ dom[v].live = (IF Active(v) THEN dom[v].config ELSE {})
    ELSE dom[v] = Absent

\* The path is that of no disk that D defines.
Unused(p, D) == \A v \in VMs : \A e \in D[v].config : e.path # p

\* The steps at which the domain that was looked up is still there ...
OnDomain == {"add_xml", "add_volume", "add_state", "add_attach", "add_rollback",
             "delete_xml", "delete_state", "delete_destroy", "delete_undefine",
             "stop_state", "stop_shutdown"} \cup MigratePCs
\* ... at which it does not run ...
IsOff(l) == \/ l.pc \in {"delete_undefine", "migrate_copy", "migrate_define",
                         "migrate_delete", "migrate_restart"}
            \/ l.pc \in {"add_attach", "migrate_xml"} /\ l.seen = "shutoff"
\* ... and at which its definition is still the one that was read.
ReadPCs == {"delete_state", "delete_destroy", "delete_undefine",
            "migrate_destroy", "migrate_copy", "migrate_define"}

\* The locals l agree with the volumes V and the domains D, after f failures.
Sound(l, V, D, f) ==
  /\ l.pc \in OnDomain => D[l.vm].id = l.hnd /\ l.hnd # None
  /\ IsOff(l) => D[l.vm].power = "shutoff"
  /\ l.pc \in {"delete_xml", "migrate_state", "migrate_xml"} => l.disks = {}
  /\ l.pc \in ReadPCs =>
       \/ l.disks = D[l.vm].config
       \/ l.disks = {} /\ f > 0 /\ l.pc \in DeletePCs
  /\ l.pc \in HoldPCs =>
       /\ \A d \in l.disks : d.path \in V /\ Unused(d.path, D)
       /\ \A d, e \in l.disks : d.path = e.path => d = e
  /\ l.pc = "migrate_define" => l.new \in V /\ Unused(l.new, D)
  /\ l.pc \in {"migrate_delete", "migrate_restart"} =>
       \A d \in l.disks : IsFirst(d, l.disks) =>
         /\ Unused(d.path, D)
         /\ D[l.vm].config = Replaced(l.disks, d, l.new)
         /\ l.pc = "migrate_restart" => d.path \notin V

Host == Settled /\ DefinedExist /\ NoSharedVolume
SoloInv == /\ TypeInv /\ Shape /\ Host
           /\ \A c \in Clients : Sound(call[c], vols, dom, faults)

-----------------------------------------------------------------------------
(* What the steps have in common                                           *)

\* At these steps the locals claim nothing.
LEMMA SoundFree ==
  ASSUME NEW l, NEW V, NEW D, NEW f, l.pc \in {"idle", "create_clone", "create_start"}
  PROVE  Sound(l, V, D, f)
BY DEF Sound, IsOff, OnDomain, MigratePCs, ReadPCs, HoldPCs

\* A domain that is defined as before, and off if it was, contradicts no locals.
LEMMA SoundPower ==
  ASSUME NEW l, NEW V, NEW D, NEW E, NEW f, Sound(l, V, D, f),
         l.pc # "idle" => l.vm \in VMs,
         \A w \in VMs : /\ E[w].config = D[w].config /\ E[w].id = D[w].id
                        /\ D[w].power = "shutoff" => E[w].power = "shutoff"
  PROVE  Sound(l, V, E, f)
<1>1. \A p : Unused(p, D) <=> Unused(p, E)
  BY DEF Unused
<1>2. CASE l.pc = "idle"
  BY <1>2, SoundFree
<1>3. CASE l.pc # "idle"
  <2>1. /\ E[l.vm].config = D[l.vm].config /\ E[l.vm].id = D[l.vm].id
        /\ D[l.vm].power = "shutoff" => E[l.vm].power = "shutoff"
    BY <1>3
  <2> QED BY <1>1, <2>1 DEF Sound
<1> QED BY <1>2, <1>3

\* The one client's new locals are sound: so are all clients'.
LEMMA SoloBecome ==
  ASSUME Solo, TypeInv, TypeInv', Shape', Host', NEW c \in Clients, NEW l, Become(c, l),
         Sound(l, vols', dom', faults')
  PROVE  SoloInv'
<1>1. call'[c] = l
  BY OthersKeep
<1>2. \A b \in Clients : Sound(call'[b], vols', dom', faults')
  BY <1>1 DEF Solo
<1> QED BY <1>2 DEF SoloInv

LEMMA SoloReturn ==
  ASSUME Solo, TypeInv, TypeInv', Shape', Host', NEW c \in Clients, NEW r, Return(c, r)
  PROVE  SoloInv'
<1>1. NoCall(r).pc = "idle"
  BY DEF NoCall
<1>2. Sound(NoCall(r), vols', dom', faults')
  BY <1>1, SoundFree
<1> QED BY <1>2, SoloBecome DEF Return

LEMMA HostLocal ==
  ASSUME Host, dom' = dom, vols \subseteq vols'
  PROVE  Host'
BY DEF Host, Settled, DefinedExist, NoSharedVolume, Registered, Active

LEMMA HostDeletes ==
  ASSUME Host, NEW p, Unused(p, dom), dom' = dom, vols' = vols \ {p}
  PROVE  Host'
BY DEF Host, Settled, DefinedExist, NoSharedVolume, Registered, Active, Unused

LEMMA SoloReturnErr ==
  ASSUME Solo, SoloInv, TypeInv', Shape', NEW c \in Clients, NEW can, ReturnErr(c, can)
  PROVE  SoloInv'
BY HostLocal, SoloReturn DEF ReturnErr, hostVars, SoloInv

\* A volume is made at p: a path no disk has.
LEMMA SoloMakeVol ==
  ASSUME Solo, SoloInv, TypeInv', Shape', NEW c \in Clients, NEW p, NEW can, NEW l,
         MakeVol(c, p, can, l), can => CanCreateVol(p),
         p \notin vols /\ Unused(p, dom) => Sound(l, vols \cup {p}, dom, faults)
  PROVE  SoloInv'
<1>1. CASE CanCreateVol(p) /\ CreateVol(p) /\ Become(c, l) /\ UNCHANGED <<dom, faults>>
  <2>1. p \notin vols /\ Unused(p, dom)
    BY <1>1 DEF CanCreateVol, SoloInv, Host, DefinedExist, Unused
  <2>2. Sound(l, vols', dom', faults')
    BY <1>1, <2>1 DEF CreateVol
  <2> QED BY <1>1, <2>2, HostLocal, SoloBecome DEF CreateVol, SoloInv
<1>2. CASE CreateVol(p) /\ Return(c, "err") /\ UNCHANGED dom
  BY <1>2, HostLocal, SoloReturn DEF CreateVol, SoloInv
<1> QED BY <1>1, <1>2, SoloReturnErr DEF MakeVol

\* The client's new locals, where neither volumes nor domains change.
LEMMA SoloLocal ==
  ASSUME Solo, SoloInv, TypeInv', Shape', NEW c \in Clients, NEW l, Become(c, l),
         UNCHANGED <<vols, dom>>, Sound(l, vols, dom, faults')
  PROVE  SoloInv'
BY HostLocal, SoloBecome DEF SoloInv

LEMMA SoloLookup ==
  ASSUME Solo, SoloInv, TypeInv', Shape', NEW c \in Clients, NEW op, NEW pc,
         Lookup(c, op, pc),
         pc \in {"add_xml", "delete_xml", "migrate_state", "stop_state"}
  PROVE  SoloInv'
<1>1. PICK v \in VMs :
        /\ Registered(v)
        /\ Become(c, [NoCall("none") EXCEPT !.pc = pc, !.vm = v, !.hnd = dom[v].id])
  BY DEF Lookup
<1> DEFINE l == [NoCall("none") EXCEPT !.pc = pc, !.vm = v, !.hnd = dom[v].id]
<1>2. l.pc = pc /\ l.disks = {} /\ l.vm = v /\ l.hnd = dom[v].id
  BY DEF NoCall
<1> HIDE DEF l
<1>3. Sound(l, vols, dom, faults')
  BY <1>1, <1>2 DEF Sound, IsOff, OnDomain, ReadPCs, HoldPCs, Registered
<1> QED BY <1>1, <1>3, SoloLocal DEF Lookup, l

\* What a domain shows is what it defines.
LEMMA ShowsDefined ==
  ASSUME SoloInv, NEW v \in VMs
  PROVE  XMLDesc(v) = dom[v].config
BY DEF SoloInv, Host, Settled, XMLDesc, Absent, Active

\* Locals of the client, and that it is the domain's handle that it holds.
LEMMA SoloHere ==
  ASSUME SoloInv, NEW c \in Clients
  PROVE  /\ call[c] \in Call /\ (call[c].pc # "idle" => call[c].vm \in VMs)
         /\ Sound(call[c], vols, dom, faults) /\ LocalOK(call[c])
         /\ call[c].pc \in OnDomain => Alive(c) /\ Registered(call[c].vm)
BY DEF SoloInv, TypeInv, CallOK, Shape, Sound, Alive, Registered

\* A domain starts, stops, resumes or is suspended: no definition changes.
SameDefinitions == \A w \in VMs : dom'[w].config = dom[w].config /\ dom'[w].id = dom[w].id

LEMMA SoloPower ==
  ASSUME SoloInv, NEW v \in VMs,
         \/ CanCreate(v) /\ Create(v)
         \/ Active(v) /\ PowerOff(v)
         \/ Paused(v) /\ Unpause(v)
         \/ Suspend(v)
  PROVE  /\ Settled' /\ SameDefinitions
         /\ \A w \in VMs : w # v => dom'[w] = dom[w]
         /\ ~Create(v) => (dom[v].power = "shutoff" => dom'[v].power = "shutoff")
         /\ Active(v) /\ PowerOff(v) => dom'[v].power = "shutoff"
         /\ Create(v) => dom'[v].power = "running"
<1>a. /\ dom \in [VMs -> Domain] /\ dom[v] \in Domain
      /\ IF Registered(v)
           THEN dom[v].persistent /\ dom[v].live = (IF Active(v) THEN dom[v].config ELSE {})
           ELSE dom[v] = Absent
      /\ Absent.power = "shutoff" /\ Absent.persistent = FALSE
  BY DEF SoloInv, TypeInv, DomOK, Host, Settled, Absent
<1>b. Registered(v)
  BY <1>a DEF CanCreate, Active, Paused, Suspend
<1>c. ASSUME NEW r, dom' = [dom EXCEPT ![v] = r], r.id = dom[v].id,
             r.persistent = dom[v].persistent, r.config = dom[v].config,
             r.live = (IF r.power \in {"running", "paused"} THEN r.config ELSE {})
      PROVE  Settled' /\ SameDefinitions /\ \A w \in VMs : w # v => dom'[w] = dom[w]
  <2>1. dom'[v] = r /\ \A w \in VMs : w # v => dom'[w] = dom[w]
    BY <1>a, <1>c
  <2>2. SameDefinitions
    BY <1>c, <2>1 DEF SameDefinitions
  <2>3. Settled'
    BY <1>a, <1>b, <1>c, <2>1 DEF SoloInv, Host, Settled, Registered, Active
  <2> QED BY <2>1, <2>2, <2>3
<1>1. CASE CanCreate(v) /\ Create(v)
  <2> DEFINE r == [dom[v] EXCEPT !.power = "running", !.live = dom[v].config]
  <2>1. /\ r.id = dom[v].id /\ r.persistent = dom[v].persistent /\ r.config = dom[v].config
        /\ r.live = dom[v].config /\ r.power = "running"
    BY <1>a DEF Domain
  <2>2. dom' = [dom EXCEPT ![v] = r]
    BY <1>1, <1>a DEF Create
  <2> HIDE DEF r
  <2>3. dom'[v].power = "running"
    BY <1>a, <2>1, <2>2
  <2>4. ~Active(v)
    BY <1>1 DEF CanCreate, Active
  <2> QED BY <1>1, <1>c, <2>1, <2>2, <2>3, <2>4
<1>2. CASE Active(v) /\ PowerOff(v)
  <2> DEFINE r == [dom[v] EXCEPT !.power = "shutoff", !.live = {}]
  <2>1. /\ r.id = dom[v].id /\ r.persistent = dom[v].persistent /\ r.config = dom[v].config
        /\ r.live = {} /\ r.power = "shutoff"
    BY <1>a DEF Domain
  <2>2. dom' = [dom EXCEPT ![v] = r]
    BY <1>2, <1>a, <1>b DEF PowerOff
  <2> HIDE DEF r
  <2>3. dom'[v].power = "shutoff"
    BY <1>a, <2>1, <2>2
  <2>4. ~Create(v)
    <3> DEFINE q == [dom[v] EXCEPT !.power = "running", !.live = dom[v].config]
    <3>1. q.power = "running"
      BY <1>a DEF Domain
    <3>2. Create(v) => dom'[v] = q
      BY <1>a DEF Create
    <3> HIDE DEF q
    <3> QED BY <2>3, <3>1, <3>2
  <2> QED BY <1>c, <2>1, <2>2, <2>3, <2>4
<1>3. CASE Paused(v) /\ Unpause(v)
  <2> DEFINE r == [dom[v] EXCEPT !.power = "running"]
  <2>1. /\ r.id = dom[v].id /\ r.persistent = dom[v].persistent /\ r.config = dom[v].config
        /\ r.live = dom[v].live /\ r.power = "running"
    BY <1>a DEF Domain
  <2>2. dom' = [dom EXCEPT ![v] = r]
    BY <1>3, <1>a DEF Unpause
  <2> HIDE DEF r
  <2>3. dom'[v].power = "running" /\ dom[v].power = "paused" /\ Active(v)
    BY <1>a, <1>3, <2>1, <2>2 DEF Paused, Active
  <2>4. ~PowerOff(v)
    <3> DEFINE q == [dom[v] EXCEPT !.power = "shutoff", !.live = {}]
    <3>1. q.power = "shutoff"
      BY <1>a DEF Domain
    <3>2. PowerOff(v) => dom'[v] = q
      BY <1>a, <1>b DEF PowerOff
    <3> HIDE DEF q
    <3> QED BY <2>3, <3>1, <3>2
  <2> QED BY <1>a, <1>b, <1>c, <2>1, <2>2, <2>3, <2>4
<1>4. CASE Suspend(v)
  <2> DEFINE r == [dom[v] EXCEPT !.power = "paused"]
  <2>1. /\ r.id = dom[v].id /\ r.persistent = dom[v].persistent /\ r.config = dom[v].config
        /\ r.live = dom[v].live /\ r.power = "paused"
    BY <1>a DEF Domain
  <2>2. dom' = [dom EXCEPT ![v] = r] /\ dom[v].power = "running"
    BY <1>4, <1>a DEF Suspend
  <2> HIDE DEF r
  <2>3. dom'[v].power = "paused" /\ Active(v)
    BY <1>a, <2>1, <2>2 DEF Active
  <2>4. ~PowerOff(v)
    <3> DEFINE q == [dom[v] EXCEPT !.power = "shutoff", !.live = {}]
    <3>1. q.power = "shutoff"
      BY <1>a DEF Domain
    <3>2. PowerOff(v) => dom'[v] = q
      BY <1>a, <1>b DEF PowerOff
    <3> HIDE DEF q
    <3> QED BY <2>3, <3>1, <3>2
  <2>5. ~Create(v)
    <3> DEFINE q == [dom[v] EXCEPT !.power = "running", !.live = dom[v].config]
    <3>1. q.power = "running"
      BY <1>a DEF Domain
    <3>2. Create(v) => dom'[v] = q
      BY <1>a DEF Create
    <3> HIDE DEF q
    <3> QED BY <2>3, <3>1, <3>2
  <2> QED BY <1>a, <1>b, <1>c, <2>1, <2>2, <2>3, <2>4, <2>5
<1> QED BY <1>1, <1>2, <1>3, <1>4

\* It leaves the host as it should be.
LEMMA PowerHost ==
  ASSUME SoloInv, Settled', SameDefinitions, vols' = vols
  PROVE  Host'
BY DEF SoloInv, Host, DefinedExist, NoSharedVolume, SameDefinitions

LEMMA SoloPowerReturn ==
  ASSUME Solo, SoloInv, TypeInv', Shape', NEW c \in Clients, NEW v \in VMs, NEW r,
         Return(c, r), vols' = vols,
         \/ CanCreate(v) /\ Create(v)
         \/ Active(v) /\ PowerOff(v)
         \/ Paused(v) /\ Unpause(v)
  PROVE  SoloInv'
<1>1. Host'
  BY SoloPower, PowerHost
<1> QED BY <1>1, SoloReturn DEF SoloInv

LEMMA GuestSolo ==
  ASSUME SoloInv, TypeInv', Shape', NEW v \in VMs, Guest(v)
  PROVE  SoloInv'
<1>1. vols' = vols /\ call' = call /\ faults' = faults
  BY DEF Guest, GuestPowersOff, Suspend
<1>2. (Active(v) /\ PowerOff(v)) \/ Suspend(v)
  BY DEF Guest, GuestPowersOff, Active
<1>3. Host'
  BY <1>1, <1>2, SoloPower, PowerHost
<1>4. \A w \in VMs : /\ dom'[w].config = dom[w].config /\ dom'[w].id = dom[w].id
                     /\ dom[w].power = "shutoff" => dom'[w].power = "shutoff"
  <2>1. dom[v].power # "shutoff"
    BY <1>2 DEF Active, Suspend
  <2> QED BY <1>2, <2>1, SoloPower DEF SameDefinitions
<1>5. ASSUME NEW c \in Clients PROVE Sound(call'[c], vols', dom', faults')
  <2>1. Sound(call[c], vols, dom', faults)
    BY <1>4, SoloHere, SoundPower
  <2> QED BY <1>1, <2>1
<1> QED BY <1>3, <1>5 DEF SoloInv

-----------------------------------------------------------------------------
(* The actions                                                             *)

LEMMA CreateSolo ==
  ASSUME Solo, SoloInv, TypeInv', Shape', NEW c \in Clients, CreateVM(c)
  PROVE  SoloInv'
<1> DEFINE v == call[c].vm
<1> USE DEF OnDomain, MigratePCs, ReadPCs, HoldPCs, IsOff
<1>a. /\ call[c] \in Call /\ (call[c].pc # "idle" => v \in VMs)
      /\ Sound(call[c], vols, dom, faults)
  BY SoloHere
<1>b. dom \in [VMs -> Domain]
  BY DEF SoloInv, TypeInv, DomOK
<1>1. CASE CreateBegin(c)
  <2>1. PICK w \in VMs : Become(c, [NoCall("none") EXCEPT !.pc = "create_clone", !.vm = w])
    BY <1>1 DEF CreateBegin
  <2> DEFINE l == [NoCall("none") EXCEPT !.pc = "create_clone", !.vm = w]
  <2>2. l.pc = "create_clone"
    BY DEF NoCall
  <2> HIDE DEF l
  <2>3. Sound(l, vols, dom, faults')
    BY <2>2, SoundFree
  <2> QED BY <1>1, <2>1, <2>3, SoloLocal DEF CreateBegin, l
<1>2. CASE CreateClone(c)
  <2>0. "create_noclone" \notin Ops
    BY DEF Solo, SoloOps
  <2> DEFINE l(g, p) == [call[c] EXCEPT
                          !.pc = IF g THEN "create_resize" ELSE "create_extra",
                          !.disks = {[target |-> 1, path |-> p]}]
  <2>1. ASSUME NEW g \in BOOLEAN, NEW p, NEW i,
               MakeVol(c, p, i /\ CanCreateVol(p), l(g, p))
        PROVE  SoloInv'
    <3> DEFINE d == [target |-> 1, path |-> p]
               k == l(g, p)
    <3>1. k.disks = {d} /\ d.path = p
      BY <1>a DEF Call
    <3>2. k.pc \in {"create_resize", "create_extra"}
      BY <1>a DEF Call
    <3>3. MakeVol(c, p, i /\ CanCreateVol(p), k)
      BY <2>1
    <3> HIDE DEF k, d
    <3>4. Unused(p, dom) => Sound(k, vols \cup {p}, dom, faults)
      BY <3>1, <3>2 DEF Sound
    <3> QED BY <3>3, <3>4, SoloMakeVol
  <2>2. PICK image \in Images, grow \in BOOLEAN :
          \E pool \in PoolArgs :
            LET p == <<pool, CloneVol(call[c].vm)>>
            IN MakeVol(c, p, image \in vols /\ CanCreateVol(p), l(grow, p))
    BY <1>2, <2>0 DEF CreateClone
  <2> HIDE DEF l
  <2> QED BY <2>1, <2>2
<1>3. CASE CreateResize(c)
  <2> DEFINE l == [call[c] EXCEPT !.pc = "create_extra"]
  <2>1. CASE Goto(c, "create_extra") /\ UNCHANGED <<vols, dom>>
    <3>1. l.pc = "create_extra" /\ l.disks = call[c].disks
      BY <1>a DEF Call
    <3>2. call[c].pc = "create_resize"
      BY <1>3 DEF CreateResize, At
    <3> HIDE DEF l
    <3>3. Sound(l, vols, dom, faults')
      BY <1>a, <3>1, <3>2 DEF Sound
    <3> QED BY <2>1, <3>3, SoloLocal DEF Goto, l
  <2> QED BY <1>3, <2>1, SoloReturnErr DEF CreateResize
<1>4. CASE CreateExtra(c)
  <2>0. call[c].pc = "create_extra"
    BY <1>4 DEF CreateExtra, At
  <2>1. CASE Goto(c, "create_define") /\ UNCHANGED <<vols, dom>>
    <3> DEFINE l == [call[c] EXCEPT !.pc = "create_define"]
    <3>1. l.pc = "create_define" /\ l.disks = call[c].disks
      BY <1>a DEF Call
    <3> HIDE DEF l
    <3>2. Sound(l, vols, dom, faults')
      BY <1>a, <2>0, <3>1 DEF Sound
    <3> QED BY <2>1, <3>2, SoloLocal DEF Goto, l
  <2> DEFINE l(p) == [call[c] EXCEPT !.pc = "create_define",
                        !.disks = @ \cup {[target |-> 2, path |-> p]}]
  <2>2. ASSUME NEW p, MakeVol(c, p, CanCreateVol(p), l(p)) PROVE SoloInv'
    <3> DEFINE d == [target |-> 2, path |-> p]
               k == l(p)
    <3>1. k.disks = call[c].disks \cup {d} /\ d.path = p /\ k.pc = "create_define"
      BY <1>a DEF Call
    <3>2. MakeVol(c, p, CanCreateVol(p), k)
      BY <2>2
    <3> HIDE DEF k, d
    <3>3. p \notin vols /\ Unused(p, dom) => Sound(k, vols \cup {p}, dom, faults)
      BY <1>a, <2>0, <3>1 DEF Sound
    <3> QED BY <3>2, <3>3, SoloMakeVol
  <2> QED BY <1>4, <2>1, <2>2 DEF CreateExtra
<1>5. CASE CreateDefine(c)
  <2>0. call[c].pc = "create_define" /\ v \in VMs
    BY <1>a, <1>5 DEF CreateDefine, At
  <2>1. ASSUME NEW id \in Uuids, Fresh(id), CanDefine(v, id),
               DefineXML(v, id, call[c].disks), Goto(c, "create_start"), vols' = vols
        PROVE  SoloInv'
    <3>1. dom[v] = Absent
      BY <2>0, <2>1 DEF CanDefine, Fresh, SoloInv, Host, Settled, Registered
    <3> DEFINE r == [dom[v] EXCEPT !.id = id, !.persistent = TRUE, !.config = call[c].disks]
    <3>2. /\ r.id = id /\ r.persistent = TRUE /\ r.config = call[c].disks
          /\ r.live = {} /\ r.power = "shutoff" /\ id # None
      BY <3>1, LibvirtAssumption DEF Absent
    <3>3. dom' = [dom EXCEPT ![v] = r]
      BY <2>1 DEF DefineXML
    <3> HIDE DEF r
    <3>4. dom'[v] = r /\ \A w \in VMs : w # v => dom'[w] = dom[w]
      BY <1>b, <2>0, <3>3
    <3>h. /\ \A d \in call[c].disks : d.path \in vols /\ Unused(d.path, dom)
          /\ \A d, e \in call[c].disks : d.path = e.path => d = e
      BY <1>a, <2>0 DEF Sound
    <3>5. Settled'
      BY <3>2, <3>4 DEF SoloInv, Host, Settled, Registered, Active
    <3>6. DefinedExist'
      BY <2>1, <3>2, <3>4, <3>h DEF SoloInv, Host, DefinedExist
    <3>7. NoSharedVolume'
      BY <3>2, <3>4, <3>h DEF SoloInv, Host, NoSharedVolume, Unused
    <3> DEFINE l == [call[c] EXCEPT !.pc = "create_start"]
    <3>8. l.pc = "create_start"
      BY <1>a DEF Call
    <3> HIDE DEF l
    <3>9. Sound(l, vols', dom', faults')
      BY <3>8, SoundFree
    <3>10. Become(c, l) /\ Host' /\ TypeInv
      BY <2>1, <3>5, <3>6, <3>7 DEF Goto, l, Host, SoloInv
    <3> QED BY <3>9, <3>10, SoloBecome
  <2> QED BY <1>5, <2>1, SoloReturnErr DEF CreateDefine
<1>6. CASE CreateStart(c)
  <2>1. v \in VMs
    BY <1>a, <1>6 DEF CreateStart, At
  <2> QED BY <1>6, <2>1, SoloPowerReturn, SoloReturnErr DEF CreateStart
<1> QED BY <1>1, <1>2, <1>3, <1>4, <1>5, <1>6 DEF CreateVM

LEMMA AttachSolo ==
  ASSUME Solo, SoloInv, TypeInv', Shape', NEW c \in Clients, At(c, "add_attach"),
         NEW d \in call[c].disks, CanAttach(call[c].vm, d, WasActive(c)),
         Attach(call[c].vm, d, WasActive(c)), Return(c, "ok"), vols' = vols
  PROVE  SoloInv'
<1> DEFINE v == call[c].vm
<1>a. /\ call[c] \in Call /\ v \in VMs /\ Sound(call[c], vols, dom, faults)
      /\ dom \in [VMs -> Domain] /\ dom[v] \in Domain
      /\ Registered(v) /\ call[c].pc = "add_attach"
  BY SoloHere DEF SoloInv, TypeInv, DomOK, At, OnDomain
<1>h. d.path \in vols /\ Unused(d.path, dom)
  BY <1>a DEF Sound, HoldPCs
<1>p. WasActive(c) => Active(v)
  BY DEF CanAttach
<1>q. ~WasActive(c) => ~Active(v)
  BY <1>a DEF WasActive, Sound, IsOff, Active, Call, Power
<1>s. dom[v].live = IF Active(v) THEN dom[v].config ELSE {}
  BY <1>a DEF SoloInv, Host, Settled
<1> DEFINE C == dom[v].config \cup {d}
           L == dom[v].live \cup {e \in {d} : WasActive(c)}
           r == [dom[v] EXCEPT !.config = C, !.live = L]
<1>1. /\ r.config = C /\ r.live = L /\ r.power = dom[v].power /\ r.id = dom[v].id
      /\ r.persistent = dom[v].persistent
  BY <1>a DEF Domain
<1>2. dom' = [dom EXCEPT ![v] = r]
  BY <1>a DEF Attach
<1>3. L = IF Active(v) THEN C ELSE {}
  <2>1. CASE WasActive(c)
    BY <1>p, <1>s, <2>1
  <2>2. CASE ~WasActive(c)
    BY <1>q, <1>s, <2>2
  <2> QED BY <2>1, <2>2
<1> HIDE DEF r, L
<1>4. dom'[v] = r /\ \A w \in VMs : w # v => dom'[w] = dom[w]
  BY <1>a, <1>2
<1>5. Settled'
  <2> HIDE DEF C
  <2>1. /\ r.persistent /\ r.id # None
        /\ r.live = (IF r.power \in {"running", "paused"} THEN r.config ELSE {})
    BY <1>a, <1>1, <1>3 DEF SoloInv, Host, Settled, Registered, Active
  <2>2. ASSUME NEW w \in VMs
        PROVE  IF dom'[w].id # None
                 THEN /\ dom'[w].persistent
                      /\ dom'[w].live = (IF dom'[w].power \in {"running", "paused"}
                                           THEN dom'[w].config ELSE {})
                 ELSE dom'[w] = Absent
    <3>1. CASE w = v
      BY <1>4, <2>1, <3>1
    <3>2. CASE w # v
      BY <1>4, <3>2 DEF SoloInv, Host, Settled, Registered, Active
    <3> QED BY <3>1, <3>2
  <2> QED BY <2>2 DEF Settled, Registered, Active
<1>6. DefinedExist'
  BY <1>h, <1>1, <1>4 DEF SoloInv, Host, DefinedExist
<1>7. NoSharedVolume'
  BY <1>h, <1>a, <1>1, <1>4 DEF SoloInv, Host, NoSharedVolume, Unused
<1> QED BY <1>5, <1>6, <1>7, SoloReturn DEF Host, SoloInv

LEMMA AddSolo ==
  ASSUME Solo, SoloInv, TypeInv', Shape', NEW c \in Clients, AddDisk(c)
  PROVE  SoloInv'
<1> USE DEF OnDomain, MigratePCs, ReadPCs, HoldPCs, IsOff
<1>a. /\ call[c] \in Call /\ (call[c].pc # "idle" => call[c].vm \in VMs)
      /\ Sound(call[c], vols, dom, faults)
  BY SoloHere
<1>1. CASE AddBegin(c)
  BY <1>1, SoloLookup DEF AddBegin
<1>2. CASE AddXML(c)
  <2> DEFINE l == [call[c] EXCEPT !.pc = "add_volume", !.disks = XMLDesc(call[c].vm)]
  <2>1. CASE Become(c, l) /\ UNCHANGED <<vols, dom>>
    <3>1. l.pc = "add_volume" /\ l.vm = call[c].vm /\ l.hnd = call[c].hnd
          /\ call[c].pc = "add_xml"
      BY <1>2, <1>a DEF Call, AddXML, At
    <3> HIDE DEF l
    <3>2. Sound(l, vols, dom, faults')
      BY <1>a, <3>1 DEF Sound
    <3> QED BY <2>1, <3>2, SoloLocal
  <2> QED BY <1>2, <2>1, SoloReturnErr DEF AddXML
<1>3. CASE AddVolume(c)
  <2>0. call[c].pc = "add_volume"
    BY <1>3 DEF AddVolume, At
  <2> DEFINE l(t, p) == [call[c] EXCEPT !.pc = "add_state",
                           !.disks = {[target |-> t, path |-> p]}]
  <2>1. ASSUME NEW t, NEW p, MakeVol(c, p, CanCreateVol(p), l(t, p)) PROVE SoloInv'
    <3> DEFINE d == [target |-> t, path |-> p]
               k == l(t, p)
    <3>1. /\ k.disks = {d} /\ d.path = p /\ k.pc = "add_state" /\ k.vm = call[c].vm
          /\ k.hnd = call[c].hnd
      BY <1>a DEF Call
    <3>2. MakeVol(c, p, CanCreateVol(p), k)
      BY <2>1
    <3> HIDE DEF k, d
    <3>3. Unused(p, dom) => Sound(k, vols \cup {p}, dom, faults)
      BY <1>a, <2>0, <3>1 DEF Sound
    <3> QED BY <3>2, <3>3, SoloMakeVol
  <2> QED BY <1>3, <2>1 DEF AddVolume
<1>4. CASE AddState(c)
  <2>0. call[c].pc = "add_state"
    BY <1>4 DEF AddState, At
  <2>1. CASE GetState(c, "add_attach")
    <3> DEFINE l == [call[c] EXCEPT !.pc = "add_attach", !.seen = dom[call[c].vm].power]
    <3>1. /\ l.pc = "add_attach" /\ l.vm = call[c].vm /\ l.hnd = call[c].hnd
          /\ l.disks = call[c].disks /\ l.seen = dom[call[c].vm].power
      BY <1>a DEF Call
    <3>2. Become(c, l) /\ UNCHANGED <<vols, dom>> /\ faults' = faults
      BY <2>1 DEF GetState
    <3> HIDE DEF l
    <3>3. Sound(l, vols, dom, faults')
      BY <1>a, <2>0, <3>1 DEF Sound
    <3> QED BY <3>2, <3>3, SoloLocal
  <2>2. CASE Goto(c, "add_rollback") /\ UNCHANGED hostVars
    <3> DEFINE l == [call[c] EXCEPT !.pc = "add_rollback"]
    <3>1. /\ l.pc = "add_rollback" /\ l.vm = call[c].vm /\ l.hnd = call[c].hnd
          /\ l.disks = call[c].disks
      BY <1>a DEF Call
    <3> HIDE DEF l
    <3>2. Sound(l, vols, dom, faults')
      BY <1>a, <2>0, <3>1 DEF Sound
    <3> QED BY <2>2, <3>2, SoloLocal DEF Goto, hostVars, l
  <2> QED BY <1>4, <2>1, <2>2 DEF AddState
<1>5. CASE AddAttach(c)
  <2>0. call[c].pc = "add_attach" /\ At(c, "add_attach")
    BY <1>5 DEF AddAttach, At
  <2>1. CASE Goto(c, "add_rollback") /\ UNCHANGED hostVars
    <3> DEFINE l == [call[c] EXCEPT !.pc = "add_rollback"]
    <3>1. /\ l.pc = "add_rollback" /\ l.vm = call[c].vm /\ l.hnd = call[c].hnd
          /\ l.disks = call[c].disks
      BY <1>a DEF Call
    <3> HIDE DEF l
    <3>2. Sound(l, vols, dom, faults')
      BY <1>a, <2>0, <3>1 DEF Sound
    <3> QED BY <2>1, <3>2, SoloLocal DEF Goto, hostVars, l
  <2> QED BY <1>5, <2>0, <2>1, AttachSolo DEF AddAttach
<1>6. CASE AddRollback(c)
  <2>1. call[c].pc = "add_rollback" /\ Return(c, "err") /\ TypeInv /\ Host
    BY <1>6 DEF AddRollback, At, SoloInv
  <2>2. \E d \in call[c].disks : \/ DeleteVol(d.path) /\ UNCHANGED dom
                                 \/ UNCHANGED hostVars
    BY <1>6 DEF AddRollback
  <2>3. ASSUME NEW d \in call[c].disks, DeleteVol(d.path), UNCHANGED dom PROVE Host'
    <3>1. Unused(d.path, dom)
      BY <1>a, <2>1 DEF Sound
    <3> QED BY <2>1, <2>3, <3>1, HostDeletes DEF DeleteVol
  <2>4. CASE UNCHANGED hostVars
    BY <2>1, <2>4, HostLocal, SoloReturn DEF hostVars
  <2> QED BY <2>1, <2>2, <2>3, <2>4, SoloReturn
<1> QED BY <1>1, <1>2, <1>3, <1>4, <1>5, <1>6 DEF AddDisk

\* Delete undefines a domain that is off, and holds what was defined.
LEMMA UndefineSolo ==
  ASSUME Solo, SoloInv, TypeInv', Shape', NEW c \in Clients, At(c, "delete_undefine"),
         Undefine(call[c].vm), vols' = vols, faults' = faults,
         Return(c, "ok") \/ Goto(c, "delete_vols")
  PROVE  SoloInv'
<1> DEFINE v == call[c].vm
<1>a. /\ call[c] \in Call /\ v \in VMs /\ Sound(call[c], vols, dom, faults)
      /\ dom \in [VMs -> Domain] /\ Registered(v) /\ call[c].pc = "delete_undefine"
  BY SoloHere DEF SoloInv, TypeInv, DomOK, At, OnDomain
<1>b. ~Active(v)
  BY <1>a DEF Sound, IsOff, Active
<1>1. dom'[v] = Absent /\ \A w \in VMs : w # v => dom'[w] = dom[w]
  BY <1>a, <1>b DEF Undefine
<1>2. Absent.config = {} /\ Absent.id = None
  BY DEF Absent
<1> HIDE DEF v
<1>3. Settled' /\ DefinedExist' /\ NoSharedVolume'
  BY <1>1, <1>2 DEF SoloInv, Host, Settled, DefinedExist, NoSharedVolume, Registered, Active
<1>4. CASE Return(c, "ok")
  BY <1>3, <1>4, SoloReturn DEF SoloInv, Host
<1>5. CASE Goto(c, "delete_vols")
  <2> DEFINE l == [call[c] EXCEPT !.pc = "delete_vols"]
  <2>1. l.pc = "delete_vols" /\ l.disks = call[c].disks
    BY <1>a DEF Call
  <2> HIDE DEF l
  <2>2. l.disks \subseteq dom[v].config
    BY <1>a, <2>1 DEF Sound, ReadPCs, v
  <2>3. \A d \in l.disks : d.path \in vols /\ Unused(d.path, dom')
    BY <1>a, <1>1, <1>2, <2>2 DEF SoloInv, Host, DefinedExist, NoSharedVolume, Unused, v
  <2>4. \A d, e \in l.disks : d.path = e.path => d = e
    BY <1>a, <2>2 DEF SoloInv, Host, NoSharedVolume, v
  <2>5. Sound(l, vols', dom', faults')
    BY <2>1, <2>3, <2>4 DEF Sound, IsOff, OnDomain, MigratePCs, ReadPCs
  <2> QED BY <1>3, <1>5, <2>5, SoloBecome DEF Goto, l, SoloInv, Host
<1> QED BY <1>4, <1>5

LEMMA DeleteSolo ==
  ASSUME Solo, SoloInv, TypeInv', Shape', NEW c \in Clients, Delete(c)
  PROVE  SoloInv'
<1> USE DEF OnDomain, MigratePCs, ReadPCs, HoldPCs, DeletePCs, IsOff
<1>a. /\ call[c] \in Call /\ (call[c].pc # "idle" => call[c].vm \in VMs)
      /\ Sound(call[c], vols, dom, faults)
      /\ call[c].pc \in OnDomain => Alive(c) /\ Registered(call[c].vm)
  BY SoloHere
<1>f. faults \in Nat
  BY ManagerAssumption DEF SoloInv, TypeInv
<1>1. CASE DeleteBegin(c)
  <2>1. "delete_noclone" \notin Ops
    BY DEF Solo, SoloOps
  <2>2. Lookup(c, "delete", "delete_xml")
    BY <1>1, <2>1 DEF DeleteBegin, Lookup
  <2> QED BY <2>2, SoloLookup
<1>2. CASE DeleteXML(c)
  <2>0. /\ call[c].pc = "delete_xml" /\ UNCHANGED <<vols, dom>>
        /\ XMLDesc(call[c].vm) = dom[call[c].vm].config
    BY <1>2, <1>a, ShowsDefined DEF DeleteXML, At, hostVars
  <2>1. CASE Become(c, [call[c] EXCEPT !.pc = "delete_state", !.disks = XMLDesc(call[c].vm)])
    <3> DEFINE l == [call[c] EXCEPT !.pc = "delete_state", !.disks = XMLDesc(call[c].vm)]
    <3>1. /\ l.pc = "delete_state" /\ l.vm = call[c].vm /\ l.hnd = call[c].hnd
          /\ l.disks = dom[call[c].vm].config
      BY <1>a, <2>0 DEF Call
    <3> HIDE DEF l
    <3>2. Sound(l, vols, dom, faults')
      BY <1>a, <2>0, <3>1 DEF Sound
    <3> QED BY <2>0, <2>1, <3>2, SoloLocal DEF l
  <2>2. CASE Fails(Alive(c)) /\ Goto(c, "delete_state")
    <3> DEFINE l == [call[c] EXCEPT !.pc = "delete_state"]
    <3>1. /\ l.pc = "delete_state" /\ l.vm = call[c].vm /\ l.hnd = call[c].hnd
          /\ l.disks = {}
      BY <1>a, <2>0 DEF Call, Sound
    <3>2. faults' > 0
      BY <1>a, <1>f, <2>0, <2>2 DEF Fails
    <3> HIDE DEF l
    <3>3. Sound(l, vols, dom, faults')
      BY <1>a, <2>0, <3>1, <3>2 DEF Sound
    <3> QED BY <2>0, <2>2, <3>3, SoloLocal DEF Goto, l
  <2> QED BY <1>2, <2>1, <2>2 DEF DeleteXML
<1>3. CASE DeleteState(c)
  <2>0. call[c].pc = "delete_state" /\ dom[call[c].vm].power \in Power
    BY <1>3, <1>a DEF DeleteState, At, SoloInv, TypeInv, DomOK, Domain
  <2>1. ASSUME NEW pc, GetState(c, pc),
               pc = IF Active(call[c].vm) THEN "delete_destroy" ELSE "delete_undefine"
        PROVE  SoloInv'
    <3> DEFINE l == [call[c] EXCEPT !.pc = pc, !.seen = dom[call[c].vm].power]
    <3>1. /\ l.pc = pc /\ l.vm = call[c].vm /\ l.hnd = call[c].hnd
          /\ l.disks = call[c].disks
      BY <1>a DEF Call
    <3>2. Become(c, l) /\ UNCHANGED <<vols, dom>> /\ faults' = faults
      BY <2>1 DEF GetState
    <3> HIDE DEF l
    <3>3. Sound(l, vols, dom, faults')
      <4>1. CASE Active(call[c].vm)
        BY <1>a, <2>0, <2>1, <3>1, <3>2, <4>1 DEF Sound
      <4>2. CASE ~Active(call[c].vm)
        BY <1>a, <2>0, <2>1, <3>1, <3>2, <4>2 DEF Sound, Active, Power
      <4> QED BY <4>1, <4>2
    <3> QED BY <3>2, <3>3, SoloLocal
  <2> QED BY <1>3, <2>1, SoloReturnErr DEF DeleteState
<1>4. CASE DeleteDestroy(c)
  <2>0. call[c].pc = "delete_destroy" /\ call[c].vm \in VMs
    BY <1>4, <1>a DEF DeleteDestroy, At
  <2>1. CASE Active(call[c].vm) /\ PowerOff(call[c].vm) /\ Goto(c, "delete_undefine")
             /\ UNCHANGED <<vols, faults>>
    <3> DEFINE l == [call[c] EXCEPT !.pc = "delete_undefine"]
    <3>1. /\ l.pc = "delete_undefine" /\ l.vm = call[c].vm /\ l.hnd = call[c].hnd
          /\ l.disks = call[c].disks
      BY <1>a DEF Call
    <3> HIDE DEF l
    <3>2. Settled' /\ SameDefinitions /\ dom'[call[c].vm].power = "shutoff"
      BY <2>0, <2>1, SoloPower
    <3>3. Sound(l, vols', dom', faults')
      BY <1>a, <2>0, <2>1, <3>1, <3>2 DEF Sound, SameDefinitions
    <3> QED BY <2>1, <3>2, <3>3, PowerHost, SoloBecome DEF Goto, l, SoloInv
  <2> QED BY <1>4, <2>1, SoloReturnErr DEF DeleteDestroy
<1>5. CASE DeleteUndefine(c)
  BY <1>5, UndefineSolo, SoloReturnErr DEF DeleteUndefine
<1>6. CASE DeleteVols(c)
  <2>0. call[c].pc = "delete_vols" /\ TypeInv /\ Host
    BY <1>6 DEF DeleteVols, At, SoloInv
  <2>1. PICK d \in call[c].disks :
          \/ /\ Return(c, "ok") \/ Become(c, [call[c] EXCEPT !.disks = call[c].disks \ {d}])
             /\ \/ DeleteVol(d.path) /\ UNCHANGED dom
                \/ UNCHANGED hostVars
          \/ ReturnErr(c, TRUE)
    BY <1>6 DEF DeleteVols
  <2>2. /\ \A e \in call[c].disks : e.path \in vols /\ Unused(e.path, dom)
        /\ \A e, g \in call[c].disks : e.path = g.path => e = g
    BY <1>a, <2>0 DEF Sound
  <2>3. ASSUME \/ DeleteVol(d.path) /\ UNCHANGED dom
               \/ UNCHANGED hostVars,
               \/ Return(c, "ok")
               \/ Become(c, [call[c] EXCEPT !.disks = call[c].disks \ {d}])
        PROVE  SoloInv'
    <3>1. Host'
      BY <2>0, <2>2, <2>3, HostLocal, HostDeletes DEF DeleteVol, hostVars
    <3>2. CASE Return(c, "ok")
      BY <2>0, <3>1, <3>2, SoloReturn
    <3>3. CASE Become(c, [call[c] EXCEPT !.disks = call[c].disks \ {d}])
      <4> DEFINE l == [call[c] EXCEPT !.disks = call[c].disks \ {d}]
      <4>1. l.pc = "delete_vols" /\ l.disks = call[c].disks \ {d}
        BY <1>a, <2>0 DEF Call
      <4> HIDE DEF l
      <4>2. \A e \in l.disks : e.path \in vols' /\ Unused(e.path, dom')
        BY <2>2, <2>3, <4>1 DEF DeleteVol, hostVars
      <4>3. Sound(l, vols', dom', faults')
        BY <2>2, <4>1, <4>2 DEF Sound
      <4> QED BY <2>0, <3>1, <3>3, <4>3, SoloBecome DEF l
    <3> QED BY <2>3, <3>2, <3>3
  <2> QED BY <2>1, <2>3, SoloReturnErr
<1> QED BY <1>1, <1>2, <1>3, <1>4, <1>5, <1>6 DEF Delete

\* The first disk is one disk.
LEMMA FirstUnique ==
  ASSUME SoloInv, NEW c \in Clients, NEW d \in call[c].disks, NEW e \in call[c].disks,
         IsFirst(d, call[c].disks), IsFirst(e, call[c].disks)
  PROVE  d = e
<1>1. call[c].disks \subseteq Disk /\ Distinct(call[c].disks)
  BY SoloHere DEF Call, LocalOK
<1>2. d.target \in Nat /\ e.target \in Nat
  BY <1>1, LibvirtAssumption DEF Disk, Target
<1> QED BY <1>1, <1>2 DEF IsFirst, Distinct

\* Migrate defines the domain, which is off, again: with the copy for the disk.
LEMMA RedefineSolo ==
  ASSUME Solo, SoloInv, TypeInv', Shape', NEW c \in Clients, At(c, "migrate_define"),
         NEW d \in call[c].disks, IsFirst(d, call[c].disks),
         DefineXML(call[c].vm, call[c].hnd, Replaced(call[c].disks, d, call[c].new)),
         Goto(c, "migrate_delete"), vols' = vols
  PROVE  SoloInv'
<1> DEFINE v == call[c].vm
           p == call[c].new
           C == dom[v].config
           R == Replaced(C, d, p)
<1>a. /\ call[c] \in Call /\ v \in VMs /\ Sound(call[c], vols, dom, faults)
      /\ dom \in [VMs -> Domain] /\ dom[v] \in Domain
      /\ Registered(v) /\ call[c].pc = "migrate_define"
  BY SoloHere DEF SoloInv, TypeInv, DomOK, At, OnDomain, MigratePCs
<1>b. /\ call[c].disks = C /\ dom[v].id = call[c].hnd /\ call[c].hnd # None
      /\ dom[v].power = "shutoff" /\ p \in vols /\ Unused(p, dom)
  BY <1>a DEF Sound, OnDomain, MigratePCs, IsOff, ReadPCs, DeletePCs
<1>c. dom[v].live = {}
  BY <1>a, <1>b DEF SoloInv, Host, Settled, Active
<1> DEFINE r == [dom[v] EXCEPT !.id = call[c].hnd, !.persistent = TRUE, !.config = R]
<1>1. /\ r.id = dom[v].id /\ r.persistent = TRUE /\ r.config = R
      /\ r.live = {} /\ r.power = "shutoff"
  BY <1>a, <1>b, <1>c DEF Domain
<1>2. dom' = [dom EXCEPT ![v] = r]
  BY <1>a, <1>b DEF DefineXML
<1> HIDE DEF r
<1>3. dom'[v] = r /\ \A w \in VMs : w # v => dom'[w] = dom[w]
  BY <1>a, <1>2
<1> DEFINE n == [target |-> d.target, path |-> p]
<1>4. R = (C \ {d}) \cup {n} /\ n.path = p
  BY DEF Replaced
<1>5. \A e \in C : e.path \in vols /\ e.path # p
  BY <1>a, <1>b DEF SoloInv, Host, DefinedExist, Unused
<1> HIDE DEF n, R
<1>6. Settled'
  BY <1>a, <1>1, <1>3, <1>b DEF SoloInv, Host, Settled, Registered, Active
<1>7. DefinedExist'
  BY <1>b, <1>1, <1>3, <1>4, <1>5 DEF SoloInv, Host, DefinedExist
<1>8. NoSharedVolume'
  <2>1. ASSUME NEW w \in VMs, NEW x \in VMs, NEW e \in dom'[w].config,
               NEW f \in dom'[x].config, e.path = f.path
        PROVE  w = x /\ e = f
    <3>1. \A y \in VMs : \A g \in dom'[y].config : g \in dom[y].config \/ (g = n /\ y = v)
      BY <1>1, <1>3, <1>4
    <3>2. \A y \in VMs : \A g \in dom[y].config : g.path # n.path
      BY <1>b, <1>4 DEF Unused
    <3>3. \A y, z \in VMs : \A g \in dom[y].config : \A h \in dom[z].config :
            g.path = h.path => y = z /\ g = h
      BY DEF SoloInv, Host, NoSharedVolume
    <3>4. e \in dom[w].config \/ (e = n /\ w = v)
      BY <3>1
    <3>5. f \in dom[x].config \/ (f = n /\ x = v)
      BY <3>1
    <3> QED BY <2>1, <3>2, <3>3, <3>4, <3>5
  <2> QED BY <2>1 DEF NoSharedVolume
<1>9. Unused(d.path, dom')
  <2>1. \A w \in VMs : \A e \in dom[w].config : e.path = d.path => w = v /\ e = d
    BY <1>a, <1>b DEF SoloInv, Host, NoSharedVolume
  <2>2. d.path # n.path
    BY <1>b, <1>4, <1>5
  <2>3. \A e \in R : e.path # d.path
    BY <1>a, <1>4, <2>1, <2>2
  <2> QED BY <1>1, <1>3, <2>1, <2>3 DEF Unused
<1> DEFINE l == [call[c] EXCEPT !.pc = "migrate_delete"]
<1>10. /\ l.pc = "migrate_delete" /\ l.vm = v /\ l.hnd = call[c].hnd
       /\ l.disks = C /\ l.new = p
  BY <1>a, <1>b DEF Call
<1>11. Become(c, l)
  BY DEF Goto
<1> HIDE DEF l
<1>12. \A e \in C : IsFirst(e, C) => e = d
  BY <1>b, FirstUnique
<1>13. Sound(l, vols', dom', faults')
  <2>1. dom'[v].config = Replaced(C, d, p)
    BY <1>1, <1>3 DEF R
  <2>2. \A e \in l.disks : IsFirst(e, l.disks) =>
          Unused(e.path, dom') /\ dom'[l.vm].config = Replaced(l.disks, e, l.new)
    BY <1>9, <1>10, <1>12, <2>1
  <2> QED BY <1>1, <1>3, <1>b, <1>10, <2>2
       DEF Sound, OnDomain, MigratePCs, IsOff, ReadPCs, HoldPCs
<1>14. TypeInv /\ Host'
  BY <1>6, <1>7, <1>8 DEF Host, SoloInv
<1> QED BY <1>11, <1>13, <1>14, SoloBecome


LEMMA MigrateSolo ==
  ASSUME Solo, SoloInv, TypeInv', Shape', NEW c \in Clients, MigrateDisk(c)
  PROVE  SoloInv'
<1> USE DEF OnDomain, MigratePCs, ReadPCs, HoldPCs, DeletePCs, IsOff
<1> DEFINE v == call[c].vm
<1>a. /\ call[c] \in Call /\ (call[c].pc # "idle" => v \in VMs)
      /\ Sound(call[c], vols, dom, faults)
      /\ call[c].pc \in OnDomain => Alive(c) /\ Registered(v)
  BY SoloHere
<1>b. dom \in [VMs -> Domain] /\ \A w \in VMs : dom[w].power \in Power
  BY DEF SoloInv, TypeInv, DomOK, Domain
<1>1. CASE MigrateBegin(c)
  BY <1>1, SoloLookup DEF MigrateBegin
<1>2. CASE MigrateState(c)
  <2>0. call[c].pc = "migrate_state"
    BY <1>2 DEF MigrateState, At
  <2>1. CASE GetState(c, "migrate_xml")
    <3> DEFINE l == [call[c] EXCEPT !.pc = "migrate_xml", !.seen = dom[v].power]
    <3>1. /\ l.pc = "migrate_xml" /\ l.vm = v /\ l.hnd = call[c].hnd
          /\ l.seen = dom[v].power /\ l.disks = call[c].disks
      BY <1>a DEF Call
    <3>2. Become(c, l) /\ UNCHANGED <<vols, dom>> /\ faults' = faults
      BY <2>1 DEF GetState
    <3> HIDE DEF l
    <3>3. Sound(l, vols, dom, faults')
      BY <1>a, <2>0, <3>1 DEF Sound
    <3> QED BY <3>2, <3>3, SoloLocal
  <2> QED BY <1>2, <2>1, SoloReturnErr DEF MigrateState
<1>3. CASE MigrateXML(c)
  <2>0. call[c].pc = "migrate_xml" /\ XMLDesc(v) = dom[v].config
    BY <1>a, <1>3, ShowsDefined DEF MigrateXML, At
  <2>1. ASSUME NEW pc \in {"migrate_destroy", "migrate_copy"},
               pc = IF WasActive(c) THEN "migrate_destroy" ELSE "migrate_copy",
               Become(c, [call[c] EXCEPT !.disks = XMLDesc(v), !.pc = pc]),
               UNCHANGED <<vols, dom, faults>>
        PROVE  SoloInv'
    <3> DEFINE l == [call[c] EXCEPT !.disks = XMLDesc(v), !.pc = pc]
    <3>1. /\ l.pc = pc /\ l.vm = v /\ l.hnd = call[c].hnd /\ l.disks = dom[v].config
      BY <1>a, <2>0 DEF Call
    <3> HIDE DEF l
    <3>2. pc = "migrate_copy" => dom[v].power = "shutoff"
      BY <1>a, <2>0, <2>1 DEF Sound, WasActive, Call, Power
    <3>3. Sound(l, vols, dom, faults')
      BY <1>a, <2>0, <2>1, <3>1, <3>2 DEF Sound
    <3> QED BY <2>1, <3>3, SoloLocal DEF l
  <2> QED BY <1>3, <2>1, SoloReturnErr DEF MigrateXML
<1>4. CASE MigrateDestroy(c)
  <2>0. call[c].pc = "migrate_destroy" /\ v \in VMs
    BY <1>4, <1>a DEF MigrateDestroy, At
  <2>1. CASE Active(v) /\ PowerOff(v) /\ Goto(c, "migrate_copy") /\ UNCHANGED <<vols, faults>>
    <3> DEFINE l == [call[c] EXCEPT !.pc = "migrate_copy"]
    <3>1. /\ l.pc = "migrate_copy" /\ l.vm = v /\ l.hnd = call[c].hnd
          /\ l.disks = call[c].disks
      BY <1>a DEF Call
    <3> HIDE DEF l
    <3>2. Settled' /\ SameDefinitions /\ dom'[v].power = "shutoff"
      BY <2>0, <2>1, SoloPower
    <3>3. Sound(l, vols', dom', faults')
      BY <1>a, <2>0, <2>1, <3>1, <3>2 DEF Sound, SameDefinitions
    <3> QED BY <2>1, <3>2, <3>3, PowerHost, SoloBecome DEF Goto, l, SoloInv
  <2> QED BY <1>4, <2>1, SoloReturnErr DEF MigrateDestroy
<1>5. CASE MigrateCopy(c)
  <2>0. call[c].pc = "migrate_copy"
    BY <1>5 DEF MigrateCopy, At
  <2>1. ASSUME NEW p, NEW d, MakeVol(c, p, d.path \in vols /\ CanCreateVol(p),
                          [call[c] EXCEPT !.pc = "migrate_define", !.new = p])
        PROVE  SoloInv'
    <3> DEFINE k == [call[c] EXCEPT !.pc = "migrate_define", !.new = p]
               can == d.path \in vols /\ CanCreateVol(p)
    <3>1. /\ k.disks = call[c].disks /\ k.pc = "migrate_define" /\ k.vm = v
          /\ k.hnd = call[c].hnd /\ k.new = p
      BY <1>a DEF Call
    <3>2. MakeVol(c, p, can, k) /\ (can => CanCreateVol(p))
      BY <2>1
    <3> HIDE DEF k, can
    <3>3. Unused(p, dom) => Sound(k, vols \cup {p}, dom, faults)
      BY <1>a, <2>0, <3>1 DEF Sound
    <3> QED BY <3>2, <3>3, SoloMakeVol
  <2> QED BY <1>5, <2>1 DEF MigrateCopy
<1>6. CASE MigrateDefine(c)
  BY <1>6, RedefineSolo, SoloReturnErr DEF MigrateDefine
<1>7. CASE MigrateDelete(c)
  <2>0. call[c].pc = "migrate_delete" /\ TypeInv /\ Host
    BY <1>7 DEF MigrateDelete, At, SoloInv
  <2>1. ASSUME NEW d \in call[c].disks, IsFirst(d, call[c].disks), DeleteVol(d.path),
               UNCHANGED <<dom, faults>>, Goto(c, "migrate_restart") \/ Return(c, "ok")
        PROVE  SoloInv'
    <3>1. Unused(d.path, dom)
      BY <1>a, <2>0, <2>1 DEF Sound
    <3>2. Host'
      BY <2>0, <2>1, <3>1, HostDeletes DEF DeleteVol
    <3>3. CASE Return(c, "ok")
      BY <2>0, <3>2, <3>3, SoloReturn
    <3>4. CASE Goto(c, "migrate_restart")
      <4> DEFINE l == [call[c] EXCEPT !.pc = "migrate_restart"]
      <4>1. /\ l.pc = "migrate_restart" /\ l.vm = v /\ l.hnd = call[c].hnd
            /\ l.disks = call[c].disks /\ l.new = call[c].new
        BY <1>a DEF Call
      <4> HIDE DEF l
      <4>2. \A e \in call[c].disks : IsFirst(e, call[c].disks) => e = d
        BY <1>a, <2>1, FirstUnique
      <4>3. d.path \notin vols'
        BY <2>1 DEF DeleteVol
      <4>4. Sound(l, vols', dom', faults')
        BY <1>a, <2>0, <2>1, <4>1, <4>2, <4>3 DEF Sound
      <4> QED BY <2>0, <3>2, <3>4, <4>4, SoloBecome DEF Goto, l
    <3> QED BY <2>1, <3>3, <3>4
  <2> QED BY <1>7, <2>1, SoloReturnErr DEF MigrateDelete
<1>8. CASE MigrateRestart(c)
  <2>1. v \in VMs
    BY <1>a, <1>8 DEF MigrateRestart, At
  <2> QED BY <1>8, <2>1, SoloPowerReturn, SoloReturnErr DEF MigrateRestart
<1> QED BY <1>1, <1>2, <1>3, <1>4, <1>5, <1>6, <1>7, <1>8 DEF MigrateDisk

LEMMA OtherSolo ==
  ASSUME Solo, SoloInv, TypeInv', Shape', NEW c \in Clients,
         Start(c) \/ Destroy(c) \/ Resume(c) \/ Stop(c) \/ DeleteImage(c) \/ Dies(c)
  PROVE  SoloInv'
<1> USE DEF OnDomain, MigratePCs, ReadPCs, HoldPCs, DeletePCs, IsOff
<1> DEFINE v == call[c].vm
<1>a. /\ call[c] \in Call /\ (call[c].pc # "idle" => v \in VMs)
      /\ Sound(call[c], vols, dom, faults)
      /\ call[c].pc \in OnDomain => Alive(c) /\ Registered(v)
  BY SoloHere
<1>1. CASE Start(c)
  BY <1>1, SoloPowerReturn, SoloReturnErr DEF Start, OneRPC
<1>2. CASE Destroy(c)
  BY <1>2, SoloPowerReturn, SoloReturnErr DEF Destroy, OneRPC
<1>3. CASE Resume(c)
  BY <1>3, SoloPowerReturn, SoloReturnErr DEF Resume, OneRPC
<1>4. CASE StopBegin(c)
  BY <1>4, SoloLookup DEF StopBegin
<1>5. CASE StopState(c)
  <2>0. call[c].pc = "stop_state" /\ v \in VMs
    BY <1>5, <1>a DEF StopState, At
  <2>1. CASE /\ IF Paused(v) THEN Unpause(v) ELSE UNCHANGED dom
             /\ Goto(c, "stop_shutdown") /\ UNCHANGED <<vols, faults>>
    <3> DEFINE l == [call[c] EXCEPT !.pc = "stop_shutdown"]
    <3>1. /\ l.pc = "stop_shutdown" /\ l.vm = v /\ l.hnd = call[c].hnd
      BY <1>a DEF Call
    <3> HIDE DEF l
    <3>2. Host' /\ dom'[v].id = dom[v].id
      <4>1. CASE Paused(v)
        <5>1. Settled' /\ SameDefinitions
          BY <2>0, <2>1, <4>1, SoloPower
        <5> QED BY <2>0, <2>1, <5>1, PowerHost DEF SameDefinitions
      <4>2. CASE ~Paused(v)
        BY <2>1, <4>2, HostLocal DEF SoloInv
      <4> QED BY <4>1, <4>2
    <3>3. Sound(l, vols', dom', faults')
      BY <1>a, <2>0, <3>1, <3>2 DEF Sound
    <3> QED BY <2>1, <3>2, <3>3, SoloBecome DEF Goto, l, SoloInv
  <2> QED BY <1>5, <2>1, SoloReturnErr DEF StopState
<1>6. CASE StopShutdown(c)
  BY <1>6, HostLocal, SoloReturn, SoloReturnErr DEF StopShutdown, SoloInv
<1>7. CASE Dies(c)
  BY <1>7, HostLocal, SoloReturn DEF Dies, SoloInv
<1>8. ~DeleteImage(c)
  BY DEF DeleteImage, Solo, SoloOps
<1> QED BY <1>1, <1>2, <1>3, <1>4, <1>5, <1>6, <1>7, <1>8 DEF Stop

-----------------------------------------------------------------------------
(* The theorems                                                            *)

LEMMA SoloStep ==
  ASSUME Solo, SoloInv, [Next]_vars
  PROVE  SoloInv'
<1>1. TypeInv' /\ Shape'
  BY TypeStep, ShapeStep DEF SoloInv
<1>2. ASSUME NEW c \in Clients, Acts(c) PROVE SoloInv'
  BY <1>1, <1>2, CreateSolo, AddSolo, DeleteSolo, MigrateSolo, OtherSolo DEF Acts
<1>3. ASSUME NEW v \in VMs, Guest(v) PROVE SoloInv'
  BY <1>1, <1>3, GuestSolo
<1>4. CASE UNCHANGED vars
  <2>1. vols' = vols /\ dom' = dom /\ call' = call /\ faults' = faults
    BY <1>4 DEF vars
  <2>2. Host'
    BY <2>1, HostLocal DEF SoloInv
  <2>3. \A c \in Clients : Sound(call'[c], vols', dom', faults')
    BY <2>1 DEF SoloInv
  <2> QED BY <1>1, <2>2, <2>3 DEF SoloInv
<1> QED BY <1>2, <1>3, <1>4, WhoSteps

LEMMA SoloInit == Init => SoloInv
<1> SUFFICES ASSUME Init PROVE SoloInv
  OBVIOUS
<1>1. NoCall("none").pc = "idle"
  BY DEF NoCall
<1>2. \A c \in Clients : call[c] = NoCall("none")
  BY DEF Init
<1>3. \A v \in VMs : dom[v] = Absent
  BY DEF Init, HostInit
<1>4. Absent.id = None /\ Absent.config = {}
  BY DEF Absent
<1> HIDE DEF NoCall, Absent
<1>5. \A c \in Clients : Sound(call[c], vols, dom, faults)
  BY <1>1, <1>2, SoundFree
<1>6. Host
  BY <1>3, <1>4 DEF Host, Settled, Registered, DefinedExist, NoSharedVolume
<1> QED BY <1>5, <1>6, TypeInit, ShapeInit DEF SoloInv

\* A client in a migration takes a step of it, or dies.
LEMMA MigrateActs ==
  ASSUME NEW c \in Clients, Acts(c), call[c].pc \in MigratePCs
  PROVE  \/ MigrateState(c) \/ MigrateXML(c) \/ MigrateDestroy(c) \/ MigrateCopy(c)
         \/ MigrateDefine(c) \/ MigrateDelete(c) \/ MigrateRestart(c) \/ Dies(c)
<1> USE DEF At, MigratePCs
<1>1. ~CreateVM(c)
  BY DEF CreateVM, CreateBegin, CreateClone, CreateResize, CreateExtra, CreateDefine,
         CreateStart
<1>2. ~AddDisk(c)
  BY DEF AddDisk, AddBegin, Lookup, AddXML, AddVolume, AddState, AddAttach, AddRollback
<1>3. ~Delete(c)
  BY DEF Delete, DeleteBegin, Lookup, DeleteXML, DeleteState, DeleteDestroy,
         DeleteUndefine, DeleteVols
<1>4. ~MigrateBegin(c)
  BY DEF MigrateBegin, Lookup
<1>5. ~Start(c) /\ ~Destroy(c) /\ ~Resume(c) /\ ~Stop(c) /\ ~DeleteImage(c)
  BY DEF Start, Destroy, Resume, OneRPC, Stop, StopBegin, Lookup, StopState, StopShutdown,
         DeleteImage
<1> QED BY <1>1, <1>2, <1>3, <1>4, <1>5 DEF Acts, MigrateDisk

\* Every disk of every VM is there, of its definition and of what runs: whatever
\* RPC of a create, an AddDisk, a delete or a migration fails, wherever the caller
\* dies, and whatever the guests do meanwhile.
THEOREM NoDiskLost == ASSUME Solo PROVE Spec => []AllDisksExist
<1>1. SoloInv => AllDisksExist
  <2>1. ASSUME SoloInv, NEW v \in VMs
        PROVE  Paths(dom[v].config \cup dom[v].live) \subseteq vols
    <3>1. dom[v].live \subseteq dom[v].config
      BY <2>1 DEF SoloInv, Host, Settled, Absent
    <3> QED BY <2>1, <3>1 DEF SoloInv, Host, DefinedExist, Paths
  <2> QED BY <2>1 DEF AllDisksExist
<1>2. SoloInv /\ [Next]_vars => SoloInv'
  BY SoloStep
<1> QED BY <1>1, <1>2, SoloInit, PTL DEF Spec

\* A delete that undefines a VM has seen every disk the VM has then, so that its
\* loop over the disks leaves none behind, unless an RPC has failed.
THEOREM DeleteSeesAll == ASSUME Solo PROVE Spec => []DeleteKnowsItsDisks
<1>1. SoloInv => DeleteKnowsItsDisks
  BY DEF SoloInv, DeleteKnowsItsDisks, At, Sound, ReadPCs
<1>2. SoloInv /\ [Next]_vars => SoloInv'
  BY SoloStep
<1> QED BY <1>1, <1>2, SoloInit, PTL DEF Spec

\* A migration that ends before "ok", by an error or a death, leaves the domain's
\* definition as the step found it.
LEMMA MigrateStops ==
  ASSUME NEW c \in Clients, call[c].pc \in MigratePCs, Acts(c), call[c] \in Call, TypeInv,
         call'[c].pc = "idle", call'[c].result # "ok"
  PROVE  dom' = dom
<1>1. ASSUME NEW pc, Goto(c, pc) PROVE pc = "idle"
  BY <1>1 DEF Goto, Become, TypeInv, CallOK, Call
<1>2. ASSUME NEW r, Return(c, r) PROVE call'[c].result = r
  BY <1>2 DEF Return, Become, NoCall, TypeInv, CallOK
<1>3. CASE MigrateState(c) \/ MigrateXML(c) \/ MigrateCopy(c) \/ MigrateDelete(c) \/ Dies(c)
  BY <1>3 DEF MigrateState, MigrateXML, MigrateCopy, MigrateDelete, Dies, GetState, MakeVol,
              ReturnErr, hostVars
<1>4. CASE MigrateDestroy(c) \/ MigrateDefine(c)
  BY <1>1, <1>4 DEF MigrateDestroy, MigrateDefine, ReturnErr, hostVars
<1>5. CASE MigrateRestart(c)
  BY <1>2, <1>5 DEF MigrateRestart, ReturnErr, hostVars
<1> QED BY <1>3, <1>4, <1>5, MigrateActs

\* A migration answers "ok" only from its last two steps.
LEMMA MigrateOk ==
  ASSUME NEW c \in Clients, call[c].pc \in MigratePCs, Acts(c), call[c] \in Call, TypeInv,
         call[c].result = "none", call'[c].result = "ok"
  PROVE  MigrateDelete(c) \/ MigrateRestart(c)
<1>1. ASSUME NEW pc PROVE ~Goto(c, pc)
  BY <1>1 DEF Goto, Become, TypeInv, CallOK, Call
<1>2. ~Return(c, "err") /\ ~Return(c, "died")
  BY DEF Return, Become, NoCall, TypeInv, CallOK
<1>3. ~MigrateState(c)
  <2>1. ~GetState(c, "migrate_xml")
    <3> SUFFICES ASSUME GetState(c, "migrate_xml") PROVE FALSE
      OBVIOUS
    <3>1. call'[c].result = call[c].result
      BY DEF GetState, Become, TypeInv, CallOK, Call
    <3> QED BY <3>1
  <2> QED BY <1>2, <2>1 DEF MigrateState, ReturnErr
<1>4. ~MigrateXML(c)
  <2>1. ASSUME NEW D, NEW pc, Become(c, [call[c] EXCEPT !.disks = D, !.pc = pc])
        PROVE  FALSE
    <3>1. call'[c].result = call[c].result
      BY <2>1 DEF Become, TypeInv, CallOK, Call
    <3> QED BY <3>1
  <2> QED BY <1>2, <2>1 DEF MigrateXML, ReturnErr
<1>5. ~MigrateCopy(c)
  <2>1. ASSUME NEW p, Become(c, [call[c] EXCEPT !.pc = "migrate_define", !.new = p])
        PROVE  FALSE
    <3>1. call'[c].result = call[c].result
      BY <2>1 DEF Become, TypeInv, CallOK, Call
    <3> QED BY <3>1
  <2> QED BY <1>2, <2>1 DEF MigrateCopy, MakeVol, ReturnErr
<1>6. ~MigrateDestroy(c) /\ ~MigrateDefine(c) /\ ~Dies(c)
  BY <1>1, <1>2 DEF MigrateDestroy, MigrateDefine, Dies, ReturnErr
<1> QED BY <1>3, <1>4, <1>5, <1>6, MigrateActs

\* However a migration ends once it has read the disks, by an answer or a death,
\* the VM is defined with the disks it had, or with the first of them moved to the
\* copy; every volume it names exists. "ok" says that the disk is moved, the old
\* volume is gone, and a VM that was active runs.
THEOREM MigrationMoves == ASSUME Solo PROVE Spec => MigrateMoves
<1>1. ASSUME SoloInv, [Next]_vars, NEW c \in Clients, NEW d \in call[c].disks,
             call[c].pc \in MigratePCs, call'[c].pc = "idle", IsFirst(d, call[c].disks)
      PROVE  /\ /\ call[c] \in Call /\ TypeInv /\ Shape /\ call[c].vm \in VMs
                /\ Sound(call[c], vols, dom, faults) /\ call[c].result = "none"
             /\ Acts(c)
             /\ \/ dom[call[c].vm].config = call[c].disks
                \/ dom[call[c].vm].config = Replaced(call[c].disks, d, call[c].new)
  <2>1. /\ call[c] \in Call /\ TypeInv /\ Shape /\ Sound(call[c], vols, dom, faults)
        /\ call[c].pc # "idle" /\ call[c].vm \in VMs /\ call[c].result = "none"
    BY <1>1, SoloHere DEF LocalOK, SoloInv, MigratePCs
  <2>2. Acts(c)
    BY <1>1, <2>1, NotMine
  <2>3. ASSUME call[c].pc \in {"migrate_destroy", "migrate_copy", "migrate_define"}
        PROVE  dom[call[c].vm].config = call[c].disks
    BY <2>1, <2>3 DEF Sound, ReadPCs, DeletePCs
  <2>4. ASSUME call[c].pc \in {"migrate_delete", "migrate_restart"}
        PROVE  dom[call[c].vm].config = Replaced(call[c].disks, d, call[c].new)
    BY <1>1, <2>1, <2>4 DEF Sound
  <2>5. call[c].pc \notin {"migrate_state", "migrate_xml"}
    BY <1>1, <2>1 DEF Sound
  <2> QED BY <1>1, <2>1, <2>2, <2>3, <2>4, <2>5 DEF MigratePCs
<1>2. ASSUME SoloInv, [Next]_vars, NEW c \in Clients, NEW d \in call[c].disks,
             call[c].pc \in MigratePCs, call'[c].pc = "idle", IsFirst(d, call[c].disks),
             call'[c].result = "ok"
      PROVE  /\ dom'[call[c].vm].config = Replaced(call[c].disks, d, call[c].new)
             /\ d.path \notin vols' \cup Paths(dom'[call[c].vm].config)
             /\ WasActive(c) => dom'[call[c].vm].power = "running"
  <2> DEFINE v == call[c].vm
             p == call[c].new
  <2>a. /\ v \in VMs /\ call[c].result = "none" /\ TypeInv /\ Shape
        /\ call[c] \in Call /\ Sound(call[c], vols, dom, faults)
    BY <1>1, <1>2
  <2>1. MigrateDelete(c) \/ MigrateRestart(c)
    BY <1>1, <1>2, <2>a, MigrateOk
  <2>b. Unused(d.path, dom) /\ dom[v].config = Replaced(call[c].disks, d, p)
    BY <1>2, <2>1, <2>a DEF Sound, MigrateDelete, MigrateRestart, At
  <2>2. ASSUME NEW r, Return(c, r) PROVE call'[c].result = r
    BY <2>2, <2>a DEF Return, Become, NoCall, TypeInv, CallOK
  <2>3. CASE MigrateDelete(c)
    <3>1. ~Goto(c, "migrate_restart")
      BY <1>2, <2>a DEF Goto, Become, TypeInv, CallOK, Call
    <3>2. ~ReturnErr(c, d.path \in vols)
      BY <1>2, <2>2 DEF ReturnErr
    <3>3. DeleteVol(d.path) /\ ~WasActive(c) /\ dom' = dom
      BY <1>2, <2>3, <3>1, <3>2, FirstUnique DEF MigrateDelete
    <3> QED BY <2>a, <2>b, <3>3 DEF DeleteVol, Paths, Unused
  <2>4. CASE MigrateRestart(c)
    <3>1. call[c].pc = "migrate_restart" /\ d.path \notin vols
      BY <1>2, <2>4, <2>a DEF MigrateRestart, At, Sound
    <3>2. ~ReturnErr(c, CanCreate(v))
      BY <1>2, <2>2 DEF ReturnErr
    <3>3. CanCreate(v) /\ Create(v) /\ vols' = vols
      BY <2>4, <3>2 DEF MigrateRestart
    <3>4. SameDefinitions /\ dom'[v].power = "running"
      BY <1>2, <2>a, <3>3, SoloPower
    <3>5. dom'[v].config = dom[v].config
      BY <2>a, <3>4 DEF SameDefinitions
    <3> QED BY <2>a, <2>b, <3>1, <3>3, <3>4, <3>5 DEF Paths, Unused
  <2> QED BY <2>1, <2>3, <2>4
<1>3. SoloInv /\ [Next]_vars => SoloInv'
  BY SoloStep
<1>4. ASSUME SoloInv, [Next]_vars, NEW c \in Clients, NEW d \in call[c].disks,
             call[c].pc \in MigratePCs, call'[c].pc = "idle", IsFirst(d, call[c].disks)
      PROVE  /\ dom'[call[c].vm].config
                  \in {call[c].disks, Replaced(call[c].disks, d, call[c].new)}
             /\ Paths(dom'[call[c].vm].config) \subseteq vols'
             /\ call'[c].result = "ok" =>
                  /\ dom'[call[c].vm].config = Replaced(call[c].disks, d, call[c].new)
                  /\ d.path \notin vols' \cup Paths(dom'[call[c].vm].config)
                  /\ WasActive(c) => dom'[call[c].vm].power = "running"
  <2>1. DefinedExist'
    BY <1>3, <1>4 DEF SoloInv, Host
  <2>2. Paths(dom'[call[c].vm].config) \subseteq vols'
    BY <1>1, <1>4, <2>1 DEF DefinedExist, Paths
  <2>3. CASE call'[c].result = "ok"
    BY <1>2, <1>4, <2>2, <2>3
  <2>4. CASE call'[c].result # "ok"
    <3>1. dom' = dom
      BY <1>1, <1>4, <2>4, MigrateStops
    <3> QED BY <1>1, <1>4, <2>2, <2>4, <3>1
  <2> QED BY <2>3, <2>4
<1>5. SoloInv /\ [Next]_vars =>
        [\A c \in Clients : \A d \in call[c].disks :
           /\ call[c].pc \in MigratePCs
           /\ call'[c].pc = "idle"
           /\ IsFirst(d, call[c].disks)
           => LET D     == dom'[call[c].vm].config
                  moved == Replaced(call[c].disks, d, call[c].new)
              IN /\ D \in {call[c].disks, moved}
                 /\ Paths(D) \subseteq vols'
                 /\ call'[c].result = "ok" =>
                      /\ D = moved
                      /\ d.path \notin vols' \cup Paths(D)
                      /\ WasActive(c) => dom'[call[c].vm].power = "running"]_vars
  BY <1>4
<1> QED BY <1>3, <1>5, SoloInit, PTL DEF Spec, MigrateMoves
=============================================================================
