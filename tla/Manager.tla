------------------------------ MODULE Manager ------------------------------
(***************************************************************************)
(* The operations of pkg/vmtool.Manager that change domains and volumes,   *)
(* executed by several clients at once: CLI processes, REST handlers (each *)
(* opens its own Manager) and TUI commands.  No operation takes a lock;    *)
(* every one is a sequence of libvirt RPCs, and here every RPC whose       *)
(* effect or answer another client can change is a step of its own.        *)
(*                                                                         *)
(* An RPC may fail although libvirt could have done it (at most MaxFaults  *)
(* times), and a client may die between two steps (Ctrl-C, server exit).   *)
(* Inputs are chosen by the step that first uses them.                     *)
(***************************************************************************)
EXTENDS Libvirt

CONSTANTS
  Clients,       \* concurrent callers
  Ops,           \* the operations they use
  PoolArgs,      \* pool names they give; outside Pools: no such pool
  VolName(_, _), \* VolName(vm, n): name of volume n of vm (1 is the clone)
  MaxFaults      \* bound on RPC failures

AllOps == {"create", "create_noclone", "add_disk", "delete",
           "delete_noclone", "migrate", "start", "stop", "resume",
           "poweroff", "delete_image"}

ASSUME ManagerAssumption ==
  /\ None \notin Clients
  /\ Ops \subseteq AllOps
  /\ Pools \subseteq PoolArgs
  /\ MaxFaults \in Nat
  /\ \A v \in VMs, n \in Target : VolName(v, n) \in Names

VARIABLES
  call,    \* call[c]: the operation client c is executing, with its locals
  faults   \* RPC failures so far

vars == <<vols, dom, call, faults>>

CreatePCs == {"create_clone", "create_resize", "create_extra",
              "create_define", "create_start"}
AddPCs    == {"add_xml", "add_volume", "add_state", "add_attach",
              "add_rollback"}
DeletePCs == {"delete_xml", "delete_state", "delete_destroy",
              "delete_undefine", "delete_vols"}
MigratePCs == {"migrate_state", "migrate_xml", "migrate_destroy",
               "migrate_copy", "migrate_define", "migrate_delete",
               "migrate_restart"}
PCs == CreatePCs \cup AddPCs \cup DeletePCs \cup MigratePCs
         \cup {"idle", "stop_state", "stop_shutdown"}

Call == [pc     : PCs,
         vm     : VMs \cup {None},
         hnd    : Uuids \cup {None},   \* the *libvirt.Domain it holds
         disks  : SUBSET Disk,         \* disks it read, or is building
         seen   : Power,               \* the state GetState returned
         new    : Path \cup {None},    \* the copy MigrateDisk made
         result : {"none", "ok", "err", "died"}]

NoCall(r) == [pc |-> "idle", vm |-> None, hnd |-> None, disks |-> {},
              seen |-> "shutoff", new |-> None, result |-> r]

Init == /\ HostInit
        /\ call = [c \in Clients |-> NoCall("none")]
        /\ faults = 0

TypeOK == /\ HostTypeOK
          /\ call \in [Clients -> Call]
          /\ faults \in 0..MaxFaults

-----------------------------------------------------------------------------
(* Control *)

At(c, pc)    == call[c].pc = pc
Become(c, l) == call' = [call EXCEPT ![c] = l]
Goto(c, pc)  == Become(c, [call[c] EXCEPT !.pc = pc])
Return(c, r) == Become(c, NoCall(r))

\* The domain the handle was opened for is still registered.
Alive(c) == dom[call[c].vm].id = call[c].hnd

\* An RPC fails: libvirt cannot do it, or it could and the RPC failed.
Fails(can) == \/ ~can /\ UNCHANGED faults
              \/ can /\ faults < MaxFaults /\ faults' = faults + 1

\* Lookup of the domain by name, the first RPC of most operations.
Lookup(c, op, pc) ==
  /\ op \in Ops
  /\ At(c, "idle")
  /\ \E v \in VMs :
       /\ Registered(v)
       /\ Become(c, [NoCall("none") EXCEPT !.pc = pc, !.vm = v,
                                           !.hnd = dom[v].id])
  /\ UNCHANGED <<vols, dom, faults>>

\* A failed RPC ends the call: "if err != nil { return err }".
ReturnErr(c, can) == Fails(can) /\ Return(c, "err") /\ UNCHANGED hostVars

\* A uuid no domain has and no handle refers to.
Fresh(id) == /\ \A v \in VMs : dom[v].id # id
             /\ \A c \in Clients : call[c].hnd # id

WasActive(c) == call[c].seen \in {"running", "paused"}

\* dom.GetState; the caller goes on at pc.
GetState(c, pc) ==
  /\ Alive(c)
  /\ Become(c, [call[c] EXCEPT !.pc = pc, !.seen = dom[call[c].vm].power])
  /\ UNCHANGED <<vols, dom, faults>>

\* A volume is created at p and its path read; c goes on as l says.
MakeVol(c, p, can, l) ==
  \/ can /\ CreateVol(p) /\ Become(c, l) /\ UNCHANGED <<dom, faults>>
  \/ can /\ CreateVol(p) /\ Fails(TRUE) /\ Return(c, "err") /\ UNCHANGED dom  \* GetPath
  \/ ReturnErr(c, can)

-----------------------------------------------------------------------------
(* CreateVM up to Start: app.Service.CreateVM and the primitives it drives *)

CloneVol(v)    == VolName(v, 1)
ExtraVol(v, n) == VolName(v, n)

CreateBegin(c) ==
  /\ At(c, "idle")
  /\ Ops \cap {"create", "create_noclone"} # {}
  /\ \E v \in VMs : Become(c, [NoCall("none") EXCEPT !.pc = "create_clone",
                                                     !.vm = v])
  /\ UNCHANGED <<vols, dom, faults>>

\* The image becomes vda: in place with noclone, else as a fresh clone.
CreateClone(c) ==
  /\ At(c, "create_clone")
  /\ \E image \in Images, grow \in BOOLEAN :
       LET next(p) == [call[c] EXCEPT
                        !.pc = IF grow THEN "create_resize" ELSE "create_extra",
                        !.disks = {[target |-> 1, path |-> p]}]
       IN \/ /\ "create_noclone" \in Ops
             /\ image \in vols
             /\ Become(c, next(image))
             /\ UNCHANGED <<vols, dom, faults>>
          \/ /\ "create" \in Ops
             /\ \E pool \in PoolArgs :
                  LET p == <<pool, CloneVol(call[c].vm)>>
                  IN MakeVol(c, p, image \in vols /\ CanCreateVol(p), next(p))

\* ResizeVolume: libvirt refuses a size below the image's own.
CreateResize(c) ==
  /\ At(c, "create_resize")
  /\ \E enough \in BOOLEAN :
       LET can == enough /\ Paths(call[c].disks) \subseteq vols
       IN \/ can /\ Goto(c, "create_extra") /\ UNCHANGED <<vols, dom, faults>>
          \/ ReturnErr(c, can)

\* Broken: a volume of that name is taken as the one to use.
CreateExtra_Reuses(c) ==
  /\ At(c, "create_extra")
  /\ \E pool \in Pools :
       LET p == <<pool, ExtraVol(call[c].vm, 2)>>
       IN /\ CreateVol(p)
          /\ Become(c, [call[c] EXCEPT !.pc = "create_define",
                          !.disks = @ \cup {[target |-> 2, path |-> p]}])
          /\ UNCHANGED <<dom, faults>>

\* Broken: the second disk is given the first disk's target.
CreateExtra_SameTarget(c) ==
  /\ At(c, "create_extra")
  /\ \E pool \in Pools :
       LET p == <<pool, ExtraVol(call[c].vm, 2)>>
       IN /\ CanCreateVol(p)
          /\ CreateVol(p)
          /\ Become(c, [call[c] EXCEPT !.pc = "create_define",
                          !.disks = @ \cup {[target |-> 1, path |-> p]}])
          /\ UNCHANGED <<dom, faults>>

\* The optional second disk is always volume 2 and vdb.
CreateExtra(c) ==
  /\ At(c, "create_extra")
  /\ \/ Goto(c, "create_define") /\ UNCHANGED <<vols, dom, faults>>
     \/ /\ 2 \in Target
        /\ \E pool \in PoolArgs :
             LET p == <<pool, ExtraVol(call[c].vm, 2)>>
             IN MakeVol(c, p, CanCreateVol(p),
                        [call[c] EXCEPT !.pc = "create_define",
                           !.disks = @ \cup {[target |-> 2, path |-> p]}])

\* domainXML has no <uuid>: libvirt makes one, so the name must be free.
CreateDefine(c) ==
  /\ At(c, "create_define")
  /\ \E id \in Uuids :
       /\ Fresh(id)
       /\ LET v == call[c].vm
          IN \/ /\ CanDefine(v, id)
                /\ DefineXML(v, id, call[c].disks)
                /\ Goto(c, "create_start")
                /\ UNCHANGED <<vols, faults>>
             \/ ReturnErr(c, CanDefine(v, id))

CreateStart(c) ==
  /\ At(c, "create_start")
  /\ LET v == call[c].vm
     IN \/ CanCreate(v) /\ Create(v) /\ Return(c, "ok") /\ UNCHANGED <<vols, faults>>
        \/ ReturnErr(c, CanCreate(v))

-----------------------------------------------------------------------------
(* AddDisk *)

\* nextVirtioTarget takes the first of these.
FreeTargets_PastLast(used) == (1..MaxTarget + 1) \ used  \* broken: past vdz
FreeTargets(used) == Target \ used

AddBegin(c) == Lookup(c, "add_disk", "add_xml")

\* Reads the targets in use; createEmptyDisk picks the first free one.
AddXML(c) ==
  /\ At(c, "add_xml")
  /\ LET used == Targets(XMLDesc(call[c].vm))
         can  == Alive(c) /\ FreeTargets(used) # {}
     IN \/ /\ can
           /\ Become(c, [call[c] EXCEPT !.pc = "add_volume",
                                        !.disks = XMLDesc(call[c].vm)])
           /\ UNCHANGED <<vols, dom, faults>>
        \/ ReturnErr(c, can)

\* CreateVolume: the number counts the disks, the target is the first free.
AddVolume(c) ==
  /\ At(c, "add_volume")
  /\ LET used == Targets(call[c].disks)
     IN \E pool \in PoolArgs, t \in FreeTargets(used) :
          /\ \A u \in FreeTargets(used) : t <= u
          /\ LET p == <<pool, ExtraVol(call[c].vm, Cardinality(used) + 1)>>
             IN MakeVol(c, p, CanCreateVol(p),
                        [call[c] EXCEPT !.pc = "add_state",
                           !.disks = {[target |-> t, path |-> p]}])

AddState(c) ==
  /\ At(c, "add_state")
  /\ \/ GetState(c, "add_attach")
     \/ Fails(Alive(c)) /\ Goto(c, "add_rollback") /\ UNCHANGED hostVars

\* Broken: an error returns without the rollback.
AddAttach_NoRollback(c) ==
  /\ At(c, "add_attach")
  /\ \E d \in call[c].disks :
       LET v   == call[c].vm
           can == Alive(c) /\ CanAttach(v, d, WasActive(c))
       IN \/ /\ can
             /\ Attach(v, d, WasActive(c))
             /\ Return(c, "ok")
             /\ UNCHANGED <<vols, faults>>
          \/ ReturnErr(c, can)

\* Broken: "err == nil" for "err != nil": rolls back what it attached.
AddAttach_Inverted(c) ==
  /\ At(c, "add_attach")
  /\ \E d \in call[c].disks :
       LET v   == call[c].vm
           can == Alive(c) /\ CanAttach(v, d, WasActive(c))
       IN \/ /\ can
             /\ Attach(v, d, WasActive(c))
             /\ Goto(c, "add_rollback")
             /\ UNCHANGED <<vols, faults>>
          \/ Fails(can) /\ Return(c, "ok") /\ UNCHANGED hostVars

AddAttach(c) ==
  /\ At(c, "add_attach")
  /\ \E d \in call[c].disks :
       LET v   == call[c].vm
           can == Alive(c) /\ CanAttach(v, d, WasActive(c))
       IN \/ /\ can
             /\ Attach(v, d, WasActive(c))
             /\ Return(c, "ok")
             /\ UNCHANGED <<vols, faults>>
          \/ Fails(can) /\ Goto(c, "add_rollback") /\ UNCHANGED hostVars

\* "_ = m.deleteVolumeByPath": its failure is not reported.
AddRollback(c) ==
  /\ At(c, "add_rollback")
  /\ Return(c, "err")
  /\ \E d \in call[c].disks :
       \/ DeleteVol(d.path) /\ UNCHANGED <<dom, faults>>
       \/ Fails(TRUE) /\ UNCHANGED hostVars

-----------------------------------------------------------------------------
(* Delete *)

\* Broken: noclone is not looked at.
DeleteBegin_IgnoresNoclone(c) ==
  \/ Lookup(c, "delete", "delete_xml")
  \/ Lookup(c, "delete_noclone", "delete_xml")

DeleteBegin(c) ==
  \/ Lookup(c, "delete", "delete_xml")
  \/ Lookup(c, "delete_noclone", "delete_state")

IsFirst(d, D) == d \in D /\ \A e \in D : d.target <= e.target

\* Broken: remembers the first disk only (parseDiskSourcePath).
DeleteXML_FirstOnly(c) ==
  /\ At(c, "delete_xml")
  /\ Alive(c)
  /\ Become(c, [call[c] EXCEPT !.pc = "delete_state",
                  !.disks = {d \in XMLDesc(call[c].vm) : IsFirst(d, XMLDesc(call[c].vm))}])
  /\ UNCHANGED <<vols, dom, faults>>

\* An error of GetXMLDesc is ignored: no disks are remembered.
DeleteXML(c) ==
  /\ At(c, "delete_xml")
  /\ \/ /\ Alive(c)
        /\ Become(c, [call[c] EXCEPT !.pc = "delete_state",
                                     !.disks = XMLDesc(call[c].vm)])
        /\ UNCHANGED faults
     \/ Fails(Alive(c)) /\ Goto(c, "delete_state")
  /\ UNCHANGED hostVars

\* Broken: the volumes go while the domain is still defined.
DeleteState_SkipsUndefine(c) ==
  /\ At(c, "delete_state")
  /\ call[c].disks # {}
  /\ GetState(c, "delete_vols")

\* Broken: a paused domain is not destroyed.
DeleteState_RunningOnly(c) ==
  /\ At(c, "delete_state")
  /\ \/ GetState(c, IF dom[call[c].vm].power = "running" THEN "delete_destroy"
                                                         ELSE "delete_undefine")
     \/ ReturnErr(c, Alive(c))

DeleteState(c) ==
  /\ At(c, "delete_state")
  /\ \/ GetState(c, IF Active(call[c].vm) THEN "delete_destroy"
                                          ELSE "delete_undefine")
     \/ ReturnErr(c, Alive(c))

DeleteDestroy(c) ==
  /\ At(c, "delete_destroy")
  /\ LET v   == call[c].vm
         can == Alive(c) /\ Active(v)
     IN \/ can /\ PowerOff(v) /\ Goto(c, "delete_undefine") /\ UNCHANGED <<vols, faults>>
        \/ ReturnErr(c, can)

DeleteUndefine(c) ==
  /\ At(c, "delete_undefine")
  /\ LET v   == call[c].vm
         can == Alive(c) /\ CanUndefine(v)
     IN \/ /\ can
           /\ Undefine(v)
           /\ IF call[c].disks = {} THEN Return(c, "ok")
                                    ELSE Goto(c, "delete_vols")
           /\ UNCHANGED <<vols, faults>>
        \/ ReturnErr(c, can)

\* One round of the loop over the disk paths, in the order of the XML.
DeleteVols(c) ==
  /\ At(c, "delete_vols")
  /\ \E d \in call[c].disks :
       /\ IsFirst(d, call[c].disks)
       /\ LET rest == call[c].disks \ {d}
              next == IF rest = {} THEN Return(c, "ok")
                      ELSE Become(c, [call[c] EXCEPT !.disks = rest])
          IN \/ DeleteVol(d.path) /\ next /\ UNCHANGED <<dom, faults>>
             \/ Fails(TRUE) /\ next /\ UNCHANGED hostVars  \* lookup failed
             \/ ReturnErr(c, TRUE)                         \* delete failed

-----------------------------------------------------------------------------
(* MigrateDisk *)

MigrateBegin(c) == Lookup(c, "migrate", "migrate_state")

MigrateState(c) ==
  /\ At(c, "migrate_state")
  /\ GetState(c, "migrate_xml") \/ ReturnErr(c, Alive(c))

MigrateXML(c) ==
  /\ At(c, "migrate_xml")
  /\ LET D   == XMLDesc(call[c].vm)
         can == Alive(c) /\ D # {}
     IN \/ /\ can
           /\ Become(c, [call[c] EXCEPT !.disks = D,
                 !.pc = IF WasActive(c) THEN "migrate_destroy" ELSE "migrate_copy"])
           /\ UNCHANGED <<vols, dom, faults>>
        \/ ReturnErr(c, can)

MigrateDestroy(c) ==
  /\ At(c, "migrate_destroy")
  /\ LET v   == call[c].vm
         can == Alive(c) /\ Active(v)
     IN \/ can /\ PowerOff(v) /\ Goto(c, "migrate_copy") /\ UNCHANGED <<vols, faults>>
        \/ ReturnErr(c, can)

\* The first disk is copied under its own name into the target pool.
MigrateCopy(c) ==
  /\ At(c, "migrate_copy")
  /\ \E pool \in PoolArgs, d \in call[c].disks :
       /\ IsFirst(d, call[c].disks)
       /\ LET p == <<pool, d.path[2]>>
          IN MakeVol(c, p, d.path \in vols /\ CanCreateVol(p),
                     [call[c] EXCEPT !.pc = "migrate_define", !.new = p])

\* strings.Replace(xmlDesc, oldPath, newPath, 1): disk d is at path p.
Replaced(disks, d, p) == (disks \ {d}) \cup {[target |-> d.target, path |-> p]}

\* Broken: no occurrence of the old path is replaced.
MigrateDefine_NoReplace(c) ==
  /\ At(c, "migrate_define")
  /\ LET v == call[c].vm
     IN \/ /\ CanDefine(v, call[c].hnd)
           /\ DefineXML(v, call[c].hnd, call[c].disks)
           /\ Goto(c, "migrate_delete")
           /\ UNCHANGED <<vols, faults>>
        \/ ReturnErr(c, CanDefine(v, call[c].hnd))

\* The XML read at the start, with the new path, is defined again.
MigrateDefine(c) ==
  /\ At(c, "migrate_define")
  /\ \E d \in call[c].disks :
       /\ IsFirst(d, call[c].disks)
       /\ LET v == call[c].vm
              D == Replaced(call[c].disks, d, call[c].new)
          IN \/ /\ CanDefine(v, call[c].hnd)
                /\ DefineXML(v, call[c].hnd, D)
                /\ Goto(c, "migrate_delete")
                /\ UNCHANGED <<vols, faults>>
             \/ ReturnErr(c, CanDefine(v, call[c].hnd))

MigrateDelete(c) ==
  /\ At(c, "migrate_delete")
  /\ \E d \in call[c].disks :
       /\ IsFirst(d, call[c].disks)
       /\ LET can == d.path \in vols
          IN \/ /\ can
                /\ DeleteVol(d.path)
                /\ IF WasActive(c) THEN Goto(c, "migrate_restart")
                                   ELSE Return(c, "ok")
                /\ UNCHANGED <<dom, faults>>
             \/ ReturnErr(c, can)

MigrateRestart(c) ==
  /\ At(c, "migrate_restart")
  /\ LET v == call[c].vm
     IN \/ CanCreate(v) /\ Create(v) /\ Return(c, "ok") /\ UNCHANGED <<vols, faults>>
        \/ ReturnErr(c, CanCreate(v))

-----------------------------------------------------------------------------
(* Operations that are one RPC after the lookup, and Stop *)

OneRPC(c, op, can(_), effect(_)) ==
  /\ op \in Ops
  /\ At(c, "idle")
  /\ \E v \in VMs : \/ can(v) /\ effect(v) /\ Return(c, "ok") /\ UNCHANGED <<vols, faults>>
                    \/ ReturnErr(c, can(v))

Start(c)   == OneRPC(c, "start", CanCreate, Create)
Destroy(c) == OneRPC(c, "poweroff", Active, PowerOff)
Resume(c)  == OneRPC(c, "resume", Paused, Unpause)

StopBegin(c) == Lookup(c, "stop", "stop_state")

\* A paused domain is resumed first so that it can answer the request.
StopState(c) ==
  /\ At(c, "stop_state")
  /\ LET v == call[c].vm
     IN \/ /\ Alive(c)
           /\ IF Paused(v) THEN Unpause(v) ELSE UNCHANGED dom
           /\ Goto(c, "stop_shutdown")
           /\ UNCHANGED <<vols, faults>>
        \/ ReturnErr(c, Alive(c))

\* Shutdown only asks: the guest may power off later, or never.
StopShutdown(c) ==
  /\ At(c, "stop_shutdown")
  /\ LET can == Alive(c) /\ Active(call[c].vm)
     IN \/ can /\ Return(c, "ok") /\ UNCHANGED <<vols, dom, faults>>
        \/ ReturnErr(c, can)

\* DeleteImage deletes any volume of the pool, in use or not.
DeleteImage(c) ==
  /\ "delete_image" \in Ops
  /\ At(c, "idle")
  /\ \E p \in vols : \/ DeleteVol(p) /\ Return(c, "ok") /\ UNCHANGED <<dom, faults>>
                     \/ ReturnErr(c, TRUE)

-----------------------------------------------------------------------------

Dies(c) == /\ ~At(c, "idle")
           /\ Return(c, "died")
           /\ UNCHANGED <<vols, dom, faults>>

CreateVM(c) == CreateBegin(c) \/ CreateClone(c) \/ CreateResize(c)
                 \/ CreateExtra(c) \/ CreateDefine(c) \/ CreateStart(c)
AddDisk(c)  == AddBegin(c) \/ AddXML(c) \/ AddVolume(c) \/ AddState(c)
                 \/ AddAttach(c) \/ AddRollback(c)
Delete(c)   == DeleteBegin(c) \/ DeleteXML(c) \/ DeleteState(c)
                 \/ DeleteDestroy(c) \/ DeleteUndefine(c) \/ DeleteVols(c)
MigrateDisk(c) == MigrateBegin(c) \/ MigrateState(c) \/ MigrateXML(c)
                    \/ MigrateDestroy(c) \/ MigrateCopy(c) \/ MigrateDefine(c)
                    \/ MigrateDelete(c) \/ MigrateRestart(c)
Stop(c) == StopBegin(c) \/ StopState(c) \/ StopShutdown(c)

Guest(v) == (GuestPowersOff(v) \/ Suspend(v)) /\ UNCHANGED <<call, faults>>

Next == \/ \E c \in Clients : \/ CreateVM(c) \/ AddDisk(c) \/ Delete(c)
                              \/ MigrateDisk(c) \/ Start(c) \/ Destroy(c)
                              \/ Resume(c) \/ Stop(c) \/ DeleteImage(c)
                              \/ Dies(c)
        \/ \E v \in VMs : Guest(v)

Spec == Init /\ [][Next]_vars

-----------------------------------------------------------------------------
(* Properties.  "Plain" operations are all but migrate, delete_image and    *)
(* create_noclone, the three that delete or share a volume some definition *)
(* names by design.                                                        *)

PlainOps == {"create", "add_disk", "delete", "delete_noclone", "start",
             "stop", "resume", "poweroff"}

\* In these steps c has made, or taken over from a domain it undefined, the
\* volumes of call[c].disks, and no definition names them (yet, or any more).
HoldPCs == {"create_resize", "create_extra", "create_define",
            "add_state", "add_attach", "add_rollback", "delete_vols"}
Holding(c) == call[c].pc \in HoldPCs

OkDelete(c) == /\ call[c].pc \in {"delete_undefine", "delete_vols"}
               /\ call'[c].result = "ok"

\* Every disk of a persistent definition is a volume that exists, so that the
\* VM can be started: whatever plain operations run concurrently, fail or die
\* half-way.
NoDanglingDisk == \A v \in VMs : Paths(dom[v].config) \subseteq vols

\* Every disk of a VM exists, of its definition and of what runs, whatever fails
\* and wherever a client dies, migrations included (one client at a time).
AllDisksExist == \A v \in VMs : Paths(dom[v].config \cup dom[v].live) \subseteq vols

\* The rollback of AddDisk and the loop of Delete only ever delete volumes no
\* definition names: not those of a VM created meanwhile under the same name,
\* nor one another AddDisk attached.
DeletesOnlyUnused ==
  \A c \in Clients, v \in VMs :
    call[c].pc \in {"add_rollback", "delete_vols"}
      => Paths(call[c].disks) \cap Paths(dom[v].config) = {}

\* Two VMs never write to the same volume, nor does a VM use one twice, even
\* when volume names collide (VM "web-2" clones to web-2.qcow2, the name of
\* the first extra disk of "web").
NoSharedVolume ==
  \A v, w \in VMs : \A d \in dom[v].config, e \in dom[w].config :
    d.path = e.path => v = w /\ d = e

\* No two disks of a VM claim the same target, or the same volume, whatever
\* the concurrent operations read before.
TargetsUnique ==
  \A v \in VMs : \A D \in {dom[v].config, dom[v].live} : \A d, e \in D :
    d.target = e.target \/ d.path = e.path => d = e

\* What AddDisk answers, of the volume it makes: "ok" only when the disk is
\* defined; an error once the volume's path is known only when the volume is gone
\* again, but for a rollback whose own RPC fails; and an error of CreateVolume
\* only when it made none, but for a vol.GetPath that fails after the volume was
\* made (libvirt.go:719-722 returns without deleting it).
AddDiskAllOrNothing ==
  [][\A c \in Clients :
       /\ \A d \in call[c].disks :
            call[c].pc \in {"add_state", "add_attach", "add_rollback"} =>
              /\ call'[c].result = "ok"  => d \in dom'[call[c].vm].config
              /\ call'[c].result = "err" => d.path \notin vols' \/ faults' # faults
       /\ At(c, "add_volume") /\ call'[c].result = "err" =>
            vols' = vols \/ faults' # faults]_vars

\* However a migration ends once it has read the VM's disks, an RPC's failure and
\* a death of the caller included, the VM is defined either with the disks it had
\* or with the first of them moved to the copy, the others as they were, and every
\* volume it names exists. It answers "ok" only when the disk is moved, the old
\* volume gone and a VM that was active runs again (one client at a time).
MigrateMoves ==
  [][\A c \in Clients : \A d \in call[c].disks :
       /\ call[c].pc \in MigratePCs
       /\ call'[c].pc = "idle"
       /\ IsFirst(d, call[c].disks)
       => LET D     == dom'[call[c].vm].config
              moved == Replaced(call[c].disks, d, call[c].new)
          IN /\ D \in {call[c].disks, moved}
             /\ Paths(D) \subseteq vols'
             /\ call'[c].result = "ok" =>
                  /\ D = moved
                  /\ d.path \notin vols' \cup Paths(D)
                  /\ WasActive(c) => dom'[call[c].vm].power = "running"]_vars

\* Delete undefines a VM only after it has seen every disk of it, so that none
\* is left behind (one client at a time, no RPC failure, no noclone).
DeleteKnowsItsDisks ==
  \A c \in Clients :
    At(c, "delete_undefine") /\ faults = 0
      => call[c].disks = dom[call[c].vm].config

\* Delete with noclone never deletes an image that a VM boots in place,
\* whatever is attached to the VM, migrated or deleted under it meanwhile: no
\* step of a delete takes an image away (without the plain delete, which does
\* so by design).
ImagesSurvive ==
  [][\A c \in Clients :
       call[c].pc \in DeletePCs /\ call'[c] # call[c]
         => Images \cap vols \subseteq vols']_vars

(***************************************************************************)
(* The inductive invariant behind NoDanglingDisk, NoSharedVolume and       *)
(* DeletesOnlyUnused: every volume but the images has at most one owner,   *)
(* a definition or a client that holds it, and only its owner deletes it.  *)
(***************************************************************************)
AbsentClean   == \A v \in VMs : /\ ~Registered(v) => dom[v] = Absent
                                /\ ~dom[v].persistent => dom[v].config = {}
LiveInConfig  == \A v \in VMs : dom[v].persistent => dom[v].live \subseteq dom[v].config
DefinedExist  == \A v \in VMs : \A d \in dom[v].config : d.path \in vols
HeldExist     == \A c \in Clients : Holding(c) => \A d \in call[c].disks : d.path \in vols
HeldOnce      == \A b, c \in Clients : Holding(b) /\ Holding(c) =>
                   \A d \in call[b].disks, e \in call[c].disks :
                     d.path = e.path => b = c /\ d = e
HeldUndefined == \A c \in Clients, v \in VMs : Holding(c) =>
                   \A d \in call[c].disks, e \in dom[v].config : d.path # e.path

\* What Delete read of a domain it is about to undefine is still defined.
SeenDefined ==
  \A c \in Clients :
    /\ call[c].pc \in DeletePCs \ {"delete_vols"}
    /\ Alive(c)
    /\ dom[call[c].vm].persistent
    => call[c].disks \subseteq dom[call[c].vm].config

Ownership == /\ AbsentClean /\ LiveInConfig /\ DefinedExist /\ NoSharedVolume
             /\ HeldExist /\ HeldOnce /\ HeldUndefined /\ SeenDefined

(* Statements of the repository's docs and comments that the code breaks.   *)

\* AddDisk without the first exception: not kept, see its comment.
FailedCreateLeavesNothing ==
  [][\A c \in Clients :
       At(c, "add_volume") /\ call'[c].result = "err" => vols' = vols]_vars

\* "restarts the VM if it was running" (libvirt.go:1023)
MigrateRestartsVM ==
  [][\A c \in Clients :
       /\ call[c].pc \in {"migrate_copy", "migrate_define", "migrate_delete",
                          "migrate_restart"}
       /\ WasActive(c)
       /\ call'[c].result \in {"ok", "err"}
       => dom'[call[c].vm].power = "running"]_vars

\* "The VM is force-stopped during the copy" (libvirt.go:1023)
StoppedDuringCopy ==
  \A c \in Clients :
    At(c, "migrate_define") /\ Alive(c) => ~Active(call[c].vm)

\* "Delete stops (force), undefines a VM" (libvirt.go:271)
DeleteStopsVM ==
  [][\A c \in Clients : OkDelete(c) => dom'[call[c].vm].id # call[c].hnd]_vars

\* "... and removes its cloned disk volume" (libvirt.go:271)
DeleteRemovesDisks ==
  [][\A c \in Clients :
       At(c, "delete_undefine") /\ OkDelete(c)
         => Paths(dom[call[c].vm].config) \cap vols' = {}]_vars

\* MigrateDisk "redefines the domain" (libvirt.go:1022): only CreateVM makes
\* a new one.
OnlyCreateRegisters ==
  [][\A v \in VMs : ~Registered(v) /\ dom'[v].id # None
       => \E c \in Clients : At(c, "create_define") /\ call[c].vm = v]_vars

\* AddDisk is "Live + persistent if the domain is running" (vmtool.yaml:345)
AddDiskLive ==
  [][\A c \in Clients : \A d \in call[c].disks :
       /\ At(c, "add_attach")
       /\ call'[c].result = "ok"
       /\ dom[call[c].vm].power = "running"
       => d \in dom'[call[c].vm].live]_vars
=============================================================================
