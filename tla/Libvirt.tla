------------------------------ MODULE Libvirt ------------------------------
(***************************************************************************)
(* The libvirt daemon as pkg/vmtool uses it: storage volumes, and the      *)
(* domains registered under a name.  libvirt is not part of the            *)
(* repository, so this module is external: each operator is the effect, or *)
(* the condition for success, of one RPC that pkg/vmtool/libvirt.go makes. *)
(*                                                                         *)
(* A domain has a persistent definition and, while it is active, a live    *)
(* one; GetXMLDesc(0) shows the live one.  Undefining an active domain     *)
(* leaves it running as a transient one, which vanishes when it stops.  A  *)
(* handle returned by LookupDomainByName holds the domain's UUID, not its  *)
(* name, and DomainDefineXML refuses a name registered under another UUID. *)
(***************************************************************************)
EXTENDS Naturals, FiniteSets

CONSTANTS
  VMs,         \* domain names
  Pools,       \* storage pools that exist
  Names,       \* volume names
  Images,      \* paths of the base images present at the start
  MaxTarget,   \* number of virtio targets (vda..vdz: 26 in the code)
  Uuids,       \* domain UUIDs
  None         \* no UUID, no VM, no path

Path   == Pools \X Names
Target == 1..MaxTarget

ASSUME LibvirtAssumption ==
  /\ MaxTarget \in Nat \ {0}
  /\ Images \subseteq Path
  /\ None \notin Uuids \cup VMs \cup Path

VARIABLES
  vols,   \* the paths of the volumes that exist
  dom     \* what is registered under each domain name

hostVars == <<vols, dom>>

Disk   == [target : Target, path : Path]
Power  == {"shutoff", "running", "paused"}
Domain == [id         : Uuids \cup {None},
           persistent : BOOLEAN,
           config     : SUBSET Disk,   \* the persistent definition
           power      : Power,
           live       : SUBSET Disk]   \* the live definition

Absent == [id |-> None, persistent |-> FALSE, config |-> {},
           power |-> "shutoff", live |-> {}]

HostInit == /\ vols = Images
            /\ dom = [v \in VMs |-> Absent]

HostTypeOK == /\ vols \subseteq Path
              /\ dom \in [VMs -> Domain]

Paths(D)   == {d.path : d \in D}
Targets(D) == {d.target : d \in D}

(***************************************************************************)
(* Domains                                                                 *)
(***************************************************************************)
Registered(v) == dom[v].id # None

\* RUNNING or PAUSED: a qemu process exists.
Active(v) == dom[v].power \in {"running", "paused"}

\* dom.GetXMLDesc(0)
XMLDesc(v) == IF Active(v) THEN dom[v].live ELSE dom[v].config

\* conn.DomainDefineXML of a description of UUID id with the disks D
CanDefine(v, id) == dom[v].id \in {None, id}
DefineXML(v, id, D) ==
  dom' = [dom EXCEPT ![v] = [@ EXCEPT !.id = id, !.persistent = TRUE,
                                      !.config = D]]

\* dom.Create: qemu opens every disk of the definition
CanCreate(v) == /\ dom[v].persistent
                /\ dom[v].power = "shutoff"
                /\ Paths(dom[v].config) \subseteq vols
Create(v) == dom' = [dom EXCEPT ![v] = [@ EXCEPT !.power = "running",
                                                 !.live = dom[v].config]]

\* The guest is gone, by dom.Destroy or by itself.
PowerOff(v) ==
  dom' = [dom EXCEPT ![v] =
            IF dom[v].persistent
              THEN [@ EXCEPT !.power = "shutoff", !.live = {}]
              ELSE Absent]

\* dom.Undefine
CanUndefine(v) == dom[v].persistent
Undefine(v) ==
  dom' = [dom EXCEPT ![v] =
            IF Active(v) THEN [@ EXCEPT !.persistent = FALSE, !.config = {}]
                         ELSE Absent]

\* dom.AttachDeviceFlags: CONFIG, and LIVE too when live holds
CanAttach(v, d, live) ==
  /\ dom[v].persistent
  /\ d.target \notin Targets(dom[v].config)
  /\ live => /\ Active(v)
             /\ d.target \notin Targets(dom[v].live)
             /\ d.path \in vols
Attach(v, d, live) ==
  dom' = [dom EXCEPT ![v] =
            [@ EXCEPT !.config = dom[v].config \cup {d},
                      !.live   = dom[v].live \cup {e \in {d} : live}]]

\* dom.Resume
Paused(v)    == dom[v].power = "paused"
Unpause(v)   == dom' = [dom EXCEPT ![v] = [@ EXCEPT !.power = "running"]]

(***************************************************************************)
(* Volumes: pool.StorageVolCreateXML(From) refuses a name the pool holds   *)
(***************************************************************************)
CanCreateVol(p) == p \in Path /\ p \notin vols
CreateVol(p)    == vols' = vols \cup {p}
DeleteVol(p)    == vols' = vols \ {p}

(***************************************************************************)
(* What happens without vmtool: the guest powers itself off (also as the   *)
(* answer to Shutdown), and an operator suspends it with virsh.            *)
(***************************************************************************)
GuestPowersOff(v) == /\ dom[v].power = "running"
                     /\ PowerOff(v)
                     /\ UNCHANGED vols

Suspend(v) == /\ dom[v].power = "running"
              /\ dom' = [dom EXCEPT ![v] = [@ EXCEPT !.power = "paused"]]
              /\ UNCHANGED vols
=============================================================================
