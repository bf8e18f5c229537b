-------------------------------- MODULE Setup --------------------------------
(***************************************************************************)
(* What every process and every request of the server starts with:         *)
(* NewManager, which sees to it that libvirt's default network runs; and   *)
(* CreatePool.  Both define an object in libvirt, start it and mark it for *)
(* autostart in RPCs of their own, in different orders, and may fail or    *)
(* die between any two; nothing keeps two processes from doing so at once. *)
(***************************************************************************)
EXTENDS Naturals

CONSTANTS
  Clients,
  MaxFaults      \* bound on the RPCs that fail, the deaths and the reboots

ASSUME SetupAssumption == MaxFaults \in Nat

VARIABLES
  net, pool,     \* the default network and the pool, in libvirt
  made,          \* whether a CreatePool has succeeded
  pc,            \* where each client is
  faults

host == <<net, pool, made>>
vars == <<host, pc, faults>>

Missing == [defined |-> FALSE, active |-> FALSE, autostart |-> FALSE]
Object  == {o \in [defined : BOOLEAN, active : BOOLEAN, autostart : BOOLEAN] :
              o.active \/ o.autostart => o.defined}

Opening == {"lookup", "is_active", "start", "define", "autostart", "create"}
Pooling == {"pool_define", "pool_create", "pool_autostart"}
PCs     == Opening \cup Pooling \cup {"idle", "open", "failed"}

Init == /\ net \in {Missing, [Missing EXCEPT !.defined = TRUE]}
        /\ pool = Missing /\ made = FALSE
        /\ pc = [c \in Clients |-> "idle"]
        /\ faults = 0

TypeOK == /\ net \in Object /\ pool \in Object /\ made \in BOOLEAN
          /\ pc \in [Clients -> PCs]
          /\ faults \in 0 .. MaxFaults

Step(c, from, to) == pc[c] = from /\ pc' = [pc EXCEPT ![c] = to]
Fault == faults < MaxFaults /\ faults' = faults + 1

-----------------------------------------------------------------------------
(* NewManager                                                              *)

Open(c) == Step(c, "idle", "lookup") /\ UNCHANGED <<host, faults>>

\* Broken: a network that exists is taken to run.
Lookup_Exists(c) == /\ Step(c, "lookup", IF net.defined THEN "open" ELSE "define")
                    /\ UNCHANGED <<host, faults>>

\* Any error of the lookup is taken for "there is none".
Lookup(c) == \/ /\ Step(c, "lookup", IF net.defined THEN "is_active" ELSE "define")
                /\ UNCHANGED <<host, faults>>
             \/ Step(c, "lookup", "define") /\ Fault /\ UNCHANGED host

IsActive(c) == /\ Step(c, "is_active", IF net.active THEN "open" ELSE "start")
               /\ UNCHANGED <<host, faults>>

\* libvirt starts nothing twice.
Start(c, from) ==
  /\ Step(c, from, IF net.active THEN "failed" ELSE "open")
  /\ net' = [net EXCEPT !.active = TRUE]
  /\ UNCHANGED <<pool, made, faults>>

\* ... and defines nothing anew under a name that is taken.
Define(c) ==
  /\ Step(c, "define", IF net.defined THEN "failed" ELSE "autostart")
  /\ net' = [net EXCEPT !.defined = TRUE]
  /\ UNCHANGED <<pool, made, faults>>

SetAutostart(c) ==
  /\ Step(c, "autostart", "create")
  /\ net' = [net EXCEPT !.autostart = TRUE]
  /\ UNCHANGED <<pool, made, faults>>

NewManager(c) == \/ Open(c) \/ Lookup(c) \/ IsActive(c) \/ Define(c) \/ SetAutostart(c)
                 \/ Start(c, "start") \/ Start(c, "create")

\* The error is printed or answered, or the Manager closed after use.
Close(c) == /\ pc[c] \in {"open", "failed"}
            /\ pc' = [pc EXCEPT ![c] = "idle"]
            /\ UNCHANGED <<host, faults>>

-----------------------------------------------------------------------------
(* CreatePool                                                              *)

PoolBegin(c) == Step(c, "open", "pool_define") /\ UNCHANGED <<host, faults>>

PoolDefine(c) ==
  /\ Step(c, "pool_define", IF pool.defined THEN "open" ELSE "pool_create")
  /\ pool' = [pool EXCEPT !.defined = TRUE]
  /\ UNCHANGED <<net, made, faults>>

\* Broken: done once it is started.
PoolCreate_Done(c) ==
  /\ Step(c, "pool_create", "open")
  /\ pool' = [pool EXCEPT !.active = TRUE] /\ made' = TRUE
  /\ UNCHANGED <<net, faults>>

PoolCreate(c) ==
  /\ Step(c, "pool_create", "pool_autostart")
  /\ pool' = [pool EXCEPT !.active = TRUE]
  /\ UNCHANGED <<net, made, faults>>

PoolAutostart(c) ==
  /\ Step(c, "pool_autostart", "open")
  /\ pool' = [pool EXCEPT !.autostart = TRUE] /\ made' = TRUE
  /\ UNCHANGED <<net, faults>>

CreatePool(c) == PoolBegin(c) \/ PoolDefine(c) \/ PoolCreate(c) \/ PoolAutostart(c)

-----------------------------------------------------------------------------
(* Faults                                                                  *)

\* An RPC fails; of CreatePool's the Manager stays open.
Fails(c) == /\ Fault
            /\ \/ /\ pc[c] \in Opening \ {"lookup"}
                  /\ pc' = [pc EXCEPT ![c] = "failed"]
               \/ /\ pc[c] \in Pooling
                  /\ pc' = [pc EXCEPT ![c] = "open"]
            /\ UNCHANGED host

Dies(c) == Fault /\ pc[c] # "idle" /\ pc' = [pc EXCEPT ![c] = "idle"] /\ UNCHANGED host

\* The host goes down and comes up: what is marked for it is started.
Rebooted(o) == [o EXCEPT !.active = o.autostart]
Reboot == /\ Fault
          /\ net' = Rebooted(net) /\ pool' = Rebooted(pool)
          /\ pc' = [c \in Clients |-> "idle"]
          /\ UNCHANGED made

Next == \/ \E c \in Clients : NewManager(c) \/ Close(c) \/ CreatePool(c) \/ Fails(c) \/ Dies(c)
        \/ Reboot

Spec == Init /\ [][Next]_vars

\* Processes run on, and some client comes back with another command.
KeepsOpening == Spec /\ \A c \in Clients : WF_vars(NewManager(c) \/ Close(c))

-----------------------------------------------------------------------------
(* Properties                                                              *)

\* Whoever holds a Manager has the default network running: "ensures the
\* default NAT network exists and is active".
OpenMeansUp == \A c \in Clients : pc[c] \in Pooling \cup {"open"} => net.active

\* A pool whose creation has succeeded is there after every reboot.
PoolSurvives == made => pool.active /\ pool.autostart

\* Whatever failed and whoever died half-way, the next open repairs it: in the
\* end the network runs, and stays so.
NetworkComesUp == <>[]net.active

\* As long as no call fails for a reason of its own, NewManager succeeds.
OpensWhenItCan == faults = 0 => \A c \in Clients : pc[c] # "failed"
=============================================================================
