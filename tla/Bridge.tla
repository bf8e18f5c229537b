------------------------------- MODULE Bridge -------------------------------
(***************************************************************************)
(* CreateBridge: a file in /etc/netplan, written with sudo through a       *)
(* temporary file, and "netplan apply".  A creator is a process of the     *)
(* terminal interface that is at a CreateBridge; a failure or a death may  *)
(* come between any two of its steps, and nothing is undone.               *)
(*                                                                         *)
(* netplan and sudo are external.  netplan reads all files or none: one    *)
(* that is cut short, or two that give one NIC to two bridges, and every   *)
(* apply fails and no bridge comes up at boot.  A configuration is the NIC *)
(* of the bridge and a value for the rest of the form.                     *)
(***************************************************************************)
EXTENDS Naturals

CONSTANTS
  Creators, Names, NICs, Settings,
  None, Torn,    \* no file, no bridge; a file that is cut short
  MaxFaults      \* bound on what fails, dies and reboots

Configs == [nic : NICs, set : Settings]

ASSUME BridgeAssumption == /\ MaxFaults \in Nat
                           /\ None # Torn /\ {None, Torn} \cap Configs = {}

VARIABLES
  file,          \* /etc/netplan/99-vmtool-<name>.yaml
  bridge,        \* the bridges that run, and as what
  temp,          \* the creators that have a temporary file (not those that died)
  pc, name, cfg, \* each creator: where it is, and its BridgeConfig
  alone,         \* history: no other create of the name was begun since its own
  halfway,       \* history: a create ended after its mv and before its apply
  faults

locals == <<name, cfg>>
hist   == <<alone, halfway>>
vars   == <<file, bridge, temp, pc, locals, hist, faults>>

PCs == {"idle", "begun", "temp", "copying", "chmod", "apply", "created", "failed"}

Init == /\ file = [b \in Names |-> None] /\ bridge = [b \in Names |-> None]
        /\ temp = {}
        /\ pc = [c \in Creators |-> "idle"]
        /\ name \in [Creators -> Names] /\ cfg \in [Creators -> Configs]
        /\ alone = [c \in Creators |-> TRUE] /\ halfway = FALSE
        /\ faults = 0

Goto(c, l) == pc' = [pc EXCEPT ![c] = l]
Fault      == faults < MaxFaults /\ faults' = faults + 1
Written    == {"copying", "chmod", "apply"}

-----------------------------------------------------------------------------
(* netplan                                                                 *)

Valid(f) == /\ \A b \in Names : f[b] # Torn
            /\ \A a, b \in Names : a # b /\ f[a] # None /\ f[b] # None => f[a].nic # f[b].nic

-----------------------------------------------------------------------------
(* CreateBridge                                                            *)

\* What the form submits; ListPhysicalNICs lists a NIC that is in a bridge too.
Begin(c) ==
  /\ pc[c] = "idle" /\ Goto(c, "begun")
  /\ \E b \in Names, x \in Configs :
       /\ name' = [name EXCEPT ![c] = b] /\ cfg' = [cfg EXCEPT ![c] = x]
       /\ alone' = [d \in Creators |->
                      IF d = c THEN \A e \in Creators \ {c} : pc[e] = "idle" \/ name[e] # b
                      ELSE alone[d] /\ (pc[d] = "idle" \/ name[d] # b)]
  /\ UNCHANGED <<file, bridge, temp, halfway, faults>>

\* CreateTemp and WriteString; what cannot be written is removed.
WriteTemp(c) ==
  /\ pc[c] = "begun"
  /\ \/ Goto(c, "temp") /\ temp' = temp \cup {c} /\ UNCHANGED faults
     \/ Goto(c, "failed") /\ Fault /\ UNCHANGED temp
  /\ UNCHANGED <<file, bridge, locals, hist>>

\* Broken: the file is removed only after the last step.
Sudo_NoDefer(c) == /\ pc[c] = "temp" /\ Goto(c, "failed")
                   /\ UNCHANGED <<file, bridge, temp, locals, hist, faults>>

\* sudo refuses, its password being wrong, before it has run anything.
SudoRefuses(c) == /\ pc[c] = "temp" /\ Goto(c, "failed")
                  /\ temp' = temp \ {c}
                  /\ UNCHANGED <<file, bridge, locals, hist, faults>>

\* mv renames or, to another file system, copies, which can be cut short.
Mv(c) ==
  \/ /\ pc[c] = "temp" /\ Goto(c, "chmod")
     /\ file' = [file EXCEPT ![name[c]] = cfg[c]] /\ temp' = temp \ {c}
     /\ UNCHANGED <<bridge, locals, hist, faults>>
  \/ /\ pc[c] = "temp" /\ Goto(c, "copying")
     /\ file' = [file EXCEPT ![name[c]] = Torn]
     /\ UNCHANGED <<bridge, temp, locals, hist, faults>>
  \/ /\ pc[c] = "copying" /\ Goto(c, "chmod")
     /\ file' = [file EXCEPT ![name[c]] = cfg[c]] /\ temp' = temp \ {c}
     /\ UNCHANGED <<bridge, locals, hist, faults>>

Chmod(c) == /\ pc[c] = "chmod" /\ Goto(c, "apply")
            /\ UNCHANGED <<file, bridge, temp, locals, hist, faults>>

\* Broken: created once it is written.
Apply_Skipped(c) == /\ pc[c] = "apply" /\ Goto(c, "created")
                    /\ UNCHANGED <<file, bridge, temp, locals, hist, faults>>

\* Broken: applies its own bridge alone.
Apply_Own(c) ==
  /\ pc[c] = "apply"
  /\ \/ /\ Valid(file) /\ Goto(c, "created")
        /\ bridge' = [bridge EXCEPT ![name[c]] = cfg[c]] /\ halfway' = FALSE
     \/ /\ ~Valid(file) /\ Goto(c, "failed") /\ halfway' = TRUE /\ UNCHANGED bridge
  /\ UNCHANGED <<file, temp, locals, alone, faults>>

\* All files are applied, those that another create left behind too.
Apply(c) ==
  /\ pc[c] = "apply"
  /\ \/ /\ Valid(file) /\ Goto(c, "created")
        /\ bridge' = file /\ halfway' = FALSE
     \/ /\ ~Valid(file) /\ Goto(c, "failed")
        /\ halfway' = TRUE /\ UNCHANGED bridge
  /\ UNCHANGED <<file, temp, locals, alone, faults>>

\* A sudo fails.  netplan may have applied the files before it did.
Fails(c) ==
  /\ Fault /\ pc[c] \in {"temp", "copying", "chmod", "apply"}
  /\ Goto(c, "failed") /\ temp' = temp \ {c}
  /\ halfway' = (halfway \/ pc[c] \in Written)
  /\ \/ UNCHANGED bridge
     \/ pc[c] = "apply" /\ Valid(file) /\ bridge' = file
  /\ UNCHANGED <<file, locals, alone>>

\* The message is shown.
Ends(c) == /\ pc[c] \in {"created", "failed"} /\ Goto(c, "idle")
           /\ UNCHANGED <<file, bridge, temp, locals, hist, faults>>

\* The process dies; a command that sudo is running outlives it.
Dies(c) == /\ Fault /\ pc[c] \notin {"idle", "copying"}
           /\ Goto(c, "idle") /\ temp' = temp \ {c}
           /\ halfway' = (halfway \/ pc[c] \in Written)
           /\ \/ UNCHANGED bridge
              \/ pc[c] = "apply" /\ Valid(file) /\ bridge' = file
           /\ UNCHANGED <<file, locals, alone>>

\* The host goes down and comes up with the files that are there.
Reboot == /\ Fault
          /\ bridge' = IF Valid(file) THEN file ELSE [b \in Names |-> None]
          /\ pc' = [c \in Creators |-> "idle"] /\ temp' = {}
          /\ halfway' = ~Valid(file)
          /\ UNCHANGED <<file, locals, alone>>

CreateBridge(c) == \/ Begin(c) \/ WriteTemp(c) \/ SudoRefuses(c) \/ Mv(c) \/ Chmod(c)
                   \/ Apply(c) \/ Ends(c)

Next == \/ \E c \in Creators : CreateBridge(c) \/ Fails(c) \/ Dies(c)
        \/ Reboot

Spec == Init /\ [][Next]_vars

-----------------------------------------------------------------------------
(* Properties                                                              *)

TypeOK == /\ file \in [Names -> Configs \cup {None, Torn}]
          /\ bridge \in [Names -> Configs \cup {None}]
          /\ temp \subseteq Creators /\ pc \in [Creators -> PCs]
          /\ name \in [Creators -> Names] /\ cfg \in [Creators -> Configs]
          /\ alone \in [Creators -> BOOLEAN] /\ halfway \in BOOLEAN
          /\ faults \in 0 .. MaxFaults

\* "Created" is said of a bridge that runs as it was asked for, whatever
\* other bridges are being created, as long as none has its name.
CreatedIsUp == \A c \in Creators : pc[c] = "created" /\ alone[c] => bridge[name[c]] = cfg[c]

\* The temporary file, which has the addresses of the host in it, is there only
\* while it is needed, whatever fails short of a death (the deferred Remove).
TempRemoved == \A c \in temp : pc[c] \in {"temp", "copying"}

\* Unless a create is past its mv, or ended between its mv and its apply with no
\* apply that succeeded since, the bridges that run are those of the files: what
\* is there now will be there after a reboot.
RunningIsWritten ==
  ~halfway /\ (\A c \in Creators : pc[c] \notin Written) => bridge = file /\ Valid(file)

\* A create that fails changes nothing (nothing in the repository says so).
FailedLeavesNothing ==
  \A c \in Creators : pc[c] = "failed" /\ alone[c] => file[name[c]] # cfg[c] \/ bridge[name[c]] = cfg[c]

\* A bridge that runs comes up again when the host does (nor this).
BridgesSurvive == [][\A b \in Names : bridge[b] # None => bridge'[b] # None]_vars
=============================================================================
