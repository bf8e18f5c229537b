------------------------------- MODULE Resize -------------------------------
(***************************************************************************)
(* Resizing the first disk of a VM: Service.ResizeDisk, which grows the    *)
(* volume through Manager.ResizeDisk and then, when the VM runs and has an *)
(* address, the guest's filesystem with Ansible.                           *)
(*                                                                         *)
(* One VM, several callers: processes of the command line and requests of  *)
(* the server.  Sizes are bytes in uint64, here numbers below Word.        *)
(***************************************************************************)
EXTENDS Naturals

CONSTANTS
  Clients,
  GB, Word,       \* 2^30 and 2^64
  Sizes,          \* the sizes in GB that are asked for
  InitialGB       \* the size of the image that was cloned

ASSUME ResizeAssumption ==
  /\ GB \in Nat \ {0} /\ Word \in Nat \ {0}
  /\ Sizes \subseteq Nat \ {0}
  /\ InitialGB \in Nat \ {0} /\ InitialGB * GB < Word

VARIABLES
  disk,          \* capacity of the volume
  fs,            \* what of it the guest's filesystem takes
  vm,            \* state of the domain
  call           \* what each client is at

vars == <<disk, fs, vm, call>>

\* uint64(sizeGB) * 1024 * 1024 * 1024
Bytes(gb) == (gb * GB) % Word

PCs     == {"idle", "info", "state", "online", "offline", "after", "grow", "answer"}
Results == {"none", "error", "ok", "grow_error", "grown"}
NoCall  == [pc |-> "idle", size |-> 0, resized |-> FALSE, result |-> "none"]

Init == /\ disk = InitialGB * GB /\ fs = disk
        /\ vm \in {"off", "running"}
        /\ call = [c \in Clients |-> NoCall]

TypeOK == /\ disk \in 0 .. Word - 1 /\ fs \in 0 .. Word - 1
          /\ vm \in {"off", "running", "paused"}
          /\ call \in [Clients -> [pc : PCs, size : Sizes \cup {0},
                                   resized : BOOLEAN, result : Results]]

At(c, pc)        == call[c].pc = pc
Goto(c, pc)      == call' = [call EXCEPT ![c].pc = pc]
Return(c, r)     == call' = [call EXCEPT ![c].pc = "answer", ![c].result = r]
Wanted(c)        == Bytes(call[c].size)
Resized(c, size) == /\ disk' = size
                    /\ call' = [call EXCEPT ![c].pc = "after", ![c].resized = TRUE]

-----------------------------------------------------------------------------

Begin(c) == /\ At(c, "idle")
            /\ \E gb \in Sizes :
                 call' = [call EXCEPT ![c] = [NoCall EXCEPT !.pc = "info", !.size = gb]]
            /\ UNCHANGED <<disk, fs, vm>>

\* Any call to libvirt may fail, and is an error up to the Info that follows
\* the resize, that one included.
Fail(c) == /\ call[c].pc \in {"info", "state", "online", "offline", "after"}
           /\ Return(c, "error")
           /\ UNCHANGED <<disk, fs, vm>>

\* Broken: compares in GB, before the product wraps.
ReadInfo_InGB(c) ==
  /\ At(c, "info")
  /\ IF call[c].size <= disk \div GB THEN Return(c, "error") ELSE Goto(c, "state")
  /\ UNCHANGED <<disk, fs, vm>>

\* GetXMLDesc, LookupStorageVolByPath, GetInfo and the comparison with the
\* capacity of that moment
ReadInfo(c) == /\ At(c, "info")
               /\ IF Wanted(c) <= disk THEN Return(c, "error") ELSE Goto(c, "state")
               /\ UNCHANGED <<disk, fs, vm>>

GetState(c) == /\ At(c, "state")
               /\ Goto(c, IF vm = "off" THEN "offline" ELSE "online")
               /\ UNCHANGED <<disk, fs, vm>>

\* BlockResize: to any size, larger or smaller
Online(c) == /\ At(c, "online")
             /\ vm # "off"
             /\ Resized(c, Wanted(c))
             /\ UNCHANGED <<fs, vm>>

\* vol.Resize: without the flag to shrink libvirt refuses to, and a VM that
\* runs holds the lock of the image.
Offline(c) == /\ At(c, "offline")
              /\ vm = "off" /\ Wanted(c) >= disk
              /\ Resized(c, Wanted(c))
              /\ UNCHANGED <<fs, vm>>

\* Service.ResizeDisk: Info, which gives an address at the most when it runs
After(c) == /\ At(c, "after")
            /\ \/ Return(c, "ok")
               \/ vm = "running" /\ Goto(c, "grow")
            /\ UNCHANGED <<disk, fs, vm>>

\* Broken: reports success whatever the playbook did.
Grow_Swallows(c) == /\ At(c, "grow")
                    /\ Return(c, "grown")
                    /\ \/ vm = "running" /\ fs' = disk
                       \/ UNCHANGED fs
                    /\ UNCHANGED <<disk, vm>>

\* TempInventory and GrowDisk
Grow(c) == /\ At(c, "grow")
           /\ \/ vm = "running" /\ fs' = disk /\ Return(c, "grown")
              \/ UNCHANGED fs /\ Return(c, "grow_error")
           /\ UNCHANGED <<disk, vm>>

Answer(c) == /\ At(c, "answer")
             /\ call' = [call EXCEPT ![c] = NoCall]
             /\ UNCHANGED <<disk, fs, vm>>

\* The process dies, or the server is stopped.
Dies(c) == /\ call[c].pc \notin {"idle", "answer"}
           /\ call' = [call EXCEPT ![c] = NoCall]
           /\ UNCHANGED <<disk, fs, vm>>

ResizeDisk(c) == \/ Begin(c) \/ Fail(c) \/ ReadInfo(c) \/ GetState(c) \/ Online(c)
                 \/ Offline(c) \/ After(c) \/ Grow(c) \/ Answer(c) \/ Dies(c)

\* The guest and the operations that start, stop and suspend it
Guest == /\ vm' \in {"off", "running", "paused"} \ {vm}
         /\ (vm = "off" => vm' = "running")
         /\ UNCHANGED <<disk, fs, call>>

Next == (\E c \in Clients : ResizeDisk(c)) \/ Guest
Spec == Init /\ [][Next]_vars

-----------------------------------------------------------------------------
(* Properties                                                              *)

\* The guest's filesystem is never cut off: it lies within the volume.  Where
\* one client at a time resizes.
FilesystemFits == fs <= disk

\* "filesystem_grown" is only said of a filesystem that fills its disk, and of a
\* disk of the size in bytes that the code computed: the size that was asked for
\* if that is below 2^64 bytes, otherwise what is left of it when it wraps around,
\* which is answered as grown too.  Where one client at a time resizes.
GrownMeansGrown ==
  \A c \in Clients : At(c, "answer") /\ call[c].result = "grown" =>
    /\ fs = disk /\ disk = Wanted(c)
    /\ call[c].size * GB < Word => disk = call[c].size * GB

\* While a VM is off no volume of it gets smaller, however requests cross.
OffNeverShrinks == [][vm = "off" => disk' >= disk]_vars

\* "ResizeDisk grows a VM's disk volume": it never makes it smaller.
NeverShrinks == [][disk' >= disk]_vars

\* "... to sizeGB gigabytes": the size that was asked for.
SizeIsAsked == [][disk' # disk => \E c \in Clients : disk' = call[c].size * GB]_vars

\* An error is what is returned when the volume was not resized.
ErrorMeansUnchanged ==
  \A c \in Clients : At(c, "answer") /\ call[c].result = "error" => ~call[c].resized
=============================================================================
