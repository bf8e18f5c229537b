---------------------------- MODULE ResizeProofs ----------------------------
(***************************************************************************)
(* One client at a time: the volume only grows, and the filesystem fits.   *)
(***************************************************************************)
EXTENDS Resize, TLAPS

\* No two clients resize: what the theorems below assume.
OneClient == \A c, d \in Clients : c = d

\* From ReadInfo on what is wanted is more than there is.
Growing == \A c \in Clients :
             call[c].pc \in {"state", "online", "offline"} => Wanted(c) > disk

RInv == TypeOK /\ Growing /\ FilesystemFits

\* The size in bytes fits its integer, whatever the size in GB.
LEMMA BytesFit == ASSUME NEW gb \in Nat PROVE Bytes(gb) \in 0 .. Word - 1
  BY ResizeAssumption, Z3 DEF Bytes

\* A size whose bytes fit is not changed.
LEMMA Exact == ASSUME NEW gb \in Nat, gb * GB < Word PROVE Bytes(gb) = gb * GB
<1>1. gb * GB \in Nat
  BY ResizeAssumption
<1>2. \A n \in Nat : n < Word => n % Word = n
  BY ResizeAssumption
<1> QED BY <1>1, <1>2 DEF Bytes

LEMMA SizeIsNat == ASSUME TypeOK, NEW c \in Clients PROVE call[c].size \in Nat
<1> DEFINE S == Sizes \cup {0}
<1>1. call[c] \in [pc : PCs, size : S, resized : BOOLEAN, result : Results]
  BY DEF TypeOK
<1>2. call[c].size \in S
  <2> HIDE DEF S
  <2> QED BY <1>1
<1> QED
  <2>1. S \subseteq Nat
    BY ResizeAssumption
  <2> QED BY <1>2, <2>1

\* A step of one client changes its record only, and keeps its type.
LEMMA Typed ==
  ASSUME TypeOK, NEW c \in Clients
  PROVE  /\ call[c] \in [pc : PCs, size : Sizes \cup {0}, resized : BOOLEAN, result : Results]
         /\ Wanted(c) \in 0 .. Word - 1
<1> DEFINE S == Sizes \cup {0}
<1>1. call[c] \in [pc : PCs, size : S, resized : BOOLEAN, result : Results]
  BY DEF TypeOK
<1> QED
  BY <1>1, SizeIsNat, BytesFit DEF Wanted

\* The type is kept by every step, whatever the clients.
LEMMA TypeStep == TypeOK /\ [Next]_vars => TypeOK'
<1> SUFFICES ASSUME TypeOK, [Next]_vars PROVE TypeOK'
  OBVIOUS
<1>1. CASE UNCHANGED vars
  BY <1>1 DEF TypeOK, vars
<1>2. CASE Guest
  BY <1>2 DEF TypeOK, Guest
<1>3. ASSUME NEW c \in Clients, ResizeDisk(c) PROVE TypeOK'
  <2> DEFINE Rec == [pc : PCs, size : Sizes \cup {0}, resized : BOOLEAN, result : Results]
  <2>1. call \in [Clients -> Rec] /\ call[c] \in Rec /\ Wanted(c) \in 0 .. Word - 1
    BY Typed DEF TypeOK
  <2>2. NoCall \in Rec
    BY DEF NoCall, PCs, Results
  <2>3. ASSUME NEW pc \in PCs, Goto(c, pc) PROVE call' \in [Clients -> Rec]
    BY <2>1, <2>3 DEF Goto
  <2>4. ASSUME NEW r \in Results, Return(c, r) PROVE call' \in [Clients -> Rec]
    <3>1. "answer" \in PCs
      BY DEF PCs
    <3> QED
      BY <2>1, <2>4, <3>1 DEF Return
  <2>5. ASSUME Resized(c, Wanted(c)) PROVE call' \in [Clients -> Rec] /\ disk' \in 0 .. Word - 1
    <3>1. "after" \in PCs
      BY DEF PCs
    <3> QED
      BY <2>1, <2>5, <3>1 DEF Resized
  <2>6. /\ "idle" \in PCs /\ "info" \in PCs /\ "state" \in PCs /\ "online" \in PCs
        /\ "offline" \in PCs /\ "after" \in PCs /\ "grow" \in PCs /\ "answer" \in PCs
        /\ "error" \in Results /\ "ok" \in Results /\ "grown" \in Results
        /\ "grow_error" \in Results
    BY DEF PCs, Results
  <2>7. call' \in [Clients -> Rec] /\ disk' \in 0 .. Word - 1 /\ fs' \in 0 .. Word - 1
        /\ vm' \in {"off", "running", "paused"}
    <3> USE DEF TypeOK
    <3> HIDE DEF Rec
    <3>1. CASE Begin(c)
      <4>1. PICK gb \in Sizes :
              call' = [call EXCEPT ![c] = [NoCall EXCEPT !.pc = "info", !.size = gb]]
        BY <3>1 DEF Begin
      <4>2. [NoCall EXCEPT !.pc = "info", !.size = gb] \in Rec
        BY <2>2, <2>6 DEF Rec
      <4> QED
        BY <2>1, <3>1, <4>1, <4>2 DEF Begin
    <3>2. CASE Fail(c)
      BY <2>4, <2>6, <3>2 DEF Fail
    <3>3. CASE ReadInfo(c)
      BY <2>3, <2>4, <2>6, <3>3 DEF ReadInfo
    <3>4. CASE GetState(c)
      <4>1. (IF vm = "off" THEN "offline" ELSE "online") \in PCs
        BY <2>6
      <4> QED
        BY <2>3, <3>4, <4>1 DEF GetState
    <3>5. CASE Online(c)
      BY <2>5, <3>5 DEF Online
    <3>6. CASE Offline(c)
      BY <2>5, <3>6 DEF Offline
    <3>7. CASE After(c)
      BY <2>3, <2>4, <2>6, <3>7 DEF After
    <3>8. CASE Grow(c)
      BY <2>4, <2>6, <3>8 DEF Grow
    <3>9. CASE Answer(c) \/ Dies(c)
      BY <2>1, <2>2, <3>9 DEF Answer, Dies
    <3> QED
      BY <1>3, <3>1, <3>2, <3>3, <3>4, <3>5, <3>6, <3>7, <3>8, <3>9 DEF ResizeDisk
  <2> QED
    BY <2>7 DEF TypeOK
<1> QED
  BY <1>1, <1>2, <1>3 DEF Next

\* RInv holds at the start.
LEMMA RInvInit == Init => RInv
<1> SUFFICES ASSUME Init PROVE RInv
  OBVIOUS
<1>1. InitialGB * GB \in 0 .. Word - 1
  BY ResizeAssumption
<1>2. NoCall \in [pc : PCs, size : Sizes \cup {0}, resized : BOOLEAN, result : Results]
  BY DEF NoCall, PCs, Results
<1>3. TypeOK
  BY <1>1, <1>2 DEF Init, TypeOK
<1>4. Growing
  BY DEF Init, Growing, NoCall
<1>5. FilesystemFits
  BY <1>1 DEF Init, FilesystemFits
<1> QED
  BY <1>3, <1>4, <1>5 DEF RInv

\* One client: a step keeps RInv, and the volume does not get smaller.
LEMMA RInvStep ==
  ASSUME OneClient, RInv, [Next]_vars
  PROVE  RInv' /\ disk' >= disk
<1>1. TypeOK'
  BY TypeStep DEF RInv
<1>2. disk \in Nat /\ fs \in Nat /\ fs <= disk /\ disk' \in Nat
  BY <1>1, ResizeAssumption DEF RInv, TypeOK, FilesystemFits
<1>3. CASE UNCHANGED vars \/ Guest
  <2>1. disk' = disk /\ fs' = fs /\ call' = call
    BY <1>3 DEF vars, Guest
  <2> QED
    BY <1>1, <1>2, <2>1 DEF RInv, Growing, FilesystemFits, Wanted
<1>4. ASSUME NEW c \in Clients, ResizeDisk(c) PROVE RInv' /\ disk' >= disk
  <2>1. \A d \in Clients : d = c
    BY <1>4 DEF OneClient
  <2>2. call[c] \in [pc : PCs, size : Sizes \cup {0}, resized : BOOLEAN, result : Results]
        /\ Wanted(c) \in Nat /\ call \in [Clients -> [pc : PCs, size : Sizes \cup {0},
                                   resized : BOOLEAN, result : Results]]
    BY Typed, ResizeAssumption DEF RInv, TypeOK
  <2>3. call[c].pc \in {"state", "online", "offline"} => Wanted(c) > disk
    BY DEF RInv, Growing
  <2>4. SUFFICES /\ fs' <= disk' /\ disk' >= disk
                 /\ call'[c].pc \in {"state", "online", "offline"} => Wanted(c)' > disk'
    BY <1>1, <2>1 DEF RInv, Growing, FilesystemFits
  <2>5. CASE Begin(c) \/ Fail(c) \/ Answer(c) \/ Dies(c)
    <3>1. disk' = disk /\ fs' = fs
      BY <2>5 DEF Begin, Fail, Answer, Dies
    <3>2. call'[c].pc \in {"idle", "info", "answer"}
      <4>1. CASE Begin(c)
        <5>1. PICK gb \in Sizes :
                call' = [call EXCEPT ![c] = [NoCall EXCEPT !.pc = "info", !.size = gb]]
          BY <4>1 DEF Begin
        <5>2. call'[c] = [NoCall EXCEPT !.pc = "info", !.size = gb]
          BY <2>2, <5>1
        <5> QED
          BY <5>2 DEF NoCall
      <4>2. CASE Fail(c)
        BY <2>2, <4>2 DEF Fail, Return
      <4>3. CASE Answer(c) \/ Dies(c)
        BY <2>2, <4>3 DEF Answer, Dies, NoCall
      <4> QED
        BY <2>5, <4>1, <4>2, <4>3
    <3> QED
      BY <1>2, <3>1, <3>2
  <2>6. CASE ReadInfo(c)
    BY <1>2, <2>2, <2>6 DEF ReadInfo, Return, Goto, Wanted
  <2>7. CASE GetState(c)
    BY <1>2, <2>2, <2>3, <2>7 DEF GetState, Goto, At, Wanted
  <2>8. CASE Online(c) \/ Offline(c)
    BY <1>2, <2>2, <2>3, <2>8 DEF Online, Offline, Resized, At
  <2>9. CASE After(c) \/ Grow(c)
    BY <1>2, <2>2, <2>9 DEF After, Grow, Return, Goto
  <2> QED
    BY <1>4, <2>5, <2>6, <2>7, <2>8, <2>9 DEF ResizeDisk
<1> QED
  BY <1>3, <1>4 DEF Next

\* Behind a resize the volume has the size the client wanted, and keeps it up to
\* the answer; the client answers "grown" only behind the playbook.
Done == \A c \in Clients :
          /\ call[c].pc \in {"after", "grow"} => disk = Wanted(c)
          /\ At(c, "answer") /\ call[c].result = "grown" => fs = disk /\ disk = Wanted(c)

\* One client: a step keeps Done.
LEMMA DoneStep ==
  ASSUME OneClient, TypeOK, Done, [Next]_vars
  PROVE  Done'
<1>1. CASE UNCHANGED vars \/ Guest
  <2>1. disk' = disk /\ fs' = fs /\ call' = call
    BY <1>1 DEF vars, Guest
  <2> QED
    BY <2>1 DEF Done, At, Wanted
<1>2. ASSUME NEW c \in Clients, ResizeDisk(c) PROVE Done'
  <2>1. \A d \in Clients : d = c
    BY <1>2 DEF OneClient
  <2> DEFINE Rec == [pc : PCs, size : Sizes \cup {0}, resized : BOOLEAN, result : Results]
  <2>2. call \in [Clients -> Rec] /\ call[c] \in Rec
    BY DEF TypeOK
  <2>3. /\ call[c].pc \in {"after", "grow"} => disk = Wanted(c)
        /\ At(c, "answer") /\ call[c].result = "grown" => fs = disk /\ disk = Wanted(c)
    BY DEF Done
  <2>4. SUFFICES /\ call'[c].pc \in {"after", "grow"} => disk' = Wanted(c)'
                 /\ call'[c].pc = "answer" /\ call'[c].result = "grown"
                      => fs' = disk' /\ disk' = Wanted(c)'
    BY <2>1 DEF Done, At
  <2>5. CASE Begin(c)
    <3>1. PICK gb \in Sizes :
            call' = [call EXCEPT ![c] = [NoCall EXCEPT !.pc = "info", !.size = gb]]
      BY <2>5 DEF Begin
    <3>2. call'[c].pc = "info"
      BY <2>2, <3>1 DEF NoCall
    <3> QED
      BY <3>2
  <2>6. CASE Fail(c)
    BY <2>2, <2>6 DEF Fail, Return
  <2>7. CASE ReadInfo(c)
    BY <2>2, <2>7 DEF ReadInfo, Return, Goto
  <2>8. CASE GetState(c)
    BY <2>2, <2>8 DEF GetState, Goto
  <2>9. CASE Online(c) \/ Offline(c)
    <3>1. disk' = Wanted(c) /\ call' = [call EXCEPT ![c].pc = "after", ![c].resized = TRUE]
      BY <2>9 DEF Online, Offline, Resized
    <3>2. call'[c].pc = "after" /\ call'[c].size = call[c].size
      BY <2>2, <3>1
    <3> QED
      BY <3>1, <3>2 DEF Wanted
  <2>10. CASE After(c)
    BY <2>2, <2>3, <2>10 DEF After, Return, Goto, At, Wanted
  <2>11. CASE Grow(c)
    BY <2>2, <2>3, <2>11 DEF Grow, Return, At, Wanted
  <2>12. CASE Answer(c) \/ Dies(c)
    BY <2>2, <2>12 DEF Answer, Dies, NoCall
  <2> QED
    BY <1>2, <2>5, <2>6, <2>7, <2>8, <2>9, <2>10, <2>11, <2>12 DEF ResizeDisk
<1> QED
  BY <1>1, <1>2 DEF Next

\* One client at a time: the guest's filesystem always lies within the volume.
THEOREM FilesystemSafe == ASSUME OneClient PROVE Spec => []FilesystemFits
<1>1. RInv => FilesystemFits
  BY DEF RInv
<1> QED
  BY <1>1, RInvInit, RInvStep, PTL DEF Spec

\* One client at a time: the volume is only ever made larger.
THEOREM OnlyGrows == ASSUME OneClient PROVE Spec => NeverShrinks
<1> QED
  BY RInvInit, RInvStep, PTL DEF Spec, NeverShrinks

\* libvirt.go:995, disk.go:42-58, one client at a time: "filesystem_grown" is only
\* answered of a filesystem that fills a volume of the bytes the code computed, which
\* are those that were asked for unless the product wraps around.
THEOREM GrownIsGrown == ASSUME OneClient PROVE Spec => []GrownMeansGrown
<1>1. Init => TypeOK /\ Done
  BY RInvInit DEF RInv, Init, Done, NoCall, At
<1>2. TypeOK /\ Done /\ [Next]_vars => TypeOK' /\ Done'
  BY TypeStep, DoneStep
<1>3. TypeOK /\ Done => GrownMeansGrown
  <2>1. ASSUME TypeOK, NEW c \in Clients, call[c].size * GB < Word
        PROVE  Wanted(c) = call[c].size * GB
    <3>1. call[c].size \in Nat
      BY <2>1, SizeIsNat
    <3> QED
      BY <2>1, <3>1, Exact DEF Wanted
  <2> QED
    BY <2>1 DEF Done, GrownMeansGrown
<1> QED
  BY <1>1, <1>2, <1>3, PTL DEF Spec

\* However requests cross: the volume of a VM that is off is not made smaller.
THEOREM OffIsSafe == Spec => OffNeverShrinks
<1>1. ASSUME TypeOK, [Next]_vars, vm = "off" PROVE disk' >= disk
  <2>1. disk \in Nat
    BY <1>1, ResizeAssumption DEF TypeOK
  <2>2. CASE UNCHANGED vars \/ Guest
    BY <2>1, <2>2 DEF vars, Guest
  <2>3. ASSUME NEW c \in Clients, ResizeDisk(c) PROVE disk' >= disk
    <3>1. CASE Offline(c)
      BY <3>1 DEF Offline, Resized
    <3>2. CASE Online(c)
      BY <1>1, <3>2 DEF Online
    <3>3. CASE Begin(c) \/ Fail(c) \/ ReadInfo(c) \/ GetState(c) \/ After(c) \/ Grow(c)
               \/ Answer(c) \/ Dies(c)
      <4>1. disk' = disk
        BY <3>3 DEF Begin, Fail, ReadInfo, GetState, After, Grow, Answer, Dies
      <4> QED
        BY <2>1, <4>1
    <3> QED
      BY <2>3, <3>1, <3>2, <3>3 DEF ResizeDisk
  <2> QED
    BY <1>1, <2>2, <2>3 DEF Next
<1>2. Init => TypeOK
  BY RInvInit DEF RInv
<1> QED
  BY <1>1, <1>2, TypeStep, PTL DEF Spec, OffNeverShrinks
=============================================================================
