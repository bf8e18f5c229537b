---------------------------- MODULE BridgeProofs ----------------------------
(***************************************************************************)
(* Theorems about Bridge, for any number of creators, bridges and NICs and *)
(* any bound on the faults.                                                *)
(*                                                                         *)
(* TempRemoved and RunningIsWritten are inductive.  CreatedIsUp is not: it *)
(* needs Sole, that no other create under way has the name of one that is  *)
(* alone, and Its, that the file such a create wrote is still its own, so  *)
(* that an apply of another creator, which applies every file, leaves its  *)
(* bridge what it is.                                                      *)
(***************************************************************************)
EXTENDS Bridge, TLAPS

Sole == \A c, d \in Creators :
          c # d /\ alone[c] /\ pc[c] # "idle" => pc[d] = "idle" \/ name[d] # name[c]

Its == \A c \in Creators :
         alone[c] /\ pc[c] \in {"chmod", "apply", "created"} => file[name[c]] = cfg[c]

IInv == TypeOK /\ Sole /\ Its /\ CreatedIsUp /\ TempRemoved /\ RunningIsWritten

-----------------------------------------------------------------------------

LEMMA InitIInv == Init => IInv
<1> SUFFICES ASSUME Init PROVE IInv
  OBVIOUS
<1>1. TypeOK
  <2>1. faults \in 0 .. MaxFaults /\ temp \subseteq Creators
    BY BridgeAssumption DEF Init
  <2>2. file \in [Names -> Configs \cup {None, Torn}] /\ bridge \in [Names -> Configs \cup {None}]
    BY DEF Init
  <2>3. pc \in [Creators -> PCs] /\ alone \in [Creators -> BOOLEAN] /\ halfway \in BOOLEAN
    BY DEF Init, PCs
  <2> QED
    BY <2>1, <2>2, <2>3 DEF Init, TypeOK
<1>2. Valid(file)
  BY BridgeAssumption DEF Init, Valid
<1>3. Sole /\ Its /\ CreatedIsUp /\ TempRemoved
  BY DEF Init, Sole, Its, CreatedIsUp, TempRemoved
<1>4. RunningIsWritten
  BY <1>2 DEF Init, RunningIsWritten
<1> QED
  BY <1>1, <1>3, <1>4 DEF IInv

LEMMA BeginIInv == ASSUME IInv, NEW c \in Creators, Begin(c) PROVE IInv'
<1> USE DEF Goto
<1>1. PICK b \in Names, x \in Configs :
        /\ name' = [name EXCEPT ![c] = b] /\ cfg' = [cfg EXCEPT ![c] = x]
        /\ alone' = [d \in Creators |->
                       IF d = c THEN \A e \in Creators \ {c} : pc[e] = "idle" \/ name[e] # b
                       ELSE alone[d] /\ (pc[d] = "idle" \/ name[d] # b)]
  BY DEF Begin
<1>2. TypeOK'
  <2>1. pc' \in [Creators -> PCs]
    BY DEF IInv, TypeOK, Begin, PCs
  <2>2. name' \in [Creators -> Names] /\ cfg' \in [Creators -> Configs]
    BY <1>1 DEF IInv, TypeOK
  <2>3. alone' \in [Creators -> BOOLEAN]
    <3>1. \A d \in Creators : alone'[d] \in BOOLEAN
      BY <1>1, Zenon DEF IInv, TypeOK
    <3> QED
      BY <1>1, <3>1, Zenon
  <2> QED
    BY <2>1, <2>2, <2>3 DEF IInv, TypeOK, Begin
<1>3. \A d \in Creators \ {c} : /\ pc'[d] = pc[d] /\ name'[d] = name[d] /\ cfg'[d] = cfg[d]
                                /\ alone'[d] => alone[d] /\ (pc[d] = "idle" \/ name[d] # b)
  BY <1>1 DEF Begin, IInv, TypeOK
<1>4. /\ pc[c] = "idle" /\ pc'[c] = "begun" /\ name'[c] = b
      /\ alone'[c] => \A e \in Creators \ {c} : pc[e] = "idle" \/ name[e] # b
  BY <1>1 DEF Begin, IInv, TypeOK
<1>5. Sole'
  BY <1>3, <1>4 DEF IInv, Sole
<1>6. Its' /\ CreatedIsUp' /\ TempRemoved' /\ RunningIsWritten'
  <2>1. file' = file /\ bridge' = bridge /\ temp' = temp /\ halfway' = halfway
    BY DEF Begin, hist
  <2>2. Its' /\ CreatedIsUp'
    BY <1>3, <1>4, <2>1 DEF IInv, Its, CreatedIsUp
  <2>3. TempRemoved'
    BY <1>3, <1>4, <2>1 DEF IInv, TypeOK, TempRemoved
  <2>4. RunningIsWritten'
    <3>1. (\A d \in Creators : pc'[d] \notin Written) => \A d \in Creators : pc[d] \notin Written
      BY <1>3, <1>4 DEF Written
    <3> QED
      BY <2>1, <3>1 DEF IInv, RunningIsWritten, Valid
  <2> QED
    BY <2>2, <2>3, <2>4
<1> QED
  BY <1>2, <1>5, <1>6 DEF IInv

\* What every step after Begin keeps: the others' places, and Sole.
LEMMA Later ==
  ASSUME IInv, NEW c \in Creators, NEW l \in PCs, pc[c] # "idle", Goto(c, l),
         UNCHANGED <<locals, alone>>
  PROVE  /\ \A d \in Creators \ {c} : pc'[d] = pc[d]
         /\ pc'[c] = l /\ pc' \in [Creators -> PCs]
         /\ \A d \in Creators : name'[d] = name[d] /\ cfg'[d] = cfg[d] /\ alone'[d] = alone[d]
         /\ Sole'
<1>1. /\ \A d \in Creators \ {c} : pc'[d] = pc[d]
      /\ pc'[c] = l /\ pc' \in [Creators -> PCs]
  BY DEF Goto, IInv, TypeOK
<1>2. \A d \in Creators : name'[d] = name[d] /\ cfg'[d] = cfg[d] /\ alone'[d] = alone[d]
  BY DEF locals
<1>3. Sole'
  BY <1>1, <1>2 DEF IInv, Sole
<1> QED
  BY <1>1, <1>2, <1>3

\* A step that writes no file and changes no bridge.
LEMMA QuietStep ==
  ASSUME IInv, NEW c \in Creators, NEW l \in PCs, pc[c] # "idle", Goto(c, l),
         UNCHANGED <<file, bridge, locals, alone>>,
         temp' \subseteq temp \cup {c}, c \in temp' => l \in {"temp", "copying"},
         l = "apply" => pc[c] = "chmod", l \notin {"chmod", "created"},
         halfway' = (halfway \/ (pc[c] \in Written /\ l \notin Written)),
         faults' \in 0 .. MaxFaults
  PROVE  IInv'
<1>1. /\ \A d \in Creators \ {c} : pc'[d] = pc[d]
      /\ pc'[c] = l /\ pc' \in [Creators -> PCs]
      /\ \A d \in Creators : name'[d] = name[d] /\ cfg'[d] = cfg[d] /\ alone'[d] = alone[d]
      /\ Sole'
  BY Later
<1>2. TypeOK'
  BY <1>1 DEF IInv, TypeOK, locals
<1>3. Its' /\ CreatedIsUp'
  BY <1>1 DEF IInv, Its, CreatedIsUp
<1>4. TempRemoved'
  BY <1>1 DEF IInv, TypeOK, TempRemoved
<1>5. RunningIsWritten'
  <2>1. ~halfway' /\ (\A d \in Creators : pc'[d] \notin Written)
          => ~halfway /\ \A d \in Creators : pc[d] \notin Written
    BY <1>1
  <2> QED
    BY <2>1 DEF IInv, RunningIsWritten, Valid
<1> QED
  BY <1>1, <1>2, <1>3, <1>4, <1>5 DEF IInv

\* A mv that is done or cut short.
LEMMA MvIInv == ASSUME IInv, NEW c \in Creators, Mv(c) PROVE IInv'
<1>1. PICK l \in {"chmod", "copying"}, f \in {cfg[c], Torn} :
        /\ pc[c] \in {"temp", "copying"} /\ Goto(c, l)
        /\ file' = [file EXCEPT ![name[c]] = f]
        /\ l = "chmod" => f = cfg[c] /\ temp' = temp \ {c}
        /\ l = "copying" => temp' = temp
  BY DEF Mv
<1>2. UNCHANGED <<bridge, locals, hist, faults>>
  BY DEF Mv
<1>3. /\ \A d \in Creators \ {c} : pc'[d] = pc[d]
      /\ pc'[c] = l /\ pc' \in [Creators -> PCs]
      /\ \A d \in Creators : name'[d] = name[d] /\ cfg'[d] = cfg[d] /\ alone'[d] = alone[d]
      /\ Sole'
  <2>1. l \in PCs /\ UNCHANGED <<locals, alone>> /\ pc[c] # "idle"
    BY <1>1, <1>2 DEF PCs, hist
  <2> QED
    BY <1>1, <2>1, Later
<1>4. TypeOK'
  <2>1. file' \in [Names -> Configs \cup {None, Torn}]
    BY <1>1 DEF IInv, TypeOK
  <2>2. temp' \subseteq Creators
    BY <1>1 DEF IInv, TypeOK
  <2> QED
    BY <1>2, <1>3, <2>1, <2>2 DEF IInv, TypeOK, locals, hist
<1>5. Its'
  <2> SUFFICES ASSUME NEW d \in Creators, alone[d], pc'[d] \in {"chmod", "apply", "created"}
               PROVE  file'[name[d]] = cfg[d]
    BY <1>3 DEF Its
  <2>1. CASE d = c
    BY <1>1, <1>3, <2>1 DEF IInv, TypeOK
  <2>2. CASE d # c
    <3>1. name[d] # name[c]
      BY <1>1, <1>3, <2>2 DEF IInv, Sole
    <3> QED
      BY <1>1, <1>3, <2>2, <3>1 DEF IInv, TypeOK, Its
  <2> QED
    BY <2>1, <2>2
<1>6. CreatedIsUp'
  BY <1>1, <1>2, <1>3 DEF IInv, CreatedIsUp
<1>7. TempRemoved'
  BY <1>1, <1>3 DEF IInv, TypeOK, TempRemoved
<1>8. RunningIsWritten'
  BY <1>3 DEF RunningIsWritten, Written
<1> QED
  BY <1>3, <1>4, <1>5, <1>6, <1>7, <1>8 DEF IInv

\* netplan applies the files: the end of an Apply, or of one that failed or
\* whose process died when they were applied already.
LEMMA Applied ==
  ASSUME IInv, NEW c \in Creators, NEW l \in {"created", "failed", "idle"},
         pc[c] = "apply", Goto(c, l), Valid(file), bridge' = file,
         UNCHANGED <<file, locals, alone>>, temp' \subseteq temp, c \notin temp',
         halfway' \in BOOLEAN, faults' \in 0 .. MaxFaults
  PROVE  IInv'
<1>1. /\ \A d \in Creators \ {c} : pc'[d] = pc[d]
      /\ pc'[c] = l /\ pc' \in [Creators -> PCs]
      /\ \A d \in Creators : name'[d] = name[d] /\ cfg'[d] = cfg[d] /\ alone'[d] = alone[d]
      /\ Sole'
  <2>1. l \in PCs
    BY DEF PCs
  <2> QED
    BY <2>1, Later
<1>2. TypeOK'
  <2>1. file \in [Names -> Configs \cup {None}]
    BY DEF IInv, TypeOK, Valid
  <2> QED
    BY <1>1, <2>1 DEF IInv, TypeOK, locals
<1>3. Its'
  BY <1>1 DEF IInv, Its
<1>4. CreatedIsUp'
  BY <1>1 DEF IInv, Its, CreatedIsUp
<1>5. TempRemoved'
  BY <1>1 DEF IInv, TypeOK, TempRemoved
<1>6. RunningIsWritten'
  BY DEF RunningIsWritten, Valid
<1> QED
  BY <1>1, <1>2, <1>3, <1>4, <1>5, <1>6 DEF IInv

LEMMA RebootIInv == ASSUME IInv, Reboot PROVE IInv'
<1>1. /\ \A c \in Creators : pc'[c] = "idle"
      /\ pc' \in [Creators -> PCs] /\ temp' = {} /\ file' = file
      /\ halfway' = ~Valid(file) /\ UNCHANGED <<name, cfg, alone>>
  BY DEF Reboot, PCs, locals
<1>2. bridge' \in [Names -> Configs \cup {None}]
  <2>1. CASE Valid(file)
    BY <2>1 DEF Reboot, IInv, TypeOK, Valid
  <2>2. CASE ~Valid(file)
    BY <2>2 DEF Reboot
  <2> QED
    BY <2>1, <2>2
<1>3. faults' \in 0 .. MaxFaults
  BY BridgeAssumption DEF Reboot, Fault, IInv, TypeOK
<1>4. TypeOK'
  BY <1>1, <1>2, <1>3 DEF IInv, TypeOK
<1>5. Sole' /\ Its' /\ CreatedIsUp' /\ TempRemoved'
  BY <1>1 DEF Sole, Its, CreatedIsUp, TempRemoved
<1>6. RunningIsWritten'
  BY <1>1 DEF Reboot, RunningIsWritten, Valid
<1> QED
  BY <1>4, <1>5, <1>6 DEF IInv

-----------------------------------------------------------------------------

LEMMA CreateIInv == ASSUME IInv, NEW c \in Creators, CreateBridge(c) PROVE IInv'
<1> USE DEF PCs, Written, locals, hist
<1>0. halfway \in BOOLEAN /\ faults \in 0 .. MaxFaults /\ temp \subseteq Creators
  BY DEF IInv, TypeOK
<1>1. CASE Begin(c)
  BY <1>1, BeginIInv
<1>2. CASE WriteTemp(c)
  <2>1. faults' \in 0 .. MaxFaults
    BY <1>0, <1>2, BridgeAssumption DEF WriteTemp, Fault
  <2>2. CASE Goto(c, "temp") /\ temp' = temp \cup {c}
    BY <1>0, <1>2, <2>1, <2>2, QuietStep DEF WriteTemp
  <2>3. CASE Goto(c, "failed") /\ temp' = temp
    <3>1. c \notin temp
      BY <1>2 DEF WriteTemp, IInv, TempRemoved
    <3> QED
      BY <1>0, <1>2, <2>1, <2>3, <3>1, QuietStep DEF WriteTemp
  <2> QED
    BY <1>2, <2>2, <2>3 DEF WriteTemp
<1>3. CASE SudoRefuses(c)
  BY <1>0, <1>3, QuietStep DEF SudoRefuses
<1>4. CASE Mv(c)
  BY <1>4, MvIInv
<1>5. CASE Chmod(c)
  <2>1. c \notin temp
    BY <1>5 DEF Chmod, IInv, TempRemoved
  <2> QED
    BY <1>0, <1>5, <2>1, QuietStep DEF Chmod
<1>6. CASE Apply(c)
  <2>1. c \notin temp
    BY <1>6 DEF Apply, IInv, TempRemoved
  <2>2. CASE Valid(file) /\ Goto(c, "created") /\ bridge' = file /\ halfway' = FALSE
    BY <1>0, <1>6, <2>1, <2>2, Applied DEF Apply
  <2>3. CASE Goto(c, "failed") /\ halfway' = TRUE /\ UNCHANGED bridge
    BY <1>0, <1>6, <2>1, <2>3, QuietStep DEF Apply
  <2> QED
    BY <1>6, <2>2, <2>3 DEF Apply
<1>7. CASE Ends(c)
  <2>1. c \notin temp
    BY <1>7 DEF Ends, IInv, TempRemoved
  <2> QED
    BY <1>0, <1>7, <2>1, QuietStep DEF Ends
<1> QED
  BY <1>1, <1>2, <1>3, <1>4, <1>5, <1>6, <1>7 DEF CreateBridge

LEMMA FaultIInv == ASSUME IInv, NEW c \in Creators, Fails(c) \/ Dies(c) PROVE IInv'
<1> USE DEF PCs, Written
<1>1. PICK l \in {"failed", "idle"} : Goto(c, l)
  BY DEF Fails, Dies
<1>2. /\ pc[c] # "idle" /\ temp' = temp \ {c} /\ UNCHANGED <<file, locals, alone>>
      /\ halfway' = (halfway \/ pc[c] \in Written)
  BY DEF Fails, Dies
<1>3. faults' \in 0 .. MaxFaults /\ halfway' \in BOOLEAN
  BY <1>2, BridgeAssumption DEF Fails, Dies, Fault, IInv, TypeOK
<1>4. CASE UNCHANGED bridge
  BY <1>1, <1>2, <1>3, <1>4, QuietStep
<1>5. CASE pc[c] = "apply" /\ Valid(file) /\ bridge' = file
  BY <1>1, <1>2, <1>3, <1>5, Applied
<1> QED
  BY <1>4, <1>5 DEF Fails, Dies

LEMMA NextIInv == IInv /\ [Next]_vars => IInv'
<1> SUFFICES ASSUME IInv, [Next]_vars PROVE IInv'
  OBVIOUS
<1>1. CASE UNCHANGED vars
  BY <1>1 DEF IInv, TypeOK, Sole, Its, CreatedIsUp, TempRemoved, RunningIsWritten, Valid,
              vars, locals, hist
<1>2. CASE Next
  BY <1>2, CreateIInv, FaultIInv, RebootIInv DEF Next
<1> QED
  BY <1>1, <1>2

\* Every type is right, in CreateBridge and in what netplan and the creators keep.
THEOREM SpecTypeOK == Spec => []TypeOK
<1>1. Spec => []IInv
  BY InitIInv, NextIInv, PTL DEF Spec
<1> QED
  BY <1>1, PTL DEF IInv

\* bridge.go:198-202: a bridge that is said to be created runs as it was asked
\* for, however many others are created, fail or die around it.
THEOREM SpecCreatedIsUp == Spec => []CreatedIsUp
<1>1. Spec => []IInv
  BY InitIInv, NextIInv, PTL DEF Spec
<1> QED
  BY <1>1, PTL DEF IInv

\* bridge.go:223: the temporary file is gone whatever fails after it.
THEOREM SpecTempRemoved == Spec => []TempRemoved
<1>1. Spec => []IInv
  BY InitIInv, NextIInv, PTL DEF Spec
<1> QED
  BY <1>1, PTL DEF IInv

\* bridge.go:193-202: unless a create stopped halfway, what runs is what is written.
THEOREM SpecRunningIsWritten == Spec => []RunningIsWritten
<1>1. Spec => []IInv
  BY InitIInv, NextIInv, PTL DEF Spec
<1> QED
  BY <1>1, PTL DEF IInv
=============================================================================
