--------------------------- MODULE ConsoleProofs ---------------------------
(***************************************************************************)
(* Theorems about Console, for any bounds on what is sent and any sizes of *)
(* the buffers: nothing is left open, and either direction implements      *)
(* Relay, for any fairness or none.                                        *)
(*                                                                         *)
(* Stages says what is open where the handler is.  Each direction is one   *)
(* pipe of three buffers whose units follow those received, InFlow and     *)
(* OutFlow; a pump that ends drops its unit, and passes none on after it.  *)
(***************************************************************************)
EXTENDS Console, SequenceTheorems, TLAPS

Stages ==
  /\ hand \in HandPCs
  /\ hand \in {"lookup", "start", "upgrade"} => up = "off" /\ down = "off" /\ conn = "none"
  /\ hand \in {"lookup", "start"} => ssh = "none" /\ pty = "none"
  /\ hand \in {"kill", "wait", "close_conn"} => pty = "closed"
  /\ hand = "close_conn" => ssh = "reaped"
  /\ NothingLeaks

\* Units that follow one another from n + 1 on.
Follow(s, n) == \A i \in 1 .. Len(s) : s[i] = n + i

Ahead == Len(clientGot) + Len(wsOut)

OutFlow ==
  /\ clientGot \in Seq(Nat) /\ wsOut \in Seq(Nat) /\ upBuf \in Seq(Nat) /\ ptyOut \in Seq(Nat)
  /\ outSent \in Nat
  /\ Follow(clientGot, 0) /\ Follow(wsOut, Len(clientGot)) /\ Ahead <= outSent
  /\ up # "end" => /\ Len(upBuf) = IF up = "write" THEN 1 ELSE 0
                   /\ Follow(upBuf, Ahead)
                   /\ Follow(ptyOut, Ahead + Len(upBuf))
                   /\ Ahead + Len(upBuf) + Len(ptyOut) = outSent

Passed == Len(sshGot) + Len(ptyIn)

Frames == [mt : {"text", "binary"}, data : Data, unit : Nat]

\* The frames that are written to the PTY carry n + 1 to m, in order.
Holds(s, n, m) ==
  /\ \A i \in 1 .. Len(s) : ~IsResize(s[i]) => s[i].unit \in n + 1 .. m
  /\ \A k \in n + 1 .. m : \E i \in 1 .. Len(s) : ~IsResize(s[i]) /\ s[i].unit = k
  /\ \A i, j \in 1 .. Len(s) :
       i < j /\ ~IsResize(s[i]) /\ ~IsResize(s[j]) => s[i].unit < s[j].unit

InFlow ==
  /\ sshGot \in Seq(Nat) /\ ptyIn \in Seq(Nat) /\ downBuf \in Seq(Nat) /\ wsIn \in Seq(Frames)
  /\ inSent \in Nat
  /\ Follow(sshGot, 0) /\ Follow(ptyIn, Len(sshGot)) /\ Passed <= inSent
  /\ down # "end" => /\ Len(downBuf) = IF down = "write" THEN 1 ELSE 0
                     /\ Follow(downBuf, Passed)
                     /\ Passed + Len(downBuf) <= inSent
                     /\ Holds(wsIn, Passed + Len(downBuf), inSent)

-----------------------------------------------------------------------------
(* Sequences                                                               *)

LEMMA FollowAppend ==
  ASSUME NEW s \in Seq(Nat), NEW n \in Nat, Follow(s, n)
  PROVE  /\ Append(s, n + Len(s) + 1) \in Seq(Nat)
         /\ Len(Append(s, n + Len(s) + 1)) = Len(s) + 1
         /\ Follow(Append(s, n + Len(s) + 1), n)
BY DEF Follow

LEMMA FollowTail ==
  ASSUME NEW s \in Seq(Nat), NEW n \in Nat, Follow(s, n), s # <<>>
  PROVE  /\ Head(s) = n + 1 /\ Tail(s) \in Seq(Nat) /\ Len(s) > 0
         /\ Len(Tail(s)) = Len(s) - 1 /\ Follow(Tail(s), n + 1)
BY DEF Follow

LEMMA FollowOne ==
  ASSUME NEW s \in Seq(Nat), NEW t \in Seq(Nat), NEW n \in Nat,
         Follow(s, n), Len(t) = 1, Follow(t, n + Len(s))
  PROVE  s \o t \in Seq(Nat) /\ Len(s \o t) = Len(s) + 1 /\ Follow(s \o t, n)
<1>1. s \o t \in Seq(Nat) /\ Len(s \o t) = Len(s) + Len(t)
  BY ConcatProperties
<1>2. \A i \in 1 .. Len(s) + Len(t) : (s \o t)[i] = IF i <= Len(s) THEN s[i] ELSE t[i - Len(s)]
  BY ConcatProperties
<1>3. ASSUME NEW i \in 1 .. Len(s) + 1 PROVE (s \o t)[i] = n + i
  <2>0. Len(s) \in Nat /\ i \in Nat /\ i \in 1 .. Len(s) + Len(t)
    OBVIOUS
  <2>1. CASE i <= Len(s)
    BY <1>2, <2>0, <2>1 DEF Follow
  <2>2. CASE ~(i <= Len(s))
    <3>1. i - Len(s) = 1 /\ 1 \in 1 .. Len(t)
      BY <2>0, <2>2
    <3>2. t[1] = n + Len(s) + 1
      BY <3>1 DEF Follow
    <3>3. (s \o t)[i] = t[i - Len(s)]
      BY <1>2, <2>0, <2>2
    <3>4. (s \o t)[i] = t[1] /\ i = Len(s) + 1
      BY <2>0, <3>1, <3>3
    <3> QED
      BY <2>0, <3>2, <3>4
  <2> QED
    BY <2>1, <2>2
<1> QED
  BY <1>1, <1>3 DEF Follow

LEMMA HoldsAppend ==
  ASSUME NEW s \in Seq(Frames), NEW n \in Nat, NEW m \in Nat, n <= m, Holds(s, n, m),
         NEW f \in Frames
  PROVE  /\ ~IsResize(f) /\ f.unit = m + 1 => Holds(Append(s, f), n, m + 1)
         /\ IsResize(f) => Holds(Append(s, f), n, m)
<1> DEFINE t == Append(s, f)
<1>1. /\ Len(t) = Len(s) + 1 /\ t[Len(s) + 1] = f
      /\ \A i \in 1 .. Len(s) : t[i] = s[i]
  OBVIOUS
<1>2. Len(s) \in Nat /\ \A i \in 1 .. Len(s) : i \in 1 .. Len(t)
  BY <1>1
<1> HIDE DEF t
<1>3. ASSUME ~IsResize(f), f.unit = m + 1 PROVE Holds(t, n, m + 1)
  <2>1. \A i \in 1 .. Len(t) : ~IsResize(t[i]) => t[i].unit \in n + 1 .. m + 1
    BY <1>1, <1>2, <1>3 DEF Holds
  <2>2. ASSUME NEW k \in n + 1 .. m + 1
        PROVE  \E i \in 1 .. Len(t) : ~IsResize(t[i]) /\ t[i].unit = k
    <3>1. CASE k = m + 1
      BY <1>1, <1>2, <1>3, <3>1
    <3>2. CASE k \in n + 1 .. m
      BY <1>1, <1>2, <3>2 DEF Holds
    <3> QED
      BY <3>1, <3>2
  <2>3. ASSUME NEW i \in 1 .. Len(t), NEW j \in 1 .. Len(t), i < j,
               ~IsResize(t[i]), ~IsResize(t[j])
        PROVE  t[i].unit < t[j].unit
    <3>1. i \in 1 .. Len(s) /\ t[i] = s[i] /\ s[i].unit \in n + 1 .. m
      BY <1>1, <1>2, <2>3 DEF Holds
    <3>2. CASE j = Len(s) + 1
      BY <1>1, <1>3, <3>1, <3>2
    <3>3. CASE j \in 1 .. Len(s)
      BY <1>1, <2>3, <3>1, <3>3 DEF Holds
    <3> QED
      BY <1>1, <1>2, <3>2, <3>3
  <2> QED
    BY <2>1, <2>2, <2>3 DEF Holds
<1>4. ASSUME IsResize(f) PROVE Holds(t, n, m)
  <2>1. \A i \in 1 .. Len(t) : ~IsResize(t[i]) => i \in 1 .. Len(s) /\ t[i] = s[i]
    BY <1>1, <1>2, <1>4
  <2>2. \A i \in 1 .. Len(t) : ~IsResize(t[i]) => t[i].unit \in n + 1 .. m
    BY <2>1 DEF Holds
  <2>3. \A k \in n + 1 .. m : \E i \in 1 .. Len(t) : ~IsResize(t[i]) /\ t[i].unit = k
    BY <1>1, <1>2 DEF Holds
  <2>4. \A i, j \in 1 .. Len(t) :
          i < j /\ ~IsResize(t[i]) /\ ~IsResize(t[j]) => t[i].unit < t[j].unit
    BY <2>1 DEF Holds
  <2> QED
    BY <2>2, <2>3, <2>4 DEF Holds
<1> QED
  BY <1>3, <1>4 DEF t

LEMMA HoldsTail ==
  ASSUME NEW s \in Seq(Frames), NEW n \in Nat, NEW m \in Nat, Holds(s, n, m), s # <<>>
  PROVE  /\ Tail(s) \in Seq(Frames)
         /\ IsResize(Head(s)) => Holds(Tail(s), n, m)
         /\ ~IsResize(Head(s)) => /\ Head(s).unit = n + 1 /\ n + 1 <= m
                                  /\ Holds(Tail(s), n + 1, m)
<1> DEFINE t == Tail(s)
<1>1. /\ t \in Seq(Frames) /\ Len(s) \in Nat \ {0} /\ Len(t) = Len(s) - 1 /\ Head(s) = s[1]
      /\ \A i \in 1 .. Len(t) : t[i] = s[i + 1]
  OBVIOUS
<1>2. \A i \in 2 .. Len(s) : i - 1 \in 1 .. Len(t) /\ t[i - 1] = s[i]
  BY <1>1
<1>order. ASSUME NEW j \in 1 .. Len(t), NEW k \in 1 .. Len(t), j < k,
                 ~IsResize(t[j]), ~IsResize(t[k])
          PROVE  t[j].unit < t[k].unit
  <2>1. /\ j + 1 \in 1 .. Len(s) /\ k + 1 \in 1 .. Len(s) /\ j + 1 < k + 1
    BY <1>order, <1>1
  <2>2. t[j] = s[j + 1] /\ t[k] = s[k + 1]
    BY <1>1
  <2> QED
    BY <1>order, <2>1, <2>2 DEF Holds
<1> HIDE DEF t
<1>3. ASSUME IsResize(s[1]) PROVE Holds(t, n, m)
  <2>1. ASSUME NEW k \in n + 1 .. m
        PROVE  \E i \in 1 .. Len(t) : ~IsResize(t[i]) /\ t[i].unit = k
    <3>1. PICK i \in 1 .. Len(s) : ~IsResize(s[i]) /\ s[i].unit = k
      BY DEF Holds
    <3>2. i \in 2 .. Len(s)
      BY <1>3, <3>1
    <3> QED
      BY <1>2, <3>1, <3>2
  <2>2. ASSUME NEW j \in 1 .. Len(t), ~IsResize(t[j]) PROVE t[j].unit \in n + 1 .. m
    <3>1. j + 1 \in 1 .. Len(s) /\ t[j] = s[j + 1]
      BY <1>1
    <3> QED
      BY <2>2, <3>1 DEF Holds
  <2> QED
    BY <1>order, <2>1, <2>2 DEF Holds
<1>4. ASSUME ~IsResize(s[1]) PROVE s[1].unit = n + 1 /\ n + 1 <= m /\ Holds(t, n + 1, m)
  <2>1. s[1].unit \in n + 1 .. m
    BY <1>1, <1>4 DEF Holds
  <2>2. PICK i \in 1 .. Len(s) : ~IsResize(s[i]) /\ s[i].unit = n + 1
    BY <2>1 DEF Holds
  <2>3. s[1].unit = n + 1
    <3>1. CASE i = 1
      BY <2>2, <3>1
    <3>2. CASE i > 1
      <4>1. 1 < i /\ 1 \in 1 .. Len(s)
        BY <1>1, <3>2
      <4>2. s[1].unit < s[i].unit
        BY <1>4, <2>2, <4>1 DEF Holds
      <4> QED
        BY <2>1, <2>2, <4>2
    <3> QED
      BY <3>1, <3>2
  <2>4. ASSUME NEW j \in 1 .. Len(t), ~IsResize(t[j]) PROVE t[j].unit \in n + 2 .. m
    <3>1. /\ j + 1 \in 1 .. Len(s) /\ 1 \in 1 .. Len(s) /\ 1 < j + 1
      <4>1. j \in Nat \ {0} /\ j <= Len(s) - 1 /\ Len(s) \in Nat
        BY <1>1
      <4> QED
        BY <4>1
    <3>2. t[j] = s[j + 1]
      BY <1>1
    <3>3. s[j + 1].unit \in n + 1 .. m
      BY <2>4, <3>1, <3>2 DEF Holds
    <3>4. s[1].unit < s[j + 1].unit
      BY <1>4, <2>4, <3>1, <3>2 DEF Holds
    <3> QED
      BY <2>3, <3>2, <3>3, <3>4
  <2>5. ASSUME NEW k \in n + 2 .. m
        PROVE  \E j \in 1 .. Len(t) : ~IsResize(t[j]) /\ t[j].unit = k
    <3>1. PICK j \in 1 .. Len(s) : ~IsResize(s[j]) /\ s[j].unit = k
      BY DEF Holds
    <3>2. j \in 2 .. Len(s)
      BY <2>3, <3>1
    <3> QED
      BY <1>2, <3>1, <3>2
  <2> QED
    BY <1>order, <2>1, <2>3, <2>4, <2>5 DEF Holds
<1> QED
  BY <1>1, <1>3, <1>4 DEF t

-----------------------------------------------------------------------------
(* The handler                                                             *)

LEMMA InitInv == Init => Stages /\ OutFlow /\ InFlow
<1> SUFFICES ASSUME Init PROVE Stages /\ OutFlow /\ InFlow
  OBVIOUS
<1>1. Stages
  BY DEF Init, Stages, HandPCs, NothingLeaks
<1>2. OutFlow
  BY DEF Init, OutFlow, Follow, Ahead
<1>3. InFlow
  BY DEF Init, InFlow, Follow, Passed, Holds
<1> QED
  BY <1>1, <1>2, <1>3

LEMMA StagesStep == Stages /\ [Next]_vars => Stages'
<1> SUFFICES ASSUME Stages, [Next]_vars PROVE Stages'
  OBVIOUS
<1> USE DEF Stages, HandPCs, NothingLeaks
<1>1. CASE Handler
  <2> USE DEF Hand
  <2>1. CASE Refuse \/ Lookup \/ StartFails \/ UpgradeFails \/ PipeEnds
    BY <2>1 DEF Refuse, Lookup, StartFails, UpgradeFails, PipeEnds
  <2>2. CASE StartSSH \/ Upgrade
    BY <2>2 DEF StartSSH, Upgrade
  <2>3. CASE ClosePty \/ Kill \/ Wait \/ CloseConn
    BY <2>3 DEF ClosePty, Kill, Wait, CloseConn
  <2> QED
    BY <1>1, <2>1, <2>2, <2>3 DEF Handler
<1>2. CASE Up \/ Down
  BY <1>2 DEF Up, UpRead, UpWrite, Down, DownRead, DownWrite, Stop
<1>3. CASE ClientTypes \/ ClientResizes \/ ClientReads \/ ClientCloses
  BY <1>3 DEF ClientTypes, ClientResizes, Frame, ClientReads, ClientCloses, procs
<1>4. CASE SSHReads \/ SSHWrites \/ SSHExits
  BY <1>4 DEF SSHReads, SSHWrites, SSHExits, procs
<1>5. CASE UNCHANGED vars
  BY <1>5 DEF vars, procs
<1> QED
  BY <1>1, <1>2, <1>3, <1>4, <1>5 DEF Next

-----------------------------------------------------------------------------
(* From ssh to the client                                                  *)

\* What Relay allows of a step, and what is kept by it.
OutStep == OutFlow' /\ [Text!Next]_<<outSent, clientGot>>

LEMMA OutFrame ==
  ASSUME OutFlow, UNCHANGED output, up' = up \/ (up = "off" /\ up' = "read")
  PROVE  OutStep
BY DEF OutStep, OutFlow, Ahead, Follow, output

LEMMA UpReadStep == ASSUME OutFlow, UpRead PROVE OutStep
<1>1. UNCHANGED <<wsOut, outSent, clientGot>> /\ Len(upBuf) = 0
  BY DEF UpRead, OutFlow
<1>2. CASE up' = "end" /\ UNCHANGED <<upBuf, ptyOut>>
  BY <1>1, <1>2 DEF OutStep, OutFlow, Ahead, Follow
<1>3. CASE /\ ptyOut # <<>> /\ up' = "write"
           /\ upBuf' = <<Head(ptyOut)>> /\ ptyOut' = Tail(ptyOut)
  <2>1. Ahead \in Nat /\ Follow(ptyOut, Ahead) /\ Ahead + Len(ptyOut) = outSent /\ ptyOut \in Seq(Nat)
    BY <1>1 DEF UpRead, OutFlow, Ahead
  <2>2. /\ Head(ptyOut) = Ahead + 1 /\ Tail(ptyOut) \in Seq(Nat) /\ Len(ptyOut) > 0
        /\ Len(Tail(ptyOut)) = Len(ptyOut) - 1 /\ Follow(Tail(ptyOut), Ahead + 1)
    BY <1>3, <2>1, FollowTail
  <2>3. upBuf' \in Seq(Nat) /\ Len(upBuf') = 1 /\ Follow(upBuf', Ahead)
    BY <1>3, <2>1, <2>2 DEF Follow
  <2>4. Ahead' = Ahead
    BY <1>1 DEF Ahead
  <2>5. Follow(upBuf', Ahead') /\ Follow(ptyOut', Ahead' + Len(upBuf'))
    BY <1>3, <2>2, <2>3, <2>4
  <2>6. Ahead' + Len(upBuf') + Len(ptyOut') = outSent'
    BY <1>1, <1>3, <2>1, <2>2, <2>3, <2>4
  <2>7. OutFlow'
    BY <1>1, <1>3, <2>1, <2>2, <2>3, <2>4, <2>5, <2>6 DEF OutFlow
  <2> QED
    BY <1>1, <2>7 DEF OutStep
<1> QED
  BY <1>2, <1>3 DEF UpRead

LEMMA UpWriteStep == ASSUME OutFlow, UpWrite PROVE OutStep
<1>1. UNCHANGED <<ptyOut, outSent, clientGot>> /\ Len(upBuf) = 1 /\ upBuf' = <<>>
  BY DEF UpWrite, OutFlow
<1>2. CASE up' = "end" /\ UNCHANGED wsOut
  BY <1>1, <1>2 DEF OutStep, OutFlow, Ahead, Follow
<1>3. CASE up' = "read" /\ wsOut' = wsOut \o upBuf
  <2>1. /\ Ahead \in Nat /\ Len(clientGot) \in Nat /\ Ahead = Len(clientGot) + Len(wsOut)
        /\ Follow(wsOut, Len(clientGot)) /\ Follow(upBuf, Ahead) /\ Follow(ptyOut, Ahead + 1)
        /\ Ahead + 1 + Len(ptyOut) = outSent /\ ptyOut \in Seq(Nat)
        /\ wsOut \in Seq(Nat) /\ upBuf \in Seq(Nat)
    BY <1>1 DEF UpWrite, OutFlow, Ahead
  <2>2. /\ wsOut' \in Seq(Nat) /\ Len(wsOut') = Len(wsOut) + 1 /\ Follow(wsOut', Len(clientGot))
    BY <1>1, <1>3, <2>1, FollowOne
  <2>3. Ahead' = Ahead + 1
    BY <1>1, <2>1, <2>2 DEF Ahead
  <2>4. OutFlow'
    BY <1>1, <1>3, <2>1, <2>2, <2>3 DEF OutFlow, Follow
  <2> QED
    BY <1>1, <2>4 DEF OutStep
<1> QED
  BY <1>2, <1>3 DEF UpWrite

LEMMA ClientReadsStep == ASSUME OutFlow, ClientReads PROVE OutStep
<1>1. UNCHANGED <<up, ptyOut, upBuf, outSent>>
  BY DEF ClientReads, procs
<1>2. /\ clientGot \in Seq(Nat) /\ wsOut \in Seq(Nat) /\ wsOut # <<>> /\ Len(clientGot) \in Nat
      /\ Follow(clientGot, 0) /\ Follow(wsOut, Len(clientGot))
      /\ Len(clientGot) + Len(wsOut) <= outSent /\ outSent \in Nat
  BY DEF ClientReads, OutFlow, Ahead
<1>3. /\ Head(wsOut) = Len(clientGot) + 1 /\ Tail(wsOut) \in Seq(Nat) /\ Len(wsOut) > 0
      /\ Len(Tail(wsOut)) = Len(wsOut) - 1 /\ Follow(Tail(wsOut), Len(clientGot) + 1)
  BY <1>2, FollowTail
<1>4. clientGot' = Append(clientGot, Len(clientGot) + 1) /\ wsOut' = Tail(wsOut)
  BY <1>3 DEF ClientReads
<1>5. /\ clientGot' \in Seq(Nat) /\ Len(clientGot') = Len(clientGot) + 1 /\ Follow(clientGot', 0)
  <2>1. Append(clientGot, 0 + Len(clientGot) + 1) = clientGot'
    BY <1>2, <1>4
  <2> QED
    BY <1>2, <2>1, FollowAppend
<1>6. Ahead' = Ahead
  BY <1>2, <1>3, <1>4, <1>5 DEF Ahead
<1>7. OutFlow'
  BY <1>1, <1>3, <1>4, <1>5, <1>6 DEF OutFlow, Follow
<1>8. Text!Receive
  BY <1>1, <1>2, <1>3, <1>4 DEF Text!Receive
<1> QED
  BY <1>7, <1>8 DEF OutStep, Text!Next

LEMMA SSHWritesStep == ASSUME OutFlow, SSHWrites PROVE OutStep
<1>1. UNCHANGED <<up, upBuf, wsOut, clientGot>> /\ outSent' = outSent + 1
      /\ ptyOut' = Append(ptyOut, outSent + 1)
  BY DEF SSHWrites, procs
<1>2. Ahead' = Ahead /\ Ahead \in Nat /\ outSent \in Nat /\ Ahead <= outSent /\ ptyOut \in Seq(Nat)
  BY <1>1 DEF Ahead, OutFlow
<1>3. CASE up = "end"
  <2>1. ptyOut' \in Seq(Nat)
    BY <1>1, <1>2
  <2> QED
    BY <1>1, <1>2, <1>3, <2>1 DEF OutStep, OutFlow, Follow, Text!Next, Text!Send
<1>4. CASE up # "end"
  <2>1. /\ Len(upBuf) \in Nat /\ Follow(ptyOut, Ahead + Len(upBuf)) /\ Len(ptyOut) \in Nat
        /\ outSent = Ahead + Len(upBuf) + Len(ptyOut) /\ Ahead + Len(upBuf) \in Nat
    BY <1>2, <1>4 DEF OutFlow
  <2>2. /\ ptyOut' \in Seq(Nat) /\ Len(ptyOut') = Len(ptyOut) + 1
        /\ Follow(ptyOut', Ahead + Len(upBuf))
    BY <1>1, <1>2, <2>1, FollowAppend
  <2>3. OutFlow'
    BY <1>1, <1>2, <1>4, <2>1, <2>2 DEF OutFlow, Follow
  <2> QED
    BY <1>1, <2>3 DEF OutStep, Text!Next, Text!Send
<1> QED
  BY <1>3, <1>4

LEMMA OutNext == Stages /\ OutFlow /\ [Next]_vars => OutStep
<1> SUFFICES ASSUME Stages, OutFlow, [Next]_vars PROVE OutStep
  OBVIOUS
<1>1. CASE UpRead
  BY <1>1, UpReadStep
<1>2. CASE UpWrite
  BY <1>2, UpWriteStep
<1>3. CASE ClientReads
  BY <1>3, ClientReadsStep
<1>4. CASE SSHWrites
  BY <1>4, SSHWritesStep
<1>5. CASE Handler
  <2>1. UNCHANGED output /\ (up' = up \/ (up = "off" /\ up' = "read"))
    BY <1>5 DEF Handler, Refuse, Lookup, StartFails, StartSSH, UpgradeFails, Upgrade, PipeEnds,
                ClosePty, Kill, Wait, CloseConn, Hand, Stages
  <2> QED
    BY <2>1, OutFrame
<1>6. CASE Down \/ ClientTypes \/ ClientResizes \/ ClientCloses \/ SSHReads \/ SSHExits
            \/ UNCHANGED vars
  <2>1. UNCHANGED output /\ up' = up
    BY <1>6 DEF Down, DownRead, DownWrite, ClientTypes, ClientResizes, Frame, ClientCloses,
                SSHReads, SSHExits, procs, vars
  <2> QED
    BY <2>1, OutFrame
<1> QED
  BY <1>1, <1>2, <1>3, <1>4, <1>5, <1>6 DEF Next, Up

-----------------------------------------------------------------------------
(* From the client to ssh                                                  *)

\* What Relay allows of a step, and what is kept by it.
InStep == InFlow' /\ [Keys!Next]_<<inSent, sshGot>>

LEMMA InFrame ==
  ASSUME InFlow, UNCHANGED <<wsIn, downBuf, ptyIn, inSent, sshGot>>,
         down' = down \/ (down = "off" /\ down' = "read")
  PROVE  InStep
BY DEF InStep, InFlow, Passed, Follow, Holds

\* A pump that ends passes nothing on.
LEMMA DownEnds ==
  ASSUME InFlow, down' = "end", downBuf' \in {downBuf, <<>>},
         UNCHANGED <<wsIn, ptyIn, inSent, sshGot>>
  PROVE  InStep
<1>1. Passed' = Passed /\ Passed <= inSent /\ inSent \in Nat
  BY DEF InFlow, Passed
<1>2. downBuf' \in Seq(Nat)
  <2>1. <<>> \in Seq(Nat) /\ downBuf \in Seq(Nat)
    BY EmptySeq DEF InFlow
  <2> QED
    BY <2>1, Zenon
<1>3. Follow(sshGot', 0) /\ Follow(ptyIn', Len(sshGot'))
  BY DEF InFlow
<1>4. InFlow'
  BY <1>1, <1>2, <1>3 DEF InFlow
<1> QED
  BY <1>4 DEF InStep

LEMMA DownReadStep == ASSUME InFlow, DownRead PROVE InStep
<1>1. UNCHANGED <<ptyIn, inSent, sshGot>> /\ Len(downBuf) = 0
  BY DEF DownRead, InFlow
<1>2. CASE down' = "end" /\ UNCHANGED <<wsIn, downBuf>>
  BY <1>1, <1>2, DownEnds
<1>3. CASE /\ wsIn # <<>> /\ wsIn' = Tail(wsIn)
           /\ IF IsResize(Head(wsIn))
                THEN UNCHANGED <<down, downBuf>>
                ELSE down' = "write" /\ downBuf' = <<Head(wsIn).unit>>
  <2>1. /\ Passed \in Nat /\ inSent \in Nat /\ wsIn \in Seq(Frames) /\ Holds(wsIn, Passed, inSent)
        /\ Passed <= inSent /\ Passed' = Passed
    BY <1>1 DEF DownRead, InFlow, Passed
  <2>2. /\ Tail(wsIn) \in Seq(Frames)
        /\ IsResize(Head(wsIn)) => Holds(Tail(wsIn), Passed, inSent)
        /\ ~IsResize(Head(wsIn)) => /\ Head(wsIn).unit = Passed + 1 /\ Passed + 1 <= inSent
                                    /\ Holds(Tail(wsIn), Passed + 1, inSent)
    BY <1>3, <2>1, HoldsTail
  <2>3. CASE IsResize(Head(wsIn))
    <3>1. UNCHANGED <<down, downBuf>> /\ Holds(wsIn', Passed', inSent')
      BY <1>1, <1>3, <2>1, <2>2, <2>3
    <3>2. InFlow'
      BY <1>1, <1>3, <2>1, <2>2, <3>1 DEF InFlow
    <3> QED
      BY <1>1, <3>2 DEF InStep
  <2>4. CASE ~IsResize(Head(wsIn))
    <3>1. down' = "write" /\ downBuf' = <<Passed + 1>> /\ Holds(wsIn', Passed' + 1, inSent')
      BY <1>1, <1>3, <2>1, <2>2, <2>4
    <3>2. downBuf' \in Seq(Nat) /\ Len(downBuf') = 1 /\ Follow(downBuf', Passed')
      BY <2>1, <3>1 DEF Follow
    <3>3. InFlow'
      BY <1>1, <1>3, <2>1, <2>2, <2>4, <3>1, <3>2 DEF InFlow
    <3> QED
      BY <1>1, <3>3 DEF InStep
  <2> QED
    BY <2>3, <2>4
<1> QED
  BY <1>2, <1>3 DEF DownRead

LEMMA DownWriteStep == ASSUME InFlow, DownWrite PROVE InStep
<1>1. UNCHANGED <<wsIn, inSent, sshGot>> /\ Len(downBuf) = 1 /\ downBuf' = <<>>
  BY DEF DownWrite, InFlow
<1>2. CASE down' = "end" /\ UNCHANGED ptyIn
  BY <1>1, <1>2, DownEnds
<1>3. CASE down' = "read" /\ ptyIn' = ptyIn \o downBuf
  <2>1. /\ Passed \in Nat /\ Len(sshGot) \in Nat /\ Passed = Len(sshGot) + Len(ptyIn)
        /\ Follow(ptyIn, Len(sshGot)) /\ Follow(downBuf, Passed)
        /\ Passed + 1 <= inSent /\ Holds(wsIn, Passed + 1, inSent)
        /\ ptyIn \in Seq(Nat) /\ downBuf \in Seq(Nat)
    BY <1>1 DEF DownWrite, InFlow, Passed
  <2>2. ptyIn' \in Seq(Nat) /\ Len(ptyIn') = Len(ptyIn) + 1 /\ Follow(ptyIn', Len(sshGot))
    BY <1>1, <1>3, <2>1, FollowOne
  <2>3. Passed' = Passed + 1
    BY <1>1, <2>1, <2>2 DEF Passed
  <2>4. Len(downBuf') = 0 /\ Holds(wsIn', Passed' + Len(downBuf'), inSent')
        /\ Follow(downBuf', Passed') /\ downBuf' \in Seq(Nat)
    BY <1>1, <2>1, <2>3 DEF Follow
  <2>5. InFlow'
    BY <1>1, <1>3, <2>1, <2>2, <2>3, <2>4 DEF InFlow
  <2> QED
    BY <1>1, <2>5 DEF InStep
<1> QED
  BY <1>2, <1>3 DEF DownWrite

LEMMA ClientTypesStep == ASSUME InFlow, ClientTypes \/ ClientResizes PROVE InStep
<1>1. UNCHANGED <<down, downBuf, ptyIn, sshGot>>
  BY DEF ClientTypes, ClientResizes, Frame, procs
<1>2. /\ Passed' = Passed /\ Passed \in Nat /\ inSent \in Nat /\ Passed <= inSent
      /\ wsIn \in Seq(Frames)
  BY <1>1 DEF InFlow, Passed
<1>3. PICK f \in Frames :
        /\ wsIn' = Append(wsIn, f)
        /\ \/ inSent' = inSent + 1 /\ ~IsResize(f) /\ f.unit = inSent + 1
           \/ inSent' = inSent /\ IsResize(f)
  <2>1. CASE ClientTypes
    <3>1. PICK f \in KeyFrames(inSent + 1) : Frame(f)
      BY <2>1 DEF ClientTypes
    <3>2. f \in Frames /\ ~IsResize(f) /\ f.unit = inSent + 1
      BY <1>2 DEF KeyFrames, Frames, IsResize, parseResize
    <3> QED
      BY <2>1, <3>1, <3>2 DEF ClientTypes, Frame
  <2>2. CASE ClientResizes
    <3>1. ResizeFrame \in Frames /\ IsResize(ResizeFrame)
      BY DEF ResizeFrame, Frames, Data, IsResize, parseResize
    <3> QED
      BY <2>2, <3>1 DEF ClientResizes, Frame
  <2> QED
    BY <2>1, <2>2
<1>4. wsIn' \in Seq(Frames) /\ inSent' \in Nat /\ inSent <= inSent'
  BY <1>2, <1>3
<1>5. ASSUME down # "end" PROVE Holds(wsIn', Passed' + Len(downBuf'), inSent')
  <2>1. /\ Passed + Len(downBuf) \in Nat /\ Passed + Len(downBuf) <= inSent
        /\ Holds(wsIn, Passed + Len(downBuf), inSent)
    BY <1>2, <1>5 DEF InFlow
  <2>2. /\ ~IsResize(f) /\ f.unit = inSent + 1 =>
             Holds(Append(wsIn, f), Passed + Len(downBuf), inSent + 1)
        /\ IsResize(f) => Holds(Append(wsIn, f), Passed + Len(downBuf), inSent)
    BY <1>2, <2>1, HoldsAppend
  <2> QED
    BY <1>1, <1>2, <1>3, <2>2
<1>6. ASSUME down # "end"
      PROVE  /\ Len(downBuf') = IF down' = "write" THEN 1 ELSE 0
             /\ Follow(downBuf', Passed') /\ Passed' + Len(downBuf') <= inSent'
  BY <1>1, <1>2, <1>4, <1>6 DEF InFlow
<1>7. InFlow'
  BY <1>1, <1>2, <1>4, <1>5, <1>6 DEF InFlow
<1> QED
  BY <1>1, <1>3, <1>7 DEF InStep, Keys!Next, Keys!Send

LEMMA SSHReadsStep == ASSUME InFlow, SSHReads PROVE InStep
<1>1. UNCHANGED <<down, wsIn, downBuf, inSent>>
  BY DEF SSHReads, procs
<1>2. /\ sshGot \in Seq(Nat) /\ ptyIn \in Seq(Nat) /\ ptyIn # <<>> /\ Len(sshGot) \in Nat
      /\ Follow(sshGot, 0) /\ Follow(ptyIn, Len(sshGot))
      /\ Len(sshGot) + Len(ptyIn) <= inSent /\ inSent \in Nat
  BY DEF SSHReads, InFlow, Passed
<1>3. /\ Head(ptyIn) = Len(sshGot) + 1 /\ Tail(ptyIn) \in Seq(Nat) /\ Len(ptyIn) > 0
      /\ Len(Tail(ptyIn)) = Len(ptyIn) - 1 /\ Follow(Tail(ptyIn), Len(sshGot) + 1)
  BY <1>2, FollowTail
<1>4. sshGot' = Append(sshGot, Len(sshGot) + 1) /\ ptyIn' = Tail(ptyIn)
  BY <1>3 DEF SSHReads
<1>5. /\ sshGot' \in Seq(Nat) /\ Len(sshGot') = Len(sshGot) + 1 /\ Follow(sshGot', 0)
  <2>1. Append(sshGot, 0 + Len(sshGot) + 1) = sshGot'
    BY <1>2, <1>4
  <2> QED
    BY <1>2, <2>1, FollowAppend
<1>6. Passed' = Passed
  BY <1>2, <1>3, <1>4, <1>5 DEF Passed
<1>7. InFlow'
  BY <1>1, <1>3, <1>4, <1>5, <1>6 DEF InFlow
<1>8. Keys!Receive
  BY <1>1, <1>2, <1>3, <1>4 DEF Keys!Receive
<1> QED
  BY <1>7, <1>8 DEF InStep, Keys!Next

LEMMA InNext == Stages /\ InFlow /\ [Next]_vars => InStep
<1> SUFFICES ASSUME Stages, InFlow, [Next]_vars PROVE InStep
  OBVIOUS
<1>1. CASE DownRead
  BY <1>1, DownReadStep
<1>2. CASE DownWrite
  BY <1>2, DownWriteStep
<1>3. CASE ClientTypes \/ ClientResizes
  BY <1>3, ClientTypesStep
<1>4. CASE SSHReads
  BY <1>4, SSHReadsStep
<1>5. CASE Handler
  <2>1. UNCHANGED input /\ (down' = down \/ (down = "off" /\ down' = "read"))
    BY <1>5 DEF Handler, Refuse, Lookup, StartFails, StartSSH, UpgradeFails, Upgrade, PipeEnds,
                ClosePty, Kill, Wait, CloseConn, Hand, Stages
  <2> QED
    BY <2>1, InFrame DEF input
<1>6. CASE Up \/ ClientReads \/ ClientCloses \/ SSHWrites \/ SSHExits \/ UNCHANGED vars
  <2>1. UNCHANGED input /\ down' = down
    BY <1>6 DEF Up, UpRead, UpWrite, ClientReads, ClientCloses, SSHWrites, SSHExits, procs, vars
  <2> QED
    BY <2>1, InFrame DEF input
<1> QED
  BY <1>1, <1>2, <1>3, <1>4, <1>5, <1>6 DEF Next, Down

-----------------------------------------------------------------------------
(* The theorems                                                            *)

LEMMA SpecStages == Spec => []Stages
BY InitInv, StagesStep, PTL DEF Spec

\* console.go:58-70, 102-108: when the handler returns nothing is left open and
\* ssh has been waited for, whichever call failed.
THEOREM SpecNothingLeaks == Spec => []NothingLeaks
<1>1. Stages => NothingLeaks
  BY DEF Stages
<1> QED
  BY <1>1, SpecStages, PTL

\* console.go:116-130: the console implements Relay for ssh's output.
THEOREM SpecTextInOrder == Spec => TextInOrder
<1>1. Init => Text!Init
  BY DEF Init, Text!Init
<1>2. Stages /\ OutFlow /\ [Next]_vars => OutFlow' /\ [Text!Next]_<<outSent, clientGot>>
  BY OutNext DEF OutStep
<1> QED
  BY <1>1, <1>2, InitInv, SpecStages, PTL DEF Spec, TextInOrder, Text!Spec

\* console.go:132-152: and for what the client types, frames with a
\* new size left out, frames that parseResize refuses among it.
THEOREM SpecKeysInOrder == Spec => KeysInOrder
<1>1. Init => Keys!Init
  BY DEF Init, Keys!Init
<1>2. Stages /\ InFlow /\ [Next]_vars => InFlow' /\ [Keys!Next]_<<inSent, sshGot>>
  BY InNext DEF InStep
<1> QED
  BY <1>1, <1>2, InitInv, SpecStages, PTL DEF Spec, KeysInOrder, Keys!Spec
=============================================================================
