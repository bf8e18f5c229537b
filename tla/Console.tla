------------------------------ MODULE Console ------------------------------
(***************************************************************************)
(* One WebSocket console of the REST server (internal/server/console.go):  *)
(* the handler goroutine, which starts ssh on a PTY and upgrades the       *)
(* connection, and the two goroutines that copy ssh's output to the socket *)
(* (up) and the client's frames to ssh (down).                             *)
(*                                                                         *)
(* Bytes are abstracted to numbered units.  Every buffer between the two   *)
(* ends is bounded, so that each of the four copying calls can block.      *)
(***************************************************************************)
EXTENDS Naturals, Sequences

CONSTANTS
  MaxIn, MaxOut,   \* bound on the units the client and ssh send
  MaxResize,       \* bound on the resize frames the client sends
  SockCap,         \* units the connection buffers in either direction
  PtyCap           \* units the PTY buffers in either direction

ASSUME ConsoleAssumption ==
  /\ MaxIn \in Nat /\ MaxOut \in Nat /\ MaxResize \in Nat
  /\ SockCap \in Nat \ {0} /\ PtyCap \in Nat \ {0}

\* What a frame carries: bytes of any kind, a resize object whose size is zero or
\* missing, or one with a size.  parseResize takes the last only.
Data == {"keys", "zero_size", "resize"}
parseResize(d) == d = "resize"

\* Only a text frame is looked at; one that is refused falls through to the PTY.
IsResize(f) == f.mt = "text" /\ parseResize(f.data)

\* The client's frames: unit n, and the window's new size, which is no unit.
KeyFrames(n) == {f \in [mt : {"text", "binary"}, data : Data, unit : {n}] :
                   f.mt = "text" => f.data # "resize"}
ResizeFrame  == [mt |-> "text", data |-> "resize", unit |-> 0]

VARIABLES
  hand,            \* where the handler is
  up, down,        \* where the two pumps are
  done,            \* how often the channel done was closed
  ssh, pty, conn, client,
  wsIn, ptyIn,     \* on the way to ssh: frames, then bytes
  ptyOut, wsOut,   \* on the way to the client
  downBuf, upBuf,  \* what each pump has read and not yet written
  inSent, outSent, resizes,
  sshGot, clientGot

input  == <<wsIn, downBuf, ptyIn, inSent, resizes, sshGot>>
output == <<ptyOut, upBuf, wsOut, outSent, clientGot>>
procs  == <<hand, up, down, done, ssh, pty, conn, client>>
vars   == <<procs, input, output>>

HandPCs == {"lookup", "start", "upgrade", "pipe",
            "close_pty", "kill", "wait", "close_conn", "end"}
PumpPCs == {"off", "read", "write", "end"}

Init == /\ hand = "lookup" /\ up = "off" /\ down = "off" /\ done = 0
        /\ ssh = "none" /\ pty = "none" /\ conn = "none" /\ client = "open"
        /\ wsIn = <<>> /\ ptyIn = <<>> /\ ptyOut = <<>> /\ wsOut = <<>>
        /\ downBuf = <<>> /\ upBuf = <<>>
        /\ inSent = 0 /\ outSent = 0 /\ resizes = 0
        /\ sshGot = <<>> /\ clientGot = <<>>

TypeOK ==
  /\ hand \in HandPCs /\ up \in PumpPCs /\ down \in PumpPCs /\ done \in Nat
  /\ ssh \in {"none", "running", "exited", "reaped"}
  /\ pty \in {"none", "open", "closed"} /\ conn \in {"none", "open", "closed"}
  /\ client \in {"open", "closed"}
  /\ Len(wsIn) <= SockCap /\ Len(wsOut) <= SockCap
  /\ Len(ptyIn) <= PtyCap /\ Len(ptyOut) <= PtyCap
  /\ Len(downBuf) = (IF down = "write" THEN 1 ELSE 0)
  /\ Len(upBuf) = (IF up = "write" THEN 1 ELSE 0)

-----------------------------------------------------------------------------
(* The handler *)

Hand(from, to) == hand = from /\ hand' = to

\* Wrong origin, no upgrade, no such VM, no IP, no ssh: an HTTP error.
Refuse == /\ Hand("lookup", "end")
          /\ UNCHANGED <<up, down, done, ssh, pty, conn, client, input, output>>

Lookup == /\ Hand("lookup", "start")
          /\ UNCHANGED <<up, down, done, ssh, pty, conn, client, input, output>>

\* pty.StartWithSize
StartFails == /\ Hand("start", "end")
              /\ UNCHANGED <<up, down, done, ssh, pty, conn, client, input, output>>
StartSSH == /\ Hand("start", "upgrade")
            /\ ssh' = "running" /\ pty' = "open"
            /\ UNCHANGED <<up, down, done, conn, client, input, output>>

\* Broken: the process started for the console is forgotten.
UpgradeFails_Forgets ==
  /\ Hand("upgrade", "end")
  /\ UNCHANGED <<up, down, done, ssh, pty, conn, client, input, output>>

\* The same three clean-up calls as at the end of a session.
UpgradeFails == /\ Hand("upgrade", "close_pty")
                /\ UNCHANGED <<up, down, done, ssh, pty, conn, client, input, output>>
Upgrade == /\ Hand("upgrade", "pipe")
           /\ conn' = "open"
           /\ up' = "read" /\ down' = "read"
           /\ UNCHANGED <<done, ssh, pty, client, input, output>>

\* "<-done"
PipeEnds == /\ done > 0
            /\ Hand("pipe", "close_pty")
            /\ UNCHANGED <<up, down, done, ssh, pty, conn, client, input, output>>

ClosePty == /\ Hand("close_pty", "kill")
            /\ pty' = "closed"
            /\ UNCHANGED <<up, down, done, ssh, conn, client, input, output>>
Kill == /\ Hand("kill", "wait")
        /\ ssh' = IF ssh = "running" THEN "exited" ELSE ssh
        /\ UNCHANGED <<up, down, done, pty, conn, client, input, output>>
Wait == /\ Hand("wait", "close_conn")
        /\ ssh' = "reaped"
        /\ UNCHANGED <<up, down, done, pty, conn, client, input, output>>

CloseConn == /\ Hand("close_conn", "end")
             /\ conn' = IF conn = "open" THEN "closed" ELSE conn
             /\ UNCHANGED <<up, down, done, ssh, pty, client, input, output>>

Handler == \/ Refuse \/ Lookup \/ StartFails \/ StartSSH \/ UpgradeFails
           \/ Upgrade \/ PipeEnds \/ ClosePty \/ Kill \/ Wait \/ CloseConn

-----------------------------------------------------------------------------
(* The pumps.  "defer stop()": the first one to return closes done.        *)

Stop == done' = IF done = 0 THEN 1 ELSE done

\* Once ssh is gone, so is the other side of the PTY: reads drain, then EIO.
PtyDead == pty = "closed" \/ ssh \in {"exited", "reaped"}

\* Broken: the buffer is handed over and read into again.
UpRead_Reuses ==
  /\ up \in {"read", "write"}
  /\ \/ /\ pty = "open" /\ ptyOut # <<>>
        /\ up' = "write" /\ upBuf' = <<Head(ptyOut)>> /\ ptyOut' = Tail(ptyOut)
        /\ UNCHANGED done
     \/ /\ PtyDead /\ (pty = "closed" \/ ptyOut = <<>>) /\ up = "read"
        /\ up' = "end" /\ Stop
        /\ UNCHANGED <<upBuf, ptyOut>>
  /\ UNCHANGED <<hand, down, ssh, pty, conn, client, input, wsOut, outSent, clientGot>>

\* Broken: a read that returns nothing is tried again, EIO included.
UpRead_IgnoresError ==
  /\ up = "read" /\ pty = "open" /\ ptyOut # <<>>
  /\ up' = "write" /\ upBuf' = <<Head(ptyOut)>> /\ ptyOut' = Tail(ptyOut)
  /\ UNCHANGED <<hand, down, done, ssh, pty, conn, client, input, wsOut, outSent,
                 clientGot>>

UpRead ==
  /\ up = "read"
  /\ \/ /\ pty = "open" /\ ptyOut # <<>>
        /\ up' = "write" /\ upBuf' = <<Head(ptyOut)>> /\ ptyOut' = Tail(ptyOut)
        /\ UNCHANGED done
     \/ /\ PtyDead /\ (pty = "closed" \/ ptyOut = <<>>)
        /\ up' = "end" /\ Stop
        /\ UNCHANGED <<upBuf, ptyOut>>
  /\ UNCHANGED <<hand, down, ssh, pty, conn, client, input, wsOut, outSent, clientGot>>

\* conn.WriteMessage has no deadline: it blocks while the buffer is full.
UpWrite ==
  /\ up = "write"
  /\ upBuf' = <<>>
  /\ \/ /\ conn = "open" /\ Len(wsOut) < SockCap
        /\ up' = "read" /\ wsOut' = wsOut \o upBuf
        /\ UNCHANGED done
     \/ /\ conn = "closed" \/ client = "closed"
        /\ up' = "end" /\ Stop
        /\ UNCHANGED wsOut
  /\ UNCHANGED <<hand, down, ssh, pty, conn, client, input, ptyOut, outSent, clientGot>>

\* Broken: a resize frame falls through to the PTY as well.
DownRead_FallsThrough ==
  /\ down = "read"
  /\ conn = "open" /\ wsIn # <<>>
  /\ wsIn' = Tail(wsIn)
  /\ down' = "write" /\ downBuf' = <<Head(wsIn).unit>>
  /\ UNCHANGED <<hand, up, done, ssh, pty, conn, client, output, ptyIn, inSent,
                 resizes, sshGot>>

\* Broken: the error of a closed connection is not looked at.
DownRead_IgnoresClose ==
  /\ down = "read" /\ conn = "open" /\ wsIn # <<>>
  /\ wsIn' = Tail(wsIn)
  /\ IF IsResize(Head(wsIn))
       THEN UNCHANGED <<down, downBuf>>
       ELSE down' = "write" /\ downBuf' = <<Head(wsIn).unit>>
  /\ UNCHANGED <<hand, up, done, ssh, pty, conn, client, output, ptyIn, inSent,
                 resizes, sshGot>>

DownRead ==
  /\ down = "read"
  /\ \/ /\ conn = "open" /\ wsIn # <<>>
        /\ wsIn' = Tail(wsIn)
        /\ IF IsResize(Head(wsIn))
             THEN UNCHANGED <<down, downBuf>>          \* pty.Setsize
             ELSE down' = "write" /\ downBuf' = <<Head(wsIn).unit>>
        /\ UNCHANGED done
     \/ /\ conn = "closed" \/ (client = "closed" /\ wsIn = <<>>)
        /\ down' = "end" /\ Stop
        /\ UNCHANGED <<wsIn, downBuf>>
  /\ UNCHANGED <<hand, up, ssh, pty, conn, client, output, ptyIn, inSent,
                 resizes, sshGot>>

\* ptyFile.Write blocks while ssh does not read.
DownWrite ==
  /\ down = "write"
  /\ downBuf' = <<>>
  /\ \/ /\ ~PtyDead /\ Len(ptyIn) < PtyCap
        /\ down' = "read" /\ ptyIn' = ptyIn \o downBuf
        /\ UNCHANGED done
     \/ /\ PtyDead
        /\ down' = "end" /\ Stop
        /\ UNCHANGED ptyIn
  /\ UNCHANGED <<hand, up, ssh, pty, conn, client, output, wsIn, inSent,
                 resizes, sshGot>>

Up   == UpRead \/ UpWrite
Down == DownRead \/ DownWrite

-----------------------------------------------------------------------------
(* The client and ssh, external                                            *)

Frame(f) == /\ conn = "open" /\ client = "open" /\ Len(wsIn) < SockCap
            /\ wsIn' = Append(wsIn, f)
            /\ UNCHANGED <<procs, downBuf, ptyIn, sshGot, output>>

ClientTypes   == /\ inSent < MaxIn /\ inSent' = inSent + 1
                 /\ \E f \in KeyFrames(inSent + 1) : Frame(f)
                 /\ UNCHANGED resizes
ClientResizes == /\ resizes < MaxResize /\ resizes' = resizes + 1
                 /\ Frame(ResizeFrame) /\ UNCHANGED inSent

ClientReads == /\ client = "open" /\ wsOut # <<>>
               /\ clientGot' = Append(clientGot, Head(wsOut))
               /\ wsOut' = Tail(wsOut)
               /\ UNCHANGED <<procs, input, ptyOut, upBuf, outSent>>

ClientCloses == /\ client = "open" /\ client' = "closed"
                /\ UNCHANGED <<hand, up, down, done, ssh, pty, conn, input, output>>

SSHReads == /\ ssh = "running" /\ ptyIn # <<>>
            /\ sshGot' = Append(sshGot, Head(ptyIn)) /\ ptyIn' = Tail(ptyIn)
            /\ UNCHANGED <<procs, wsIn, downBuf, inSent, resizes, output>>

SSHWrites == /\ ssh = "running" /\ pty = "open"
             /\ outSent < MaxOut /\ Len(ptyOut) < PtyCap
             /\ outSent' = outSent + 1 /\ ptyOut' = Append(ptyOut, outSent + 1)
             /\ UNCHANGED <<procs, input, upBuf, wsOut, clientGot>>

SSHExits == /\ ssh = "running" /\ ssh' = "exited"
            /\ UNCHANGED <<hand, up, down, done, pty, conn, client, input, output>>

Next == \/ Handler \/ Up \/ Down
        \/ ClientTypes \/ ClientResizes \/ ClientReads \/ ClientCloses
        \/ SSHReads \/ SSHWrites \/ SSHExits

\* The Go scheduler runs every goroutine that can run.  Nothing obliges the
\* client to read or to close, nor ssh to read, write or exit.
Spec == Init /\ [][Next]_vars /\ WF_vars(Handler) /\ WF_vars(Up) /\ WF_vars(Down)

\* A client that reads while it is connected.
ReadingClient == Spec /\ WF_vars(ClientReads)

-----------------------------------------------------------------------------
(* Properties *)

Keys == INSTANCE Relay WITH sent <- inSent, got <- sshGot
Text == INSTANCE Relay WITH sent <- outSent, got <- clientGot

\* What the client types reaches ssh in order, each key once, no frame with a new
\* size among it, and every frame that parseResize refuses; and so does ssh's
\* output the client, whatever blocks or closes.
KeysInOrder == Keys!Spec
TextInOrder == Text!Spec

\* When the handler returns, ssh has been waited for, and neither the PTY nor
\* the connection is left open, whichever call failed.
NothingLeaks == hand = "end" => /\ ssh \in {"none", "reaped"}
                                /\ pty # "open"
                                /\ conn # "open"

\* A session whose ssh has exited ends, though a pump may be blocked in a
\* write, if the client goes on reading; and neither goroutine outlives its
\* session for ever.
SessionEnds ==
  /\ (ssh = "exited") ~> (hand = "end")
  /\ (hand = "end") ~> (up \in {"off", "end"} /\ down \in {"off", "end"})

\* "Closing the socket kills ssh" (vmtool.yaml:248), if ssh goes on reading its
\* terminal.  Of an ssh that stops reading the code does not have it: the pump that
\* would see the socket close is blocked in ptyFile.Write (console.go:147).
SSHGoesOnReading == WF_vars(SSHReads)
CloseKillsSSH == SSHGoesOnReading =>
                   ((client = "closed" /\ conn = "open") ~> (ssh = "reaped"))
=============================================================================
