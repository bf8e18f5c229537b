------------------------------- MODULE Relay -------------------------------
(***************************************************************************)
(* What the console promises in either direction: the receiver gets the    *)
(* units the sender sent, each once and in the order they were sent.  It   *)
(* may stop at any point; what was not received by then is lost.           *)
(***************************************************************************)
EXTENDS Naturals, Sequences

VARIABLES
  sent,   \* number of units sent: they are 1..sent
  got     \* the sequence of units received

Init == sent = 0 /\ got = <<>>

Send    == sent' = sent + 1 /\ UNCHANGED got
Receive == /\ Len(got) < sent
           /\ got' = Append(got, Len(got) + 1)
           /\ UNCHANGED sent

Next == Send \/ Receive
Spec == Init /\ [][Next]_<<sent, got>>
=============================================================================
