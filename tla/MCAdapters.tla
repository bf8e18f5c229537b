----------------------------- MODULE MCAdapters -----------------------------
(* A call that may be for anything on either surface, and one beside it that *)
(* creates a VM as a request or deletes one as a command.                   *)
EXTENDS Adapters, TLC

CONSTANTS c1, c2

MCAsks == [c \in {c1, c2} |-> IF c = c1 THEN Offered
                               ELSE {<<"rest", "CreateVM">>, <<"cli", "DeleteVM">>}]
Names  == Permutations(VMs)
=============================================================================
