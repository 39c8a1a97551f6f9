------------------------------ MODULE MCProxy -------------------------------
(* Small instances of Proxy. *)
EXTENDS Proxy, TLC

\* Nodes are told apart by nothing but their names.
Symmetric == Permutations(Owner)

\* What happens after the answer is of no interest.
Unanswered == read.stage # "done"
=============================================================================
