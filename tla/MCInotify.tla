------------------------------ MODULE MCInotify ------------------------------
(* Instances of Inotify for TLC. *)
EXTENDS Inotify

CONSTANTS r, s, a

\* two empty roots, or r/a and r/a/a
RootsOnly == [d \in Roots |-> <<TOP, NONE>>]
MCTrees == {RootsOnly, RootsOnly @@ (-1 :> <<r, a>>) @@ (-2 :> <<-1, a>>)}
MCArgs == {<<r>>, <<r, a>>}
=============================================================================
