------------------------------ MODULE MCPaging ------------------------------
(* Small instances of Paging. *)
EXTENDS Paging, TLC

Symmetry == Permutations(Pod) \cup Permutations(App) \cup Permutations(Value)
                \cup Permutations(Peer) \cup Permutations(Evictor)
=============================================================================
