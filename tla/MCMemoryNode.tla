---------------------------- MODULE MCMemoryNode ----------------------------
(* Instances of MemoryNode: the owner of each connection, by its name. *)
EXTENDS MemoryNode, TLC

CONSTANTS t1, t2, c1, c2, c3

\* One compute node with two threads.
OneTenant == (t1 :> t1) @@ (c1 :> t1) @@ (c2 :> t1)

\* Two compute nodes, the first with two threads.
TwoTenants == OneTenant @@ (t2 :> t2) @@ (c3 :> t2)
=============================================================================
