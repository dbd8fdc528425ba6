------------------------- MODULE MCPodBoundedBuffer -------------------------
(* A ring of three slots shared by two consumers. *)
EXTENDS PodBoundedBuffer
=============================================================================
