--------------------------- MODULE MCEventPipeline ---------------------------
(* EventPipeline on small instances. *)
EXTENDS EventPipeline, TLC

\* Orders are interchangeable, and so are publisher replicas.
ReplicaSymmetry == Permutations(Orders) \cup Permutations(Publishers)
=============================================================================
