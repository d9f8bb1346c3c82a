--------------------------- MODULE MCPlanificacion ---------------------------
(* Model checking of Planificacion on small instances.                     *)
EXTENDS Planificacion

Simetria == Permutations(Carpinchos) \cup Permutations(CPUs)
=============================================================================
