---------------------------- MODULE MCSemaforos ----------------------------
(* Model checking of Semaforos on small instances.                         *)
EXTENDS Semaforos

Simetria == Permutations(Carpinchos) \cup Permutations(CPUs)
=============================================================================
