---------------------------- MODULE MCAlgoritmos ----------------------------
(* Model checking of the two pure routines, each by itself: the behaviour  *)
(* begins as one of the two, and the other one stays idle all along.       *)
EXTENDS Reduccion, Seleccion, TLC

\* Nobody waits: the reduction is over before it begins.
SinBloqueadas == espera = [p \in Pcbs |-> Nada] /\ InitReduccion

\* There is no scheduling algorithm.
SinPlanificacion ==
    /\ algoritmo = "ninguno" /\ alfa = 0 /\ inicial = 0
    /\ ahora = 0
    /\ listas = <<>>
    /\ est = [p \in Procesos |-> 0]
    /\ desde = [p \in Procesos |-> 0]
    /\ enExec = Ninguna
    /\ inicio = 0
    /\ rafagas = [p \in Procesos |-> <<>>]

InitAlgoritmos ==
    \/ InitReduccion /\ SinPlanificacion
    \/ InitSeleccion /\ retiene = [p \in Pcbs |-> {}] /\ SinBloqueadas

NextAlgoritmos ==
    \/ NextReduccion /\ UNCHANGED varsSeleccion
    \/ algoritmo # "ninguno" /\ NextSeleccion /\ UNCHANGED varsReduccion

SpecAlgoritmos == InitAlgoritmos /\ [][NextAlgoritmos]_<<varsReduccion, varsSeleccion>>

Simetria == Permutations(Procesos)
=============================================================================
