----------------------------- MODULE Reduccion -----------------------------
(***************************************************************************)
(* The reduction of the detector's matrices, deadlock.c: the loop of       *)
(* __deadlock_reducir_matrices_de_deteccion over the two passes of         *)
(* __deadlock_eliminar_celdas_nulas_consecutivas.  It starts from any      *)
(* state of the PCBs.  The order of the two lists plays no part in it, and *)
(* a pass removes from one list by what it reads in the other, which does  *)
(* not change meanwhile: each list is a set and each pass a step.          *)
(***************************************************************************)
EXTENDS Matrices, FiniteSets

CONSTANTS
    Pcbs,  \* the PCBs of the system
    Sems,  \* the names in semaforosDelSistema
    Nada   \* NULL: the PCB waits for no semaphore

ASSUME NadaNoEsSemaforo == Nada \notin Sems
ASSUME PcbsFinitas == IsFiniteSet(Pcbs)

VARIABLES
    espera,          \* what each PCB waits for; it stays as it is
    retiene,         \* what each PCB holds; it stays as it is
    pcbsEnDeadlock,  \* the rows left
    semsEnDeadlock,  \* the columns left
    columnas,        \* seEliminaronColumnas
    paso             \* "columnas", "filas" or "fin"

matrices == <<espera, retiene>>
varsReduccion == <<matrices, pcbsEnDeadlock, semsEnDeadlock, columnas, paso>>

\* The PCBs that list_filter takes from BLOCKED and SUSP/BLOCKED.
Bloqueadas == {p \in Pcbs : espera[p] # Nada}

InitReduccion ==
    /\ espera \in [Pcbs -> Sems \cup {Nada}]
    /\ retiene \in [Pcbs -> SUBSET Sems]
    /\ pcbsEnDeadlock = Bloqueadas
    /\ semsEnDeadlock = Sems
    /\ columnas = TRUE
    /\ paso = IF Bloqueadas = {} \/ Sems = {} THEN "fin" ELSE "columnas"

EliminarColumnas ==
    /\ paso = "columnas"
    /\ semsEnDeadlock' =
          {s \in semsEnDeadlock : ColumnaNoNula(espera, retiene, pcbsEnDeadlock, s)}
    /\ columnas' = (semsEnDeadlock' # semsEnDeadlock)
    /\ paso' = "filas"
    /\ UNCHANGED <<matrices, pcbsEnDeadlock>>

\* Mutant: the loop ends when a pass over the rows removes nothing.
MutEliminarFilas ==
    /\ paso = "filas"
    /\ pcbsEnDeadlock' =
          {p \in pcbsEnDeadlock : FilaNoNula(espera, retiene, semsEnDeadlock, p)}
    /\ paso' = IF columnas /\ pcbsEnDeadlock' # pcbsEnDeadlock THEN "columnas" ELSE "fin"
    /\ UNCHANGED <<matrices, semsEnDeadlock, columnas>>

\* Mutant: a row is kept only if the PCB waits for what it holds.
MutFilasPropias ==
    /\ paso = "filas"
    /\ pcbsEnDeadlock' = {p \in pcbsEnDeadlock : espera[p] \in semsEnDeadlock \cap retiene[p]}
    /\ paso' = IF columnas \/ pcbsEnDeadlock' # pcbsEnDeadlock THEN "columnas" ELSE "fin"
    /\ UNCHANGED <<matrices, semsEnDeadlock, columnas>>

EliminarFilas ==
    /\ paso = "filas"
    /\ pcbsEnDeadlock' =
          {p \in pcbsEnDeadlock : FilaNoNula(espera, retiene, semsEnDeadlock, p)}
    /\ paso' = IF columnas \/ pcbsEnDeadlock' # pcbsEnDeadlock THEN "columnas" ELSE "fin"
    /\ UNCHANGED <<matrices, semsEnDeadlock, columnas>>

NextReduccion == EliminarColumnas \/ EliminarFilas

SpecReduccion == InitReduccion /\ [][NextReduccion]_varsReduccion
-----------------------------------------------------------------------------
TypeOK ==
    /\ espera \in [Pcbs -> Sems \cup {Nada}]
    /\ retiene \in [Pcbs -> SUBSET Sems]
    /\ pcbsEnDeadlock \subseteq Bloqueadas
    /\ semsEnDeadlock \subseteq Sems
    /\ columnas \in BOOLEAN
    /\ paso \in {"columnas", "filas", "fin"}

\* No pass removes a row or a column of a submatrix that cannot be reduced.
NoSacaDeMas ==
    \A P \in SUBSET Bloqueadas, S \in SUBSET Sems :
        Irreducibles(espera, retiene, P, S) =>
            P \subseteq pcbsEnDeadlock /\ S \subseteq semsEnDeadlock

\* The loop ends, whatever the order of the passes, with the greatest
\* submatrix in which every row and column both waits and holds.
QuedaLaMayor ==
    /\ NoSacaDeMas
    /\ paso = "fin" /\ pcbsEnDeadlock # {} =>
          Irreducibles(espera, retiene, pcbsEnDeadlock, semsEnDeadlock)

\* No deadlock is missed: whatever set of PCBs wait for one another, with no
\* holder outside the set, the reduction leaves one of them, and a victim of it.
VeLosDeadlocks ==
    paso = "fin" =>
        \A D \in SUBSET Bloqueadas :
            D # {} /\ EsDeadlock(espera, retiene, D) => D \cap pcbsEnDeadlock # {}

\* With semaphores of one instance nobody is taken for deadlocked who is not:
\* the rows left are a deadlock by the definition.
SinFalsosDeadlocks ==
    /\ paso = "fin"
    /\ \A p, q \in Pcbs : p # q => retiene[p] \cap retiene[q] = {}
    => EsDeadlock(espera, retiene, pcbsEnDeadlock)
=============================================================================
