------------------------ MODULE SemaforosAbstractos ------------------------
(***************************************************************************)
(* What the kernel promises of its semaphores: counting semaphores that    *)
(* are created, taken, returned and destroyed in one step each, and whose  *)
(* waiting carpinchos are served in the order in which they came.          *)
(***************************************************************************)
EXTENDS Integers, Sequences, SequencesExt

CONSTANTS Semaforos, Carpinchos, Valores

VARIABLES
    existe,       \* the semaphores of the system
    disponibles,  \* instances that may be taken
    esperando     \* who waits for one, in order

\* A semaphore that does not exist has no instances and nobody waiting.
Init ==
    /\ existe = {}
    /\ disponibles = [s \in Semaforos |-> 0]
    /\ esperando = [s \in Semaforos |-> <<>>]

Crear(s) ==
    /\ s \notin existe
    /\ existe' = existe \cup {s}
    /\ \E v \in Valores : disponibles' = [disponibles EXCEPT ![s] = v]
    /\ UNCHANGED esperando

Tomar(s) ==
    /\ s \in existe
    /\ disponibles[s] > 0
    /\ disponibles' = [disponibles EXCEPT ![s] = @ - 1]
    /\ UNCHANGED <<existe, esperando>>

\* A carpincho waits for one semaphore at a time.
Esperar(s, c) ==
    /\ s \in existe
    /\ disponibles[s] = 0
    /\ \A t \in Semaforos : ~Contains(esperando[t], c)
    /\ esperando' = [esperando EXCEPT ![s] = Append(@, c)]
    /\ UNCHANGED <<existe, disponibles>>

\* The instance goes to the first that waits, or stays.
Devolver(s) ==
    /\ s \in existe
    /\ IF esperando[s] = <<>>
       THEN /\ disponibles' = [disponibles EXCEPT ![s] = @ + 1]
            /\ UNCHANGED esperando
       ELSE /\ disponibles[s] = 0
            /\ esperando' = [esperando EXCEPT ![s] = Tail(@)]
            /\ UNCHANGED disponibles
    /\ UNCHANGED existe

\* A semaphore somebody waits for is never destroyed.
Destruir(s) ==
    /\ s \in existe
    /\ esperando[s] = <<>>
    /\ existe' = existe \ {s}
    /\ disponibles' = [disponibles EXCEPT ![s] = 0]
    /\ UNCHANGED esperando

Next ==
    \E s \in Semaforos :
        \/ Crear(s) \/ Tomar(s) \/ Devolver(s) \/ Destruir(s)
        \/ \E c \in Carpinchos : Esperar(s, c)

Spec == Init /\ [][Next]_<<existe, disponibles, esperando>>
=============================================================================
