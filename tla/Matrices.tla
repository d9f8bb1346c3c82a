------------------------------ MODULE Matrices ------------------------------
(***************************************************************************)
(* The two matrices of the deadlock detector, kernel/src/deadlock.c, which *)
(* the code never builds: it reads each cell from the PCBs.  "e" gives the *)
(* semaphore each PCB waits for (esperaEnSemaforo) and "r" the ones each   *)
(* PCB holds (the keys of semaforosQueRetiene), by name.  A row is a PCB,  *)
(* a column a semaphore.                                                   *)
(***************************************************************************)

\* The column of s, over the PCBs of P: somebody waits and somebody holds.
ColumnaNoNula(e, r, P, s) ==
    /\ \E p \in P : e[p] = s
    /\ \E p \in P : s \in r[p]

\* Mutant: a row is null only if it has neither.
MutFilaNoNula(e, r, S, p) ==
    \/ \E s \in S : e[p] = s
    \/ \E s \in S : s \in r[p]

\* The row of p, over the semaphores of S: it waits for one and holds one.
FilaNoNula(e, r, S, p) ==
    /\ \E s \in S : e[p] = s
    /\ \E s \in S : s \in r[p]

\* Nothing left to remove.
Irreducibles(e, r, P, S) ==
    /\ \A s \in S : ColumnaNoNula(e, r, P, s)
    /\ \A p \in P : FilaNoNula(e, r, S, p)

\* The rows that the reduction of P and S leaves, whatever the order of its
\* passes: those of every submatrix that cannot be reduced.
PcbsIrreducibles(e, r, P, S) ==
    UNION {Q \in SUBSET P :
             Irreducibles(e, r, Q, {s \in S : ColumnaNoNula(e, r, Q, s)})}

\* A deadlock by its definition: each PCB of D waits for a semaphore that
\* somebody holds, and only PCBs of D hold it.
EsDeadlock(e, r, D) ==
    \A p \in D :
        LET titulares == {q \in DOMAIN r : e[p] \in r[q]}
        IN titulares # {} /\ titulares \subseteq D
=============================================================================
