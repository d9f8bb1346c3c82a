-------------------------- MODULE AlgoritmosProofs --------------------------
(* Theorems about the two pure routines: what the reduction of the deadlock *)
(* detector leaves, and which PCB SJF and HRRN choose and by what estimates. *)
EXTENDS Reduccion, Seleccion, FiniteSetTheorems, SequenceTheorems, WellFoundedInduction, TLAPS

-----------------------------------------------------------------------------
(* What can be kept of a larger submatrix.                                 *)

\* A column of a submatrix that cannot be reduced is not null in a larger one.
LEMMA ColumnaCrece ==
    ASSUME NEW e, NEW r, NEW P, NEW Q, P \subseteq Q, NEW s, ColumnaNoNula(e, r, P, s)
    PROVE  ColumnaNoNula(e, r, Q, s)
BY DEF ColumnaNoNula

\* Nor is a row.
LEMMA FilaCrece ==
    ASSUME NEW e, NEW r, NEW S, NEW T, S \subseteq T, NEW p, FilaNoNula(e, r, S, p)
    PROVE  FilaNoNula(e, r, T, p)
BY DEF FilaNoNula

-----------------------------------------------------------------------------
(* The inductive invariant.                                                *)

\* Between the two passes no column left is null.
ColumnasHechas ==
    paso = "filas" =>
        \A s \in semsEnDeadlock : ColumnaNoNula(espera, retiene, pcbsEnDeadlock, s)

\* When the loop ends there is nothing left to remove.
NadaQueSacar ==
    paso = "fin" /\ pcbsEnDeadlock # {} =>
        Irreducibles(espera, retiene, pcbsEnDeadlock, semsEnDeadlock)

IInv == TypeOK /\ NoSacaDeMas /\ ColumnasHechas /\ NadaQueSacar

\* At the start nothing has been removed.
LEMMA InitIInv == InitReduccion => IInv
<1> SUFFICES ASSUME InitReduccion PROVE IInv
    OBVIOUS
<1> USE DEF InitReduccion
<1>1. TypeOK
    BY DEF TypeOK, Bloqueadas
<1>2. NoSacaDeMas
    BY DEF NoSacaDeMas
<1>3. ColumnasHechas
    BY DEF ColumnasHechas
<1>4. NadaQueSacar
    BY DEF NadaQueSacar, Bloqueadas
<1> QED BY <1>1, <1>2, <1>3, <1>4 DEF IInv

\* A pass over the columns keeps the invariant.
LEMMA ColumnasIInv == IInv /\ EliminarColumnas => IInv'
<1> SUFFICES ASSUME IInv, EliminarColumnas PROVE IInv'
    OBVIOUS
<1> USE DEF IInv, EliminarColumnas, matrices
<1>1. TypeOK'
    BY DEF TypeOK, Bloqueadas
<1>2. NoSacaDeMas'
    <2> SUFFICES ASSUME NEW P \in SUBSET Bloqueadas, NEW S \in SUBSET Sems,
                        Irreducibles(espera, retiene, P, S)
                 PROVE  P \subseteq pcbsEnDeadlock /\ S \subseteq semsEnDeadlock'
        BY DEF NoSacaDeMas, Bloqueadas
    <2>1. P \subseteq pcbsEnDeadlock /\ S \subseteq semsEnDeadlock
        BY DEF NoSacaDeMas
    <2>2. \A s \in S : ColumnaNoNula(espera, retiene, pcbsEnDeadlock, s)
        BY <2>1, ColumnaCrece DEF Irreducibles
    <2> QED BY <2>1, <2>2
<1>3. ColumnasHechas'
    <2>1. \A s \in semsEnDeadlock' : ColumnaNoNula(espera, retiene, pcbsEnDeadlock, s)
        OBVIOUS
    <2> QED BY <2>1 DEF ColumnasHechas
<1>4. NadaQueSacar'
    BY DEF NadaQueSacar
<1> QED BY <1>1, <1>2, <1>3, <1>4

\* So does one over the rows.
LEMMA FilasIInv == IInv /\ EliminarFilas => IInv'
<1> SUFFICES ASSUME IInv, EliminarFilas PROVE IInv'
    OBVIOUS
<1> USE DEF IInv, EliminarFilas, matrices
<1>1. TypeOK'
    BY DEF TypeOK, Bloqueadas
<1>2. NoSacaDeMas'
    <2> SUFFICES ASSUME NEW P \in SUBSET Bloqueadas, NEW S \in SUBSET Sems,
                        Irreducibles(espera, retiene, P, S)
                 PROVE  P \subseteq pcbsEnDeadlock' /\ S \subseteq semsEnDeadlock
        BY DEF NoSacaDeMas, Bloqueadas
    <2>1. P \subseteq pcbsEnDeadlock /\ S \subseteq semsEnDeadlock
        BY DEF NoSacaDeMas
    <2>2. \A p \in P : FilaNoNula(espera, retiene, semsEnDeadlock, p)
        BY <2>1, FilaCrece DEF Irreducibles
    <2> QED BY <2>1, <2>2
<1>3. ColumnasHechas'
    BY DEF ColumnasHechas
<1>4. NadaQueSacar'
    <2> SUFFICES ASSUME paso' = "fin"
                 PROVE  Irreducibles(espera, retiene, pcbsEnDeadlock', semsEnDeadlock)
        BY DEF NadaQueSacar
    <2>1. pcbsEnDeadlock' = pcbsEnDeadlock
        OBVIOUS
    <2>2. \A s \in semsEnDeadlock : ColumnaNoNula(espera, retiene, pcbsEnDeadlock', s)
        BY <2>1 DEF ColumnasHechas
    <2>3. \A p \in pcbsEnDeadlock' : FilaNoNula(espera, retiene, semsEnDeadlock, p)
        OBVIOUS
    <2> QED BY <2>2, <2>3 DEF Irreducibles
<1> QED BY <1>1, <1>2, <1>3, <1>4

\* The invariant of the loop of deadlock.c, for any matrices.
THEOREM IInvSiempre == SpecReduccion => []IInv
<1>1. IInv /\ [NextReduccion]_varsReduccion => IInv'
    <2> SUFFICES ASSUME IInv, [NextReduccion]_varsReduccion PROVE IInv'
        OBVIOUS
    <2>1. CASE EliminarColumnas
        BY <2>1, ColumnasIInv
    <2>2. CASE EliminarFilas
        BY <2>2, FilasIInv
    <2>3. CASE UNCHANGED varsReduccion
        BY <2>3 DEF varsReduccion, matrices, IInv, TypeOK, NoSacaDeMas, ColumnasHechas,
                    NadaQueSacar, Bloqueadas
    <2> QED BY <2>1, <2>2, <2>3 DEF NextReduccion
<1> QED BY InitIInv, <1>1, PTL DEF SpecReduccion

\* Whatever order the passes remove rows and columns in, the loop leaves the
\* greatest submatrix in which each row and column both waits and holds.
THEOREM QuedaLaMayorSiempre == SpecReduccion => []QuedaLaMayor
<1>1. IInv => QuedaLaMayor
    BY DEF IInv, QuedaLaMayor, NadaQueSacar
<1> QED BY IInvSiempre, <1>1, PTL

\* What is left is what Deteccion takes in one step: the rows of every submatrix
\* that cannot be reduced.
DejaLasIrreducibles ==
    paso = "fin" => pcbsEnDeadlock = PcbsIrreducibles(espera, retiene, Bloqueadas, Sems)

\* The loop of the code and the set that Deteccion works with are the same.
THEOREM DejaLasIrreduciblesSiempre == SpecReduccion => []DejaLasIrreducibles
<1> DEFINE Columnas(Q) == {s \in Sems : ColumnaNoNula(espera, retiene, Q, s)}
<1>1. IInv => DejaLasIrreducibles
    <2> SUFFICES ASSUME IInv, paso = "fin"
                 PROVE  pcbsEnDeadlock = PcbsIrreducibles(espera, retiene, Bloqueadas, Sems)
        BY DEF DejaLasIrreducibles
    <2>1. ASSUME NEW Q \in SUBSET Bloqueadas, Irreducibles(espera, retiene, Q, Columnas(Q))
          PROVE  Q \subseteq pcbsEnDeadlock
        BY <2>1 DEF IInv, NoSacaDeMas
    <2>2. ASSUME pcbsEnDeadlock # {}
          PROVE  Irreducibles(espera, retiene, pcbsEnDeadlock, Columnas(pcbsEnDeadlock))
        <3>1. Irreducibles(espera, retiene, pcbsEnDeadlock, semsEnDeadlock)
            BY <2>2 DEF IInv, NadaQueSacar
        <3>2. semsEnDeadlock \subseteq Columnas(pcbsEnDeadlock)
            BY <3>1 DEF IInv, TypeOK, Irreducibles
        <3>3. \A p \in pcbsEnDeadlock :
                 FilaNoNula(espera, retiene, Columnas(pcbsEnDeadlock), p)
            BY <3>1, <3>2, FilaCrece DEF Irreducibles
        <3> QED BY <3>3 DEF Irreducibles
    <2>3. pcbsEnDeadlock \subseteq Bloqueadas
        BY DEF IInv, TypeOK
    <2> QED BY <2>1, <2>2, <2>3 DEF PcbsIrreducibles
<1> QED BY IInvSiempre, <1>1, PTL
-----------------------------------------------------------------------------
(* What the submatrix left says of deadlocks.                              *)

\* With semaphores of one instance, the holder of what a PCB left waits for is
\* a PCB left too, since the column has one.
THEOREM SinFalsosDeadlocksSiempre == SpecReduccion => []SinFalsosDeadlocks
<1>1. IInv => SinFalsosDeadlocks
    <2> SUFFICES ASSUME IInv, paso = "fin",
                        \A p, q \in Pcbs : p # q => retiene[p] \cap retiene[q] = {},
                        NEW p \in pcbsEnDeadlock
                 PROVE  /\ \E q \in DOMAIN retiene : espera[p] \in retiene[q]
                        /\ \A q \in DOMAIN retiene :
                              espera[p] \in retiene[q] => q \in pcbsEnDeadlock
        BY DEF SinFalsosDeadlocks, EsDeadlock
    <2>1. DOMAIN retiene = Pcbs /\ pcbsEnDeadlock \subseteq Pcbs
        BY DEF IInv, TypeOK, Bloqueadas
    <2>2. Irreducibles(espera, retiene, pcbsEnDeadlock, semsEnDeadlock)
        BY DEF IInv, NadaQueSacar
    <2>3. espera[p] \in semsEnDeadlock
        BY <2>2 DEF Irreducibles, FilaNoNula
    <2>4. PICK q \in pcbsEnDeadlock : espera[p] \in retiene[q]
        BY <2>2, <2>3 DEF Irreducibles, ColumnaNoNula
    <2> QED BY <2>1, <2>4
<1> QED BY IInvSiempre, <1>1, PTL

\* The sets of PCBs of D that wait for each other: each waits for one that
\* another of the set holds.
Cerrados(D) == {K \in SUBSET D : K # {} /\ \A p \in K : \E q \in K : espera[p] \in retiene[q]}

\* A non-empty set of such sets has one that contains no other.
LEMMA CerradoMinimo ==
    ASSUME NEW D, IsFiniteSet(D), Cerrados(D) # {}
    PROVE  \E K \in Cerrados(D) : \A J \in Cerrados(D) : J \subseteq K => J = K
<1> DEFINE tamanos == {Cardinality(K) : K \in Cerrados(D)}
<1>1. \A K \in Cerrados(D) : IsFiniteSet(K) /\ Cardinality(K) \in Nat
    BY FS_Subset, FS_CardinalityType DEF Cerrados
<1>2. PICK n \in tamanos : \A m \in tamanos : ~ (<<m, n>> \in OpToRel(<, Nat))
    <2>1. tamanos \subseteq Nat /\ tamanos # {}
        BY <1>1
    <2> HIDE DEF tamanos
    <2> QED BY <2>1, NatLessThanWellFounded, WFMin
<1>3. PICK K \in Cerrados(D) : n = Cardinality(K)
    OBVIOUS
<1>4. SUFFICES ASSUME NEW J \in Cerrados(D), J \subseteq K, J # K PROVE FALSE
    BY <1>3
<1>5. Cardinality(J) < Cardinality(K)
    BY <1>1, <1>4, FS_Subset
<1>6. <<Cardinality(J), n>> \in OpToRel(<, Nat)
    BY <1>1, <1>3, <1>5 DEF OpToRel
<1> QED BY <1>2, <1>6

\* In a least one, each PCB holds what another waits for: without it the rest
\* would do.
LEMMA MinimoRetiene ==
    ASSUME NEW D, NEW K \in Cerrados(D), \A J \in Cerrados(D) : J \subseteq K => J = K,
           NEW p \in K
    PROVE  \E q \in K : espera[q] \in retiene[p]
<1> SUFFICES ASSUME \A q \in K : espera[q] \notin retiene[p] PROVE FALSE
    OBVIOUS
<1> DEFINE J == K \ {p}
<1>1. \A q \in K : \E t \in J : espera[q] \in retiene[t]
    BY DEF Cerrados
<1>2. J \in Cerrados(D)
    BY <1>1 DEF Cerrados
<1> QED BY <1>2

\* A deadlock contains a submatrix that cannot be reduced, and the passes keep it.
THEOREM VeLosDeadlocksSiempre == SpecReduccion => []VeLosDeadlocks
<1>1. IInv => VeLosDeadlocks
    <2> SUFFICES ASSUME IInv, NEW D \in SUBSET Bloqueadas, D # {},
                        EsDeadlock(espera, retiene, D)
                 PROVE  D \cap pcbsEnDeadlock # {}
        BY DEF VeLosDeadlocks
    <2>1. IsFiniteSet(D)
        BY PcbsFinitas, FS_Subset DEF Bloqueadas
    <2>2. D \in Cerrados(D)
        BY DEF Cerrados, EsDeadlock
    <2>3. PICK K \in Cerrados(D) : \A J \in Cerrados(D) : J \subseteq K => J = K
        BY <2>1, <2>2, CerradoMinimo
    <2> DEFINE S == {espera[q] : q \in K}
    <2>4. K \in SUBSET Bloqueadas /\ K # {}
        BY DEF Cerrados
    <2>5. S \in SUBSET Sems
        BY <2>4 DEF IInv, TypeOK, Bloqueadas
    <2>6. \A s \in S : ColumnaNoNula(espera, retiene, K, s)
        BY DEF ColumnaNoNula, Cerrados
    <2>7. \A p \in K : FilaNoNula(espera, retiene, S, p)
        BY <2>3, MinimoRetiene DEF FilaNoNula
    <2>8. Irreducibles(espera, retiene, K, S)
        BY <2>6, <2>7 DEF Irreducibles
    <2>9. K \subseteq pcbsEnDeadlock
        BY <2>4, <2>5, <2>8 DEF IInv, NoSacaDeMas
    <2> QED BY <2>4, <2>9 DEF Cerrados
<1> QED BY IInvSiempre, <1>1, PTL

-----------------------------------------------------------------------------
(* Folds.  Their definition goes through sets of indices; here it is turned  *)
(* into a function of 0..n that takes one element after another.             *)

\* Induction over the naturals, on a set.
LEMMA Induccion ==
    ASSUME NEW M, 0 \in M, \A k \in Nat : k \in M => k + 1 \in M
    PROVE  \A k \in Nat : k \in M
<1> DEFINE J == {k \in Nat : k \notin M}
<1> SUFFICES ASSUME J # {} PROVE FALSE
    OBVIOUS
<1>1. PICK x \in J : \A y \in J : ~ (<<y, x>> \in OpToRel(<, Nat))
    <2>1. J \in SUBSET Nat
        OBVIOUS
    <2> HIDE DEF J
    <2> QED BY <2>1, NatLessThanWellFounded, WFMin
<1>2. x \in Nat /\ x # 0 /\ x - 1 \in Nat /\ x - 1 < x
    OBVIOUS
<1>3. x - 1 \notin J
    BY <1>1, <1>2 DEF OpToRel
<1>4. x - 1 \in M
    BY <1>2, <1>3
<1>5. (x - 1) + 1 \in M
    BY <1>2, <1>4
<1> QED BY <1>2, <1>5

\* The greatest element of a set.
LEMMA MaximoEs ==
    ASSUME NEW s \in SUBSET Int, NEW m \in s, \A y \in s : m >= y
    PROVE  Max(s) = m
<1>1. \A x \in s : (\A y \in s : x >= y) => x = m
    OBVIOUS
<1> QED BY <1>1 DEF Max

\* The value of a fold over the indices 1..n at each set of them: F[i] is what it
\* does at the index i.
Pliega(F, n, C) == \A i \in 1..n, a \in C : F[i][a] \in C
EsPliegue(g, F, b, n, C) ==
    /\ g \in [SUBSET (1..n) -> C]
    /\ \A s \in SUBSET (1..n) :
          /\ s = {} => g[s] = b
          /\ s # {} => Max(s) \in s /\ g[s] = F[Max(s)][g[s \ {Max(s)}]]
HayPliegues(F, b, n, C) == \E g : EsPliegue(g, F, b, n, C)

\* There is one.
LEMMA HayPliegue ==
    ASSUME NEW C, NEW b \in C, NEW n \in Nat, NEW F, Pliega(F, n, C)
    PROVE  HayPliegues(F, b, n, C)
<1>0. \A i \in 1..n, a \in C : F[i][a] \in C
    BY DEF Pliega
<1> DEFINE Vale(k, g) == \A s \in SUBSET (1..k) :
              /\ s = {} => g[s] = b
              /\ s # {} => Max(s) \in s /\ g[s] = F[Max(s)][g[s \ {Max(s)}]]
           Hay(k) == \E g \in [SUBSET (1..k) -> C] : Vale(k, g)
           M == {k \in Nat : k <= n => Hay(k)}
<1>1. Hay(0)
    <2> DEFINE g == [s \in SUBSET (1..0) |-> b]
    <2>1. 1..0 = {}
        OBVIOUS
    <2>2. g \in [SUBSET (1..0) -> C] /\ Vale(0, g)
        BY <2>1
    <2> QED BY <2>2
<1>2. ASSUME NEW k \in Nat, k + 1 <= n, Hay(k) PROVE Hay(k + 1)
    <2>1. PICK g \in [SUBSET (1..k) -> C] : Vale(k, g)
        BY <1>2
    <2> DEFINE v(s) == F[k + 1][g[s \ {k + 1}]]
               G == [s \in SUBSET (1..(k + 1)) |-> IF k + 1 \in s THEN v(s) ELSE g[s]]
    <2>2. ASSUME NEW s \in SUBSET (1..(k + 1)), k + 1 \in s
          PROVE  /\ Max(s) = k + 1 /\ s \ {k + 1} \in SUBSET (1..k)
                 /\ G[s] = F[k + 1][G[s \ {k + 1}]] /\ G[s] \in C
        <3>1. Max(s) = k + 1
            BY <2>2, MaximoEs
        <3>2. s \ {k + 1} \in SUBSET (1..k) /\ s \ {k + 1} \in SUBSET (1..(k + 1))
            OBVIOUS
        <3>3. G[s \ {k + 1}] = g[s \ {k + 1}] /\ g[s \ {k + 1}] \in C
            BY <3>2
        <3>4. k + 1 \in 1..n
            BY <1>2
        <3>5. G[s] = v(s)
            <4> HIDE DEF v
            <4> QED BY <2>2
        <3> HIDE DEF G
        <3> QED BY <1>0, <3>1, <3>2, <3>3, <3>4, <3>5
    <2>3. ASSUME NEW s \in SUBSET (1..(k + 1)), k + 1 \notin s
          PROVE  /\ s \in SUBSET (1..k) /\ G[s] = g[s] /\ G[s] \in C
                 /\ s # {} => /\ Max(s) \in s /\ G[s] = F[Max(s)][g[s \ {Max(s)}]]
                              /\ G[s \ {Max(s)}] = g[s \ {Max(s)}]
        <3>1. s \in SUBSET (1..k)
            BY <2>3
        <3>2. G[s] = g[s] /\ g[s] \in C
            BY <2>3, <3>1
        <3>3. s \ {Max(s)} \in SUBSET (1..(k + 1)) /\ k + 1 \notin s \ {Max(s)}
            BY <2>3
        <3>4. G[s \ {Max(s)}] = g[s \ {Max(s)}]
            BY <3>3
        <3> QED BY <2>1, <3>1, <3>2, <3>4
    <2>4. G \in [SUBSET (1..(k + 1)) -> C]
        BY <2>2, <2>3
    <2>5. Vale(k + 1, G)
        <3> SUFFICES ASSUME NEW s \in SUBSET (1..(k + 1))
                     PROVE  /\ s = {} => G[s] = b
                            /\ s # {} => Max(s) \in s /\ G[s] = F[Max(s)][G[s \ {Max(s)}]]
            OBVIOUS
        <3>1. CASE k + 1 \in s
            BY <2>2, <3>1
        <3>2. CASE k + 1 \notin s
            BY <2>1, <2>3, <3>2
        <3> QED BY <3>1, <3>2
    <2> QED BY <2>4, <2>5
<1> HIDE DEF Hay
<1>3. 0 \in M /\ \A k \in Nat : k \in M => k + 1 \in M
    BY <1>1, <1>2
<1> HIDE DEF M
<1>4. n \in M
    BY <1>3, Induccion
<1>5. Hay(n)
    BY <1>4 DEF M
<1> QED BY <1>5 DEF Hay, HayPliegues, EsPliegue

\* The sets that the fold goes through are those of the first indices.
LEMMA Primeros ==
    ASSUME NEW n \in Nat, NEW i \in 1..n
    PROVE  /\ 1..i \in SUBSET (1..n) /\ 1..i # {} /\ Max(1..i) = i
           /\ (1..i) \ {i} = 1..(i - 1)
<1>1. i \in 1..i /\ \A y \in 1..i : i >= y
    OBVIOUS
<1>2. Max(1..i) = i
    <2>1. 1..i \in SUBSET Int
        OBVIOUS
    <2> QED BY <1>1, <2>1, MaximoEs
<1> QED BY <1>2


\* The same fold one index after another: g follows F on the sets where it stays in C,
\* and v is reached from b in n applications.
Sigue(g, F, b, n, C) ==
    /\ g[{}] = b
    /\ \A s \in SUBSET (1..n) : s # {} /\ Max(s) \in s /\ g[s \ {Max(s)}] \in C =>
           g[s] = F[Max(s)][g[s \ {Max(s)}]]
Llega(F, b, n, C, v) ==
    \E h \in [0..n -> C] : h[0] = b /\ (\A i \in 1..n : h[i] = F[i][h[i - 1]]) /\ h[n] = v

LEMMA EnFila ==
    ASSUME NEW C, NEW b \in C, NEW n \in Nat, NEW F, Pliega(F, n, C), NEW g,
           Sigue(g, F, b, n, C)
    PROVE  Llega(F, b, n, C, g[1..n])
<1> DEFINE h == [i \in 0..n |-> g[1..i]]
           M == {k \in Nat : k <= n => h[k] \in C}
<1>1. h[0] = b
    <2>1. 1..0 = {} /\ h[0] = g[1..0]
        OBVIOUS
    <2> HIDE DEF h
    <2> QED BY <2>1 DEF Sigue
<1>2. ASSUME NEW i \in 1..n, h[i - 1] \in C PROVE h[i] = F[i][h[i - 1]] /\ h[i] \in C
    <2>1. /\ 1..i \in SUBSET (1..n) /\ 1..i # {} /\ Max(1..i) = i
          /\ (1..i) \ {i} = 1..(i - 1)
        BY Primeros
    <2>2. h[i] = g[1..i] /\ h[i - 1] = g[1..(i - 1)]
        OBVIOUS
    <2>3. i \in 1..i
        OBVIOUS
    <2>4. g[1..i] = F[i][g[1..(i - 1)]]
        <3> HIDE DEF h
        <3> QED BY <1>2, <2>1, <2>2, <2>3 DEF Sigue
    <2> HIDE DEF h
    <2> QED BY <1>2, <2>2, <2>4 DEF Pliega
<1>3. DOMAIN h = 0..n /\ h = [k \in 0..n |-> h[k]] /\ h[n] = g[1..n]
    OBVIOUS
<1> HIDE DEF h
<1>4. 0 \in M
    BY <1>1
<1>5. ASSUME NEW k \in Nat, k \in M PROVE k + 1 \in M
    <2>1. ASSUME k + 1 <= n PROVE h[k + 1] \in C
        <3>1. k + 1 \in 1..n /\ (k + 1) - 1 = k /\ h[k] \in C
            BY <1>5, <2>1
        <3> QED BY <1>2, <3>1
    <2> QED BY <2>1
<1> HIDE DEF M
<1>6. \A k \in Nat : k \in M
    BY <1>4, <1>5, Induccion
<1>7. \A k \in 0..n : h[k] \in C
    BY <1>6 DEF M
<1>8. \A i \in 1..n : h[i] = F[i][h[i - 1]]
    <2> TAKE i \in 1..n
    <2>1. i - 1 \in 0..n
        OBVIOUS
    <2> QED BY <1>2, <1>7, <2>1
<1>9. h \in [0..n -> C]
    BY <1>3, <1>7
<1> QED BY <1>1, <1>3, <1>8, <1>9 DEF Llega

\* The choice of SJF, PCB after PCB.
LEMMA PliegueSJF ==
    ASSUME NEW n \in Nat, listas \in Seq(Procesos), Len(listas) = n + 1
    PROVE  \E h \in [0..n -> Procesos] :
              /\ h[0] = listas[1]
              /\ \A i \in 1..n : h[i] = MinimumEst(h[i - 1], listas[i + 1])
              /\ ElegirSJF = h[n]
<1> PICK b, l : b = Head(listas) /\ l = Tail(listas)
    OBVIOUS
<1>1. /\ b \in Procesos /\ b = listas[1] /\ DOMAIN l = 1..n
      /\ \A i \in 1..n : l[i] = listas[i + 1] /\ l[i] \in Procesos
    BY HeadTailProperties, LenProperties, ElementOfSeq
<1> PICK F : F = [i \in 1..n |-> [a \in Procesos |-> MinimumEst(a, l[i])]]
    OBVIOUS
<1>2. /\ \A a \in Procesos, i \in 1..n : F[i][a] = MinimumEst(a, l[i])
      /\ Pliega(F, n, Procesos)
    BY <1>1 DEF MinimumEst, Pliega
<1>3. PICK g : EsPliegue(g, F, b, n, Procesos)
    BY <1>1, <1>2, HayPliegue DEF HayPliegues
<1>4. g = [s \in SUBSET DOMAIN l |-> IF s = {} THEN b ELSE MinimumEst(g[s \ {Max(s)}], l[Max(s)])]
    <2>1. ASSUME NEW s \in SUBSET (1..n), s # {}
          PROVE  g[s] = MinimumEst(g[s \ {Max(s)}], l[Max(s)])
        <3>1. s \ {Max(s)} \in SUBSET (1..n) /\ Max(s) \in 1..n
            BY <1>3, <2>1 DEF EsPliegue
        <3>2. g[s \ {Max(s)}] \in Procesos
            BY <1>3, <3>1 DEF EsPliegue
        <3> QED BY <1>2, <1>3, <2>1, <3>1, <3>2 DEF EsPliegue
    <2>2. DOMAIN g = SUBSET (1..n) /\ g = [s \in SUBSET (1..n) |-> g[s]] /\ g[{}] = b
        BY <1>3 DEF EsPliegue
    <2> QED BY <1>1, <2>1, <2>2
<1>5. \E g2 : /\ g2 = [s \in SUBSET DOMAIN Tail(listas) |->
                           IF s = {} THEN Head(listas)
                           ELSE MinimumEst(g2[s \ {Max(s)}], Tail(listas)[Max(s)])]
              /\ ElegirSJF = g2[DOMAIN Tail(listas)]
    BY <1>4, Zenon DEF ElegirSJF, FoldLeft, MapThenFoldSet
<1>6. PICK g2 : /\ g2 = [s \in SUBSET DOMAIN l |->
                             IF s = {} THEN b ELSE MinimumEst(g2[s \ {Max(s)}], l[Max(s)])]
                /\ ElegirSJF = g2[DOMAIN l]
    BY <1>5
<1>7. g2[{}] = b
    BY <1>1, <1>6
<1>8. ASSUME NEW s \in SUBSET (1..n), s # {}, Max(s) \in s, g2[s \ {Max(s)}] \in Procesos
      PROVE  g2[s] = F[Max(s)][g2[s \ {Max(s)}]]
    <2>1. g2[s] = MinimumEst(g2[s \ {Max(s)}], l[Max(s)])
        BY <1>1, <1>6, <1>8
    <2> QED BY <1>2, <1>8, <2>1
<1>9. PICK h \in [0..n -> Procesos] :
          h[0] = b /\ (\A i \in 1..n : h[i] = F[i][h[i - 1]]) /\ h[n] = g2[1..n]
    <2>1. Sigue(g2, F, b, n, Procesos)
        BY <1>7, <1>8 DEF Sigue
    <2>2. Llega(F, b, n, Procesos, g2[1..n])
        BY <1>1, <1>2, <2>1, EnFila
    <2> QED BY <2>2 DEF Llega
<1>10. \A i \in 1..n : i - 1 \in 0..n /\ h[i] = MinimumEst(h[i - 1], listas[i + 1])
    BY <1>1, <1>2, <1>9
<1> QED BY <1>1, <1>6, <1>9, <1>10

\* The choice of HRRN, PCB after PCB.
LEMMA PliegueHRRN ==
    ASSUME NEW n \in Nat, listas \in Seq(Procesos), Len(listas) = n + 1
    PROVE  \E h \in [0..n -> Procesos] :
              /\ h[0] = listas[1]
              /\ \A i \in 1..n : h[i] = ElMayor(h[i - 1], listas[i + 1])
              /\ ElegirHRRN = h[n]
<1> PICK b, l : b = Head(listas) /\ l = Tail(listas)
    OBVIOUS
<1>1. /\ b \in Procesos /\ b = listas[1] /\ DOMAIN l = 1..n
      /\ \A i \in 1..n : l[i] = listas[i + 1] /\ l[i] \in Procesos
    BY HeadTailProperties, LenProperties, ElementOfSeq
<1> PICK F : F = [i \in 1..n |-> [a \in Procesos |-> ElMayor(a, l[i])]]
    OBVIOUS
<1>2. /\ \A a \in Procesos, i \in 1..n : F[i][a] = ElMayor(a, l[i])
      /\ Pliega(F, n, Procesos)
    BY <1>1 DEF ElMayor, Pliega
<1>3. PICK g : EsPliegue(g, F, b, n, Procesos)
    BY <1>1, <1>2, HayPliegue DEF HayPliegues
<1>4. g = [s \in SUBSET DOMAIN l |-> IF s = {} THEN b ELSE ElMayor(g[s \ {Max(s)}], l[Max(s)])]
    <2>1. ASSUME NEW s \in SUBSET (1..n), s # {}
          PROVE  g[s] = ElMayor(g[s \ {Max(s)}], l[Max(s)])
        <3>1. s \ {Max(s)} \in SUBSET (1..n) /\ Max(s) \in 1..n
            BY <1>3, <2>1 DEF EsPliegue
        <3>2. g[s \ {Max(s)}] \in Procesos
            BY <1>3, <3>1 DEF EsPliegue
        <3> QED BY <1>2, <1>3, <2>1, <3>1, <3>2 DEF EsPliegue
    <2>2. DOMAIN g = SUBSET (1..n) /\ g = [s \in SUBSET (1..n) |-> g[s]] /\ g[{}] = b
        BY <1>3 DEF EsPliegue
    <2> QED BY <1>1, <2>1, <2>2
<1>5. \E g2 : /\ g2 = [s \in SUBSET DOMAIN Tail(listas) |->
                           IF s = {} THEN Head(listas)
                           ELSE ElMayor(g2[s \ {Max(s)}], Tail(listas)[Max(s)])]
              /\ ElegirHRRN = g2[DOMAIN Tail(listas)]
    BY <1>4, Zenon DEF ElegirHRRN, FoldLeft, MapThenFoldSet
<1>6. PICK g2 : /\ g2 = [s \in SUBSET DOMAIN l |->
                             IF s = {} THEN b ELSE ElMayor(g2[s \ {Max(s)}], l[Max(s)])]
                /\ ElegirHRRN = g2[DOMAIN l]
    BY <1>5
<1>7. g2[{}] = b
    BY <1>1, <1>6
<1>8. ASSUME NEW s \in SUBSET (1..n), s # {}, Max(s) \in s, g2[s \ {Max(s)}] \in Procesos
      PROVE  g2[s] = F[Max(s)][g2[s \ {Max(s)}]]
    <2>1. g2[s] = ElMayor(g2[s \ {Max(s)}], l[Max(s)])
        BY <1>1, <1>6, <1>8
    <2> QED BY <1>2, <1>8, <2>1
<1>9. PICK h \in [0..n -> Procesos] :
          h[0] = b /\ (\A i \in 1..n : h[i] = F[i][h[i - 1]]) /\ h[n] = g2[1..n]
    <2>1. Sigue(g2, F, b, n, Procesos)
        BY <1>7, <1>8 DEF Sigue
    <2>2. Llega(F, b, n, Procesos, g2[1..n])
        BY <1>1, <1>2, <2>1, EnFila
    <2> QED BY <2>2 DEF Llega
<1>10. \A i \in 1..n : i - 1 \in 0..n /\ h[i] = ElMayor(h[i - 1], listas[i + 1])
    BY <1>1, <1>2, <1>9
<1> QED BY <1>1, <1>6, <1>9, <1>10

\* Sums and products of naturals, as the provers want them said.
LEMMA SumaNat ==
    ASSUME NEW x \in Nat, NEW y \in Nat
    PROVE  x + y \in Nat
OBVIOUS

LEMMA ProductoNat ==
    ASSUME NEW x \in Nat, NEW y \in Nat
    PROVE  x * y \in Nat
OBVIOUS

\* What the powers are.
LEMMA Potencias ==
    ASSUME NEW b \in Nat
    PROVE  /\ Potencia(b) \in [0..MaxRafagas -> Nat]
           /\ Potencia(b)[0] = 1
           /\ \A k \in 1..MaxRafagas : Potencia(b)[k] = b * Potencia(b)[k - 1]
<1> PICK n : n = MaxRafagas
    OBVIOUS
<1>0. n \in Nat
    BY ConstantesSeleccionOK DEF ConstantesSeleccionOK
<1> PICK F : F = [i \in 1..n |-> [a \in Nat |-> b * a]]
    OBVIOUS
<1>1. (\A i \in 1..n, a \in Nat : F[i][a] = b * a) /\ Pliega(F, n, Nat)
    BY DEF Pliega
<1>2. PICK g : EsPliegue(g, F, 1, n, Nat)
    <2>1. 1 \in Nat
        OBVIOUS
    <2>2. HayPliegues(F, 1, n, Nat)
        BY <1>0, <1>1, <2>1, HayPliegue
    <2> QED BY <2>2 DEF HayPliegues
<1>3. PICK h \in [0..n -> Nat] : h[0] = 1 /\ \A i \in 1..n : h[i] = F[i][h[i - 1]]
    <2>1. Sigue(g, F, 1, n, Nat)
        BY <1>2 DEF EsPliegue, Sigue
    <2>2. 1 \in Nat
        OBVIOUS
    <2>3. Llega(F, 1, n, Nat, g[1..n])
        BY <1>0, <1>1, <2>1, <2>2, EnFila
    <2> QED BY <2>3 DEF Llega
<1>4. h = [k \in 0..n |-> IF k = 0 THEN 1 ELSE b * h[k - 1]]
    <2>1. ASSUME NEW k \in 0..n, k # 0 PROVE h[k] = b * h[k - 1]
        <3>1. k \in 1..n /\ k - 1 \in 0..n
            BY <1>0, <2>1
        <3> QED BY <1>1, <1>3, <3>1
    <2> QED BY <1>3, <2>1
<1>5. \E f : f = [k \in 0..MaxRafagas |-> IF k = 0 THEN 1 ELSE b * f[k - 1]] /\ Potencia(b) = f
    BY <1>4, Zenon DEF Potencia
<1>6. PICK f : f = [k \in 0..n |-> IF k = 0 THEN 1 ELSE b * f[k - 1]] /\ Potencia(b) = f
    BY <1>5
<1> DEFINE M == {k \in Nat : k <= n => f[k] \in Nat}
<1>7. DOMAIN f = 0..n /\ f = [k \in 0..n |-> f[k]] /\ f[0] = 1
    BY <1>0, <1>6
<1>8. ASSUME NEW k \in 1..n PROVE f[k] = b * f[k - 1]
    <2>1. k \in 0..n /\ k # 0
        BY <1>0
    <2> QED BY <1>6, <2>1
<1>9. 0 \in M
    BY <1>7
<1>10. ASSUME NEW k \in Nat, k \in M PROVE k + 1 \in M
    <2>1. ASSUME k + 1 <= n PROVE f[k + 1] \in Nat
        <3>1. k + 1 \in 1..n /\ (k + 1) - 1 = k /\ f[k] \in Nat
            BY <1>0, <1>10, <2>1
        <3>2. f[k + 1] = b * f[k]
            BY <1>8, <3>1
        <3> QED BY <3>1, <3>2, ProductoNat
    <2> QED BY <2>1
<1> HIDE DEF M
<1>11. \A k \in Nat : k \in M
    BY <1>9, <1>10, Induccion
<1>12. \A k \in 0..n : f[k] \in Nat
    BY <1>11 DEF M
<1>13. f \in [0..n -> Nat]
    BY <1>7, <1>12
<1> QED BY <1>6, <1>7, <1>8, <1>13

\* A weight is a natural.
LEMMA PesoEsNat ==
    ASSUME NEW a \in 0..2, NEW n \in Nat, n <= MaxRafagas, NEW i \in 1..n
    PROVE  Peso(a, i, n) \in Nat
<1>1. 2 - a \in Nat /\ 2 \in Nat /\ n - i \in 0..MaxRafagas /\ i - 1 \in 0..MaxRafagas
    BY ConstantesSeleccionOK DEF ConstantesSeleccionOK
<1>2. Potencia(2 - a)[n - i] \in Nat /\ Potencia(2)[i - 1] \in Nat
    BY <1>1, Potencias
<1> QED BY <1>2 DEF Peso

\* The fold that adds, as a function of the sets it goes through.
EsSuma(g, l) ==
    g = [s \in SUBSET DOMAIN l |-> IF s = {} THEN 0 ELSE g[s \ {Max(s)}] + l[Max(s)]]
\* FoldLeft of + is such a sum.
LEMMA SumaEsPliegue ==
    ASSUME NEW l, NEW g, EsSuma(g, l)
    PROVE  \E g2 : EsSuma(g2, l) /\ FoldLeft(+, 0, l) = g2[DOMAIN l]
BY Zenon DEF EsSuma, FoldLeft, MapThenFoldSet

\* The weighted sum of bursts, burst after burst.
HaySuma(a, e, r) ==
    \E h \in [0..Len(r) -> Nat] :
        /\ h[0] = 0
        /\ \A i \in 1..Len(r) : h[i] = h[i - 1] + Peso(a, i, Len(r)) * r[i]
        /\ Promedio(a, e, r) = Potencia(2 - a)[Len(r)] * e + h[Len(r)]
LEMMA PliegueSuma ==
    ASSUME NEW a \in 0..2, NEW e \in Nat, NEW r \in Seq(Nat), Len(r) <= MaxRafagas
    PROVE  HaySuma(a, e, r)
<1> PICK n, l : n = Len(r) /\ l = [i \in DOMAIN r |-> Peso(a, i, Len(r)) * r[i]]
    OBVIOUS
<1>1. n \in Nat /\ DOMAIN l = 1..n /\ \A i \in 1..n : l[i] = Peso(a, i, n) * r[i]
    BY LenProperties
<1>0. \A i \in 1..n : l[i] \in Nat
    <2>1. \A i \in 1..n : r[i] \in Nat
        BY <1>1, ElementOfSeq
    <2>2. \A i \in 1..n : Peso(a, i, n) \in Nat
        BY <1>1, PesoEsNat
    <2> QED BY <1>1, <2>1, <2>2, ProductoNat
<1> PICK F : F = [i \in 1..n |-> [c \in Nat |-> c + l[i]]]
    OBVIOUS
<1>2. (\A c \in Nat, i \in 1..n : F[i][c] = c + l[i]) /\ Pliega(F, n, Nat)
    <2>1. \A c \in Nat, i \in 1..n : F[i][c] = c + l[i]
        OBVIOUS
    <2>2. \A c \in Nat, i \in 1..n : c + l[i] \in Nat
        BY <1>0, SumaNat
    <2> QED BY <2>1, <2>2 DEF Pliega
<1>3. PICK g : EsPliegue(g, F, 0, n, Nat)
    <2>1. 0 \in Nat
        OBVIOUS
    <2>2. HayPliegues(F, 0, n, Nat)
        BY <1>1, <1>2, <2>1, HayPliegue
    <2> QED BY <2>2 DEF HayPliegues
<1>4. g = [s \in SUBSET DOMAIN l |-> IF s = {} THEN 0 ELSE g[s \ {Max(s)}] + l[Max(s)]]
    <2>1. ASSUME NEW s \in SUBSET (1..n), s # {}
          PROVE  g[s] = g[s \ {Max(s)}] + l[Max(s)]
        <3>1. s \ {Max(s)} \in SUBSET (1..n) /\ Max(s) \in 1..n
            BY <1>3, <2>1 DEF EsPliegue
        <3>2. g[s \ {Max(s)}] \in Nat
            BY <1>3, <3>1 DEF EsPliegue
        <3>3. g[s] = F[Max(s)][g[s \ {Max(s)}]]
            BY <1>3, <2>1 DEF EsPliegue
        <3> QED BY <1>2, <3>1, <3>2, <3>3
    <2>2. DOMAIN g = SUBSET (1..n) /\ g = [s \in SUBSET (1..n) |-> g[s]] /\ g[{}] = 0
        BY <1>3 DEF EsPliegue
    <2> QED BY <1>1, <2>1, <2>2
<1>5. PICK g2 : EsSuma(g2, l) /\ FoldLeft(+, 0, l) = g2[DOMAIN l]
    <2>1. EsSuma(g, l)
        BY <1>4 DEF EsSuma
    <2> QED BY <2>1, SumaEsPliegue
<1>6. g2 = [s \in SUBSET DOMAIN l |-> IF s = {} THEN 0 ELSE g2[s \ {Max(s)}] + l[Max(s)]]
    BY <1>5 DEF EsSuma
<1>7. g2[{}] = 0
    BY <1>1, <1>6
<1>8. ASSUME NEW s \in SUBSET (1..n), s # {}, Max(s) \in s, g2[s \ {Max(s)}] \in Nat
      PROVE  g2[s] = F[Max(s)][g2[s \ {Max(s)}]]
    <2>1. g2[s] = g2[s \ {Max(s)}] + l[Max(s)]
        BY <1>1, <1>6, <1>8
    <2> QED BY <1>2, <1>8, <2>1
<1>9. PICK h \in [0..n -> Nat] :
          h[0] = 0 /\ (\A i \in 1..n : h[i] = F[i][h[i - 1]]) /\ h[n] = g2[1..n]
    <2>1. 0 \in Nat
        OBVIOUS
    <2>2. Sigue(g2, F, 0, n, Nat)
        BY <1>7, <1>8 DEF Sigue
    <2>3. Llega(F, 0, n, Nat, g2[1..n])
        BY <1>1, <1>2, <2>1, <2>2, EnFila
    <2> QED BY <2>3 DEF Llega
<1>10. ASSUME NEW i \in 1..n PROVE h[i] = h[i - 1] + Peso(a, i, n) * r[i]
    <2>1. i - 1 \in 0..n
        BY <1>1
    <2>2. h[i - 1] \in Nat
        BY <1>9, <2>1
    <2>3. h[i] = h[i - 1] + l[i]
        BY <1>2, <1>9, <2>2
    <2> QED BY <1>1, <2>3
<1>11. Promedio(a, e, r) = Potencia(2 - a)[n] * e + h[n]
    BY <1>1, <1>5, <1>9 DEF Promedio
<1> QED BY <1>9, <1>10, <1>11 DEF HaySuma

-----------------------------------------------------------------------------
(* The choice among the PCBs of READY.                                      *)

TipoSeleccion ==
    /\ algoritmo \in {"SJF", "HRRN"} /\ alfa \in 0..2 /\ inicial \in Nat
    /\ ahora \in Nat /\ inicio \in Nat /\ inicio <= ahora
    /\ listas \in Seq(Procesos)
    /\ est \in [Procesos -> Nat]
    /\ desde \in [Procesos -> Nat] /\ \A p \in Procesos : desde[p] <= ahora
    /\ enExec \in Procesos \cup {Ninguna}
    /\ rafagas \in [Procesos -> Seq(Nat)]

\* What pcb_minimum_est keeps of the first k + 1 is the first of the least estimates.
LEMMA MejorSJF ==
    ASSUME TipoSeleccion, listas # <<>>
    PROVE  \E i \in DOMAIN listas : ElegirSJF = listas[i] /\ MenorEstimado(i)
<1> PICK n : n = Len(listas) - 1
    OBVIOUS
<1>1. n \in Nat /\ Len(listas) = n + 1 /\ DOMAIN listas = 1..(n + 1)
    BY LenProperties, EmptySeq DEF TipoSeleccion
<1>2. PICK h \in [0..n -> Procesos] :
          /\ h[0] = listas[1]
          /\ \A i \in 1..n : h[i] = MinimumEst(h[i - 1], listas[i + 1])
          /\ ElegirSJF = h[n]
    BY <1>1, PliegueSJF DEF TipoSeleccion
<1>3. \A i \in 1..(n + 1) : est[listas[i]] \in Nat
    BY <1>1, ElementOfSeq DEF TipoSeleccion
<1> DEFINE Mejor(k, i) ==
               /\ h[k] = listas[i]
               /\ \A j \in 1..(k + 1) : est[listas[i]] <= est[listas[j]]
               /\ \A j \in 1..(i - 1) : est[listas[i]] < est[listas[j]]
           M == {k \in Nat : k <= n => \E i \in 1..(k + 1) : Mejor(k, i)}
<1>4. 0 \in M
    <2>1. Mejor(0, 1)
        BY <1>1, <1>2, <1>3
    <2> QED BY <2>1
<1>5. ASSUME NEW k \in Nat, k + 1 <= n, NEW i \in 1..(k + 1), Mejor(k, i)
      PROVE  \E j \in 1..(k + 2) : Mejor(k + 1, j)
    <2>1. h[k + 1] = MinimumEst(listas[i], listas[k + 2])
        <3>1. k + 1 \in 1..n /\ (k + 1) - 1 = k /\ (k + 1) + 1 = k + 2
            BY <1>1, <1>5
        <3> QED BY <1>2, <1>5, <3>1
    <2>2. est[listas[i]] \in Nat /\ est[listas[k + 2]] \in Nat
        BY <1>1, <1>3, <1>5
    <2>3. CASE est[listas[i]] <= est[listas[k + 2]]
        <3>1. Mejor(k + 1, i)
            BY <1>5, <2>1, <2>3 DEF MinimumEst
        <3> QED BY <3>1
    <2>4. CASE ~ (est[listas[i]] <= est[listas[k + 2]])
        <3>1. ASSUME NEW j \in 1..(k + 1) PROVE est[listas[k + 2]] < est[listas[j]]
            <4>1. j \in 1..(n + 1) /\ est[listas[i]] <= est[listas[j]]
                BY <1>1, <1>5
            <4>2. est[listas[j]] \in Nat
                BY <1>3, <4>1
            <4> QED BY <2>2, <2>4, <4>1, <4>2
        <3>2. h[k + 1] = listas[k + 2]
            BY <2>1, <2>4 DEF MinimumEst
        <3>3. /\ \A j \in 1..((k + 1) + 1) : est[listas[k + 2]] <= est[listas[j]]
              /\ \A j \in 1..((k + 2) - 1) : est[listas[k + 2]] < est[listas[j]]
            <4>1. \A j \in 1..((k + 1) + 1) : j \in 1..(k + 1) \/ j = k + 2
                OBVIOUS
            <4>2. (k + 2) - 1 = k + 1
                OBVIOUS
            <4>3. \A j \in 1..(k + 1) : est[listas[j]] \in Nat
                BY <1>1, <1>3, <1>5
            <4> QED BY <2>2, <3>1, <4>1, <4>2, <4>3
        <3> QED BY <3>2, <3>3
    <2> QED BY <2>3, <2>4
<1>6. \A k \in Nat : k \in M => k + 1 \in M
    <2> TAKE k \in Nat
    <2>1. (k + 1) + 1 = k + 2
        OBVIOUS
    <2> HIDE DEF Mejor
    <2> QED BY <1>1, <1>5, <2>1
<1> HIDE DEF M
<1>7. n \in M
    BY <1>1, <1>4, <1>6, Induccion
<1>8. PICK i \in 1..(n + 1) : Mejor(n, i)
    BY <1>1, <1>7 DEF M
<1> QED BY <1>1, <1>2, <1>8 DEF MenorEstimado

\* One ratio over another: x/s is a ratio of a wait and an estimate.
RatioNaN(x, s) == s = 0 /\ x = 0
RatioInf(x, s) == s = 0 /\ x # 0
RatioMayor(x, s, y, t) ==
    \/ RatioInf(x, s) /\ ~RatioInf(y, t)
    \/ ~RatioInf(x, s) /\ ~RatioInf(y, t) /\ x * t > y * s

\* Multiplying by a positive keeps the order, ...
LEMMA PorUnPositivo ==
    ASSUME NEW x \in Nat, NEW y \in Nat, NEW z \in Nat, z > 0
    PROVE  x > y <=> x * z > y * z
OBVIOUS

\* ... so for ratios that are not 0/0 the product is the comparison, ...
LEMMA RatioProducto ==
    ASSUME NEW x \in Nat, NEW s \in Nat, NEW y \in Nat, NEW t \in Nat, ~RatioNaN(y, t)
    PROVE  x * t > y * s <=> ~RatioNaN(x, s) /\ RatioMayor(x, s, y, t)
<1>1. CASE t = 0
    <2>1. y * s >= 0 /\ x * t = 0
        BY <1>1, ProductoNat
    <2> QED BY <1>1, <2>1 DEF RatioNaN, RatioInf, RatioMayor
<1>2. CASE t # 0 /\ s = 0
    <2>1. y * s = 0
        BY <1>2
    <2>2. x * t > 0 <=> x # 0
        <3>1. CASE x = 0
            BY <3>1
        <3>2. CASE x # 0
            <4>1. x > 0 /\ t > 0 /\ 0 * t = 0
                BY <1>2, <3>2
            <4> QED BY <3>2, <4>1, PorUnPositivo
        <3> QED BY <3>1, <3>2
    <2> QED BY <1>2, <2>1, <2>2 DEF RatioNaN, RatioInf, RatioMayor
<1>3. CASE t # 0 /\ s # 0
    BY <1>3 DEF RatioNaN, RatioInf, RatioMayor
<1> QED BY <1>1, <1>2, <1>3

\* ... and what exceeds a ratio exceeds all that do not.
LEMMA RatioTransitivo ==
    ASSUME NEW x \in Nat, NEW s \in Nat, NEW y \in Nat, NEW t \in Nat, NEW z \in Nat, NEW u \in Nat,
           ~RatioNaN(x, s), ~RatioNaN(y, t), ~RatioNaN(z, u),
           RatioMayor(x, s, y, t), ~RatioMayor(z, u, y, t)
    PROVE  RatioMayor(x, s, z, u) /\ ~RatioMayor(z, u, x, s)
<1>1. ~RatioInf(y, t) /\ ~RatioInf(z, u) /\ t > 0 /\ u > 0
    BY DEF RatioNaN, RatioInf, RatioMayor
<1>2. CASE RatioInf(x, s)
    BY <1>1, <1>2 DEF RatioMayor
<1>3. CASE ~RatioInf(x, s)
    <2>1. s > 0 /\ x * t > y * s /\ ~ (z * t > y * u)
        BY <1>1, <1>3 DEF RatioNaN, RatioInf, RatioMayor
    <2> DEFINE xt == x * t  ys == y * s  zt == z * t  yu == y * u  xu == x * u  zs == z * s
    <2>2. xt \in Nat /\ ys \in Nat /\ zt \in Nat /\ yu \in Nat /\ xu \in Nat /\ zs \in Nat
        BY ProductoNat
    <2>3. xt * u = xu * t /\ ys * u = yu * s /\ zt * s = zs * t
        OBVIOUS
    <2> HIDE DEF xt, ys, zt, yu, xu, zs
    <2>4. xt * u > ys * u /\ ~ (zt * s > yu * s)
        BY <1>1, <2>1, <2>2, PorUnPositivo DEF xt, ys, zt, yu
    <2>5. /\ xt * u \in Nat /\ ys * u \in Nat /\ zt * s \in Nat /\ yu * s \in Nat
        BY <2>2, ProductoNat
    <2>6. xu * t > zs * t
        BY <2>3, <2>4, <2>5
    <2>7. xu > zs
        BY <1>1, <2>2, <2>6, PorUnPositivo
    <2> QED BY <1>1, <1>3, <2>2, <2>7 DEF RatioMayor, xu, zs
<1> QED BY <1>2, <1>3

\* What the loop of elegir_en_base_a_hrrn keeps of the first k + 1 is the first of the
\* greatest ratios, or the first PCB of all if its ratio is 0/0.
LEMMA MejorHRRN ==
    ASSUME TipoSeleccion, listas # <<>>
    PROVE  \E i \in DOMAIN listas :
              /\ ElegirHRRN = listas[i]
              /\ IF NaN(1) THEN i = 1 ELSE ~NaN(i) /\ MayorDeLosRatios(i)
<1> PICK n : n = Len(listas) - 1
    OBVIOUS
<1>1. n \in Nat /\ Len(listas) = n + 1 /\ DOMAIN listas = 1..(n + 1)
    BY LenProperties, EmptySeq DEF TipoSeleccion
<1>2. PICK h \in [0..n -> Procesos] :
          /\ h[0] = listas[1]
          /\ \A i \in 1..n : h[i] = ElMayor(h[i - 1], listas[i + 1])
          /\ ElegirHRRN = h[n]
    BY <1>1, PliegueHRRN DEF TipoSeleccion
<1>3. ASSUME NEW i \in 1..(n + 1)
      PROVE  /\ est[listas[i]] \in Nat /\ Espero(listas[i]) \in Nat
             /\ NaN(i) <=> RatioNaN(Espero(listas[i]), est[listas[i]])
    <2>1. listas[i] \in Procesos
        BY <1>1, ElementOfSeq DEF TipoSeleccion
    <2>2. est[listas[i]] \in Nat
        BY <2>1 DEF TipoSeleccion
    <2>3. ahora \in Nat /\ desde[listas[i]] \in Nat /\ desde[listas[i]] <= ahora
        BY <2>1 DEF TipoSeleccion
    <2>4. Espero(listas[i]) \in Nat
        BY ONLY <2>3 DEF Espero
    <2>5. NaN(i) <=> RatioNaN(Espero(listas[i]), est[listas[i]])
        BY ONLY ZenonT(20) DEF NaN, RatioNaN
    <2> QED BY <2>2, <2>4, <2>5
<1>4. ASSUME NEW i \in 1..(n + 1), NEW j \in 1..(n + 1)
      PROVE  Supera(i, j) <=> RatioMayor(Espero(listas[i]), est[listas[i]],
                                         Espero(listas[j]), est[listas[j]])
    BY DEF Supera, Infinito, RatioMayor, RatioInf
<1>5. ASSUME NEW i \in 1..(n + 1), NEW j \in 1..(n + 1), ~NaN(i)
      PROVE  MayorRatio(listas[j], listas[i]) <=> ~NaN(j) /\ Supera(j, i)
    BY <1>3, <1>4, <1>5, RatioProducto DEF MayorRatio
<1>6. ASSUME NEW i \in 1..(n + 1), NEW j \in 1..(n + 1), NEW m \in 1..(n + 1),
             ~NaN(i), ~NaN(j), ~NaN(m), Supera(m, i), ~Supera(j, i)
      PROVE  Supera(m, j) /\ ~Supera(j, m)
    <2> PICK x, s, y, t, z, u : /\ x = Espero(listas[m]) /\ s = est[listas[m]]
                                /\ y = Espero(listas[i]) /\ t = est[listas[i]]
                                /\ z = Espero(listas[j]) /\ u = est[listas[j]]
        OBVIOUS
    <2>1. x \in Nat /\ s \in Nat /\ y \in Nat /\ t \in Nat /\ z \in Nat /\ u \in Nat
        BY <1>3
    <2>2. ~RatioNaN(x, s) /\ ~RatioNaN(y, t) /\ ~RatioNaN(z, u)
        BY <1>3, <1>6
    <2>3. RatioMayor(x, s, y, t) /\ ~RatioMayor(z, u, y, t)
        BY <1>4, <1>6
    <2>4. RatioMayor(x, s, z, u)
        BY ONLY <2>1, <2>2, <2>3, RatioTransitivo, SMTT(30)
    <2>5. ~RatioMayor(z, u, x, s)
        BY ONLY <2>1, <2>2, <2>3, RatioTransitivo, SMTT(30)
    <2> QED BY <1>4, <2>4, <2>5
<1>7. ASSUME NEW i \in 1..(n + 1) PROVE ~Supera(i, i)
    <2>1. est[listas[i]] \in Nat /\ Espero(listas[i]) \in Nat
        BY <1>3
    <2>2. Espero(listas[i]) * est[listas[i]] \in Nat
        BY <2>1, ProductoNat
    <2> QED BY <2>2 DEF Supera
<1> DEFINE Mejor(k, i) ==
               /\ h[k] = listas[i]
               /\ IF NaN(1) THEN i = 1
                  ELSE /\ ~NaN(i)
                       /\ \A j \in 1..(k + 1) : ~NaN(j) =>
                              ~Supera(j, i) /\ (j < i => Supera(i, j))
           M == {k \in Nat : k <= n => \E i \in 1..(k + 1) : Mejor(k, i)}
<1>8. 0 \in M
    <2>1. 1 \in 1..(n + 1) /\ \A j \in 1..(0 + 1) : j = 1
        BY <1>1
    <2>2. Mejor(0, 1)
        BY <1>2, <1>7, <2>1
    <2> QED BY <2>2
<1>9. ASSUME NEW k \in Nat, k + 1 <= n, NEW i \in 1..(k + 1), Mejor(k, i)
      PROVE  \E j \in 1..(k + 2) : Mejor(k + 1, j)
    <2>1. h[k + 1] = ElMayor(listas[i], listas[k + 2])
        <3>1. k + 1 \in 1..n /\ (k + 1) - 1 = k /\ (k + 1) + 1 = k + 2
            BY <1>1, <1>9
        <3> QED BY <1>2, <1>9, <3>1
    <2>2. i \in 1..(n + 1) /\ k + 2 \in 1..(n + 1) /\ i \in 1..(k + 2) /\ k + 2 \in 1..(k + 2)
        BY <1>1, <1>9
    <2>3. \A j \in 1..((k + 1) + 1) : j \in 1..(n + 1) /\ (j \in 1..(k + 1) \/ j = k + 2)
        BY <1>1, <1>9
    <2>4. CASE NaN(1)
        <3>1. i = 1
            BY <1>9, <2>4
        <3>2. ~MayorRatio(listas[k + 2], listas[1])
            <4>1. est[listas[1]] = 0 /\ Espero(listas[1]) = 0
                BY <2>4 DEF NaN
            <4>2. est[listas[k + 2]] \in Nat /\ Espero(listas[k + 2]) \in Nat
                BY <1>3, <2>2
            <4> QED BY <4>1, <4>2 DEF MayorRatio
        <3>3. Mejor(k + 1, i)
            BY <1>9, <2>1, <2>4, <3>1, <3>2 DEF ElMayor
        <3> QED BY <2>2, <3>3
    <2>5. CASE ~NaN(1) /\ ~MayorRatio(listas[k + 2], listas[i])
        <3>1. ~NaN(i) /\ h[k + 1] = listas[i]
            BY <1>9, <2>1, <2>5 DEF ElMayor
        <3>2. ~NaN(k + 2) => ~Supera(k + 2, i)
            BY <1>5, <2>2, <2>5, <3>1
        <3>3. ~ (k + 2 < i)
            BY <1>9
        <3>4. Mejor(k + 1, i)
            BY <1>9, <2>3, <2>5, <3>1, <3>2, <3>3
        <3> QED BY <2>2, <3>4
    <2>6. CASE ~NaN(1) /\ MayorRatio(listas[k + 2], listas[i])
        <3>1. ~NaN(i) /\ h[k + 1] = listas[k + 2]
            BY <1>9, <2>1, <2>6 DEF ElMayor
        <3>2. ~NaN(k + 2) /\ Supera(k + 2, i)
            BY <1>5, <2>2, <2>6, <3>1
        <3>3. \A j \in 1..(k + 1) : ~NaN(j) => Supera(k + 2, j) /\ ~Supera(j, k + 2)
            BY <1>6, <1>9, <2>2, <2>3, <2>6, <3>1, <3>2
        <3>4. ~Supera(k + 2, k + 2) /\ ~ (k + 2 < k + 2)
            BY <1>7, <2>2
        <3>5. \A j \in 1..((k + 1) + 1) : ~NaN(j) =>
                  ~Supera(j, k + 2) /\ (j < k + 2 => Supera(k + 2, j))
            BY <2>3, <3>3, <3>4
        <3>6. Mejor(k + 1, k + 2)
            BY <2>6, <3>1, <3>2, <3>5
        <3> QED BY <2>2, <3>6
    <2> QED BY <2>4, <2>5, <2>6
<1>10. \A k \in Nat : k \in M => k + 1 \in M
    <2> TAKE k \in Nat
    <2>1. (k + 1) + 1 = k + 2
        OBVIOUS
    <2> HIDE DEF Mejor
    <2> QED BY <1>1, <1>9, <2>1
<1> HIDE DEF M
<1>11. n \in M
    BY <1>1, <1>8, <1>10, Induccion
<1>12. PICK i \in 1..(n + 1) : Mejor(n, i)
    BY <1>1, <1>11 DEF M
<1> QED BY <1>1, <1>2, <1>12 DEF MayorDeLosRatios

\* Whichever the algorithm, the choice is the best of READY.
LEMMA Elige == TipoSeleccion => EligeAlMejor
<1> SUFFICES ASSUME TipoSeleccion, listas # <<>>
             PROVE  \E i \in DOMAIN listas :
                       /\ Elegida = listas[i]
                       /\ CASE algoritmo = "SJF" -> MenorEstimado(i)
                            [] algoritmo = "HRRN" /\ NaN(1) -> i = 1
                            [] OTHER -> ~NaN(i) /\ MayorDeLosRatios(i)
    BY DEF EligeAlMejor
<1>1. CASE algoritmo = "SJF"
    BY <1>1, MejorSJF DEF Elegida
<1>2. CASE algoritmo = "HRRN"
    BY <1>2, MejorHRRN DEF Elegida
<1> QED BY <1>1, <1>2 DEF TipoSeleccion

-----------------------------------------------------------------------------
(* The estimates.                                                           *)

\* The estimate of a PCB that is in the system is the average of its bursts: it is kept
\* over Pot(2)[MaxRafagas], and the average of n bursts is over Pot(2)[n].
Promediada(p) ==
    est[p] = Potencia(2)[MaxRafagas - Len(rafagas[p])] * Promedio(alfa, inicial, rafagas[p])
Estimadas ==
    \A p \in Procesos :
        /\ Len(rafagas[p]) <= MaxRafagas
        /\ EnSistema(p) \/ rafagas[p] # <<>> => Promediada(p)
IInvSeleccion == TipoSeleccion /\ Estimadas

\* The power of a sum is the product of the powers.
LEMMA PotenciaDeSuma ==
    ASSUME NEW b \in Nat, NEW i \in Nat, NEW j \in Nat, NEW s \in 0..MaxRafagas, i + j = s
    PROVE  Potencia(b)[s] = Potencia(b)[i] * Potencia(b)[j]
<1> PICK P : P = Potencia(b)
    OBVIOUS
<1>1. /\ MaxRafagas \in Nat /\ P[0] = 1
      /\ \A k \in 0..MaxRafagas : P[k] \in Nat
      /\ \A k \in 1..MaxRafagas : P[k] = b * P[k - 1]
    BY Potencias, ConstantesSeleccionOK DEF ConstantesSeleccionOK
<1> DEFINE M == {k \in Nat : i + k <= MaxRafagas => P[i + k] = P[i] * P[k]}
<1>2. 0 \in M
    <2>1. i + 0 = i /\ P[i] \in Nat
        BY <1>1
    <2> QED BY <1>1, <2>1
<1>3. ASSUME NEW k \in Nat, k \in M PROVE k + 1 \in M
    <2>1. ASSUME i + (k + 1) <= MaxRafagas PROVE P[i + (k + 1)] = P[i] * P[k + 1]
        <3>1. /\ i + k <= MaxRafagas /\ i + (k + 1) \in 1..MaxRafagas /\ k + 1 \in 1..MaxRafagas
              /\ (i + (k + 1)) - 1 = i + k /\ (k + 1) - 1 = k
              /\ i \in 0..MaxRafagas /\ k \in 0..MaxRafagas
            BY <1>1, <2>1
        <3>2. P[i + (k + 1)] = b * P[i + k] /\ P[k + 1] = b * P[k] /\ P[i + k] = P[i] * P[k]
            BY <1>1, <1>3, <3>1
        <3>3. P[i] \in Nat /\ P[k] \in Nat
            BY <1>1, <3>1
        <3> DEFINE x == P[i]  y == P[k]
        <3>4. b * (x * y) = x * (b * y)
            <4> HIDE DEF x, y
            <4> QED BY <3>3 DEF x, y
        <3> QED BY <3>2, <3>4
    <2> QED BY <2>1
<1> HIDE DEF M
<1>4. j \in M
    BY <1>2, <1>3, Induccion
<1> QED BY <1>4 DEF M

\* The average of bursts is a natural, over the power of two that goes with them.
LEMMA PromedioEsNat ==
    ASSUME NEW a \in 0..2, NEW e \in Nat, NEW r \in Seq(Nat), Len(r) <= MaxRafagas
    PROVE  Promedio(a, e, r) \in Nat
<1>1. Len(r) \in 0..MaxRafagas /\ Len(r) \in 0..Len(r) /\ 2 - a \in Nat
    BY LenProperties, ConstantesSeleccionOK DEF ConstantesSeleccionOK
<1>2. PICK h \in [0..Len(r) -> Nat] :
          Promedio(a, e, r) = Potencia(2 - a)[Len(r)] * e + h[Len(r)]
    <2>1. HaySuma(a, e, r)
        BY PliegueSuma
    <2> QED BY <2>1 DEF HaySuma
<1>3. Potencia(2 - a)[Len(r)] \in Nat /\ h[Len(r)] \in Nat
    BY <1>1, Potencias
<1>4. Potencia(2 - a)[Len(r)] * e \in Nat
    BY <1>3, ProductoNat
<1> QED BY <1>2, <1>3, <1>4, SumaNat

\* One more burst: what was weighs 1 - ALFA, and the burst ALFA.
LEMMA PromedioCrece ==
    ASSUME NEW a \in 0..2, NEW e \in Nat, NEW r \in Seq(Nat), NEW x \in Nat,
           Len(r) < MaxRafagas
    PROVE  Promedio(a, e, Append(r, x))
           = (2 - a) * Promedio(a, e, r) + (a * Potencia(2)[Len(r)]) * x
<1> PICK n, b, P, Q, r2 : n = Len(r) /\ b = 2 - a /\ P = Potencia(2) /\ Q = Potencia(b)
                          /\ r2 = Append(r, x)
    OBVIOUS
<1>1. /\ n \in Nat /\ b \in Nat /\ n + 1 <= MaxRafagas /\ MaxRafagas \in Nat
      /\ r2 \in Seq(Nat) /\ Len(r2) = n + 1 /\ r2[n + 1] = x
      /\ \A i \in 1..n : r2[i] = r[i] /\ r[i] \in Nat
    BY LenProperties, ElementOfSeq, AppendProperties, ConstantesSeleccionOK DEF ConstantesSeleccionOK
<1>2. /\ P[0] = 1 /\ Q[0] = 1
      /\ \A k \in 0..MaxRafagas : P[k] \in Nat /\ Q[k] \in Nat
      /\ \A k \in 1..MaxRafagas : Q[k] = b * Q[k - 1]
    <2>1. 2 \in Nat
        OBVIOUS
    <2> QED BY <1>1, <2>1, Potencias
<1>3. PICK h \in [0..n -> Nat] :
          /\ h[0] = 0
          /\ \A i \in 1..n : h[i] = h[i - 1] + Peso(a, i, n) * r[i]
          /\ Promedio(a, e, r) = Q[n] * e + h[n]
    <2>1. HaySuma(a, e, r)
        BY <1>1, PliegueSuma
    <2> QED BY <2>1 DEF HaySuma
<1>4. PICK h2 \in [0..(n + 1) -> Nat] :
          /\ h2[0] = 0
          /\ \A i \in 1..(n + 1) : h2[i] = h2[i - 1] + Peso(a, i, n + 1) * r2[i]
          /\ Promedio(a, e, r2) = Q[n + 1] * e + h2[n + 1]
    <2>1. HaySuma(a, e, r2)
        BY <1>1, PliegueSuma
    <2> QED BY <1>1, <2>1 DEF HaySuma
<1>5. ASSUME NEW i \in 1..n PROVE Peso(a, i, n) \in Nat /\ Peso(a, i, n + 1) = b * Peso(a, i, n)
    <2>1. /\ n - i \in 0..MaxRafagas /\ i - 1 \in 0..MaxRafagas
          /\ (n + 1) - i \in 1..MaxRafagas /\ ((n + 1) - i) - 1 = n - i
        BY <1>1
    <2> DEFINE q == Q[n - i]  t == P[i - 1]
    <2>2. q \in Nat /\ t \in Nat /\ Q[(n + 1) - i] = b * q
        BY <1>2, <2>1
    <2>3. Peso(a, i, n) = a * q * t /\ Peso(a, i, n + 1) = a * (b * q) * t
        BY <2>2 DEF Peso
    <2> HIDE DEF q, t
    <2>4. a * (b * q) * t = b * (a * q * t)
        BY <1>1, <2>2
    <2>5. a * q \in Nat /\ (a * q) * t \in Nat
        BY <2>2, ProductoNat
    <2> QED BY <2>3, <2>4, <2>5
<1> DEFINE M == {k \in Nat : k <= n => h2[k] = b * h[k]}
<1>6. 0 \in M
    BY <1>1, <1>3, <1>4
<1>7. ASSUME NEW k \in Nat, k \in M PROVE k + 1 \in M
    <2>1. ASSUME k + 1 <= n PROVE h2[k + 1] = b * h[k + 1]
        <3>1. /\ k + 1 \in 1..n /\ k + 1 \in 1..(n + 1) /\ (k + 1) - 1 = k /\ k \in 0..n
            BY <1>1, <2>1
        <3> DEFINE w == Peso(a, k + 1, n)  v == r[k + 1]  u == h[k]
        <3>2. w \in Nat /\ v \in Nat /\ u \in Nat /\ Peso(a, k + 1, n + 1) = b * w /\ r2[k + 1] = v
            BY <1>1, <1>3, <1>5, <3>1
        <3>3. h2[k] = b * u
            BY <1>7, <2>1
        <3>4. h[k + 1] = u + w * v /\ h2[k + 1] = b * u + (b * w) * v
            BY <1>3, <1>4, <3>1, <3>2, <3>3
        <3> HIDE DEF w, v, u
        <3>5. b * (u + w * v) = b * u + (b * w) * v
            BY <1>1, <3>2
        <3> QED BY <3>4, <3>5
    <2> QED BY <2>1
<1> HIDE DEF M
<1>8. h2[n] = b * h[n]
    <2>1. n \in M
        BY <1>1, <1>6, <1>7, Induccion
    <2> QED BY <1>1, <2>1 DEF M
<1>9. h2[n + 1] = b * h[n] + (a * P[n]) * x
    <2>1. n + 1 \in 1..(n + 1) /\ (n + 1) - 1 = n /\ (n + 1) - (n + 1) = 0
        BY <1>1
    <2>2. n \in 0..MaxRafagas /\ P[n] \in Nat
        BY <1>1, <1>2
    <2>3. Peso(a, n + 1, n + 1) = a * Q[0] * P[n]
        BY <2>1 DEF Peso
    <2>4. Peso(a, n + 1, n + 1) = a * P[n]
        BY <1>2, <2>2, <2>3
    <2> QED BY <1>1, <1>4, <1>8, <2>1, <2>4
<1>10. Q[n + 1] = b * Q[n]
    <2>1. n + 1 \in 1..MaxRafagas /\ (n + 1) - 1 = n
        BY <1>1
    <2> QED BY <1>2, <2>1
<1> DEFINE q == Q[n]  u == h[n]  w == (a * P[n]) * x
<1>11. q \in Nat /\ u \in Nat /\ w \in Nat
    <2>1. n \in 0..MaxRafagas /\ n \in 0..n /\ a \in Nat
        BY <1>1
    <2> QED BY <1>2, <1>3, <2>1, ProductoNat
<1>12. Promedio(a, e, r) = q * e + u /\ Promedio(a, e, r2) = (b * q) * e + (b * u + w)
    BY <1>3, <1>4, <1>9, <1>10
<1> HIDE DEF q, u, w
<1>13. (b * q) * e + (b * u + w) = b * (q * e + u) + w
    BY <1>1, <1>11
<1> QED BY <1>12, <1>13 DEF w

\* Before the first burst it is ESTIMACION_INICIAL.
LEMMA PromedioInicial ==
    ASSUME NEW a \in 0..2, NEW e \in Nat
    PROVE  Promedio(a, e, <<>>) = e
<1>1. << >> \in Seq(Nat) /\ Len(<< >>) = 0 /\ 0 <= MaxRafagas /\ 2 - a \in Nat
    BY EmptySeq, ConstantesSeleccionOK DEF ConstantesSeleccionOK
<1>2. PICK h \in [0..0 -> Nat] :
          h[0] = 0 /\ Promedio(a, e, << >>) = Potencia(2 - a)[0] * e + h[0]
    <2>1. HaySuma(a, e, << >>)
        BY <1>1, PliegueSuma
    <2> QED BY <1>1, <2>1 DEF HaySuma
<1>3. Potencia(2 - a)[0] = 1
    BY <1>1, Potencias
<1> QED BY <1>2, <1>3

\* A burst that ends brings one power of two less, and the division is exact.
Media(a, x, v) == (a * x * Escala + (2 - a) * v) \div 2
LEMMA MediaEsPromedio ==
    ASSUME NEW a \in 0..2, NEW e \in Nat, NEW r \in Seq(Nat), NEW x \in Nat, NEW v \in Nat,
           Len(r) < MaxRafagas,
           v = Potencia(2)[MaxRafagas - Len(r)] * Promedio(a, e, r)
    PROVE  Media(a, x, v)
           = Potencia(2)[MaxRafagas - (Len(r) + 1)] * Promedio(a, e, Append(r, x))
<1> PICK n, P, m, p : n = Len(r) /\ P = Potencia(2) /\ m = MaxRafagas - (n + 1)
                      /\ p = Promedio(a, e, r)
    OBVIOUS
<1>1. /\ n \in Nat /\ m \in Nat /\ n \in 0..MaxRafagas /\ m \in 0..MaxRafagas
      /\ m + 1 \in 1..MaxRafagas /\ (m + 1) - 1 = m /\ MaxRafagas - n = m + 1
      /\ (m + 1) + n = MaxRafagas /\ m + 1 \in Nat /\ 2 \in Nat
    BY LenProperties, ConstantesSeleccionOK DEF ConstantesSeleccionOK
<1>2. P[n] \in Nat /\ P[m] \in Nat /\ P[m + 1] = 2 * P[m]
    BY <1>1, Potencias
<1>3. Escala = (2 * P[m]) * P[n]
    <2> PICK k : k = m + 1
        OBVIOUS
    <2>1. /\ k \in Nat /\ n \in Nat /\ 2 \in Nat /\ k + n = MaxRafagas
          /\ MaxRafagas \in 0..MaxRafagas
        BY <1>1, ConstantesSeleccionOK DEF ConstantesSeleccionOK
    <2>2. P[MaxRafagas] = P[k] * P[n]
        <3>1. Potencia(2)[MaxRafagas] = Potencia(2)[k] * Potencia(2)[n]
            BY ONLY <2>1, PotenciaDeSuma, SMTT(60)
        <3> QED BY <3>1
    <2>3. P[k] = 2 * P[m] /\ Escala = P[MaxRafagas]
        BY <1>2 DEF Escala
    <2> QED BY <2>2, <2>3, Zenon
<1>4. p \in Nat /\ Promedio(a, e, Append(r, x)) = (2 - a) * p + (a * P[n]) * x
    <2>1. Promedio(a, e, Append(r, x))
          = (2 - a) * Promedio(a, e, r) + (a * Potencia(2)[Len(r)]) * x
        BY PromedioCrece, Zenon
    <2>2. Len(r) <= MaxRafagas
        BY <1>1
    <2>3. Promedio(a, e, r) \in Nat
        BY <2>2, PromedioEsNat, Zenon
    <2> QED BY <2>1, <2>3, Zenon
<1> DEFINE w == P[m]  q == P[n]
<1>5. w \in Nat /\ q \in Nat /\ v = (2 * w) * p /\ Escala = (2 * w) * q
    BY <1>1, <1>2, <1>3
<1> HIDE DEF w, q
<1>6. a * x * Escala + (2 - a) * v = 2 * (w * ((2 - a) * p + (a * q) * x))
    <2>1. CASE a = 0
        BY <1>4, <1>5, <2>1
    <2>2. CASE a = 1
        BY <1>4, <1>5, <2>2
    <2>3. CASE a = 2
        BY <1>4, <1>5, <2>3
    <2> QED BY <2>1, <2>2, <2>3
<1>7. w * ((2 - a) * p + (a * q) * x) \in Nat
    <2>1. a \in Nat /\ 2 - a \in Nat
        OBVIOUS
    <2>2. (2 - a) * p \in Nat /\ a * q \in Nat /\ (a * q) * x \in Nat
        BY <1>4, <1>5, <2>1, ProductoNat
    <2> QED BY <1>5, <2>2, ProductoNat, SumaNat
<1>8. \A y \in Nat : (2 * y) \div 2 = y
    OBVIOUS
<1>9. (a * x * Escala + (2 - a) * v) \div 2 = w * ((2 - a) * p + (a * q) * x)
    BY <1>6, <1>7, <1>8
<1> QED BY <1>4, <1>9 DEF w, q, Media

\* The unit of estimates is a natural.
LEMMA EscalaNat == Escala \in Nat
BY Potencias, ConstantesSeleccionOK DEF Escala, ConstantesSeleccionOK

\* Before the first admission there is nothing to estimate.
LEMMA InitSeleccionIInv == InitSeleccion => IInvSeleccion
<1> SUFFICES ASSUME InitSeleccion PROVE IInvSeleccion
    OBVIOUS
<1>1. << >> \in Seq(Procesos) /\ << >> \in Seq(Nat) /\ Len(<< >>) = 0
    BY EmptySeq
<1>2. TipoSeleccion
    BY <1>1, ConstantesSeleccionOK DEF InitSeleccion, TipoSeleccion, ConstantesSeleccionOK
<1>3. ASSUME NEW p \in Procesos PROVE ~EnSistema(p)
    BY <1>1, ConstantesSeleccionOK DEF InitSeleccion, EnSistema, Contains, ConstantesSeleccionOK
<1>4. Estimadas
    BY <1>1, <1>3, ConstantesSeleccionOK DEF InitSeleccion, Estimadas, ConstantesSeleccionOK
<1> QED BY <1>2, <1>4 DEF IInvSeleccion

\* A PCB whose estimate, bursts and configuration are the same is as it was.
LEMMA Igualmente ==
    ASSUME UNCHANGED config, NEW p, est'[p] = est[p], rafagas'[p] = rafagas[p], Promediada(p)
    PROVE  Promediada(p)'
BY DEF Promediada, config

\* Removing the first occurrence of an element keeps the type of a sequence.
LEMMA QuitarTipo ==
    ASSUME NEW S, NEW s \in Seq(S), NEW e
    PROVE  RemoveFirst(s, e) \in Seq(S)
<1>1. CASE ~ \E i \in 1..Len(s) : s[i] = e
    BY <1>1 DEF RemoveFirst
<1>2. CASE \E i \in 1..Len(s) : s[i] = e
    <2> DEFINE I == {i \in 1..Len(s) : s[i] = e}
               n == SelectInSeq(s, LAMBDA v : v = e)
    <2>1. PICK x \in I : \A y \in I : ~ (<<y, x>> \in OpToRel(<, Nat))
        <3>1. I \in SUBSET Nat /\ I # {}
            BY <1>2
        <3> HIDE DEF I
        <3> QED BY <3>1, NatLessThanWellFounded, WFMin
    <2>2. ASSUME NEW y \in I PROVE x <= y
        <3>1. x \in Nat /\ y \in Nat
            BY LenProperties
        <3>2. ~ (y < x)
            BY <2>1, <3>1 DEF OpToRel
        <3> QED BY <3>1, <3>2
    <2>3. n = Min(I) /\ Min(I) \in I
        BY <2>1, <2>2 DEF SelectInSeq, Min
    <2>4. n \in 1..Len(s) /\ Len(s) \in Nat
        BY <2>3, LenProperties
    <2> HIDE DEF n, I
    <2>5. RemoveFirst(s, e) = RemoveAt(s, n)
        BY <1>2 DEF RemoveFirst, n
    <2>6. SubSeq(s, 1, n - 1) \in Seq(S) /\ SubSeq(s, n + 1, Len(s)) \in Seq(S)
        BY <2>4, ElementOfSeq, SubSeqProperties
    <2> QED BY <2>5, <2>6, ConcatProperties DEF RemoveAt
<1> QED BY <1>1, <1>2

\* Each step keeps the estimates: Admitir begins an average, Bloquear makes it grow and
\* the others leave it.
LEMMA NextSeleccionIInv == IInvSeleccion /\ [NextSeleccion]_varsSeleccion => IInvSeleccion'
<1> SUFFICES ASSUME IInvSeleccion, [NextSeleccion]_varsSeleccion PROVE IInvSeleccion'
    OBVIOUS
<1> USE DEF IInvSeleccion
<1>1. CASE UNCHANGED varsSeleccion
    BY <1>1 DEF varsSeleccion, config, TipoSeleccion, Estimadas, EnSistema, Promediada
<1>2. CASE Pasar
    <2>1. TipoSeleccion'
        BY <1>2 DEF Pasar, config, TipoSeleccion
    <2>2. Estimadas'
        BY <1>2 DEF Pasar, config, Estimadas, EnSistema, Promediada
    <2> QED BY <2>1, <2>2
<1>3. ASSUME NEW p \in Procesos, Admitir(p) PROVE IInvSeleccion'
    <2>1. inicial * Escala \in Nat
        BY EscalaNat, ProductoNat DEF TipoSeleccion
    <2>2. listas' \in Seq(Procesos) /\ \A c : Contains(listas', c) => Contains(listas, c) \/ c = p
        <3>1. listas' = Append(listas, p) /\ listas \in Seq(Procesos)
            BY <1>3 DEF Admitir, TipoSeleccion
        <3>2. /\ listas' \in Seq(Procesos) /\ Len(listas') = Len(listas) + 1 /\ Len(listas) \in Nat
              /\ \A i \in 1..Len(listas) : listas'[i] = listas[i]
              /\ listas'[Len(listas) + 1] = p
            BY <3>1, AppendProperties, LenProperties
        <3>3. \A i \in 1..Len(listas') : i \in 1..Len(listas) \/ i = Len(listas) + 1
            BY <3>2
        <3> QED BY <3>2, <3>3 DEF Contains
    <2>3. TipoSeleccion'
        BY <1>3, <2>1, <2>2 DEF Admitir, config, TipoSeleccion
    <2>4. Promediada(p)'
        <3>1. est'[p] = inicial * Escala /\ rafagas'[p] = << >> /\ config' = config
            BY <1>3 DEF Admitir, TipoSeleccion
        <3>2. Len(<< >>) = 0 /\ MaxRafagas - 0 = MaxRafagas
            BY EmptySeq, ConstantesSeleccionOK DEF ConstantesSeleccionOK
        <3>3. Promedio(alfa, inicial, << >>) = inicial
            BY PromedioInicial DEF TipoSeleccion
        <3>4. inicial * Escala = Escala * inicial
            BY EscalaNat DEF TipoSeleccion
        <3> QED BY <3>1, <3>2, <3>3, <3>4 DEF Promediada, config, Escala
    <2>5. ASSUME NEW c \in Procesos
          PROVE  /\ Len(rafagas'[c]) <= MaxRafagas
                 /\ EnSistema(c)' \/ rafagas'[c] # << >> => Promediada(c)'
        <3>1. rafagas' = rafagas /\ UNCHANGED config /\ enExec' = enExec
            BY <1>3 DEF Admitir
        <3>2. CASE c = p
            BY <2>4, <3>1, <3>2 DEF Estimadas
        <3>3. CASE c # p
            <4>1. est'[c] = est[c]
                BY <1>3, <3>3 DEF Admitir, TipoSeleccion
            <4>2. EnSistema(c)' => EnSistema(c)
                BY <2>2, <3>1, <3>3 DEF EnSistema
            <4> QED BY <3>1, <4>1, <4>2, Igualmente DEF Estimadas
        <3> QED BY <3>2, <3>3
    <2> QED BY <2>3, <2>5 DEF Estimadas
<1>4. CASE Despachar
    <2>1. PICK i \in DOMAIN listas : Elegida = listas[i]
        BY <1>4, Elige DEF Despachar, EligeAlMejor
    <2>2. Elegida \in Procesos /\ Contains(listas, Elegida)
        BY <2>1, ElementOfSeq, LenProperties DEF Contains, TipoSeleccion
    <2> DEFINE S == {c \in Procesos : Contains(listas, c)}
    <2>3. listas \in Seq(S)
        <3>1. \A k \in 1..Len(listas) : listas[k] \in S
            BY ElementOfSeq DEF Contains, TipoSeleccion
        <3>2. Len(listas) \in Nat /\ listas \in [1..Len(listas) -> Procesos]
            BY LenProperties DEF TipoSeleccion
        <3>3. listas \in [1..Len(listas) -> S]
            <4> HIDE DEF S
            <4> QED BY <3>1, <3>2
        <3> HIDE DEF S
        <3> QED BY <3>2, <3>3, SeqDef
    <2>4. listas' \in Seq(S)
        BY <1>4, <2>3, QuitarTipo DEF Despachar
    <2>5. \A c : Contains(listas', c) => Contains(listas, c)
        BY <2>4, ElementOfSeq DEF Contains
    <2>6. listas' \in Seq(Procesos)
        BY <1>4, QuitarTipo DEF Despachar, TipoSeleccion
    <2>7. TipoSeleccion'
        BY <1>4, <2>2, <2>6 DEF Despachar, config, TipoSeleccion
    <2>8. ASSUME NEW c \in Procesos
          PROVE  /\ Len(rafagas'[c]) <= MaxRafagas
                 /\ EnSistema(c)' \/ rafagas'[c] # << >> => Promediada(c)'
        <3>1. UNCHANGED <<config, est, rafagas>> /\ enExec' = Elegida
            BY <1>4 DEF Despachar
        <3>2. EnSistema(c)' => EnSistema(c)
            BY <2>2, <2>5, <3>1 DEF EnSistema
        <3> QED BY <3>1, <3>2, Igualmente DEF Estimadas
    <2> QED BY <2>7, <2>8 DEF Estimadas
<1>5. CASE Bloquear
    <2> PICK x, e, r : x = ahora - inicio /\ e = enExec /\ r = rafagas[e]
        OBVIOUS
    <2>1. /\ e \in Procesos /\ x \in Nat /\ r \in Seq(Nat) /\ Len(r) < MaxRafagas /\ Len(r) + 1 <= MaxRafagas
          /\ Len(r) \in Nat /\ Append(r, x) \in Seq(Nat) /\ Len(Append(r, x)) = Len(r) + 1
        <3>1. e \in Procesos /\ x \in Nat /\ Len(r) < MaxRafagas
            BY <1>5 DEF Bloquear, TipoSeleccion
        <3>2. r \in Seq(Nat)
            BY <3>1 DEF TipoSeleccion
        <3> QED BY <3>1, <3>2, LenProperties, AppendProperties, ConstantesSeleccionOK DEF ConstantesSeleccionOK
    <2>2. /\ est'[e] = MediaExponencial(x, est[e]) /\ rafagas'[e] = Append(r, x)
          /\ \A c \in Procesos \ {e} : est'[c] = est[c] /\ rafagas'[c] = rafagas[c]
          /\ UNCHANGED config /\ listas' = listas /\ enExec' = Ninguna
        BY <1>5, <2>1 DEF Bloquear, TipoSeleccion
    <2>3. Promediada(e) /\ EnSistema(e)
        BY <2>1 DEF Estimadas, EnSistema
    <2>4. est'[e] = Potencia(2)[MaxRafagas - (Len(r) + 1)] * Promedio(alfa, inicial, Append(r, x))
        <3>1. est[e] = Potencia(2)[MaxRafagas - Len(r)] * Promedio(alfa, inicial, r)
            BY <2>3 DEF Promediada
        <3>2. alfa \in 0..2 /\ inicial \in Nat
            BY DEF TipoSeleccion
        <3> PICK a, i, v : a = alfa /\ i = inicial /\ v = est[e]
            OBVIOUS
        <3>3. Media(a, x, v)
              = Potencia(2)[MaxRafagas - (Len(r) + 1)] * Promedio(a, i, Append(r, x))
            <4>1. /\ a \in 0..2 /\ i \in Nat /\ v \in Nat
                  /\ v = Potencia(2)[MaxRafagas - Len(r)] * Promedio(a, i, r)
                BY <2>1, <3>1, <3>2 DEF TipoSeleccion
            <4>2. r \in Seq(Nat) /\ x \in Nat /\ Len(r) < MaxRafagas
                BY <2>1
            <4> QED BY ONLY <4>1, <4>2, MediaEsPromedio
        <3> QED BY <2>2, <3>3 DEF MediaExponencial, Media
    <2>5. Promediada(e)'
        BY <2>1, <2>2, <2>4 DEF Promediada, config
    <2>6. MediaExponencial(x, est[e]) \in Nat
        <3>1. alfa \in Nat /\ 2 - alfa \in Nat /\ est[e] \in Nat
            BY <2>1 DEF TipoSeleccion
        <3>2. alfa * x \in Nat /\ (alfa * x) * Escala \in Nat /\ (2 - alfa) * est[e] \in Nat
            BY <2>1, <3>1, EscalaNat, ProductoNat
        <3>3. \A y \in Nat : y \div 2 \in Nat
            OBVIOUS
        <3>4. (alfa * x) * Escala + (2 - alfa) * est[e] \in Nat
            BY <3>2, SumaNat
        <3> QED BY <3>3, <3>4 DEF MediaExponencial
    <2>7. TipoSeleccion'
        BY <1>5, <2>1, <2>6 DEF Bloquear, config, TipoSeleccion
    <2>8. ASSUME NEW c \in Procesos
          PROVE  /\ Len(rafagas'[c]) <= MaxRafagas
                 /\ EnSistema(c)' \/ rafagas'[c] # << >> => Promediada(c)'
        <3>1. CASE c = e
            BY <2>1, <2>2, <2>5, <3>1
        <3>2. CASE c # e
            <4>1. EnSistema(c)' => EnSistema(c)
                BY <2>2, ConstantesSeleccionOK DEF EnSistema, ConstantesSeleccionOK
            <4> QED BY <2>2, <3>2, <4>1, Igualmente DEF Estimadas
        <3> QED BY <3>1, <3>2
    <2> QED BY <2>7, <2>8 DEF Estimadas
<1>6. ASSUME NEW p \in Procesos, Volver(p) PROVE IInvSeleccion'
    <2>1. listas' \in Seq(Procesos) /\ \A c : Contains(listas', c) => Contains(listas, c) \/ c = p
        <3>1. listas' = Append(listas, p) /\ listas \in Seq(Procesos)
            BY <1>6 DEF Volver, TipoSeleccion
        <3>2. /\ listas' \in Seq(Procesos) /\ Len(listas') = Len(listas) + 1 /\ Len(listas) \in Nat
              /\ \A i \in 1..Len(listas) : listas'[i] = listas[i]
              /\ listas'[Len(listas) + 1] = p
            BY <3>1, AppendProperties, LenProperties
        <3>3. \A i \in 1..Len(listas') : i \in 1..Len(listas) \/ i = Len(listas) + 1
            BY <3>2
        <3> QED BY <3>2, <3>3 DEF Contains
    <2>2. TipoSeleccion'
        BY <1>6, <2>1 DEF Volver, config, TipoSeleccion
    <2>3. ASSUME NEW c \in Procesos
          PROVE  /\ Len(rafagas'[c]) <= MaxRafagas
                 /\ EnSistema(c)' \/ rafagas'[c] # << >> => Promediada(c)'
        <3>1. UNCHANGED <<config, est, rafagas, enExec>> /\ rafagas[p] # << >>
            BY <1>6 DEF Volver
        <3>2. EnSistema(c)' => EnSistema(c) \/ c = p
            BY <2>1, <3>1 DEF EnSistema
        <3> QED BY <3>1, <3>2, Igualmente DEF Estimadas
    <2> QED BY <2>2, <2>3 DEF Estimadas
<1> QED BY <1>1, <1>2, <1>3, <1>4, <1>5, <1>6 DEF NextSeleccion

\* So the estimates are averages always.
LEMMA IInvSeleccionSiempre == SpecSeleccion => []IInvSeleccion
BY InitSeleccionIInv, NextSeleccionIInv, PTL DEF SpecSeleccion

\* SJF serves the first of the least estimates and HRRN the first of the greatest ratios
\* (elegir_en_base_a_sjf, elegir_en_base_a_hrrn), for any PCBs, estimates and clock.
THEOREM EligeAlMejorSiempre == SpecSeleccion => []EligeAlMejor
<1>1. IInvSeleccion => EligeAlMejor
    BY Elige DEF IInvSeleccion
<1> QED BY <1>1, IInvSeleccionSiempre, PTL

\* What is over Potencia(2)[MaxRafagas] in Promediada is over Potencia(2)[n] in the property.
LEMMA EstimaSiEstan == IInvSeleccion => EstimaElPromedio
<1> SUFFICES ASSUME IInvSeleccion, NEW p \in Procesos, rafagas[p] # << >>
             PROVE  est[p] * Potencia(2)[Len(rafagas[p])]
                    = Escala * Promedio(alfa, inicial, rafagas[p])
    BY DEF EstimaElPromedio
<1> PICK n, P, m, v : n = Len(rafagas[p]) /\ P = Potencia(2) /\ m = MaxRafagas - n
                      /\ v = Promedio(alfa, inicial, rafagas[p])
    OBVIOUS
<1>1. est[p] = P[m] * v
    BY DEF IInvSeleccion, Estimadas, Promediada
<1>2. n \in Nat /\ m \in Nat /\ m + n = MaxRafagas /\ 2 \in Nat /\ MaxRafagas \in 0..MaxRafagas
    BY LenProperties, ConstantesSeleccionOK DEF IInvSeleccion, TipoSeleccion, Estimadas, ConstantesSeleccionOK
<1>3. Escala = P[m] * P[n]
    BY <1>2, PotenciaDeSuma DEF Escala
<1>4. P[m] \in Nat /\ P[n] \in Nat
    <2>1. m \in 0..MaxRafagas /\ n \in 0..MaxRafagas
        BY <1>2
    <2> QED BY <1>2, <2>1, Potencias
<1>5. v \in Nat
    <2>1. /\ alfa \in 0..2 /\ inicial \in Nat /\ rafagas[p] \in Seq(Nat)
          /\ Len(rafagas[p]) <= MaxRafagas
        BY DEF IInvSeleccion, TipoSeleccion, Estimadas
    <2> QED BY <2>1, PromedioEsNat
<1> QED BY <1>1, <1>3, <1>4, <1>5

\* The estimate __media_exponencial leaves in a PCB is the exponential average of its
\* bursts, for any number of them and any ESTIMACION_INICIAL.
THEOREM EstimaElPromedioSiempre == SpecSeleccion => []EstimaElPromedio
BY EstimaSiEstan, IInvSeleccionSiempre, PTL
=============================================================================
