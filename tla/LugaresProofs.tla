--------------------------- MODULE LugaresProofs ---------------------------
(* Theorems about Planificacion with one CPU: where each PCB is, and who   *)
(* has it in charge.                                                       *)
EXTENDS PlanificacionProofs, FunctionTheorems

-----------------------------------------------------------------------------
(* How often a PCB appears in a sequence.                                  *)

Donde(s, c) == {i \in DOMAIN s : s[i] = c}
Apariciones(s, c) == Cardinality(Donde(s, c))

LEMMA AparicionesNat ==
    ASSUME NEW S, NEW s \in Seq(S), NEW c
    PROVE  /\ IsFiniteSet(Donde(s, c)) /\ Donde(s, c) \subseteq 1..Len(s)
           /\ Apariciones(s, c) \in Nat
           /\ Apariciones(s, c) > 0 <=> \E i \in 1..Len(s) : s[i] = c
<1>1. Len(s) \in Nat /\ DOMAIN s = 1..Len(s)
    BY LenProperties
<1>2. Donde(s, c) \subseteq 1..Len(s)
    BY <1>1 DEF Donde
<1>3. IsFiniteSet(Donde(s, c)) /\ Apariciones(s, c) \in Nat
    <2>1. IsFiniteSet(1..Len(s))
        BY <1>1, FS_Interval
    <2>2. IsFiniteSet(Donde(s, c))
        BY <1>2, <2>1, FS_Subset
    <2> QED BY <2>2, FS_CardinalityType DEF Apariciones
<1>4. Apariciones(s, c) = 0 <=> Donde(s, c) = {}
    BY <1>3, FS_EmptySet DEF Apariciones
<1>5. Donde(s, c) # {} <=> \E i \in 1..Len(s) : s[i] = c
    BY <1>1 DEF Donde
<1> QED BY <1>2, <1>3, <1>4, <1>5

\* At the end of the sequence there is one more.
LEMMA AparicionesAppend ==
    ASSUME NEW S, NEW s \in Seq(S), NEW x \in S, NEW c
    PROVE  Apariciones(Append(s, x), c) = Apariciones(s, c) + Uno(x = c)
<1> DEFINE n == Len(s) + 1
<1>1. Len(s) \in Nat /\ DOMAIN s = 1..Len(s)
    BY LenProperties
<1>2. /\ DOMAIN Append(s, x) = 1..n
      /\ \A i \in 1..Len(s) : Append(s, x)[i] = s[i]
      /\ Append(s, x)[n] = x
    BY AppendProperties, LenProperties
<1>3. 1..n = (1..Len(s)) \cup {n} /\ n \notin 1..Len(s)
    BY <1>1
<1>4. Donde(Append(s, x), c) = IF x = c THEN Donde(s, c) \cup {n} ELSE Donde(s, c)
    BY <1>1, <1>2, <1>3 DEF Donde
<1>5. n \notin Donde(s, c)
    BY <1>1, <1>3 DEF Donde
<1>6. /\ IsFiniteSet(Donde(s, c)) /\ Cardinality(Donde(s, c)) \in Nat
    BY AparicionesNat DEF Apariciones
<1>7. Cardinality(Donde(s, c) \cup {n}) = Cardinality(Donde(s, c)) + 1
    BY <1>5, <1>6, FS_AddElement
<1> QED BY <1>4, <1>6, <1>7 DEF Apariciones, Uno

\* Without the element at n there is one less.
LEMMA AparicionesSin ==
    ASSUME NEW S, NEW s \in Seq(S), NEW n \in 1..Len(s), NEW r \in Seq(S),
           Len(r) = Len(s) - 1,
           \A i \in 1..Len(r) : r[i] = IF i < n THEN s[i] ELSE s[i + 1],
           NEW c
    PROVE  Apariciones(r, c) = Apariciones(s, c) - Uno(s[n] = c)
<1> DEFINE D == Donde(s, c) \ {n}
           E == Donde(r, c)
           f == [i \in E |-> IF i < n THEN i ELSE i + 1]
<1>1. /\ Len(s) \in Nat /\ DOMAIN s = 1..Len(s) /\ Len(r) \in Nat /\ DOMAIN r = 1..Len(r)
      /\ n \in Nat
    BY LenProperties
<1>2. \A i \in E : i \in 1..Len(r) /\ r[i] = c
    BY <1>1 DEF Donde
<1>3. \A j \in D : j \in 1..Len(s) /\ s[j] = c /\ j # n
    BY <1>1 DEF Donde
<1>4. f \in [E -> D]
    <2>1. ASSUME NEW i \in E PROVE f[i] \in D
        <3>1. i \in 1..Len(r) /\ r[i] = c
            BY <1>2
        <3>2. f[i] \in 1..Len(s) /\ f[i] # n /\ s[f[i]] = c
            BY <1>1, <3>1
        <3> QED BY <1>1, <3>2 DEF Donde
    <2> QED BY <2>1
<1>5. \A i, j \in E : f[i] = f[j] => i = j
    BY <1>1, <1>2
<1>6. \A j \in D : \E i \in E : f[i] = j
    <2> SUFFICES ASSUME NEW j \in D PROVE \E i \in E : f[i] = j
        OBVIOUS
    <2>1. j \in 1..Len(s) /\ s[j] = c /\ j # n
        BY <1>3
    <2> DEFINE i == IF j < n THEN j ELSE j - 1
    <2>2. i \in 1..Len(r) /\ (IF i < n THEN i ELSE i + 1) = j
        BY <1>1, <2>1
    <2>3. r[i] = c
        BY <1>1, <2>1, <2>2
    <2>4. i \in E
        BY <1>1, <2>2, <2>3 DEF Donde
    <2>5. f[i] = j
        BY <2>2, <2>4
    <2> QED BY <2>4, <2>5
<1> HIDE DEF D, E, f
<1>7. ExistsBijection(E, D)
    <2>1. f \in Bijection(E, D)
        BY <1>4, <1>5, <1>6, Fun_IsBij
    <2> QED BY <2>1, Fun_ExistsBij
<1>8. IsFiniteSet(E) /\ Cardinality(E) = Apariciones(r, c)
    BY AparicionesNat DEF E, Apariciones
<1>9. Cardinality(D) = Cardinality(E)
    BY <1>7, <1>8, FS_Bijection
<1>10. IsFiniteSet(Donde(s, c)) /\ Apariciones(s, c) \in Nat
    BY AparicionesNat
<1>11. n \in Donde(s, c) <=> s[n] = c
    BY <1>1 DEF Donde
<1>12. Cardinality(D) = IF n \in Donde(s, c) THEN Apariciones(s, c) - 1 ELSE Apariciones(s, c)
    BY <1>10, FS_RemoveElement DEF D, Apariciones
<1> QED BY <1>8, <1>9, <1>10, <1>11, <1>12 DEF Uno

\* Without the first element, without the last, and without the first x.
LEMMA AparicionesTail ==
    ASSUME NEW S, NEW s \in Seq(S), s # <<>>, NEW c
    PROVE  Apariciones(Tail(s), c) = Apariciones(s, c) - Uno(Head(s) = c)
<1>1. /\ Tail(s) \in Seq(S) /\ Len(Tail(s)) = Len(s) - 1
      /\ \A i \in 1..Len(Tail(s)) : Tail(s)[i] = s[i + 1]
    BY HeadTailProperties
<1>2. Len(s) \in Nat \ {0}
    BY EmptySeq
<1> DEFINE r == Tail(s)
<1>3. 1 \in 1..Len(s) /\ \A i \in 1..Len(r) : r[i] = IF i < 1 THEN s[i] ELSE s[i + 1]
    BY <1>1, <1>2
<1>4. r \in Seq(S) /\ Len(r) = Len(s) - 1
    BY <1>1
<1>5. Head(s) = s[1]
    BY <1>2
<1> HIDE DEF r
<1>6. Apariciones(r, c) = Apariciones(s, c) - Uno(s[1] = c)
    BY <1>3, <1>4, AparicionesSin
<1> QED BY <1>5, <1>6 DEF r

LEMMA AparicionesFront ==
    ASSUME NEW S, NEW s \in Seq(S), s # <<>>, NEW c
    PROVE  Apariciones(Front(s), c) = Apariciones(s, c) - Uno(Last(s) = c)
<1>1. Len(s) \in Nat \ {0} /\ Len(s) \in 1..Len(s)
    BY EmptySeq
<1>2. Front(s) \in Seq(S) /\ Len(Front(s)) = Len(s) - 1
    BY QuitarUltimo
<1>3. \A i \in 1..Len(Front(s)) : i < Len(s) /\ Front(s)[i] = s[i]
    <2> DEFINE m == Len(s) - 1
    <2>1. m \in Int /\ 1 \in Int /\ \A i \in 1..m : s[i] \in S
        BY <1>1, ElementOfSeq
    <2>2. \A i \in 1..m-1+1 : SubSeq(s, 1, m)[i] = s[1 + i - 1]
        BY <2>1, SubSeqProperties
    <2>3. \A i \in 1..m : SubSeq(s, 1, m)[i] = s[i]
        BY <2>1, <2>2
    <2> QED BY <1>1, <1>2, <2>3 DEF Front
<1>4. Apariciones(Front(s), c) = Apariciones(s, c) - Uno(s[Len(s)] = c)
    BY <1>1, <1>2, <1>3, AparicionesSin
<1> QED BY <1>4 DEF Last

LEMMA AparicionesQuitar ==
    ASSUME NEW S, NEW s \in Seq(S), NEW x, NEW c
    PROVE  Apariciones(RemoveFirst(s, x), c)
             = Apariciones(s, c) - Uno(x = c /\ Contains(s, x))
<1>0. Apariciones(s, c) \in Nat
    BY AparicionesNat
<1>1. CASE ~Contains(s, x)
    BY <1>0, <1>1 DEF RemoveFirst, Contains, Uno
<1>2. CASE Contains(s, x)
    <2> DEFINE I == {i \in 1..Len(s) : s[i] = x}
               n == SelectInSeq(s, LAMBDA v : v = x)
    <2>1. I \in SUBSET Nat /\ I # {}
        BY <1>2 DEF Contains
    <2>2. n = Min(I)
        BY <2>1 DEF SelectInSeq
    <2>3. n \in I
        BY <2>1, <2>2, Minimo
    <2>4. n \in 1..Len(s) /\ s[n] = x
        BY <2>3
    <2> HIDE DEF n, I
    <2>5. RemoveFirst(s, x) = RemoveAt(s, n)
        BY <1>2 DEF RemoveFirst, Contains, n
    <2>6. Len(s) \in Nat /\ n \in Int /\ n - 1 \in Int /\ n + 1 \in Int
        BY <2>4, LenProperties
    <2> DEFINE a == SubSeq(s, 1, n - 1)
               b == SubSeq(s, n + 1, Len(s))
    <2>7. /\ \A i \in 1..n-1 : s[i] \in S
          /\ \A i \in n+1..Len(s) : s[i] \in S
        BY <2>4, <2>6, ElementOfSeq
    <2>8. /\ a \in Seq(S) /\ Len(a) = n - 1
          /\ \A i \in 1..(n - 1) - 1 + 1 : a[i] = s[1 + i - 1]
        BY <2>4, <2>6, <2>7, SubSeqProperties
    <2>9. /\ b \in Seq(S) /\ Len(b) = Len(s) - n
          /\ \A i \in 1..Len(s) - (n + 1) + 1 : b[i] = s[(n + 1) + i - 1]
        BY <2>4, <2>6, <2>7, SubSeqProperties
    <2> HIDE DEF a, b
    <2>10. /\ a \o b \in Seq(S) /\ Len(a \o b) = Len(a) + Len(b)
           /\ \A i \in 1..Len(a) + Len(b) :
                (a \o b)[i] = IF i <= Len(a) THEN a[i] ELSE b[i - Len(a)]
        BY <2>8, <2>9, ConcatProperties
    <2>11. Len(a \o b) = Len(s) - 1
        BY <2>4, <2>6, <2>8, <2>9, <2>10
    <2>12. ASSUME NEW i \in 1..Len(a \o b)
           PROVE  (a \o b)[i] = IF i < n THEN s[i] ELSE s[i + 1]
        <3>1. i \in 1..Len(s) - 1 /\ i \in Nat
            BY <2>6, <2>11
        <3>2. CASE i < n
            <4>1. i \in 1..n - 1 /\ i <= Len(a) /\ i \in 1..Len(a) + Len(b)
                BY <2>4, <2>6, <2>8, <2>9, <3>1, <3>2
            <4>2. a[i] = s[i]
                BY <2>6, <2>8, <4>1
            <4> QED BY <2>10, <3>2, <4>1, <4>2
        <3>3. CASE ~(i < n)
            <4>1. /\ ~(i <= Len(a)) /\ i \in 1..Len(a) + Len(b)
                  /\ i - Len(a) \in 1..Len(s) - (n + 1) + 1
                  /\ (n + 1) + (i - Len(a)) - 1 = i + 1
                BY <2>4, <2>6, <2>8, <2>9, <3>1, <3>3
            <4>2. b[i - Len(a)] = s[i + 1]
                BY <2>9, <4>1
            <4> QED BY <2>10, <3>3, <4>1, <4>2
        <3> QED BY <3>2, <3>3
    <2> DEFINE r == a \o b
    <2>13. /\ r \in Seq(S) /\ Len(r) = Len(s) - 1
           /\ \A i \in 1..Len(r) : r[i] = IF i < n THEN s[i] ELSE s[i + 1]
        BY <2>10, <2>11, <2>12
    <2>14. r = RemoveAt(s, n)
        BY DEF RemoveAt, a, b
    <2> HIDE DEF r
    <2>15. Apariciones(r, c) = Apariciones(s, c) - Uno(s[n] = c)
        BY <2>4, <2>13, AparicionesSin
    <2> QED BY <1>2, <2>4, <2>5, <2>14, <2>15 DEF Uno
<1> QED BY <1>1, <1>2
-----------------------------------------------------------------------------
(* Where a PCB is: the queues, and the hand of the thread that moves it.   *)

Sitios == Colas \cup {"mano"}
Puesto(c, p) == IF p = "mano" THEN EnMano(c) ELSE Veces(c, p)
\* The places that count: SUSP/BLOCKED may keep a PCB that is elsewhere.
Puestos == Sitios \ {"susblocked"}

\* The step takes x from place a to place b, "nada" standing for none.
Muda(x, a, b) ==
    \A c \in Carpinchos, p \in Sitios :
        Puesto(c, p)' = Puesto(c, p) + Uno(c = x /\ p = b) - Uno(c = x /\ p = a)

\* Thread t, which is not a CPU, has c out of the queues.
EnLaMano(t, c) == tomado[t] = c /\ pc[t] \in {"aReady", "liberar"}

LEMMA VecesApariciones ==
    ASSUME cola \in TipoCola, NEW c, NEW q \in Colas
    PROVE  /\ cola[q] \in Seq(Carpinchos)
           /\ Veces(c, q) = Apariciones(cola[q], c) /\ Veces(c, q) \in Nat
           /\ Veces(c, q) > 0 <=> Contains(cola[q], c)
<1>1. cola[q] \in Seq(Carpinchos)
    BY DEF TipoCola
<1>2. Veces(c, q) = Apariciones(cola[q], c)
    BY DEF Veces, Apariciones, Donde
<1> QED BY <1>1, <1>2, AparicionesNat DEF Contains

\* After each of the ways of moving a PCB.
LEMMA VecesEncolar ==
    ASSUME cola \in TipoCola, NEW q \in Colas, NEW x \in Carpinchos, cola' = Encolar(q, x),
           NEW c \in Carpinchos, NEW r \in Colas
    PROVE  Veces(c, r)' = Veces(c, r) + Uno(c = x /\ r = q)
<1>1. cola' \in TipoCola
    BY TrasEncolar
<1>2. /\ Veces(c, r) \in Nat /\ Veces(c, r) = Apariciones(cola[r], c)
      /\ cola[r] \in Seq(Carpinchos)
    BY VecesApariciones
<1>3. Veces(c, r)' = Apariciones(cola'[r], c)
    BY <1>1, VecesApariciones DEF Veces, Apariciones, Donde
<1>4. CASE r = q
    <2>1. cola'[r] = Append(cola[r], x)
        BY <1>4 DEF Encolar, TipoCola
    <2>2. Apariciones(Append(cola[r], x), c) = Apariciones(cola[r], c) + Uno(x = c)
        BY <1>2, AparicionesAppend
    <2> QED BY <1>2, <1>3, <1>4, <2>1, <2>2 DEF Uno
<1>5. CASE r # q
    <2>1. cola'[r] = cola[r]
        BY <1>5 DEF Encolar, TipoCola
    <2> QED BY <1>2, <1>3, <1>5, <2>1 DEF Uno
<1> QED BY <1>4, <1>5

LEMMA VecesMover ==
    ASSUME cola \in TipoCola, NEW p \in Colas, NEW q \in Colas, p # q,
           NEW x \in Carpinchos, cola' = Mover(x, p, q), Contains(cola[p], x),
           NEW c \in Carpinchos, NEW r \in Colas
    PROVE  Veces(c, r)' = Veces(c, r) + Uno(c = x /\ r = q) - Uno(c = x /\ r = p)
<1>1. /\ Veces(c, r) \in Nat /\ Veces(c, r) = Apariciones(cola[r], c)
      /\ cola[r] \in Seq(Carpinchos)
    BY VecesApariciones
<1>2. Veces(c, r)' = Apariciones(cola'[r], c)
    BY DEF Veces, Apariciones, Donde
<1>3. CASE r = q
    <2>1. cola'[r] = Append(cola[r], x)
        BY <1>3 DEF Mover, TipoCola
    <2>2. Apariciones(Append(cola[r], x), c) = Apariciones(cola[r], c) + Uno(x = c)
        BY <1>1, AparicionesAppend
    <2> QED BY <1>1, <1>2, <1>3, <2>1, <2>2 DEF Uno
<1>4. CASE r = p
    <2>1. cola'[r] = RemoveFirst(cola[r], x)
        BY <1>4 DEF Mover, TipoCola
    <2>2. Apariciones(RemoveFirst(cola[r], x), c)
            = Apariciones(cola[r], c) - Uno(x = c /\ Contains(cola[r], x))
        BY <1>1, AparicionesQuitar
    <2> QED BY <1>1, <1>2, <1>4, <2>1, <2>2 DEF Uno
<1>5. CASE r # q /\ r # p
    <2>1. cola'[r] = cola[r]
        BY <1>5 DEF Mover, TipoCola
    <2> QED BY <1>1, <1>2, <1>5, <2>1 DEF Uno
<1> QED BY <1>3, <1>4, <1>5

LEMMA VecesQuitar ==
    ASSUME cola \in TipoCola, NEW q \in Colas, NEW x \in Carpinchos,
           cola' = [cola EXCEPT ![q] = RemoveFirst(@, x)],
           NEW c \in Carpinchos, NEW r \in Colas
    PROVE  Veces(c, r)' = Veces(c, r) - Uno(c = x /\ r = q /\ Contains(cola[q], x))
<1>1. /\ Veces(c, r) \in Nat /\ Veces(c, r) = Apariciones(cola[r], c)
      /\ cola[r] \in Seq(Carpinchos)
    BY VecesApariciones
<1>2. Veces(c, r)' = Apariciones(cola'[r], c)
    BY DEF Veces, Apariciones, Donde
<1>3. CASE r = q
    <2>1. cola'[r] = RemoveFirst(cola[r], x)
        BY <1>3 DEF TipoCola
    <2>2. Apariciones(RemoveFirst(cola[r], x), c)
            = Apariciones(cola[r], c) - Uno(x = c /\ Contains(cola[r], x))
        BY <1>1, AparicionesQuitar
    <2> QED BY <1>1, <1>2, <1>3, <2>1, <2>2 DEF Uno
<1>4. CASE r # q
    <2>1. cola'[r] = cola[r]
        BY <1>4 DEF TipoCola
    <2> QED BY <1>1, <1>2, <1>4, <2>1 DEF Uno
<1> QED BY <1>3, <1>4

LEMMA VecesSinPrimero ==
    ASSUME cola \in TipoCola, NEW q \in Colas, cola[q] # <<>>, cola' = SinPrimero(q),
           NEW c \in Carpinchos, NEW r \in Colas
    PROVE  /\ Veces(c, r)' = Veces(c, r) - Uno(c = Head(cola[q]) /\ r = q)
           /\ Veces(Head(cola[q]), q) > 0
<1>1. /\ Veces(c, r) \in Nat /\ Veces(c, r) = Apariciones(cola[r], c)
      /\ cola[r] \in Seq(Carpinchos)
    BY VecesApariciones
<1>2. Veces(c, r)' = Apariciones(cola'[r], c)
    BY DEF Veces, Apariciones, Donde
<1>3. Veces(c, r)' = Veces(c, r) - Uno(c = Head(cola[q]) /\ r = q)
    <2>1. CASE r = q
        <3>1. cola'[r] = Tail(cola[r])
            BY <2>1 DEF SinPrimero, TipoCola
        <3>2. Apariciones(Tail(cola[r]), c) = Apariciones(cola[r], c) - Uno(Head(cola[r]) = c)
            BY <1>1, <2>1, AparicionesTail
        <3> QED BY <1>1, <1>2, <2>1, <3>1, <3>2 DEF Uno
    <2>2. CASE r # q
        <3>1. cola'[r] = cola[r]
            BY <2>2 DEF SinPrimero, TipoCola
        <3>2. Uno(c = Head(cola[q]) /\ r = q) = 0
            BY <2>2 DEF Uno
        <3> QED BY <1>1, <1>2, <3>1, <3>2
    <2> QED BY <2>1, <2>2
<1>4. Veces(Head(cola[q]), q) > 0
    <2>1. cola[q] \in Seq(Carpinchos) /\ 1 \in 1..Len(cola[q])
        BY EmptySeq DEF TipoCola
    <2>2. Head(cola[q]) = cola[q][1]
        BY <2>1
    <2>3. Contains(cola[q], Head(cola[q]))
        BY <2>1, <2>2 DEF Contains
    <2> QED BY <2>3, VecesApariciones
<1> QED BY <1>3, <1>4

\* The hand of a thread that is not a CPU.
LEMMA ManoTras ==
    ASSUME TipoHilos, NEW t \in Hilos, NEW e, Ir(t, e),
           tomado' = tomado \/ \E m : Tomar(t, m), NEW c
    PROVE  /\ EnMano(c) \in Nat /\ EnMano(c)' \in Nat
           /\ t \in CPUs => EnMano(c)' = EnMano(c)
           /\ t \notin CPUs => EnMano(c)' = EnMano(c) + Uno(EnLaMano(t, c)') - Uno(EnLaMano(t, c))
<1> DEFINE A == {h \in Hilos \ CPUs : EnLaMano(h, c)}
           B == {h \in Hilos \ CPUs : tomado'[h] = c /\ pc'[h] \in {"aReady", "liberar"}}
           R == A \ {t}
<1>1. /\ \A h \in Hilos \ {t} : pc'[h] = pc[h] /\ tomado'[h] = tomado[h]
    BY DEF TipoHilos, Ir, Tomar
<1>2. IsFiniteSet(A) /\ IsFiniteSet(B)
    <2>1. IsFiniteSet(Hilos)
        BY ConstantesOK DEF ConstantesOK
    <2>2. A \subseteq Hilos /\ B \subseteq Hilos
        OBVIOUS
    <2> HIDE DEF A, B
    <2> QED BY <2>1, <2>2, FS_Subset
<1>3. /\ EnMano(c) = Cardinality(A) /\ EnMano(c)' = Cardinality(B)
    BY DEF EnMano, EnLaMano
<1>4. Cardinality(A) \in Nat /\ Cardinality(B) \in Nat
    BY <1>2, FS_CardinalityType
<1>5. R = B \ {t}
    BY <1>1 DEF EnLaMano
<1>6. /\ Cardinality(R) = IF t \in A THEN Cardinality(A) - 1 ELSE Cardinality(A)
      /\ Cardinality(B \ {t}) = IF t \in B THEN Cardinality(B) - 1 ELSE Cardinality(B)
    BY <1>2, FS_RemoveElement
<1>7. /\ t \in A <=> t \notin CPUs /\ EnLaMano(t, c)
      /\ t \in B <=> t \notin CPUs /\ EnLaMano(t, c)'
    BY DEF EnLaMano
<1> HIDE DEF A, B, R
<1> QED BY <1>3, <1>4, <1>5, <1>6, <1>7 DEF Uno

LEMMA ManoIgual ==
    ASSUME UNCHANGED <<pc, tomado>>, NEW c
    PROVE  EnMano(c)' = EnMano(c)
BY DEF EnMano

\* Every count is a natural number, and Lugares adds those that matter.
LEMMA PuestoNat ==
    ASSUME Tipos, NEW c \in Carpinchos
    PROVE  /\ \A p \in Sitios : Puesto(c, p) \in Nat
           /\ Lugares(c) = Puesto(c, "new") + Puesto(c, "ready") + Puesto(c, "exec")
                           + Puesto(c, "blocked") + Puesto(c, "susready") + Puesto(c, "exit")
                           + Puesto(c, "mano")
<1>1. \A q \in Colas : Veces(c, q) \in Nat
    BY VecesApariciones DEF Tipos
<1>2. EnMano(c) \in Nat
    <2>1. IsFiniteSet(Hilos)
        BY ConstantesOK DEF ConstantesOK
    <2>2. IsFiniteSet({t \in Hilos \ CPUs : tomado[t] = c /\ pc[t] \in {"aReady", "liberar"}})
        BY <2>1, FS_Subset
    <2> QED BY <2>2, FS_CardinalityType DEF EnMano
<1> QED BY <1>1, <1>2 DEF Puesto, Sitios, Colas, Lugares

LEMMA PuestoNatDespues ==
    ASSUME Tipos', NEW c \in Carpinchos
    PROVE  \A p \in Sitios : Puesto(c, p)' \in Nat
<1>1. ASSUME NEW q \in Colas PROVE Veces(c, q)' \in Nat
    <2>1. cola'[q] \in Seq(Carpinchos)
        BY DEF Tipos, TipoCola
    <2>2. Veces(c, q)' = Apariciones(cola'[q], c)
        BY DEF Veces, Apariciones, Donde
    <2> QED BY <2>1, <2>2, AparicionesNat
<1>2. EnMano(c)' \in Nat
    <2>1. IsFiniteSet(Hilos)
        BY ConstantesOK DEF ConstantesOK
    <2>2. IsFiniteSet({t \in Hilos \ CPUs : tomado'[t] = c /\ pc'[t] \in {"aReady", "liberar"}})
        BY <2>1, FS_Subset
    <2> QED BY <2>2, FS_CardinalityType DEF EnMano
<1> QED BY <1>1, <1>2 DEF Puesto, Sitios
-----------------------------------------------------------------------------
(* The inductive invariant.                                                *)

\* A PCB is in one place, or suspended; one that does not exist is nowhere.
UnLugar(c) ==
    IF Existe(c) THEN \/ Lugares(c) = 1
                      \/ Lugares(c) = 0 /\ Veces(c, "susblocked") > 0
                 ELSE Lugares(c) = 0
Ubicados == \A c \in Carpinchos : UnLugar(c)

\* Only a PCB that came can have been freed.
Llegados ==
    \A c \in Carpinchos :
        /\ pc[c] \in {"alta", "registrarAlta", "espAlta", "fin"}
        /\ c \in liberados => pc[c] # "alta"

\* The PCBs of the clients that closed are those on their way out.
EnFin(c) == c \in liberados \/ Veces(c, "exit") > 0 \/ tomado["liberador"] = c
Cierres ==
    /\ \A c \in Carpinchos : c \in cerrados <=> EnFin(c)
    /\ pc["liberador"] \in {"exit", "liberar"}

\* A CPU that has called CALL_IO, and a device before it moves the PCB, have the
\* PCB in charge; a queue of a device has its own.  Position 0 is the hand.
Encargados == {"encolarIO", "verSusBlocked", "verSiBlocked", "aSusReady", "sacarBlocked"}
Encarga(t, i, c) ==
    \/ i = 0 /\ pc[t] \in Encargados /\ tomado[t] = c
    \/ t \in Dispositivos /\ i \in 1..Len(colaIO[t]) /\ colaIO[t][i] = c
EnCargo(c) == \E t \in Hilos, i \in Nat : Encarga(t, i, c)

\* It is in BLOCKED, or suspended and nowhere else, as its status says.
Frenado(c) ==
    /\ Existe(c)
    /\ \/ estado[c] = "BLOCKED" /\ Veces(c, "blocked") = 1
       \/ estado[c] = "SUSBLOCKED" /\ Lugares(c) = 0 /\ Veces(c, "susblocked") > 0

Unico ==
    \A c \in Carpinchos, t, u \in Hilos, i, j \in Nat :
        Encarga(t, i, c) /\ Encarga(u, j, c) => t = u /\ i = j
Frenos == \A c \in Carpinchos : EnCargo(c) => Frenado(c)
Suspendidos ==
    \A t \in Hilos : pc[t] = "aSusReady" => estado[tomado[t]] = "SUSBLOCKED"

\* No thread has in hand a PCB that does not exist, but for one that only has
\* to log it.
Vivos ==
    \A t \in Hilos :
        tomado[t] # Nadie /\ pc[t] \notin Registrando => Existe(tomado[t])
Ocupado(t) ==
    tomado[t] # Nadie => pc[t] \in {"aReady", "liberar"} \cup Encargados \cup Registrando
Ocupados == \A t \in Hilos \ CPUs : Ocupado(t)

\* The PCB a CPU has chosen is in READY, and the one it serves is in EXEC.
LaCPU(k) ==
    tomado[k] # Nadie =>
        /\ pc[k] \notin Registrando => tomado[k] \notin cerrados
        /\ pc[k] = "despachar" => Veces(tomado[k], "ready") > 0
        /\ pc[k] \in {"espExec", "atender"} => Veces(tomado[k], "exec") > 0
LasCPUs == \A k \in CPUs : LaCPU(k)

ILugar ==
    /\ Ubicados /\ Llegados /\ Cierres
    /\ Unico /\ Frenos /\ Suspendidos
    /\ Vivos /\ Ocupados /\ LasCPUs
-----------------------------------------------------------------------------
(* What a move does to the invariant.                                      *)

\* A PCB in one of the places that count is in no other.
LEMMA SoloAhi ==
    ASSUME Tipos, NEW x \in Carpinchos, UnLugar(x), NEW p \in Puestos, Puesto(x, p) > 0
    PROVE  /\ Existe(x) /\ Lugares(x) = 1 /\ Puesto(x, p) = 1
           /\ \A q \in Puestos \ {p} : Puesto(x, q) = 0
           /\ p # "blocked" => ~Frenado(x)
<1>1. /\ \A q \in Sitios : Puesto(x, q) \in Nat
      /\ Lugares(x) = Puesto(x, "new") + Puesto(x, "ready") + Puesto(x, "exec")
                      + Puesto(x, "blocked") + Puesto(x, "susready") + Puesto(x, "exit")
                      + Puesto(x, "mano")
    BY PuestoNat
<1>2. Puestos = {"new", "ready", "exec", "blocked", "susready", "exit", "mano"}
    BY DEF Puestos, Sitios, Colas
<1>3. \A q \in Puestos : Puesto(x, q) \in Nat
    BY <1>1 DEF Puestos
<1>4. Lugares(x) > 0
    BY <1>1, <1>2, <1>3
<1>5. Existe(x) /\ Lugares(x) = 1
    BY <1>4 DEF UnLugar
<1>6. Puesto(x, p) = 1 /\ \A q \in Puestos \ {p} : Puesto(x, q) = 0
    <2> DEFINE n1 == Puesto(x, "new")
               n2 == Puesto(x, "ready")
               n3 == Puesto(x, "exec")
               n4 == Puesto(x, "blocked")
               n5 == Puesto(x, "susready")
               n6 == Puesto(x, "exit")
               n7 == Puesto(x, "mano")
    <2>1. /\ n1 \in Nat /\ n2 \in Nat /\ n3 \in Nat /\ n4 \in Nat
          /\ n5 \in Nat /\ n6 \in Nat /\ n7 \in Nat
        BY <1>2, <1>3
    <2>2. n1 + n2 + n3 + n4 + n5 + n6 + n7 = 1
        BY <1>1, <1>5
    <2>3. \/ p = "new" /\ n1 > 0
          \/ p = "ready" /\ n2 > 0
          \/ p = "exec" /\ n3 > 0
          \/ p = "blocked" /\ n4 > 0
          \/ p = "susready" /\ n5 > 0
          \/ p = "exit" /\ n6 > 0
          \/ p = "mano" /\ n7 > 0
        <3>1. p \in Puestos /\ Puesto(x, p) > 0
            OBVIOUS
        <3> QED BY <1>2, <3>1
    <2>4. \A q \in Puestos :
            \/ q = "new" /\ Puesto(x, q) = n1
            \/ q = "ready" /\ Puesto(x, q) = n2
            \/ q = "exec" /\ Puesto(x, q) = n3
            \/ q = "blocked" /\ Puesto(x, q) = n4
            \/ q = "susready" /\ Puesto(x, q) = n5
            \/ q = "exit" /\ Puesto(x, q) = n6
            \/ q = "mano" /\ Puesto(x, q) = n7
        BY <1>2
    <2> HIDE DEF n1, n2, n3, n4, n5, n6, n7
    <2>5. n1 > 0 => n1 = 1 /\ n2 = 0 /\ n3 = 0 /\ n4 = 0 /\ n5 = 0 /\ n6 = 0 /\ n7 = 0
        BY ONLY <2>1, <2>2
    <2>6. n2 > 0 => n1 = 0 /\ n2 = 1 /\ n3 = 0 /\ n4 = 0 /\ n5 = 0 /\ n6 = 0 /\ n7 = 0
        BY ONLY <2>1, <2>2
    <2>7. n3 > 0 => n1 = 0 /\ n2 = 0 /\ n3 = 1 /\ n4 = 0 /\ n5 = 0 /\ n6 = 0 /\ n7 = 0
        BY ONLY <2>1, <2>2
    <2>8. n4 > 0 => n1 = 0 /\ n2 = 0 /\ n3 = 0 /\ n4 = 1 /\ n5 = 0 /\ n6 = 0 /\ n7 = 0
        BY ONLY <2>1, <2>2
    <2>9. n5 > 0 => n1 = 0 /\ n2 = 0 /\ n3 = 0 /\ n4 = 0 /\ n5 = 1 /\ n6 = 0 /\ n7 = 0
        BY ONLY <2>1, <2>2
    <2>10. n6 > 0 => n1 = 0 /\ n2 = 0 /\ n3 = 0 /\ n4 = 0 /\ n5 = 0 /\ n6 = 1 /\ n7 = 0
        BY ONLY <2>1, <2>2
    <2>11. n7 > 0 => n1 = 0 /\ n2 = 0 /\ n3 = 0 /\ n4 = 0 /\ n5 = 0 /\ n6 = 0 /\ n7 = 1
        BY ONLY <2>1, <2>2
    <2> QED BY ONLY <2>3, <2>4, <2>5, <2>6, <2>7, <2>8, <2>9, <2>10, <2>11, p \in Puestos
<1>7. Puesto(x, "blocked") = Veces(x, "blocked")
    BY DEF Puesto
<1>8. p # "blocked" => Veces(x, "blocked") = 0
    BY <1>2, <1>6, <1>7
<1> QED BY <1>5, <1>6, <1>8 DEF Frenado

\* The other PCBs stay where they were.
LEMMA MudaIgual ==
    ASSUME Tipos, Tipos', NEW x, NEW a, NEW b, Muda(x, a, b), NEW c \in Carpinchos, c # x
    PROVE  /\ \A q \in Colas : Veces(c, q)' = Veces(c, q)
           /\ Lugares(c)' = Lugares(c)
<1>1. /\ \A p \in Sitios : Puesto(c, p) \in Nat
      /\ Lugares(c) = Puesto(c, "new") + Puesto(c, "ready") + Puesto(c, "exec")
                      + Puesto(c, "blocked") + Puesto(c, "susready") + Puesto(c, "exit")
                      + Puesto(c, "mano")
    BY PuestoNat
<1>2. Lugares(c)' = Puesto(c, "new")' + Puesto(c, "ready")' + Puesto(c, "exec")'
                    + Puesto(c, "blocked")' + Puesto(c, "susready")' + Puesto(c, "exit")'
                    + Puesto(c, "mano")'
    BY DEF Lugares, Puesto
<1>3. \A p \in Sitios : Puesto(c, p)' = Puesto(c, p)
    BY <1>1 DEF Muda, Uno
<1>4. /\ {"new", "ready", "exec", "blocked", "susready", "exit", "mano"} \subseteq Sitios
      /\ \A q \in Colas : q \in Sitios /\ q # "mano"
    BY DEF Sitios, Colas
<1>5. Lugares(c)' = Lugares(c)
    BY <1>1, <1>2, <1>3, <1>4
<1>6. \A q \in Colas : Veces(c, q)' = Veces(c, q)
    BY <1>3, <1>4 DEF Puesto
<1> QED BY <1>5, <1>6

\* The PCB that moves: its places add up to what they were but for the two ends.
LEMMA MudaLugares ==
    ASSUME Tipos, Tipos', NEW x \in Carpinchos, NEW a, NEW b, Muda(x, a, b)
    PROVE  /\ Lugares(x) \in Nat /\ Lugares(x)' \in Nat
           /\ Lugares(x)' = Lugares(x) + Uno(b \in Puestos) - Uno(a \in Puestos)
<1>1. /\ \A p \in Sitios : Puesto(x, p) \in Nat
      /\ Lugares(x) = Puesto(x, "new") + Puesto(x, "ready") + Puesto(x, "exec")
                      + Puesto(x, "blocked") + Puesto(x, "susready") + Puesto(x, "exit")
                      + Puesto(x, "mano")
    BY PuestoNat
<1>2. /\ \A p \in Sitios : Puesto(x, p)' \in Nat
      /\ Lugares(x)' = Puesto(x, "new")' + Puesto(x, "ready")' + Puesto(x, "exec")'
                    + Puesto(x, "blocked")' + Puesto(x, "susready")' + Puesto(x, "exit")'
                    + Puesto(x, "mano")'
    BY PuestoNatDespues DEF Lugares, Puesto
<1>3. /\ {"new", "ready", "exec", "blocked", "susready", "exit", "mano"} \subseteq Sitios
      /\ Puestos = {"new", "ready", "exec", "blocked", "susready", "exit", "mano"}
    BY DEF Sitios, Colas, Puestos
<1> DEFINE U(z) == Uno("new" = z) + Uno("ready" = z) + Uno("exec" = z) + Uno("blocked" = z)
                   + Uno("susready" = z) + Uno("exit" = z) + Uno("mano" = z)
<1>4. \A p \in Sitios : Puesto(x, p)' = Puesto(x, p) + Uno(p = b) - Uno(p = a)
    BY DEF Muda
<1>5. \A z : U(z) = Uno(z \in Puestos)
    BY <1>3 DEF Uno
<1>6. \A y, z : Uno(y = z) \in Int
    BY DEF Uno
<1>7. Lugares(x)' = Lugares(x) + U(b) - U(a)
    <2> DEFINE n1 == Puesto(x, "new")   m1 == Puesto(x, "new")'
               d1 == Uno("new" = b)   e1 == Uno("new" = a)
               n2 == Puesto(x, "ready")   m2 == Puesto(x, "ready")'
               d2 == Uno("ready" = b)   e2 == Uno("ready" = a)
               n3 == Puesto(x, "exec")   m3 == Puesto(x, "exec")'
               d3 == Uno("exec" = b)   e3 == Uno("exec" = a)
               n4 == Puesto(x, "blocked")   m4 == Puesto(x, "blocked")'
               d4 == Uno("blocked" = b)   e4 == Uno("blocked" = a)
               n5 == Puesto(x, "susready")   m5 == Puesto(x, "susready")'
               d5 == Uno("susready" = b)   e5 == Uno("susready" = a)
               n6 == Puesto(x, "exit")   m6 == Puesto(x, "exit")'
               d6 == Uno("exit" = b)   e6 == Uno("exit" = a)
               n7 == Puesto(x, "mano")   m7 == Puesto(x, "mano")'
               d7 == Uno("mano" = b)   e7 == Uno("mano" = a)
    <2>1. /\ m1 = n1 + d1 - e1
          /\ m2 = n2 + d2 - e2
          /\ m3 = n3 + d3 - e3
          /\ m4 = n4 + d4 - e4
          /\ m5 = n5 + d5 - e5
          /\ m6 = n6 + d6 - e6
          /\ m7 = n7 + d7 - e7
        BY <1>3, <1>4
    <2>2. /\ n1 \in Int /\ n2 \in Int /\ n3 \in Int /\ n4 \in Int
          /\ n5 \in Int /\ n6 \in Int /\ n7 \in Int
        BY <1>1, <1>3
    <2>5. /\ d1 \in Int /\ d2 \in Int /\ d3 \in Int /\ d4 \in Int
          /\ d5 \in Int /\ d6 \in Int /\ d7 \in Int
          /\ e1 \in Int /\ e2 \in Int /\ e3 \in Int /\ e4 \in Int
          /\ e5 \in Int /\ e6 \in Int /\ e7 \in Int
        BY <1>6, Zenon
    <2>3. /\ Lugares(x)' = m1 + m2 + m3 + m4 + m5 + m6 + m7
          /\ Lugares(x) = n1 + n2 + n3 + n4 + n5 + n6 + n7
          /\ U(b) = d1 + d2 + d3 + d4 + d5 + d6 + d7
          /\ U(a) = e1 + e2 + e3 + e4 + e5 + e6 + e7
        BY <1>1, <1>2
    <2> HIDE DEF U, n1, m1, d1, e1, n2, m2, d2, e2, n3, m3, d3, e3, n4, m4, d4, e4, n5, m5, d5, e5, n6, m6, d6, e6, n7, m7, d7, e7
    <2>4. m1 + m2 + m3 + m4 + m5 + m6 + m7
          = (n1 + n2 + n3 + n4 + n5 + n6 + n7) + (d1 + d2 + d3 + d4 + d5 + d6 + d7)
            - (e1 + e2 + e3 + e4 + e5 + e6 + e7)
        BY ONLY <2>1, <2>2, <2>5
    <2> QED BY <2>3, <2>4
<1>8. Lugares(x) \in Nat /\ Lugares(x)' \in Nat
    BY <1>1, <1>2, <1>3
<1> HIDE DEF U
<1> QED BY <1>5, <1>7, <1>8

\* From one place that counts to another.
LEMMA MudaUnLugar ==
    ASSUME Tipos, Tipos', NEW x \in Carpinchos, NEW a \in Puestos, NEW b \in Puestos,
           Muda(x, a, b), UnLugar(x), Puesto(x, a) > 0, Existe(x)' = Existe(x)
    PROVE  UnLugar(x)'
<1>1. Existe(x) /\ Lugares(x) = 1
    BY SoloAhi
<1>2. Lugares(x)' = 1
    BY <1>1, MudaLugares DEF Uno
<1> QED BY <1>1, <1>2 DEF UnLugar

\* The invariant depends on these variables only.
LEMMA LugarIgual ==
    ASSUME ILugar, UNCHANGED <<cola, estado, colaIO, pc, tomado, cerrados, liberados>>
    PROVE  ILugar'
<1>1. \A c : /\ \A q : Veces(c, q)' = Veces(c, q)
             /\ EnMano(c)' = EnMano(c) /\ Existe(c)' = Existe(c)
    BY DEF Veces, EnMano, Existe
<1>2. \A c : Lugares(c)' = Lugares(c)
    BY <1>1 DEF Lugares
<1>3. \A c : UnLugar(c)' = UnLugar(c) /\ Frenado(c)' = Frenado(c) /\ EnFin(c)' = EnFin(c)
    BY <1>1, <1>2 DEF UnLugar, Frenado, EnFin
<1>4. Ubicados' /\ Llegados' /\ Cierres'
    BY <1>3 DEF ILugar, Ubicados, Llegados, Cierres
<1>5. \A t, i, c : Encarga(t, i, c)' = Encarga(t, i, c)
    BY DEF Encarga
<1>6. Unico' /\ Frenos' /\ Suspendidos'
    <2>1. \A c : EnCargo(c)' = EnCargo(c)
        BY <1>5 DEF EnCargo
    <2> QED BY <1>3, <1>5, <2>1 DEF ILugar, Unico, Frenos, Suspendidos
<1>7. Vivos' /\ Ocupados' /\ LasCPUs'
    BY <1>1 DEF ILugar, Vivos, Ocupados, Ocupado, LasCPUs, LaCPU
<1> QED BY <1>4, <1>6, <1>7 DEF ILugar

\* What has to be seen of the step of one thread that moves one PCB.
LEMMA Sigue ==
    ASSUME UnaCPU, Tipos, Tipos', ILugar,
           NEW t \in Hilos, NEW e, Ir(t, e), tomado' = tomado \/ \E m : Tomar(t, m),
           NEW x, NEW a, NEW b, Muda(x, a, b),
           \A c \in Carpinchos \ {x} : estado'[c] = estado[c] /\ Existe(c)' = Existe(c),
           x \in Carpinchos => UnLugar(x)',
           Llegados', Cierres', Unico',
           \A c \in Carpinchos \ {x} : EnCargo(c)' => EnCargo(c),
           x \in Carpinchos /\ EnCargo(x)' => Frenado(x)',
           e = "aSusReady" => estado'[tomado'[t]] = "SUSBLOCKED",
           \A u \in Hilos \ {t} :
               pc[u] = "aSusReady" /\ tomado[u] = x => estado'[x] = "SUSBLOCKED",
           tomado'[t] # Nadie /\ e \notin Registrando => Existe(tomado[t])',
           \A u \in Hilos \ {t} :
               tomado[u] = x /\ pc[u] \notin Registrando => x = Nadie \/ Existe(x)',
           t \in CPUs => LaCPU(t)',
           t \notin CPUs => Ocupado(t)' /\ cerrados' = cerrados /\ a \notin {"ready", "exec"}
    PROVE  ILugar'
<1>1. /\ pc \in [Hilos -> Etiquetas \cup EtiquetasSem]
      /\ tomado \in [Hilos -> Carpinchos \cup {Nadie}] /\ Manos
    BY DEF Tipos, TipoHilos
<1>2. /\ pc'[t] = e
      /\ \A u \in Hilos \ {t} : pc'[u] = pc[u] /\ tomado'[u] = tomado[u]
    BY <1>1 DEF Ir, Tomar
<1>3. \A c \in Carpinchos \ {x} :
          (\A q \in Colas : Veces(c, q)' = Veces(c, q)) /\ Lugares(c)' = Lugares(c)
    BY MudaIgual
<1>4. {"ready", "exec", "blocked", "susblocked"} \subseteq Colas
    BY DEF Colas
<1>5. Ubicados'
    <2> SUFFICES ASSUME NEW c \in Carpinchos, c # x PROVE UnLugar(c)'
        BY DEF Ubicados
    <2>1. UnLugar(c)
        BY DEF ILugar, Ubicados
    <2> QED BY <1>3, <1>4, <2>1 DEF UnLugar
<1>6. Frenos'
    <2> SUFFICES ASSUME NEW c \in Carpinchos, c # x, EnCargo(c)' PROVE Frenado(c)'
        BY DEF Frenos
    <2>1. Frenado(c)
        BY DEF ILugar, Frenos
    <2> QED BY <1>3, <1>4, <2>1 DEF Frenado
<1>7. Suspendidos'
    <2> SUFFICES ASSUME NEW u \in Hilos, pc'[u] = "aSusReady"
                 PROVE  estado'[tomado'[u]] = "SUSBLOCKED"
        BY DEF Suspendidos
    <2>1. CASE u = t
        BY <1>2, <2>1
    <2>2. CASE u # t
        <3>1. pc[u] = "aSusReady" /\ tomado'[u] = tomado[u]
            BY <1>2, <2>2
        <3>2. tomado[u] \in Carpinchos
            BY <1>1, <3>1 DEF Manos, ConPCB
        <3>3. estado[tomado[u]] = "SUSBLOCKED"
            BY <3>1 DEF ILugar, Suspendidos
        <3> QED BY <2>2, <3>1, <3>2, <3>3
    <2> QED BY <2>1, <2>2
<1>8. Vivos'
    <2> SUFFICES ASSUME NEW u \in Hilos, tomado'[u] # Nadie, pc'[u] \notin Registrando
                 PROVE  Existe(tomado[u])'
        BY DEF Vivos
    <2>1. CASE u = t
        BY <1>2, <2>1
    <2>2. CASE u # t
        <3>1. PICK c \in Carpinchos : c = tomado[u] /\ c = tomado'[u] /\ pc'[u] = pc[u]
            BY <1>1, <1>2, <2>2
        <3>2. Existe(c)
            BY <1>1, <3>1, ConstantesOK DEF ILugar, Vivos, ConstantesOK
        <3>3. Existe(c)'
            BY <2>2, <3>1, <3>2, ConstantesOK DEF ConstantesOK
        <3> QED BY <3>1, <3>3 DEF Existe
    <2> QED BY <2>1, <2>2
<1>9. Ocupados'
    <2> SUFFICES ASSUME NEW u \in Hilos \ CPUs PROVE Ocupado(u)'
        BY DEF Ocupados
    <2>1. Ocupado(u)
        BY DEF ILugar, Ocupados
    <2> QED BY <1>2, <2>1 DEF Ocupado
<1>10. LasCPUs'
    <2>1. CASE t \in CPUs
        BY <2>1 DEF LasCPUs, UnaCPU
    <2>2. CASE t \notin CPUs
        <3> SUFFICES ASSUME NEW k \in CPUs, tomado'[k] # Nadie PROVE LaCPU(k)'
            BY DEF LasCPUs, LaCPU
        <3>1. k \in Hilos \ {t} /\ LaCPU(k)
            BY <2>2, LosHilos DEF ILugar, LasCPUs
        <3>2. PICK c \in Carpinchos : c = tomado[k] /\ c = tomado'[k] /\ pc'[k] = pc[k]
            BY <1>1, <1>2, <3>1
        <3>3. ASSUME NEW q \in {"ready", "exec"}, Veces(c, q) > 0
              PROVE  Veces(c, q)' > 0
            <4>1. q \in Colas /\ q \in Sitios /\ q # "mano" /\ q # a
                BY <1>4, <2>2 DEF Sitios
            <4>2. Veces(c, q) \in Nat
                BY <4>1, VecesApariciones DEF Tipos
            <4>3. Veces(c, q)' = Veces(c, q) + Uno(c = x /\ q = b) - Uno(c = x /\ q = a)
                BY <4>1 DEF Muda, Puesto
            <4> QED BY <3>3, <4>1, <4>2, <4>3 DEF Uno
        <3>4. cerrados' = cerrados
            BY <2>2
        <3>5. /\ pc'[k] \notin Registrando => c \notin cerrados'
              /\ pc'[k] = "despachar" => Veces(c, "ready")' > 0
              /\ pc'[k] \in {"espExec", "atender"} => Veces(c, "exec")' > 0
            BY <3>1, <3>2, <3>3, <3>4 DEF LaCPU
        <3> QED BY <3>2, <3>5 DEF LaCPU, Veces
    <2> QED BY <2>1, <2>2
<1> QED BY <1>5, <1>6, <1>7, <1>8, <1>9, <1>10 DEF ILugar

\* A thread that takes charge of no PCB leaves those in charge as they were.
LEMMA EncargaIgual ==
    ASSUME TipoHilos, Unico, NEW t \in Hilos, NEW e, Ir(t, e),
           tomado' = tomado \/ \E m : Tomar(t, m), UNCHANGED colaIO,
           e \in Encargados => pc[t] \in Encargados /\ tomado'[t] = tomado[t]
    PROVE  Unico' /\ \A c \in Carpinchos : EnCargo(c)' => EnCargo(c)
<1>1. \A u \in Hilos \ {t} : pc'[u] = pc[u] /\ tomado'[u] = tomado[u]
    BY DEF TipoHilos, Ir, Tomar
<1>2. pc'[t] = e
    BY DEF TipoHilos, Ir
<1>3. ASSUME NEW u \in Hilos, NEW i \in Nat, NEW c \in Carpinchos, Encarga(u, i, c)'
      PROVE  Encarga(u, i, c)
    BY <1>1, <1>2, <1>3 DEF Encarga
<1> QED BY <1>3 DEF Unico, EnCargo

\* Nobody closes, and nothing enters or leaves EXIT.
LEMMA CierresIgual ==
    ASSUME Tipos, Cierres, NEW t \in Hilos \ {"liberador"}, NEW e, Ir(t, e),
           tomado' = tomado \/ \E m : Tomar(t, m), UNCHANGED <<cerrados, liberados>>,
           NEW x, NEW a, NEW b, Muda(x, a, b), a # "exit", b # "exit"
    PROVE  Cierres'
<1>1. "liberador" \in Hilos \ {t}
    BY LosHilos DEF Planificadores
<1>2. pc'["liberador"] = pc["liberador"] /\ tomado'["liberador"] = tomado["liberador"]
    BY <1>1 DEF Tipos, TipoHilos, Ir, Tomar
<1>3. ASSUME NEW c \in Carpinchos PROVE EnFin(c)' = EnFin(c)
    <2>1. Veces(c, "exit")' = Veces(c, "exit")
        <3>1. "exit" \in Sitios /\ "exit" \in Colas
            BY DEF Sitios, Colas
        <3>2. Veces(c, "exit") \in Nat
            BY <3>1, VecesApariciones DEF Tipos
        <3> QED BY <3>1, <3>2 DEF Muda, Puesto, Uno
    <2> QED BY <1>2, <2>1 DEF EnFin
<1> QED BY <1>2, <1>3 DEF Cierres

\* The handler of a connection goes on after its arrival.
Avanza(t, e) ==
    \/ pc[t] = "registrarAlta" /\ e = "espAlta"
    \/ pc[t] = "espAlta" /\ e = "fin"

\* Nobody arrives and nothing is freed.
LEMMA LlegadosIgual ==
    ASSUME TipoHilos, Llegados, NEW t \in Hilos, NEW e, Ir(t, e), UNCHANGED liberados,
           t \in Carpinchos => Avanza(t, e)
    PROVE  Llegados' /\ \A c \in Carpinchos : Existe(c)' = Existe(c)
<1>1. \A c \in Carpinchos : \/ pc'[c] = pc[c]
                            \/ pc[c] = "registrarAlta" /\ pc'[c] = "espAlta"
                            \/ pc[c] = "espAlta" /\ pc'[c] = "fin"
    BY LosHilos DEF TipoHilos, Ir, Avanza
<1>2. Llegados'
    BY <1>1 DEF Llegados
<1>3. \A c \in Carpinchos : Existe(c)' = Existe(c)
    BY <1>1 DEF Existe
<1> QED BY <1>2, <1>3

\* A move in which nobody arrives or closes, nothing is freed or queued at a
\* device, and no thread takes charge.
LEMMA Mueve ==
    ASSUME UnaCPU, Tipos, Tipos', ILugar,
           NEW t \in Hilos \ {"liberador"}, NEW e, Ir(t, e),
           tomado' = tomado \/ \E m : Tomar(t, m),
           t \in Carpinchos => Avanza(t, e),
           UNCHANGED <<colaIO, cerrados, liberados>>,
           e \in Encargados => pc[t] \in Encargados /\ tomado'[t] = tomado[t],
           NEW x, NEW a, NEW b, Muda(x, a, b), a # "exit", b # "exit",
           \A c \in Carpinchos \ {x} : estado'[c] = estado[c],
           x = Nadie \/ (x \in Carpinchos /\ UnLugar(x)' /\ Existe(x)),
           x \in Carpinchos /\ EnCargo(x)' => Frenado(x)',
           e = "aSusReady" => estado'[tomado'[t]] = "SUSBLOCKED",
           \A u \in Hilos \ {t} :
               pc[u] = "aSusReady" /\ tomado[u] = x => estado'[x] = "SUSBLOCKED",
           \A c \in Carpinchos : tomado'[t] = c => Existe(c),
           t \in CPUs => LaCPU(t)',
           t \notin CPUs => Ocupado(t)' /\ a \notin {"ready", "exec"}
    PROVE  ILugar'
<1>1. Unico' /\ \A c \in Carpinchos : EnCargo(c)' => EnCargo(c)
    BY EncargaIgual DEF ILugar, Tipos
<1>2. Cierres'
    BY CierresIgual DEF ILugar
<1>3. Llegados' /\ \A c \in Carpinchos : Existe(c)' = Existe(c)
    BY LlegadosIgual DEF ILugar, Tipos
<1>4. tomado'[t] # Nadie => Existe(tomado[t])'
    <2> SUFFICES ASSUME tomado'[t] # Nadie PROVE Existe(tomado[t])'
        OBVIOUS
    <2>1. PICK c \in Carpinchos : c = tomado'[t]
        BY DEF Tipos, TipoHilos
    <2>2. Existe(c)'
        BY <1>3, <2>1
    <2> QED BY <2>1, <2>2 DEF Existe
<1>5. Nadie \notin Carpinchos
    BY ConstantesOK DEF ConstantesOK
<1>6. /\ x \in Carpinchos => UnLugar(x)'
      /\ x \in Carpinchos /\ EnCargo(x)' => Frenado(x)'
      /\ \A u \in Hilos \ {t} : tomado[u] = x => x = Nadie \/ Existe(x)'
      /\ \A c \in Carpinchos \ {x} : EnCargo(c)' => EnCargo(c)
      /\ \A c \in Carpinchos \ {x} : estado'[c] = estado[c] /\ Existe(c)' = Existe(c)
    BY <1>1, <1>3, <1>5
<1> QED BY <1>1, <1>2, <1>3, <1>4, <1>6, Sigue

\* Nothing moves.
LEMMA MudaNada ==
    ASSUME Tipos, UNCHANGED cola, NEW t \in Hilos, NEW e, Ir(t, e),
           tomado' = tomado \/ \E m : Tomar(t, m),
           t \notin CPUs => {pc[t], e} \cap {"aReady", "liberar"} = {}
    PROVE  Muda(Nadie, "nada", "nada")
<1> SUFFICES ASSUME NEW c \in Carpinchos, NEW p \in Sitios
             PROVE  Puesto(c, p)' = Puesto(c, p) + Uno(c = Nadie /\ p = "nada")
                                                 - Uno(c = Nadie /\ p = "nada")
    BY DEF Muda
<1>1. EnMano(c)' = EnMano(c)
    <2>1. /\ EnMano(c) \in Nat /\ EnMano(c)' \in Nat
          /\ t \in CPUs => EnMano(c)' = EnMano(c)
          /\ t \notin CPUs
               => EnMano(c)' = EnMano(c) + Uno(EnLaMano(t, c)') - Uno(EnLaMano(t, c))
        BY ManoTras DEF Tipos
    <2>2. pc'[t] = e
        BY DEF Tipos, TipoHilos, Ir
    <2>3. t \notin CPUs => ~EnLaMano(t, c) /\ ~EnLaMano(t, c)'
        BY <2>2 DEF EnLaMano
    <2> QED BY <2>1, <2>3 DEF Uno
<1>2. Veces(c, p)' = Veces(c, p)
    BY DEF Veces
<1>3. Puesto(c, p)' = Puesto(c, p)
    BY <1>1, <1>2 DEF Puesto
<1>4. Puesto(c, p) \in Nat
    BY PuestoNat
<1> QED BY <1>3, <1>4 DEF Uno

\* No PCB moves.
LEMMA Quieto ==
    ASSUME UnaCPU, Tipos, Tipos', ILugar,
           NEW t \in Hilos \ {"liberador"}, NEW e, Ir(t, e),
           tomado' = tomado \/ \E m : Tomar(t, m),
           t \in Carpinchos => Avanza(t, e),
           UNCHANGED <<cola, estado, colaIO, cerrados, liberados>>,
           e \in Encargados => pc[t] \in Encargados /\ tomado'[t] = tomado[t],
           e = "aSusReady" => estado[tomado[t]] = "SUSBLOCKED",
           \A c \in Carpinchos :
               tomado'[t] = c => Existe(c) \/ (tomado[t] = c /\ pc[t] \notin Registrando),
           t \in CPUs => LaCPU(t)',
           t \notin CPUs => /\ {pc[t], e} \cap {"aReady", "liberar"} = {}
                            /\ \/ e \in Encargados \/ tomado'[t] = Nadie
                               \/ tomado' = tomado /\ pc[t] \notin Encargados \cup Registrando
    PROVE  ILugar'
<1>1. pc'[t] = e /\ \A u \in Hilos \ {t} : pc'[u] = pc[u]
    BY DEF Tipos, TipoHilos, Ir
<1>2. Muda(Nadie, "nada", "nada")
    BY MudaNada DEF Tipos
<1>3. \A c \in Carpinchos : tomado'[t] = c => Existe(c)
    BY ConstantesOK DEF ILugar, Vivos, ConstantesOK
<1>4. t \notin CPUs => Ocupado(t)'
    BY <1>1 DEF ILugar, Ocupados, Ocupado
<1>5. e = "aSusReady" => estado'[tomado'[t]] = "SUSBLOCKED"
    BY DEF Encargados
<1>6. \A u \in Hilos \ {t} :
          pc[u] = "aSusReady" /\ tomado[u] = Nadie => estado'[Nadie] = "SUSBLOCKED"
    BY DEF ILugar, Suspendidos
<1>7. Nadie \notin Carpinchos
    BY ConstantesOK DEF ConstantesOK
<1>8. /\ UNCHANGED <<colaIO, cerrados, liberados>>
      /\ \A c \in Carpinchos \ {Nadie} : estado'[c] = estado[c]
      /\ Nadie \in Carpinchos /\ EnCargo(Nadie)' => Frenado(Nadie)'
      /\ "nada" # "exit" /\ "nada" \notin {"ready", "exec"}
    BY <1>7
<1>9. t \notin CPUs => Ocupado(t)' /\ "nada" \notin {"ready", "exec"}
    BY <1>4
<1> QED BY <1>2, <1>3, <1>5, <1>6, <1>8, <1>9, Mueve

\* A thread has logged the PCB it had in hand, and drops it.
LEMMA Registra ==
    ASSUME UnaCPU, Tipos, Tipos', ILugar,
           NEW t \in Hilos \ {"liberador"}, pc[t] \in Registrando,
           NEW e, e \notin Encargados \cup {"aReady", "liberar"}, Ir(t, e), Soltar(t),
           t \in Carpinchos => Avanza(t, e),
           UNCHANGED <<cola, estado, colaIO, cerrados, liberados>>
    PROVE  ILugar'
<1>1. tomado'[t] = Nadie /\ (tomado' = tomado \/ \E m : Tomar(t, m))
    BY DEF Soltar, Tomar, Tipos, TipoHilos
<1>2. Nadie \notin Carpinchos
    BY ConstantesOK DEF ConstantesOK
<1>3. {pc[t], e} \cap {"aReady", "liberar"} = {}
    BY DEF Registrando
<1>4. e # "aSusReady"
    BY DEF Encargados
<1>5. LaCPU(t)'
    BY <1>1 DEF LaCPU
<1> QED BY <1>1, <1>2, <1>3, <1>4, <1>5, Quieto

\* A move between queues, and one between a queue and the hand of a thread.
LEMMA MudaCola ==
    ASSUME NEW x, NEW a, NEW b,
           \A c \in Carpinchos, q \in Colas :
               Veces(c, q)' = Veces(c, q) + Uno(c = x /\ q = b) - Uno(c = x /\ q = a),
           \A c \in Carpinchos :
               EnMano(c)' = EnMano(c) + Uno(c = x /\ "mano" = b) - Uno(c = x /\ "mano" = a)
    PROVE  Muda(x, a, b)
<1> SUFFICES ASSUME NEW c \in Carpinchos, NEW p \in Sitios
             PROVE  Puesto(c, p)' = Puesto(c, p) + Uno(c = x /\ p = b) - Uno(c = x /\ p = a)
    BY DEF Muda
<1>1. CASE p = "mano"
    BY <1>1 DEF Puesto
<1>2. CASE p # "mano"
    BY <1>2 DEF Puesto, Sitios
<1> QED BY <1>1, <1>2

\* The PCB a thread has out of the queues is in its hand.
LEMMA ManoPositiva ==
    ASSUME NEW t \in Hilos \ CPUs, NEW c
    PROVE  /\ EnLaMano(t, c) => EnMano(c) > 0
           /\ EnLaMano(t, c)' => EnMano(c)' > 0
<1>1. IsFiniteSet(Hilos)
    BY ConstantesOK DEF ConstantesOK
<1>2. ASSUME NEW S \in SUBSET Hilos, t \in S PROVE Cardinality(S) > 0
    <2>1. IsFiniteSet(S) /\ S # {}
        BY <1>1, <1>2, FS_Subset
    <2>2. Cardinality(S) \in Nat /\ Cardinality(S) # 0
        BY <2>1, FS_CardinalityType, FS_EmptySet
    <2> QED BY <2>2
<1> DEFINE A == {h \in Hilos \ CPUs : tomado[h] = c /\ pc[h] \in {"aReady", "liberar"}}
           B == {h \in Hilos \ CPUs : tomado'[h] = c /\ pc'[h] \in {"aReady", "liberar"}}
<1>3. A \in SUBSET Hilos /\ B \in SUBSET Hilos
    OBVIOUS
<1>4. (EnLaMano(t, c) => t \in A) /\ (EnLaMano(t, c)' => t \in B)
    BY DEF EnLaMano
<1>5. EnMano(c) = Cardinality(A) /\ EnMano(c)' = Cardinality(B)
    BY DEF EnMano
<1> HIDE DEF A, B
<1> QED BY <1>2, <1>3, <1>4, <1>5

\* A PCB out of BLOCKED is in nobody's charge, and one out of EXIT has not closed.
LEMMA SinCargo ==
    ASSUME Tipos, ILugar, NEW x \in Carpinchos, NEW p \in Puestos \ {"blocked"}, Puesto(x, p) > 0
    PROVE  /\ Existe(x) /\ ~EnCargo(x)
           /\ \A u \in Hilos : pc[u] \in Encargados => tomado[u] # x
<1>1. Existe(x) /\ ~Frenado(x)
    BY SoloAhi DEF ILugar, Ubicados
<1>2. ~EnCargo(x)
    BY <1>1 DEF ILugar, Frenos
<1> QED BY <1>1, <1>2 DEF EnCargo, Encarga

LEMMA SinCierre ==
    ASSUME Tipos, ILugar, NEW x \in Carpinchos, NEW p \in Puestos \ {"exit", "mano"},
           Puesto(x, p) > 0
    PROVE  x \notin cerrados
<1>1. Existe(x) /\ Puesto(x, "exit") = 0 /\ Puesto(x, "mano") = 0
    <2>1. "exit" \in Puestos \ {p} /\ "mano" \in Puestos \ {p}
        BY DEF Puestos, Sitios, Colas
    <2> QED BY <2>1, SoloAhi DEF ILugar, Ubicados
<1>2. x \notin liberados /\ ~(Veces(x, "exit") > 0)
    BY <1>1 DEF Existe, Puesto
<1>3. tomado["liberador"] # x
    <2> SUFFICES ASSUME tomado["liberador"] = x PROVE FALSE
        OBVIOUS
    <2>1. "liberador" \in Hilos \ CPUs
        BY LosHilos DEF Planificadores
    <2>2. pc["liberador"] = "liberar"
        BY <2>1, ConstantesOK
           DEF ILugar, Ocupados, Ocupado, Cierres, Encargados, Registrando, ConstantesOK
    <2>3. EnMano(x) > 0
        BY <2>1, <2>2, ManoPositiva DEF EnLaMano
    <2> QED BY <1>1, <2>3 DEF Puesto
<1> QED BY <1>2, <1>3 DEF ILugar, Cierres, EnFin

\* A move out of a place that is neither BLOCKED nor EXIT, to one that is not EXIT.
LEMMA MueveDe ==
    ASSUME UnaCPU, Tipos, Tipos', ILugar,
           NEW t \in Hilos \ (Carpinchos \cup {"liberador"}), NEW e, e \notin Encargados, Ir(t, e),
           tomado' = tomado \/ \E m : Tomar(t, m), UNCHANGED <<colaIO, cerrados, liberados>>,
           NEW x \in Carpinchos, NEW a \in Puestos \ {"blocked", "exit"},
           NEW b \in Puestos \ {"exit"}, Muda(x, a, b), Puesto(x, a) > 0,
           \A c \in Carpinchos \ {x} : estado'[c] = estado[c],
           tomado'[t] \in {x, Nadie},
           t \in CPUs => LaCPU(t)',
           t \notin CPUs => Ocupado(t)' /\ a \notin {"ready", "exec"}
    PROVE  ILugar'
<1>1. Existe(x) /\ ~EnCargo(x) /\ \A u \in Hilos : pc[u] \in Encargados => tomado[u] # x
    BY SinCargo
<1>2. Existe(x)' = Existe(x)
    BY LlegadosIgual DEF ILugar, Tipos
<1>3. UnLugar(x)'
    BY <1>2, MudaUnLugar DEF ILugar, Ubicados
<1>4. ~EnCargo(x)'
    BY <1>1, EncargaIgual DEF ILugar, Tipos
<1>5. \A c \in Carpinchos : tomado'[t] = c => Existe(c)
    BY <1>1, ConstantesOK DEF ConstantesOK
<1>6. /\ e = "aSusReady" => estado'[tomado'[t]] = "SUSBLOCKED"
      /\ \A u \in Hilos \ {t} :
             pc[u] = "aSusReady" /\ tomado[u] = x => estado'[x] = "SUSBLOCKED"
    BY <1>1 DEF Encargados
<1>7. /\ x = Nadie \/ (x \in Carpinchos /\ UnLugar(x)' /\ Existe(x))
      /\ x \in Carpinchos /\ EnCargo(x)' => Frenado(x)'
      /\ t \in Carpinchos => Avanza(t, e)
      /\ e \in Encargados => pc[t] \in Encargados /\ tomado'[t] = tomado[t]
      /\ t \in Hilos \ {"liberador"} /\ a # "exit" /\ b # "exit"
    BY <1>1, <1>3, <1>4
<1> QED BY <1>5, <1>6, <1>7, Mueve
-----------------------------------------------------------------------------
(* Every step keeps the invariant.                                         *)

\* A step that only ends the kernel.
LEMMA LugarCaer ==
    ASSUME ILugar, NEW q, Caer(q)
    PROVE  ILugar'
BY LugarIgual DEF Caer, io, clientes

\* The handler of a connection puts its PCB in NEW.
LEMMA MudaAlta ==
    ASSUME Tipos, NEW c \in Carpinchos, AltaEnNew(c)
    PROVE  Muda(c, "nada", "new")
<1>0. c \in Hilos /\ c \notin CPUs
    BY LosHilos, ConstantesOK DEF ConstantesOK
<1>1. pc[c] = "alta" /\ cola' = Encolar("new", c) /\ Ir(c, "registrarAlta") /\ Tomar(c, c)
    BY DEF AltaEnNew, En
<1>2. pc'[c] = "registrarAlta"
    BY <1>0, <1>1 DEF Tipos, TipoHilos, Ir
<1>3. ASSUME NEW d \in Carpinchos
      PROVE  EnMano(d)' = EnMano(d) + Uno(d = c /\ "mano" = "new")
                                    - Uno(d = c /\ "mano" = "nada")
    <2>1. ~EnLaMano(c, d) /\ ~EnLaMano(c, d)'
        BY <1>1, <1>2 DEF EnLaMano
    <2> QED BY <1>0, <1>1, <2>1, ManoTras DEF Tipos, Uno
<1>4. ASSUME NEW d \in Carpinchos, NEW q \in Colas
      PROVE  Veces(d, q)' = Veces(d, q) + Uno(d = c /\ q = "new")
                                        - Uno(d = c /\ q = "nada")
    <2>1. "new" \in Colas /\ q # "nada"
        BY DEF Colas
    <2>2. Veces(d, q) \in Nat
        BY VecesApariciones DEF Tipos
    <2>3. Veces(d, q)' = Veces(d, q) + Uno(d = c /\ q = "new")
        BY <1>1, <2>1, VecesEncolar DEF Tipos
    <2> QED BY <2>1, <2>2, <2>3 DEF Uno
<1> QED BY <1>3, <1>4, MudaCola

\* The handler of a connection.
LEMMA LugarAlta ==
    ASSUME UnaCPU, Tipos, Tipos', ILugar, NEW c \in Carpinchos, Alta(c)
    PROVE  ILugar'
<1> USE LosHilos DEF io, clientes, fin
<1>0. c \in Hilos \ {"liberador"} /\ c \notin CPUs
    BY ConstantesOK DEF ConstantesOK, Planificadores
<1>1. CASE AltaEnNew(c)
    <2>1. /\ pc[c] = "alta" /\ cola' = Encolar("new", c) /\ Ir(c, "registrarAlta")
          /\ Tomar(c, c) /\ UNCHANGED <<estado, colaIO, cerrados, liberados>>
        BY <1>1 DEF AltaEnNew, En
    <2>2. c \notin liberados /\ ~Existe(c)
        BY <2>1 DEF ILugar, Llegados, Existe
    <2>3. tomado'[c] = c /\ (tomado' = tomado \/ \E m : Tomar(c, m))
        BY <1>0, <2>1 DEF Tomar, Tipos, TipoHilos
    <2>4. pc'[c] = "registrarAlta" /\ \A u \in Hilos \ {c} : pc'[u] = pc[u]
        BY <2>1 DEF Tipos, TipoHilos, Ir
    <2>5. Muda(c, "nada", "new")
        BY <1>1, MudaAlta
    <2>6. Lugares(c) = 0
        BY <2>2 DEF ILugar, Ubicados, UnLugar
    <2>7. Existe(c)' /\ Lugares(c)' = 1
        <3>1. "new" \in Puestos /\ "nada" \notin Puestos
            BY DEF Puestos, Sitios, Colas
        <3>2. Lugares(c)' = Lugares(c) + Uno("new" \in Puestos) - Uno("nada" \in Puestos)
            BY <2>5, MudaLugares
        <3> QED BY <2>1, <2>2, <2>4, <2>6, <3>1, <3>2 DEF Existe, Uno
    <2>8. Llegados' /\ \A d \in Carpinchos \ {c} : estado'[d] = estado[d] /\ Existe(d)' = Existe(d)
        BY <2>1, <2>2, <2>4 DEF ILugar, Llegados, Existe
    <2>9. Unico' /\ \A d \in Carpinchos : EnCargo(d)' => EnCargo(d)
        <3>1. "registrarAlta" \notin Encargados
            BY DEF Encargados
        <3> QED BY <2>1, <2>3, <3>1, EncargaIgual DEF ILugar, Tipos
    <2>10. Cierres'
        BY <1>0, <2>1, <2>3, <2>5, CierresIgual DEF ILugar
    <2>11. ~EnCargo(c)'
        BY <2>2, <2>9 DEF ILugar, Frenos, Frenado
    <2>12. \A u \in Hilos : pc[u] = "aSusReady" => tomado[u] # c
        BY <2>2, ConstantesOK DEF ILugar, Vivos, Registrando, ConstantesOK
    <2>13. UnLugar(c)' /\ "registrarAlta" \in Registrando /\ Ocupado(c)'
        BY <2>4, <2>7 DEF UnLugar, Ocupado, Registrando
    <2>14. /\ "registrarAlta" = "aSusReady" => estado'[tomado'[c]] = "SUSBLOCKED"
           /\ \A u \in Hilos \ {c} :
                  pc[u] = "aSusReady" /\ tomado[u] = c => estado'[c] = "SUSBLOCKED"
           /\ tomado'[c] # Nadie /\ "registrarAlta" \notin Registrando => Existe(tomado[c])'
           /\ \A u \in Hilos \ {c} :
                  tomado[u] = c /\ pc[u] \notin Registrando => c = Nadie \/ Existe(c)'
           /\ c \in CPUs => LaCPU(c)'
           /\ c \notin CPUs => Ocupado(c)' /\ cerrados' = cerrados /\ "nada" \notin {"ready", "exec"}
        BY <1>0, <2>1, <2>7, <2>12, <2>13
    <2> QED BY <1>0, <2>1, <2>3, <2>5, <2>8, <2>9, <2>10, <2>11, <2>13, <2>14, Sigue
<1>2. CASE ConcluirAlta(c)
    <2>1. /\ pc[c] = "espAlta" /\ Ir(c, "fin") /\ tomado' = tomado
          /\ UNCHANGED <<cola, estado, colaIO, cerrados, liberados>>
        BY <1>2 DEF ConcluirAlta, En
    <2>2. /\ "fin" \notin Encargados /\ "espAlta" \notin Encargados \cup Registrando
          /\ Avanza(c, "fin")
        BY <2>1 DEF Encargados, Registrando, Avanza
    <2> QED BY <1>0, <2>1, <2>2, Quieto
<1>3. CASE RegistrarAlta(c)
    <2>1. /\ pc[c] = "registrarAlta" /\ Ir(c, "espAlta") /\ Soltar(c)
          /\ UNCHANGED <<cola, estado, colaIO, cerrados, liberados>>
        BY <1>3 DEF RegistrarAlta, En
    <2>2. /\ pc[c] \in Registrando /\ "espAlta" \notin Encargados \cup {"aReady", "liberar"}
          /\ Avanza(c, "espAlta")
        BY <2>1 DEF Encargados, Registrando, Avanza
    <2> QED BY <1>0, <2>1, <2>2, Registra
<1> QED BY <1>1, <1>2, <1>3 DEF Alta

\* A PCB in the hand of a thread becomes READY.
LEMMA MudaPasarAReady ==
    ASSUME Tipos, NEW t \in Hilos \ CPUs, NEW v \in Registrando, PasarAReady(t, v),
           NEW c \in Carpinchos, c = tomado[t]
    PROVE  Muda(c, "mano", "ready")
<1>1. /\ pc[t] = "aReady" /\ cola' = Encolar("ready", tomado[t]) /\ Ir(t, v)
      /\ UNCHANGED tomado
    BY DEF PasarAReady, EnCon, En
<1>2. c \in Carpinchos /\ c = tomado[t]
    OBVIOUS
<1>3. pc'[t] = v /\ v \notin {"aReady", "liberar"}
    BY <1>1 DEF Tipos, TipoHilos, Ir, Registrando
<1>4. tomado' = tomado \/ \E m : Tomar(t, m)
    BY <1>1
<1>5. ASSUME NEW d \in Carpinchos
      PROVE  EnMano(d)' = EnMano(d) + Uno(d = c /\ "mano" = "ready")
                                    - Uno(d = c /\ "mano" = "mano")
    <2>1. (EnLaMano(t, d) <=> d = c) /\ ~EnLaMano(t, d)'
        BY <1>1, <1>2, <1>3, ConstantesOK DEF EnLaMano, ConstantesOK
    <2>2. /\ EnMano(d) \in Nat
          /\ EnMano(d)' = EnMano(d) + Uno(EnLaMano(t, d)') - Uno(EnLaMano(t, d))
        BY <1>1, <1>4, ManoTras DEF Tipos
    <2> QED BY <2>1, <2>2 DEF Uno
<1>6. ASSUME NEW d \in Carpinchos, NEW q \in Colas
      PROVE  Veces(d, q)' = Veces(d, q) + Uno(d = c /\ q = "ready")
                                        - Uno(d = c /\ q = "mano")
    <2>1. "ready" \in Colas /\ q # "mano"
        BY DEF Colas
    <2>2. Veces(d, q) \in Nat
        BY VecesApariciones DEF Tipos
    <2>3. Veces(d, q)' = Veces(d, q) + Uno(d = c /\ q = "ready")
        BY <1>1, <1>2, <2>1, VecesEncolar DEF Tipos
    <2> QED BY <2>1, <2>2, <2>3 DEF Uno
<1> QED BY <1>5, <1>6, MudaCola

\* The threads that make READY the PCB they have in hand, which they log next.
LEMMA LugarPasarAReady ==
    ASSUME UnaCPU, Tipos, Tipos', ILugar,
           NEW t \in Hilos \ (Carpinchos \cup CPUs \cup {"liberador"}),
           NEW v \in Registrando, PasarAReady(t, v)
    PROVE  ILugar'
<1> DEFINE x == tomado[t]
<1>1. /\ pc[t] = "aReady" /\ cola' = Encolar("ready", tomado[t]) /\ Ir(t, v)
      /\ UNCHANGED tomado /\ Marcar(tomado[t], "READY") /\ UNCHANGED <<colaIO, cerrados, liberados>>
    BY DEF PasarAReady, EnCon, En, io, clientes, fin
<1>2. PICK c \in Carpinchos : c = tomado[t]
    BY <1>1 DEF Tipos, TipoHilos, Manos, ConPCB
<1>3. pc'[t] = v /\ tomado'[t] = c
    BY <1>1, <1>2 DEF Tipos, TipoHilos, Ir
<1>4. tomado' = tomado \/ \E m : Tomar(t, m)
    BY <1>1
<1>5. Muda(c, "mano", "ready")
    BY <1>2, MudaPasarAReady
<1>6. Puesto(c, "mano") > 0
    BY <1>1, <1>2, ManoPositiva DEF EnLaMano, Puesto
<1>7. /\ "mano" \in Puestos \ {"blocked", "exit"} /\ "ready" \in Puestos \ {"exit"}
      /\ "mano" \notin {"ready", "exec"} /\ v \notin Encargados
    BY DEF Puestos, Sitios, Colas, Registrando, Encargados
<1>8. \A d \in Carpinchos \ {c} : estado'[d] = estado[d]
    BY <1>1, <1>2 DEF Marcar, Tipos, TipoPCB
<1>9. Ocupado(t)' /\ tomado'[t] \in {c, Nadie}
    BY <1>3 DEF Ocupado
<1> QED BY <1>1, <1>4, <1>5, <1>6, <1>7, <1>8, <1>9, MueveDe

\* The first PCB of a queue goes to the hand of a thread.
LEMMA MudaAMano ==
    ASSUME Tipos, NEW q \in Colas, cola[q] # <<>>, cola' = SinPrimero(q),
           NEW t \in Hilos \ CPUs, pc[t] \notin {"aReady", "liberar"},
           NEW e \in {"aReady", "liberar"}, Ir(t, e), Tomar(t, Head(cola[q]))
    PROVE  \E x \in Carpinchos :
               /\ x = Head(cola[q]) /\ tomado'[t] = x /\ Puesto(x, q) > 0
               /\ Muda(x, q, "mano")
<1>1. PICK x \in Carpinchos : x = Head(cola[q])
    BY TrasSinPrimero DEF Tipos
<1>2. /\ tomado'[t] = x /\ pc'[t] = e
      /\ tomado' = tomado \/ \E m : Tomar(t, m)
    BY <1>1 DEF Tipos, TipoHilos, Ir, Tomar
<1>3. ASSUME NEW d \in Carpinchos
      PROVE  EnMano(d)' = EnMano(d) + Uno(d = x /\ "mano" = "mano") - Uno(d = x /\ "mano" = q)
    <2>1. ~EnLaMano(t, d) /\ (EnLaMano(t, d)' <=> d = x) /\ "mano" # q
        BY <1>2 DEF EnLaMano, Colas
    <2>2. /\ EnMano(d) \in Nat
          /\ EnMano(d)' = EnMano(d) + Uno(EnLaMano(t, d)') - Uno(EnLaMano(t, d))
        BY <1>2, ManoTras DEF Tipos
    <2> QED BY <2>1, <2>2 DEF Uno
<1>4. ASSUME NEW d \in Carpinchos, NEW r \in Colas
      PROVE  Veces(d, r)' = Veces(d, r) + Uno(d = x /\ r = "mano") - Uno(d = x /\ r = q)
    <2>1. Veces(d, r)' = Veces(d, r) - Uno(d = x /\ r = q)
        BY <1>1, VecesSinPrimero DEF Tipos
    <2>2. r # "mano"
        BY DEF Colas
    <2>3. Veces(d, r) \in Nat
        BY VecesApariciones DEF Tipos
    <2> QED BY <2>1, <2>2, <2>3 DEF Uno
<1>5. Veces(x, q) > 0
    BY <1>1, VecesSinPrimero DEF Tipos
<1>6. Puesto(x, q) > 0
    BY <1>5 DEF Puesto, Colas
<1>7. Muda(x, q, "mano")
    BY <1>3, <1>4, MudaCola
<1> QED BY <1>1, <1>2, <1>6, <1>7

\* The long-term scheduler.
LEMMA LugarLargo ==
    ASSUME UnaCPU, Tipos, Tipos', ILugar, Largo
    PROVE  ILugar'
<1> USE DEF io, clientes, fin
<1>0. "largo" \in Hilos \ (Carpinchos \cup CPUs \cup {"liberador"})
    BY LosHilos, ConstantesOK DEF ConstantesOK, Planificadores
<1>1. ASSUME NEW e \in {"grado", "mirar", "hay", "sacar"}, Ir("largo", e),
             pc["largo"] \in {"hay", "grado", "mirar"},
             UNCHANGED <<cola, estado, io, mutexDeadlock, tomado, clientes, fin>>
      PROVE  ILugar'
    <2>1. {pc["largo"], e} \cap ({"aReady", "liberar"} \cup Encargados \cup Registrando) = {}
        BY <1>1 DEF Encargados, Registrando
    <2> QED BY <1>0, <1>1, <2>1, Quieto DEF Encargados
<1>2. CASE TomarCandidato \/ TomarGrado \/ DelegarEnSusReady \/ ElegirNew
    BY <1>1, <1>2 DEF TomarCandidato, TomarGrado, DelegarEnSusReady, ElegirNew, En
<1>3. CASE SacarDeNew
    <2>1. CASE cola["new"] = <<>>
        BY <1>3, <2>1, LugarCaer DEF SacarDeNew
    <2>2. CASE cola["new"] # <<>>
        <3>1. /\ pc["largo"] = "sacar" /\ Tomar("largo", Head(cola["new"]))
              /\ cola' = SinPrimero("new") /\ Ir("largo", "aReady")
              /\ UNCHANGED <<estado, colaIO, cerrados, liberados>>
            BY <1>3, <2>2 DEF SacarDeNew, En
        <3>2. /\ "new" \in Colas /\ "new" \in Puestos \ {"blocked", "exit"}
              /\ "mano" \in Puestos \ {"exit"} /\ "aReady" \notin Encargados
            BY DEF Puestos, Sitios, Colas, Encargados
        <3>3. PICK x \in Carpinchos : /\ tomado'["largo"] = x /\ Puesto(x, "new") > 0
                                      /\ Muda(x, "new", "mano")
            BY <1>0, <2>2, <3>1, <3>2, MudaAMano
        <3>4. Ocupado("largo")'
            BY <3>1 DEF Ocupado, Tipos, TipoHilos, Ir
        <3> QED BY <1>0, <3>1, <3>2, <3>3, <3>4, MueveDe
    <2> QED BY <2>1, <2>2
<1>4. CASE NewAReady
    BY <1>0, <1>4, LugarPasarAReady DEF NewAReady, Registrando
<1>5. CASE RegistrarAdmision
    <2>1. /\ pc["largo"] \in Registrando /\ "hay" \notin Encargados \cup {"aReady", "liberar"}
          /\ Ir("largo", "hay") /\ Soltar("largo")
          /\ UNCHANGED <<cola, estado, colaIO, cerrados, liberados>>
        BY <1>5 DEF RegistrarAdmision, RegistrarReady, En, Registrando, Encargados
    <2> QED BY <1>0, <2>1, Registra
<1> QED BY <1>2, <1>3, <1>4, <1>5 DEF Largo

\* The thread that moves SUSP/READY to READY.
LEMMA LugarSusReady ==
    ASSUME UnaCPU, Tipos, Tipos', ILugar, SusReady
    PROVE  ILugar'
<1> USE DEF io, clientes, fin
<1>0. "susready" \in Hilos \ (Carpinchos \cup CPUs \cup {"liberador"})
    BY LosHilos, ConstantesOK DEF ConstantesOK, Planificadores
<1>1. CASE TomarSusReady
    <2>1. CASE cola["susready"] = <<>>
        BY <1>1, <2>1, LugarCaer DEF TomarSusReady
    <2>2. CASE cola["susready"] # <<>>
        <3>1. /\ pc["susready"] = "transicionar" /\ Tomar("susready", Head(cola["susready"]))
              /\ cola' = SinPrimero("susready") /\ Ir("susready", "aReady")
              /\ UNCHANGED <<estado, colaIO, cerrados, liberados>>
            BY <1>1, <2>2 DEF TomarSusReady, En
        <3>2. /\ "susready" \in Colas /\ "susready" \in Puestos \ {"blocked", "exit"}
              /\ "mano" \in Puestos \ {"exit"} /\ "aReady" \notin Encargados
            BY DEF Puestos, Sitios, Colas, Encargados
        <3>3. PICK x \in Carpinchos : /\ tomado'["susready"] = x /\ Puesto(x, "susready") > 0
                                      /\ Muda(x, "susready", "mano")
            BY <1>0, <2>2, <3>1, <3>2, MudaAMano
        <3>4. Ocupado("susready")'
            BY <3>1 DEF Ocupado, Tipos, TipoHilos, Ir
        <3> QED BY <1>0, <3>1, <3>2, <3>3, <3>4, MueveDe
    <2> QED BY <2>1, <2>2
<1>2. CASE SusReadyAReady
    BY <1>0, <1>2, LugarPasarAReady DEF SusReadyAReady, Registrando
<1>3. CASE RegistrarTransicion
    <2> DEFINE e == "transicionar"
    <2>1. /\ pc["susready"] \in Registrando /\ e \notin Encargados \cup {"aReady", "liberar"}
          /\ Ir("susready", e) /\ Soltar("susready")
          /\ UNCHANGED <<cola, estado, colaIO, cerrados, liberados>>
        BY <1>3 DEF RegistrarTransicion, RegistrarReady, En, Registrando, Encargados
    <2> QED BY <1>0, <2>1, Registra
<1> QED BY <1>1, <1>2, <1>3 DEF SusReady

\* The PCB the thread has in hand is freed.
LEMMA MudaLiberar ==
    ASSUME Tipos, Liberar, NEW x \in Carpinchos, x = tomado["liberador"]
    PROVE  Muda(x, "mano", "nada")
<1> DEFINE t == "liberador"
<1>0. t \in Hilos /\ t \notin CPUs /\ Nadie \notin Carpinchos
    BY LosHilos, ConstantesOK DEF ConstantesOK, Planificadores
<1>1. pc[t] = "liberar" /\ Soltar(t) /\ Ir(t, "exit") /\ UNCHANGED cola
    BY DEF Liberar, EnCon, En
<1>2. /\ pc'[t] = "exit" /\ tomado'[t] = Nadie
      /\ tomado' = tomado \/ \E m : Tomar(t, m)
    BY <1>0, <1>1 DEF Tipos, TipoHilos, Ir, Soltar, Tomar
<1>3. ASSUME NEW d \in Carpinchos
      PROVE  EnMano(d)' = EnMano(d) + Uno(d = x /\ "mano" = "nada")
                                    - Uno(d = x /\ "mano" = "mano")
    <2>1. (EnLaMano(t, d) <=> d = x)
        BY <1>1 DEF EnLaMano
    <2>2. ~EnLaMano(t, d)'
        BY <1>2 DEF EnLaMano
    <2>3. /\ EnMano(d) \in Nat
          /\ EnMano(d)' = EnMano(d) + Uno(EnLaMano(t, d)') - Uno(EnLaMano(t, d))
        BY <1>0, <1>1, <1>2, ManoTras DEF Tipos
    <2> QED BY <2>1, <2>2, <2>3 DEF Uno
<1>4. ASSUME NEW d \in Carpinchos, NEW q \in Colas
      PROVE  Veces(d, q)' = Veces(d, q) + Uno(d = x /\ q = "nada")
                                        - Uno(d = x /\ q = "mano")
    <2>1. Veces(d, q)' = Veces(d, q) /\ Veces(d, q) \in Nat
        BY <1>1, VecesApariciones DEF Tipos, Veces
    <2> QED BY <2>1 DEF Uno, Colas
<1> QED BY <1>3, <1>4, MudaCola

\* The thread that frees finished PCBs.
LEMMA LugarLiberador ==
    ASSUME UnaCPU, Tipos, Tipos', ILugar, Liberador
    PROVE  ILugar'
<1> USE DEF io, clientes, fin
<1> DEFINE t == "liberador"
<1>0. t \in Hilos /\ t \notin CPUs /\ t \notin Carpinchos /\ Nadie \notin Carpinchos
    BY LosHilos, ConstantesOK DEF ConstantesOK, Planificadores
<1>1. CASE TomarExit
    <2>1. CASE cola["exit"] = <<>>
        BY <1>1, <2>1, LugarCaer DEF TomarExit
    <2>2. CASE cola["exit"] # <<>>
        <3>1. /\ pc[t] = "exit" /\ Tomar(t, Head(cola["exit"]))
              /\ cola' = SinPrimero("exit") /\ Ir(t, "liberar")
              /\ UNCHANGED <<estado, colaIO, cerrados, liberados>>
            BY <1>1, <2>2 DEF TomarExit, En
        <3>2. /\ "exit" \in Colas /\ "exit" \in Sitios /\ "exit" \in Puestos \ {"blocked"}
              /\ "mano" \in Puestos /\ "liberar" \notin Encargados
            BY DEF Puestos, Sitios, Colas, Encargados
        <3>3. PICK x \in Carpinchos : /\ tomado'[t] = x /\ Puesto(x, "exit") > 0
                                      /\ Muda(x, "exit", "mano")
            BY <1>0, <2>2, <3>1, <3>2, MudaAMano
        <3>4. pc'[t] = "liberar" /\ Ocupado(t)'
            BY <1>0, <3>1 DEF Ocupado, Tipos, TipoHilos, Ir
        <3>5. Existe(x) /\ ~EnCargo(x) /\ \A u \in Hilos : pc[u] \in Encargados => tomado[u] # x
            BY <3>2, <3>3, SinCargo
        <3>6. Llegados' /\ \A c \in Carpinchos : Existe(c)' = Existe(c)
            BY <1>0, <3>1, LlegadosIgual DEF ILugar, Tipos
        <3>7. UnLugar(x)'
            BY <3>2, <3>3, <3>6, MudaUnLugar DEF ILugar, Ubicados
        <3>8. Unico' /\ \A c \in Carpinchos : EnCargo(c)' => EnCargo(c)
            BY <1>0, <3>1, <3>2, EncargaIgual DEF ILugar, Tipos
        <3>9. Cierres'
            <4>1. tomado[t] = Nadie
                BY <1>0, <3>1 DEF ILugar, Ocupados, Ocupado, Encargados, Registrando
            <4>2. ASSUME NEW c \in Carpinchos PROVE EnFin(c)' = EnFin(c)
                <5>1. CASE c = x
                    BY <3>3, <5>1 DEF EnFin, Puesto
                <5>2. CASE c # x
                    <6>1. Veces(c, "exit")' = Veces(c, "exit")
                        BY <3>2, <3>3, <5>2, MudaIgual
                    <6> QED BY <1>0, <3>1, <3>3, <4>1, <5>2, <6>1 DEF EnFin
                <5> QED BY <5>1, <5>2
            <4> QED BY <3>1, <3>4, <4>2 DEF ILugar, Cierres
        <3>10. tomado'[t] # Nadie => Existe(tomado[t])'
            BY <3>3, <3>5, <3>6 DEF Existe
        <3>11. /\ \A u \in Hilos \ {t} :
                     pc[u] = "aSusReady" /\ tomado[u] = x => estado'[x] = "SUSBLOCKED"
               /\ "liberar" = "aSusReady" => estado'[tomado'[t]] = "SUSBLOCKED"
               /\ "exit" \notin {"ready", "exec"}
            BY <3>5 DEF Encargados
        <3> QED BY <1>0, <3>1, <3>3, <3>4, <3>5, <3>6, <3>7, <3>8, <3>9, <3>10, <3>11, Sigue
    <2> QED BY <2>1, <2>2
<1>2. CASE Liberar
    <2>1. /\ pc[t] = "liberar" /\ liberados' = liberados \cup {tomado[t]} /\ Soltar(t)
          /\ Ir(t, "exit") /\ UNCHANGED <<cola, estado, colaIO, cerrados>>
        BY <1>2 DEF Liberar, EnCon, En
    <2>2. PICK x \in Carpinchos : x = tomado[t]
        BY <1>0, <2>1 DEF Tipos, TipoHilos, Manos, ConPCB
    <2>3. /\ pc'[t] = "exit" /\ tomado'[t] = Nadie
          /\ tomado' = tomado \/ \E m : Tomar(t, m)
          /\ \A u \in Hilos \ {t} : pc'[u] = pc[u] /\ tomado'[u] = tomado[u]
        BY <1>0, <2>1 DEF Tipos, TipoHilos, Ir, Soltar, Tomar
    <2>4. Muda(x, "mano", "nada")
        BY <1>2, <2>2, MudaLiberar
    <2>5. /\ "mano" \in Puestos \ {"blocked"} /\ "mano" \in Sitios /\ "nada" \notin Puestos
          /\ "exit" \notin Encargados
        BY DEF Puestos, Sitios, Colas, Encargados
    <2>6. Puesto(x, "mano") > 0
        BY <1>0, <2>1, <2>2, ManoPositiva DEF EnLaMano, Puesto
    <2>7. Existe(x) /\ ~EnCargo(x) /\ \A u \in Hilos : pc[u] \in Encargados => tomado[u] # x
        BY <2>5, <2>6, SinCargo
    <2>8. Lugares(x) = 1 /\ EnMano(x) = 1
        BY <2>5, <2>6, SoloAhi DEF ILugar, Ubicados, Puesto
    <2>9. Lugares(x)' = 0
        BY <2>4, <2>5, <2>8, MudaLugares DEF Uno
    <2>10. UnLugar(x)' /\ x \in liberados'
        BY <2>1, <2>2, <2>9 DEF UnLugar, Existe
    <2>11. \A u \in Hilos \ {t} : pc[u] \notin Registrando => tomado[u] # x
        <3> SUFFICES ASSUME NEW u \in Hilos \ {t}, pc[u] \notin Registrando, tomado[u] = x
                     PROVE  FALSE
            OBVIOUS
        <3>1. CASE u \in CPUs
            <4>1. x \notin cerrados
                BY <1>0, <3>1 DEF ILugar, LasCPUs, LaCPU
            <4> QED BY <2>2, <4>1 DEF ILugar, Cierres, EnFin
        <3>2. CASE u \notin CPUs
            <4>1. pc[u] \in {"aReady", "liberar"}
                BY <1>0, <2>7, <3>2 DEF ILugar, Ocupados, Ocupado
            <4>2. EnLaMano(u, x)'
                BY <2>3, <4>1 DEF EnLaMano
            <4>3. EnMano(x)' > 0
                BY <3>2, <4>2, ManoPositiva
            <4>4. EnMano(x)' = 0
                <5>1. Puesto(x, "mano")' = Puesto(x, "mano") + Uno(x = x /\ "mano" = "nada")
                                           - Uno(x = x /\ "mano" = "mano")
                    BY <2>4, <2>5 DEF Muda
                <5> QED BY <2>8, <5>1 DEF Puesto, Uno
            <4> QED BY <4>3, <4>4
        <3> QED BY <3>1, <3>2
    <2>12. Llegados' /\ \A c \in Carpinchos \ {x} : estado'[c] = estado[c] /\ Existe(c)' = Existe(c)
        <3>1. \A c \in Carpinchos : pc'[c] = pc[c]
            BY <1>0, <2>3, LosHilos
        <3> QED BY <2>1, <2>2, <2>7, <3>1 DEF ILugar, Llegados, Existe
    <2>13. Unico' /\ \A c \in Carpinchos : EnCargo(c)' => EnCargo(c)
        BY <1>0, <2>1, <2>3, <2>5, EncargaIgual DEF ILugar, Tipos
    <2>14. Cierres'
        <3>1. \A c \in Carpinchos : Veces(c, "exit")' = Veces(c, "exit")
            BY <2>1 DEF Veces
        <3>2. ASSUME NEW c \in Carpinchos PROVE EnFin(c)' <=> EnFin(c)
            <4>1. c \in liberados' <=> c \in liberados \/ c = x
                BY <2>1, <2>2
            <4>2. tomado'[t] # c
                BY <1>0, <2>3
            <4> QED BY <2>2, <3>1, <4>1, <4>2 DEF EnFin
        <3>3. pc'[t] \in {"exit", "liberar"} /\ cerrados' = cerrados
            BY <2>1, <2>3
        <3> QED BY <3>2, <3>3 DEF ILugar, Cierres
    <2>15. /\ \A u \in Hilos \ {t} :
                  pc[u] = "aSusReady" /\ tomado[u] = x => estado'[x] = "SUSBLOCKED"
           /\ \A u \in Hilos \ {t} :
                  tomado[u] = x /\ pc[u] \notin Registrando => x = Nadie \/ Existe(x)'
           /\ tomado'[t] # Nadie => Existe(tomado[t])'
           /\ "exit" = "aSusReady" => estado'[tomado'[t]] = "SUSBLOCKED"
           /\ "mano" \notin {"ready", "exec"}
        BY <2>3, <2>11 DEF Registrando
    <2>16. Ocupado(t)'
        BY <2>3 DEF Ocupado
    <2> QED BY <1>0, <2>1, <2>3, <2>4, <2>7, <2>10, <2>12, <2>13, <2>14, <2>15, <2>16, Sigue
<1> QED BY <1>1, <1>2 DEF Liberador

\* The suspension takes the last PCB of BLOCKED to SUSP/BLOCKED.
LEMMA VecesUltimo ==
    ASSUME cola \in TipoCola, cola["blocked"] # <<>>, NEW x, x = Last(cola["blocked"]),
           cola' = [cola EXCEPT !["blocked"] = Front(@), !["susblocked"] = Append(@, x)],
           NEW c \in Carpinchos, NEW r \in Colas
    PROVE  /\ Veces(c, r)' = Veces(c, r) + Uno(c = x /\ r = "susblocked")
                                         - Uno(c = x /\ r = "blocked")
           /\ Veces(x, "blocked") > 0
<1>0. "blocked" \in Colas /\ "susblocked" \in Colas
    BY DEF Colas
<1>1. /\ Veces(c, r) \in Nat /\ Veces(c, r) = Apariciones(cola[r], c)
      /\ cola[r] \in Seq(Carpinchos)
    BY VecesApariciones
<1>2. Veces(c, r)' = Apariciones(cola'[r], c)
    BY DEF Veces, Apariciones, Donde
<1>3. cola["blocked"] \in Seq(Carpinchos)
    BY <1>0 DEF TipoCola
<1>4. x \in Carpinchos
    BY <1>3, QuitarUltimo
<1>5. Veces(c, r)' = Veces(c, r) + Uno(c = x /\ r = "susblocked") - Uno(c = x /\ r = "blocked")
    <2>1. CASE r = "susblocked"
        <3>1. cola'[r] = Append(cola[r], x)
            BY <1>0, <2>1 DEF TipoCola
        <3>2. Apariciones(Append(cola[r], x), c) = Apariciones(cola[r], c) + Uno(x = c)
            BY <1>1, <1>4, AparicionesAppend
        <3>3. Veces(c, r)' = Veces(c, r) + Uno(x = c)
            BY <1>1, <1>2, <3>1, <3>2
        <3> QED BY <1>1, <2>1, <3>3 DEF Uno
    <2>2. CASE r = "blocked"
        <3>1. cola'[r] = Front(cola[r])
            BY <1>0, <2>2 DEF TipoCola
        <3>2. Apariciones(Front(cola[r]), c) = Apariciones(cola[r], c) - Uno(Last(cola[r]) = c)
            BY <1>1, <2>2, AparicionesFront
        <3> QED BY <1>1, <1>2, <2>2, <3>1, <3>2 DEF Uno
    <2>3. CASE r \notin {"susblocked", "blocked"}
        <3>1. cola'[r] = cola[r]
            BY <2>3 DEF TipoCola
        <3> QED BY <1>1, <1>2, <2>3, <3>1 DEF Uno
    <2> QED BY <2>1, <2>2, <2>3
<1>6. Veces(x, "blocked") > 0
    <2> DEFINE s == cola["blocked"]
    <2>1. Len(s) \in Nat \ {0}
        BY <1>3, EmptySeq
    <2>2. Len(s) \in 1..Len(s) /\ s[Len(s)] = x
        BY <2>1 DEF Last
    <2>3. Contains(s, x)
        BY <2>2 DEF Contains
    <2> QED BY <1>0, <2>3, VecesApariciones
<1> QED BY <1>5, <1>6

LEMMA MudaSuspender ==
    ASSUME Tipos, pc["mediano"] = "suspender", Ir("mediano", "registrarSuspension"),
           cola["blocked"] # <<>>, NEW x \in Carpinchos, x = Last(cola["blocked"]),
           Tomar("mediano", x),
           cola' = [cola EXCEPT !["blocked"] = Front(@), !["susblocked"] = Append(@, x)]
    PROVE  Muda(x, "blocked", "susblocked") /\ Veces(x, "blocked") > 0
<1>0. "mediano" \in Hilos \ CPUs
    BY LosHilos, ConstantesOK DEF ConstantesOK, Planificadores
<1>1. pc'["mediano"] = "registrarSuspension"
    BY <1>0 DEF Tipos, TipoHilos, Ir
<1>2. ASSUME NEW d \in Carpinchos
      PROVE  EnMano(d)' = EnMano(d) + Uno(d = x /\ "mano" = "susblocked")
                                    - Uno(d = x /\ "mano" = "blocked")
    <2>1. ~EnLaMano("mediano", d) /\ ~EnLaMano("mediano", d)'
        BY <1>1 DEF EnLaMano
    <2> QED BY <1>0, <2>1, ManoTras DEF Tipos, Uno
<1>3. ASSUME NEW c \in Carpinchos, NEW q \in Colas
      PROVE  Veces(c, q)' = Veces(c, q) + Uno(c = x /\ q = "susblocked")
                                        - Uno(c = x /\ q = "blocked")
    BY VecesUltimo DEF Tipos
<1>4. Veces(x, "blocked") > 0
    <2>1. x \in Carpinchos /\ "blocked" \in Colas
        BY DEF Colas
    <2> QED BY <2>1, VecesUltimo DEF Tipos
<1> QED BY <1>2, <1>3, <1>4, MudaCola

\* The medium-term scheduler.
LEMMA LugarMediano ==
    ASSUME UnaCPU, Tipos, Tipos', ILugar, Mediano
    PROVE  ILugar'
<1> USE DEF io, clientes, fin
<1>0. "mediano" \in Hilos \ (Carpinchos \cup CPUs \cup {"liberador"})
    BY LosHilos, ConstantesOK DEF ConstantesOK, Planificadores
<1>1. ASSUME NEW e \in {"despertar", "verNew", "verBlocked", "verGrado", "suspender"},
             Ir("mediano", e), pc["mediano"] \in {"despertar", "verNew", "verBlocked", "verGrado"},
             UNCHANGED <<cola, estado, io, mutexDeadlock, tomado, clientes, fin>>
      PROVE  ILugar'
    <2>1. {pc["mediano"], e} \cap ({"aReady", "liberar"} \cup Encargados \cup Registrando) = {}
        BY <1>1 DEF Encargados, Registrando
    <2> QED BY <1>0, <1>1, <2>1, Quieto DEF Encargados
<1>2. CASE Despertar
    <2>1. CASE cola["ready"] = <<>>
        BY <1>1, <1>2, <2>1 DEF Despertar, En
    <2>2. CASE cola["ready"] # <<>>
        <3>1. Ir("mediano", "despertar")
            BY <1>0, <1>2, <2>2 DEF Despertar, En, Ir, Tipos, TipoHilos
        <3> QED BY <1>1, <1>2, <3>1 DEF Despertar, En
    <2> QED BY <2>1, <2>2
<1>3. CASE VerNew \/ VerBlocked \/ VerGrado
    <2>1. ASSUME NEW e \in {"verNew", "verBlocked", "verGrado"}, NEW b,
                 NEW f \in {"verBlocked", "verGrado", "suspender"}, Evaluar(e, b, f)
          PROVE  ILugar'
        BY <1>1, <2>1 DEF Evaluar, DejarDeEvaluar, En
    <2> QED BY <1>3, <2>1 DEF VerNew, VerBlocked, VerGrado
<1>4. CASE Suspender
    <2>1. CASE cola["blocked"] = <<>> \/ Last(cola["blocked"]) \in liberados
        BY <1>4, <2>1, LugarCaer DEF Suspender
    <2>2. CASE cola["blocked"] # <<>> /\ Last(cola["blocked"]) \notin liberados
        <3>1. PICK x \in Carpinchos : x = Last(cola["blocked"])
            <4>1. cola["blocked"] \in Seq(Carpinchos)
                BY DEF Tipos, TipoCola, Colas
            <4> QED BY <2>2, <4>1, QuitarUltimo
        <3>2. /\ pc["mediano"] = "suspender" /\ Marcar(x, "SUSBLOCKED")
              /\ cola' = [cola EXCEPT !["blocked"] = Front(@), !["susblocked"] = Append(@, x)]
              /\ Ir("mediano", "registrarSuspension") /\ Tomar("mediano", x)
              /\ UNCHANGED <<colaIO, cerrados, liberados>>
            BY <1>4, <2>2, <3>1 DEF Suspender, En
        <3>3. /\ pc'["mediano"] = "registrarSuspension"
              /\ estado'[x] = "SUSBLOCKED"
              /\ \A c \in Carpinchos \ {x} : estado'[c] = estado[c]
            BY <1>0, <3>2 DEF Marcar, Tipos, TipoHilos, TipoPCB, Ir
        <3>4. Muda(x, "blocked", "susblocked") /\ Veces(x, "blocked") > 0
            BY <2>2, <3>1, <3>2, MudaSuspender
        <3>5. /\ "blocked" \in Puestos /\ "susblocked" \notin Puestos
              /\ "susblocked" \in Sitios /\ "susblocked" \in Colas
              /\ "registrarSuspension" \notin Encargados /\ "suspender" \notin Encargados
              /\ "registrarSuspension" \in Registrando
            BY DEF Puestos, Sitios, Colas, Encargados, Registrando
        <3>6. Existe(x) /\ Lugares(x) = 1
            BY <3>4, <3>5, SoloAhi DEF ILugar, Ubicados, Puesto
        <3>7. Lugares(x)' = 0
            BY <3>4, <3>5, <3>6, MudaLugares DEF Uno
        <3>8. Veces(x, "susblocked")' > 0
            <4>1. Veces(x, "susblocked") \in Nat
                BY <3>5, VecesApariciones DEF Tipos
            <4> QED BY <3>4, <3>5, <4>1 DEF Muda, Puesto, Uno
        <3>9. Existe(x)'
            BY <1>0, <3>2, <3>6, LlegadosIgual DEF ILugar, Tipos
        <3>10. UnLugar(x)' /\ Frenado(x)'
            BY <3>3, <3>7, <3>8, <3>9 DEF UnLugar, Frenado
        <3>11. tomado'["mediano"] = x /\ (tomado' = tomado \/ \E m : Tomar("mediano", m))
            BY <1>0, <3>2 DEF Tomar, Tipos, TipoHilos
        <3>12. /\ \A c \in Carpinchos : tomado'["mediano"] = c => Existe(c)
               /\ Ocupado("mediano")' /\ "blocked" \notin {"ready", "exec"}
            BY <3>3, <3>5, <3>6, <3>11 DEF Ocupado
        <3>13. /\ "mediano" \in Carpinchos => Avanza("mediano", "registrarSuspension")
               /\ "registrarSuspension" = "aSusReady"
                    => estado'[tomado'["mediano"]] = "SUSBLOCKED"
               /\ "registrarSuspension" \in Encargados
                    => pc["mediano"] \in Encargados /\ tomado'["mediano"] = tomado["mediano"]
               /\ x = Nadie \/ (x \in Carpinchos /\ UnLugar(x)' /\ Existe(x))
            BY <1>0, <3>5, <3>6, <3>10
        <3> QED BY <1>0, <3>2, <3>3, <3>4, <3>10, <3>11, <3>12, <3>13, Mueve
    <2> QED BY <2>1, <2>2
<1>5. CASE RegistrarSuspension
    <2>1. /\ pc["mediano"] \in Registrando
          /\ "despertar" \notin Encargados \cup {"aReady", "liberar"}
          /\ Ir("mediano", "despertar") /\ Soltar("mediano")
          /\ UNCHANGED <<cola, estado, colaIO, cerrados, liberados>>
        BY <1>5 DEF RegistrarSuspension, En, Registrando, Encargados
    <2> QED BY <1>0, <2>1, Registra
<1> QED BY <1>2, <1>3, <1>4, <1>5 DEF Mediano

\* A CPU moves the PCB it has in hand from one queue to another.
LEMMA MudaDeCPU ==
    ASSUME Tipos, NEW k \in CPUs, NEW e, Ir(k, e), tomado' = tomado \/ \E m : Tomar(k, m),
           NEW x \in Carpinchos, NEW a \in Colas, NEW b \in Colas, a # b,
           cola' = Mover(x, a, b), Veces(x, a) > 0
    PROVE  Muda(x, a, b)
<1>1. Contains(cola[a], x)
    BY VecesApariciones DEF Tipos
<1>2. \A c \in Carpinchos, q \in Colas :
          Veces(c, q)' = Veces(c, q) + Uno(c = x /\ q = b) - Uno(c = x /\ q = a)
    BY <1>1, VecesMover DEF Tipos
<1>3. ASSUME NEW c \in Carpinchos
      PROVE  EnMano(c)' = EnMano(c) + Uno(c = x /\ "mano" = b) - Uno(c = x /\ "mano" = a)
    <2>1. EnMano(c)' = EnMano(c) /\ EnMano(c) \in Nat
        BY LosHilos, ManoTras DEF Tipos
    <2>2. "mano" # a /\ "mano" # b
        BY DEF Colas
    <2> QED BY <2>1, <2>2 DEF Uno
<1> QED BY <1>2, <1>3, MudaCola

\* A PCB the CPU may choose, dispatch or serve exists and has not closed.
LEMMA EnServicio ==
    ASSUME Tipos, ILugar, NEW x \in Carpinchos, NEW q \in {"ready", "exec"}, Veces(x, q) > 0
    PROVE  /\ Puesto(x, q) > 0 /\ Existe(x) /\ x \notin cerrados /\ ~EnCargo(x)
           /\ \A u \in Hilos : pc[u] \in Encargados => tomado[u] # x
<1>1. q \in Puestos \ {"exit", "mano", "blocked"}
    BY DEF Puestos, Sitios, Colas
<1>2. Puesto(x, q) > 0
    BY DEF Puesto
<1> QED BY <1>1, <1>2, SinCargo, SinCierre

\* A CPU, but for the steps that close the client or take it to a device.
LEMMA LugarCPU1 ==
    ASSUME UnaCPU, Tipos, Tipos', ILugar, NEW k \in CPUs,
           \/ Elegir(k) \/ Despachar(k) \/ EmpezarAtencion(k) \/ AvisarDispositivo(k)
           \/ AtenderIODesconocida(k) \/ Estimar(k)
           \/ RegistrarExit(k)
    PROVE  ILugar'
<1> USE DEF io, clientes, fin
<1>0. k \in Hilos \ {"liberador"} /\ k \notin Carpinchos /\ Nadie \notin Carpinchos
    BY LosHilos, ConstantesOK DEF ConstantesOK, Planificadores
<1>1. /\ LaCPU(k)
      /\ pc[k] \in ConPCB => tomado[k] \in Carpinchos
    BY <1>0 DEF ILugar, LasCPUs, Tipos, TipoHilos, Manos
<1>2. ASSUME NEW e, Ir(k, e) PROVE pc'[k] = e
    BY <1>0, <1>2 DEF Ir, Tipos, TipoHilos
<1>3. CASE Elegir(k)
    <2>1. CASE Caer("corto")
        BY <2>1, LugarCaer
    <2>2. ASSUME NEW c \in ToSet(cola["ready"]), Tomar(k, c), Ir(k, "despachar"),
                 UNCHANGED <<cola, estado, colaIO, cerrados, liberados>>
          PROVE  ILugar'
        <3>1. c \in Carpinchos /\ Veces(c, "ready") > 0
            <4>1. cola["ready"] \in Seq(Carpinchos) /\ "ready" \in Colas
                BY DEF Tipos, TipoCola, Colas
            <4>2. \E i \in 1..Len(cola["ready"]) : cola["ready"][i] = c
                BY <4>1, LenProperties DEF ToSet
            <4>3. c \in Carpinchos /\ Contains(cola["ready"], c)
                BY <4>1, <4>2, ElementOfSeq DEF Contains
            <4> QED BY <4>1, <4>3, VecesApariciones DEF Tipos
        <3>2. Existe(c) /\ c \notin cerrados
            BY <3>1, EnServicio
        <3>3. tomado'[k] = c /\ pc'[k] = "despachar"
            BY <1>0, <1>2, <2>2 DEF Tomar, Tipos, TipoHilos
        <3>4. LaCPU(k)'
            BY <2>2, <3>1, <3>2, <3>3 DEF LaCPU, Veces
        <3>5. "despachar" \notin Encargados
            BY DEF Encargados
        <3> QED BY <1>0, <2>2, <3>2, <3>3, <3>4, <3>5, Quieto
    <2> QED BY <1>3, <2>1, <2>2 DEF Elegir
<1>4. CASE Despachar(k)
    <2>1. /\ pc[k] = "despachar" /\ Marcar(tomado[k], "EXEC")
          /\ cola' = Mover(tomado[k], "ready", "exec") /\ Ir(k, "espExec")
          /\ UNCHANGED <<colaIO, tomado, cerrados, liberados>>
        BY <1>4 DEF Despachar, EnCon, En
    <2>2. PICK x \in Carpinchos : x = tomado[k] /\ x = tomado'[k]
        BY <1>1, <2>1 DEF ConPCB
    <2>3. Veces(x, "ready") > 0
        BY <1>0, <1>1, <2>1, <2>2 DEF LaCPU
    <2>4. Puesto(x, "ready") > 0 /\ x \notin cerrados
        BY <2>3, EnServicio
    <2>5. /\ "ready" \in Colas /\ "exec" \in Colas /\ "exec" \in Sitios
          /\ "ready" \in Puestos \ {"blocked", "exit"} /\ "exec" \in Puestos \ {"exit"}
          /\ "espExec" \notin Encargados
        BY DEF Puestos, Sitios, Colas, Encargados
    <2>6. Muda(x, "ready", "exec")
        BY <2>1, <2>2, <2>3, <2>5, MudaDeCPU
    <2>7. LaCPU(k)'
        <3>1. Veces(x, "exec")' > 0
            <4>1. Veces(x, "exec") \in Nat
                BY <2>5, VecesApariciones DEF Tipos
            <4> QED BY <2>5, <2>6, <4>1 DEF Muda, Puesto, Uno
        <3>2. pc'[k] = "espExec"
            BY <1>2, <2>1
        <3> QED BY <2>1, <2>2, <2>4, <3>1, <3>2 DEF LaCPU, Veces
    <2>8. \A c \in Carpinchos \ {x} : estado'[c] = estado[c]
        BY <2>1, <2>2 DEF Marcar, Tipos, TipoPCB
    <2> QED BY <1>0, <2>1, <2>2, <2>4, <2>5, <2>6, <2>7, <2>8, MueveDe
<1>5. ASSUME NEW e \in {"atender", "estimar", "ready"}, Ir(k, e),
             tomado' = tomado \/ Soltar(k),
             UNCHANGED <<cola, estado, colaIO, cerrados, liberados>>,
             pc[k] \in {"espExec", "espIO", "atender", "estimar"},
             e = "atender" => pc[k] = "espExec"
      PROVE  ILugar'
    <2>1. pc'[k] = e /\ tomado'[k] \in {tomado[k], Nadie}
        BY <1>0, <1>2, <1>5 DEF Soltar, Tomar, Tipos, TipoHilos
    <2>2. LaCPU(k)'
        <3> SUFFICES ASSUME tomado'[k] # Nadie PROVE LaCPU(k)'
            BY DEF LaCPU
        <3>1. tomado'[k] = tomado[k]
            BY <2>1
        <3> QED BY <1>1, <1>5, <2>1, <3>1 DEF LaCPU, Veces, Registrando
    <2>3. e \notin Encargados /\ pc[k] \notin Registrando
        BY <1>5 DEF Encargados, Registrando
    <2>4. tomado' = tomado \/ \E m : Tomar(k, m)
        BY <1>5 DEF Soltar
    <2>5. \A c \in Carpinchos :
             tomado'[k] = c => Existe(c) \/ (tomado[k] = c /\ pc[k] \notin Registrando)
        BY <1>0, <2>1, <2>3
    <2> QED BY <1>0, <1>5, <2>2, <2>3, <2>4, <2>5, Quieto
<1>6. CASE EmpezarAtencion(k)
    BY <1>5, <1>6 DEF EmpezarAtencion, EnCon, En
<1>7. CASE AvisarDispositivo(k)
    BY <1>5, <1>7 DEF AvisarDispositivo, En
<1>8. CASE AtenderIODesconocida(k)
    BY <1>5, <1>8 DEF AtenderIODesconocida, Pide, Recibe, EnCon, En
<1>9. CASE Estimar(k)
    BY <1>5, <1>9 DEF Estimar, EnCon, En
<1>11. CASE RegistrarExit(k)
    <2>1. /\ pc[k] \in Registrando /\ "ready" \notin Encargados \cup {"aReady", "liberar"}
          /\ Ir(k, "ready") /\ Soltar(k)
          /\ UNCHANGED <<cola, estado, colaIO, cerrados, liberados>>
        BY <1>11 DEF RegistrarExit, En, Registrando, Encargados
    <2> QED BY <1>0, <2>1, Registra
<1> QED BY <1>3, <1>4, <1>6, <1>7, <1>8, <1>9, <1>11

\* The client of a CPU's PCB closes: EXEC to EXIT.
LEMMA LugarCierre ==
    ASSUME UnaCPU, Tipos, Tipos', ILugar, NEW k \in CPUs, AtenderCierre(k)
    PROVE  ILugar'
<1> USE DEF io, clientes, fin
<1>0. /\ k \in Hilos \ {"liberador"} /\ k \notin Carpinchos /\ Nadie \notin Carpinchos
      /\ "liberador" \in Hilos \ {k}
    BY LosHilos, ConstantesOK DEF ConstantesOK, Planificadores
<1>1. /\ pc[k] = "atender" /\ cerrados' = cerrados \cup {tomado[k]}
      /\ Marcar(tomado[k], "EXIT") /\ cola' = Mover(tomado[k], "exec", "exit")
      /\ Ir(k, "registrarExit") /\ UNCHANGED <<colaIO, tomado, liberados>>
    BY DEF AtenderCierre, Recibe, EnCon, En
<1>2. PICK x \in Carpinchos : x = tomado[k]
    BY <1>0, <1>1 DEF Tipos, TipoHilos, Manos, ConPCB
<1>3. /\ pc'[k] = "registrarExit" /\ tomado'[k] = x
      /\ tomado' = tomado \/ \E m : Tomar(k, m)
      /\ pc'["liberador"] = pc["liberador"] /\ tomado'["liberador"] = tomado["liberador"]
    BY <1>0, <1>1, <1>2 DEF Tipos, TipoHilos, Ir
<1>4. Veces(x, "exec") > 0
    BY <1>0, <1>1, <1>2 DEF ILugar, LasCPUs, LaCPU
<1>5. /\ Puesto(x, "exec") > 0 /\ Existe(x) /\ x \notin cerrados /\ ~EnCargo(x)
      /\ \A u \in Hilos : pc[u] \in Encargados => tomado[u] # x
    BY <1>4, EnServicio
<1>6. /\ "exec" \in Colas /\ "exit" \in Colas /\ "exit" \in Sitios
      /\ "exec" \in Puestos /\ "exit" \in Puestos /\ "registrarExit" \notin Encargados
    BY DEF Puestos, Sitios, Colas, Encargados
<1>7. Muda(x, "exec", "exit")
    BY <1>1, <1>2, <1>3, <1>4, <1>6, MudaDeCPU
<1>8. Llegados' /\ \A c \in Carpinchos : Existe(c)' = Existe(c)
    BY <1>0, <1>1, LlegadosIgual DEF ILugar, Tipos
<1>9. UnLugar(x)'
    BY <1>5, <1>6, <1>7, <1>8, MudaUnLugar DEF ILugar, Ubicados
<1>10. Unico' /\ \A c \in Carpinchos : EnCargo(c)' => EnCargo(c)
    BY <1>0, <1>1, <1>3, <1>6, EncargaIgual DEF ILugar, Tipos
<1>11. Cierres'
    <2>1. Veces(x, "exit")' > 0
        <3>1. Veces(x, "exit") \in Nat
            BY <1>6, VecesApariciones DEF Tipos
        <3> QED BY <1>6, <1>7, <3>1 DEF Muda, Puesto, Uno
    <2>2. ASSUME NEW c \in Carpinchos PROVE c \in cerrados' <=> EnFin(c)'
        <3>1. CASE c = x
            BY <1>1, <1>2, <2>1, <3>1 DEF EnFin
        <3>2. CASE c # x
            <4>1. Veces(c, "exit")' = Veces(c, "exit")
                BY <1>6, <1>7, <3>2, MudaIgual
            <4>2. EnFin(c)' = EnFin(c)
                BY <1>1, <1>3, <4>1 DEF EnFin
            <4> QED BY <1>1, <1>2, <3>2, <4>2 DEF ILugar, Cierres
        <3> QED BY <3>1, <3>2
    <2> QED BY <1>3, <2>2 DEF ILugar, Cierres
<1>12. \A c \in Carpinchos \ {x} : estado'[c] = estado[c] /\ Existe(c)' = Existe(c)
    BY <1>1, <1>2, <1>8 DEF Marcar, Tipos, TipoPCB
<1>13. /\ "registrarExit" = "aSusReady" => estado'[tomado'[k]] = "SUSBLOCKED"
       /\ \A u \in Hilos \ {k} :
              pc[u] = "aSusReady" /\ tomado[u] = x => estado'[x] = "SUSBLOCKED"
       /\ tomado'[k] # Nadie => Existe(tomado[k])'
       /\ \A u \in Hilos \ {k} : tomado[u] = x => x = Nadie \/ Existe(x)'
    <2>1. Existe(tomado[k])'
        BY <1>1, <1>2, <1>5, <1>8 DEF Existe
    <2> QED BY <1>3, <1>5, <1>8, <2>1 DEF Encargados
<1>14. LaCPU(k)'
    BY <1>3 DEF LaCPU, Registrando
<1> QED BY <1>0, <1>1, <1>3, <1>5, <1>7, <1>8, <1>9, <1>10, <1>11, <1>12, <1>13, <1>14, Sigue

\* CALL_IO blocks the PCB, which the CPU keeps in charge: EXEC to BLOCKED.
LEMMA LugarCallIO ==
    ASSUME UnaCPU, Tipos, Tipos', ILugar, NEW k \in CPUs, NEW d, AtenderCallIO(k, d)
    PROVE  ILugar'
<1> USE DEF io, clientes, fin
<1>0. /\ k \in Hilos \ {"liberador"} /\ k \notin Carpinchos /\ Nadie \notin Carpinchos
      /\ k \notin Dispositivos
    BY LosHilos, ConstantesOK DEF ConstantesOK, Planificadores
<1>1. /\ pc[k] = "atender" /\ Marcar(tomado[k], "BLOCKED")
      /\ cola' = Mover(tomado[k], "exec", "blocked")
      /\ Ir(k, "encolarIO") /\ UNCHANGED <<colaIO, tomado, cerrados, liberados>>
    BY DEF AtenderCallIO, Pide, Recibe, EnCon, En
<1>2. PICK x \in Carpinchos : x = tomado[k]
    BY <1>0, <1>1 DEF Tipos, TipoHilos, Manos, ConPCB
<1>3. pc'[k] = "encolarIO" /\ \A u \in Hilos \ {k} : pc'[u] = pc[u]
    BY <1>0, <1>1 DEF Tipos, TipoHilos, Ir
<1>4. Veces(x, "exec") > 0
    BY <1>0, <1>1, <1>2 DEF ILugar, LasCPUs, LaCPU
<1>5. /\ Puesto(x, "exec") > 0 /\ Existe(x) /\ x \notin cerrados /\ ~EnCargo(x)
      /\ \A u \in Hilos : pc[u] \in Encargados => tomado[u] # x
    BY <1>4, EnServicio
<1>6. /\ "exec" \in Colas /\ "blocked" \in Colas /\ "blocked" \in Sitios
      /\ "exec" \in Puestos /\ "blocked" \in Puestos /\ "blocked" # "exec"
      /\ "encolarIO" \in Encargados
    BY DEF Puestos, Sitios, Colas, Encargados
<1>7. Muda(x, "exec", "blocked")
    BY <1>1, <1>2, <1>4, <1>6, MudaDeCPU
<1>8. Llegados' /\ \A c \in Carpinchos : Existe(c)' = Existe(c)
    BY <1>0, <1>1, LlegadosIgual DEF ILugar, Tipos
<1>9. UnLugar(x)'
    BY <1>5, <1>6, <1>7, <1>8, MudaUnLugar DEF ILugar, Ubicados
<1>10. ASSUME NEW u \in Hilos, NEW i \in Nat, NEW c \in Carpinchos, Encarga(u, i, c)'
       PROVE  Encarga(u, i, c) \/ (u = k /\ i = 0 /\ c = x)
    BY <1>0, <1>1, <1>2, <1>3, <1>10 DEF Encarga
<1>11. Unico' /\ \A c \in Carpinchos \ {x} : EnCargo(c)' => EnCargo(c)
    <2>1. \A u \in Hilos, i \in Nat : ~Encarga(u, i, x)
        BY <1>5 DEF EnCargo
    <2> QED BY <1>10, <2>1 DEF ILugar, Unico, EnCargo
<1>12. Cierres'
    BY <1>0, <1>1, <1>7, CierresIgual DEF ILugar
<1>13. Frenado(x)'
    <2>1. Puesto(x, "blocked") = 0
        BY <1>5, <1>6, SoloAhi DEF ILugar, Ubicados
    <2>2. Puesto(x, "blocked")' = 1
        BY <1>6, <1>7, <2>1 DEF Muda, Uno
    <2>3. estado'[x] = "BLOCKED"
        BY <1>1, <1>2 DEF Marcar, Tipos, TipoPCB
    <2> QED BY <1>5, <1>8, <2>2, <2>3 DEF Frenado, Puesto
<1>14. \A c \in Carpinchos \ {x} : estado'[c] = estado[c] /\ Existe(c)' = Existe(c)
    BY <1>1, <1>2, <1>8 DEF Marcar, Tipos, TipoPCB
<1>15. Existe(tomado[k])'
    BY <1>1, <1>2, <1>5, <1>8 DEF Existe
<1>16. /\ "encolarIO" = "aSusReady" => estado'[tomado'[k]] = "SUSBLOCKED"
       /\ \A u \in Hilos \ {k} :
              pc[u] = "aSusReady" /\ tomado[u] = x => estado'[x] = "SUSBLOCKED"
       /\ \A u \in Hilos \ {k} : tomado[u] = x => x = Nadie \/ Existe(x)'
    BY <1>5, <1>8 DEF Encargados
<1>17. LaCPU(k)'
    BY <1>1, <1>2, <1>3, <1>5 DEF LaCPU
<1> QED BY <1>0, <1>1, <1>7, <1>8, <1>9, <1>11, <1>12, <1>13, <1>14, <1>15, <1>16, <1>17, Sigue

\* No PCB moves and the PCBs in charge are the same, perhaps with other threads.
LEMMA CambiaCargo ==
    ASSUME UnaCPU, Tipos, Tipos', ILugar, NEW t \in Hilos \ (Carpinchos \cup {"liberador"}),
           NEW e, e # "aSusReady", Ir(t, e), tomado' = tomado \/ \E m : Tomar(t, m),
           UNCHANGED <<cola, estado, cerrados, liberados>>,
           Unico', \A c \in Carpinchos : EnCargo(c)' => EnCargo(c),
           \A c \in Carpinchos : tomado'[t] = c => Existe(c),
           t \in CPUs => LaCPU(t)',
           t \notin CPUs => Ocupado(t)' /\ {pc[t], e} \cap {"aReady", "liberar"} = {}
    PROVE  ILugar'
<1>1. Muda(Nadie, "nada", "nada")
    BY MudaNada
<1>2. Nadie \notin Carpinchos
    BY ConstantesOK DEF ConstantesOK
<1>3. Llegados' /\ \A c \in Carpinchos : Existe(c)' = Existe(c)
    BY LlegadosIgual DEF ILugar, Tipos
<1>4. Cierres'
    BY <1>1, CierresIgual DEF ILugar
<1>5. /\ \A u \in Hilos \ {t} :
             pc[u] = "aSusReady" /\ tomado[u] = Nadie => estado'[Nadie] = "SUSBLOCKED"
      /\ e = "aSusReady" => estado'[tomado'[t]] = "SUSBLOCKED"
    BY DEF ILugar, Suspendidos
<1>6. tomado'[t] # Nadie => Existe(tomado[t])'
    <2> SUFFICES ASSUME tomado'[t] # Nadie PROVE Existe(tomado[t])'
        OBVIOUS
    <2>1. PICK c \in Carpinchos : c = tomado'[t]
        BY DEF Tipos, TipoHilos
    <2>2. Existe(c)'
        BY <1>3, <2>1
    <2> QED BY <2>1, <2>2 DEF Existe
<1>7. /\ Nadie \in Carpinchos => UnLugar(Nadie)'
      /\ Nadie \in Carpinchos /\ EnCargo(Nadie)' => Frenado(Nadie)'
      /\ \A u \in Hilos \ {t} : tomado[u] = Nadie => Nadie = Nadie \/ Existe(Nadie)'
      /\ \A c \in Carpinchos \ {Nadie} : EnCargo(c)' => EnCargo(c)
      /\ \A c \in Carpinchos \ {Nadie} : estado'[c] = estado[c] /\ Existe(c)' = Existe(c)
      /\ t \notin CPUs
           => Ocupado(t)' /\ cerrados' = cerrados /\ "nada" \notin {"ready", "exec"}
    BY <1>2, <1>3
<1> QED BY <1>1, <1>3, <1>4, <1>5, <1>6, <1>7, Sigue

\* The CPU hands its PCB over to the queue of the device.
LEMMA LugarEncolarIO ==
    ASSUME UnaCPU, Tipos, Tipos', ILugar, NEW k \in CPUs, EncolarEnDispositivo(k)
    PROVE  ILugar'
<1> USE DEF io, clientes, fin
<1>0. /\ k \in Hilos \ (Carpinchos \cup {"liberador"}) /\ Nadie \notin Carpinchos
      /\ k \notin Dispositivos
    BY LosHilos, ConstantesOK DEF ConstantesOK, Planificadores
<1>1. /\ pc[k] = "encolarIO" /\ Ir(k, "espIO")
      /\ colaIO' = [colaIO EXCEPT ![recurso[k]] = Append(@, tomado[k])]
      /\ UNCHANGED <<cola, estado, tomado, cerrados, liberados>>
    BY DEF EncolarEnDispositivo, EnCon, En
<1>2. PICK x \in Carpinchos : x = tomado[k]
    BY <1>0, <1>1 DEF Tipos, TipoHilos, Manos, ConPCB
<1>3. pc'[k] = "espIO" /\ \A u \in Hilos \ {k} : pc'[u] = pc[u]
    BY <1>0, <1>1 DEF Tipos, TipoHilos, Ir
<1>4. /\ x \notin cerrados /\ LaCPU(k)'
      /\ \A c \in Carpinchos : tomado'[k] = c => Existe(c)
    BY <1>0, <1>1, <1>2, <1>3 DEF ILugar, LasCPUs, LaCPU, Vivos, Registrando
<1>5. "encolarIO" \in Encargados /\ "espIO" \notin Encargados
    BY DEF Encargados
<1>6. Unico' /\ \A c \in Carpinchos : EnCargo(c)' => EnCargo(c)
    <2> DEFINE d == recurso[k]
               n == Len(colaIO[d]) + 1
    <2>1. CASE d \notin Dispositivos
        <3>1. colaIO' = colaIO
            BY <1>1, <2>1 DEF Tipos, TipoIO
        <3> QED BY <1>0, <1>1, <1>5, <3>1, EncargaIgual DEF ILugar, Tipos
    <2>2. CASE d \in Dispositivos
        <3>1. /\ colaIO'[d] = Append(colaIO[d], x)
              /\ \A u \in Dispositivos \ {d} : colaIO'[u] = colaIO[u]
              /\ colaIO[d] \in Seq(Carpinchos) /\ Len(colaIO[d]) \in Nat
            BY <1>1, <1>2, <2>2, LenProperties DEF Tipos, TipoIO
        <3>2. /\ Len(colaIO'[d]) = n
              /\ \A i \in 1..Len(colaIO[d]) : colaIO'[d][i] = colaIO[d][i]
              /\ colaIO'[d][n] = x
            BY <3>1, AppendProperties
        <3>3. Encarga(k, 0, x)
            BY <1>1, <1>2, <1>5 DEF Encarga
        <3>4. ASSUME NEW u \in Hilos, NEW i \in Nat, NEW c \in Carpinchos, Encarga(u, i, c)'
              PROVE  \/ u = d /\ i = n /\ c = x
                     \/ u # k /\ Encarga(u, i, c)
            <4>1. CASE i = 0 /\ pc'[u] \in Encargados /\ tomado'[u] = c
                BY <1>1, <1>3, <1>5, <4>1 DEF Encarga
            <4>2. CASE u \in Dispositivos /\ i \in 1..Len(colaIO'[u]) /\ colaIO'[u][i] = c
                <5>1. CASE u = d
                    <6>1. i = n \/ i \in 1..Len(colaIO[d])
                        BY <3>1, <3>2, <4>2, <5>1
                    <6> QED BY <1>0, <2>2, <3>2, <4>2, <5>1, <6>1 DEF Encarga
                <5>2. CASE u # d
                    BY <1>0, <3>1, <4>2, <5>2 DEF Encarga
                <5> QED BY <5>1, <5>2
            <4> QED BY <3>4, <4>1, <4>2 DEF Encarga
        <3>5. k \in Hilos /\ 0 \in Nat
            BY <1>0
        <3> HIDE DEF d, n
        <3>6. \A c \in Carpinchos : EnCargo(c)' => EnCargo(c)
            BY <3>3, <3>4, <3>5 DEF EnCargo
        <3>7. Unico'
            <4> SUFFICES ASSUME NEW c \in Carpinchos, NEW u \in Hilos, NEW v \in Hilos,
                                NEW i \in Nat, NEW j \in Nat, Encarga(u, i, c)', Encarga(v, j, c)'
                         PROVE  u = v /\ i = j
                BY DEF Unico
            <4>1. /\ \/ u = d /\ i = n /\ c = x
                     \/ u # k /\ Encarga(u, i, c)
                  /\ \/ v = d /\ j = n /\ c = x
                     \/ v # k /\ Encarga(v, j, c)
                BY <3>4
            <4> QED BY <3>3, <3>5, <4>1 DEF ILugar, Unico
        <3> QED BY <3>6, <3>7
    <2> QED BY <2>1, <2>2
<1> QED BY <1>0, <1>1, <1>4, <1>6, CambiaCargo

\* A device takes the first PCB of its queue in hand.
LEMMA LugarTomarIO ==
    ASSUME UnaCPU, Tipos, Tipos', ILugar, NEW d \in Dispositivos, TomarIO(d)
    PROVE  ILugar'
<1> USE DEF io, clientes, fin
<1>0. /\ d \in Hilos \ (Carpinchos \cup {"liberador"}) /\ d \notin CPUs
      /\ Nadie \notin Carpinchos
    BY LosHilos, ConstantesOK DEF ConstantesOK, Planificadores
<1>1. CASE colaIO[d] = <<>>
    BY <1>1, LugarCaer DEF TomarIO
<1>2. CASE colaIO[d] # <<>>
    <2> DEFINE s == colaIO[d]
    <2>1. /\ pc[d] = "io" /\ Tomar(d, Head(s)) /\ Ir(d, "verSusBlocked")
          /\ colaIO' = [colaIO EXCEPT ![d] = Tail(@)]
          /\ UNCHANGED <<cola, estado, cerrados, liberados>>
        BY <1>2 DEF TomarIO, En
    <2>2. /\ s \in Seq(Carpinchos) /\ Len(s) \in Nat \ {0}
          /\ Head(s) = s[1] /\ s[1] \in Carpinchos
          /\ Len(Tail(s)) = Len(s) - 1
          /\ \A i \in 1..Len(Tail(s)) : Tail(s)[i] = s[i + 1]
        <3>1. s \in Seq(Carpinchos)
            BY DEF Tipos, TipoIO
        <3>2. Len(s) \in Nat \ {0}
            BY <1>2, <3>1, EmptySeq
        <3>3. Head(s) = s[1] /\ s[1] \in Carpinchos
            <4>1. 1 \in 1..Len(s)
                BY <3>2
            <4> QED BY <3>1, <4>1, ElementOfSeq
        <3> QED BY <1>2, <3>1, <3>2, <3>3, HeadTailProperties
    <2>3. /\ pc'[d] = "verSusBlocked" /\ \A u \in Hilos \ {d} : pc'[u] = pc[u]
          /\ tomado'[d] = s[1] /\ \A u \in Hilos \ {d} : tomado'[u] = tomado[u]
          /\ colaIO'[d] = Tail(s) /\ \A u \in Dispositivos \ {d} : colaIO'[u] = colaIO[u]
        BY <1>0, <2>1, <2>2 DEF Tipos, TipoHilos, TipoIO, Ir, Tomar
    <2>4. ASSUME NEW u \in Hilos, NEW i \in Nat, NEW c \in Carpinchos, Encarga(u, i, c)'
          PROVE  /\ u = d => Encarga(u, i + 1, c)
                 /\ u # d => Encarga(u, i, c)
        <3>1. CASE i = 0 /\ pc'[u] \in Encargados /\ tomado'[u] = c
            <4>1. CASE u = d
                <5>1. i + 1 = 1 /\ 1 \in 1..Len(s) /\ s[1] = c
                    BY <2>2, <2>3, <3>1, <4>1
                <5> QED BY <4>1, <5>1 DEF Encarga
            <4>2. CASE u # d
                BY <2>3, <3>1, <4>2 DEF Encarga
            <4> QED BY <4>1, <4>2
        <3>2. CASE u \in Dispositivos /\ i \in 1..Len(colaIO'[u]) /\ colaIO'[u][i] = c
            <4>1. CASE u = d
                <5>1. i \in 1..Len(Tail(s)) /\ Tail(s)[i] = c
                    BY <2>3, <3>2, <4>1
                <5>2. i + 1 \in 1..Len(s) /\ s[i + 1] = c
                    BY <2>2, <5>1
                <5> QED BY <4>1, <5>2 DEF Encarga
            <4>2. CASE u # d
                BY <2>3, <3>2, <4>2 DEF Encarga
            <4> QED BY <4>1, <4>2
        <3> QED BY <2>4, <3>1, <3>2 DEF Encarga
    <2>5. \A i \in Nat : i + 1 \in Nat
        OBVIOUS
    <2>6. \A c \in Carpinchos : EnCargo(c)' => EnCargo(c)
        BY <2>4, <2>5 DEF EnCargo
    <2>7. Unico'
        <3> SUFFICES ASSUME NEW c \in Carpinchos, NEW u \in Hilos, NEW v \in Hilos,
                            NEW i \in Nat, NEW j \in Nat, Encarga(u, i, c)', Encarga(v, j, c)'
                     PROVE  u = v /\ i = j
            BY DEF Unico
        <3>1. /\ u = d => Encarga(u, i + 1, c)
              /\ u # d => Encarga(u, i, c)
              /\ v = d => Encarga(v, j + 1, c)
              /\ v # d => Encarga(v, j, c)
            BY <2>4
        <3>2. \A y, z \in Nat : Encarga(u, y, c) /\ Encarga(v, z, c) => u = v /\ y = z
            BY DEF ILugar, Unico
        <3>3. u = v
            BY <2>5, <3>1, <3>2
        <3>4. CASE u = d
            <4>1. i + 1 = j + 1
                BY <2>5, <3>1, <3>2, <3>3, <3>4
            <4> QED BY <3>3, <4>1
        <3>5. CASE u # d
            BY <3>1, <3>2, <3>3, <3>5
        <3> QED BY <3>4, <3>5
    <2>8. Existe(s[1])
        <3>1. Encarga(d, 1, s[1])
            BY <2>2 DEF Encarga
        <3>2. EnCargo(s[1])
            BY <1>0, <3>1 DEF EnCargo
        <3> QED BY <2>2, <3>2 DEF ILugar, Frenos, Frenado
    <2>9. \A c \in Carpinchos : tomado'[d] = c => Existe(c)
        BY <2>3, <2>8
    <2>10. /\ "verSusBlocked" \in Encargados
           /\ {pc[d], "verSusBlocked"} \cap {"aReady", "liberar"} = {}
           /\ "verSusBlocked" # "aSusReady"
        BY <2>1 DEF Encargados
    <2>11. Ocupado(d)'
        BY <2>3, <2>10 DEF Ocupado
    <2> QED BY <1>0, <2>1, <2>6, <2>7, <2>9, <2>10, <2>11, CambiaCargo
<1> QED BY <1>1, <1>2

\* The PCB in charge of a device before the step that moves it.
LEMMA EnCargoDe ==
    ASSUME Tipos, ILugar, NEW d \in Dispositivos, pc[d] \in Encargados
    PROVE  \E x \in Carpinchos :
               /\ x = tomado[d] /\ Frenado(x)
               /\ \A u \in Hilos, i \in Nat : Encarga(u, i, x) => u = d /\ i = 0
<1>1. PICK x \in Carpinchos : x = tomado[d]
    BY LosHilos DEF Tipos, TipoHilos, Manos, ConPCB, Encargados
<1>2. Encarga(d, 0, x) /\ d \in Hilos /\ 0 \in Nat
    BY <1>1, LosHilos DEF Encarga
<1>3. Frenado(x)
    BY <1>2 DEF ILugar, Frenos, EnCargo
<1>4. \A u \in Hilos, i \in Nat : Encarga(u, i, x) => u = d /\ i = 0
    BY <1>2 DEF ILugar, Unico
<1> QED BY <1>1, <1>3, <1>4

\* A device lets the PCB it has in charge go.
LEMMA Descarga ==
    ASSUME Tipos, ILugar, NEW d \in Dispositivos, NEW e, e \notin Encargados, Ir(d, e),
           tomado' = tomado \/ \E m : Tomar(d, m), UNCHANGED colaIO, NEW x \in Carpinchos,
           \A u \in Hilos, i \in Nat : Encarga(u, i, x) => u = d /\ i = 0
    PROVE  ~EnCargo(x)'
<1>1. pc'[d] = e /\ \A u \in Hilos \ {d} : pc'[u] = pc[u] /\ tomado'[u] = tomado[u]
    BY LosHilos DEF Tipos, TipoHilos, Ir, Tomar
<1>2. ASSUME NEW u \in Hilos, NEW i \in Nat, Encarga(u, i, x)' PROVE FALSE
    <2>1. Encarga(u, i, x)
        BY <1>1, <1>2 DEF Encarga
    <2>2. u = d /\ i = 0
        BY <2>1
    <2> QED BY <1>1, <1>2, <2>2 DEF Encarga
<1> QED BY <1>2 DEF EnCargo

\* A device takes its PCB from SUSP/BLOCKED to SUSP/READY ...
LEMMA MudaASusReady ==
    ASSUME Tipos, NEW d \in Dispositivos, PasarASusReady(d),
           NEW x \in Carpinchos, x = tomado[d], Veces(x, "susblocked") > 0
    PROVE  Muda(x, "susblocked", "susready")
<1>0. d \in Hilos /\ d \notin CPUs
    BY LosHilos, ConstantesOK DEF ConstantesOK
<1>1. /\ pc[d] = "aSusReady" /\ cola' = Mover(tomado[d], "susblocked", "susready")
      /\ UNCHANGED tomado /\ Ir(d, "registrarIO")
    BY DEF PasarASusReady, EnCon, En
<1>2. pc'[d] = "registrarIO" /\ (tomado' = tomado \/ \E m : Tomar(d, m))
    BY <1>0, <1>1 DEF Ir, Tipos, TipoHilos
<1>3. ASSUME NEW c \in Carpinchos
      PROVE  EnMano(c)' = EnMano(c) + Uno(c = x /\ "mano" = "susready")
                                    - Uno(c = x /\ "mano" = "susblocked")
    <2>1. ~EnLaMano(d, c) /\ ~EnLaMano(d, c)'
        BY <1>1, <1>2 DEF EnLaMano
    <2> QED BY <1>0, <1>1, <1>2, <2>1, ManoTras DEF Tipos, Uno
<1>4. "susblocked" \in Colas /\ "susready" \in Colas /\ "susblocked" # "susready"
    BY DEF Colas
<1>5. Contains(cola["susblocked"], x)
    BY <1>4, VecesApariciones DEF Tipos
<1>6. \A c \in Carpinchos, q \in Colas :
         Veces(c, q)' = Veces(c, q) + Uno(c = x /\ q = "susready")
                                    - Uno(c = x /\ q = "susblocked")
    BY <1>1, <1>4, <1>5, VecesMover DEF Tipos
<1> QED BY <1>3, <1>6, MudaCola

\* ... or out of BLOCKED, where it need not be any more.
DeBlocked(x) == IF Contains(cola["blocked"], x) THEN "blocked" ELSE "nada"

LEMMA MudaSacar ==
    ASSUME Tipos, NEW d \in Dispositivos, SacarDeBlocked(d),
           NEW x \in Carpinchos, x = tomado[d]
    PROVE  Muda(x, DeBlocked(x), "mano")
<1>0. d \in Hilos /\ d \notin CPUs
    BY LosHilos, ConstantesOK DEF ConstantesOK
<1>1. /\ pc[d] = "sacarBlocked" /\ Ir(d, "aReady") /\ UNCHANGED tomado
      /\ cola' = [cola EXCEPT !["blocked"] = RemoveFirst(@, x)]
    BY DEF SacarDeBlocked, EnCon, En
<1> DEFINE a == DeBlocked(x)
<1>2. pc'[d] = "aReady" /\ a \in {"blocked", "nada"}
      /\ (a = "blocked" <=> Contains(cola["blocked"], x))
    BY <1>0, <1>1 DEF Ir, Tipos, TipoHilos, DeBlocked
<1> HIDE DEF a
<1>3. ASSUME NEW c \in Carpinchos
      PROVE  EnMano(c)' = EnMano(c) + Uno(c = x /\ "mano" = "mano") - Uno(c = x /\ "mano" = a)
    <2>1. ~EnLaMano(d, c) /\ (EnLaMano(d, c)' <=> c = x) /\ "mano" # a
        BY <1>1, <1>2 DEF EnLaMano
    <2>2. /\ EnMano(c) \in Nat
          /\ EnMano(c)' = EnMano(c) + Uno(EnLaMano(d, c)') - Uno(EnLaMano(d, c))
        BY <1>0, <1>1, ManoTras DEF Tipos
    <2> QED BY <2>1, <2>2 DEF Uno
<1>4. ASSUME NEW c \in Carpinchos, NEW q \in Colas
      PROVE  Veces(c, q)' = Veces(c, q) + Uno(c = x /\ q = "mano") - Uno(c = x /\ q = a)
    <2>0. "blocked" \in Colas
        BY DEF Colas
    <2>1. Veces(c, q)'
            = Veces(c, q) - Uno(c = x /\ q = "blocked" /\ Contains(cola["blocked"], x))
        <3>1. cola' = [cola EXCEPT !["blocked"] = RemoveFirst(@, x)] /\ cola \in TipoCola
            BY <1>1 DEF Tipos
        <3>2. "blocked" \in Colas /\ x \in Carpinchos /\ c \in Carpinchos /\ q \in Colas
            BY <2>0
        <3> QED BY ONLY <3>1, <3>2, VecesQuitar
    <2>2. q # "mano" /\ q # "nada" /\ Veces(c, q) \in Nat
        BY VecesApariciones DEF Tipos, Colas
    <2> QED BY <1>2, <2>1, <2>2 DEF Uno
<1>5. Muda(x, a, "mano")
    BY <1>3, <1>4, MudaCola
<1> QED BY <1>5 DEF a

LEMMA FrenadoEn ==
    ASSUME Tipos, ILugar, NEW x \in Carpinchos, Frenado(x)
    PROVE  Existe(x) /\ Lugares(x) = Uno(DeBlocked(x) \in Puestos)
<1>0. "blocked" \in Colas /\ "blocked" \in Puestos /\ "nada" \notin Puestos
    BY DEF Puestos, Sitios, Colas
<1>1. Existe(x)
    BY DEF Frenado
<1>2. CASE Contains(cola["blocked"], x)
    <2>1. Puesto(x, "blocked") > 0
        BY <1>0, <1>2, VecesApariciones DEF Tipos, Puesto
    <2>2. Lugares(x) = 1
        BY <1>0, <2>1, SoloAhi DEF ILugar, Ubicados
    <2> QED BY <1>0, <1>1, <1>2, <2>2 DEF Uno, DeBlocked
<1>3. CASE ~Contains(cola["blocked"], x)
    <2>1. ~(Veces(x, "blocked") > 0) /\ Veces(x, "blocked") \in Nat
        BY <1>0, <1>3, VecesApariciones DEF Tipos
    <2>2. Lugares(x) = 0
        BY <2>1 DEF Frenado
    <2> QED BY <1>0, <1>1, <1>3, <2>2 DEF Uno, DeBlocked
<1> QED BY <1>2, <1>3

\* A device.
LEMMA LugarDispositivo ==
    ASSUME UnaCPU, Tipos, Tipos', ILugar, NEW d \in Dispositivos, Dispositivo(d)
    PROVE  ILugar'
<1> USE DEF io, clientes, fin
<1>0. /\ d \in Hilos \ (Carpinchos \cup {"liberador"}) /\ d \notin CPUs
      /\ Nadie \notin Carpinchos
    BY LosHilos, ConstantesOK DEF ConstantesOK, Planificadores
<1>1. ASSUME NEW e, Ir(d, e) PROVE pc'[d] = e
    BY <1>0, <1>1 DEF Ir, Tipos, TipoHilos
<1>2. CASE VerSusBlocked(d)
    <2>1. /\ pc[d] = "verSusBlocked" /\ UNCHANGED <<cola, estado, colaIO, tomado, cerrados, liberados>>
          /\ Ir(d, IF estado[tomado[d]] = "SUSBLOCKED" THEN "aSusReady" ELSE "verSiBlocked")
        BY <1>2 DEF VerSusBlocked, EnCon, En
    <2>2. PICK e \in {"aSusReady", "verSiBlocked"} :
              Ir(d, e) /\ (e = "aSusReady" => estado[tomado[d]] = "SUSBLOCKED")
        BY <2>1
    <2>3. /\ {pc[d], e} \cap {"aReady", "liberar"} = {}
          /\ pc[d] \in Encargados \ Registrando /\ e \in Encargados
        BY <2>1 DEF Encargados, Registrando
    <2> QED BY <1>0, <2>1, <2>2, <2>3, Quieto
<1>3. CASE VerSiBlocked(d)
    <2>1. /\ pc[d] = "verSiBlocked" /\ UNCHANGED <<cola, estado, colaIO, cerrados, liberados>>
          /\ \/ Ir(d, "sacarBlocked") /\ UNCHANGED tomado
             \/ Ir(d, "io") /\ Soltar(d)
        BY <1>3 DEF VerSiBlocked, EnCon, En
    <2>2. /\ pc[d] \in Encargados \ Registrando
          /\ "sacarBlocked" \in Encargados /\ "io" \notin Encargados
          /\ {pc[d], "sacarBlocked"} \cap {"aReady", "liberar"} = {}
          /\ {pc[d], "io"} \cap {"aReady", "liberar"} = {}
        BY <2>1 DEF Encargados, Registrando
    <2>3. CASE Ir(d, "sacarBlocked") /\ UNCHANGED tomado
        BY <1>0, <2>1, <2>2, <2>3, Quieto
    <2>4. CASE Ir(d, "io") /\ Soltar(d)
        <3>1. tomado'[d] = Nadie /\ (tomado' = tomado \/ \E m : Tomar(d, m))
            BY <1>0, <2>4 DEF Soltar, Tomar, Tipos, TipoHilos
        <3> QED BY <1>0, <2>1, <2>2, <2>4, <3>1, Quieto
    <2> QED BY <2>1, <2>3, <2>4
<1>4. CASE PasarASusReady(d)
    <2>1. /\ pc[d] = "aSusReady" /\ Marcar(tomado[d], "SUSREADY")
          /\ cola' = Mover(tomado[d], "susblocked", "susready") /\ Ir(d, "registrarIO")
          /\ UNCHANGED <<colaIO, tomado, cerrados, liberados>>
        BY <1>4 DEF PasarASusReady, EnCon, En
    <2>2. PICK x \in Carpinchos : /\ x = tomado[d] /\ Frenado(x)
              /\ \A u \in Hilos, i \in Nat : Encarga(u, i, x) => u = d /\ i = 0
        BY <2>1, EnCargoDe DEF Encargados
    <2>3. Existe(x) /\ Lugares(x) = 0 /\ Veces(x, "susblocked") > 0
        BY <1>0, <2>1, <2>2 DEF ILugar, Suspendidos, Frenado
    <2>4. /\ tomado'[d] = x /\ pc'[d] = "registrarIO"
          /\ tomado' = tomado \/ \E m : Tomar(d, m)
        BY <1>0, <2>1, <2>2 DEF Ir, Tipos, TipoHilos
    <2>5. /\ "susblocked" \in Colas /\ "susready" \in Colas /\ "susblocked" # "susready"
          /\ "susblocked" \notin Puestos /\ "susready" \in Puestos
          /\ "registrarIO" \notin Encargados /\ "registrarIO" \in Registrando
        BY DEF Puestos, Sitios, Colas, Encargados, Registrando
    <2>6. Muda(x, "susblocked", "susready")
        BY <1>4, <2>2, <2>3, MudaASusReady
    <2>7. Existe(x)'
        BY <1>0, <2>1, <2>3, LlegadosIgual DEF ILugar, Tipos
    <2>8. Lugares(x)' = 1
        BY <2>3, <2>5, <2>6, MudaLugares DEF Uno
    <2>9. UnLugar(x)'
        BY <2>7, <2>8 DEF UnLugar
    <2>10. ~EnCargo(x)'
        BY <2>1, <2>2, <2>4, <2>5, Descarga
    <2>11. \A c \in Carpinchos \ {x} : estado'[c] = estado[c]
        BY <2>1, <2>2 DEF Marcar, Tipos, TipoPCB
    <2>12. \A u \in Hilos \ {d} : ~(pc[u] = "aSusReady" /\ tomado[u] = x)
        BY <2>2 DEF Encarga, Encargados
    <2>13. /\ x = Nadie \/ (x \in Carpinchos /\ UnLugar(x)' /\ Existe(x))
           /\ \A c \in Carpinchos : tomado'[d] = c => Existe(c)
           /\ "registrarIO" = "aSusReady" => estado'[tomado'[d]] = "SUSBLOCKED"
           /\ \A u \in Hilos \ {d} :
                  pc[u] = "aSusReady" /\ tomado[u] = x => estado'[x] = "SUSBLOCKED"
           /\ d \in Hilos \ {"liberador"}
           /\ d \in Carpinchos => Avanza(d, "registrarIO")
           /\ "susblocked" # "exit" /\ "susready" # "exit" /\ "susblocked" \notin {"ready", "exec"}
        BY <1>0, <2>3, <2>4, <2>9, <2>12
    <2>14. Ocupado(d)'
        BY <2>4, <2>5 DEF Ocupado
    <2> QED BY <1>0, <2>1, <2>4, <2>5, <2>6, <2>10, <2>11, <2>13, <2>14, Mueve
<1>5. CASE SacarDeBlocked(d)
    <2>1. /\ pc[d] = "sacarBlocked" /\ Ir(d, "aReady")
          /\ cola' = [cola EXCEPT !["blocked"] = RemoveFirst(@, tomado[d])]
          /\ UNCHANGED <<estado, colaIO, tomado, cerrados, liberados>>
        BY <1>5 DEF SacarDeBlocked, EnCon, En
    <2>2. PICK x \in Carpinchos : /\ x = tomado[d] /\ Frenado(x)
              /\ \A u \in Hilos, i \in Nat : Encarga(u, i, x) => u = d /\ i = 0
        BY <2>1, EnCargoDe DEF Encargados
    <2>3. pc'[d] = "aReady"
        BY <1>1, <2>1
    <2>4. /\ "blocked" \in Colas /\ "blocked" \in Puestos /\ "mano" \in Puestos
          /\ "blocked" \in Sitios /\ "nada" \notin Puestos /\ "aReady" \notin Encargados
        BY DEF Puestos, Sitios, Colas, Encargados
    <2> DEFINE a == DeBlocked(x)
    <2>5. Muda(x, a, "mano")
        BY <1>5, <2>2, MudaSacar
    <2>6. Existe(x) /\ Lugares(x) = Uno(a \in Puestos)
        BY <2>2, FrenadoEn
    <2>7. Lugares(x)' = 1
        BY <2>4, <2>5, <2>6, MudaLugares DEF Uno
    <2>8. Existe(x)'
        BY <1>0, <2>1, <2>6, LlegadosIgual DEF ILugar, Tipos
    <2>9. UnLugar(x)'
        BY <2>7, <2>8 DEF UnLugar
    <2>10. ~EnCargo(x)'
        BY <2>1, <2>2, <2>4, Descarga
    <2>11. \A u \in Hilos \ {d} : ~(pc[u] = "aSusReady" /\ tomado[u] = x)
        BY <2>2 DEF Encarga, Encargados
    <2>14. a \in {"blocked", "nada"}
        BY DEF DeBlocked
    <2> HIDE DEF a
    <2>12. /\ x = Nadie \/ (x \in Carpinchos /\ UnLugar(x)' /\ Existe(x))
           /\ \A c \in Carpinchos : tomado'[d] = c => Existe(c)
           /\ "aReady" = "aSusReady" => estado'[tomado'[d]] = "SUSBLOCKED"
           /\ \A u \in Hilos \ {d} :
                  pc[u] = "aSusReady" /\ tomado[u] = x => estado'[x] = "SUSBLOCKED"
           /\ d \in Hilos \ {"liberador"}
           /\ d \in Carpinchos => Avanza(d, "aReady")
           /\ a # "exit" /\ "mano" # "exit" /\ a \notin {"ready", "exec"}
           /\ \A c \in Carpinchos \ {x} : estado'[c] = estado[c]
        BY <1>0, <2>1, <2>2, <2>6, <2>9, <2>11, <2>14
    <2>13. Ocupado(d)'
        BY <2>3 DEF Ocupado
    <2> QED BY <1>0, <2>1, <2>4, <2>5, <2>10, <2>12, <2>13, Mueve
<1>6. CASE DesbloquearAReady(d)
    BY <1>0, <1>6, LugarPasarAReady DEF DesbloquearAReady, Registrando
<1>7. CASE RegistrarIO(d)
    <2>1. /\ pc[d] \in Registrando /\ "io" \notin Encargados \cup {"aReady", "liberar"}
          /\ Ir(d, "io") /\ Soltar(d)
          /\ UNCHANGED <<cola, estado, colaIO, cerrados, liberados>>
        BY <1>7 DEF RegistrarIO, En, Registrando, Encargados
    <2> QED BY <1>0, <2>1, Registra
<1> QED BY <1>2, <1>3, <1>4, <1>5, <1>6, <1>7, LugarTomarIO DEF Dispositivo

\* When the kernel starts there are no PCBs.
LEMMA LugarInit == Init => ILugar
<1> SUFFICES ASSUME Init PROVE ILugar
    OBVIOUS
<1>1. /\ \A t \in Hilos : tomado[t] = Nadie
      /\ \A c \in Carpinchos : pc[c] = "alta"
      /\ \A t \in Hilos : pc[t] \notin {"aReady", "liberar", "aSusReady"} \cup Encargados
      /\ pc["liberador"] = "exit" /\ cerrados = {} /\ liberados = {}
      /\ \A q \in Colas : cola[q] = <<>>
      /\ \A d \in Dispositivos : colaIO[d] = <<>>
    <2>1. /\ \A c \in Carpinchos : pc[c] = "alta"
          /\ pc["liberador"] = "exit"
        BY LosHilos, ConstantesOK DEF Init, ConstantesOK, Planificadores
    <2>2. \A t \in Hilos : pc[t] \notin {"aReady", "liberar", "aSusReady"} \cup Encargados
        BY DEF Init, Hilos, Planificadores, Encargados
    <2> QED BY <2>1, <2>2 DEF Init
<1>2. \A c \in Carpinchos, q \in Colas : Veces(c, q) = 0
    <2> SUFFICES ASSUME NEW c \in Carpinchos, NEW q \in Colas PROVE Veces(c, q) = 0
        OBVIOUS
    <2>1. {i \in DOMAIN cola[q] : cola[q][i] = c} = {}
        BY <1>1
    <2> QED BY <2>1, FS_EmptySet DEF Veces
<1>3. \A c \in Carpinchos : EnMano(c) = 0
    <2> SUFFICES ASSUME NEW c \in Carpinchos PROVE EnMano(c) = 0
        OBVIOUS
    <2>1. {t \in Hilos \ CPUs : tomado[t] = c /\ pc[t] \in {"aReady", "liberar"}} = {}
        BY <1>1
    <2> QED BY <2>1, FS_EmptySet DEF EnMano
<1>4. Ubicados /\ Llegados
    BY <1>1, <1>2, <1>3 DEF Ubicados, Llegados, UnLugar, Existe, Lugares, Colas
<1>5. Cierres
    <2>1. \A c \in Carpinchos : ~EnFin(c)
        BY <1>1, <1>2, LosHilos, ConstantesOK
           DEF EnFin, Colas, Planificadores, ConstantesOK
    <2> QED BY <1>1, <2>1 DEF Cierres
<1>6. Unico /\ Frenos
    <2>1. \A c \in Carpinchos, t \in Hilos, i \in Nat : ~Encarga(t, i, c)
        BY <1>1 DEF Encarga
    <2> QED BY <2>1 DEF Unico, Frenos, EnCargo
<1>7. Suspendidos /\ Vivos /\ Ocupados /\ LasCPUs
    BY <1>1, LosHilos DEF Suspendidos, Vivos, Ocupados, Ocupado, LasCPUs, LaCPU
<1> QED BY <1>4, <1>5, <1>6, <1>7 DEF ILugar

LEMMA LugarNext == UnaCPU /\ Tipos /\ ILugar /\ [Next]_vars => ILugar'
<1> SUFFICES ASSUME UnaCPU, Tipos, ILugar, [Next]_vars PROVE ILugar'
    OBVIOUS
<1>0. Tipos'
    BY TiposNext
<1>1. CASE Next
    <2>1. ASSUME NEW t \in Hilos, UsarLiberado(t) PROVE ILugar'
        BY <2>1, LugarCaer DEF UsarLiberado
    <2>2. ASSUME NEW k \in CPUs, CPU(k) PROVE ILugar'
        BY <1>0, <2>2, LugarCPU1, LugarCierre, LugarCallIO, LugarEncolarIO DEF CPU
    <2> QED BY <1>0, <1>1, <2>1, <2>2, LugarAlta, LugarLargo, LugarLiberador, LugarMediano,
               LugarSusReady, LugarDispositivo DEF Next
<1>2. CASE UNCHANGED vars
    BY <1>2, LugarIgual DEF vars, io, clientes, fin
<1> QED BY <1>1, <1>2

\* What it says of the PCBs, and that no step can use one that has been freed.
LEMMA LugarUno == ILugar => UnSoloLugar
BY DEF ILugar, Ubicados, UnLugar, UnSoloLugar

LEMMA SinUsoNext ==
    Tipos /\ ILugar /\ SinUsoDeLiberado /\ [Next]_vars => SinUsoDeLiberado'
<1> SUFFICES ASSUME Tipos, ILugar, SinUsoDeLiberado, [Next]_vars PROVE SinUsoDeLiberado'
    OBVIOUS
<1> USE DEF fin
<1>0. Nadie \notin Carpinchos
    BY ConstantesOK DEF ConstantesOK
<1>1. ASSUME UNCHANGED fallo \/ \E q \in {"largo", "liberador", "mediano", "susready",
                                        "corto", "io", "registro"} : Caer(q)
      PROVE  SinUsoDeLiberado'
    BY <1>1 DEF SinUsoDeLiberado, Caer
<1>2. ASSUME NEW c \in Carpinchos, Alta(c) PROVE SinUsoDeLiberado'
    BY <1>1, <1>2 DEF Alta, AltaEnNew, RegistrarAlta, ConcluirAlta
<1>3. CASE Largo \/ Liberador \/ SusReady
    BY <1>1, <1>3 DEF Largo, TomarCandidato, TomarGrado, DelegarEnSusReady, ElegirNew,
       SacarDeNew, NewAReady, PasarAReady, RegistrarAdmision, RegistrarReady,
       Liberador, TomarExit, Liberar, SusReady, TomarSusReady, SusReadyAReady,
       RegistrarTransicion
<1>4. CASE Suspender
    <2>1. CASE cola["blocked"] = <<>> \/ Last(cola["blocked"]) \notin liberados
        BY <1>1, <1>4, <2>1 DEF Suspender
    <2>2. CASE cola["blocked"] # <<>> /\ Last(cola["blocked"]) \in liberados
        <3>1. cola["blocked"] \in Seq(Carpinchos) /\ "blocked" \in Colas
            BY DEF Tipos, TipoCola, Colas
        <3>2. PICK x \in Carpinchos : x = Last(cola["blocked"])
            BY <2>2, <3>1, QuitarUltimo
        <3>3. Contains(cola["blocked"], x)
            <4>1. Len(cola["blocked"]) \in 1..Len(cola["blocked"])
                BY <2>2, <3>1, EmptySeq
            <4> QED BY <3>2, <4>1 DEF Contains, Last
        <3>4. Puesto(x, "blocked") > 0 /\ "blocked" \in Puestos
            BY <3>1, <3>3, VecesApariciones DEF Tipos, Puesto, Puestos, Sitios
        <3>5. Existe(x)
            BY <3>4, SoloAhi DEF ILugar, Ubicados
        <3> QED BY <2>2, <3>2, <3>5 DEF Existe
    <2> QED BY <2>1, <2>2
<1>5. CASE Mediano
    BY <1>1, <1>4, <1>5
       DEF Mediano, Despertar, VerNew, VerBlocked, VerGrado, Evaluar, RegistrarSuspension
<1>7. ASSUME NEW k \in CPUs, CPU(k) PROVE SinUsoDeLiberado'
    BY <1>1, <1>7 DEF CPU, Elegir, Despachar, EmpezarAtencion, AtenderCierre, RegistrarExit,
       AtenderCallIO, EncolarEnDispositivo, AvisarDispositivo, AtenderIODesconocida, Estimar
<1>8. ASSUME NEW d \in Dispositivos, Dispositivo(d) PROVE SinUsoDeLiberado'
    BY <1>1, <1>8 DEF Dispositivo, TomarIO, VerSusBlocked, VerSiBlocked, PasarASusReady,
       SacarDeBlocked, DesbloquearAReady, PasarAReady, RegistrarIO
<1>9. ASSUME NEW t \in Hilos, UsarLiberado(t) PROVE SinUsoDeLiberado'
    <2>1. CASE pc[t] \in Registrando
        BY <1>9, <2>1 DEF UsarLiberado, Caer, SinUsoDeLiberado
    <2>2. CASE pc[t] = "atender"
        <3>1. tomado[t] \in cerrados
            BY <1>9, <2>2 DEF UsarLiberado
        <3>2. tomado[t] # Nadie
            BY <1>0, <2>2 DEF Tipos, TipoHilos, Manos, ConPCB
        <3>3. t \in CPUs
            BY <2>2, <3>2 DEF ILugar, Ocupados, Ocupado, Encargados, Registrando
        <3> QED BY <2>2, <3>1, <3>2, <3>3 DEF ILugar, LasCPUs, LaCPU, Registrando
    <2>3. CASE pc[t] \notin Registrando \cup {"atender"}
        <3>1. tomado[t] \in liberados
            BY <1>9, <2>3 DEF UsarLiberado
        <3>2. tomado[t] # Nadie
            BY <1>0, <3>1 DEF Tipos, TipoPCB
        <3> QED BY <2>3, <3>1, <3>2 DEF ILugar, Vivos, Existe
    <2> QED BY <2>1, <2>2, <2>3
<1>10. CASE UNCHANGED vars
    BY <1>1, <1>10 DEF vars
<1> QED BY <1>2, <1>3, <1>5, <1>7, <1>8, <1>9, <1>10 DEF Next
-----------------------------------------------------------------------------
(* The theorems.                                                           *)

LEMMA LugaresSiempre == ASSUME UnaCPU PROVE Spec => [](Tipos /\ ILugar)
<1>1. Init => Tipos /\ ILugar
    BY TiposInit, LugarInit
<1>2. Tipos /\ ILugar /\ [Next]_vars => Tipos' /\ ILugar'
    BY TiposNext, LugarNext
<1> QED BY <1>1, <1>2, PTL DEF Spec

\* With one CPU every PCB is, at all times, in exactly one queue or in the hand
\* of the thread that moves it, or suspended: __dequeue_pcb and __enqueue_pcb,
\* which lock one queue at a time, neither lose a PCB nor have it twice.
THEOREM UnSoloLugarSiempre == ASSUME UnaCPU PROVE Spec => []UnSoloLugar
BY LugaresSiempre, LugarUno, PTL

\* With one CPU a PCB that has been freed is touched, if at all, by a thread that
\* logs it after handing it over and then drops it: no thread puts a freed PCB in
\* a queue, writes its status or its estimate, or waits for a request on its
\* socket, and no CPU serves an opcode that never came.
THEOREM SinUsoDeLiberadoSiempre == ASSUME UnaCPU PROVE Spec => []SinUsoDeLiberado
<1>1. Init => SinUsoDeLiberado
    BY DEF Init, SinUsoDeLiberado
<1>2. Tipos /\ ILugar /\ SinUsoDeLiberado /\ [Next]_vars => SinUsoDeLiberado'
    BY SinUsoNext
<1> QED BY <1>1, <1>2, LugaresSiempre, PTL DEF Spec
=============================================================================
