---------------------------- MODULE GradoProofs ----------------------------
(* The degree of multiprogramming with one CPU: each step moves a place    *)
(* between the semaphore, the threads that admit or free a PCB and the     *)
(* queues of the PCBs admitted, and a suspension adds one that the entry   *)
(* of SUSP/BLOCKED accounts for.                                           *)
EXTENDS LugaresProofs

\* The terms of the sum: the places nobody has, the threads that carry one, the
\* queues whose PCBs have one, and the suspended PCBs that are nowhere else.
Plazas == sem["grado"] + sem["transicionar"]
EnMarcha == {"mirar", "sacar", "aReady", "liberar", "registrarSuspension"}
Ocupadas == Tam("ready") + Tam("exec") + Tam("blocked") + Tam("exit")
EstaAusente(c) == Existe(c) /\ Lugares(c) = 0
Ausentes == {c \in Carpinchos : EstaAusente(c)}
NumAusentes == Cardinality(Ausentes)

LEMMA GradoNaturales ==
    ASSUME cola \in TipoCola, TipoSem
    PROVE  /\ Plazas \in Nat /\ Cuantos(EnMarcha) \in Nat /\ Ocupadas \in Nat
           /\ \A q \in Colas : Tam(q) \in Nat
           /\ \A s \in Contadores : sem[s] \in Nat
<1>1. \A q \in Colas : Tam(q) \in Nat
    BY LenProperties DEF TipoCola, Tam
<1>2. \A s \in Contadores : sem[s] \in Nat
    BY DEF TipoSem
<1>3. Cuantos(EnMarcha) \in Nat
    BY CuantosNat
<1>4. Plazas \in Nat
    BY <1>2 DEF Plazas, Contadores
<1>5. Ocupadas \in Nat
    BY <1>1 DEF Ocupadas, Colas
<1> QED BY <1>1, <1>2, <1>3, <1>4, <1>5

LEMMA GradoNaturalesDespues ==
    ASSUME (cola \in TipoCola)', TipoSem'
    PROVE  /\ Plazas' \in Nat /\ Cuantos(EnMarcha)' \in Nat /\ Ocupadas' \in Nat
           /\ \A q \in Colas : Tam(q)' \in Nat
           /\ \A s \in Contadores : sem'[s] \in Nat
<1>1. \A q \in Colas : Tam(q)' \in Nat
    BY LenProperties DEF TipoCola, Tam
<1>2. \A s \in Contadores : sem'[s] \in Nat
    BY DEF TipoSem
<1>3. Cuantos(EnMarcha)' \in Nat
    <2>1. IsFiniteSet({t \in Hilos : pc'[t] \in EnMarcha})
        BY ConstantesOK, FS_Subset DEF ConstantesOK
    <2> QED BY <2>1, FS_CardinalityType DEF Cuantos
<1>4. Plazas' \in Nat
    BY <1>2 DEF Plazas, Contadores
<1>5. Ocupadas' \in Nat
    BY <1>1 DEF Ocupadas, Colas
<1> QED BY <1>1, <1>2, <1>3, <1>4, <1>5

LEMMA AusentesNat == NumAusentes \in Nat /\ NumAusentes' \in Nat
<1>1. IsFiniteSet(Carpinchos)
    BY ConstantesOK, LosHilos, FS_Subset DEF ConstantesOK
<1>2. /\ IsFiniteSet({c \in Carpinchos : EstaAusente(c)})
      /\ IsFiniteSet({c \in Carpinchos : EstaAusente(c)'})
    BY <1>1, FS_Subset
<1> QED BY <1>2, FS_CardinalityType DEF NumAusentes, Ausentes

\* The suspended PCBs that are nowhere else, after x moves from a to b.
LEMMA AusentesTras ==
    ASSUME Tipos, Tipos', NEW x, NEW a, NEW b, Muda(x, a, b),
           \A c \in Carpinchos \ {x} : Existe(c)' = Existe(c)
    PROVE  NumAusentes' = NumAusentes + Uno(x \in Carpinchos /\ EstaAusente(x)')
                                      - Uno(x \in Carpinchos /\ EstaAusente(x))
<1> DEFINE A == {c \in Carpinchos : EstaAusente(c)}
           B == {c \in Carpinchos : EstaAusente(c)'}
<1>1. \A c \in Carpinchos \ {x} : EstaAusente(c)' = EstaAusente(c)
    BY MudaIgual DEF EstaAusente
<1>2. A \ {x} = B \ {x}
    BY <1>1
<1>3. IsFiniteSet(A) /\ IsFiniteSet(B)
    <2>1. IsFiniteSet(Carpinchos)
        BY ConstantesOK, LosHilos, FS_Subset DEF ConstantesOK
    <2> QED BY <2>1, FS_Subset
<1>4. Cardinality(A) \in Nat /\ Cardinality(B) \in Nat
    BY <1>3, FS_CardinalityType
<1>5. /\ Cardinality(A \ {x}) = IF x \in A THEN Cardinality(A) - 1 ELSE Cardinality(A)
      /\ Cardinality(B \ {x}) = IF x \in B THEN Cardinality(B) - 1 ELSE Cardinality(B)
    BY <1>3, FS_RemoveElement
<1>6. /\ x \in A <=> x \in Carpinchos /\ EstaAusente(x)
      /\ x \in B <=> x \in Carpinchos /\ EstaAusente(x)'
    OBVIOUS
<1>7. NumAusentes = Cardinality(A) /\ NumAusentes' = Cardinality(B)
    BY DEF NumAusentes, Ausentes
<1> HIDE DEF A, B
<1> QED BY <1>2, <1>4, <1>5, <1>6, <1>7 DEF Uno

\* A move between places that count changes nothing.
LEMMA AusentesIgual ==
    ASSUME Tipos, Tipos', NEW x \in Carpinchos, NEW a \in Puestos, NEW b \in Puestos,
           Muda(x, a, b), \A c \in Carpinchos : Existe(c)' = Existe(c)
    PROVE  NumAusentes' = NumAusentes
<1>1. Lugares(x)' = Lugares(x) /\ Lugares(x) \in Nat
    BY MudaLugares DEF Uno
<1>2. EstaAusente(x)' = EstaAusente(x)
    BY <1>1 DEF EstaAusente
<1>3. NumAusentes' = NumAusentes + Uno(x \in Carpinchos /\ EstaAusente(x)')
                                 - Uno(x \in Carpinchos /\ EstaAusente(x))
    BY AusentesTras
<1> QED BY <1>2, <1>3, AusentesNat DEF Uno

\* What a step must do for the sum to be kept: thread t goes from label a to e.
SaldaGrado(a, e) ==
    Plazas' + Uno(e \in EnMarcha) + Ocupadas' + NumAusentes' + Tam("susblocked")
    = Plazas + Uno(a \in EnMarcha) + Ocupadas + NumAusentes + Tam("susblocked")'

LEMMA GradoTras ==
    ASSUME Tipos, Tipos', CuentaGrado, NEW t \in Hilos, NEW a, NEW e, En(t, a), Ir(t, e),
           SaldaGrado(a, e)
    PROVE  CuentaGrado'
<1>1. /\ Plazas \in Nat /\ Cuantos(EnMarcha) \in Nat /\ Ocupadas \in Nat
      /\ Tam("susblocked") \in Nat /\ sem["grado"] \in Nat /\ sem["transicionar"] \in Nat
      /\ Tam("ready") \in Nat /\ Tam("exec") \in Nat /\ Tam("blocked") \in Nat
      /\ Tam("exit") \in Nat
    BY GradoNaturales DEF Tipos, Colas, Contadores
<1>2. /\ Plazas' \in Nat /\ Cuantos(EnMarcha)' \in Nat /\ Ocupadas' \in Nat
      /\ Tam("susblocked")' \in Nat /\ sem'["grado"] \in Nat /\ sem'["transicionar"] \in Nat
      /\ Tam("ready")' \in Nat /\ Tam("exec")' \in Nat /\ Tam("blocked")' \in Nat
      /\ Tam("exit")' \in Nat
    BY GradoNaturalesDespues DEF Tipos, Colas, Contadores
<1>3. NumAusentes \in Nat /\ NumAusentes' \in Nat /\ GradoMultiprog \in Nat
    BY AusentesNat, ConstantesOK DEF ConstantesOK
<1>4. Cuantos(EnMarcha)' = Cuantos(EnMarcha) - Uno(a \in EnMarcha) + Uno(e \in EnMarcha)
    <2>1. pc[t] = a /\ pc' = [pc EXCEPT ![t] = e]
        BY DEF En, Ir
    <2> QED BY <2>1, CambioDeEtiqueta DEF Tipos, TipoHilos
<1>5. Plazas + Cuantos(EnMarcha) + Ocupadas = GradoMultiprog + Tam("susblocked") - NumAusentes
    <2>1. sem["grado"] + sem["transicionar"] + Cuantos(EnMarcha)
          + Tam("ready") + Tam("exec") + Tam("blocked") + Tam("exit")
          = GradoMultiprog + Tam("susblocked") - NumAusentes
        BY DEF CuentaGrado, En, EnMarcha, Tam, NumAusentes, Ausentes, EstaAusente
    <2> QED BY <1>1, <2>1 DEF Plazas, Ocupadas
<1>6. Uno(a \in EnMarcha) \in Nat /\ Uno(e \in EnMarcha) \in Nat
    BY DEF Uno
<1>7. Plazas' + Cuantos(EnMarcha)' + Ocupadas'
        = GradoMultiprog + Tam("susblocked")' - NumAusentes'
    <2> DEFINE p == Plazas        pp == Plazas'
               k == Cuantos(EnMarcha)  kk == Cuantos(EnMarcha)'
               o == Ocupadas      oo == Ocupadas'
               s == Tam("susblocked")  ss == Tam("susblocked")'
               n == NumAusentes   nn == NumAusentes'
               u == Uno(a \in EnMarcha)  v == Uno(e \in EnMarcha)
    <2>1. /\ p \in Int /\ pp \in Int /\ k \in Int /\ kk \in Int /\ o \in Int /\ oo \in Int
          /\ s \in Int /\ ss \in Int /\ n \in Int /\ nn \in Int /\ u \in Int /\ v \in Int
          /\ GradoMultiprog \in Int
        BY <1>1, <1>2, <1>3, <1>6
    <2>2. pp + v + oo + nn + s = p + u + o + n + ss
        BY DEF SaldaGrado
    <2>3. kk = k - u + v
        BY <1>4
    <2>4. p + k + o = GradoMultiprog + s - n
        BY <1>5
    <2> HIDE DEF p, pp, k, kk, o, oo, s, ss, n, nn, u, v
    <2>5. pp + kk + oo = GradoMultiprog + ss - nn
        BY ONLY <2>1, <2>2, <2>3, <2>4
    <2> QED BY <2>5 DEF pp, kk, oo, ss, nn
<1>8. sem'["grado"] + sem'["transicionar"] + Cuantos(EnMarcha)'
      + Tam("ready")' + Tam("exec")' + Tam("blocked")' + Tam("exit")'
      = GradoMultiprog + Tam("susblocked")' - NumAusentes'
    BY <1>2, <1>7 DEF Plazas, Ocupadas
<1> QED BY <1>8 DEF CuentaGrado, EnMarcha, Tam, NumAusentes, Ausentes, EstaAusente
-----------------------------------------------------------------------------
(* The lengths of the queues after each way of moving a PCB.               *)

\* A PCB leaves place a and comes to place b.
TamMuda(a, b) == \A q \in Colas : Tam(q)' = Tam(q) + Uno(q = b) - Uno(q = a)

LEMMA TamEncolar ==
    ASSUME cola \in TipoCola, NEW b \in Colas, NEW a, a \notin Colas,
           NEW x \in Carpinchos, cola' = Encolar(b, x)
    PROVE  TamMuda(a, b)
<1> SUFFICES ASSUME NEW q \in Colas PROVE Tam(q)' = Tam(q) + Uno(q = b) - Uno(q = a)
    BY DEF TamMuda
<1>1. Len(cola[q]) \in Nat
    BY LenProperties DEF TipoCola
<1>2. /\ Len(cola'[b]) = Len(cola[b]) + 1
      /\ \A r \in Colas \ {b} : cola'[r] = cola[r]
    BY TrasEncolar
<1>3. Len(cola'[q]) = Len(cola[q]) + (IF q = b THEN 1 ELSE 0)
    <2> DEFINE m == Len(cola'[q])  n == Len(cola[q])
    <2>1. n \in Nat
        BY <1>1
    <2>2. q = b => m = n + 1
        BY <1>2, Zenon
    <2>3. q # b => m = n
        BY <1>2, Zenon
    <2> HIDE DEF m, n
    <2>4. m = n + (IF q = b THEN 1 ELSE 0)
        BY ONLY <2>1, <2>2, <2>3
    <2> QED BY <2>4 DEF m, n
<1>4. q # a
    OBVIOUS
<1> QED BY <1>1, <1>3, <1>4 DEF Tam, Uno

LEMMA TamMover ==
    ASSUME cola \in TipoCola, NEW a \in Colas, NEW b \in Colas, a # b,
           NEW x \in Carpinchos, Contains(cola[a], x), cola' = Mover(x, a, b)
    PROVE  TamMuda(a, b)
<1> SUFFICES ASSUME NEW q \in Colas PROVE Tam(q)' = Tam(q) + Uno(q = b) - Uno(q = a)
    BY DEF TamMuda
<1>1. Len(cola[q]) \in Nat
    BY LenProperties DEF TipoCola
<1>2. /\ Len(cola'[b]) = Len(cola[b]) + 1 /\ Len(cola'[a]) = Len(cola[a]) - 1
      /\ \A r \in Colas \ {a, b} : cola'[r] = cola[r]
    BY TrasMover
<1>3. Len(cola'[q]) = Len(cola[q]) + (IF q = b THEN 1 ELSE 0) - (IF q = a THEN 1 ELSE 0)
    <2> DEFINE m == Len(cola'[q])  n == Len(cola[q])
    <2>1. n \in Nat
        BY <1>1
    <2>2. q = b => m = n + 1
        BY <1>2, Zenon
    <2>3. q = a => m = n - 1
        BY <1>2, Zenon
    <2>4. q # a /\ q # b => m = n
        BY <1>2, Zenon
    <2> HIDE DEF m, n
    <2>5. m = n + (IF q = b THEN 1 ELSE 0) - (IF q = a THEN 1 ELSE 0)
        BY ONLY a # b, <2>1, <2>2, <2>3, <2>4
    <2> QED BY <2>5 DEF m, n
<1> QED BY <1>3 DEF Tam, Uno

LEMMA TamSinPrimero ==
    ASSUME cola \in TipoCola, NEW a \in Colas, NEW b, b \notin Colas, cola[a] # <<>>,
           cola' = SinPrimero(a)
    PROVE  TamMuda(a, b)
<1> SUFFICES ASSUME NEW q \in Colas PROVE Tam(q)' = Tam(q) + Uno(q = b) - Uno(q = a)
    BY DEF TamMuda
<1>1. Len(cola[q]) \in Nat
    BY LenProperties DEF TipoCola
<1>2. /\ Len(cola'[a]) = Len(cola[a]) - 1
      /\ \A r \in Colas \ {a} : cola'[r] = cola[r]
    BY TrasSinPrimero
<1>3. Len(cola'[q]) = Len(cola[q]) + 0 - (IF q = a THEN 1 ELSE 0)
    <2> DEFINE m == Len(cola'[q])  n == Len(cola[q])
    <2>1. n \in Nat
        BY <1>1
    <2>2. q = a => m = n - 1
        BY <1>2, Zenon
    <2>3. q # a => m = n
        BY <1>2, Zenon
    <2> HIDE DEF m, n
    <2>4. m = n + 0 - (IF q = a THEN 1 ELSE 0)
        BY ONLY <2>1, <2>2, <2>3
    <2> QED BY <2>4 DEF m, n
<1>4. q # b
    OBVIOUS
<1> QED BY <1>3, <1>4 DEF Tam, Uno

LEMMA TamSuspender ==
    ASSUME cola \in TipoCola, cola["blocked"] # <<>>, NEW x \in Carpinchos,
           cola' = [cola EXCEPT !["blocked"] = Front(@), !["susblocked"] = Append(@, x)]
    PROVE  TamMuda("blocked", "susblocked")
<1> SUFFICES ASSUME NEW q \in Colas
             PROVE  Tam(q)' = Tam(q) + Uno(q = "susblocked") - Uno(q = "blocked")
    BY DEF TamMuda
<1>0. "blocked" \in Colas /\ "susblocked" \in Colas
    BY DEF Colas
<1>1. Len(cola[q]) \in Nat /\ cola[q] \in Seq(Carpinchos)
    BY LenProperties DEF TipoCola
<1>2. CASE q = "blocked"
    <2>1. cola'[q] = Front(cola[q])
        BY <1>0, <1>2 DEF TipoCola
    <2>2. Len(Front(cola[q])) = Len(cola[q]) - 1
        BY <1>1, <1>2, QuitarUltimo
    <2> QED BY <1>1, <1>2, <2>1, <2>2 DEF Tam, Uno
<1>3. CASE q = "susblocked"
    <2>1. cola'[q] = Append(cola[q], x)
        BY <1>0, <1>3 DEF TipoCola
    <2>2. Len(Append(cola[q], x)) = Len(cola[q]) + 1
        BY <1>1, AppendProperties
    <2> QED BY <1>1, <1>3, <2>1, <2>2 DEF Tam, Uno
<1>4. CASE q \notin {"blocked", "susblocked"}
    <2>1. cola'[q] = cola[q]
        BY <1>0, <1>4 DEF TipoCola
    <2>2. Len(cola'[q]) = Len(cola[q]) + 0 - 0
        BY ONLY <1>1, <2>1
    <2>3. q # "blocked" /\ q # "susblocked"
        BY <1>4
    <2> QED BY <2>2, <2>3 DEF Tam, Uno
<1> QED BY <1>2, <1>3, <1>4

LEMMA TamSacar ==
    ASSUME cola \in TipoCola, NEW x \in Carpinchos,
           cola' = [cola EXCEPT !["blocked"] = RemoveFirst(@, x)]
    PROVE  TamMuda(DeBlocked(x), "mano")
<1> DEFINE a == DeBlocked(x)
<1>0. /\ "blocked" \in Colas /\ "mano" \notin Colas /\ "nada" \notin Colas
      /\ a = IF Contains(cola["blocked"], x) THEN "blocked" ELSE "nada"
    BY DEF Colas, DeBlocked
<1> HIDE DEF a
<1> SUFFICES ASSUME NEW q \in Colas PROVE Tam(q)' = Tam(q) + Uno(q = "mano") - Uno(q = a)
    BY DEF TamMuda, a
<1>1. Len(cola[q]) \in Nat /\ cola[q] \in Seq(Carpinchos)
    BY LenProperties DEF TipoCola
<1>2. CASE q = "blocked"
    <2>1. cola'[q] = RemoveFirst(cola[q], x)
        BY <1>0, <1>2 DEF TipoCola
    <2>2. CASE Contains(cola["blocked"], x)
        <3>1. Len(RemoveFirst(cola[q], x)) = Len(cola[q]) - 1
            BY <1>1, <1>2, <2>2, QuitarPrimero
        <3> QED BY <1>0, <1>1, <1>2, <2>1, <2>2, <3>1 DEF Tam, Uno
    <2>3. CASE ~Contains(cola["blocked"], x)
        <3>1. RemoveFirst(cola[q], x) = cola[q]
            BY <1>2, <2>3 DEF RemoveFirst, Contains
        <3> QED BY <1>0, <1>1, <1>2, <2>1, <2>3, <3>1 DEF Tam, Uno
    <2> QED BY <2>2, <2>3
<1>3. CASE q # "blocked"
    <2>1. cola'[q] = cola[q]
        BY <1>0, <1>3 DEF TipoCola
    <2>2. Len(cola'[q]) = Len(cola[q]) + 0 - 0
        BY <1>1, <2>1
    <2>3. q # "mano" /\ q # a
        BY <1>0, <1>3
    <2> QED BY <2>2, <2>3 DEF Tam, Uno
<1> QED BY <1>2, <1>3

\* The queues whose PCBs have a place.
Admitidas == {"ready", "exec", "blocked", "exit"}

LEMMA OcupadasTras ==
    ASSUME Tipos, Tipos', NEW a, NEW b, TamMuda(a, b)
    PROVE  /\ Ocupadas' = Ocupadas + Uno(b \in Admitidas) - Uno(a \in Admitidas)
           /\ Tam("susblocked")' = Tam("susblocked") + Uno(b = "susblocked")
                                                     - Uno(a = "susblocked")
<1>1. \A q \in Colas : Tam(q) \in Nat
    BY GradoNaturales DEF Tipos
<1>2. /\ Tam("ready")' = Tam("ready") + Uno("ready" = b) - Uno("ready" = a)
      /\ Tam("exec")' = Tam("exec") + Uno("exec" = b) - Uno("exec" = a)
      /\ Tam("blocked")' = Tam("blocked") + Uno("blocked" = b) - Uno("blocked" = a)
      /\ Tam("exit")' = Tam("exit") + Uno("exit" = b) - Uno("exit" = a)
      /\ Tam("susblocked")' = Tam("susblocked") + Uno("susblocked" = b) - Uno("susblocked" = a)
    BY DEF TamMuda, Colas
<1>3. \A z : Uno("ready" = z) + Uno("exec" = z) + Uno("blocked" = z) + Uno("exit" = z)
             = Uno(z \in Admitidas)
    BY DEF Uno, Admitidas
<1>4. Ocupadas' = Ocupadas + Uno(b \in Admitidas) - Uno(a \in Admitidas)
    <2> DEFINE r == Tam("ready")  e == Tam("exec")  k == Tam("blocked")  x == Tam("exit")
               rr == Tam("ready")'  ee == Tam("exec")'  kk == Tam("blocked")'  xx == Tam("exit")'
               rb == Uno("ready" = b)  eb == Uno("exec" = b)
               kb == Uno("blocked" = b)  xb == Uno("exit" = b)
               ra == Uno("ready" = a)  ea == Uno("exec" = a)
               ka == Uno("blocked" = a)  xa == Uno("exit" = a)
               ub == Uno(b \in Admitidas)  ua == Uno(a \in Admitidas)
    <2>1. /\ r \in Int /\ e \in Int /\ k \in Int /\ x \in Int
        BY <1>1 DEF Colas
    <2>2. /\ rb \in Int /\ eb \in Int /\ kb \in Int /\ xb \in Int
          /\ ra \in Int /\ ea \in Int /\ ka \in Int /\ xa \in Int
        BY DEF Uno
    <2>3. rb + eb + kb + xb = ub /\ ra + ea + ka + xa = ua
        BY <1>3
    <2>4. rr = r + rb - ra /\ ee = e + eb - ea /\ kk = k + kb - ka /\ xx = x + xb - xa
        BY <1>2
    <2>5. Ocupadas = r + e + k + x /\ Ocupadas' = rr + ee + kk + xx
        BY DEF Ocupadas
    <2> HIDE DEF r, e, k, x, rr, ee, kk, xx, rb, eb, kb, xb, ra, ea, ka, xa, ub, ua
    <2>6. rr + ee + kk + xx = (r + e + k + x) + ub - ua
        BY ONLY <2>1, <2>2, <2>3, <2>4
    <2> QED BY <2>5, <2>6 DEF ub, ua
<1> QED BY <1>2, <1>4 DEF Uno

\* A step in which x goes from a to b: the sum of what it gives and takes.
Balance(x, a, b, l, e) ==
    Plazas' + Uno(e \in EnMarcha) + Uno(b \in Admitidas) + Uno(EstaAusente(x)')
            + Uno(a = "susblocked")
    = Plazas + Uno(l \in EnMarcha) + Uno(a \in Admitidas) + Uno(EstaAusente(x))
             + Uno(b = "susblocked")

LEMMA GradoPaso ==
    ASSUME Tipos, Tipos', CuentaGrado, NEW t \in Hilos, NEW l, NEW e, En(t, l), Ir(t, e),
           NEW x \in Carpinchos, NEW a, NEW b, Muda(x, a, b), TamMuda(a, b),
           \A c \in Carpinchos \ {x} : Existe(c)' = Existe(c),
           Balance(x, a, b, l, e)
    PROVE  CuentaGrado'
<1>1. NumAusentes' = NumAusentes + Uno(EstaAusente(x)') - Uno(EstaAusente(x))
    <2>1. NumAusentes' = NumAusentes + Uno(x \in Carpinchos /\ EstaAusente(x)')
                                     - Uno(x \in Carpinchos /\ EstaAusente(x))
        BY AusentesTras
    <2> QED BY <2>1 DEF Uno
<1>2. /\ Ocupadas' = Ocupadas + Uno(b \in Admitidas) - Uno(a \in Admitidas)
      /\ Tam("susblocked")' = Tam("susblocked") + Uno(b = "susblocked")
                                                - Uno(a = "susblocked")
    BY OcupadasTras
<1> DEFINE p == Plazas  pp == Plazas'  o == Ocupadas  oo == Ocupadas'
           s == Tam("susblocked")  ss == Tam("susblocked")'
           n == NumAusentes  nn == NumAusentes'
           u == Uno(l \in EnMarcha)  v == Uno(e \in EnMarcha)
           ua == Uno(a \in Admitidas)  ub == Uno(b \in Admitidas)
           sa == Uno(a = "susblocked")  sb == Uno(b = "susblocked")
           x0 == Uno(EstaAusente(x))  x1 == Uno(EstaAusente(x)')
<1>3. /\ p \in Int /\ pp \in Int /\ o \in Int /\ s \in Int /\ n \in Int
    BY GradoNaturales, GradoNaturalesDespues, AusentesNat DEF Tipos, Colas
<1>4. /\ u \in Int /\ v \in Int /\ ua \in Int /\ ub \in Int /\ sa \in Int /\ sb \in Int
      /\ x0 \in Int /\ x1 \in Int
    BY DEF Uno
<1>5. nn = n + x1 - x0 /\ oo = o + ub - ua /\ ss = s + sb - sa
    BY <1>1, <1>2
<1>6. pp + v + ub + x1 + sa = p + u + ua + x0 + sb
    BY DEF Balance
<1> HIDE DEF p, pp, o, oo, s, ss, n, nn, u, v, ua, ub, sa, sb, x0, x1
<1>7. pp + v + oo + nn + s = p + u + o + n + ss
    BY ONLY <1>3, <1>4, <1>5, <1>6
<1>8. SaldaGrado(l, e)
    BY <1>7 DEF SaldaGrado, p, pp, o, oo, s, ss, n, nn, u, v
<1> QED BY <1>8, GradoTras

\* A step that moves no PCB.
LEMMA GradoQuieto ==
    ASSUME Tipos, Tipos', ILugar, CuentaGrado,
           NEW t \in Hilos, NEW l, NEW e, En(t, l), Ir(t, e),
           tomado' = tomado \/ \E m : Tomar(t, m), UNCHANGED <<cola, liberados>>,
           t \in Carpinchos => Avanza(t, e),
           t \notin CPUs => {l, e} \cap {"aReady", "liberar"} = {},
           Plazas' + Uno(e \in EnMarcha) = Plazas + Uno(l \in EnMarcha)
    PROVE  CuentaGrado'
<1>1. pc[t] = l
    BY DEF En
<1>2. Muda(Nadie, "nada", "nada")
    BY <1>1, MudaNada
<1>3. \A c \in Carpinchos : Existe(c)' = Existe(c)
    BY <1>1, LlegadosIgual DEF ILugar, Tipos
<1>4. NumAusentes' = NumAusentes
    <2>1. Nadie \notin Carpinchos
        BY ConstantesOK DEF ConstantesOK
    <2>2. NumAusentes' = NumAusentes + Uno(Nadie \in Carpinchos /\ EstaAusente(Nadie)')
                                     - Uno(Nadie \in Carpinchos /\ EstaAusente(Nadie))
        BY <1>2, <1>3, AusentesTras
    <2> QED BY <2>1, <2>2, AusentesNat DEF Uno
<1>5. Ocupadas' = Ocupadas /\ Tam("susblocked")' = Tam("susblocked")
    BY DEF Ocupadas, Tam
<1>6. SaldaGrado(l, e)
    BY <1>4, <1>5 DEF SaldaGrado
<1> QED BY <1>6, GradoTras

\* A step that takes an existing PCB from a, where it is, to b.
Cuadra(a, b, l, e) ==
    Plazas' + Uno(e \in EnMarcha) + Uno(b \in Admitidas) + Uno(b \notin Puestos)
            + Uno(a = "susblocked")
    = Plazas + Uno(l \in EnMarcha) + Uno(a \in Admitidas) + Uno(a \notin Puestos)
             + Uno(b = "susblocked")

LEMMA GradoMueve ==
    ASSUME Tipos, Tipos', ILugar, CuentaGrado,
           NEW t \in Hilos \ Carpinchos, NEW l, NEW e, En(t, l), Ir(t, e), UNCHANGED liberados,
           NEW x \in Carpinchos, NEW a, NEW b, Muda(x, a, b), TamMuda(a, b),
           Existe(x), Lugares(x) = Uno(a \in Puestos), Cuadra(a, b, l, e)
    PROVE  CuentaGrado'
<1>1. \A c \in Carpinchos : Existe(c)' = Existe(c)
    BY LlegadosIgual DEF ILugar, Tipos
<1>2. Lugares(x)' = Uno(b \in Puestos)
    BY MudaLugares DEF Uno
<1>3. EstaAusente(x) <=> a \notin Puestos
    BY DEF EstaAusente, Uno
<1>4. EstaAusente(x)' <=> b \notin Puestos
    BY <1>1, <1>2 DEF EstaAusente, Uno
<1>5. Uno(EstaAusente(x)) = Uno(a \notin Puestos) /\ Uno(EstaAusente(x)') = Uno(b \notin Puestos)
    BY <1>3, <1>4 DEF Uno
<1>6. Balance(x, a, b, l, e)
    BY <1>5 DEF Balance, Cuadra
<1> QED BY <1>1, <1>6, GradoPaso

\* The same, when x is in a, which is a place that counts.
LEMMA GradoMueveDe ==
    ASSUME Tipos, Tipos', ILugar, CuentaGrado,
           NEW t \in Hilos \ Carpinchos, NEW l, NEW e, En(t, l), Ir(t, e), UNCHANGED liberados,
           NEW x \in Carpinchos, NEW a \in Puestos, NEW b, Muda(x, a, b), TamMuda(a, b),
           Puesto(x, a) > 0, Cuadra(a, b, l, e)
    PROVE  CuentaGrado'
<1>1. Existe(x) /\ Lugares(x) = 1
    BY SoloAhi DEF ILugar, Ubicados
<1>2. Lugares(x) = Uno(a \in Puestos)
    BY <1>1 DEF Uno
<1> QED BY <1>1, <1>2, GradoMueve
-----------------------------------------------------------------------------
(* The steps, thread by thread.                                            *)

\* The handler of a connection: a PCB in NEW has no place yet.
LEMMA GradoAlta ==
    ASSUME Tipos, Tipos', ILugar, CuentaGrado, NEW c \in Carpinchos, Alta(c)
    PROVE  CuentaGrado'
<1> USE DEF io, clientes, fin
<1>0. c \in Hilos /\ c \notin CPUs
    BY LosHilos, ConstantesOK DEF ConstantesOK
<1>1. CASE AltaEnNew(c)
    <2>1. /\ En(c, "alta") /\ cola' = Encolar("new", c) /\ Ir(c, "registrarAlta")
          /\ UNCHANGED <<sem, liberados>> /\ pc[c] = "alta"
        BY <1>1 DEF AltaEnNew, En
    <2>2. c \notin liberados /\ ~Existe(c)
        BY <2>1 DEF ILugar, Llegados, Existe
    <2>3. /\ pc'[c] = "registrarAlta"
          /\ \A d \in Carpinchos \ {c} : Existe(d)' = Existe(d)
        BY <1>0, <2>1 DEF Tipos, TipoHilos, Ir, Existe
    <2>4. Muda(c, "nada", "new")
        BY <1>1, MudaAlta
    <2>5. "new" \in Puestos /\ "nada" \notin Puestos /\ "new" \in Colas /\ "nada" \notin Colas
        BY DEF Puestos, Sitios, Colas
    <2>6. Lugares(c)' = 1
        <3>1. Lugares(c) = 0
            BY <2>2 DEF ILugar, Ubicados, UnLugar
        <3> QED BY <2>4, <2>5, <3>1, MudaLugares DEF Uno
    <2>7. TamMuda("nada", "new")
        BY <2>1, <2>5, TamEncolar DEF Tipos
    <2>8. Plazas' = Plazas /\ Plazas \in Int
        BY <2>1, GradoNaturales DEF Plazas, Tipos
    <2>9. ~EstaAusente(c) /\ ~EstaAusente(c)'
        BY <2>2, <2>6 DEF EstaAusente
    <2>10. Balance(c, "nada", "new", "alta", "registrarAlta")
        BY <2>8, <2>9 DEF Balance, Uno, EnMarcha, Admitidas
    <2> QED BY <1>0, <2>1, <2>3, <2>4, <2>7, <2>10, GradoPaso
<1>2. CASE ConcluirAlta(c)
    <2>1. /\ En(c, "espAlta") /\ Ir(c, "fin") /\ tomado' = tomado
          /\ UNCHANGED <<cola, liberados>>
          /\ sem' = [Wait("concluida") EXCEPT !["hay"] = @ + 1]
        BY <1>2 DEF ConcluirAlta
    <2>2. Plazas' = Plazas /\ Plazas \in Int
        BY <2>1, GradoNaturales DEF Plazas, Wait, Tipos, TipoSem, Contadores
    <2>3. Plazas' + Uno("fin" \in EnMarcha) = Plazas + Uno("espAlta" \in EnMarcha)
        BY <2>2 DEF Uno, EnMarcha
    <2>4. /\ c \notin CPUs => {"espAlta", "fin"} \cap {"aReady", "liberar"} = {}
          /\ Avanza(c, "fin")
        BY <2>1 DEF En, Avanza
    <2> QED BY <1>0, <2>1, <2>3, <2>4, GradoQuieto
<1>3. CASE RegistrarAlta(c)
    <2>1. /\ En(c, "registrarAlta") /\ Ir(c, "espAlta") /\ (tomado' = tomado \/ \E m : Tomar(c, m))
          /\ UNCHANGED <<cola, liberados>> /\ sem' = Post("despertar")
        BY <1>3 DEF RegistrarAlta, Soltar
    <2>2. Plazas' = Plazas /\ Plazas \in Int
        BY <2>1, GradoNaturales DEF Plazas, Post, Tipos, TipoSem, Contadores
    <2>3. Plazas' + Uno("espAlta" \in EnMarcha) = Plazas + Uno("registrarAlta" \in EnMarcha)
        BY <2>2 DEF Uno, EnMarcha
    <2>4. /\ c \notin CPUs => {"registrarAlta", "espAlta"} \cap {"aReady", "liberar"} = {}
          /\ Avanza(c, "espAlta")
        BY <2>1 DEF En, Avanza
    <2> QED BY <1>0, <2>1, <2>3, <2>4, GradoQuieto
<1> QED BY <1>1, <1>2, <1>3 DEF Alta

\* The PCB in the hand of a thread is admitted.
LEMMA GradoPasarAReady ==
    ASSUME Tipos, Tipos', ILugar, CuentaGrado,
           NEW t \in Hilos \ (Carpinchos \cup CPUs), NEW v \in Registrando, v \notin EnMarcha,
           PasarAReady(t, v), Plazas' = Plazas
    PROVE  CuentaGrado'
<1>1. /\ En(t, "aReady") /\ pc[t] = "aReady" /\ cola' = Encolar("ready", tomado[t])
      /\ Ir(t, v) /\ UNCHANGED liberados
    BY DEF PasarAReady, EnCon, En, fin
<1>2. PICK x \in Carpinchos : x = tomado[t]
    BY <1>1 DEF Tipos, TipoHilos, Manos, ConPCB
<1>3. Muda(x, "mano", "ready")
    BY <1>2, MudaPasarAReady
<1>4. Puesto(x, "mano") > 0
    BY <1>1, <1>2, ManoPositiva DEF EnLaMano, Puesto
<1>5. "mano" \in Puestos /\ "mano" \notin Colas /\ "ready" \in Colas
    BY DEF Puestos, Sitios, Colas
<1>6. TamMuda("mano", "ready")
    BY <1>1, <1>2, <1>5, TamEncolar DEF Tipos
<1>7. Plazas \in Int
    BY GradoNaturales DEF Tipos
<1>8. Cuadra("mano", "ready", "aReady", v)
    <2>1. "ready" \in Puestos
        BY DEF Puestos, Sitios, Colas
    <2> QED BY <1>5, <1>7, <2>1 DEF Cuadra, Uno, EnMarcha, Admitidas
<1> QED BY <1>1, <1>3, <1>4, <1>5, <1>6, <1>8, GradoMueveDe

\* The first PCB of a queue goes to the hand of thread t.
LEMMA GradoAMano ==
    ASSUME Tipos, Tipos', ILugar, CuentaGrado,
           NEW t \in Hilos \ (Carpinchos \cup CPUs), NEW l, l \notin {"aReady", "liberar"},
           NEW e \in {"aReady", "liberar"}, En(t, l), Ir(t, e), UNCHANGED liberados,
           NEW q \in Colas \cap Puestos, cola[q] # <<>>, cola' = SinPrimero(q),
           Tomar(t, Head(cola[q])),
           Plazas' = Plazas - 1 + Uno(l \in EnMarcha) + Uno(q \in Admitidas)
    PROVE  CuentaGrado'
<1>1. pc[t] = l
    BY DEF En
<1>2. PICK x \in Carpinchos : Puesto(x, q) > 0 /\ Muda(x, q, "mano")
    BY <1>1, MudaAMano
<1>3. "mano" \in Puestos /\ "mano" \notin Colas
    BY DEF Puestos, Sitios, Colas
<1>4. TamMuda(q, "mano")
    BY <1>3, TamSinPrimero DEF Tipos
<1>5. Cuadra(q, "mano", l, e)
    <2>1. Plazas \in Int /\ q # "susblocked" /\ e \in EnMarcha /\ "mano" \notin Admitidas
        BY GradoNaturales DEF Tipos, Puestos, EnMarcha, Admitidas
    <2>2. Uno(l \in EnMarcha) \in Int /\ Uno(q \in Admitidas) \in Int
        BY DEF Uno
    <2>3. /\ Uno(e \in EnMarcha) = 1 /\ Uno("mano" \in Admitidas) = 0
          /\ Uno("mano" \notin Puestos) = 0 /\ Uno(q \notin Puestos) = 0
          /\ Uno(q = "susblocked") = 0 /\ Uno("mano" = "susblocked") = 0
        BY <1>3, <2>1 DEF Uno
    <2> QED BY <2>1, <2>2, <2>3 DEF Cuadra
<1> QED BY <1>1, <1>2, <1>4, <1>5, GradoMueveDe


\* The kernel falls: nothing is claimed any more.
LEMMA GradoCaer ==
    ASSUME NEW q \in {"largo", "liberador", "mediano", "susready", "corto", "io",
                      "indefinido", "registro"},
           Caer(q)
    PROVE  CuentaGrado'
BY DEF Caer, CuentaGrado

\* The long-term scheduler: the place it takes goes with it.
LEMMA GradoLargo ==
    ASSUME Tipos, Tipos', ILugar, CuentaGrado, Largo
    PROVE  CuentaGrado'
<1> USE DEF io, clientes, fin
<1> DEFINE t == "largo"
<1>0. t \in Hilos \ (Carpinchos \cup CPUs) /\ Plazas \in Int
    BY LosHilos, ConstantesOK, GradoNaturales DEF ConstantesOK, Planificadores, Tipos
<1>1. ASSUME NEW l \in {"hay", "grado", "mirar"}, NEW e \in {"grado", "mirar", "hay", "sacar"},
             En(t, l), Ir(t, e), tomado' = tomado, UNCHANGED <<cola, liberados>>,
             Plazas' + Uno(e \in EnMarcha) = Plazas + Uno(l \in EnMarcha)
      PROVE  CuentaGrado'
    BY <1>0, <1>1, GradoQuieto
<1>2. CASE TomarCandidato
    <2>1. Plazas' = Plazas
        BY <1>2 DEF TomarCandidato, Plazas, Wait, Tipos, TipoSem, Contadores
    <2> QED BY <1>0, <1>1, <1>2, <2>1 DEF TomarCandidato, Uno, EnMarcha
<1>3. CASE TomarGrado
    <2>1. Plazas' = Plazas - 1
        BY <1>0, <1>3 DEF TomarGrado, Plazas, Wait, Tipos, TipoSem, Contadores
    <2> QED BY <1>0, <1>1, <1>3, <2>1 DEF TomarGrado, Uno, EnMarcha
<1>4. CASE DelegarEnSusReady
    <2>1. Plazas' = Plazas + 1
        BY <1>0, <1>4 DEF DelegarEnSusReady, Plazas, Post, Tipos, TipoSem, Contadores
    <2> QED BY <1>0, <1>1, <1>4, <2>1 DEF DelegarEnSusReady, Uno, EnMarcha
<1>5. CASE ElegirNew
    <2>1. Plazas' = Plazas
        BY <1>5 DEF ElegirNew, Plazas
    <2> QED BY <1>0, <1>1, <1>5, <2>1 DEF ElegirNew, Uno, EnMarcha
<1>6. CASE SacarDeNew
    <2>1. CASE cola["new"] = <<>>
        BY <1>6, <2>1, GradoCaer DEF SacarDeNew
    <2>2. CASE cola["new"] # <<>>
        <3>1. /\ En(t, "sacar") /\ Tomar(t, Head(cola["new"])) /\ cola' = SinPrimero("new")
              /\ Ir(t, "aReady") /\ UNCHANGED <<sem, liberados>>
            BY <1>6, <2>2 DEF SacarDeNew
        <3>2. "new" \in Colas \cap Puestos
            BY DEF Puestos, Sitios, Colas
        <3>3. Plazas' = Plazas - 1 + Uno("sacar" \in EnMarcha) + Uno("new" \in Admitidas)
            BY <1>0, <3>1 DEF Plazas, Uno, EnMarcha, Admitidas
        <3> QED BY <1>0, <2>2, <3>1, <3>2, <3>3, GradoAMano
    <2> QED BY <2>1, <2>2
<1>7. CASE NewAReady
    <2>1. "registrarReady" \in Registrando /\ "registrarReady" \notin EnMarcha
        BY DEF Registrando, EnMarcha
    <2>2. Plazas' = Plazas
        BY <1>7 DEF NewAReady, Plazas
    <2> QED BY <1>0, <1>7, <2>1, <2>2, GradoPasarAReady DEF NewAReady
<1>8. CASE RegistrarAdmision
    <2>1. /\ En(t, "registrarReady") /\ Ir(t, "hay") /\ (tomado' = tomado \/ \E m : Tomar(t, m))
          /\ UNCHANGED <<cola, liberados>> /\ sem' = Post("ready")
        BY <1>8 DEF RegistrarAdmision, RegistrarReady, Soltar
    <2>2. Plazas' = Plazas
        BY <2>1 DEF Plazas, Post, Tipos, TipoSem, Contadores
    <2>3. Plazas' + Uno("hay" \in EnMarcha) = Plazas + Uno("registrarReady" \in EnMarcha)
        BY <1>0, <2>2 DEF Uno, EnMarcha
    <2> QED BY <1>0, <2>1, <2>3, GradoQuieto
<1> QED BY <1>2, <1>3, <1>4, <1>5, <1>6, <1>7, <1>8 DEF Largo

\* The thread of SUSP/READY takes the place it was left.
LEMMA GradoSusReady ==
    ASSUME Tipos, Tipos', ILugar, CuentaGrado, SusReady
    PROVE  CuentaGrado'
<1> USE DEF io, clientes, fin
<1> DEFINE t == "susready"
<1>0. t \in Hilos \ (Carpinchos \cup CPUs) /\ Plazas \in Int
    BY LosHilos, ConstantesOK, GradoNaturales DEF ConstantesOK, Planificadores, Tipos
<1>1. CASE TomarSusReady
    <2>1. CASE cola["susready"] = <<>>
        BY <1>1, <2>1, GradoCaer DEF TomarSusReady
    <2>2. CASE cola["susready"] # <<>>
        <3>1. /\ En(t, "transicionar") /\ Tomar(t, Head(cola["susready"]))
              /\ cola' = SinPrimero("susready") /\ Ir(t, "aReady") /\ UNCHANGED liberados
              /\ sem' = Wait("transicionar")
            BY <1>1, <2>2 DEF TomarSusReady
        <3>2. "susready" \in Colas \cap Puestos
            BY DEF Puestos, Sitios, Colas
        <3>3. Plazas' = Plazas - 1
            BY <1>0, <3>1 DEF Plazas, Wait, Tipos, TipoSem, Contadores
        <3>4. Plazas' = Plazas - 1 + Uno("transicionar" \in EnMarcha)
                                   + Uno("susready" \in Admitidas)
            BY <1>0, <3>3 DEF Uno, EnMarcha, Admitidas
        <3> QED BY <1>0, <2>2, <3>1, <3>2, <3>4, GradoAMano
    <2> QED BY <2>1, <2>2
<1>2. CASE SusReadyAReady
    <2>1. "registrarReady" \in Registrando /\ "registrarReady" \notin EnMarcha
        BY DEF Registrando, EnMarcha
    <2>2. Plazas' = Plazas
        BY <1>2 DEF SusReadyAReady, Plazas
    <2> QED BY <1>0, <1>2, <2>1, <2>2, GradoPasarAReady DEF SusReadyAReady
<1>3. CASE RegistrarTransicion
    <2> DEFINE e == "transicionar"
    <2>1. /\ En(t, "registrarReady") /\ Ir(t, e) /\ (tomado' = tomado \/ \E m : Tomar(t, m))
          /\ UNCHANGED <<cola, liberados>> /\ sem' = Post("ready")
        BY <1>3 DEF RegistrarTransicion, RegistrarReady, Soltar
    <2>2. Plazas' = Plazas
        BY <2>1 DEF Plazas, Post, Tipos, TipoSem, Contadores
    <2>3. Plazas' + Uno(e \in EnMarcha) = Plazas + Uno("registrarReady" \in EnMarcha)
        BY <1>0, <2>2 DEF Uno, EnMarcha
    <2> QED BY <1>0, <2>1, <2>3, GradoQuieto
<1> QED BY <1>1, <1>2, <1>3 DEF SusReady

\* The thread that frees finished PCBs gives their places back.
LEMMA GradoLiberador ==
    ASSUME Tipos, Tipos', ILugar, CuentaGrado, Liberador
    PROVE  CuentaGrado'
<1> USE DEF io, clientes, fin
<1> DEFINE t == "liberador"
<1>0. /\ t \in Hilos \ (Carpinchos \cup CPUs) /\ Plazas \in Int
    BY LosHilos, ConstantesOK, GradoNaturales DEF ConstantesOK, Planificadores, Tipos
<1>1. CASE TomarExit
    <2>1. CASE cola["exit"] = <<>>
        BY <1>1, <2>1, GradoCaer DEF TomarExit
    <2>2. CASE cola["exit"] # <<>>
        <3>1. /\ En(t, "exit") /\ Tomar(t, Head(cola["exit"]))
              /\ cola' = SinPrimero("exit") /\ Ir(t, "liberar") /\ UNCHANGED liberados
              /\ sem' = Wait("exit")
            BY <1>1, <2>2 DEF TomarExit
        <3>2. "exit" \in Colas \cap Puestos
            BY DEF Puestos, Sitios, Colas
        <3>3. Plazas' = Plazas
            BY <1>0, <3>1 DEF Plazas, Wait, Tipos, TipoSem, Contadores
        <3>4. Plazas' = Plazas - 1 + Uno("exit" \in EnMarcha) + Uno("exit" \in Admitidas)
            BY <1>0, <3>3 DEF Uno, EnMarcha, Admitidas
        <3> QED BY <1>0, <2>2, <3>1, <3>2, <3>4, GradoAMano
    <2> QED BY <2>1, <2>2
<1>2. CASE Liberar
    <2>1. /\ En(t, "liberar") /\ pc[t] = "liberar" /\ Ir(t, "exit") /\ UNCHANGED cola
          /\ liberados' = liberados \cup {tomado[t]} /\ sem' = Post("grado")
        BY <1>2 DEF Liberar, EnCon, En
    <2>2. PICK x \in Carpinchos : x = tomado[t]
        BY <1>0, <2>1 DEF Tipos, TipoHilos, Manos, ConPCB
    <2>3. Muda(x, "mano", "nada")
        BY <1>2, <2>2, MudaLiberar
    <2>4. "mano" \in Puestos /\ Puesto(x, "mano") > 0
        BY <1>0, <2>1, <2>2, ManoPositiva DEF EnLaMano, Puesto, Puestos, Sitios
    <2>5. Lugares(x) = 1
        BY <2>4, SoloAhi DEF ILugar, Ubicados
    <2>6. /\ \A c \in Carpinchos : pc'[c] = pc[c]
          /\ \A c \in Carpinchos \ {x} : Existe(c)' = Existe(c)
          /\ ~Existe(x)'
        BY <1>0, <2>1, <2>2 DEF Tipos, TipoHilos, Ir, Existe
    <2>7. TamMuda("mano", "nada")
        <3> SUFFICES ASSUME NEW q \in Colas
                     PROVE  Tam(q)' = Tam(q) + Uno(q = "nada") - Uno(q = "mano")
            BY DEF TamMuda
        <3>1. q # "nada" /\ q # "mano"
            BY DEF Colas
        <3>2. Tam(q)' = Tam(q)
            BY <2>1 DEF Tam
        <3>3. Tam(q) \in Nat
            BY GradoNaturales DEF Tipos
        <3> QED BY <3>1, <3>2, <3>3 DEF Uno
    <2>8. Plazas' = Plazas + 1
        BY <1>0, <2>1 DEF Plazas, Post, Tipos, TipoSem, Contadores
    <2>9. ~EstaAusente(x) /\ ~EstaAusente(x)'
        BY <2>5, <2>6 DEF EstaAusente
    <2>10. Balance(x, "mano", "nada", "liberar", "exit")
        BY <1>0, <2>8, <2>9 DEF Balance, Uno, EnMarcha, Admitidas
    <2> QED BY <1>0, <2>1, <2>3, <2>6, <2>7, <2>10, GradoPaso
<1> QED BY <1>1, <1>2 DEF Liberador

\* The medium-term scheduler: the place of the PCB it suspends is free again.
LEMMA GradoMediano ==
    ASSUME Tipos, Tipos', ILugar, CuentaGrado, Mediano
    PROVE  CuentaGrado'
<1> USE DEF io, clientes, fin
<1> DEFINE t == "mediano"
<1>0. t \in Hilos \ (Carpinchos \cup CPUs) /\ Plazas \in Int
    BY LosHilos, ConstantesOK, GradoNaturales DEF ConstantesOK, Planificadores, Tipos
<1>1. ASSUME NEW l \in {"despertar", "verNew", "verBlocked", "verGrado"},
             NEW e \in {"despertar", "verNew", "verBlocked", "verGrado", "suspender"},
             En(t, l), Ir(t, e), tomado' = tomado, UNCHANGED <<cola, liberados>>,
             Plazas' = Plazas
      PROVE  CuentaGrado'
    <2>1. Plazas' + Uno(e \in EnMarcha) = Plazas + Uno(l \in EnMarcha)
        BY <1>0, <1>1 DEF Uno, EnMarcha
    <2> QED BY <1>0, <1>1, <2>1, GradoQuieto
<1>2. CASE Despertar
    <2>1. Plazas' = Plazas
        BY <1>2 DEF Despertar, Plazas, Wait, Tipos, TipoSem, Contadores
    <2>2. CASE cola["ready"] = <<>>
        BY <1>1, <1>2, <2>1, <2>2 DEF Despertar
    <2>3. CASE cola["ready"] # <<>>
        <3>1. Ir(t, "despertar")
            BY <1>0, <1>2, <2>3 DEF Despertar, En, Ir, Tipos, TipoHilos
        <3> QED BY <1>1, <1>2, <2>1, <3>1 DEF Despertar
    <2> QED BY <2>2, <2>3
<1>3. CASE VerNew \/ VerBlocked \/ VerGrado
    <2>1. ASSUME NEW l \in {"verNew", "verBlocked", "verGrado"}, NEW b,
                 NEW f \in {"verBlocked", "verGrado", "suspender"}, Evaluar(l, b, f)
          PROVE  CuentaGrado'
        <3>1. Plazas' = Plazas
            BY <2>1 DEF Evaluar, DejarDeEvaluar, Plazas, Post, Tipos, TipoSem, Contadores
        <3> QED BY <1>1, <2>1, <3>1 DEF Evaluar, DejarDeEvaluar
    <2> QED BY <1>3, <2>1 DEF VerNew, VerBlocked, VerGrado
<1>4. CASE Suspender
    <2>1. CASE cola["blocked"] = <<>> \/ Last(cola["blocked"]) \in liberados
        BY <1>4, <2>1, GradoCaer DEF Suspender
    <2>2. CASE cola["blocked"] # <<>> /\ Last(cola["blocked"]) \notin liberados
        <3>1. PICK x \in Carpinchos : x = Last(cola["blocked"])
            <4>1. cola["blocked"] \in Seq(Carpinchos)
                BY DEF Tipos, TipoCola, Colas
            <4> QED BY <2>2, <4>1, QuitarUltimo
        <3>2. /\ En(t, "suspender") /\ pc[t] = "suspender"
              /\ cola' = [cola EXCEPT !["blocked"] = Front(@), !["susblocked"] = Append(@, x)]
              /\ Ir(t, "registrarSuspension") /\ Tomar(t, x) /\ UNCHANGED <<sem, liberados>>
            BY <1>4, <2>2, <3>1 DEF Suspender, En
        <3>3. Muda(x, "blocked", "susblocked") /\ Veces(x, "blocked") > 0
            BY <2>2, <3>1, <3>2, MudaSuspender
        <3>4. TamMuda("blocked", "susblocked")
            BY <2>2, <3>2, TamSuspender DEF Tipos
        <3>5. "blocked" \in Puestos /\ "susblocked" \notin Puestos /\ Puesto(x, "blocked") > 0
            BY <3>3 DEF Puesto, Puestos, Sitios, Colas
        <3>6. Plazas' = Plazas
            BY <3>2 DEF Plazas
        <3>7. Cuadra("blocked", "susblocked", "suspender", "registrarSuspension")
            BY <1>0, <3>5, <3>6 DEF Cuadra, Uno, EnMarcha, Admitidas
        <3> QED BY <1>0, <3>2, <3>3, <3>4, <3>5, <3>7, GradoMueveDe
    <2> QED BY <2>1, <2>2
<1>5. CASE RegistrarSuspension
    <2>1. /\ En(t, "registrarSuspension") /\ Ir(t, "despertar")
          /\ (tomado' = tomado \/ \E m : Tomar(t, m)) /\ UNCHANGED <<cola, liberados>>
          /\ sem' = [Post("grado") EXCEPT !["concluida"] = @ + 1]
        BY <1>5 DEF RegistrarSuspension, Soltar
    <2>2. Plazas' = Plazas + 1
        <3>1. sem["grado"] \in Nat /\ sem["transicionar"] \in Nat
            BY DEF Tipos, TipoSem, Contadores
        <3>2. /\ sem'["grado"] = sem["grado"] + 1
              /\ sem'["transicionar"] = sem["transicionar"]
            BY <2>1 DEF Post, Tipos, TipoSem, Contadores
        <3> QED BY <3>1, <3>2 DEF Plazas
    <2>3. Plazas' + Uno("despertar" \in EnMarcha) = Plazas + Uno("registrarSuspension" \in EnMarcha)
        BY <1>0, <2>2 DEF Uno, EnMarcha
    <2> QED BY <1>0, <2>1, <2>3, GradoQuieto
<1> QED BY <1>2, <1>3, <1>4, <1>5 DEF Mediano


\* A CPU moves the PCB in its hand between queues that have a place.
LEMMA GradoDeCPU ==
    ASSUME Tipos, Tipos', ILugar, CuentaGrado, NEW k \in CPUs, NEW l, NEW e,
           En(k, l), Ir(k, e), l \notin EnMarcha, e \notin EnMarcha,
           tomado' = tomado \/ \E m : Tomar(k, m), UNCHANGED liberados, Plazas' = Plazas,
           NEW x \in Carpinchos, NEW a \in {"ready", "exec"}, Veces(x, a) > 0,
           NEW b \in {"exec", "blocked", "exit"}, a # b, cola' = Mover(x, a, b)
    PROVE  CuentaGrado'
<1>1. k \in Hilos \ Carpinchos
    BY LosHilos, ConstantesOK DEF ConstantesOK
<1>2. a \in Colas /\ b \in Colas /\ a \in Puestos /\ b \in Puestos
    BY DEF Puestos, Sitios, Colas
<1>3. Muda(x, a, b)
    BY <1>2, MudaDeCPU
<1>4. Contains(cola[a], x)
    BY <1>2, VecesApariciones DEF Tipos
<1>5. TamMuda(a, b)
    BY <1>2, <1>4, TamMover DEF Tipos
<1>6. Puesto(x, a) > 0
    BY DEF Puesto
<1>7. Cuadra(a, b, l, e)
    <2>1. Plazas \in Int
        BY GradoNaturales DEF Tipos
    <2>2. /\ Uno(a \in Admitidas) = 1 /\ Uno(b \in Admitidas) = 1
          /\ Uno(a \notin Puestos) = 0 /\ Uno(b \notin Puestos) = 0
          /\ Uno(a = "susblocked") = 0 /\ Uno(b = "susblocked") = 0
          /\ Uno(l \in EnMarcha) = 0 /\ Uno(e \in EnMarcha) = 0
        BY <1>2 DEF Uno, Admitidas
    <2> QED BY <2>1, <2>2 DEF Cuadra
<1> QED BY <1>1, <1>2, <1>3, <1>5, <1>6, <1>7, GradoMueveDe

\* A CPU: what it serves keeps its place until it ends.
LEMMA GradoCPU ==
    ASSUME Tipos, Tipos', ILugar, CuentaGrado, NEW k \in CPUs, CPU(k)
    PROVE  CuentaGrado'
<1> USE DEF io, clientes, fin
<1>0. k \in Hilos /\ k \notin Carpinchos /\ Nadie \notin Carpinchos /\ Plazas \in Int
    BY LosHilos, ConstantesOK, GradoNaturales DEF ConstantesOK, Tipos
<1>1. LaCPU(k) /\ (pc[k] \in ConPCB => tomado[k] \in Carpinchos)
    BY <1>0 DEF ILugar, LasCPUs, Tipos, TipoHilos, Manos
<1>2. ASSUME NEW l \in {"ready", "espExec", "encolarIO", "espIO", "atender", "estimar",
                       "registrarExit"},
             NEW e \in {"despachar", "atender", "espIO", "estimar", "ready"},
             En(k, l), Ir(k, e), tomado' = tomado \/ \E m : Tomar(k, m),
             UNCHANGED <<cola, liberados>>, Plazas' = Plazas
      PROVE  CuentaGrado'
    <2>1. Plazas' + Uno(e \in EnMarcha) = Plazas + Uno(l \in EnMarcha)
        BY <1>0, <1>2 DEF Uno, EnMarcha
    <2> QED BY <1>0, <1>2, <2>1, GradoQuieto
<1>3. CASE Elegir(k)
    <2>1. CASE Caer("corto")
        BY <2>1, GradoCaer
    <2>2. ASSUME NEW c, sem' = Wait("ready"), Tomar(k, c), Ir(k, "despachar"),
                 UNCHANGED <<cola, liberados>>
          PROVE  CuentaGrado'
        <3>1. Plazas' = Plazas
            BY <2>2 DEF Plazas, Wait, Tipos, TipoSem, Contadores
        <3>2. En(k, "ready")
            BY <1>3 DEF Elegir
        <3>3. tomado' = tomado \/ \E m : Tomar(k, m)
            BY <2>2
        <3> QED BY <1>2, <2>2, <3>1, <3>2, <3>3
    <2> QED BY <1>3, <2>1, <2>2 DEF Elegir
<1>4. CASE Despachar(k)
    <2>1. /\ En(k, "despachar") /\ pc[k] = "despachar" /\ Ir(k, "espExec")
          /\ cola' = Mover(tomado[k], "ready", "exec") /\ UNCHANGED <<tomado, liberados>>
          /\ sem' = Post("despertar")
        BY <1>4 DEF Despachar, EnCon, En
    <2>2. PICK x \in Carpinchos : x = tomado[k]
        BY <1>1, <2>1 DEF ConPCB
    <2>3. Veces(x, "ready") > 0
        BY <1>0, <1>1, <2>1, <2>2 DEF LaCPU
    <2>4. Plazas' = Plazas
        BY <2>1 DEF Plazas, Post, Tipos, TipoSem, Contadores
    <2>5. "despachar" \notin EnMarcha /\ "espExec" \notin EnMarcha
        BY DEF EnMarcha
    <2> QED BY <2>1, <2>2, <2>3, <2>4, <2>5, GradoDeCPU
<1>5. CASE EmpezarAtencion(k)
    <2>1. Plazas' = Plazas
        BY <1>5 DEF EmpezarAtencion, Plazas, Wait, Tipos, TipoSem, Contadores
    <2> QED BY <1>2, <1>5, <2>1 DEF EmpezarAtencion, EnCon
<1>6. CASE AtenderCierre(k)
    <2>1. /\ En(k, "atender") /\ pc[k] = "atender" /\ Ir(k, "registrarExit")
          /\ cola' = Mover(tomado[k], "exec", "exit") /\ UNCHANGED <<sem, tomado, liberados>>
        BY <1>6 DEF AtenderCierre, Recibe, EnCon, En
    <2>2. PICK x \in Carpinchos : x = tomado[k]
        BY <1>1, <2>1 DEF ConPCB
    <2>3. Veces(x, "exec") > 0
        BY <1>0, <1>1, <2>1, <2>2 DEF LaCPU
    <2>4. Plazas' = Plazas
        BY <2>1 DEF Plazas
    <2>5. "atender" \notin EnMarcha /\ "registrarExit" \notin EnMarcha
        BY DEF EnMarcha
    <2> QED BY <2>1, <2>2, <2>3, <2>4, <2>5, GradoDeCPU
<1>7. ASSUME NEW d, AtenderCallIO(k, d) PROVE CuentaGrado'
    <2>1. /\ En(k, "atender") /\ pc[k] = "atender" /\ Ir(k, "encolarIO")
          /\ cola' = Mover(tomado[k], "exec", "blocked") /\ UNCHANGED <<sem, tomado, liberados>>
        BY <1>7 DEF AtenderCallIO, Pide, Recibe, EnCon, En
    <2>2. PICK x \in Carpinchos : x = tomado[k]
        BY <1>1, <2>1 DEF ConPCB
    <2>3. Veces(x, "exec") > 0
        BY <1>0, <1>1, <2>1, <2>2 DEF LaCPU
    <2>4. Plazas' = Plazas
        BY <2>1 DEF Plazas
    <2>5. "atender" \notin EnMarcha /\ "encolarIO" \notin EnMarcha
        BY DEF EnMarcha
    <2> QED BY <2>1, <2>2, <2>3, <2>4, <2>5, GradoDeCPU
<1>8. CASE EncolarEnDispositivo(k)
    <2>1. Plazas' = Plazas
        BY <1>8 DEF EncolarEnDispositivo, Plazas, Post, Tipos, TipoSem, Contadores
    <2> QED BY <1>2, <1>8, <2>1 DEF EncolarEnDispositivo, EnCon
<1>9. CASE AvisarDispositivo(k)
    <2>1. Plazas' = Plazas
        BY <1>9 DEF AvisarDispositivo, Plazas, Wait, Tipos, TipoSem, Contadores
    <2> QED BY <1>2, <1>9, <2>1 DEF AvisarDispositivo
<1>10. CASE AtenderIODesconocida(k)
    <2>1. Plazas' = Plazas
        BY <1>10 DEF AtenderIODesconocida, Plazas
    <2> QED BY <1>2, <1>10, <2>1 DEF AtenderIODesconocida, Pide, Recibe, EnCon
<1>11. CASE Estimar(k)
    <2>1. Plazas' = Plazas
        BY <1>11 DEF Estimar, Plazas
    <2> QED BY <1>2, <1>11, <2>1 DEF Estimar, EnCon, Soltar
<1>13. CASE RegistrarExit(k)
    <2>1. Plazas' = Plazas
        BY <1>13 DEF RegistrarExit, Plazas, Post, Tipos, TipoSem, Contadores
    <2> QED BY <1>2, <1>13, <2>1 DEF RegistrarExit, Soltar
<1> QED BY <1>3, <1>4, <1>5, <1>6, <1>7, <1>8, <1>9, <1>10, <1>11, <1>13 DEF CPU

\* A device: a PCB it takes out of BLOCKED keeps its place; one that was
\* suspended meanwhile comes back without one.
LEMMA GradoDispositivo ==
    ASSUME Tipos, Tipos', ILugar, CuentaGrado, NEW d \in Dispositivos, Dispositivo(d)
    PROVE  CuentaGrado'
<1> USE DEF io, clientes, fin
<1>0. d \in Hilos \ (Carpinchos \cup CPUs) /\ Plazas \in Int
    BY LosHilos, ConstantesOK, GradoNaturales DEF ConstantesOK, Tipos
<1>1. ASSUME NEW l \in {"io", "verSusBlocked", "verSiBlocked", "registrarIO"},
             NEW e \in {"io", "verSusBlocked", "aSusReady", "verSiBlocked", "sacarBlocked"},
             En(d, l), Ir(d, e), tomado' = tomado \/ \E m : Tomar(d, m),
             UNCHANGED <<cola, sem, liberados>>
      PROVE  CuentaGrado'
    <2>1. Plazas' + Uno(e \in EnMarcha) = Plazas + Uno(l \in EnMarcha)
        BY <1>0, <1>1 DEF Plazas, Uno, EnMarcha
    <2> QED BY <1>0, <1>1, <2>1, GradoQuieto
<1>2. CASE TomarIO(d)
    <2>1. CASE colaIO[d] = <<>>
        BY <1>2, <2>1, GradoCaer DEF TomarIO
    <2>2. CASE colaIO[d] # <<>>
        <3>1. tomado' = tomado \/ \E m : Tomar(d, m)
            BY <1>2, <2>2 DEF TomarIO
        <3> QED BY <1>1, <1>2, <2>2, <3>1 DEF TomarIO
    <2> QED BY <2>1, <2>2
<1>3. CASE VerSusBlocked(d)
    BY <1>1, <1>3 DEF VerSusBlocked, EnCon
<1>4. CASE VerSiBlocked(d)
    <2>1. tomado' = tomado \/ \E m : Tomar(d, m)
        BY <1>4 DEF VerSiBlocked, Soltar
    <2> QED BY <1>1, <1>4, <2>1 DEF VerSiBlocked, EnCon
<1>5. CASE PasarASusReady(d)
    <2>1. /\ En(d, "aSusReady") /\ pc[d] = "aSusReady" /\ Ir(d, "registrarIO")
          /\ UNCHANGED liberados
          /\ cola' = Mover(tomado[d], "susblocked", "susready") /\ sem' = Post("hay")
        BY <1>5 DEF PasarASusReady, EnCon, En
    <2>2. PICK x \in Carpinchos : x = tomado[d] /\ Frenado(x)
        BY <2>1, EnCargoDe DEF Encargados
    <2>3. Existe(x) /\ Lugares(x) = 0 /\ Veces(x, "susblocked") > 0
        BY <1>0, <2>1, <2>2 DEF ILugar, Suspendidos, Frenado
    <2>4. /\ "susblocked" \in Colas /\ "susready" \in Colas /\ "susblocked" # "susready"
          /\ "susblocked" \notin Puestos /\ "susready" \in Puestos
        BY DEF Puestos, Sitios, Colas
    <2>5. Muda(x, "susblocked", "susready")
        BY <1>5, <2>2, <2>3, MudaASusReady
    <2>6. Contains(cola["susblocked"], x)
        BY <2>3, <2>4, VecesApariciones DEF Tipos
    <2>7. TamMuda("susblocked", "susready")
        BY <2>1, <2>2, <2>4, <2>6, TamMover DEF Tipos
    <2>8. Lugares(x) = Uno("susblocked" \in Puestos)
        BY <2>3, <2>4 DEF Uno
    <2>9. Plazas' = Plazas
        BY <2>1 DEF Plazas, Post, Tipos, TipoSem, Contadores
    <2>10. Cuadra("susblocked", "susready", "aSusReady", "registrarIO")
        BY <1>0, <2>4, <2>9 DEF Cuadra, Uno, EnMarcha, Admitidas
    <2> QED BY <1>0, <2>1, <2>3, <2>5, <2>7, <2>8, <2>10, GradoMueve
<1>6. CASE SacarDeBlocked(d)
    <2>1. /\ En(d, "sacarBlocked") /\ pc[d] = "sacarBlocked" /\ Ir(d, "aReady")
          /\ cola' = [cola EXCEPT !["blocked"] = RemoveFirst(@, tomado[d])]
          /\ UNCHANGED <<sem, liberados>>
        BY <1>6 DEF SacarDeBlocked, EnCon, En
    <2>2. PICK x \in Carpinchos : x = tomado[d] /\ Frenado(x)
        BY <2>1, EnCargoDe DEF Encargados
    <2> DEFINE a == DeBlocked(x)
    <2>3. Muda(x, a, "mano")
        BY <1>6, <2>2, MudaSacar
    <2>4. Existe(x) /\ Lugares(x) = Uno(a \in Puestos)
        BY <2>2, FrenadoEn
    <2>5. TamMuda(a, "mano")
        BY <2>1, <2>2, TamSacar DEF Tipos
    <2>6. a \in {"blocked", "nada"}
        BY DEF DeBlocked
    <2> HIDE DEF a
    <2>7. /\ "blocked" \in Puestos /\ "nada" \notin Puestos /\ "mano" \in Puestos
          /\ "mano" \notin Admitidas /\ "nada" \notin Admitidas /\ "blocked" \in Admitidas
          /\ "aReady" \in EnMarcha /\ "sacarBlocked" \notin EnMarcha
        BY DEF Puestos, Sitios, Colas, Admitidas, EnMarcha
    <2>8. Plazas' = Plazas
        BY <2>1 DEF Plazas
    <2>9. Cuadra(a, "mano", "sacarBlocked", "aReady")
        BY <1>0, <2>6, <2>7, <2>8 DEF Cuadra, Uno
    <2> QED BY <1>0, <2>1, <2>3, <2>4, <2>5, <2>9, GradoMueve
<1>7. CASE DesbloquearAReady(d)
    <2>1. "registrarIO" \in Registrando /\ "registrarIO" \notin EnMarcha
        BY DEF Registrando, EnMarcha
    <2>2. Plazas' = Plazas
        BY <1>7 DEF DesbloquearAReady, Plazas, Post, Tipos, TipoSem, Contadores
    <2> QED BY <1>0, <1>7, <2>1, <2>2, GradoPasarAReady DEF DesbloquearAReady
<1>8. CASE RegistrarIO(d)
    <2>1. tomado' = tomado \/ \E m : Tomar(d, m)
        BY <1>8 DEF RegistrarIO, Soltar
    <2> QED BY <1>1, <1>8, <2>1 DEF RegistrarIO
<1> QED BY <1>2, <1>3, <1>4, <1>5, <1>6, <1>7, <1>8 DEF Dispositivo
-----------------------------------------------------------------------------
(* The theorem.                                                            *)

LEMMA GradoInit == Init => CuentaGrado
<1> SUFFICES ASSUME Init PROVE CuentaGrado
    OBVIOUS
<1>1. sem["grado"] = GradoMultiprog /\ sem["transicionar"] = 0 /\ GradoMultiprog \in Nat
    BY ConstantesOK DEF Init, Contadores, ConstantesOK
<1>2. Cuantos({"mirar", "sacar", "aReady", "liberar", "registrarSuspension"}) = 0
    <2>1. {t \in Hilos : pc[t] \in {"mirar", "sacar", "aReady", "liberar",
                                   "registrarSuspension"}} = {}
        BY DEF Init, Hilos, Planificadores
    <2> QED BY <2>1, FS_EmptySet DEF Cuantos
<1>3. \A q \in Colas : Len(cola[q]) = 0
    BY DEF Init
<1>4. {c \in Carpinchos : Existe(c) /\ Lugares(c) = 0} = {}
    <2>1. \A c \in Carpinchos : pc[c] = "alta"
        BY LosHilos, ConstantesOK DEF Init, ConstantesOK, Planificadores
    <2> QED BY <2>1 DEF Existe
<1>5. Cardinality({c \in Carpinchos : Existe(c) /\ Lugares(c) = 0}) = 0
    BY <1>4, FS_EmptySet
<1>6. /\ Len(cola["ready"]) = 0 /\ Len(cola["exec"]) = 0 /\ Len(cola["blocked"]) = 0
      /\ Len(cola["exit"]) = 0 /\ Len(cola["susblocked"]) = 0
    BY <1>3 DEF Colas
<1> DEFINE n == Cardinality({c \in Carpinchos : Existe(c) /\ Lugares(c) = 0})
           s == sem["grado"]   s2 == sem["transicionar"]
           k == Cuantos({"mirar", "sacar", "aReady", "liberar", "registrarSuspension"})
           l1 == Len(cola["ready"])  l2 == Len(cola["exec"])  l3 == Len(cola["blocked"])
           l4 == Len(cola["exit"])  l5 == Len(cola["susblocked"])
<1>7. /\ n = 0 /\ s = GradoMultiprog /\ s2 = 0 /\ k = 0 /\ GradoMultiprog \in Nat
      /\ l1 = 0 /\ l2 = 0 /\ l3 = 0 /\ l4 = 0 /\ l5 = 0
    BY <1>1, <1>2, <1>5, <1>6
<1> HIDE DEF n, s, s2, k, l1, l2, l3, l4, l5
<1>8. s + s2 + k + l1 + l2 + l3 + l4 = GradoMultiprog + l5 - n
    BY ONLY <1>7
<1> QED BY <1>8 DEF CuentaGrado, n, s, s2, k, l1, l2, l3, l4, l5

LEMMA GradoNext == Tipos /\ ILugar /\ CuentaGrado /\ [Next]_vars => CuentaGrado'
<1> SUFFICES ASSUME Tipos, ILugar, CuentaGrado, [Next]_vars PROVE CuentaGrado'
    OBVIOUS
<1>0. Tipos'
    BY TiposNext
<1>1. ASSUME NEW t \in Hilos, UsarLiberado(t) PROVE CuentaGrado'
    BY <1>1, GradoCaer DEF UsarLiberado
<1>2. CASE UNCHANGED vars
    BY <1>2 DEF vars, fin, CuentaGrado, Cuantos, Existe, Lugares, Veces, EnMano
<1>3. CASE Next
    BY <1>0, <1>1, <1>3, GradoAlta, GradoLargo, GradoLiberador, GradoMediano, GradoSusReady,
       GradoCPU, GradoDispositivo DEF Next
<1> QED BY <1>2, <1>3

\* With one CPU the places of the degree of multiprogramming are neither lost
\* nor made: __iniciar_largo_plazo takes one for each admission it starts, and
\* a suspension and the freeing of a PCB give one back; only a PCB suspended
\* while its device was taking it out of BLOCKED has given back a place that it
\* still uses.
THEOREM CuentaGradoSiempre == ASSUME UnaCPU PROVE Spec => []CuentaGrado
<1>1. Init => CuentaGrado
    BY GradoInit
<1>2. Tipos /\ ILugar /\ CuentaGrado /\ [Next]_vars => CuentaGrado'
    BY GradoNext
<1> QED BY <1>1, <1>2, LugaresSiempre, PTL DEF Spec

=============================================================================
