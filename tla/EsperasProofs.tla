--------------------------- MODULE EsperasProofs ---------------------------
(* Theorems about Semaforos with one CPU: who may put each PCB in a queue, *)
(* which semaphores are in the list, and that the requests implement       *)
(* SemaforosAbstractos.                                                    *)
EXTENDS SemaforosProofs, LugaresProofs

-----------------------------------------------------------------------------
(* Each PCB has a token.  It is in a queue of the scheduler, of a device or *)
(* of a semaphore, or with the thread that is to put the PCB in a queue;    *)
(* BLOCKED and SUSP/BLOCKED, which keep stale entries, hold no tokens.      *)

ConFicha == {"new", "ready", "exec", "susready", "exit"}
AlPoner == {"aReady", "liberar"} \cup Encargados
AlDespertar == {"semDespertar", "semAReady"}
Lleva(t, c) ==
    \/ tomado[t] = c /\ pc[t] \in AlPoner
    \/ t \in CPUs /\ despierta[t] = c /\ pc[t] \in AlDespertar

\* A place is a kind, and which one of that kind.
EsLugar(v, p) ==
    \/ v = "cola" /\ p \in ConFicha
    \/ v = "io" /\ p \in Dispositivos
    \/ v = "sem" /\ p \in Semaforos
    \/ v = "mano" /\ p \in Hilos

\* The tokens of c at a place.
Fichas(v, p, c) ==
    IF v = "cola" THEN Apariciones(cola[p], c)
    ELSE IF v = "io" THEN Apariciones(colaIO[p], c)
    ELSE IF v = "sem" THEN Apariciones(colaSem[p], c)
    ELSE Uno(Lleva(p, c))

\* A PCB has one at most, and none before it comes.
Unicas ==
    \A c \in Carpinchos : \A v, p : EsLugar(v, p) =>
        /\ Fichas(v, p, c) <= 1
        /\ Fichas(v, p, c) > 0 => \A w, q : EsLugar(w, q) /\ Fichas(w, q, c) > 0
                                              => w = v /\ q = p
Sueltas ==
    \A c \in Carpinchos : pc[c] = "alta" => \A v, p : EsLugar(v, p) => Fichas(v, p, c) = 0

\* The PCB a CPU has chosen is in READY, and the one it serves is in EXEC.
Atendiendo == {"espExec", "atender"} \cup (EtiquetasSem \ {"semEncolar", "espSem"})
Servido(k) ==
    /\ pc[k] = "despachar" => Apariciones(cola["ready"], tomado[k]) > 0
    /\ pc[k] \in Atendiendo => Apariciones(cola["exec"], tomado[k]) > 0
Servidos == \A k \in CPUs : Servido(k)

\* A token of x goes from one place to another; no other appears.
Pasa(x, v0, p0, v1, p1) ==
    \A c \in Carpinchos : \A v, p : EsLugar(v, p) =>
        Fichas(v, p, c)' <= Fichas(v, p, c) + Uno(c = x /\ v = v1 /\ p = p1)
                                            - Uno(c = x /\ v = v0 /\ p = p0)

\* Tokens are counted by numbers.
LEMMA FichasNat ==
    ASSUME IInvSem, NEW c, NEW v, NEW p, EsLugar(v, p)
    PROVE  Fichas(v, p, c) \in Nat
<1>1. CASE v = "cola" /\ p \in ConFicha
    <2>1. cola[p] \in Seq(Carpinchos)
        BY <1>1 DEF IInvSem, IInv, Tipos, TipoCola, ConFicha, Colas
    <2> QED BY <1>1, <2>1, AparicionesNat DEF Fichas
<1>2. CASE v = "io" /\ p \in Dispositivos
    <2>1. colaIO[p] \in Seq(Carpinchos)
        BY <1>2 DEF IInvSem, IInv, Tipos, TipoIO
    <2> QED BY <1>2, <2>1, AparicionesNat DEF Fichas
<1>3. CASE v = "sem" /\ p \in Semaforos
    <2>1. colaSem[p] \in Seq(Carpinchos)
        BY <1>3 DEF IInvSem, TiposSem, TipoCuentas
    <2> QED BY <1>3, <2>1, AparicionesNat DEF Fichas
<1>4. CASE v = "mano" /\ p \in Hilos
    BY <1>4 DEF Fichas, Uno
<1> QED BY <1>1, <1>2, <1>3, <1>4 DEF EsLugar

\* The same after a step.
LEMMA FichasNatDespues ==
    ASSUME IInvSem', NEW c, NEW v, NEW p, EsLugar(v, p)
    PROVE  Fichas(v, p, c)' \in Nat
<1>1. CASE v = "cola" /\ p \in ConFicha
    <2>1. cola'[p] \in Seq(Carpinchos)
        BY <1>1 DEF IInvSem, IInv, Tipos, TipoCola, ConFicha, Colas
    <2>2. Fichas(v, p, c)' = Apariciones(cola'[p], c)
        BY <1>1 DEF Fichas, Apariciones, Donde
    <2> QED BY <2>1, <2>2, AparicionesNat
<1>2. CASE v = "io" /\ p \in Dispositivos
    <2>1. colaIO'[p] \in Seq(Carpinchos)
        BY <1>2 DEF IInvSem, IInv, Tipos, TipoIO
    <2>2. Fichas(v, p, c)' = Apariciones(colaIO'[p], c)
        BY <1>2 DEF Fichas, Apariciones, Donde
    <2> QED BY <2>1, <2>2, AparicionesNat
<1>3. CASE v = "sem" /\ p \in Semaforos
    <2>1. colaSem'[p] \in Seq(Carpinchos)
        BY <1>3 DEF IInvSem, TiposSem, TipoCuentas
    <2>2. Fichas(v, p, c)' = Apariciones(colaSem'[p], c)
        BY <1>3 DEF Fichas, Apariciones, Donde
    <2> QED BY <2>1, <2>2, AparicionesNat
<1>4. CASE v = "mano" /\ p \in Hilos
    BY <1>4 DEF Fichas, Uno
<1> QED BY <1>1, <1>2, <1>3, <1>4 DEF EsLugar

\* After such a step each PCB still has one token at most: it came from
\* a place that had it, or x had none.
LEMMA TrasPasa ==
    ASSUME IInvSem, IInvSem', Unicas, Sueltas,
           NEW x, NEW v0, NEW p0, NEW v1, NEW p1, Pasa(x, v0, p0, v1, p1),
           \/ v1 = "nada"
           \/ x \in Carpinchos /\ EsLugar(v0, p0) /\ Fichas(v0, p0, x) > 0
           \/ x \in Carpinchos /\ pc[x] = "alta" /\ pc'[x] # "alta",
           \A c \in Carpinchos : pc'[c] = "alta" => pc[c] = "alta"
    PROVE  Unicas' /\ Sueltas'
<1>1. ASSUME NEW c \in Carpinchos, NEW v, NEW p, EsLugar(v, p),
             ~(c = x /\ v = v1 /\ p = p1)
      PROVE  /\ Fichas(v, p, c)' <= Fichas(v, p, c)
             /\ c = x /\ v = v0 /\ p = p0 => Fichas(v, p, c)' <= Fichas(v, p, c) - 1
    <2>1. Fichas(v, p, c) \in Nat /\ Fichas(v, p, c)' \in Nat
        BY <1>1, FichasNat, FichasNatDespues
    <2>2. Fichas(v, p, c)' <= Fichas(v, p, c) + Uno(c = x /\ v = v1 /\ p = p1)
                                              - Uno(c = x /\ v = v0 /\ p = p0)
        BY <1>1 DEF Pasa
    <2>3. Uno(c = x /\ v = v1 /\ p = p1) = 0
        BY <1>1 DEF Uno
    <2>4. /\ Uno(c = x /\ v = v0 /\ p = p0) \in Nat
          /\ c = x /\ v = v0 /\ p = p0 => Uno(c = x /\ v = v0 /\ p = p0) = 1
        BY DEF Uno
    <2> DEFINE a == Fichas(v, p, c)  b == Fichas(v, p, c)'
               m == Uno(c = x /\ v = v1 /\ p = p1)  n == Uno(c = x /\ v = v0 /\ p = p0)
               G == c = x /\ v = v0 /\ p = p0
    <2>5. a \in Nat /\ b \in Nat /\ b <= a + m - n /\ m = 0 /\ n \in Nat /\ (G => n = 1)
        BY <2>1, <2>2, <2>3, <2>4
    <2> HIDE DEF a, b, m, n, G
    <2>6. b <= a /\ (G => b <= a - 1)
        BY ONLY <2>5
    <2> QED BY <2>6 DEF a, b, G
<1>2. ASSUME NEW c \in Carpinchos, NEW v, NEW p, EsLugar(v, p)
      PROVE  Fichas(v, p, c) \in Nat /\ Fichas(v, p, c)' \in Nat
    BY <1>2, FichasNat, FichasNatDespues
\* Where x may have its token afterwards.
<1>3. ASSUME x \in Carpinchos, v1 # "nada", NEW v, NEW p, EsLugar(v, p),
             ~(v = v1 /\ p = p1)
      PROVE  Fichas(v, p, x)' = 0
    <2>1. CASE EsLugar(v0, p0) /\ Fichas(v0, p0, x) > 0
        <3>1. CASE v = v0 /\ p = p0
            <4>1. Fichas(v, p, x)' <= Fichas(v, p, x) - 1
                BY <1>1, <1>3, <3>1
            <4>2. Fichas(v, p, x) <= 1
                BY <1>3 DEF Unicas
            <4> QED BY <1>2, <1>3, <4>1, <4>2
        <3>2. CASE ~(v = v0 /\ p = p0)
            <4>1. ~(Fichas(v, p, x) > 0)
                BY <1>3, <2>1, <3>2 DEF Unicas
            <4>2. Fichas(v, p, x)' <= Fichas(v, p, x)
                BY <1>1, <1>3
            <4> QED BY <1>2, <1>3, <4>1, <4>2
        <3> QED BY <3>1, <3>2
    <2>2. CASE pc[x] = "alta"
        <3>1. Fichas(v, p, x) = 0
            BY <1>3, <2>2 DEF Sueltas
        <3>2. Fichas(v, p, x)' <= Fichas(v, p, x)
            BY <1>1, <1>3
        <3> QED BY <1>2, <1>3, <3>1, <3>2
    <2> QED BY <1>3, <2>1, <2>2
<1>4. ASSUME x \in Carpinchos, v1 # "nada", EsLugar(v1, p1)
      PROVE  Fichas(v1, p1, x)' <= 1
    <2> DEFINE a == Fichas(v1, p1, x)  b == Fichas(v1, p1, x)'
               n == Uno(x = x /\ v1 = v0 /\ p1 = p0)
    <2>1. b <= a + Uno(x = x /\ v1 = v1 /\ p1 = p1) - n
        BY <1>4 DEF Pasa
    <2>2. Uno(x = x /\ v1 = v1 /\ p1 = p1) = 1
        BY DEF Uno
    <2>3. a \in Nat /\ b \in Nat
        BY <1>2, <1>4
    <2>4. n \in Nat /\ (v1 = v0 /\ p1 = p0 => n = 1)
        BY DEF Uno
    <2>5. a <= 1
        BY <1>4 DEF Unicas
    <2>6. ~(v1 = v0 /\ p1 = p0) => a = 0
        <3>1. CASE EsLugar(v0, p0) /\ Fichas(v0, p0, x) > 0
            <4>1. ~(v1 = v0 /\ p1 = p0) => ~(Fichas(v1, p1, x) > 0)
                BY <1>4, <3>1 DEF Unicas
            <4> QED BY <2>3, <4>1
        <3>2. CASE pc[x] = "alta"
            BY <1>4, <3>2 DEF Sueltas
        <3> QED BY <1>4, <3>1, <3>2
    <2> HIDE DEF a, b, n
    <2>7. b <= a + 1 - n
        BY <2>1, <2>2
    <2>8. b <= 1
        BY <2>3, <2>4, <2>5, <2>6, <2>7
    <2> QED BY <2>8 DEF b
<1>5. ASSUME NEW c \in Carpinchos, c = x => v1 = "nada"
      PROVE  \A v, p : EsLugar(v, p) => Fichas(v, p, c)' <= Fichas(v, p, c)
    <2> SUFFICES ASSUME NEW v, NEW p, EsLugar(v, p)
                 PROVE  Fichas(v, p, c)' <= Fichas(v, p, c)
        OBVIOUS
    <2>1. v # "nada"
        BY DEF EsLugar
    <2> QED BY <1>1, <1>5, <2>1
<1>6. ASSUME NEW c \in Carpinchos, NEW v, NEW p, EsLugar(v, p)
      PROVE  /\ Fichas(v, p, c)' <= 1
             /\ Fichas(v, p, c)' > 0 => \A w, q : EsLugar(w, q) /\ Fichas(w, q, c)' > 0
                                                    => w = v /\ q = p
    <2>1. CASE c = x => v1 = "nada"
        <3>1. \A w, q : EsLugar(w, q) => /\ Fichas(w, q, c)' <= Fichas(w, q, c)
                                         /\ Fichas(w, q, c) \in Nat
                                         /\ Fichas(w, q, c)' \in Nat
            BY <1>2, <1>5, <2>1
        <3>2. Fichas(v, p, c) <= 1
            BY <1>6 DEF Unicas
        <3>3. Fichas(v, p, c)' <= 1
            BY <1>6, <3>1, <3>2
        <3>4. ASSUME Fichas(v, p, c)' > 0, NEW w, NEW q, EsLugar(w, q), Fichas(w, q, c)' > 0
              PROVE  w = v /\ q = p
            <4>1. Fichas(v, p, c) > 0 /\ Fichas(w, q, c) > 0
                BY <1>6, <3>1, <3>4
            <4> QED BY <1>6, <3>4, <4>1 DEF Unicas
        <3> QED BY <3>3, <3>4
    <2>2. CASE c = x /\ v1 # "nada"
        <3>1. \A w, q : EsLugar(w, q) /\ Fichas(w, q, c)' > 0 => w = v1 /\ q = p1
            BY <1>3, <2>2
        <3>2. Fichas(v, p, c)' <= 1
            BY <1>2, <1>3, <1>4, <1>6, <2>2
        <3> QED BY <1>6, <3>1, <3>2
    <2> QED BY <2>1, <2>2
<1>7. Unicas'
    BY <1>6 DEF Unicas, EsLugar
<1>8. ASSUME NEW c \in Carpinchos, pc'[c] = "alta", NEW v, NEW p, EsLugar(v, p)
      PROVE  Fichas(v, p, c)' = 0
    <2>1. pc[c] = "alta" /\ Fichas(v, p, c) = 0
        BY <1>8 DEF Sueltas
    <2>2. CASE c = x => v1 = "nada"
        BY <1>2, <1>5, <1>8, <2>1, <2>2
    <2>3. CASE c = x /\ v1 # "nada"
        BY <1>8, <2>1, <2>3 DEF Sueltas
    <2> QED BY <2>2, <2>3
<1>9. Sueltas'
    BY <1>8 DEF Sueltas, EsLugar
<1> QED BY <1>7, <1>9
-----------------------------------------------------------------------------
(* What the steps do to the tokens, kind by kind.                          *)

\* The queues of the scheduler.
PasaCola(x, v0, p0, v1, p1) ==
    \A c \in Carpinchos, q \in ConFicha :
        Apariciones(cola'[q], c) <= Apariciones(cola[q], c) + Uno(c = x /\ "cola" = v1 /\ q = p1)
                                                     - Uno(c = x /\ "cola" = v0 /\ q = p0)
PasaIO(x, v0, p0, v1, p1) ==
    \A c \in Carpinchos, d \in Dispositivos :
        Apariciones(colaIO'[d], c) <= Apariciones(colaIO[d], c) + Uno(c = x /\ "io" = v1 /\ d = p1)
                                                         - Uno(c = x /\ "io" = v0 /\ d = p0)
PasaSem(x, v0, p0, v1, p1) ==
    \A c \in Carpinchos, s \in Semaforos :
        Apariciones(colaSem'[s], c) <= Apariciones(colaSem[s], c) + Uno(c = x /\ "sem" = v1 /\ s = p1)
                                                           - Uno(c = x /\ "sem" = v0 /\ s = p0)
\* The thread that takes the step; the others carry what they carried.
PasaMano(t, x, v0, p0, v1, p1) ==
    /\ v1 = "mano" => p1 = t
    /\ v0 = "mano" => p0 = t /\ Lleva(t, x)
    /\ \A c \in Carpinchos : Lleva(t, c)' => \/ c = x /\ v1 = "mano"
                                             \/ Lleva(t, c) /\ ~(c = x /\ v0 = "mano")

\* Steps that leave the queues of the scheduler with tokens as they are.
LEMMA ColaQuieta ==
    ASSUME IInvSem, \A q \in ConFicha : cola'[q] = cola[q],
           NEW x, NEW v0, NEW p0, NEW v1, NEW p1, v0 # "cola", v1 # "cola"
    PROVE  PasaCola(x, v0, p0, v1, p1)
<1> SUFFICES ASSUME NEW c \in Carpinchos, NEW q \in ConFicha
             PROVE  Apariciones(cola'[q], c)
                      <= Apariciones(cola[q], c) + Uno(c = x /\ "cola" = v1 /\ q = p1)
                                                 - Uno(c = x /\ "cola" = v0 /\ q = p0)
    BY DEF PasaCola
<1>1. Apariciones(cola'[q], c) = Apariciones(cola[q], c)
    OBVIOUS
<1>2. Apariciones(cola[q], c) \in Nat
    BY FichasNat DEF Fichas, EsLugar
<1>3. /\ Uno(c = x /\ "cola" = v1 /\ q = p1) = 0
      /\ Uno(c = x /\ "cola" = v0 /\ q = p0) = 0
    BY DEF Uno
<1> QED BY <1>1, <1>2, <1>3

\* Steps that leave the queues of the devices as they are.
LEMMA IOQuieta ==
    ASSUME IInvSem, UNCHANGED colaIO,
           NEW x, NEW v0, NEW p0, NEW v1, NEW p1, v0 # "io", v1 # "io"
    PROVE  PasaIO(x, v0, p0, v1, p1)
<1> SUFFICES ASSUME NEW c \in Carpinchos, NEW d \in Dispositivos
             PROVE  Apariciones(colaIO[d], c)
                      <= Apariciones(colaIO[d], c) + Uno(c = x /\ "io" = v1 /\ d = p1)
                                                   - Uno(c = x /\ "io" = v0 /\ d = p0)
    BY DEF PasaIO
<1>1. Apariciones(colaIO[d], c) \in Nat
    BY FichasNat DEF Fichas, EsLugar
<1>2. /\ Uno(c = x /\ "io" = v1 /\ d = p1) = 0
      /\ Uno(c = x /\ "io" = v0 /\ d = p0) = 0
    BY DEF Uno
<1> QED BY <1>1, <1>2

\* Steps that leave the queues of the semaphores as they are.
LEMMA SemQuieta ==
    ASSUME IInvSem, UNCHANGED colaSem,
           NEW x, NEW v0, NEW p0, NEW v1, NEW p1, v0 # "sem", v1 # "sem"
    PROVE  PasaSem(x, v0, p0, v1, p1)
<1> SUFFICES ASSUME NEW c \in Carpinchos, NEW s \in Semaforos
             PROVE  Apariciones(colaSem[s], c)
                      <= Apariciones(colaSem[s], c) + Uno(c = x /\ "sem" = v1 /\ s = p1)
                                                    - Uno(c = x /\ "sem" = v0 /\ s = p0)
    BY DEF PasaSem
<1>1. Apariciones(colaSem[s], c) \in Nat
    BY FichasNat DEF Fichas, EsLugar
<1>2. /\ Uno(c = x /\ "sem" = v1 /\ s = p1) = 0
      /\ Uno(c = x /\ "sem" = v0 /\ s = p0) = 0
    BY DEF Uno
<1> QED BY <1>1, <1>2

\* The step of thread t, which is the only one to move.
DaPaso(t, e) ==
    /\ Ir(t, e)
    /\ \/ tomado' = tomado
       \/ \E m : Tomar(t, m)
    /\ \A h \in CPUs \ {t} : despierta'[h] = despierta[h]

\* A step of a thread leaves what the others have in hand.
LEMMA LosOtros ==
    ASSUME IInvSem, NEW t \in Hilos, NEW e, DaPaso(t, e)
    PROVE  /\ pc'[t] = e /\ \A h \in Hilos \ {t} : pc'[h] = pc[h] /\ tomado'[h] = tomado[h]
           /\ \A h \in Hilos \ {t} : \A c : Lleva(h, c)' = Lleva(h, c)
<1>1. pc'[t] = e /\ \A h \in Hilos \ {t} : pc'[h] = pc[h] /\ tomado'[h] = tomado[h]
    BY DEF DaPaso, Ir, Tomar, IInvSem, IInv, Tipos, TipoHilos
<1>2. ASSUME NEW h \in Hilos \ {t}, NEW c PROVE Lleva(h, c)' = Lleva(h, c)
    <2>1. pc'[h] = pc[h] /\ tomado'[h] = tomado[h] /\ (h \in CPUs => despierta'[h] = despierta[h])
        BY <1>1 DEF DaPaso
    <2> QED BY <2>1 DEF Lleva
<1> QED BY <1>1, <1>2

\* All together.
LEMMA TrasPaso ==
    ASSUME IInvSem, IInvSem', Unicas, Sueltas, NEW t \in Hilos, NEW e, DaPaso(t, e),
           e # "alta",
           NEW x, NEW v0, NEW p0, NEW v1, NEW p1,
           PasaCola(x, v0, p0, v1, p1), PasaIO(x, v0, p0, v1, p1),
           PasaSem(x, v0, p0, v1, p1), PasaMano(t, x, v0, p0, v1, p1),
           \/ v1 = "nada"
           \/ x \in Carpinchos /\ EsLugar(v0, p0) /\ Fichas(v0, p0, x) > 0
           \/ x \in Carpinchos /\ pc[x] = "alta" /\ pc'[x] # "alta"
    PROVE  Unicas' /\ Sueltas'
<1>1. \A c \in Carpinchos : pc'[c] = "alta" => pc[c] = "alta"
    BY LosOtros, LosHilos
<1>2. ASSUME NEW c \in Carpinchos, NEW v, NEW p, EsLugar(v, p)
      PROVE  Fichas(v, p, c)' <= Fichas(v, p, c) + Uno(c = x /\ v = v1 /\ p = p1)
                                                 - Uno(c = x /\ v = v0 /\ p = p0)
    <2>1. CASE v = "cola" /\ p \in ConFicha
        <3>1. Fichas(v, p, c)' = Apariciones(cola'[p], c) /\ Fichas(v, p, c) = Apariciones(cola[p], c)
            BY <2>1 DEF Fichas, Apariciones, Donde
        <3> QED BY <2>1, <3>1 DEF PasaCola
    <2>2. CASE v = "io" /\ p \in Dispositivos
        <3>1. Fichas(v, p, c)' = Apariciones(colaIO'[p], c)
              /\ Fichas(v, p, c) = Apariciones(colaIO[p], c)
            BY <2>2 DEF Fichas, Apariciones, Donde
        <3> QED BY <2>2, <3>1 DEF PasaIO
    <2>3. CASE v = "sem" /\ p \in Semaforos
        <3>1. Fichas(v, p, c)' = Apariciones(colaSem'[p], c)
              /\ Fichas(v, p, c) = Apariciones(colaSem[p], c)
            BY <2>3 DEF Fichas, Apariciones, Donde
        <3> QED BY <2>3, <3>1 DEF PasaSem
    <2>4. CASE v = "mano" /\ p \in Hilos
        <3>1. Fichas(v, p, c)' = Uno(Lleva(p, c)') /\ Fichas(v, p, c) = Uno(Lleva(p, c))
            BY <2>4 DEF Fichas, Uno
        <3>2. CASE p # t
            <4>1. Lleva(p, c)' = Lleva(p, c)
                BY <2>4, <3>2, LosOtros
            <4>2. ~(v = v1 /\ p = p1) /\ ~(v = v0 /\ p = p0)
                BY <2>4, <3>2 DEF PasaMano
            <4> QED BY <3>1, <4>1, <4>2 DEF Uno
        <3>3. CASE p = t
            <4>1. /\ Lleva(p, c)' => (c = x /\ v1 = v) \/ (Lleva(p, c) /\ ~(c = x /\ v0 = v))
                  /\ (v1 = v => p1 = p) /\ (v0 = v => p0 = p)
                  /\ (c = x /\ v0 = v => Lleva(p, c))
                BY <2>4, <3>3 DEF PasaMano
            <4> DEFINE A == Lleva(p, c)'  B == Lleva(p, c)
                       C == c = x /\ v = v1 /\ p = p1  D == c = x /\ v = v0 /\ p = p0
            <4>2. (A => C \/ (B /\ ~D)) /\ (D => B)
                BY <4>1
            <4>3. Uno(A) <= Uno(B) + Uno(C) - Uno(D)
                <5> HIDE DEF A, B, C, D
                <5> QED BY <4>2 DEF Uno
            <4> QED BY <3>1, <4>3
        <3> QED BY <3>2, <3>3
    <2> QED BY <1>2, <2>1, <2>2, <2>3, <2>4 DEF EsLugar
<1>3. Pasa(x, v0, p0, v1, p1)
    BY <1>2 DEF Pasa
<1> QED BY <1>1, <1>3, TrasPasa
-----------------------------------------------------------------------------
(* The steps, by what they do to the tokens.                               *)

EnOrden == Unicas /\ Sueltas /\ Servidos

\* Nothing that matters changes.
LEMMA OrdenIgual ==
    ASSUME EnOrden, UNCHANGED <<cola, colaIO, colaSem, pc, tomado, despierta>>
    PROVE  EnOrden'
<1>1. \A v, p, c : Fichas(v, p, c)' = Fichas(v, p, c)
    BY DEF Fichas, Apariciones, Donde, Uno, Lleva
<1>2. Unicas' /\ Sueltas'
    BY <1>1 DEF EnOrden, Unicas, Sueltas, EsLugar
<1>3. Servidos'
    BY DEF EnOrden, Servidos, Servido, Apariciones, Donde
<1> QED BY <1>2, <1>3 DEF EnOrden

\* The step of a thread that is not the CPU takes nothing out of READY and EXEC.
LEMMA ServidosAjenos ==
    ASSUME IInvSem, Servidos, NEW t \in Hilos \ CPUs, NEW e, DaPaso(t, e),
           cola'["exec"] = cola["exec"],
           \/ cola'["ready"] = cola["ready"]
           \/ \E m \in Carpinchos : cola'["ready"] = Append(cola["ready"], m)
    PROVE  Servidos'
<1> SUFFICES ASSUME NEW k \in CPUs PROVE Servido(k)'
    BY DEF Servidos
<1>1. pc'[k] = pc[k] /\ tomado'[k] = tomado[k]
    BY LosOtros, LosHilos
<1>2. Servido(k)
    BY DEF Servidos
<1>3. pc[k] = "despachar" => Apariciones(cola'["ready"], tomado[k]) > 0
    <2> SUFFICES ASSUME pc[k] = "despachar" PROVE Apariciones(cola'["ready"], tomado[k]) > 0
        OBVIOUS
    <2>1. Apariciones(cola["ready"], tomado[k]) > 0
        BY <1>2 DEF Servido
    <2>2. cola["ready"] \in Seq(Carpinchos) /\ Apariciones(cola["ready"], tomado[k]) \in Nat
        BY AparicionesNat DEF IInvSem, IInv, Tipos, TipoCola, Colas
    <2>3. CASE cola'["ready"] = cola["ready"]
        BY <2>1, <2>3
    <2>4. ASSUME NEW m \in Carpinchos, cola'["ready"] = Append(cola["ready"], m)
          PROVE  Apariciones(cola'["ready"], tomado[k]) > 0
        <3>1. Apariciones(Append(cola["ready"], m), tomado[k])
                = Apariciones(cola["ready"], tomado[k]) + Uno(m = tomado[k])
            BY <2>2, AparicionesAppend
        <3>2. Uno(m = tomado[k]) \in Nat
            BY DEF Uno
        <3> QED BY <2>1, <2>2, <2>4, <3>1, <3>2
    <2> QED BY <2>3, <2>4
<1>4. pc[k] \in Atendiendo => Apariciones(cola'["exec"], tomado[k]) > 0
    BY <1>2 DEF Servido
<1> QED BY <1>1, <1>3, <1>4 DEF Servido, Apariciones, Donde

\* The CPU's own step.
LEMMA ServidosPropios ==
    ASSUME UnaCPU, IInvSem, NEW k \in CPUs, NEW e, DaPaso(k, e),
           e = "despachar" => Apariciones(cola'["ready"], tomado'[k]) > 0,
           e \in Atendiendo => Apariciones(cola'["exec"], tomado'[k]) > 0
    PROVE  Servidos'
<1>1. CPUs = {k}
    BY DEF UnaCPU
<1>2. pc'[k] = e
    BY LosOtros, LosHilos
<1>3. Servido(k)'
    BY <1>2 DEF Servido, Apariciones, Donde
<1> QED BY <1>1, <1>3 DEF Servidos

\* What a thread carries after its step.
NoCargaMas(t, e) ==
    \/ e \notin AlPoner \cup AlDespertar
    \/ pc[t] \in AlPoner /\ e \in AlPoner /\ tomado'[t] = tomado[t]
    \/ pc[t] \in AlDespertar /\ e \in AlDespertar /\ despierta'[t] = despierta[t]

\* The labels at which a thread has to put a PCB in a queue are none of those
\* at which a CPU serves one, and a carpincho that has not come is at neither.
LEMMA LasCargas ==
    /\ AlPoner \cap AlDespertar = {}
    /\ Atendiendo \cap AlPoner = {}
    /\ "alta" \notin AlPoner \cup AlDespertar \cup Atendiendo
BY DEF AlPoner, AlDespertar, Encargados, Atendiendo, EtiquetasSem

\* A thread whose step takes no PCB in hand had the one it has.
LEMMA ManoQuieta ==
    ASSUME IInvSem, NEW t \in Hilos, NEW e, DaPaso(t, e), NoCargaMas(t, e), NEW c,
           Lleva(t, c)'
    PROVE  Lleva(t, c)
<1>1. pc'[t] = e
    BY LosOtros
<1>2. e \in AlPoner => e \notin AlDespertar
    BY LasCargas
<1> QED BY <1>1, <1>2 DEF Lleva, NoCargaMas

\* No token moves.
LEMMA OrdenQuieto ==
    ASSUME UnaCPU, IInvSem, IInvSem', EnOrden, NEW t \in Hilos, NEW e, DaPaso(t, e),
           e # "alta", NoCargaMas(t, e),
           \A q \in ConFicha : cola'[q] = cola[q], UNCHANGED <<colaIO, colaSem>>,
           t \in CPUs => e # "despachar" /\ (e \in Atendiendo => pc[t] \in Atendiendo
                                                              /\ tomado'[t] = tomado[t])
    PROVE  EnOrden'
<1>1. PasaMano(t, Nadie, "nada", Nadie, "nada", Nadie)
    BY ManoQuieta DEF PasaMano
<1>2. /\ PasaCola(Nadie, "nada", Nadie, "nada", Nadie)
      /\ PasaIO(Nadie, "nada", Nadie, "nada", Nadie)
      /\ PasaSem(Nadie, "nada", Nadie, "nada", Nadie)
    BY ColaQuieta, IOQuieta, SemQuieta
<1>3. Unicas' /\ Sueltas'
    BY <1>1, <1>2, TrasPaso DEF EnOrden
<1>4. cola'["ready"] = cola["ready"] /\ cola'["exec"] = cola["exec"]
    BY DEF ConFicha
<1>5. CASE t \in CPUs
    <2>1. Servido(t)
        BY <1>5 DEF EnOrden, Servidos
    <2>2. e \in Atendiendo => Apariciones(cola'["exec"], tomado'[t]) > 0
        BY <1>4, <1>5, <2>1 DEF Servido
    <2>3. Servidos'
        BY <1>5, <2>2, ServidosPropios
    <2> QED BY <1>3, <2>3 DEF EnOrden
<1>6. CASE t \notin CPUs
    <2>1. Servidos'
        BY <1>4, <1>6, ServidosAjenos DEF EnOrden
    <2> QED BY <1>3, <2>1 DEF EnOrden
<1> QED BY <1>5, <1>6

\* Thread t, not the CPU, takes the first PCB out of a queue ...
LEMMA OrdenSacar ==
    ASSUME UnaCPU, IInvSem, IInvSem', EnOrden, NEW t \in Hilos \ CPUs, NEW e, Ir(t, e),
           NEW q \in ConFicha \ {"ready", "exec"}, cola[q] # <<>>, cola' = SinPrimero(q),
           Tomar(t, Head(cola[q])), UNCHANGED <<colaIO, colaSem, despierta>>, e # "alta"
    PROVE  EnOrden'
<1> DEFINE x == Head(cola[q])
<1>1. cola \in TipoCola /\ q \in Colas
    BY DEF IInvSem, IInv, Tipos, ConFicha, Colas
<1>2. /\ cola[q] \in Seq(Carpinchos) /\ x \in Carpinchos
      /\ \A r \in Colas \ {q} : cola'[r] = cola[r]
      /\ cola'[q] = Tail(cola[q])
    BY <1>1, TrasSinPrimero DEF TipoCola, SinPrimero
<1>3. Apariciones(cola[q], x) > 0
    <2>1. Veces(Head(cola[q]), q) > 0
        BY <1>1, <1>2, VecesSinPrimero
    <2> QED BY <2>1 DEF Veces, Apariciones, Donde
<1>4. DaPaso(t, e)
    BY DEF DaPaso
<1> HIDE DEF x
<1>5. PasaCola(x, "cola", q, "mano", t)
    <2> SUFFICES ASSUME NEW c \in Carpinchos, NEW r \in ConFicha
                 PROVE  Apariciones(cola'[r], c)
                          <= Apariciones(cola[r], c) + Uno(c = x /\ "cola" = "mano" /\ r = t)
                                                     - Uno(c = x /\ "cola" = "cola" /\ r = q)
        BY DEF PasaCola
    <2>1. Apariciones(cola[r], c) \in Nat
        BY FichasNat DEF Fichas, EsLugar
    <2>2. Uno(c = x /\ "cola" = "mano" /\ r = t) = 0
        BY DEF Uno
    <2>3. Apariciones(cola'[r], c) = Apariciones(cola[r], c) - Uno(c = x /\ r = q)
        <3>1. CASE r = q
            <4>1. Apariciones(Tail(cola[q]), c) = Apariciones(cola[q], c) - Uno(x = c)
                BY <1>2, AparicionesTail DEF x
            <4> QED BY <1>2, <3>1, <4>1 DEF Uno
        <3>2. CASE r # q
            <4>1. cola'[r] = cola[r]
                BY <1>2, <3>2 DEF ConFicha, Colas
            <4> QED BY <2>1, <3>2, <4>1 DEF Uno
        <3> QED BY <3>1, <3>2
    <2>4. Uno(c = x /\ "cola" = "cola" /\ r = q) = Uno(c = x /\ r = q) /\ Uno(c = x /\ r = q) \in Nat
        BY DEF Uno
    <2> QED BY <2>1, <2>2, <2>3, <2>4
<1>6. PasaIO(x, "cola", q, "mano", t) /\ PasaSem(x, "cola", q, "mano", t)
    BY IOQuieta, SemQuieta
<1>7. PasaMano(t, x, "cola", q, "mano", t)
    <2>1. tomado'[t] = x
        BY DEF Tomar, IInvSem, IInv, Tipos, TipoHilos, x
    <2>2. \A c : Lleva(t, c)' => c = x
        BY <2>1 DEF Lleva
    <2> QED BY <2>2 DEF PasaMano
<1>8. EsLugar("cola", q) /\ Fichas("cola", q, x) > 0
    BY <1>3 DEF EsLugar, Fichas, x
<1>9. Unicas' /\ Sueltas'
    BY <1>2, <1>4, <1>5, <1>6, <1>7, <1>8, TrasPaso DEF EnOrden, x
<1>10. cola'["exec"] = cola["exec"] /\ cola'["ready"] = cola["ready"]
    BY <1>2 DEF Colas
<1>11. Servidos'
    BY <1>4, <1>10, ServidosAjenos DEF EnOrden
<1> QED BY <1>9, <1>11 DEF EnOrden

\* The queues with tokens after one PCB more.
LEMMA ColaMas ==
    ASSUME IInvSem, NEW x \in Carpinchos, NEW q \in ConFicha,
           cola'[q] = Append(cola[q], x), \A r \in ConFicha \ {q} : cola'[r] = cola[r],
           NEW v0, NEW p0, v0 # "cola"
    PROVE  PasaCola(x, v0, p0, "cola", q)
<1> SUFFICES ASSUME NEW c \in Carpinchos, NEW r \in ConFicha
             PROVE  Apariciones(cola'[r], c)
                      <= Apariciones(cola[r], c) + Uno(c = x /\ "cola" = "cola" /\ r = q)
                                                 - Uno(c = x /\ "cola" = v0 /\ r = p0)
    BY DEF PasaCola
<1>1. Apariciones(cola[r], c) \in Nat
    BY FichasNat DEF Fichas, EsLugar
<1>2. Uno(c = x /\ "cola" = v0 /\ r = p0) = 0
    BY DEF Uno
<1>3. Apariciones(cola'[r], c) = Apariciones(cola[r], c) + Uno(c = x /\ r = q)
    <2>1. CASE r = q
        <3>1. cola[q] \in Seq(Carpinchos)
            BY DEF IInvSem, IInv, Tipos, TipoCola, ConFicha, Colas
        <3>2. Apariciones(Append(cola[q], x), c) = Apariciones(cola[q], c) + Uno(x = c)
            BY <3>1, AparicionesAppend
        <3> QED BY <2>1, <3>2 DEF Uno
    <2>2. CASE r # q
        BY <1>1, <2>2 DEF Uno
    <2> QED BY <2>1, <2>2
<1>4. Uno(c = x /\ "cola" = "cola" /\ r = q) = Uno(c = x /\ r = q) /\ Uno(c = x /\ r = q) \in Nat
    BY DEF Uno
<1> QED BY <1>1, <1>2, <1>3, <1>4

\* ... and puts the PCB it carries in another.
LEMMA FichaAPoner ==
    ASSUME IInvSem, IInvSem', EnOrden, NEW t \in Hilos, NEW e, DaPaso(t, e), e # "alta",
           e \notin AlPoner \cup AlDespertar,
           NEW x \in Carpinchos, Lleva(t, x), NEW q \in ConFicha,
           cola'[q] = Append(cola[q], x), \A r \in ConFicha \ {q} : cola'[r] = cola[r],
           UNCHANGED <<colaIO, colaSem>>
    PROVE  Unicas' /\ Sueltas'
<1>1. PasaCola(x, "mano", t, "cola", q)
    BY ColaMas
<1>2. PasaIO(x, "mano", t, "cola", q) /\ PasaSem(x, "mano", t, "cola", q)
    BY IOQuieta, SemQuieta
<1>3. PasaMano(t, x, "mano", t, "cola", q)
    <2>1. \A c : ~Lleva(t, c)'
        BY LosOtros DEF Lleva
    <2> QED BY <2>1 DEF PasaMano
<1>4. EsLugar("mano", t) /\ Fichas("mano", t, x) > 0
    BY DEF EsLugar, Fichas, Uno
<1> QED BY <1>1, <1>2, <1>3, <1>4, TrasPaso DEF EnOrden
-----------------------------------------------------------------------------
(* The steps of the scheduler.                                             *)

\* The scheduler touches no queue of a semaphore and wakes nobody.
LEMMA OrdenSegunSpec ==
    ASSUME UNCHANGED varsSem
    PROVE  UNCHANGED <<colaSem, despierta>>
BY DEF varsSem, cuentas, enCurso

\* The end of the kernel.
LEMMA OrdenCaer ==
    ASSUME EnOrden, NEW q, Caer(q), UNCHANGED varsSem
    PROVE  EnOrden'
BY OrdenIgual, OrdenSegunSpec DEF Caer, io

\* The handler of a connection puts a new PCB in NEW.
LEMMA OrdenAlta ==
    ASSUME UnaCPU, IInvSem, IInvSem', EnOrden, UNCHANGED varsSem, NEW c \in Carpinchos, Alta(c)
    PROVE  EnOrden'
<1>1. c \in Hilos /\ c \notin CPUs
    BY LosHilos, ConstantesOK DEF ConstantesOK
<1>2. CASE AltaEnNew(c)
    <2>1. /\ En(c, "alta") /\ Ir(c, "registrarAlta") /\ cola' = Encolar("new", c)
          /\ Tomar(c, c) /\ UNCHANGED <<colaIO, colaSem, despierta>>
        BY <1>2, OrdenSegunSpec DEF AltaEnNew, io
    <2>2. /\ cola'["new"] = Append(cola["new"], c)
          /\ \A r \in ConFicha \ {"new"} : cola'[r] = cola[r]
          /\ "new" \in ConFicha
        BY <2>1 DEF Encolar, IInvSem, IInv, Tipos, TipoCola, ConFicha, Colas
    <2>3. DaPaso(c, "registrarAlta")
        BY <2>1 DEF DaPaso
    <2>4. PasaCola(c, "nada", Nadie, "cola", "new")
        BY <2>2, ColaMas
    <2>5. /\ PasaIO(c, "nada", Nadie, "cola", "new")
          /\ PasaSem(c, "nada", Nadie, "cola", "new")
        BY <2>1, IOQuieta, SemQuieta
    <2>6. PasaMano(c, c, "nada", Nadie, "cola", "new")
        <3>1. NoCargaMas(c, "registrarAlta")
            BY DEF NoCargaMas, AlPoner, AlDespertar, Encargados
        <3> QED BY <1>1, <2>3, <3>1, ManoQuieta DEF PasaMano
    <2>7. pc[c] = "alta" /\ pc'[c] # "alta"
        BY <1>1, <2>1, <2>3, LosOtros DEF En
    <2>8. Unicas' /\ Sueltas'
        BY <1>1, <2>3, <2>4, <2>5, <2>6, <2>7, TrasPaso DEF EnOrden
    <2>9. cola'["exec"] = cola["exec"] /\ cola'["ready"] = cola["ready"]
        BY <2>2 DEF ConFicha
    <2>10. Servidos'
        BY <1>1, <2>3, <2>9, ServidosAjenos DEF EnOrden
    <2> QED BY <2>8, <2>10 DEF EnOrden
<1>3. CASE ConcluirAlta(c)
    <2>1. Ir(c, "fin") /\ UNCHANGED <<cola, tomado, colaIO, colaSem, despierta>>
        BY <1>3, OrdenSegunSpec DEF ConcluirAlta, io
    <2>2. DaPaso(c, "fin") /\ NoCargaMas(c, "fin")
        BY <2>1 DEF DaPaso, NoCargaMas, AlPoner, AlDespertar, Encargados
    <2> QED BY <1>1, <2>1, <2>2, OrdenQuieto
<1>4. CASE RegistrarAlta(c)
    <2>1. Ir(c, "espAlta") /\ Tomar(c, Nadie) /\ UNCHANGED <<cola, colaIO, colaSem, despierta>>
        BY <1>4, OrdenSegunSpec DEF RegistrarAlta, Soltar, io
    <2>2. DaPaso(c, "espAlta") /\ NoCargaMas(c, "espAlta")
        BY <2>1 DEF DaPaso, NoCargaMas, AlPoner, AlDespertar, Encargados
    <2> QED BY <1>1, <2>1, <2>2, OrdenQuieto
<1> QED BY <1>2, <1>3, <1>4 DEF Alta

\* The planners are neither CPUs nor carpinchos.
LEMMA LosPlanificadores ==
    \A t \in Planificadores : t \in Hilos /\ t \notin CPUs /\ t \notin Carpinchos
BY ConstantesOK DEF ConstantesOK, Hilos

\* The end of an admission, and of SUSP/READY or BLOCKED to READY.
LEMMA OrdenPasarAReady ==
    ASSUME UnaCPU, IInvSem, IInvSem', EnOrden, UNCHANGED varsSem,
           NEW t \in Hilos \ CPUs, NEW v \in Registrando, PasarAReady(t, v)
    PROVE  EnOrden'
<1> DEFINE x == tomado[t]
<1>1. /\ En(t, "aReady") /\ Ir(t, v) /\ cola' = Encolar("ready", x)
      /\ UNCHANGED <<tomado, colaIO, colaSem, despierta>>
    BY OrdenSegunSpec DEF PasarAReady, EnCon, En, io
<1>2. x \in Carpinchos
    BY <1>1 DEF En, IInvSem, IInv, Tipos, TipoHilos, Manos, ConPCB
<1>3. /\ cola'["ready"] = Append(cola["ready"], x)
      /\ \A r \in ConFicha \ {"ready"} : cola'[r] = cola[r]
      /\ "ready" \in ConFicha
    BY <1>1 DEF Encolar, IInvSem, IInv, Tipos, TipoCola, ConFicha, Colas
<1>4. DaPaso(t, v)
    BY <1>1 DEF DaPaso
<1>5. Lleva(t, x)
    BY <1>1 DEF Lleva, En, AlPoner
<1>6. v # "alta" /\ v \notin AlPoner \cup AlDespertar
    BY DEF AlPoner, AlDespertar, Encargados, Registrando
<1> HIDE DEF x
<1>7. Unicas' /\ Sueltas'
    BY <1>1, <1>2, <1>3, <1>4, <1>5, <1>6, FichaAPoner
<1>8. Servidos'
    <2>1. cola'["exec"] = cola["exec"]
        BY <1>3 DEF ConFicha
    <2> QED BY <1>2, <1>3, <1>4, <2>1, ServidosAjenos DEF EnOrden
<1> QED BY <1>7, <1>8 DEF EnOrden

\* A step of a thread that is not a CPU which moves no token.
LEMMA OrdenAjeno ==
    ASSUME UnaCPU, IInvSem, IInvSem', EnOrden, UNCHANGED varsSem,
           NEW t \in Hilos \ CPUs, NEW e, Ir(t, e),
           \/ tomado' = tomado
           \/ \E m : Tomar(t, m),
           e # "alta", NoCargaMas(t, e),
           \A q \in ConFicha : cola'[q] = cola[q], UNCHANGED colaIO
    PROVE  EnOrden'
BY OrdenQuieto, OrdenSegunSpec DEF DaPaso

\* In particular, its log of a PCB that is READY.
LEMMA OrdenRegistrarReady ==
    ASSUME UnaCPU, IInvSem, IInvSem', EnOrden, UNCHANGED varsSem,
           NEW t \in Hilos \ CPUs, NEW v \in {"hay", "transicionar"}, RegistrarReady(t, v)
    PROVE  EnOrden'
<1>1. Ir(t, v) /\ Tomar(t, Nadie) /\ UNCHANGED <<cola, colaIO>>
    BY DEF RegistrarReady, Soltar, io
<1>2. v # "alta" /\ NoCargaMas(t, v)
    BY DEF NoCargaMas, AlPoner, AlDespertar, Encargados
<1> QED BY <1>1, <1>2, OrdenAjeno

\* The long-term scheduler: from SUSP/READY or NEW to its hand, and to READY.
LEMMA OrdenLargo ==
    ASSUME UnaCPU, IInvSem, IInvSem', EnOrden, UNCHANGED varsSem, Largo
    PROVE  EnOrden'
<1>1. "largo" \in Hilos \ CPUs
    BY LosPlanificadores DEF Planificadores
<1>2. CASE TomarCandidato \/ TomarGrado \/ DelegarEnSusReady \/ ElegirNew
    <2>1. /\ UNCHANGED <<cola, tomado, colaIO>>
          /\ \E e \in {"grado", "mirar", "hay", "sacar"} : Ir("largo", e)
        BY <1>2 DEF TomarCandidato, TomarGrado, DelegarEnSusReady, ElegirNew, io
    <2>2. \A e \in {"grado", "mirar", "hay", "sacar"} : e # "alta" /\ NoCargaMas("largo", e)
        BY DEF NoCargaMas, AlPoner, AlDespertar, Encargados
    <2> QED BY <1>1, <2>1, <2>2, OrdenAjeno
<1>3. CASE SacarDeNew
    <2>1. CASE cola["new"] = <<>>
        BY <1>3, <2>1, OrdenCaer DEF SacarDeNew
    <2>2. CASE cola["new"] # <<>>
        <3>1. /\ Tomar("largo", Head(cola["new"])) /\ cola' = SinPrimero("new")
              /\ Ir("largo", "aReady") /\ UNCHANGED <<colaIO, colaSem, despierta>>
            BY <1>3, <2>2, OrdenSegunSpec DEF SacarDeNew, io
        <3>2. "new" \in ConFicha \ {"ready", "exec"}
            BY DEF ConFicha
        <3> QED BY <1>1, <2>2, <3>1, <3>2, OrdenSacar
    <2> QED BY <2>1, <2>2
<1>4. CASE NewAReady
    BY <1>1, <1>4, OrdenPasarAReady DEF NewAReady, Registrando
<1>5. CASE RegistrarAdmision
    BY <1>1, <1>5, OrdenRegistrarReady DEF RegistrarAdmision
<1> QED BY <1>2, <1>3, <1>4, <1>5 DEF Largo

\* The thread that frees the PCBs of EXIT, and the one of SUSP/READY to READY.
LEMMA OrdenSalidas ==
    ASSUME UnaCPU, IInvSem, IInvSem', EnOrden, UNCHANGED varsSem, Liberador \/ SusReady
    PROVE  EnOrden'
<1>1. "liberador" \in Hilos \ CPUs /\ "susready" \in Hilos \ CPUs
    BY LosPlanificadores DEF Planificadores
<1>2. CASE TomarExit
    <2>1. CASE cola["exit"] = <<>>
        BY <1>2, <2>1, OrdenCaer DEF TomarExit
    <2>2. CASE cola["exit"] # <<>>
        <3>1. /\ Tomar("liberador", Head(cola["exit"])) /\ cola' = SinPrimero("exit")
              /\ Ir("liberador", "liberar") /\ UNCHANGED <<colaIO, colaSem, despierta>>
            BY <1>2, <2>2, OrdenSegunSpec DEF TomarExit, io
        <3>2. "exit" \in ConFicha \ {"ready", "exec"}
            BY DEF ConFicha
        <3> QED BY <1>1, <2>2, <3>1, <3>2, OrdenSacar
    <2> QED BY <2>1, <2>2
<1>3. CASE TomarSusReady
    <2>1. CASE cola["susready"] = <<>>
        BY <1>3, <2>1, OrdenCaer DEF TomarSusReady
    <2>2. CASE cola["susready"] # <<>>
        <3>1. /\ Tomar("susready", Head(cola["susready"])) /\ cola' = SinPrimero("susready")
              /\ Ir("susready", "aReady") /\ UNCHANGED <<colaIO, colaSem, despierta>>
            BY <1>3, <2>2, OrdenSegunSpec DEF TomarSusReady, io
        <3>2. "susready" \in ConFicha \ {"ready", "exec"}
            BY DEF ConFicha
        <3> QED BY <1>1, <2>2, <3>1, <3>2, OrdenSacar
    <2> QED BY <2>1, <2>2
<1>4. CASE Liberar
    <2>1. /\ Ir("liberador", "exit") /\ Tomar("liberador", Nadie) /\ UNCHANGED <<cola, colaIO>>
        BY <1>4 DEF Liberar, Soltar, io
    <2>2. NoCargaMas("liberador", "exit")
        BY DEF NoCargaMas, AlPoner, AlDespertar, Encargados
    <2> QED BY <1>1, <2>1, <2>2, OrdenAjeno
<1>5. CASE SusReadyAReady
    BY <1>1, <1>5, OrdenPasarAReady DEF SusReadyAReady, Registrando
<1>6. CASE RegistrarTransicion
    BY <1>1, <1>6, OrdenRegistrarReady DEF RegistrarTransicion
<1> QED BY <1>2, <1>3, <1>4, <1>5, <1>6 DEF Liberador, SusReady

\* The medium-term scheduler moves PCBs between lists without tokens.
LEMMA OrdenMediano ==
    ASSUME UnaCPU, IInvSem, IInvSem', EnOrden, UNCHANGED varsSem, Mediano
    PROVE  EnOrden'
<1>1. "mediano" \in Hilos \ CPUs
    BY LosPlanificadores DEF Planificadores
<1>2. ASSUME NEW e \in Evaluando \cup {"despertar"}, Ir("mediano", e), UNCHANGED colaIO,
             tomado' = tomado \/ \E m : Tomar("mediano", m),
             \A q \in ConFicha : cola'[q] = cola[q]
      PROVE  EnOrden'
    <2>1. e # "alta" /\ NoCargaMas("mediano", e)
        BY DEF NoCargaMas, AlPoner, AlDespertar, Encargados, Evaluando
    <2> QED BY <1>1, <1>2, <2>1, OrdenAjeno
<1>3. CASE Despertar
    <2>1. CASE cola["ready"] = <<>>
        BY <1>2, <1>3, <2>1 DEF Despertar, io, Evaluando
    <2>2. CASE cola["ready"] # <<>>
        BY <1>3, <2>2, OrdenIgual, OrdenSegunSpec DEF Despertar, io
    <2> QED BY <2>1, <2>2
<1>4. ASSUME NEW a, NEW c, NEW e \in {"verBlocked", "verGrado", "suspender"}, Evaluar(a, c, e)
      PROVE  EnOrden'
    <2>1. /\ UNCHANGED <<cola, tomado, colaIO>>
          /\ Ir("mediano", e) \/ Ir("mediano", "despertar")
        BY <1>4 DEF Evaluar, DejarDeEvaluar, io
    <2> QED BY <1>2, <2>1 DEF Evaluando
<1>5. CASE VerNew \/ VerBlocked \/ VerGrado
    BY <1>4, <1>5 DEF VerNew, VerBlocked, VerGrado
<1>6. CASE Suspender
    <2>1. ASSUME NEW q, Caer(q) PROVE EnOrden'
        BY <2>1, OrdenCaer
    <2>2. CASE /\ Ir("mediano", "registrarSuspension") /\ UNCHANGED io
               /\ Tomar("mediano", Last(cola["blocked"]))
               /\ cola' = [cola EXCEPT !["blocked"] = Front(@),
                                       !["susblocked"] = Append(@, Last(cola["blocked"]))]
        <3>1. \A q \in ConFicha : cola'[q] = cola[q]
            BY <2>2 DEF ConFicha, IInvSem, IInv, Tipos, TipoCola, Colas
        <3> QED BY <1>2, <2>2, <3>1 DEF io, Evaluando
    <2> QED BY <1>6, <2>1, <2>2 DEF Suspender
<1>7. CASE RegistrarSuspension
    BY <1>2, <1>7 DEF RegistrarSuspension, Soltar, io
<1> QED BY <1>3, <1>5, <1>6, <1>7 DEF Mediano

\* A PCB leaves a queue with tokens where it is.
LEMMA ColaMenos ==
    ASSUME IInvSem, NEW x \in Carpinchos, NEW q \in ConFicha,
           Apariciones(cola[q], x) > 0,
           cola'[q] = RemoveFirst(cola[q], x), \A r \in ConFicha \ {q} : cola'[r] = cola[r],
           NEW v1, NEW p1, v1 # "cola"
    PROVE  PasaCola(x, "cola", q, v1, p1)
<1> SUFFICES ASSUME NEW c \in Carpinchos, NEW r \in ConFicha
             PROVE  Apariciones(cola'[r], c)
                      <= Apariciones(cola[r], c) + Uno(c = x /\ "cola" = v1 /\ r = p1)
                                                 - Uno(c = x /\ "cola" = "cola" /\ r = q)
    BY DEF PasaCola
<1>1. Apariciones(cola[r], c) \in Nat
    BY FichasNat DEF Fichas, EsLugar
<1>2. Uno(c = x /\ "cola" = v1 /\ r = p1) = 0
    BY DEF Uno
<1>3. Apariciones(cola'[r], c) = Apariciones(cola[r], c) - Uno(c = x /\ r = q)
    <2>1. CASE r = q
        <3>1. cola[q] \in Seq(Carpinchos)
            BY DEF IInvSem, IInv, Tipos, TipoCola, ConFicha, Colas
        <3>2. Contains(cola[q], x)
            BY <3>1, AparicionesNat DEF Contains
        <3>3. Apariciones(RemoveFirst(cola[q], x), c)
                = Apariciones(cola[q], c) - Uno(x = c /\ Contains(cola[q], x))
            BY <3>1, AparicionesQuitar
        <3> QED BY <2>1, <3>2, <3>3 DEF Uno
    <2>2. CASE r # q
        BY <1>1, <2>2 DEF Uno
    <2> QED BY <2>1, <2>2
<1>4. Uno(c = x /\ "cola" = "cola" /\ r = q) = Uno(c = x /\ r = q) /\ Uno(c = x /\ r = q) \in Nat
    BY DEF Uno
<1> QED BY <1>1, <1>2, <1>3, <1>4

\* It goes from one of them to another.
LEMMA ColaDeUnaAOtra ==
    ASSUME IInvSem, NEW x \in Carpinchos, NEW p \in ConFicha, NEW q \in ConFicha, p # q,
           Apariciones(cola[p], x) > 0, cola' = Mover(x, p, q)
    PROVE  /\ PasaCola(x, "cola", p, "cola", q)
           /\ Apariciones(cola'[q], x) > 0
<1>0. /\ cola \in TipoCola /\ p \in Colas /\ q \in Colas
    BY DEF IInvSem, IInv, Tipos, ConFicha, Colas
<1>1. Contains(cola[p], x)
    BY <1>0, AparicionesNat DEF Contains, TipoCola
<1>2. \A c \in Carpinchos, r \in Colas :
          Veces(c, r)' = Veces(c, r) + Uno(c = x /\ r = q) - Uno(c = x /\ r = p)
    BY <1>0, <1>1, VecesMover
<1>3. \A c \in Carpinchos, r \in ConFicha :
          Apariciones(cola'[r], c)
            = Apariciones(cola[r], c) + Uno(c = x /\ r = q) - Uno(c = x /\ r = p)
    <2> SUFFICES ASSUME NEW c \in Carpinchos, NEW r \in ConFicha
                 PROVE  Apariciones(cola'[r], c)
                          = Apariciones(cola[r], c) + Uno(c = x /\ r = q) - Uno(c = x /\ r = p)
        OBVIOUS
    <2>1. Veces(c, r) = Apariciones(cola[r], c) /\ Veces(c, r)' = Apariciones(cola'[r], c)
        BY DEF Veces, Apariciones, Donde
    <2>2. r \in Colas
        BY DEF ConFicha, Colas
    <2> QED BY <1>2, <2>1, <2>2
<1>4. \A c, r : /\ Uno(c = x /\ "cola" = "cola" /\ r = q) = Uno(c = x /\ r = q)
                /\ Uno(c = x /\ "cola" = "cola" /\ r = p) = Uno(c = x /\ r = p)
    BY DEF Uno
<1>5. \A c \in Carpinchos, r \in ConFicha : Apariciones(cola[r], c) \in Nat
    BY FichasNat DEF Fichas, EsLugar
<1>6. \A c, r : Uno(c = x /\ r = q) \in Nat /\ Uno(c = x /\ r = p) \in Nat
    BY DEF Uno
<1>7. PasaCola(x, "cola", p, "cola", q)
    <2> SUFFICES ASSUME NEW c \in Carpinchos, NEW r \in ConFicha
                 PROVE  Apariciones(cola'[r], c)
                      <= Apariciones(cola[r], c) + Uno(c = x /\ "cola" = "cola" /\ r = q)
                                                 - Uno(c = x /\ "cola" = "cola" /\ r = p)
        BY DEF PasaCola
    <2> QED BY <1>3, <1>4, <1>5, <1>6
<1>8. Apariciones(cola'[q], x) > 0
    <2>1. Uno(x = x /\ q = q) = 1 /\ Uno(x = x /\ q = p) = 0
        BY DEF Uno
    <2> QED BY <1>3, <1>5, <2>1
<1> QED BY <1>7, <1>8

\* The CPU's step in which the PCB it serves goes from one queue to another.
LEMMA FichaEntreColas ==
    ASSUME IInvSem, IInvSem', EnOrden, NEW k \in CPUs, NEW e, DaPaso(k, e), e # "alta",
           e \notin AlPoner \cup AlDespertar, UNCHANGED <<colaIO, colaSem>>,
           NEW x \in Carpinchos, NEW p \in ConFicha, NEW q \in ConFicha, p # q,
           Apariciones(cola[p], x) > 0, cola' = Mover(x, p, q)
    PROVE  Unicas' /\ Sueltas' /\ Apariciones(cola'[q], x) > 0
<1>1. PasaCola(x, "cola", p, "cola", q) /\ Apariciones(cola'[q], x) > 0
    BY ColaDeUnaAOtra
<1>2. PasaIO(x, "cola", p, "cola", q) /\ PasaSem(x, "cola", p, "cola", q)
    BY IOQuieta, SemQuieta
<1>3. PasaMano(k, x, "cola", p, "cola", q)
    <2>1. \A c : ~Lleva(k, c)'
        BY LosHilos, LosOtros DEF Lleva
    <2> QED BY <2>1 DEF PasaMano
<1>4. EsLugar("cola", p) /\ Fichas("cola", p, x) > 0
    BY DEF EsLugar, Fichas
<1> QED BY <1>1, <1>2, <1>3, <1>4, LosHilos, TrasPaso DEF EnOrden

\* The PCB of a request, and that it is in EXEC.
LEMMA ElDelPedido ==
    ASSUME IInvSem, EnOrden, NEW k \in CPUs, NEW a \in Atendiendo \ {"espExec"}, En(k, a)
    PROVE  /\ tomado[k] \in Carpinchos /\ Apariciones(cola["exec"], tomado[k]) > 0
           /\ pc[k] = a
<1>1. pc[k] = a /\ k \in Hilos
    BY LosHilos DEF En
<1>2. Apariciones(cola["exec"], tomado[k]) > 0
    BY <1>1 DEF EnOrden, Servidos, Servido
<1>3. CASE a = "atender"
    BY <1>1, <1>2, <1>3 DEF IInvSem, IInv, Tipos, TipoHilos, Manos, ConPCB
<1>4. CASE a \in EtiquetasSem
    BY <1>1, <1>2, <1>4 DEF IInvSem, TiposSem, ManosSem, EnPedido
<1> QED BY <1>1, <1>2, <1>3, <1>4 DEF Atendiendo

\* A CPU: from READY to EXEC, and out of it to a device or to EXIT.
LEMMA OrdenCPU ==
    ASSUME UnaCPU, IInvSem, IInvSem', EnOrden, UNCHANGED varsSem, NEW k \in CPUs, CPU(k)
    PROVE  EnOrden'
<1>0. k \in Hilos
    BY LosHilos
<1>1. CASE Elegir(k)
    <2>1. CASE cola["ready"] = <<>>
        <3>1. ToSet(cola["ready"]) = {}
            BY <2>1 DEF ToSet
        <3>2. Caer("corto")
            BY <1>1, <3>1 DEF Elegir
        <3> QED BY <3>2, OrdenCaer
    <2>2. CASE cola["ready"] # <<>>
        <3>1. PICK c \in ToSet(cola["ready"]) : Tomar(k, c)
            BY <1>1, <2>2 DEF Elegir
        <3>2. Ir(k, "despachar") /\ UNCHANGED <<cola, colaIO, colaSem, despierta>>
            BY <1>1, <2>2, OrdenSegunSpec DEF Elegir, io
        <3>3. DaPaso(k, "despachar") /\ NoCargaMas(k, "despachar")
            BY <3>1, <3>2 DEF DaPaso, NoCargaMas, AlPoner, AlDespertar, Encargados
        <3>4. /\ PasaCola(Nadie, "nada", Nadie, "nada", Nadie)
              /\ PasaIO(Nadie, "nada", Nadie, "nada", Nadie)
              /\ PasaSem(Nadie, "nada", Nadie, "nada", Nadie)
            BY <3>2, ColaQuieta, IOQuieta, SemQuieta
        <3>5. PasaMano(k, Nadie, "nada", Nadie, "nada", Nadie)
            BY <1>0, <3>3, ManoQuieta DEF PasaMano
        <3>6. Unicas' /\ Sueltas'
            BY <1>0, <3>3, <3>4, <3>5, TrasPaso DEF EnOrden
        <3>7. Apariciones(cola'["ready"], tomado'[k]) > 0
            <4>1. tomado'[k] = c
                BY <1>0, <3>1 DEF Tomar, IInvSem, IInv, Tipos, TipoHilos
            <4>2. cola["ready"] \in Seq(Carpinchos)
                BY DEF IInvSem, IInv, Tipos, TipoCola, Colas
            <4>3. \E i \in 1..Len(cola["ready"]) : cola["ready"][i] = c
                BY <4>2 DEF ToSet
            <4>4. Apariciones(cola["ready"], c) > 0
                BY <4>2, <4>3, AparicionesNat
            <4> QED BY <3>2, <4>1, <4>4
        <3>8. "despachar" \notin Atendiendo
            BY DEF Atendiendo, EtiquetasSem
        <3>9. Servidos'
            BY <3>3, <3>7, <3>8, ServidosPropios
        <3> QED BY <3>6, <3>9 DEF EnOrden
    <2> QED BY <2>1, <2>2
<1>2. CASE Despachar(k)
    <2> DEFINE x == tomado[k]
    <2>1. /\ En(k, "despachar") /\ Ir(k, "espExec") /\ cola' = Mover(x, "ready", "exec")
          /\ UNCHANGED <<tomado, colaIO, colaSem, despierta>>
        BY <1>2, OrdenSegunSpec DEF Despachar, EnCon, En, io
    <2>2. x \in Carpinchos /\ Apariciones(cola["ready"], x) > 0
        BY <1>0, <2>1 DEF En, EnOrden, Servidos, Servido, IInvSem, IInv, Tipos, TipoHilos,
           Manos, ConPCB
    <2>3. DaPaso(k, "espExec") /\ "espExec" \notin AlPoner \cup AlDespertar
        BY <2>1 DEF DaPaso, AlPoner, AlDespertar, Encargados
    <2>4. x = tomado'[k]
        BY <2>1
    <2> HIDE DEF x
    <2>5. Unicas' /\ Sueltas' /\ Apariciones(cola'["exec"], x) > 0
        BY <2>1, <2>2, <2>3, FichaEntreColas DEF ConFicha
    <2>6. Servidos'
        BY <2>3, <2>4, <2>5, ServidosPropios
    <2> QED BY <2>5, <2>6 DEF EnOrden
<1>3. CASE AtenderCierre(k)
    <2> DEFINE x == tomado[k]
    <2>1. /\ En(k, "atender") /\ Ir(k, "registrarExit") /\ cola' = Mover(x, "exec", "exit")
          /\ UNCHANGED <<tomado, colaIO, colaSem, despierta>>
        BY <1>3, OrdenSegunSpec DEF AtenderCierre, Recibe, EnCon, En, io
    <2>2. x \in Carpinchos /\ Apariciones(cola["exec"], x) > 0
        BY <2>1, ElDelPedido DEF Atendiendo
    <2>3. /\ DaPaso(k, "registrarExit")
          /\ "registrarExit" \notin AlPoner \cup AlDespertar \cup Atendiendo
        BY <2>1 DEF DaPaso, AlPoner, AlDespertar, Encargados, Atendiendo, EtiquetasSem
    <2> HIDE DEF x
    <2>5. Unicas' /\ Sueltas'
        BY <2>1, <2>2, <2>3, FichaEntreColas DEF ConFicha
    <2>6. Servidos'
        BY <2>3, ServidosPropios
    <2> QED BY <2>5, <2>6 DEF EnOrden
<1>4. ASSUME NEW d \in Configurados, AtenderCallIO(k, d) PROVE EnOrden'
    <2> DEFINE x == tomado[k]
    <2>1. /\ En(k, "atender") /\ Ir(k, "encolarIO") /\ cola' = Mover(x, "exec", "blocked")
          /\ UNCHANGED <<tomado, colaIO, colaSem, despierta>>
        BY <1>4, OrdenSegunSpec DEF AtenderCallIO, Pide, Recibe, EnCon, En, io
    <2>2. x \in Carpinchos /\ Apariciones(cola["exec"], x) > 0
        BY <2>1, ElDelPedido DEF Atendiendo
    <2>3. DaPaso(k, "encolarIO") /\ "encolarIO" \notin AlDespertar \cup Atendiendo
        BY <2>1 DEF DaPaso, AlDespertar, Encargados, Atendiendo, EtiquetasSem
    <2>4. /\ cola'["exec"] = RemoveFirst(cola["exec"], x)
          /\ \A r \in ConFicha \ {"exec"} : cola'[r] = cola[r]
          /\ "exec" \in ConFicha
        BY <2>1 DEF Mover, IInvSem, IInv, Tipos, TipoCola, ConFicha, Colas
    <2>5. \A c : Lleva(k, c)' => c = x
        BY <1>0, <2>1, <2>3, LosOtros DEF Lleva
    <2> HIDE DEF x
    <2>6. PasaCola(x, "cola", "exec", "mano", k)
        BY <2>2, <2>4, ColaMenos
    <2>7. /\ PasaIO(x, "cola", "exec", "mano", k) /\ PasaSem(x, "cola", "exec", "mano", k)
          /\ PasaMano(k, x, "cola", "exec", "mano", k)
        BY <2>1, <2>5, IOQuieta, SemQuieta DEF PasaMano
    <2>8. EsLugar("cola", "exec") /\ Fichas("cola", "exec", x) > 0
        BY <2>2, <2>4 DEF EsLugar, Fichas
    <2>9. Unicas' /\ Sueltas'
        BY <1>0, <2>2, <2>3, <2>6, <2>7, <2>8, TrasPaso DEF EnOrden
    <2>10. Servidos'
        BY <2>3, ServidosPropios
    <2> QED BY <2>9, <2>10 DEF EnOrden
<1>5. CASE EncolarEnDispositivo(k)
    <2> DEFINE x == tomado[k]
               d == recurso[k]
    <2>1. /\ En(k, "encolarIO") /\ Ir(k, "espIO") /\ colaIO' = [colaIO EXCEPT ![d] = Append(@, x)]
          /\ UNCHANGED <<cola, tomado, colaSem, despierta>>
        BY <1>5, OrdenSegunSpec DEF EncolarEnDispositivo, EnCon, En
    <2>2. x \in Carpinchos
        BY <1>0, <2>1 DEF En, IInvSem, IInv, Tipos, TipoHilos, Manos, ConPCB
    <2>3. DaPaso(k, "espIO") /\ "espIO" \notin AlPoner \cup AlDespertar \cup Atendiendo
        BY <2>1 DEF DaPaso, AlPoner, AlDespertar, Encargados, Atendiendo, EtiquetasSem
    <2>4. Lleva(k, x) /\ \A c : ~Lleva(k, c)'
        BY <1>0, <2>1, <2>3, LosOtros DEF Lleva, En, AlPoner, Encargados
    <2> HIDE DEF x, d
    <2>5. PasaIO(x, "mano", k, "io", d)
        <3> SUFFICES ASSUME NEW c \in Carpinchos, NEW r \in Dispositivos
                     PROVE  Apariciones(colaIO'[r], c)
                              <= Apariciones(colaIO[r], c) + Uno(c = x /\ "io" = "io" /\ r = d)
                                                           - Uno(c = x /\ "io" = "mano" /\ r = k)
            BY DEF PasaIO
        <3>1. colaIO \in [Dispositivos -> Seq(Carpinchos)] /\ colaIO[r] \in Seq(Carpinchos)
            BY DEF IInvSem, IInv, Tipos, TipoIO
        <3>2. Apariciones(colaIO[r], c) \in Nat
            BY <3>1, AparicionesNat
        <3>3. /\ Uno(c = x /\ "io" = "mano" /\ r = k) = 0
              /\ Uno(c = x /\ "io" = "io" /\ r = d) = Uno(c = x /\ r = d)
            BY DEF Uno
        <3>4. Apariciones(colaIO'[r], c) = Apariciones(colaIO[r], c) + Uno(c = x /\ r = d)
            <4>1. CASE r = d
                <5>1. colaIO'[r] = Append(colaIO[r], x)
                    BY <2>1, <3>1, <4>1
                <5>2. Apariciones(Append(colaIO[r], x), c) = Apariciones(colaIO[r], c) + Uno(x = c)
                    BY <2>2, <3>1, AparicionesAppend
                <5> QED BY <4>1, <5>1, <5>2 DEF Uno
            <4>2. CASE r # d
                <5>1. colaIO'[r] = colaIO[r]
                    BY <2>1, <3>1, <4>2
                <5> QED BY <3>2, <4>2, <5>1 DEF Uno
            <4> QED BY <4>1, <4>2
        <3>5. Uno(c = x /\ r = d) \in Nat
            BY DEF Uno
        <3> QED BY <3>2, <3>3, <3>4, <3>5
    <2>6. PasaCola(x, "mano", k, "io", d) /\ PasaSem(x, "mano", k, "io", d)
        BY <2>1, ColaQuieta, SemQuieta
    <2>7. PasaMano(k, x, "mano", k, "io", d)
        BY <2>4 DEF PasaMano
    <2>8. EsLugar("mano", k) /\ Fichas("mano", k, x) > 0
        BY <1>0, <2>4 DEF EsLugar, Fichas, Uno
    <2>9. Unicas' /\ Sueltas'
        BY <1>0, <2>2, <2>3, <2>5, <2>6, <2>7, <2>8, TrasPaso DEF EnOrden
    <2>10. Servidos'
        BY <2>3, ServidosPropios
    <2> QED BY <2>9, <2>10 DEF EnOrden
<1>6. ASSUME NEW e \in {"atender", "estimar", "ready"}, Ir(k, e), UNCHANGED <<cola, colaIO>>,
             \/ tomado' = tomado
             \/ \E m : Tomar(k, m),
             e = "atender" => pc[k] = "espExec" /\ tomado' = tomado
      PROVE  EnOrden'
    <2>1. DaPaso(k, e) /\ UNCHANGED <<colaSem, despierta>>
        BY <1>6, OrdenSegunSpec DEF DaPaso
    <2>2. e # "alta" /\ e # "despachar" /\ NoCargaMas(k, e)
        BY DEF NoCargaMas, AlPoner, AlDespertar, Encargados
    <2>3. e \in Atendiendo => pc[k] \in Atendiendo /\ tomado'[k] = tomado[k]
        BY <1>6 DEF Atendiendo, EtiquetasSem
    <2> QED BY <1>0, <1>6, <2>1, <2>2, <2>3, OrdenQuieto
<1>7. CASE EmpezarAtencion(k)
    BY <1>6, <1>7 DEF EmpezarAtencion, EnCon, En, io
<1>8. CASE AvisarDispositivo(k)
    BY <1>6, <1>8 DEF AvisarDispositivo
<1>9. CASE AtenderIODesconocida(k) \/ Estimar(k)
    BY <1>6, <1>9 DEF AtenderIODesconocida, Estimar, Soltar, io
<1>11. CASE RegistrarExit(k)
    BY <1>6, <1>11 DEF RegistrarExit, Soltar, io
<1> QED BY <1>1, <1>2, <1>3, <1>4, <1>5, <1>7, <1>8, <1>9, <1>11 DEF CPU

\* A device takes a PCB from its queue, unblocks it and puts it in a queue.
LEMMA OrdenDispositivo ==
    ASSUME UnaCPU, IInvSem, IInvSem', EnOrden, UNCHANGED varsSem,
           NEW d \in Dispositivos, Dispositivo(d)
    PROVE  EnOrden'
<1>0. d \in Hilos \ CPUs
    BY LosHilos, ConstantesOK DEF ConstantesOK
<1>1. CASE TomarIO(d)
    <2>1. CASE colaIO[d] = <<>>
        BY <1>1, <2>1, OrdenCaer DEF TomarIO
    <2>2. CASE colaIO[d] # <<>>
        <3> DEFINE x == Head(colaIO[d])
        <3>1. /\ Tomar(d, x) /\ colaIO' = [colaIO EXCEPT ![d] = Tail(@)]
              /\ Ir(d, "verSusBlocked") /\ UNCHANGED <<cola, colaSem, despierta>>
            BY <1>1, <2>2, OrdenSegunSpec DEF TomarIO, io
        <3>2. colaIO \in [Dispositivos -> Seq(Carpinchos)] /\ colaIO[d] \in Seq(Carpinchos)
            BY DEF IInvSem, IInv, Tipos, TipoIO
        <3>3. x \in Carpinchos /\ x = colaIO[d][1] /\ 1 \in 1..Len(colaIO[d])
            BY <2>2, <3>2, HeadTailProperties, EmptySeq
        <3>4. Apariciones(colaIO[d], x) > 0
            BY <3>2, <3>3, AparicionesNat
        <3>5. DaPaso(d, "verSusBlocked") /\ "verSusBlocked" # "alta"
            BY <3>1 DEF DaPaso
        <3>6. tomado'[d] = x
            BY <1>0, <3>1 DEF Tomar, IInvSem, IInv, Tipos, TipoHilos
        <3>7. \A c \in Carpinchos, r \in Dispositivos :
                  Apariciones(colaIO'[r], c) = Apariciones(colaIO[r], c) - Uno(c = x /\ r = d)
            <4> SUFFICES ASSUME NEW c \in Carpinchos, NEW r \in Dispositivos
                         PROVE  Apariciones(colaIO'[r], c)
                                  = Apariciones(colaIO[r], c) - Uno(c = x /\ r = d)
                OBVIOUS
            <4>1. CASE r = d
                <5>1. colaIO'[d] = Tail(colaIO[d])
                    BY <3>1, <3>2
                <5>2. Apariciones(Tail(colaIO[d]), c) = Apariciones(colaIO[d], c) - Uno(x = c)
                    BY <2>2, <3>2, AparicionesTail
                <5> QED BY <4>1, <5>1, <5>2 DEF Uno
            <4>2. CASE r # d
                <5>1. colaIO'[r] = colaIO[r] /\ colaIO[r] \in Seq(Carpinchos)
                    BY <3>1, <3>2, <4>2
                <5>2. Apariciones(colaIO[r], c) \in Nat
                    BY <5>1, AparicionesNat
                <5> QED BY <4>2, <5>1, <5>2 DEF Uno
            <4> QED BY <4>1, <4>2
        <3> HIDE DEF x
        <3>8. PasaIO(x, "io", d, "mano", d)
            <4> SUFFICES ASSUME NEW c \in Carpinchos, NEW r \in Dispositivos
                         PROVE  Apariciones(colaIO'[r], c)
                                  <= Apariciones(colaIO[r], c) + Uno(c = x /\ "io" = "mano" /\ r = d)
                                                               - Uno(c = x /\ "io" = "io" /\ r = d)
                BY DEF PasaIO
            <4>1. Apariciones(colaIO[r], c) \in Nat
                BY FichasNat DEF Fichas, EsLugar
            <4>2. /\ Uno(c = x /\ "io" = "mano" /\ r = d) = 0
                  /\ Uno(c = x /\ "io" = "io" /\ r = d) = Uno(c = x /\ r = d)
                  /\ Uno(c = x /\ r = d) \in Nat
                BY DEF Uno
            <4> QED BY <3>7, <4>1, <4>2
        <3>9. PasaCola(x, "io", d, "mano", d) /\ PasaSem(x, "io", d, "mano", d)
            BY <3>1, ColaQuieta, SemQuieta
        <3>10. PasaMano(d, x, "io", d, "mano", d)
            <4>1. \A c : Lleva(d, c)' => c = x
                BY <1>0, <3>6 DEF Lleva
            <4> QED BY <4>1 DEF PasaMano
        <3>11. EsLugar("io", d) /\ Fichas("io", d, x) > 0
            BY <3>4 DEF EsLugar, Fichas, x
        <3>12. x \in Carpinchos
            BY <3>3 DEF x
        <3>13. Unicas' /\ Sueltas'
            BY <1>0, <3>5, <3>8, <3>9, <3>10, <3>11, <3>12, TrasPaso DEF EnOrden
        <3>14. cola'["exec"] = cola["exec"] /\ cola'["ready"] = cola["ready"]
            BY <3>1
        <3>15. Servidos'
            BY <1>0, <3>5, <3>14, ServidosAjenos DEF EnOrden
        <3> QED BY <3>13, <3>15 DEF EnOrden
    <2> QED BY <2>1, <2>2
<1>2. CASE VerSusBlocked(d)
    <2>1. PICK e \in {"aSusReady", "verSiBlocked"} : Ir(d, e)
        BY <1>2 DEF VerSusBlocked
    <2>2. pc[d] = "verSusBlocked" /\ UNCHANGED <<cola, tomado, colaIO>>
        BY <1>2 DEF VerSusBlocked, EnCon, En, io
    <2>3. e # "alta" /\ NoCargaMas(d, e)
        BY <2>2 DEF NoCargaMas, AlPoner, Encargados
    <2> QED BY <1>0, <2>1, <2>2, <2>3, OrdenAjeno
<1>3. CASE VerSiBlocked(d)
    <2>1. pc[d] = "verSiBlocked" /\ UNCHANGED <<cola, colaIO>>
        BY <1>3 DEF VerSiBlocked, EnCon, En, io
    <2>2. CASE Ir(d, "sacarBlocked") /\ UNCHANGED tomado
        <3>1. NoCargaMas(d, "sacarBlocked")
            BY <2>1, <2>2 DEF NoCargaMas, AlPoner, Encargados
        <3> QED BY <1>0, <2>1, <2>2, <3>1, OrdenAjeno
    <2>3. CASE Ir(d, "io") /\ Soltar(d)
        <3>1. NoCargaMas(d, "io") /\ Tomar(d, Nadie)
            BY <2>3 DEF NoCargaMas, AlPoner, AlDespertar, Encargados, Soltar
        <3> QED BY <1>0, <2>1, <2>3, <3>1, OrdenAjeno
    <2> QED BY <1>3, <2>2, <2>3 DEF VerSiBlocked
<1>4. CASE SacarDeBlocked(d)
    <2>1. /\ pc[d] = "sacarBlocked" /\ Ir(d, "aReady") /\ UNCHANGED <<tomado, colaIO>>
          /\ cola' = [cola EXCEPT !["blocked"] = RemoveFirst(@, tomado[d])]
        BY <1>4 DEF SacarDeBlocked, EnCon, En, io
    <2>2. \A q \in ConFicha : cola'[q] = cola[q]
        BY <2>1 DEF ConFicha, IInvSem, IInv, Tipos, TipoCola, Colas
    <2>3. NoCargaMas(d, "aReady")
        BY <2>1 DEF NoCargaMas, AlPoner, Encargados
    <2> QED BY <1>0, <2>1, <2>2, <2>3, OrdenAjeno
<1>5. CASE PasarASusReady(d)
    <2> DEFINE x == tomado[d]
    <2>1. /\ pc[d] = "aSusReady" /\ Ir(d, "registrarIO")
          /\ cola' = Mover(x, "susblocked", "susready")
          /\ UNCHANGED <<tomado, colaIO, colaSem, despierta>>
        BY <1>5, OrdenSegunSpec DEF PasarASusReady, EnCon, En, io
    <2>2. x \in Carpinchos /\ Lleva(d, x)
        BY <1>0, <2>1 DEF IInvSem, IInv, Tipos, TipoHilos, Manos, ConPCB, Lleva, AlPoner, Encargados
    <2>3. /\ cola'["susready"] = Append(cola["susready"], x)
          /\ \A r \in ConFicha \ {"susready"} : cola'[r] = cola[r]
          /\ "susready" \in ConFicha
        BY <2>1 DEF Mover, IInvSem, IInv, Tipos, TipoCola, ConFicha, Colas
    <2>4. /\ DaPaso(d, "registrarIO") /\ "registrarIO" # "alta"
          /\ "registrarIO" \notin AlPoner \cup AlDespertar
        BY <2>1 DEF DaPaso, AlPoner, AlDespertar, Encargados
    <2> HIDE DEF x
    <2>5. Unicas' /\ Sueltas'
        BY <1>0, <2>1, <2>2, <2>3, <2>4, FichaAPoner
    <2>6. cola'["exec"] = cola["exec"] /\ cola'["ready"] = cola["ready"]
        BY <2>3 DEF ConFicha
    <2>7. Servidos'
        BY <1>0, <2>4, <2>6, ServidosAjenos DEF EnOrden
    <2> QED BY <2>5, <2>7 DEF EnOrden
<1>6. CASE DesbloquearAReady(d)
    BY <1>0, <1>6, OrdenPasarAReady DEF DesbloquearAReady, Registrando
<1>7. CASE RegistrarIO(d)
    <2>1. NoCargaMas(d, "io")
        BY DEF NoCargaMas, AlPoner, AlDespertar, Encargados
    <2> QED BY <1>0, <1>7, <2>1, OrdenAjeno DEF RegistrarIO, Soltar, io
<1> QED BY <1>1, <1>2, <1>3, <1>4, <1>5, <1>6, <1>7 DEF Dispositivo

\* Every step of the scheduler.
LEMMA OrdenNext ==
    ASSUME UnaCPU, IInvSem, IInvSem', EnOrden, UNCHANGED varsSem, Next
    PROVE  EnOrden'
BY OrdenAlta, OrdenLargo, OrdenSalidas, OrdenMediano, OrdenCPU, OrdenDispositivo, OrdenCaer
   DEF Next, UsarLiberado
-----------------------------------------------------------------------------
(* The steps of a request.                                                 *)

\* The CPU goes on serving the same PCB, and no token moves.
LEMMA OrdenDePedido ==
    ASSUME UnaCPU, IInvSem, IInvSem', EnOrden, NEW k \in CPUs, NEW a \in Atendiendo, En(k, a),
           NEW e \in {"atender"} \cup (EtiquetasSem \ AlDespertar), Ir(k, e),
           UNCHANGED <<cola, colaIO, tomado, colaSem>>,
           \A h \in CPUs \ {k} : despierta'[h] = despierta[h]
    PROVE  EnOrden'
<1>1. k \in Hilos /\ pc[k] \in Atendiendo
    BY LosHilos DEF En
<1>2. DaPaso(k, e) /\ NoCargaMas(k, e) /\ e # "alta" /\ e # "despachar"
    BY DEF DaPaso, NoCargaMas, AlPoner, AlDespertar, Encargados, EtiquetasSem
<1> QED BY <1>1, <1>2, OrdenQuieto

\* The answer.
LEMMA OrdenResponder ==
    ASSUME UnaCPU, IInvSem, IInvSem', EnOrden, NEW k \in CPUs,
           NEW a \in Atendiendo \ {"espExec"}, En(k, a), Responder(k),
           UNCHANGED <<cola, colaIO, tomado, colaSem>>
    PROVE  EnOrden'
<1>1. tomado[k] \in Carpinchos
    BY ElDelPedido
<1>2. Ir(k, "atender") /\ \A h \in CPUs \ {k} : despierta'[h] = despierta[h]
    BY <1>1, AlResponder
<1> QED BY <1>2, OrdenDePedido

\* The request arrives, with or without work to do.
LEMMA OrdenEncontrar ==
    ASSUME UnaCPU, IInvSem, IInvSem', EnOrden, NEW k \in CPUs, NEW n,
           NEW e \in {"semWait", "semPost", "semDestruir"}, Encontrar(k, n, e)
    PROVE  EnOrden'
<1>1. UNCHANGED <<cola, colaIO, tomado, colaSem, despierta>>
    BY DEF Encontrar, SinPlanificar, io, cuentas
<1>2. CASE ResponderYa(k)
    BY <1>1, <1>2, OrdenIgual DEF ResponderYa
<1>3. CASE Recibir(k, e)
    <2>1. En(k, "atender") /\ Ir(k, e)
        BY <1>3, AlRecibir
    <2>2. "atender" \in Atendiendo /\ e \in EtiquetasSem \ AlDespertar
        BY DEF Atendiendo, EtiquetasSem, AlDespertar
    <2> QED BY <1>1, <2>1, <2>2, OrdenDePedido
<1> QED BY <1>2, <1>3 DEF Encontrar

\* SEM_INIT moves no PCB.
LEMMA OrdenSemInit ==
    ASSUME UnaCPU, IInvSem, IInvSem', EnOrden, NEW k \in CPUs, SemInit(k)
    PROVE  EnOrden'
<1>1. CASE AtenderSemInit(k)
    <2>1. UNCHANGED <<cola, colaIO, tomado, colaSem, despierta>>
        BY <1>1 DEF AtenderSemInit, SinPlanificar, io
    <2>2. CASE ResponderYa(k)
        BY <2>1, <2>2, OrdenIgual DEF ResponderYa
    <2>3. CASE Recibir(k, "semCrear")
        <3>1. En(k, "atender") /\ Ir(k, "semCrear")
            BY <2>3, AlRecibir
        <3>2. "atender" \in Atendiendo /\ "semCrear" \in EtiquetasSem \ AlDespertar
            BY DEF Atendiendo, EtiquetasSem, AlDespertar
        <3> QED BY <2>1, <3>1, <3>2, OrdenDePedido
    <2> QED BY <1>1, <2>2, <2>3 DEF AtenderSemInit
<1>2. CASE CrearSem(k)
    <2>1. /\ En(k, "semCrear") /\ Ir(k, "semLog")
          /\ UNCHANGED <<cola, colaIO, tomado, colaSem, despierta>>
        BY <1>2 DEF CrearSem, EnSem, SinPlanificar, io, cuentas
    <2>2. "semCrear" \in Atendiendo /\ "semLog" \in EtiquetasSem \ AlDespertar
        BY DEF Atendiendo, EtiquetasSem, AlDespertar
    <2> QED BY <2>1, <2>2, OrdenDePedido
<1> QED BY <1>1, <1>2 DEF SemInit

\* Nor does the end of a request.
LEMMA OrdenFinPedido ==
    ASSUME UnaCPU, IInvSem, IInvSem', EnOrden, NEW k \in CPUs, FinPedido(k)
    PROVE  EnOrden'
<1>1. En(k, "semLog") /\ Responder(k) /\ UNCHANGED <<cola, colaIO, tomado, colaSem>>
    BY DEF FinPedido, EnSem, io, cuentas
<1>2. "semLog" \in Atendiendo \ {"espExec"}
    BY DEF Atendiendo, EtiquetasSem
<1> QED BY <1>1, <1>2, OrdenResponder

\* SEM_DESTROY moves no PCB.
LEMMA OrdenSemDestroy ==
    ASSUME UnaCPU, IInvSem, IInvSem', EnOrden, NEW k \in CPUs, SemDestroy(k)
    PROVE  EnOrden'
<1>0. {"semDestruir", "semQuitar", "semLiberar", "semLog"}
          \subseteq (Atendiendo \cap EtiquetasSem) \ (AlDespertar \cup {"espExec"})
    BY DEF Atendiendo, EtiquetasSem, AlDespertar
<1>1. ASSUME NEW n \in NombresSem, AtenderSemDestroy(k, n) PROVE EnOrden'
    BY <1>1, OrdenEncontrar DEF AtenderSemDestroy
<1>2. CASE SacarDeLista(k)
    <2>1. En(k, "semQuitar") /\ UNCHANGED <<cola, colaIO, tomado, colaSem, despierta>>
        BY <1>2 DEF SacarDeLista, EnSem, io, cuentas, enCurso
    <2>2. CASE Ir(k, "semLiberar")
        BY <1>0, <2>1, <2>2, OrdenDePedido
    <2>3. CASE UNCHANGED pc
        BY <2>1, <2>3, OrdenIgual
    <2> QED BY <1>2, <2>2, <2>3 DEF SacarDeLista
<1>3. CASE DestruirSem(k)
    <2>1. /\ En(k, "semLiberar") /\ Responder(k)
          /\ UNCHANGED <<cola, colaIO, tomado, colaSem>>
        BY <1>3 DEF DestruirSem, EnSem, SinPlanificar, io, cuentas
    <2> QED BY <1>0, <2>1, OrdenResponder
<1>4. CASE MirarCola(k)
    <2>1. /\ En(k, "semDestruir") /\ \E e \in {"semQuitar", "semLog"} : Ir(k, e)
          /\ UNCHANGED <<cola, colaIO, tomado, colaSem, despierta>>
        BY <1>4 DEF MirarCola, EnSem, io, varsSem, cuentas, enCurso
    <2> QED BY <1>0, <2>1, OrdenDePedido
<1> QED BY <1>1, <1>2, <1>3, <1>4 DEF SemDestroy

\* The queues of the semaphores after one PCB more, or without the first of one.
LEMMA SemMas ==
    ASSUME IInvSem, NEW x \in Carpinchos, NEW s \in Semaforos,
           colaSem' = [colaSem EXCEPT ![s] = Append(@, x)],
           NEW v0, NEW p0, v0 # "sem"
    PROVE  PasaSem(x, v0, p0, "sem", s)
<1> SUFFICES ASSUME NEW c \in Carpinchos, NEW r \in Semaforos
             PROVE  Apariciones(colaSem'[r], c)
                      <= Apariciones(colaSem[r], c) + Uno(c = x /\ "sem" = "sem" /\ r = s)
                                                    - Uno(c = x /\ "sem" = v0 /\ r = p0)
    BY DEF PasaSem
<1>1. colaSem \in [Semaforos -> Seq(Carpinchos)] /\ colaSem[r] \in Seq(Carpinchos)
    BY DEF IInvSem, TiposSem, TipoCuentas
<1>2. Apariciones(colaSem[r], c) \in Nat
    BY <1>1, AparicionesNat
<1>3. /\ Uno(c = x /\ "sem" = v0 /\ r = p0) = 0
      /\ Uno(c = x /\ "sem" = "sem" /\ r = s) = Uno(c = x /\ r = s)
      /\ Uno(c = x /\ r = s) \in Nat
    BY DEF Uno
<1>4. Apariciones(colaSem'[r], c) = Apariciones(colaSem[r], c) + Uno(c = x /\ r = s)
    <2>1. CASE r = s
        <3>1. colaSem'[r] = Append(colaSem[r], x)
            BY <1>1, <2>1
        <3>2. Apariciones(Append(colaSem[r], x), c) = Apariciones(colaSem[r], c) + Uno(x = c)
            BY <1>1, AparicionesAppend
        <3> QED BY <2>1, <3>1, <3>2 DEF Uno
    <2>2. CASE r # s
        <3>1. colaSem'[r] = colaSem[r]
            BY <1>1, <2>2
        <3> QED BY <1>2, <2>2, <3>1 DEF Uno
    <2> QED BY <2>1, <2>2
<1> QED BY <1>2, <1>3, <1>4

\* The first of a semaphore's queue is a carpincho with a token there.
LEMMA ElPrimero ==
    ASSUME IInvSem, NEW s \in Semaforos, colaSem[s] # <<>>
    PROVE  /\ Head(colaSem[s]) \in Carpinchos
           /\ Apariciones(colaSem[s], Head(colaSem[s])) > 0
<1>0. colaSem[s] \in Seq(Carpinchos)
    BY DEF IInvSem, TiposSem, TipoCuentas
<1>1. /\ Head(colaSem[s]) \in Carpinchos /\ Head(colaSem[s]) = colaSem[s][1]
      /\ 1 \in 1..Len(colaSem[s])
    BY <1>0, HeadTailProperties, EmptySeq
<1> QED BY <1>0, <1>1, AparicionesNat

\* The pop of a semaphore's queue takes out a token of the first.
LEMMA SemMenos ==
    ASSUME IInvSem, NEW s \in Semaforos, colaSem[s] # <<>>,
           colaSem' = [colaSem EXCEPT ![s] = Tail(@)],
           NEW x, x = Head(colaSem[s]), NEW v1, NEW p1, v1 # "sem"
    PROVE  PasaSem(x, "sem", s, v1, p1)
<1>0. colaSem \in [Semaforos -> Seq(Carpinchos)] /\ colaSem[s] \in Seq(Carpinchos)
    BY DEF IInvSem, TiposSem, TipoCuentas
<1>3. ASSUME NEW c \in Carpinchos, NEW r \in Semaforos
      PROVE  Apariciones(colaSem'[r], c)
                      <= Apariciones(colaSem[r], c) + Uno(c = x /\ "sem" = v1 /\ r = p1)
                                                    - Uno(c = x /\ "sem" = "sem" /\ r = s)
    <2>1. colaSem[r] \in Seq(Carpinchos)
        BY <1>0
    <2>2. Apariciones(colaSem[r], c) \in Nat
        BY <2>1, AparicionesNat
    <2>3. /\ Uno(c = x /\ "sem" = v1 /\ r = p1) = 0
          /\ Uno(c = x /\ "sem" = "sem" /\ r = s) = Uno(c = x /\ r = s)
          /\ Uno(c = x /\ r = s) \in Nat
        BY DEF Uno
    <2>4. Apariciones(colaSem'[r], c) = Apariciones(colaSem[r], c) - Uno(c = x /\ r = s)
        <3>1. CASE r = s
            <4>1. colaSem'[s] = Tail(colaSem[s])
                BY <1>0
            <4>2. Apariciones(Tail(colaSem[s]), c)
                    = Apariciones(colaSem[s], c) - Uno(Head(colaSem[s]) = c)
                BY <1>0, AparicionesTail
            <4> QED BY <3>1, <4>1, <4>2 DEF Uno
        <3>2. CASE r # s
            <4>1. colaSem'[r] = colaSem[r]
                BY <1>0, <3>2
            <4> QED BY <2>2, <3>2, <4>1 DEF Uno
        <3> QED BY <3>1, <3>2
    <2> QED BY <2>2, <2>3, <2>4
<1> QED BY <1>3 DEF PasaSem

\* SEM_WAIT: the PCB goes from EXEC to the queue of the semaphore.
LEMMA OrdenSemWait ==
    ASSUME UnaCPU, IInvSem, IInvSem', EnOrden, NEW k \in CPUs, SemWait(k)
    PROVE  EnOrden'
<1>0. k \in Hilos
    BY LosHilos
<1>1. ASSUME NEW n \in NombresSem, AtenderSemWait(k, n) PROVE EnOrden'
    BY <1>1, OrdenEncontrar DEF AtenderSemWait
<1>2. CASE RestarInstancia(k)
    <2>1. "semWait" \in Atendiendo /\ {"semTomada", "semBloquear"} \subseteq EtiquetasSem \ AlDespertar
        BY DEF Atendiendo, EtiquetasSem, AlDespertar
    <2>2. /\ En(k, "semWait") /\ UNCHANGED <<cola, colaIO, tomado, colaSem, despierta>>
          /\ \E e \in {"semTomada", "semBloquear"} : Ir(k, e)
        BY <1>2 DEF RestarInstancia, EnSem, SinPlanificar, io, enCurso
    <2> QED BY <2>1, <2>2, OrdenDePedido
<1>3. CASE BloquearEnSem(k)
    <2> DEFINE x == tomado[k]  s == semDe[k]
    <2>1. /\ En(k, "semBloquear") /\ Ir(k, "semEncolar")
          /\ cola' = [cola EXCEPT !["exec"] = RemoveFirst(@, x)]
          /\ colaSem' = [colaSem EXCEPT ![s] = Append(@, x)]
          /\ UNCHANGED <<tomado, colaIO, despierta>>
        BY <1>3 DEF BloquearEnSem, EnSem, enCurso, io
    <2>2. x \in Carpinchos /\ Apariciones(cola["exec"], x) > 0
        BY <2>1, ElDelPedido DEF Atendiendo, EtiquetasSem
    <2>3. s \in Semaforos
        BY <1>3, DelPedido DEF BloquearEnSem, EtiquetasSem
    <2>4. DaPaso(k, "semEncolar") /\ "semEncolar" \notin AlPoner \cup AlDespertar \cup Atendiendo
        BY <2>1 DEF DaPaso, AlPoner, AlDespertar, Encargados, Atendiendo, EtiquetasSem
    <2>5. /\ cola'["exec"] = RemoveFirst(cola["exec"], x)
          /\ \A r \in ConFicha \ {"exec"} : cola'[r] = cola[r]
          /\ "exec" \in ConFicha
        BY <2>1 DEF IInvSem, IInv, Tipos, TipoCola, ConFicha, Colas
    <2>6. \A c : ~Lleva(k, c)'
        BY <1>0, <2>4, LosOtros DEF Lleva
    <2> HIDE DEF x, s
    <2>7. PasaCola(x, "cola", "exec", "sem", s)
        BY <2>2, <2>5, ColaMenos
    <2>8. PasaSem(x, "cola", "exec", "sem", s)
        BY <2>1, <2>2, <2>3, SemMas
    <2>9. /\ PasaIO(x, "cola", "exec", "sem", s)
          /\ PasaMano(k, x, "cola", "exec", "sem", s)
        BY <2>1, <2>6, IOQuieta DEF PasaMano
    <2>10. EsLugar("cola", "exec") /\ Fichas("cola", "exec", x) > 0
        BY <2>2, <2>5 DEF EsLugar, Fichas
    <2>11. Unicas' /\ Sueltas'
        BY <1>0, <2>2, <2>4, <2>7, <2>8, <2>9, <2>10, TrasPaso DEF EnOrden
    <2>12. Servidos'
        BY <2>4, ServidosPropios
    <2> QED BY <2>11, <2>12 DEF EnOrden
<1>4. ASSUME NEW e \in {"espSem", "estimar"}, Ir(k, e), UNCHANGED <<tomado, colaIO, colaSem, despierta>>,
             \A q \in ConFicha : cola'[q] = cola[q]
      PROVE  EnOrden'
    <2>1. /\ DaPaso(k, e) /\ NoCargaMas(k, e) /\ e # "alta" /\ e # "despachar"
          /\ e \notin Atendiendo
        BY <1>4 DEF DaPaso, NoCargaMas, AlPoner, AlDespertar, Encargados, Atendiendo, EtiquetasSem
    <2> QED BY <1>0, <1>4, <2>1, OrdenQuieto
<1>5. CASE EncolarEnBlocked(k)
    <2>1. /\ Ir(k, "espSem") /\ UNCHANGED <<tomado, colaIO, colaSem, despierta>>
          /\ cola' = Encolar("blocked", tomado[k])
        BY <1>5, OrdenSegunSpec DEF EncolarEnBlocked, io
    <2>2. \A q \in ConFicha : cola'[q] = cola[q]
        BY <2>1 DEF Encolar, ConFicha, IInvSem, IInv, Tipos, TipoCola, Colas
    <2> QED BY <1>4, <2>1, <2>2
<1>6. CASE TerminarSemWait(k)
    BY <1>4, <1>6 DEF TerminarSemWait, io, cuentas
<1>7. CASE RetenerTomada(k)
    <2>1. "semTomada" \in Atendiendo /\ "semLog" \in EtiquetasSem \ AlDespertar
        BY DEF Atendiendo, EtiquetasSem, AlDespertar
    <2>2. /\ En(k, "semTomada") /\ UNCHANGED <<cola, colaIO, tomado, colaSem, despierta>>
          /\ Ir(k, "semLog")
        BY <1>7 DEF RetenerTomada, EnSem, SinPlanificar, io, cuentas, enCurso
    <2> QED BY <2>1, <2>2, OrdenDePedido
<1> QED BY <1>1, <1>2, <1>3, <1>5, <1>6, <1>7 DEF SemWait

\* SEM_POST: the first PCB of the queue goes to the hand of the CPU, and
\* from there to READY or SUSP/READY.
LEMMA OrdenSemPost ==
    ASSUME UnaCPU, IInvSem, IInvSem', EnOrden, NEW k \in CPUs, SemPost(k)
    PROVE  EnOrden'
<1>0. /\ k \in Hilos
      /\ {"semPost", "semPop", "semRetener", "semLog"}
            \subseteq (Atendiendo \cap EtiquetasSem) \ (AlDespertar \cup AlPoner \cup {"espExec"})
      /\ AlDespertar \subseteq (Atendiendo \cap EtiquetasSem) \ (AlPoner \cup {"espExec"})
    BY LosHilos DEF Atendiendo, EtiquetasSem, AlDespertar, AlPoner, Encargados
<1>1. ASSUME NEW n \in NombresSem, AtenderSemPost(k, n) PROVE EnOrden'
    BY <1>1, OrdenEncontrar DEF AtenderSemPost
<1>2. CASE SumarInstancia(k)
    <2>1. /\ En(k, "semPost") /\ UNCHANGED <<cola, colaIO, tomado, colaSem, despierta>>
          /\ \E e \in {"semPop", "semLog"} : Ir(k, e)
        BY <1>2 DEF SumarInstancia, EnSem, SinPlanificar, io, enCurso
    <2> QED BY <1>0, <2>1, OrdenDePedido
<1>3. CASE SacarDeSem(k)
    <2> DEFINE s == semDe[k]  x == Head(colaSem[s])
    <2>1. En(k, "semPop") /\ UNCHANGED <<cola, colaIO, tomado>> /\ s \in Semaforos
        BY <1>3, DelPedido DEF SacarDeSem, EnSem, SinPlanificar, io, EtiquetasSem
    <2>2. CASE Ir(k, "semLog") /\ UNCHANGED <<colaSem, despierta>>
        BY <1>0, <2>1, <2>2, OrdenDePedido
    <2>3. CASE /\ colaSem[s] # <<>>
               /\ despierta' = [despierta EXCEPT ![k] = x]
               /\ colaSem' = [colaSem EXCEPT ![s] = Tail(@)]
               /\ Ir(k, "semDespertar")
        <3>1. tomado[k] \in Carpinchos /\ Apariciones(cola["exec"], tomado[k]) > 0
            BY <1>0, <2>1, ElDelPedido
        <3>2. DaPaso(k, "semDespertar") /\ "semDespertar" # "alta" /\ "semDespertar" # "despachar"
            BY <2>1, <2>3 DEF DaPaso
        <3>3. despierta'[k] = x
            BY <2>3 DEF IInvSem, TiposSem, TipoCurso
        <3>4. "semDespertar" \in AlDespertar \ AlPoner
            BY <1>0 DEF AlDespertar
        <3>5. \A c : Lleva(k, c)' => c = x
            BY <1>0, <3>2, <3>3, <3>4, LosOtros DEF Lleva
        <3>6. /\ x = Head(colaSem[s]) /\ colaSem[s] # <<>>
              /\ colaSem' = [colaSem EXCEPT ![s] = Tail(@)]
            BY <2>3
        <3> HIDE DEF x, s
        <3>7. /\ PasaSem(x, "sem", s, "mano", k)
              /\ x \in Carpinchos /\ Apariciones(colaSem[s], x) > 0
            <4>1. s \in Semaforos /\ "mano" # "sem"
                BY <2>1
            <4>2. PasaSem(x, "sem", s, "mano", k)
                BY <3>6, <4>1, SemMenos
            <4>3. x \in Carpinchos /\ Apariciones(colaSem[s], x) > 0
                BY <3>6, <4>1, ElPrimero
            <4> QED BY <4>2, <4>3
        <3>8. /\ PasaCola(x, "sem", s, "mano", k) /\ PasaIO(x, "sem", s, "mano", k)
              /\ PasaMano(k, x, "sem", s, "mano", k)
            BY <2>1, <3>5, ColaQuieta, IOQuieta DEF PasaMano
        <3>9. EsLugar("sem", s) /\ Fichas("sem", s, x) > 0
            BY <2>1, <3>7 DEF EsLugar, Fichas
        <3>10. Unicas' /\ Sueltas'
            BY <1>0, <3>2, <3>7, <3>8, <3>9, TrasPaso DEF EnOrden
        <3>11. Servidos'
            BY <2>1, <3>1, <3>2, ServidosPropios
        <3> QED BY <3>10, <3>11 DEF EnOrden
    <2> QED BY <1>3, <2>2, <2>3 DEF SacarDeSem
\* The PCB in the CPU's hand goes to a queue.
<1>4. ASSUME NEW a \in AlDespertar, EnSem(k, a), Ir(k, "semRetener"), NEW q \in {"ready", "susready"},
             cola'[q] = Append(cola[q], despierta[k]),
             \A r \in ConFicha \ {q} : cola'[r] = cola[r],
             UNCHANGED <<colaIO, colaSem, tomado, despierta>>
      PROVE  EnOrden'
    <2> DEFINE x == despierta[k]
    <2>1. a \in EtiquetasSem /\ a \in ConDespierto
        BY <1>0 DEF AlDespertar, ConDespierto
    <2>2. En(k, a) /\ x \in Carpinchos
        BY <1>4, <2>1, DelPedido
    <2>3. tomado[k] \in Carpinchos /\ Apariciones(cola["exec"], tomado[k]) > 0
        BY <1>0, <2>2, ElDelPedido
    <2>4. DaPaso(k, "semRetener") /\ "semRetener" # "alta" /\ "semRetener" # "despachar"
        BY <1>4 DEF DaPaso
    <2>5. Lleva(k, x)
        BY <2>2 DEF Lleva, En
    <2>6. q \in ConFicha /\ cola'["exec"] = cola["exec"]
        BY <1>4 DEF ConFicha
    <2>7. cola'[q] = Append(cola[q], x)
        BY <1>4
    <2> HIDE DEF x
    <2>8. Unicas' /\ Sueltas'
        BY <1>0, <1>4, <2>2, <2>4, <2>5, <2>6, <2>7, FichaAPoner
    <2>9. Servidos'
        BY <1>4, <2>3, <2>4, <2>6, ServidosPropios
    <2> QED BY <2>8, <2>9 DEF EnOrden
<1>5. CASE DespertarDeSem(k)
    <2>1. /\ EnSem(k, "semDespertar") /\ "semDespertar" \in AlDespertar
          /\ UNCHANGED <<colaIO, tomado, colaSem, despierta>>
        BY <1>5, OrdenSegunSpec DEF DespertarDeSem, io, AlDespertar
    <2>2. CASE /\ cola' = Mover(despierta[k], "susblocked", "susready")
               /\ Ir(k, "semRetener")
        <3>1. /\ cola'["susready"] = Append(cola["susready"], despierta[k])
              /\ \A r \in ConFicha \ {"susready"} : cola'[r] = cola[r]
            BY <2>2 DEF Mover, IInvSem, IInv, Tipos, TipoCola, ConFicha, Colas
        <3> QED BY <1>4, <2>1, <2>2, <3>1
    <2>3. CASE /\ cola' = [cola EXCEPT !["blocked"] = RemoveFirst(@, despierta[k])]
               /\ Ir(k, "semAReady")
        <3>1. \A q \in ConFicha : cola'[q] = cola[q]
            BY <2>3 DEF ConFicha, IInvSem, IInv, Tipos, TipoCola, Colas
        <3>2. pc[k] = "semDespertar"
            BY <2>1 DEF EnSem, En
        <3>3. /\ DaPaso(k, "semAReady") /\ NoCargaMas(k, "semAReady")
              /\ "semAReady" # "alta" /\ "semAReady" # "despachar"
            BY <2>1, <2>3, <3>2 DEF DaPaso, NoCargaMas, AlDespertar
        <3> QED BY <1>0, <2>1, <3>1, <3>2, <3>3, OrdenQuieto
    <2>4. CASE Ir(k, "semRetener") /\ UNCHANGED cola
        <3>1. En(k, "semDespertar")
            BY <2>1 DEF EnSem
        <3> QED BY <1>0, <2>1, <2>4, <3>1, OrdenDePedido
    <2> QED BY <1>5, <2>2, <2>3, <2>4 DEF DespertarDeSem
<1>6. CASE DeSemAReady(k)
    <2>1. /\ EnSem(k, "semAReady") /\ "semAReady" \in AlDespertar /\ Ir(k, "semRetener")
          /\ cola' = Encolar("ready", despierta[k])
          /\ UNCHANGED <<colaIO, tomado, colaSem, despierta>>
        BY <1>6, OrdenSegunSpec DEF DeSemAReady, io, AlDespertar
    <2>2. /\ cola'["ready"] = Append(cola["ready"], despierta[k])
          /\ \A r \in ConFicha \ {"ready"} : cola'[r] = cola[r]
        BY <2>1 DEF Encolar, IInvSem, IInv, Tipos, TipoCola, ConFicha, Colas
    <2> QED BY <1>4, <2>1, <2>2
<1>7. CASE TerminarSemPost(k)
    <2>1. /\ En(k, "semRetener") /\ Ir(k, "semLog")
          /\ UNCHANGED <<cola, colaIO, tomado, colaSem, despierta>>
        BY <1>7 DEF TerminarSemPost, EnSem, SinPlanificar, io, cuentas, enCurso
    <2> QED BY <1>0, <2>1, OrdenDePedido
<1> QED BY <1>1, <1>2, <1>3, <1>5, <1>6, <1>7 DEF SemPost

\* Initially nobody has a token.
LEMMA OrdenInit == InitSem => EnOrden
<1> SUFFICES ASSUME InitSem PROVE EnOrden
    OBVIOUS
<1>1. /\ cola = [q \in Colas |-> <<>>] /\ colaIO = [d \in Dispositivos |-> <<>>]
      /\ colaSem = [i \in Semaforos |-> <<>>]
      /\ \A t \in Hilos : tomado[t] = Nadie
      /\ \A k \in CPUs : despierta[k] = Nadie
    BY DEF InitSem, Init
<1>2. \A c : Apariciones(<<>>, c) = 0
    <2>1. \A c : Donde(<<>>, c) = {}
        BY DEF Donde
    <2> QED BY <2>1, FS_EmptySet DEF Apariciones
<1>3. ConFicha \subseteq Colas /\ CPUs \subseteq Hilos /\ Nadie \notin Carpinchos
    BY LosHilos, ConstantesOK DEF ConFicha, Colas, ConstantesOK
<1>4. ASSUME NEW c \in Carpinchos, NEW v, NEW p, EsLugar(v, p) PROVE Fichas(v, p, c) = 0
    <2>1. CASE v = "mano" /\ p \in Hilos
        <3>1. ~Lleva(p, c)
            BY <1>1, <1>3, <2>1 DEF Lleva
        <3> QED BY <2>1, <3>1 DEF Fichas, Uno
    <2>2. CASE v # "mano"
        BY <1>1, <1>2, <1>3, <1>4, <2>2 DEF Fichas, EsLugar
    <2> QED BY <1>4, <2>1, <2>2 DEF EsLugar
<1>5. Unicas /\ Sueltas
    <2>1. \A c \in Carpinchos : \A v, p : EsLugar(v, p) =>
              Fichas(v, p, c) <= 1 /\ ~(Fichas(v, p, c) > 0)
        BY <1>4
    <2> QED BY <1>4, <2>1 DEF Unicas, Sueltas
<1>6. \A k \in CPUs : pc[k] \notin Atendiendo \cup {"despachar"}
    BY LosHilos DEF InitSem, Init, Atendiendo, EtiquetasSem, Hilos, Planificadores
<1>7. Servidos
    BY <1>6 DEF Servidos, Servido
<1> QED BY <1>5, <1>7 DEF EnOrden

\* The tokens are in order after every step.
LEMMA OrdenSiempre == UnaCPU /\ IInvSem /\ EnOrden /\ [NextSem]_varsTodo => EnOrden'
<1> SUFFICES ASSUME UnaCPU, IInvSem, EnOrden, [NextSem]_varsTodo PROVE EnOrden'
    OBVIOUS
<1>0. IInvSem'
    BY IInvSemNext
<1>1. CASE UNCHANGED varsTodo
    <2>1. UNCHANGED <<cola, colaIO, colaSem, pc, tomado, despierta>>
        BY <1>1 DEF varsTodo, vars, varsSem, io, cuentas, enCurso
    <2> QED BY <2>1, OrdenIgual
<1>2. CASE Next /\ UNCHANGED varsSem
    BY <1>0, <1>2, OrdenNext
<1>3. ASSUME NEW k \in CPUs,
             \/ SemInit(k) \/ SemWait(k) \/ SemPost(k) \/ SemDestroy(k)
             \/ FinPedido(k) \/ UsarColgado(k)
      PROVE  EnOrden'
    <2>1. CASE UsarColgado(k)
        BY <2>1, OrdenCaer DEF UsarColgado
    <2> QED BY <1>0, <1>3, <2>1, OrdenSemInit, OrdenSemWait, OrdenSemPost, OrdenSemDestroy,
               OrdenFinPedido
<1> QED BY <1>1, <1>2, <1>3 DEF NextSem
-----------------------------------------------------------------------------
(* The list of the semaphores.                                             *)

\* What it is to be in a list.
LEMMA EnLista ==
    ASSUME NEW S, NEW l \in Seq(S), NEW x
    PROVE  /\ x \in ToSet(l) <=> Apariciones(l, x) > 0
           /\ Contains(l, x) <=> x \in ToSet(l)
           /\ x \in ToSet(l) => x \in S
<1>1. Len(l) \in Nat /\ DOMAIN l = 1..Len(l) /\ \A i \in 1..Len(l) : l[i] \in S
    BY LenProperties, ElementOfSeq
<1>2. x \in ToSet(l) <=> \E i \in 1..Len(l) : l[i] = x
    BY <1>1 DEF ToSet
<1> QED BY <1>1, <1>2, AparicionesNat DEF Contains

\* The list after an append and after the removal of what it has once.
LEMMA ListaMas ==
    ASSUME NEW S, NEW l \in Seq(S), NEW x \in S
    PROVE  Append(l, x) \in Seq(S) /\ ToSet(Append(l, x)) = ToSet(l) \cup {x}
<1>1. Append(l, x) \in Seq(S)
    BY AppendProperties
<1>2. \A c : Apariciones(Append(l, x), c) = Apariciones(l, c) + Uno(x = c) /\ Apariciones(l, c) \in Nat
    BY AparicionesAppend, AparicionesNat
<1>3. ASSUME NEW c PROVE c \in ToSet(Append(l, x)) <=> c \in ToSet(l) \/ c = x
    <2>1. c \in ToSet(Append(l, x)) <=> Apariciones(Append(l, x), c) > 0
        BY <1>1, EnLista
    <2>2. c \in ToSet(l) <=> Apariciones(l, c) > 0
        BY EnLista
    <2>3. Uno(x = c) \in Nat /\ (x = c <=> Uno(x = c) > 0)
        BY DEF Uno
    <2> QED BY <1>2, <2>1, <2>2, <2>3
<1> QED BY <1>1, <1>3

\* The removal of an element that is in a list once.
LEMMA ListaMenos ==
    ASSUME NEW S, NEW l \in Seq(S), NEW x \in ToSet(l), Apariciones(l, x) <= 1
    PROVE  /\ RemoveFirst(l, x) \in Seq(S) /\ ToSet(RemoveFirst(l, x)) = ToSet(l) \ {x}
           /\ \A c : Apariciones(RemoveFirst(l, x), c) <= Apariciones(l, c)
<1>1. Contains(l, x) /\ x \in S
    BY EnLista
<1>2. RemoveFirst(l, x) \in Seq(S)
    BY <1>1, QuitarPrimero
<1>3. ASSUME NEW c
      PROVE  /\ Apariciones(RemoveFirst(l, x), c) = Apariciones(l, c) - Uno(x = c)
             /\ Apariciones(l, c) \in Nat
    <2>1. Uno(x = c /\ Contains(l, x)) = Uno(x = c)
        BY <1>1
    <2> QED BY <2>1, AparicionesQuitar, AparicionesNat
<1>4. ASSUME NEW c PROVE c \in ToSet(RemoveFirst(l, x)) <=> c \in ToSet(l) /\ c # x
    <2>1. c \in ToSet(RemoveFirst(l, x)) <=> Apariciones(RemoveFirst(l, x), c) > 0
        BY <1>2, EnLista
    <2>2. c \in ToSet(l) <=> Apariciones(l, c) > 0
        BY EnLista
    <2>3. Uno(x = c) = (IF x = c THEN 1 ELSE 0)
        BY DEF Uno
    <2> QED BY <1>3, <2>1, <2>2, <2>3
<1>5. ASSUME NEW c PROVE Apariciones(RemoveFirst(l, x), c) <= Apariciones(l, c)
    <2> DEFINE a == Apariciones(RemoveFirst(l, x), c)  b == Apariciones(l, c)  n == Uno(x = c)
    <2>1. a = b - n /\ b \in Nat /\ n \in Nat
        BY <1>3 DEF Uno
    <2> HIDE DEF a, b, n
    <2>2. a <= b
        BY <2>1
    <2> QED BY <2>2 DEF a, b
<1> QED BY <1>2, <1>4, <1>5

\* What list_find2 returns is in the list; if it returns nothing, no semaphore
\* of the list has the name.
LEMMA BuscarEnLista ==
    ASSUME listaSem \in Seq(Semaforos), NEW n
    PROVE  /\ Buscar(n) # Nadie => Buscar(n) \in ToSet(listaSem)
           /\ Buscar(n) = Nadie => \A s \in ToSet(listaSem) : nombre[s] # n
<1> DEFINE I == {i \in 1..Len(listaSem) : nombre[listaSem[i]] = n}
           p == SelectInSeq(listaSem, LAMBDA s : nombre[s] = n)
<1>0. /\ Len(listaSem) \in Nat /\ DOMAIN listaSem = 1..Len(listaSem)
      /\ \A i \in 1..Len(listaSem) : listaSem[i] \in Semaforos
      /\ Nadie \notin Semaforos
    BY LenProperties, ElementOfSeq, ConstantesSemOK DEF ConstantesSemOK
<1>1. p = IF I # {} THEN Min(I) ELSE 0
    BY DEF SelectInSeq
<1>2. Buscar(n) = IF p = 0 THEN Nadie ELSE listaSem[p]
    BY DEF Buscar
<1>3. I \in SUBSET Nat /\ \A i \in I : i \in 1..Len(listaSem)
    OBVIOUS
<1>4. I = {} => \A s \in ToSet(listaSem) : nombre[s] # n
    BY <1>0 DEF ToSet
<1> HIDE DEF p, I
<1>5. I # {} => p \in I
    BY <1>1, <1>3, Minimo
<1>6. I # {} => p \in 1..Len(listaSem) /\ p # 0
    <2>1. I # {} => p \in 1..Len(listaSem)
        BY <1>3, <1>5
    <2>2. \A i \in 1..Len(listaSem) : i # 0
        BY <1>0
    <2> QED BY <2>1, <2>2
<1>7. I # {} => Buscar(n) = listaSem[p] /\ Buscar(n) \in ToSet(listaSem) /\ Buscar(n) # Nadie
    BY <1>0, <1>2, <1>6 DEF ToSet
<1>8. I = {} => Buscar(n) = Nadie
    BY <1>1, <1>2
<1> QED BY <1>4, <1>7, <1>8

\* Each semaphore is in the list once, under a name that no other of the list has;
\* what a request works on is there, with an empty queue once SEM_DESTROY has looked, and
\* what SEM_INIT has created has a new name.
ConLista == {"semWait", "semPost", "semDestruir", "semQuitar"}
Buscado(k) ==
    /\ pc[k] \in ConLista => semDe[k] \in ToSet(listaSem)
    /\ pc[k] = "semQuitar" => colaSem[semDe[k]] = <<>>
    /\ pc[k] = "semCrear" =>
         /\ \A s \in ToSet(listaSem) : nombre[s] # nombre[semDe[k]]
         /\ valor[semDe[k]] \in Iniciales
Listados ==
    /\ \A s \in Semaforos : Apariciones(listaSem, s) <= 1
    /\ \A s, r \in ToSet(listaSem) : nombre[s] = nombre[r] => s = r
    /\ \A s \in ToSet(listaSem) : nombre[s] \in NombresSem
    /\ \A k \in CPUs : Buscado(k)

\* Initially the list is empty.
LEMMA ListadosInit == InitSem => Listados
<1> SUFFICES ASSUME InitSem PROVE Listados
    OBVIOUS
<1>1. \A s : Donde(listaSem, s) = {}
    BY DEF InitSem, Donde
<1>2. \A s : Apariciones(listaSem, s) = 0
    BY <1>1, FS_EmptySet DEF Apariciones
<1>3. ToSet(listaSem) = {}
    BY DEF InitSem, ToSet
<1>4. \A k \in CPUs : pc[k] \notin ConLista \cup {"semCrear"}
    BY LosHilos DEF InitSem, Init, ConLista, Hilos, Planificadores
<1> QED BY <1>2, <1>3, <1>4 DEF Listados, Buscado, ConLista

\* The list does not change, and no request finds its semaphore.
LEMMA ListaQuieta ==
    ASSUME Listados, UNCHANGED <<listaSem, nombre>>,
           \A k \in CPUs : pc'[k] \in ConLista \cup {"semCrear"} =>
               /\ pc'[k] = pc[k] /\ semDe'[k] = semDe[k]
               /\ valor'[semDe[k]] = valor[semDe[k]] /\ colaSem'[semDe[k]] = colaSem[semDe[k]]
    PROVE  Listados'
<1>1. /\ \A s : Apariciones(listaSem, s)' = Apariciones(listaSem, s)
      /\ ToSet(listaSem)' = ToSet(listaSem)
    BY DEF Apariciones, Donde, ToSet
<1>2. ASSUME NEW k \in CPUs PROVE Buscado(k)'
    <2>1. Buscado(k)
        BY DEF Listados
    <2> QED BY <1>1, <2>1 DEF Buscado, ConLista
<1> QED BY <1>1, <1>2 DEF Listados

\* The step of the CPU, which serves a request or does not.
LEMMA ListaDelPaso ==
    ASSUME UnaCPU, IInvSem, Listados, NEW k \in CPUs, NEW e, Ir(k, e),
           e \notin ConLista \cup {"semCrear"}, UNCHANGED <<listaSem, nombre>>
    PROVE  Listados'
<1>1. CPUs = {k}
    BY DEF UnaCPU
<1>2. pc'[k] = e
    BY LosHilos DEF Ir, IInvSem, IInv, Tipos, TipoHilos
<1> QED BY <1>1, <1>2, ListaQuieta

\* A search changes no list, and finds a semaphore of the list.
LEMMA ListaEncontrar ==
    ASSUME UnaCPU, IInvSem, Listados, NEW k \in CPUs, NEW n,
           NEW e \in ConLista \ {"semQuitar"}, Encontrar(k, n, e)
    PROVE  Listados'
<1>0. CPUs = {k}
    BY DEF UnaCPU
<1>1. UNCHANGED <<listaSem, nombre, valor, colaSem>>
    BY DEF Encontrar, objetos, cuentas
<1>2. CASE ResponderYa(k)
    BY <1>0, <1>1, <1>2, ListaQuieta DEF ResponderYa
<1>3. CASE /\ Buscar(n) # Nadie /\ Recibir(k, e)
           /\ semDe' = [semDe EXCEPT ![k] = Buscar(n)]
    <2>1. pc'[k] = e /\ semDe'[k] = Buscar(n)
        BY <1>3, AlRecibir, LosHilos
           DEF Ir, IInvSem, IInv, Tipos, TipoHilos, TiposSem, TipoCurso
    <2>2. Buscar(n) \in ToSet(listaSem)
        BY <1>3, BuscarEnLista DEF IInvSem, TiposSem, TipoObjetos
    <2>3. e # "semCrear"
        BY DEF ConLista
    <2>4. /\ \A s : Apariciones(listaSem, s)' = Apariciones(listaSem, s)
          /\ ToSet(listaSem)' = ToSet(listaSem)
        BY <1>1 DEF Apariciones, Donde, ToSet
    <2>5. Buscado(k)'
        BY <2>1, <2>2, <2>3, <2>4 DEF Buscado
    <2> QED BY <1>0, <1>1, <2>4, <2>5 DEF Listados
<1> QED BY <1>2, <1>3 DEF Encontrar

\* SEM_INIT: the name is new, and so is the semaphore that gets it.
LEMMA ListaAtenderInit ==
    ASSUME UnaCPU, IInvSem, Listados, NEW k \in CPUs, AtenderSemInit(k)
    PROVE  Listados'
<1>0. CPUs = {k}
    BY DEF UnaCPU
<1>1. UNCHANGED <<listaSem, colaSem>>
    BY DEF AtenderSemInit
<1>2. CASE ResponderYa(k) /\ UNCHANGED <<nombre, valor>>
    BY <1>0, <1>1, <1>2, ListaQuieta DEF ResponderYa
<1>3. ASSUME NEW n \in NombresSem, NEW i \in Semaforos, NEW v \in Iniciales,
             Buscar(n) = Nadie, nombre[i] = Nadie, Recibir(k, "semCrear"),
             nombre' = [nombre EXCEPT ![i] = n], valor' = [valor EXCEPT ![i] = v],
             semDe' = [semDe EXCEPT ![k] = i]
      PROVE  Listados'
    <2>1. /\ nombre \in [Semaforos -> NombresSem \cup {Nadie}] /\ valor \in [Semaforos -> Int]
          /\ semDe \in [CPUs -> Semaforos \cup {Nadie}] /\ listaSem \in Seq(Semaforos)
          /\ Nadie \notin NombresSem
        BY ConstantesSemOK
           DEF IInvSem, TiposSem, TipoObjetos, TipoCuentas, TipoCurso, ConstantesSemOK
    <2>2. pc'[k] = "semCrear" /\ semDe'[k] = i /\ nombre'[i] = n /\ valor'[i] = v
        BY <1>3, <2>1, AlRecibir, LosHilos DEF Ir, IInvSem, IInv, Tipos, TipoHilos
    <2>3. \A s \in ToSet(listaSem) : s \in Semaforos /\ s # i /\ nombre'[s] = nombre[s] /\ nombre[s] # n
        <3>1. \A s \in ToSet(listaSem) : nombre[s] \in NombresSem /\ nombre[s] # n /\ s \in Semaforos
            BY <1>3, <2>1, BuscarEnLista, EnLista DEF Listados
        <3> QED BY <1>3, <2>1, <3>1
    <2>4. /\ \A s : Apariciones(listaSem, s)' = Apariciones(listaSem, s)
          /\ ToSet(listaSem)' = ToSet(listaSem)
        BY <1>1 DEF Apariciones, Donde, ToSet
    <2>5. "semCrear" \notin ConLista
        BY DEF ConLista
    <2>6. Buscado(k)'
        BY <2>2, <2>3, <2>4, <2>5 DEF Buscado
    <2> QED BY <1>0, <2>3, <2>4, <2>6 DEF Listados
<1> QED BY <1>2, <1>3 DEF AtenderSemInit

\* The new semaphore joins the list ...
LEMMA ListaCrear ==
    ASSUME UnaCPU, IInvSem, Listados, NEW k \in CPUs, CrearSem(k)
    PROVE  /\ Listados'
           /\ semDe[k] \in Semaforos /\ semDe[k] \notin ToSet(listaSem)
           /\ valor[semDe[k]] \in Iniciales
           /\ ToSet(listaSem)' = ToSet(listaSem) \cup {semDe[k]}
<1> DEFINE s == semDe[k]
<1>0. CPUs = {k} /\ "semCrear" \in ConSem /\ "semLog" \notin ConLista \cup {"semCrear"}
    BY DEF UnaCPU, EtiquetasSem, ConSem, ConLista
<1>1. /\ listaSem' = Append(listaSem, s) /\ UNCHANGED nombre /\ EnSem(k, "semCrear")
      /\ Ir(k, "semLog")
    BY DEF CrearSem
<1>2. s \in Semaforos /\ nombre[s] \in NombresSem /\ pc[k] = "semCrear"
    BY <1>0, <1>1, DelPedido DEF EnSem, En, ConSem
<1>3. pc'[k] = "semLog"
    BY <1>1, LosHilos DEF Ir, IInvSem, IInv, Tipos, TipoHilos
<1>4. /\ \A r \in ToSet(listaSem) : nombre[r] # nombre[s]
      /\ valor[s] \in Iniciales
    BY <1>2 DEF Listados, Buscado
<1>5. s \notin ToSet(listaSem) /\ listaSem \in Seq(Semaforos)
    BY <1>4 DEF IInvSem, TiposSem, TipoObjetos
<1> HIDE DEF s
<1>6. ToSet(listaSem)' = ToSet(listaSem) \cup {s}
    <2>1. ToSet(Append(listaSem, s)) = ToSet(listaSem) \cup {s}
        BY <1>2, <1>5, ListaMas
    <2> QED BY <1>1, <2>1 DEF ToSet
<1>7. ASSUME NEW r \in Semaforos PROVE Apariciones(listaSem', r) <= 1
    <2>1. /\ Apariciones(Append(listaSem, s), r) = Apariciones(listaSem, r) + Uno(s = r)
          /\ Apariciones(listaSem, r) \in Nat
        BY <1>2, <1>5, AparicionesAppend, AparicionesNat
    <2>2. CASE s = r
        <3>1. ~(Apariciones(listaSem, r) > 0)
            BY <1>5, <2>2, EnLista
        <3> QED BY <1>1, <2>1, <2>2, <3>1 DEF Uno
    <2>3. CASE s # r
        <3>1. Apariciones(listaSem, r) <= 1
            BY DEF Listados
        <3> QED BY <1>1, <2>1, <2>3, <3>1 DEF Uno
    <2> QED BY <2>2, <2>3
<1>8. \A r \in Semaforos : Apariciones(listaSem, r)' <= 1
    BY <1>7 DEF Apariciones, Donde
<1>9. Buscado(k)'
    BY <1>0, <1>3 DEF Buscado
<1>10. Listados'
    BY <1>0, <1>1, <1>2, <1>4, <1>6, <1>8, <1>9 DEF Listados
<1> QED BY <1>2, <1>4, <1>5, <1>6, <1>10 DEF s

\* ... and the one whose name SEM_DESTROY looks for, which is the one it found before,
\* leaves it.
LEMMA ListaSacar ==
    ASSUME UnaCPU, IInvSem, Listados, NEW k \in CPUs, En(k, "semQuitar"), Ir(k, "semLiberar"),
           semDe[k] \in Semaforos, Buscar(nombre[semDe[k]]) # Nadie, UNCHANGED nombre,
           listaSem' = RemoveFirst(listaSem, Buscar(nombre[semDe[k]]))
    PROVE  /\ Listados'
           /\ semDe[k] \in ToSet(listaSem)
           /\ ToSet(listaSem)' = ToSet(listaSem) \ {semDe[k]}
<1> DEFINE s == semDe[k]
           b == Buscar(nombre[s])
<1>0. CPUs = {k} /\ "semLiberar" \notin ConLista \cup {"semCrear"} /\ "semQuitar" \in ConLista
    BY DEF UnaCPU, ConLista
<1>1. pc[k] = "semQuitar" /\ pc'[k] = "semLiberar"
    BY LosHilos DEF En, Ir, IInvSem, IInv, Tipos, TipoHilos
<1>2. listaSem \in Seq(Semaforos)
    BY DEF IInvSem, TiposSem, TipoObjetos
<1>3. s \in ToSet(listaSem)
    BY <1>0, <1>1 DEF Listados, Buscado
<1>4. b \in ToSet(listaSem) /\ nombre[b] = nombre[s]
    BY <1>2, BuscarEnLista, BuscarEncuentra
<1>5. b = s /\ listaSem' = RemoveFirst(listaSem, b)
    BY <1>3, <1>4 DEF Listados
<1> HIDE DEF s, b
<1>6. Apariciones(listaSem, s) <= 1
    BY <1>2, <1>3, EnLista DEF Listados
<1>7. /\ ToSet(RemoveFirst(listaSem, s)) = ToSet(listaSem) \ {s}
      /\ RemoveFirst(listaSem, s) \in Seq(Semaforos)
      /\ \A c : Apariciones(RemoveFirst(listaSem, s), c) <= Apariciones(listaSem, c)
    BY <1>2, <1>3, <1>6, ListaMenos
<1>8. ToSet(listaSem)' = ToSet(listaSem) \ {s}
    BY <1>5, <1>7 DEF ToSet
<1>9. ASSUME NEW r \in Semaforos PROVE Apariciones(listaSem, r)' <= 1
    <2> DEFINE x == Apariciones(RemoveFirst(listaSem, s), r)  y == Apariciones(listaSem, r)
    <2>1. x <= y /\ y <= 1 /\ x \in Nat /\ y \in Nat
        BY <1>2, <1>7, AparicionesNat DEF Listados
    <2>2. Apariciones(listaSem, r)' = x
        BY <1>5 DEF Apariciones, Donde
    <2> HIDE DEF x, y
    <2>3. x <= 1
        BY <2>1
    <2> QED BY <2>2, <2>3
<1>10. Buscado(k)'
    BY <1>0, <1>1 DEF Buscado
<1>11. Listados'
    BY <1>0, <1>8, <1>9, <1>10 DEF Listados
<1> QED BY <1>3, <1>8, <1>11 DEF s

\* SEM_DESTROY takes one semaphore out of the list.
LEMMA ListaSacarDeLista ==
    ASSUME UnaCPU, IInvSem, Listados, NEW k \in CPUs, SacarDeLista(k)
    PROVE  Listados'
<1>0. CPUs = {k} /\ "semQuitar" \in EtiquetasSem \ {"semLog"}
    BY DEF UnaCPU, EtiquetasSem
<1>1. EnSem(k, "semQuitar") /\ UNCHANGED <<nombre, valor, colaSem, semDe>>
    BY DEF SacarDeLista, cuentas, enCurso
<1>2. En(k, "semQuitar") /\ semDe[k] \in Semaforos
    BY <1>0, <1>1, DelPedido
<1>3. CASE UNCHANGED <<listaSem, pc>>
    BY <1>0, <1>1, <1>3, ListaQuieta
<1>4. CASE /\ Buscar(nombre[semDe[k]]) # Nadie /\ Ir(k, "semLiberar")
           /\ listaSem' = RemoveFirst(listaSem, Buscar(nombre[semDe[k]]))
    BY <1>1, <1>2, <1>4, ListaSacar
<1> QED BY <1>3, <1>4 DEF SacarDeLista

\* Its look at the queue leaves the list as it is, and keeps the semaphore of the request.
LEMMA ListaMirar ==
    ASSUME UnaCPU, IInvSem, Listados, NEW k \in CPUs, MirarCola(k)
    PROVE  Listados'
<1>0. CPUs = {k} /\ "semDestruir" \in ConLista
    BY DEF UnaCPU, ConLista
<1>1. /\ pc[k] = "semDestruir" /\ UNCHANGED <<listaSem, nombre, colaSem, semDe>>
      /\ Ir(k, IF colaSem[semDe[k]] = <<>> THEN "semQuitar" ELSE "semLog")
    BY DEF MirarCola, EnSem, En, varsSem, objetos, cuentas, enCurso
<1>2. pc'[k] = IF colaSem[semDe[k]] = <<>> THEN "semQuitar" ELSE "semLog"
    BY <1>1, LosHilos DEF Ir, IInvSem, IInv, Tipos, TipoHilos
<1>3. semDe[k] \in ToSet(listaSem)
    BY <1>0, <1>1 DEF Listados, Buscado
<1>4. /\ \A s : Apariciones(listaSem, s)' = Apariciones(listaSem, s)
      /\ ToSet(listaSem)' = ToSet(listaSem)
    BY <1>1 DEF Apariciones, Donde, ToSet
<1>5. Buscado(k)'
    BY <1>1, <1>2, <1>3, <1>4 DEF Buscado, ConLista
<1> QED BY <1>0, <1>1, <1>4, <1>5 DEF Listados

\* The steps of a CPU after which its request does not look for a semaphore.
LEMMA ListaOtros ==
    ASSUME UnaCPU, IInvSem, Listados, NEW k \in CPUs,
           \/ RestarInstancia(k) \/ RetenerTomada(k) \/ BloquearEnSem(k) \/ EncolarEnBlocked(k)
           \/ TerminarSemWait(k) \/ SumarInstancia(k) \/ SacarDeSem(k) \/ DespertarDeSem(k)
           \/ DeSemAReady(k) \/ TerminarSemPost(k) \/ DestruirSem(k) \/ FinPedido(k)
    PROVE  Listados'
<1>1. UNCHANGED <<listaSem, nombre>>
    BY DEF RestarInstancia, RetenerTomada, BloquearEnSem, EncolarEnBlocked, TerminarSemWait,
       SumarInstancia, SacarDeSem, DespertarDeSem, DeSemAReady, TerminarSemPost, DestruirSem,
       FinPedido, varsSem, objetos
<1>2. \E e \in {"atender", "semTomada", "semBloquear", "semEncolar", "espSem", "estimar",
                "semPop", "semDespertar", "semAReady", "semRetener", "semLog"} : Ir(k, e)
    BY DEF RestarInstancia, RetenerTomada, BloquearEnSem, EncolarEnBlocked, TerminarSemWait,
       SumarInstancia, SacarDeSem, DespertarDeSem, DeSemAReady, TerminarSemPost, DestruirSem,
       FinPedido, Responder
<1>3. PICK e \in {"atender", "semTomada", "semBloquear", "semEncolar", "espSem", "estimar",
                 "semPop", "semDespertar", "semAReady", "semRetener", "semLog"} : Ir(k, e)
    BY <1>2
<1>4. e \notin ConLista \cup {"semCrear"}
    BY DEF ConLista
<1> QED BY <1>1, <1>3, <1>4, ListaDelPaso

\* Every step keeps the list in order.
LEMMA ListadosSiempre == UnaCPU /\ IInvSem /\ Listados /\ [NextSem]_varsTodo => Listados'
<1> SUFFICES ASSUME UnaCPU, IInvSem, Listados, [NextSem]_varsTodo PROVE Listados'
    OBVIOUS
<1>1. CASE UNCHANGED varsTodo
    <2>1. UNCHANGED <<listaSem, nombre, valor, colaSem, pc, semDe>>
        BY <1>1 DEF varsTodo, vars, varsSem, objetos, cuentas, enCurso
    <2> QED BY <2>1, ListaQuieta
<1>2. CASE Next /\ UNCHANGED varsSem
    <2>1. UNCHANGED <<listaSem, nombre, valor, colaSem, semDe>>
        BY <1>2 DEF varsSem, objetos, cuentas, enCurso
    <2>2. ConLista \cup {"semCrear"} \subseteq EtiquetasSem
        BY DEF ConLista, EtiquetasSem
    <2>3. \A k \in CPUs : pc'[k] \in EtiquetasSem => pc'[k] = pc[k]
        BY <1>2, NoEntraEnPedido DEF IInvSem, IInv
    <2> QED BY <2>1, <2>2, <2>3, ListaQuieta
<1>3. ASSUME NEW k \in CPUs, UsarColgado(k) PROVE Listados'
    <2>1. UNCHANGED <<listaSem, nombre, valor, colaSem, pc, semDe>>
        BY <1>3 DEF UsarColgado, Caer, varsSem, objetos, cuentas, enCurso
    <2> QED BY <2>1, ListaQuieta
<1>4. ASSUME NEW k \in CPUs, SemInit(k) \/ SemDestroy(k) PROVE Listados'
    BY <1>4, ListaAtenderInit, ListaCrear, ListaEncontrar, ListaMirar, ListaSacarDeLista,
       ListaOtros
       DEF SemInit, SemDestroy, AtenderSemDestroy, ConLista
<1>5. ASSUME NEW k \in CPUs, SemWait(k) \/ SemPost(k) PROVE Listados'
    BY <1>5, ListaEncontrar, ListaOtros
       DEF SemWait, SemPost, AtenderSemWait, AtenderSemPost, ConLista
<1>6. ASSUME NEW k \in CPUs, FinPedido(k) PROVE Listados'
    BY <1>6, ListaOtros
<1> QED BY <1>1, <1>2, <1>3, <1>4, <1>5, <1>6 DEF NextSem
-----------------------------------------------------------------------------
(* The requests implement SemaforosAbstractos.                             *)

\* The sequence of a set with no element or one, and what it adds to a queue.
LEMMA SecuenciaDe ==
    /\ SetToSeq({}) = <<>>
    /\ \A c : SetToSeq({c}) = <<c>>
<1>1. SetToSeq({}) = <<>>
    <2> DEFINE F == [1..Cardinality({}) -> {}]
    <2>1. Cardinality({}) = 0 /\ 1..0 = {}
        BY FS_EmptySet
    <2>2. <<>> \in F /\ IsInjective(<<>>)
        BY <2>1 DEF IsInjective
    <2>3. SetToSeq({}) \in F
        BY <2>2 DEF SetToSeq
    <2>4. SetToSeq({}) \in Seq({}) /\ Len(SetToSeq({})) = 0
        BY <2>1, <2>3
    <2> QED BY <2>4, EmptySeq
<1>2. ASSUME NEW c PROVE SetToSeq({c}) = <<c>>
    <2> DEFINE F == [1..Cardinality({c}) -> {c}]
    <2>1. Cardinality({c}) = 1 /\ 1..1 = {1}
        <3>1. Cardinality({c}) = 1
            BY FS_Singleton
        <3> QED BY <3>1
    <2>2. <<c>> \in F
        <3>1. <<c>> \in [1..1 -> {c}]
            OBVIOUS
        <3> QED BY <2>1, <3>1
    <2>4. IsInjective(<<c>>)
        BY <2>1 DEF IsInjective
    <2>3. SetToSeq({c}) \in F
        BY <2>2, <2>4 DEF SetToSeq
    <2> QED BY <2>1, <2>3
<1> QED BY <1>1, <1>2

\* A queue with nobody more, or with one.
LEMMA Pegar ==
    ASSUME NEW S, NEW q \in Seq(S), NEW c \in S
    PROVE  q \o <<>> = q /\ q \o <<c>> = Append(q, c)
OBVIOUS

Disponibles == [s \in Semaforos |->
                  IF Contains(listaSem, s) /\ valor[s] > 0 THEN valor[s] ELSE 0]
Esperando == [s \in Semaforos |-> ColaPrevista(s)]

\* What the abstract state is, with one CPU.
Vistas ==
    /\ \A s \in Semaforos : Contains(listaSem, s) <=> s \in ToSet(listaSem)
    /\ ToSet(listaSem) \subseteq Semaforos
    /\ \A k \in CPUs, s \in Semaforos :
         /\ semDe[k] = s /\ pc[k] = "semPop" /\ colaSem[s] # <<>>
              => ColaPrevista(s) = Tail(colaSem[s])
         /\ semDe[k] = s /\ pc[k] = "semBloquear"
              => ColaPrevista(s) = Append(colaSem[s], tomado[k])
         /\ ~(semDe[k] = s /\ pc[k] \in {"semPop", "semBloquear"})
              => ColaPrevista(s) = colaSem[s]

\* With one CPU the queue foreseen differs from the queue by the request under way.
LEMMA SonVistas == UnaCPU /\ IInvSem => Vistas
<1> SUFFICES ASSUME UnaCPU, IInvSem PROVE Vistas
    OBVIOUS
<1>1. \A s : /\ Contains(listaSem, s) <=> s \in ToSet(listaSem)
             /\ s \in ToSet(listaSem) => s \in Semaforos
    BY EnLista DEF IInvSem, TiposSem, TipoObjetos
<1>2. ASSUME NEW k \in CPUs, NEW s \in Semaforos
      PROVE  /\ semDe[k] = s /\ pc[k] = "semPop" /\ colaSem[s] # <<>>
                  => ColaPrevista(s) = Tail(colaSem[s])
             /\ semDe[k] = s /\ pc[k] = "semBloquear"
                  => ColaPrevista(s) = Append(colaSem[s], tomado[k])
             /\ ~(semDe[k] = s /\ pc[k] \in {"semPop", "semBloquear"})
                  => ColaPrevista(s) = colaSem[s]
    <2>1. CPUs = {k} /\ colaSem[s] \in Seq(Carpinchos)
        BY DEF UnaCPU, IInvSem, TiposSem, TipoCuentas
    <2> DEFINE A(e) == {h \in CPUs : semDe[h] = s /\ pc[h] = e}
               B == {tomado[h] : h \in A("semBloquear")}
    <2>2. ASSUME NEW e
          PROVE  /\ semDe[k] = s /\ pc[k] = e => A(e) = {k} /\ EnEse(s, e) = 1
                 /\ ~(semDe[k] = s /\ pc[k] = e) => A(e) = {} /\ EnEse(s, e) = 0
        <3>1. semDe[k] = s /\ pc[k] = e => A(e) = {k}
            BY <2>1
        <3>2. ~(semDe[k] = s /\ pc[k] = e) => A(e) = {}
            BY <2>1
        <3>3. EnEse(s, e) = Cardinality(A(e))
            BY DEF EnEse
        <3> HIDE DEF A
        <3> QED BY <3>1, <3>2, <3>3, FS_EmptySet, FS_Singleton
    <2>3. ColaPrevista(s) = (IF EnEse(s, "semPop") > 0 THEN Tail(colaSem[s]) ELSE colaSem[s])
                            \o SetToSeq(B)
        BY DEF ColaPrevista
    <2>4. /\ semDe[k] = s /\ pc[k] = "semBloquear" => B = {tomado[k]}
          /\ ~(semDe[k] = s /\ pc[k] = "semBloquear") => B = {}
        BY <2>2
    <2> HIDE DEF A, B
    <2>5. CASE semDe[k] = s /\ pc[k] = "semPop" /\ colaSem[s] # <<>>
        <3>1. EnEse(s, "semPop") = 1 /\ B = {}
            BY <2>2, <2>4, <2>5
        <3>2. Tail(colaSem[s]) \in Seq(Carpinchos)
            BY <2>1, <2>5, HeadTailProperties
        <3>3. ColaPrevista(s) = Tail(colaSem[s]) \o <<>>
            BY <2>3, <3>1, SecuenciaDe
        <3>4. Tail(colaSem[s]) \o <<>> = Tail(colaSem[s])
            BY <3>2
        <3> QED BY <2>5, <3>3, <3>4
    <2>6. CASE semDe[k] = s /\ pc[k] = "semBloquear"
        <3>1. EnEse(s, "semPop") = 0 /\ B = {tomado[k]} /\ tomado[k] \in Carpinchos
            BY <2>2, <2>4, <2>6 DEF IInvSem, TiposSem, ManosSem, EnPedido, EtiquetasSem
        <3>2. ColaPrevista(s) = colaSem[s] \o <<tomado[k]>>
            <4>1. ~(EnEse(s, "semPop") > 0) /\ SetToSeq(B) = <<tomado[k]>>
                <5>1. SetToSeq({tomado[k]}) = <<tomado[k]>>
                    BY ONLY SecuenciaDe
                <5>2. SetToSeq(B) = SetToSeq({tomado[k]})
                    BY ONLY <3>1
                <5>3. ~(EnEse(s, "semPop") > 0)
                    BY <3>1
                <5> QED BY ONLY <5>1, <5>2, <5>3
            <4> QED BY ONLY <2>3, <4>1
        <3>3. ColaPrevista(s) = Append(colaSem[s], tomado[k])
            BY <2>1, <3>1, <3>2, Pegar
        <3> QED BY <2>6, <3>3
    <2>7. CASE ~(semDe[k] = s /\ pc[k] \in {"semPop", "semBloquear"})
        <3>1. EnEse(s, "semPop") = 0 /\ B = {}
            BY <2>2, <2>4, <2>7
        <3>2. ColaPrevista(s) = colaSem[s] \o <<>>
            <4>1. ~(EnEse(s, "semPop") > 0) /\ SetToSeq(B) = <<>>
                BY <3>1, SecuenciaDe
            <4> QED BY ONLY <2>3, <4>1
        <3>3. ColaPrevista(s) = colaSem[s]
            BY <2>1, <3>2
        <3> QED BY <2>7, <3>3
    <2> QED BY <2>5, <2>6, <2>7
<1> QED BY <1>1, <1>2 DEF Vistas

\* What the abstract state is after a step, semaphore by semaphore.
LEMMA VistaIgual ==
    ASSUME Vistas, Vistas', ToSet(listaSem)' = ToSet(listaSem),
           \A s \in ToSet(listaSem) : valor'[s] = valor[s]
    PROVE  Disponibles' = Disponibles
<1>1. ASSUME NEW s \in Semaforos
      PROVE  (IF Contains(listaSem, s) /\ valor[s] > 0 THEN valor[s] ELSE 0)'
               = IF Contains(listaSem, s) /\ valor[s] > 0 THEN valor[s] ELSE 0
    <2>1. Contains(listaSem, s)' <=> s \in ToSet(listaSem)
        BY DEF Vistas
    <2>2. Contains(listaSem, s) <=> s \in ToSet(listaSem)
        BY DEF Vistas
    <2> QED BY <2>1, <2>2
<1> QED BY <1>1 DEF Disponibles

\* What is available changes for one semaphore only.
LEMMA VistaCambia ==
    ASSUME Vistas, Vistas', NEW s \in Semaforos, NEW n,
           ToSet(listaSem)' \ {s} = ToSet(listaSem) \ {s},
           \A r \in ToSet(listaSem) \ {s} : valor'[r] = valor[r],
           (IF s \in ToSet(listaSem)' /\ valor'[s] > 0 THEN valor'[s] ELSE 0) = n
    PROVE  Disponibles' = [Disponibles EXCEPT ![s] = n]
<1>1. ASSUME NEW r \in Semaforos \ {s}
      PROVE  (IF Contains(listaSem, r) /\ valor[r] > 0 THEN valor[r] ELSE 0)'
               = IF Contains(listaSem, r) /\ valor[r] > 0 THEN valor[r] ELSE 0
    <2>1. Contains(listaSem, r)' <=> r \in ToSet(listaSem)'
        BY DEF Vistas
    <2>2. Contains(listaSem, r) <=> r \in ToSet(listaSem)
        BY DEF Vistas
    <2> QED BY <2>1, <2>2
<1>2. (IF Contains(listaSem, s) /\ valor[s] > 0 THEN valor[s] ELSE 0)' = n
    <2>1. Contains(listaSem, s)' <=> s \in ToSet(listaSem)'
        BY DEF Vistas
    <2> QED BY <2>1
<1> QED BY <1>1, <1>2 DEF Disponibles

\* Nobody waits anew.
LEMMA EsperaIgual ==
    ASSUME \A s \in Semaforos : ColaPrevista(s)' = ColaPrevista(s)
    PROVE  Esperando' = Esperando
BY DEF Esperando

\* The CPU is about to change no queue, before and after the step.
LEMMA ColasIguales ==
    ASSUME UnaCPU, Vistas, Vistas', NEW k \in CPUs, UNCHANGED colaSem,
           {pc[k], pc'[k]} \cap {"semPop", "semBloquear"} = {}
    PROVE  /\ \A s \in Semaforos : ColaPrevista(s) = colaSem[s]
           /\ \A s \in Semaforos : ColaPrevista(s)' = ColaPrevista(s)
           /\ Esperando' = Esperando
<1>1. \A s \in Semaforos : ColaPrevista(s) = colaSem[s] /\ ColaPrevista(s)' = colaSem'[s]
    BY DEF Vistas
<1> QED BY <1>1, EsperaIgual

\* Nothing the queues depend on changes.
LEMMA ColasQuietas ==
    ASSUME UNCHANGED <<colaSem, semDe>>,
           \A k \in CPUs : /\ pc[k] \in EtiquetasSem => pc'[k] = pc[k] /\ tomado'[k] = tomado[k]
                           /\ pc'[k] \in EtiquetasSem => pc[k] \in EtiquetasSem
    PROVE  Esperando' = Esperando
<1>1. ASSUME NEW s \in Semaforos PROVE ColaPrevista(s)' = ColaPrevista(s)
    <2>1. ASSUME NEW e \in EtiquetasSem
          PROVE  {k \in CPUs : semDe'[k] = s /\ pc'[k] = e} = {k \in CPUs : semDe[k] = s /\ pc[k] = e}
        OBVIOUS
    <2>2. "semPop" \in EtiquetasSem /\ "semBloquear" \in EtiquetasSem
        BY DEF EtiquetasSem
    <2>3. EnEse(s, "semPop")' = EnEse(s, "semPop")
        BY <2>1, <2>2 DEF EnEse
    <2>4. {tomado'[k] : k \in {h \in CPUs : semDe'[h] = s /\ pc'[h] = "semBloquear"}}
            = {tomado[k] : k \in {h \in CPUs : semDe[h] = s /\ pc[h] = "semBloquear"}}
        BY <2>1, <2>2
    <2> QED BY <2>3, <2>4 DEF ColaPrevista
<1> QED BY <1>1, EsperaIgual

PasoAbstracto == [Abstractos!Next]_<<ToSet(listaSem), Disponibles, Esperando>>

\* A step that changes nothing of the abstract state is a stutter.
LEMMA SimQuieto ==
    ASSUME ToSet(listaSem)' = ToSet(listaSem), Disponibles' = Disponibles, Esperando' = Esperando
    PROVE  PasoAbstracto
BY DEF PasoAbstracto

\* A step that is one of the abstract actions.
LEMMA SimUna ==
    ASSUME NEW s \in Semaforos,
           \/ Abstractos!Crear(s) \/ Abstractos!Tomar(s) \/ Abstractos!Devolver(s)
           \/ Abstractos!Destruir(s) \/ \E c \in Carpinchos : Abstractos!Esperar(s, c)
    PROVE  PasoAbstracto
BY DEF PasoAbstracto, Abstractos!Next

\* SEM_INIT creates the semaphore when it joins the list.
LEMMA SimCrear ==
    ASSUME UnaCPU, IInvSem, Iniciales \subseteq Nat, Listados, Vistas, Vistas',
           NEW k \in CPUs, CrearSem(k)
    PROVE  PasoAbstracto
<1>0. PICK s \in Semaforos : s = semDe[k]
    BY ListaCrear
<1>1. /\ s \notin ToSet(listaSem) /\ valor[s] \in Iniciales
      /\ ToSet(listaSem)' = ToSet(listaSem) \cup {s}
    BY <1>0, ListaCrear
<1>2. UNCHANGED <<valor, colaSem>> /\ pc[k] = "semCrear" /\ pc'[k] = "semLog"
    BY LosHilos
       DEF CrearSem, EnSem, En, Ir, cuentas, IInvSem, IInv, Tipos, TipoHilos
<1>3. Esperando' = Esperando
    BY <1>2, ColasIguales
<1>4. Disponibles' = [Disponibles EXCEPT ![s] = valor[s]]
    <2>1. valor[s] \in Nat
        BY <1>1
    <2>2. (IF s \in ToSet(listaSem)' /\ valor'[s] > 0 THEN valor'[s] ELSE 0) = valor[s]
        BY <1>1, <1>2, <2>1
    <2> QED BY <1>1, <1>2, <2>2, VistaCambia
<1>5. Abstractos!Crear(s)
    BY <1>1, <1>3, <1>4 DEF Abstractos!Crear, Disponibles, Esperando
<1> QED BY <1>1, <1>5, SimUna

\* SEM_WAIT takes an instance or joins the wait when it changes the value; its PCB,
\* which is in EXEC, waits nowhere.
LEMMA SimRestar ==
    ASSUME UnaCPU, IInvSem, EnOrden, Listados, Vistas, Vistas',
           NEW k \in CPUs, RestarInstancia(k)
    PROVE  PasoAbstracto
<1>0. /\ EnSem(k, "semWait") /\ "semWait" \in EtiquetasSem /\ "semWait" \in ConLista
      /\ UNCHANGED <<listaSem, colaSem, tomado, semDe>>
      /\ valor' = [valor EXCEPT ![semDe[k]] = valor[semDe[k]] - 1]
    BY DEF RestarInstancia, EtiquetasSem, ConLista, objetos, SinPlanificar, enCurso
<1>1. PICK s \in Semaforos : s = semDe[k]
    BY <1>0, DelPedido
<1>2. pc[k] = "semWait" /\ s \in ToSet(listaSem)
    BY <1>0, <1>1 DEF EnSem, En, Listados, Buscado
<1>3. /\ valor[s] \in Int /\ valor'[s] = valor[s] - 1
      /\ \A r \in ToSet(listaSem) \ {s} : valor'[r] = valor[r]
      /\ ToSet(listaSem)' = ToSet(listaSem)
    BY <1>0, <1>1 DEF IInvSem, TiposSem, TipoCuentas, Vistas, ToSet
<1>4. Disponibles[s] = IF valor[s] > 0 THEN valor[s] ELSE 0
    BY <1>2 DEF Disponibles, Vistas
<1>5. CASE valor[s] > 0 /\ Ir(k, "semTomada")
    <2>1. pc'[k] = "semTomada"
        BY <1>5, LosHilos DEF Ir, IInvSem, IInv, Tipos, TipoHilos
    <2>2. Esperando' = Esperando
        BY <1>0, <1>2, <2>1, ColasIguales
    <2>3. (IF s \in ToSet(listaSem)' /\ valor'[s] > 0 THEN valor'[s] ELSE 0) = Disponibles[s] - 1
        BY <1>2, <1>3, <1>4, <1>5
    <2>4. Disponibles' = [Disponibles EXCEPT ![s] = Disponibles[s] - 1]
        BY <1>3, <2>3, VistaCambia
    <2>5. Abstractos!Tomar(s)
        <3>1. s \in ToSet(listaSem) /\ Disponibles[s] > 0
            BY <1>2, <1>3, <1>4, <1>5
        <3> QED BY <1>3, <2>2, <2>4, <3>1 DEF Abstractos!Tomar, Disponibles, Esperando
    <2> QED BY <2>5, SimUna
<1>6. CASE valor[s] <= 0 /\ Ir(k, "semBloquear")
    <2>1. pc'[k] = "semBloquear" /\ semDe'[k] = s
        BY <1>0, <1>1, <1>6, LosHilos DEF Ir, IInvSem, IInv, Tipos, TipoHilos
    <2>2. PICK c \in Carpinchos : c = tomado[k]
        BY <1>0, DelPedido
    <2>3. \A r \in Semaforos : ColaPrevista(r) = colaSem[r]
        BY <1>2 DEF Vistas
    <2>4. /\ ColaPrevista(s)' = Append(colaSem[s], c)
          /\ \A r \in Semaforos \ {s} : ColaPrevista(r)' = colaSem[r]
        BY <1>0, <2>1, <2>2 DEF Vistas
    <2>5. Esperando' = [Esperando EXCEPT ![s] = Append(Esperando[s], c)]
        BY <2>3, <2>4 DEF Esperando
    <2>6. Disponibles' = Disponibles
        <3>1. (IF s \in ToSet(listaSem)' /\ valor'[s] > 0 THEN valor'[s] ELSE 0) = Disponibles[s]
            BY <1>3, <1>4, <1>6
        <3>2. Disponibles' = [Disponibles EXCEPT ![s] = Disponibles[s]]
            BY <1>3, <3>1, VistaCambia
        <3> QED BY <3>2 DEF Disponibles
    <2>7. ASSUME NEW r \in Semaforos PROVE ~Contains(Esperando[r], c)
        <3>1. EsLugar("cola", "exec") /\ Fichas("cola", "exec", c) > 0
            BY <1>2, <2>2 DEF EnOrden, Servidos, Servido, Atendiendo, EtiquetasSem, EsLugar,
               ConFicha, Fichas
        <3>2. EsLugar("sem", r)
            BY DEF EsLugar
        <3>3. ~(Fichas("sem", r, c) > 0)
            BY <3>1, <3>2 DEF EnOrden, Unicas
        <3>4. colaSem[r] \in Seq(Carpinchos)
            BY DEF IInvSem, TiposSem, TipoCuentas
        <3>5. ~Contains(colaSem[r], c)
            BY <3>3, <3>4, EnLista DEF Fichas
        <3> QED BY <2>3, <3>5 DEF Esperando
    <2>8. Abstractos!Esperar(s, c)
        <3>1. s \in ToSet(listaSem) /\ Disponibles[s] = 0
            BY <1>2, <1>3, <1>4, <1>6
        <3>2. \A r \in Semaforos : ~Abstractos!Contains(Esperando[r], c)
            BY <2>7 DEF Contains, Abstractos!Contains
        <3> QED BY <1>3, <2>5, <2>6, <3>1, <3>2 DEF Abstractos!Esperar, Disponibles, Esperando
    <2> QED BY <2>8, SimUna
<1> QED BY <1>1, <1>3, <1>5, <1>6 DEF RestarInstancia

\* The PCB that blocks joins the queue in which it already waits ...
LEMMA SimBloquear ==
    ASSUME UnaCPU, IInvSem, Vistas, Vistas', NEW k \in CPUs, BloquearEnSem(k)
    PROVE  PasoAbstracto
<1>0. /\ EnSem(k, "semBloquear") /\ "semBloquear" \in EtiquetasSem
      /\ Ir(k, "semEncolar") /\ UNCHANGED <<listaSem, valor, semDe, tomado>>
      /\ colaSem' = [colaSem EXCEPT ![semDe[k]] = Append(colaSem[semDe[k]], tomado[k])]
    BY DEF BloquearEnSem, EtiquetasSem, objetos, enCurso
<1>1. PICK s \in Semaforos : s = semDe[k]
    BY <1>0, DelPedido
<1>2. pc[k] = "semBloquear" /\ pc'[k] = "semEncolar"
    BY <1>0, LosHilos DEF EnSem, En, Ir, IInvSem, IInv, Tipos, TipoHilos
<1>3. ASSUME NEW r \in Semaforos PROVE ColaPrevista(r)' = ColaPrevista(r)
    <2>1. ColaPrevista(r)' = colaSem'[r]
        BY <1>2 DEF Vistas
    <2>2. ColaPrevista(r) = IF r = s THEN Append(colaSem[s], tomado[k]) ELSE colaSem[r]
        BY <1>1, <1>2 DEF Vistas
    <2>3. colaSem'[r] = IF r = s THEN Append(colaSem[s], tomado[k]) ELSE colaSem[r]
        BY <1>0, <1>1 DEF IInvSem, TiposSem, TipoCuentas
    <2> QED BY <2>1, <2>2, <2>3
<1>4. ToSet(listaSem)' = ToSet(listaSem)
    BY <1>0 DEF ToSet
<1>5. Disponibles' = Disponibles
    BY <1>0, <1>4, VistaIgual
<1> QED BY <1>3, <1>4, <1>5, EsperaIgual, SimQuieto

\* ... and the one a post pops had already stopped waiting.
LEMMA SimPop ==
    ASSUME UnaCPU, IInvSem, Exactas, Vistas, Vistas', NEW k \in CPUs, SacarDeSem(k)
    PROVE  PasoAbstracto
<1>0. /\ EnSem(k, "semPop") /\ "semPop" \in EtiquetasSem /\ UNCHANGED <<listaSem, valor>>
    BY DEF SacarDeSem, EtiquetasSem, objetos
<1>1. PICK s \in Semaforos : s = semDe[k]
    BY <1>0, DelPedido
<1>2. s \notin semLibres /\ pc[k] = "semPop"
    BY <1>0, <1>1 DEF EnSem, Colgado, En
<1>3. colaSem[s] # <<>>
    BY <1>0, <1>1, <1>2, SoloUnPop DEF Exactas
<1>4. colaSem' = [colaSem EXCEPT ![s] = Tail(colaSem[s])] /\ Ir(k, "semDespertar")
    BY <1>1, <1>3 DEF SacarDeSem
<1>5. pc'[k] = "semDespertar"
    BY <1>4, LosHilos DEF Ir, IInvSem, IInv, Tipos, TipoHilos
<1>6. ASSUME NEW r \in Semaforos PROVE ColaPrevista(r)' = ColaPrevista(r)
    <2>1. ColaPrevista(r)' = colaSem'[r]
        BY <1>5 DEF Vistas
    <2>2. ColaPrevista(r) = IF r = s THEN Tail(colaSem[s]) ELSE colaSem[r]
        BY <1>1, <1>2, <1>3 DEF Vistas
    <2>3. colaSem'[r] = IF r = s THEN Tail(colaSem[s]) ELSE colaSem[r]
        BY <1>4 DEF IInvSem, TiposSem, TipoCuentas
    <2> QED BY <2>1, <2>2, <2>3
<1>7. ToSet(listaSem)' = ToSet(listaSem)
    BY <1>0 DEF ToSet
<1>8. Disponibles' = Disponibles
    BY <1>0, <1>7, VistaIgual
<1> QED BY <1>6, <1>7, <1>8, EsperaIgual, SimQuieto

\* SEM_POST gives the instance to the first that waits when it changes the value: a
\* negative value promises as many as the queue has.
LEMMA SimSumar ==
    ASSUME UnaCPU, IInvSem, Exactas, Listados, Vistas, Vistas',
           NEW k \in CPUs, SumarInstancia(k)
    PROVE  PasoAbstracto
<1>0. /\ EnSem(k, "semPost") /\ "semPost" \in EtiquetasSem /\ "semPost" \in ConLista
      /\ UNCHANGED <<listaSem, colaSem, semDe>>
      /\ valor' = [valor EXCEPT ![semDe[k]] = valor[semDe[k]] + 1]
    BY DEF SumarInstancia, EtiquetasSem, ConLista, objetos, enCurso
<1>1. PICK s \in Semaforos : s = semDe[k]
    BY <1>0, DelPedido
<1>2. pc[k] = "semPost" /\ s \in ToSet(listaSem) /\ s \notin semLibres
    BY <1>0, <1>1 DEF EnSem, En, Colgado, Listados, Buscado
<1>3. /\ valor[s] \in Int /\ valor'[s] = valor[s] + 1
      /\ \A r \in ToSet(listaSem) \ {s} : valor'[r] = valor[r]
      /\ ToSet(listaSem)' = ToSet(listaSem)
    BY <1>0, <1>1 DEF IInvSem, TiposSem, TipoCuentas, Vistas, ToSet
<1>4. Disponibles[s] = IF valor[s] > 0 THEN valor[s] ELSE 0
    BY <1>2 DEF Disponibles, Vistas
<1>5. \A r \in Semaforos : ColaPrevista(r) = colaSem[r]
    BY <1>2 DEF Vistas
\* The queue has as many PCBs as the value promises.
<1>6. Len(colaSem[s]) = (IF valor[s] < 0 THEN -valor[s] ELSE 0) /\ colaSem[s] \in Seq(Carpinchos)
    <2>1. Saldo(s) = 0
        BY <1>2 DEF Exactas
    <2>2. Bloqueados(s) = Deuda(s)
        BY <2>1, SaldoEntero
    <2>3. EnEse(s, "semBloquear") = 0 /\ EnEse(s, "semPop") = 0
        <3>1. CPUs = {k}
            BY DEF UnaCPU
        <3>2. /\ {h \in CPUs : semDe[h] = s /\ pc[h] = "semBloquear"} = {}
              /\ {h \in CPUs : semDe[h] = s /\ pc[h] = "semPop"} = {}
            BY <1>2, <3>1
        <3> QED BY <3>2, FS_EmptySet DEF EnEse
    <2>4. colaSem[s] \in Seq(Carpinchos) /\ Len(colaSem[s]) \in Nat
        BY LenProperties DEF IInvSem, TiposSem, TipoCuentas
    <2> QED BY <2>2, <2>3, <2>4 DEF Bloqueados, Deuda
<1>7. colaSem[s] = <<>> <=> valor[s] >= 0
    BY <1>3, <1>6, EmptySeq
<1>8. CASE valor[s] >= 0 /\ Ir(k, "semLog")
    <2>1. pc'[k] = "semLog"
        BY <1>8, LosHilos DEF Ir, IInvSem, IInv, Tipos, TipoHilos
    <2>2. Esperando' = Esperando
        BY <1>0, <1>2, <2>1, ColasIguales
    <2>3. (IF s \in ToSet(listaSem)' /\ valor'[s] > 0 THEN valor'[s] ELSE 0) = Disponibles[s] + 1
        BY <1>2, <1>3, <1>4, <1>8
    <2>4. Disponibles' = [Disponibles EXCEPT ![s] = Disponibles[s] + 1]
        BY <1>3, <2>3, VistaCambia
    <2>5. Esperando[s] = <<>>
        BY <1>5, <1>7, <1>8 DEF Esperando
    <2>6. Abstractos!Devolver(s)
        BY <1>2, <1>3, <2>2, <2>4, <2>5 DEF Abstractos!Devolver, Disponibles, Esperando
    <2> QED BY <2>6, SimUna
<1>9. CASE valor[s] < 0 /\ Ir(k, "semPop")
    <2>1. pc'[k] = "semPop" /\ semDe'[k] = s
        BY <1>0, <1>1, <1>9, LosHilos DEF Ir, IInvSem, IInv, Tipos, TipoHilos
    <2>2. colaSem[s] # <<>> /\ colaSem' = colaSem
        BY <1>0, <1>3, <1>7, <1>9
    <2>3. /\ ColaPrevista(s)' = Tail(colaSem[s])
          /\ \A r \in Semaforos \ {s} : ColaPrevista(r)' = colaSem[r]
        BY <2>1, <2>2 DEF Vistas
    <2>4. Esperando' = [Esperando EXCEPT ![s] = Tail(Esperando[s])]
        BY <1>5, <2>3 DEF Esperando
    <2>5. Disponibles' = Disponibles
        <3>1. (IF s \in ToSet(listaSem)' /\ valor'[s] > 0 THEN valor'[s] ELSE 0) = Disponibles[s]
            BY <1>3, <1>4, <1>9
        <3>2. Disponibles' = [Disponibles EXCEPT ![s] = Disponibles[s]]
            BY <1>3, <3>1, VistaCambia
        <3> QED BY <3>2 DEF Disponibles
    <2>6. Esperando[s] # <<>> /\ Disponibles[s] = 0
        BY <1>3, <1>4, <1>5, <1>9, <2>2 DEF Esperando
    <2>7. Abstractos!Devolver(s)
        BY <1>2, <1>3, <2>4, <2>5, <2>6 DEF Abstractos!Devolver, Disponibles, Esperando
    <2> QED BY <2>7, SimUna
<1> QED BY <1>1, <1>8, <1>9 DEF SumarInstancia

\* SEM_DESTROY destroys it when it leaves the list: the queue it found empty still is.
LEMMA SimSacarDeLista ==
    ASSUME UnaCPU, IInvSem, Listados, Vistas, Vistas', NEW k \in CPUs, SacarDeLista(k)
    PROVE  PasoAbstracto
<1>0. /\ EnSem(k, "semQuitar") /\ "semQuitar" \in EtiquetasSem
      /\ UNCHANGED <<nombre, valor, colaSem>>
    BY DEF SacarDeLista, EtiquetasSem, cuentas
<1>1. PICK s \in Semaforos : s = semDe[k]
    BY <1>0, DelPedido
<1>2. pc[k] = "semQuitar" /\ En(k, "semQuitar") /\ colaSem[s] = <<>>
    BY <1>0, <1>1 DEF EnSem, En, Listados, Buscado
<1>3. \A r \in Semaforos : ColaPrevista(r) = colaSem[r]
    BY <1>2 DEF Vistas
<1>4. CASE UNCHANGED <<listaSem, pc>>
    <2>1. pc'[k] = "semQuitar"
        BY <1>2, <1>4
    <2>2. Esperando' = Esperando
        BY <1>0, <1>2, <2>1, ColasIguales
    <2>3. ToSet(listaSem)' = ToSet(listaSem)
        BY <1>4 DEF ToSet
    <2>4. Disponibles' = Disponibles
        BY <1>0, <2>3, VistaIgual
    <2> QED BY <2>2, <2>3, <2>4, SimQuieto
<1>5. CASE /\ Buscar(nombre[s]) # Nadie /\ Ir(k, "semLiberar")
           /\ listaSem' = RemoveFirst(listaSem, Buscar(nombre[s]))
    <2>1. s \in ToSet(listaSem) /\ ToSet(listaSem)' = ToSet(listaSem) \ {s}
        BY <1>0, <1>1, <1>2, <1>5, ListaSacar
    <2>2. pc'[k] = "semLiberar"
        BY <1>5, LosHilos DEF Ir, IInvSem, IInv, Tipos, TipoHilos
    <2>3. Esperando' = Esperando
        BY <1>0, <1>2, <2>2, ColasIguales
    <2>4. Disponibles' = [Disponibles EXCEPT ![s] = 0]
        <3>1. (IF s \in ToSet(listaSem)' /\ valor'[s] > 0 THEN valor'[s] ELSE 0) = 0
            BY <2>1
        <3> QED BY <1>0, <2>1, <3>1, VistaCambia
    <2>5. Esperando[s] = <<>>
        BY <1>2, <1>3 DEF Esperando
    <2>6. Abstractos!Destruir(s)
        BY <2>1, <2>3, <2>4, <2>5 DEF Abstractos!Destruir, Disponibles, Esperando
    <2> QED BY <2>6, SimUna
<1> QED BY <1>1, <1>4, <1>5 DEF SacarDeLista

\* The other steps of a request change nothing of the abstract state.
LEMMA SimPaso ==
    ASSUME UnaCPU, Vistas, Vistas', NEW k \in CPUs, UNCHANGED <<listaSem, colaSem>>,
           {pc[k], pc'[k]} \cap {"semPop", "semBloquear"} = {},
           \A s \in ToSet(listaSem) : valor'[s] = valor[s]
    PROVE  PasoAbstracto
<1>1. ToSet(listaSem)' = ToSet(listaSem)
    BY DEF ToSet
<1>2. Disponibles' = Disponibles
    BY <1>1, VistaIgual
<1>3. Esperando' = Esperando
    BY ColasIguales
<1> QED BY <1>1, <1>2, <1>3, SimQuieto

\* Receiving a request, and searching its semaphore, changes nothing.
LEMMA SimRecibir ==
    ASSUME UnaCPU, IInvSem, Listados, Vistas, Vistas', NEW k \in CPUs,
           \/ AtenderSemInit(k)
           \/ \E n \in NombresSem, e \in ConLista \ {"semQuitar"} : Encontrar(k, n, e)
    PROVE  PasoAbstracto
<1>1. UNCHANGED <<listaSem, colaSem>>
    BY DEF AtenderSemInit, Encontrar, objetos, cuentas
<1>2. pc[k] = "atender" /\ pc'[k] \in ConLista \cup {"semCrear", "atender"}
    <2>1. CASE ResponderYa(k)
        BY <2>1 DEF ResponderYa, Pide, Recibe, EnCon, En
    <2>2. ASSUME NEW e \in ConLista \cup {"semCrear"}, Recibir(k, e)
          PROVE  pc[k] = "atender" /\ pc'[k] \in ConLista \cup {"semCrear", "atender"}
        <3>1. En(k, "atender") /\ Ir(k, e)
            BY <2>2, AlRecibir
        <3> QED BY <3>1, LosHilos DEF En, Ir, IInvSem, IInv, Tipos, TipoHilos
    <2> QED BY <2>1, <2>2 DEF AtenderSemInit, Encontrar
<1>3. {pc[k], pc'[k]} \cap {"semPop", "semBloquear"} = {}
    BY <1>2 DEF ConLista
<1>4. ASSUME NEW s \in ToSet(listaSem) PROVE valor'[s] = valor[s]
    <2>1. s \in Semaforos /\ nombre[s] # Nadie /\ valor \in [Semaforos -> Int]
        BY ConstantesSemOK DEF Listados, Vistas, IInvSem, TiposSem, TipoCuentas, ConstantesSemOK
    <2> QED BY <2>1 DEF AtenderSemInit, Encontrar, cuentas
<1> QED BY <1>1, <1>3, <1>4, SimPaso

\* The rest of a wait, a post or a destruction changes nothing.
LEMMA SimOtros ==
    ASSUME UnaCPU, IInvSem, Vistas, Vistas', NEW k \in CPUs,
           \/ RetenerTomada(k) \/ EncolarEnBlocked(k) \/ TerminarSemWait(k)
           \/ DespertarDeSem(k) \/ DeSemAReady(k) \/ TerminarSemPost(k)
           \/ MirarCola(k) \/ DestruirSem(k) \/ FinPedido(k)
    PROVE  PasoAbstracto
<1>1. UNCHANGED <<listaSem, colaSem, valor>>
    BY DEF RetenerTomada, EncolarEnBlocked, TerminarSemWait, DespertarDeSem, DeSemAReady,
       TerminarSemPost, MirarCola, DestruirSem, FinPedido, varsSem, objetos, cuentas
<1>2. pc[k] \in {"semTomada", "semEncolar", "espSem", "semDespertar", "semAReady", "semRetener",
                "semDestruir", "semLiberar", "semLog"}
    BY DEF RetenerTomada, EncolarEnBlocked, TerminarSemWait, DespertarDeSem, DeSemAReady,
       TerminarSemPost, MirarCola, DestruirSem, FinPedido, EnSem, En
<1>3. \E e \in {"atender", "espSem", "estimar", "semAReady", "semRetener", "semQuitar", "semLog"} :
          Ir(k, e)
    BY DEF RetenerTomada, EncolarEnBlocked, TerminarSemWait, DespertarDeSem, DeSemAReady,
       TerminarSemPost, MirarCola, DestruirSem, FinPedido, Responder
<1>4. pc'[k] \in {"atender", "espSem", "estimar", "semAReady", "semRetener", "semQuitar", "semLog"}
    BY <1>3, LosHilos DEF Ir, IInvSem, IInv, Tipos, TipoHilos
<1>5. {pc[k], pc'[k]} \cap {"semPop", "semBloquear"} = {}
    BY <1>2, <1>4
<1> QED BY <1>1, <1>5, SimPaso

\* Every step is one of the abstract semaphores, or changes nothing of theirs.
LEMMA Simula ==
    ASSUME UnaCPU, Iniciales \subseteq Nat, IInvSem, Exactas, EnOrden, Listados, Vistas, Vistas',
           [NextSem]_varsTodo
    PROVE  PasoAbstracto
<1>1. ASSUME UNCHANGED <<listaSem, valor, colaSem, semDe>>,
             \A k \in CPUs : /\ pc[k] \in EtiquetasSem => pc'[k] = pc[k] /\ tomado'[k] = tomado[k]
                             /\ pc'[k] \in EtiquetasSem => pc[k] \in EtiquetasSem
      PROVE  PasoAbstracto
    <2>1. ToSet(listaSem)' = ToSet(listaSem)
        BY <1>1 DEF ToSet
    <2>2. Disponibles' = Disponibles
        BY <1>1, <2>1, VistaIgual
    <2>3. Esperando' = Esperando
        BY <1>1, ColasQuietas
    <2> QED BY <2>1, <2>2, <2>3, SimQuieto
<1>2. CASE UNCHANGED varsTodo
    BY <1>1, <1>2 DEF varsTodo, vars, varsSem, objetos, cuentas, enCurso
<1>3. CASE Next /\ UNCHANGED varsSem
    <2>1. UNCHANGED <<listaSem, valor, colaSem, semDe>>
        BY <1>3 DEF varsSem, objetos, cuentas, enCurso
    <2>2. \A k \in CPUs : /\ pc[k] \in EtiquetasSem => pc'[k] = pc[k] /\ tomado'[k] = tomado[k]
                          /\ pc'[k] \in EtiquetasSem => pc[k] \in EtiquetasSem
        BY <1>3, NoEntraEnPedido DEF IInvSem, IInv
    <2> QED BY <1>1, <2>1, <2>2
<1>4. ASSUME NEW k \in CPUs, UsarColgado(k) PROVE PasoAbstracto
    <2>1. UNCHANGED <<listaSem, valor, colaSem, semDe, pc, tomado>>
        BY <1>4 DEF UsarColgado, Caer, varsSem, objetos, cuentas, enCurso
    <2> QED BY <1>1, <2>1
<1>5. ASSUME NEW k \in CPUs, SemInit(k) \/ SemDestroy(k) PROVE PasoAbstracto
    <2>1. CASE SemInit(k)
        BY <2>1, SimRecibir, SimCrear DEF SemInit
    <2>2. CASE SemDestroy(k)
        BY <2>2, SimRecibir, SimSacarDeLista, SimOtros
           DEF SemDestroy, AtenderSemDestroy, ConLista
    <2> QED BY <1>5, <2>1, <2>2
<1>6. ASSUME NEW k \in CPUs, SemWait(k) PROVE PasoAbstracto
    BY <1>6, SimRecibir, SimRestar, SimBloquear, SimOtros DEF SemWait, AtenderSemWait, ConLista
<1>7. ASSUME NEW k \in CPUs, SemPost(k) PROVE PasoAbstracto
    BY <1>7, SimRecibir, SimSumar, SimPop, SimOtros DEF SemPost, AtenderSemPost, ConLista
<1>8. ASSUME NEW k \in CPUs, FinPedido(k) PROVE PasoAbstracto
    BY <1>8, SimOtros
<1> QED BY <1>2, <1>3, <1>4, <1>5, <1>6, <1>7, <1>8 DEF NextSem

\* The initial states map to the initial state.
LEMMA SimInit == UnaCPU /\ InitSem => Abstractos!Init
<1> SUFFICES ASSUME UnaCPU, InitSem PROVE Abstractos!Init
    OBVIOUS
<1>1. IInvSem /\ Vistas
    BY IInvSemInit, SonVistas
<1>2. ToSet(listaSem) = {}
    BY DEF InitSem, ToSet
<1>3. Disponibles = [s \in Semaforos |-> 0]
    BY DEF Disponibles, InitSem
<1>4. \A k \in CPUs : pc[k] \notin {"semPop", "semBloquear"}
    BY LosHilos DEF InitSem, Init, Hilos, Planificadores
<1>5. \A s \in Semaforos : ColaPrevista(s) = <<>>
    <2>1. PICK k \in CPUs : TRUE
        BY DEF UnaCPU
    <2>2. \A s \in Semaforos : ColaPrevista(s) = colaSem[s]
        BY <1>1, <1>4, <2>1 DEF Vistas
    <2> QED BY <2>2 DEF InitSem
<1>6. Esperando = [s \in Semaforos |-> <<>>]
    BY <1>5 DEF Esperando
<1> QED BY <1>2, <1>3, <1>6 DEF Abstractos!Init, Disponibles, Esperando

\* With one CPU, and when no semaphore is created with a negative value, the requests
\* implement the abstract semaphores: creating, taking, returning and destroying are
\* each one step, an instance that is returned goes to the first that waits, and a
\* semaphore somebody waits for is not destroyed.
THEOREM SonSemaforosSiempre ==
    ASSUME UnaCPU, Iniciales \subseteq Nat
    PROVE  SpecSem => SonSemaforos
<1>1. InitSem => Abstractos!Init
    BY SimInit
<1>2. IInvSem => Vistas
    BY SonVistas
<1>3. IInvSem /\ EnOrden /\ [NextSem]_varsTodo => EnOrden'
    BY OrdenSiempre
<1>4. IInvSem /\ Listados /\ [NextSem]_varsTodo => Listados'
    BY ListadosSiempre
<1>5. IInvSem /\ Exactas /\ [NextSem]_varsTodo => Exactas'
    BY ExactasNext
<1>6. IInvSem /\ Exactas /\ EnOrden /\ Listados /\ Vistas /\ Vistas' /\ [NextSem]_varsTodo
        => [Abstractos!Next]_<<ToSet(listaSem), Disponibles, Esperando>>
    BY Simula DEF PasoAbstracto
<1>7. SpecSem => [](IInvSem /\ Exactas /\ EnOrden /\ Listados /\ Vistas)
    BY <1>2, <1>3, <1>4, <1>5, IInvSemSiempre, ExactasInit, OrdenInit, ListadosInit, PTL
       DEF SpecSem
<1>8. SpecSem => Abstractos!Init /\ [][Abstractos!Next]_<<ToSet(listaSem), Disponibles, Esperando>>
    BY <1>1, <1>6, <1>7, PTL DEF SpecSem
<1> QED BY <1>8, PTL DEF SonSemaforos, Abstractos!Spec, Disponibles, Esperando
=============================================================================
