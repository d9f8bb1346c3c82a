--------------------------- MODULE DormidosProofs ---------------------------
(* Theorems about Semaforos with one CPU and no devices: what the deadlock *)
(* detector reads of a PCB that waits, and the degree of multiprogramming. *)
EXTENDS EsperasProofs, GradoProofs

-----------------------------------------------------------------------------
(* A PCB that waits for a semaphore is in the semaphore's queue and in one  *)
(* of the lists of blocked PCBs, the one its status says.                   *)

\* The CPU is moving c: it is in the semaphore's queue and not yet in BLOCKED, or in
\* neither and still waits for the semaphore.
AMedias(c) ==
    \E k \in CPUs : \/ tomado[k] = c /\ pc[k] = "semEncolar"
                    \/ despierta[k] = c /\ pc[k] \in {"semAReady", "semRetener"}
Parado(c) == espera[c] # Nadie /\ ~AMedias(c)

\* It is in one list of the blocked, once, and its status names that list.
Parada(c) ==
    \/ estado[c] = "BLOCKED" /\ Veces(c, "blocked") = 1 /\ Veces(c, "susblocked") = 0
    \/ estado[c] = "SUSBLOCKED" /\ Veces(c, "blocked") = 0 /\ Veces(c, "susblocked") = 1
\* Nobody else is in either: no entry is stale.
EnSuLista(c) ==
    IF Parado(c) THEN Parada(c) ELSE Veces(c, "blocked") = 0 /\ Veces(c, "susblocked") = 0
\* It is in no other semaphore's queue, and it is in that one or in a post's hand.
EnSuCola(c) ==
    /\ \A s \in Semaforos : Contains(colaSem[s], c) =>
           espera[c] = s /\ \A k \in CPUs : despierta[k] # c
    /\ espera[c] # Nadie => \/ Contains(colaSem[espera[c]], c)
                            \/ \E k \in CPUs : despierta[k] = c /\ pc[k] \in ConDespierto
\* A post keeps the PCB it has woken until its answer.
DuranteElPedido(k) ==
    /\ pc[k] = "semEncolar" => /\ estado[tomado[k]] = "BLOCKED"
                               /\ espera[tomado[k]] = semDe[k]
                               /\ Contains(colaSem[semDe[k]], tomado[k])
    /\ despierta[k] # Nadie => \/ pc[k] = "semLog"
                               \/ pc[k] \in ConDespierto /\ espera[despierta[k]] # Nadie
Dormidos ==
    /\ \A c \in Carpinchos : EnSuLista(c) /\ EnSuCola(c)
    /\ \A k \in CPUs : DuranteElPedido(k)

\* A PCB whose token is elsewhere does not wait in a list.
LEMMA ConOtraFicha ==
    ASSUME IInvSem, Unicas, Dormidos, NEW x \in Carpinchos, NEW v, NEW p, EsLugar(v, p),
           Fichas(v, p, x) > 0, v # "sem", v = "mano" => p \notin CPUs
    PROVE  ~Parado(x) /\ \A k \in CPUs : pc[k] = "semEncolar" => tomado[k] # x
<1>1. ASSUME NEW s \in Semaforos, Contains(colaSem[s], x) PROVE FALSE
    <2>1. colaSem[s] \in Seq(Carpinchos)
        BY DEF IInvSem, TiposSem, TipoCuentas
    <2>2. Fichas("sem", s, x) > 0 /\ EsLugar("sem", s)
        BY <1>1, <2>1, EnLista DEF Fichas, EsLugar
    <2> QED BY <2>2 DEF Unicas
<1>2. ASSUME NEW k \in CPUs, despierta[k] = x, pc[k] \in ConDespierto PROVE AMedias(x)
    <2>2. CASE pc[k] = "semDespertar"
        <3>1. Fichas("mano", k, x) > 0 /\ EsLugar("mano", k)
            BY <1>2, <2>2, LosHilos DEF Fichas, EsLugar, Lleva, AlDespertar, Uno
        <3> QED BY <3>1 DEF Unicas
    <2> QED BY <1>2, <2>2 DEF AMedias, ConDespierto
<1>3. ~Parado(x)
    <2>1. espera[x] \in Semaforos \cup {Nadie}
        BY DEF IInvSem, TiposSem, TipoDeadlock
    <2> QED BY <1>1, <1>2, <2>1 DEF Parado, Dormidos, EnSuCola
<1>4. ASSUME NEW k \in CPUs, pc[k] = "semEncolar", tomado[k] = x PROVE FALSE
    <2>1. semDe[k] \in Semaforos
        BY <1>4 DEF IInvSem, TiposSem, ManosSem, EnPedido, EtiquetasSem, ConSem
    <2> QED BY <1>1, <1>4, <2>1 DEF Dormidos, DuranteElPedido
<1> QED BY <1>3, <1>4

\* The scheduler's steps leave the CPU where it is inside a request.
LEMMA NadieSeMueve ==
    ASSUME IInvSem, Next, UNCHANGED varsSem
    PROVE  /\ \A c : AMedias(c)' = AMedias(c) /\ Parado(c)' = Parado(c)
           /\ UNCHANGED <<colaSem, semDe, despierta, espera>>
           /\ \A k \in CPUs : /\ pc[k] \in EtiquetasSem => pc'[k] = pc[k] /\ tomado'[k] = tomado[k]
                              /\ pc'[k] \in EtiquetasSem => pc[k] \in EtiquetasSem
<1>1. UNCHANGED <<colaSem, semDe, despierta, espera>>
    BY DEF varsSem, cuentas, enCurso, deadlockInfo
<1>2. \A k \in CPUs : /\ pc[k] \in EtiquetasSem => pc'[k] = pc[k] /\ tomado'[k] = tomado[k]
                      /\ pc'[k] \in EtiquetasSem => pc[k] \in EtiquetasSem
    BY NoEntraEnPedido DEF IInvSem, IInv
<1>3. {"semEncolar", "semAReady", "semRetener"} \subseteq EtiquetasSem
    BY DEF EtiquetasSem
<1>4. ASSUME NEW c PROVE AMedias(c)' = AMedias(c)
    <2>1. \A k \in CPUs :
             (\/ tomado'[k] = c /\ pc'[k] = "semEncolar"
              \/ despierta'[k] = c /\ pc'[k] \in {"semAReady", "semRetener"})
             <=> (\/ tomado[k] = c /\ pc[k] = "semEncolar"
                  \/ despierta[k] = c /\ pc[k] \in {"semAReady", "semRetener"})
        BY <1>1, <1>2, <1>3
    <2> QED BY <2>1 DEF AMedias
<1>5. \A c : Parado(c)' = Parado(c)
    BY <1>1, <1>4 DEF Parado
<1> QED BY <1>1, <1>2, <1>4, <1>5

\* A step of the scheduler that touches none of the lists of blocked PCBs and marks at
\* most one PCB, that is in another place.
LEMMA DormidosMarca ==
    ASSUME IInvSem, Dormidos, Next, UNCHANGED varsSem,
           cola'["blocked"] = cola["blocked"], cola'["susblocked"] = cola["susblocked"],
           NEW x, \A c \in Carpinchos : c # x => estado'[c] = estado[c],
           x \in Carpinchos => /\ ~Parado(x)
                               /\ \A k \in CPUs : pc[k] = "semEncolar" => tomado[k] # x
    PROVE  Dormidos'
<1>1. /\ \A c : AMedias(c)' = AMedias(c) /\ Parado(c)' = Parado(c)
      /\ UNCHANGED <<colaSem, semDe, despierta, espera>>
      /\ \A k \in CPUs : /\ pc[k] \in EtiquetasSem => pc'[k] = pc[k] /\ tomado'[k] = tomado[k]
                         /\ pc'[k] \in EtiquetasSem => pc[k] \in EtiquetasSem
    BY NadieSeMueve
<1>2. \A c : Veces(c, "blocked")' = Veces(c, "blocked") /\ Veces(c, "susblocked")' = Veces(c, "susblocked")
    BY DEF Veces
<1>3. ASSUME NEW c \in Carpinchos PROVE EnSuLista(c)'
    <2>1. EnSuLista(c)
        BY DEF Dormidos
    <2>2. CASE c = x
        BY <1>1, <1>2, <2>1, <2>2 DEF EnSuLista
    <2>3. CASE c # x
        BY <1>1, <1>2, <2>1, <2>3 DEF EnSuLista, Parada
    <2> QED BY <2>2, <2>3
<1>4. ASSUME NEW c \in Carpinchos PROVE EnSuCola(c)'
    <2>1. ConDespierto \subseteq EtiquetasSem
        BY DEF EtiquetasSem, ConDespierto
    <2> QED BY <1>1, <2>1 DEF Dormidos, EnSuCola
<1>5. ASSUME NEW k \in CPUs PROVE DuranteElPedido(k)'
    <2>1. /\ DuranteElPedido(k) /\ "semEncolar" \in EtiquetasSem /\ "semLog" \in EtiquetasSem
          /\ ConDespierto \subseteq EtiquetasSem
        BY DEF Dormidos, EtiquetasSem, ConDespierto
    <2>2. ASSUME pc'[k] = "semEncolar"
          PROVE  /\ pc[k] = "semEncolar" /\ tomado'[k] = tomado[k]
                 /\ estado'[tomado[k]] = estado[tomado[k]]
        <3>1. pc[k] = "semEncolar" /\ tomado'[k] = tomado[k]
            BY <1>1, <2>1, <2>2
        <3>2. tomado[k] \in Carpinchos
            BY <2>1, <3>1 DEF IInvSem, TiposSem, ManosSem, EnPedido
        <3> QED BY <3>1, <3>2
    <2>3. despierta[k] # Nadie => pc'[k] = pc[k]
        BY <1>1, <2>1 DEF DuranteElPedido
    <2> QED BY <1>1, <2>1, <2>2, <2>3 DEF DuranteElPedido
<1> QED BY <1>3, <1>4, <1>5 DEF Dormidos

\* The last PCB of BLOCKED waits in a list, and its status goes with it.
LEMMA DormidosSuspender ==
    ASSUME IInvSem, Dormidos, Suspender, UNCHANGED varsSem
    PROVE  Dormidos'
<1>0. Next
    BY DEF Next, Mediano
<1>1. CASE UNCHANGED <<cola, estado>>
    BY <1>0, <1>1, ConstantesOK, DormidosMarca DEF ConstantesOK
<1>2. CASE ~UNCHANGED <<cola, estado>>
    <2> DEFINE x == Last(cola["blocked"])
    <2>1. /\ cola["blocked"] # <<>> /\ estado' = [estado EXCEPT ![x] = "SUSBLOCKED"]
          /\ cola' = [cola EXCEPT !["blocked"] = Front(@), !["susblocked"] = Append(@, x)]
        BY <1>2 DEF Suspender, Caer, Marcar
    <2>2. /\ cola \in TipoCola /\ estado \in [Carpinchos -> Estados]
          /\ cola["blocked"] \in Seq(Carpinchos) /\ cola["susblocked"] \in Seq(Carpinchos)
        BY DEF IInvSem, IInv, Tipos, TipoPCB, TipoCola, Colas
    <2>3. x \in Carpinchos
        BY <2>1, <2>2, QuitarUltimo
    <2> HIDE DEF x
    <2>4. cola'["blocked"] = Front(cola["blocked"]) /\ cola'["susblocked"] = Append(cola["susblocked"], x)
        BY <2>1, <2>2 DEF TipoCola, Colas
    <2>5. ASSUME NEW c \in Carpinchos
          PROVE  /\ Veces(c, "blocked")' = Veces(c, "blocked") - Uno(c = x)
                 /\ Veces(c, "susblocked")' = Veces(c, "susblocked") + Uno(c = x)
                 /\ Veces(c, "blocked") \in Nat /\ Veces(c, "susblocked") \in Nat
        <3>1. /\ Apariciones(Front(cola["blocked"]), c) = Apariciones(cola["blocked"], c) - Uno(x = c)
              /\ Apariciones(Append(cola["susblocked"], x), c)
                   = Apariciones(cola["susblocked"], c) + Uno(x = c)
            BY <2>1, <2>2, <2>3, AparicionesFront, AparicionesAppend DEF x
        <3>2. /\ Veces(c, "blocked") = Apariciones(cola["blocked"], c)
              /\ Veces(c, "susblocked") = Apariciones(cola["susblocked"], c)
              /\ Veces(c, "blocked")' = Apariciones(cola'["blocked"], c)
              /\ Veces(c, "susblocked")' = Apariciones(cola'["susblocked"], c)
            BY DEF Veces, Apariciones, Donde
        <3>3. Apariciones(cola["blocked"], c) \in Nat /\ Apariciones(cola["susblocked"], c) \in Nat
            BY <2>2, AparicionesNat
        <3>4. Uno(x = c) = Uno(c = x)
            BY DEF Uno
        <3> QED BY <2>4, <3>1, <3>2, <3>3, <3>4
    <2>6. Veces(x, "blocked") > 0
        <3>1. Len(cola["blocked"]) \in 1..Len(cola["blocked"]) /\ x = cola["blocked"][Len(cola["blocked"])]
            BY <2>1, <2>2 DEF x, Last
        <3>2. Veces(x, "blocked") = Apariciones(cola["blocked"], x)
            BY DEF Veces, Apariciones, Donde
        <3> QED BY <2>2, <3>1, <3>2, AparicionesNat
    <2>7. Parado(x) /\ estado[x] = "BLOCKED" /\ Veces(x, "blocked") = 1 /\ Veces(x, "susblocked") = 0
        BY <2>3, <2>6 DEF Dormidos, EnSuLista, Parada
    <2>8. /\ \A c : AMedias(c)' = AMedias(c) /\ Parado(c)' = Parado(c)
          /\ UNCHANGED <<colaSem, semDe, despierta, espera>>
          /\ \A k \in CPUs : pc'[k] = pc[k] /\ tomado'[k] = tomado[k]
        <3>1. \A k \in CPUs : k \in Hilos /\ k # "mediano"
            BY LosHilos DEF Planificadores
        <3>2. \A k \in CPUs : pc'[k] = pc[k] /\ tomado'[k] = tomado[k]
            BY <1>2, <3>1 DEF Suspender, Caer, Ir, Tomar, IInvSem, IInv, Tipos, TipoHilos
        <3> QED BY <1>0, <3>2, NadieSeMueve
    <2>9. ASSUME NEW c \in Carpinchos PROVE EnSuLista(c)'
        <3>1. CASE c = x
            <4>1. Veces(c, "blocked")' = 0 /\ Veces(c, "susblocked")' = 1 /\ estado'[c] = "SUSBLOCKED"
                BY <2>1, <2>2, <2>3, <2>5, <2>7, <3>1 DEF Uno
            <4> QED BY <2>7, <2>8, <3>1, <4>1 DEF EnSuLista, Parada
        <3>2. CASE c # x
            <4>1. /\ Veces(c, "blocked")' = Veces(c, "blocked")
                  /\ Veces(c, "susblocked")' = Veces(c, "susblocked") /\ estado'[c] = estado[c]
                BY <2>1, <2>2, <2>5, <3>2 DEF Uno
            <4> QED BY <2>8, <4>1 DEF Dormidos, EnSuLista, Parada
        <3> QED BY <3>1, <3>2
    <2>10. ASSUME NEW c \in Carpinchos PROVE EnSuCola(c)'
        BY <2>8 DEF Dormidos, EnSuCola
    <2>11. ASSUME NEW k \in CPUs PROVE DuranteElPedido(k)'
        <3>1. pc[k] = "semEncolar" => tomado[k] # x
            BY <2>7 DEF Parado, AMedias
        <3>2. pc[k] = "semEncolar" => estado'[tomado[k]] = estado[tomado[k]]
            BY <2>1, <2>2, <3>1
        <3> QED BY <2>8, <3>2 DEF Dormidos, DuranteElPedido
    <2> QED BY <2>9, <2>10, <2>11 DEF Dormidos
<1> QED BY <1>1, <1>2

\* The scheduler's other steps.
LEMMA DormidosNext ==
    ASSUME UnaCPU, Dispositivos = {}, IInvSem, EnOrden, Dormidos, UNCHANGED varsSem, Next
    PROVE  Dormidos'
<1>0. /\ cola \in TipoCola /\ TipoHilos /\ estado \in [Carpinchos -> Estados] /\ Nadie \notin Carpinchos
      /\ DOMAIN cola = Colas
    BY ConstantesOK DEF IInvSem, IInv, Tipos, TipoPCB, ConstantesOK, TipoCola
<1>1. ASSUME UNCHANGED estado, cola'["blocked"] = cola["blocked"],
             cola'["susblocked"] = cola["susblocked"]
      PROVE  Dormidos'
    BY <1>0, <1>1, DormidosMarca
<1>2. ASSUME NEW x \in Carpinchos, NEW e, Marcar(x, e), cola'["blocked"] = cola["blocked"],
             cola'["susblocked"] = cola["susblocked"],
             NEW v, NEW p, EsLugar(v, p), Fichas(v, p, x) > 0, v # "sem", v = "mano" => p \notin CPUs
      PROVE  Dormidos'
    <2>1. ~Parado(x) /\ \A k \in CPUs : pc[k] = "semEncolar" => tomado[k] # x
        BY <1>2, ConOtraFicha DEF EnOrden
    <2>2. \A c \in Carpinchos : c # x => estado'[c] = estado[c]
        BY <1>0, <1>2 DEF Marcar
    <2> QED BY <1>2, <2>1, <2>2, DormidosMarca
<1>3. ASSUME NEW q, Caer(q) PROVE Dormidos'
    BY <1>1, <1>3 DEF Caer
<1>4. ASSUME NEW t \in Hilos \ CPUs, NEW v, PasarAReady(t, v) PROVE Dormidos'
    <2>1. tomado[t] \in Carpinchos /\ Lleva(t, tomado[t])
        BY <1>0, <1>4 DEF PasarAReady, EnCon, En, TipoHilos, Manos, ConPCB, Lleva, AlPoner
    <2>2. EsLugar("mano", t) /\ Fichas("mano", t, tomado[t]) > 0
        BY <2>1 DEF EsLugar, Fichas, Uno
    <2>3. cola'["blocked"] = cola["blocked"] /\ cola'["susblocked"] = cola["susblocked"]
        BY <1>0, <1>4 DEF PasarAReady, Encolar, TipoCola, Colas
    <2> QED BY <1>2, <1>4, <2>1, <2>2, <2>3 DEF PasarAReady
<1>5. ASSUME NEW c \in Carpinchos, Alta(c) PROVE Dormidos'
    BY <1>0, <1>1, <1>5
       DEF Alta, AltaEnNew, RegistrarAlta, ConcluirAlta, Encolar, TipoCola, Colas
<1>6. CASE Largo
    <2>1. CASE NewAReady
        BY <1>4, <2>1, LosPlanificadores DEF NewAReady, Planificadores
    <2>2. CASE SacarDeNew
        BY <1>0, <1>1, <1>3, <2>2 DEF SacarDeNew, SinPrimero, TipoCola, Colas
    <2>3. CASE \/ TomarCandidato \/ TomarGrado \/ DelegarEnSusReady \/ ElegirNew
               \/ RegistrarAdmision
        BY <1>1, <2>3 DEF TomarCandidato, TomarGrado, DelegarEnSusReady, ElegirNew,
                          RegistrarAdmision, RegistrarReady
    <2> QED BY <1>6, <2>1, <2>2, <2>3 DEF Largo
<1>7. CASE Liberador
    BY <1>0, <1>1, <1>3, <1>7 DEF Liberador, TomarExit, Liberar, SinPrimero, TipoCola, Colas
<1>8. CASE Mediano
    <2>1. CASE Suspender
        BY <2>1, DormidosSuspender
    <2>2. CASE Despertar \/ VerNew \/ VerBlocked \/ VerGrado \/ RegistrarSuspension
        BY <1>1, <2>2 DEF Despertar, VerNew, VerBlocked, VerGrado, Evaluar, RegistrarSuspension
    <2> QED BY <1>8, <2>1, <2>2 DEF Mediano
<1>9. CASE SusReady
    <2>1. CASE SusReadyAReady
        BY <1>4, <2>1, LosPlanificadores DEF SusReadyAReady, Planificadores
    <2>2. CASE TomarSusReady
        BY <1>0, <1>1, <1>3, <2>2 DEF TomarSusReady, SinPrimero, TipoCola, Colas
    <2>3. CASE RegistrarTransicion
        BY <1>1, <2>3 DEF RegistrarTransicion, RegistrarReady
    <2> QED BY <1>9, <2>1, <2>2, <2>3 DEF SusReady
<1>10. ASSUME NEW k \in CPUs, CPU(k) PROVE Dormidos'
    <2>1. CASE Despachar(k)
        <3>1. tomado[k] \in Carpinchos /\ Apariciones(cola["ready"], tomado[k]) > 0
            BY <1>0, <2>1, LosHilos
               DEF Despachar, EnCon, En, TipoHilos, Manos, ConPCB, EnOrden, Servidos, Servido
        <3>2. EsLugar("cola", "ready") /\ Fichas("cola", "ready", tomado[k]) > 0
            BY <3>1 DEF EsLugar, Fichas, ConFicha
        <3>3. cola'["blocked"] = cola["blocked"] /\ cola'["susblocked"] = cola["susblocked"]
            BY <1>0, <2>1 DEF Despachar, Mover, TipoCola, Colas
        <3> QED BY <1>2, <2>1, <3>1, <3>2, <3>3 DEF Despachar
    <2>2. CASE AtenderCierre(k)
        <3>1. tomado[k] \in Carpinchos /\ Apariciones(cola["exec"], tomado[k]) > 0
            BY <1>0, <2>2, LosHilos
               DEF AtenderCierre, Recibe, EnCon, En, TipoHilos, Manos, ConPCB, EnOrden, Servidos,
                   Servido, Atendiendo
        <3>2. EsLugar("cola", "exec") /\ Fichas("cola", "exec", tomado[k]) > 0
            BY <3>1 DEF EsLugar, Fichas, ConFicha
        <3>3. cola'["blocked"] = cola["blocked"] /\ cola'["susblocked"] = cola["susblocked"]
            BY <1>0, <2>2 DEF AtenderCierre, Mover, TipoCola, Colas
        <3> QED BY <1>2, <2>2, <3>1, <3>2, <3>3 DEF AtenderCierre
    <2>3. CASE Elegir(k)
        BY <1>1, <1>3, <2>3 DEF Elegir
    <2>5. CASE \/ EmpezarAtencion(k) \/ EncolarEnDispositivo(k) \/ AvisarDispositivo(k)
               \/ AtenderIODesconocida(k) \/ Estimar(k) \/ RegistrarExit(k)
        BY <1>1, <2>5 DEF EmpezarAtencion, EncolarEnDispositivo, AvisarDispositivo,
                          AtenderIODesconocida, Estimar, RegistrarExit
    <2>6. Configurados = {}
        BY DEF Configurados
    <2> QED BY <1>10, <2>1, <2>2, <2>3, <2>5, <2>6 DEF CPU
<1>11. ASSUME NEW t, UsarLiberado(t) PROVE Dormidos'
    BY <1>3, <1>11 DEF UsarLiberado
<1> QED BY <1>5, <1>6, <1>7, <1>8, <1>9, <1>10, <1>11 DEF Next

\* What the invariant says of the only CPU.
LEMMA DormidosUna ==
    ASSUME UnaCPU, IInvSem, NEW k \in CPUs
    PROVE  /\ \A h \in CPUs : h = k
           /\ pc \in [Hilos -> Etiquetas \cup EtiquetasSem] /\ k \in Hilos /\ Nadie \notin Carpinchos
           /\ despierta \in [CPUs -> Carpinchos \cup {Nadie}]
           /\ \A c : AMedias(c) <=> \/ tomado[k] = c /\ pc[k] = "semEncolar"
                                    \/ despierta[k] = c /\ pc[k] \in {"semAReady", "semRetener"}
           /\ \A c : AMedias(c)' <=> \/ tomado'[k] = c /\ pc'[k] = "semEncolar"
                                     \/ despierta'[k] = c /\ pc'[k] \in {"semAReady", "semRetener"}
<1>1. \A h \in CPUs : h = k
    BY DEF UnaCPU
<1>2. /\ pc \in [Hilos -> Etiquetas \cup EtiquetasSem] /\ k \in Hilos /\ Nadie \notin Carpinchos
      /\ despierta \in [CPUs -> Carpinchos \cup {Nadie}]
    BY LosHilos, ConstantesOK
       DEF IInvSem, IInv, Tipos, TipoHilos, TiposSem, TipoCurso, ConstantesOK
<1> QED BY <1>1, <1>2 DEF AMedias

\* Nothing that the lists, the queues or the requests say changes.
LEMMA DormidosIgual ==
    ASSUME Dormidos, UNCHANGED <<cola, estado, espera, colaSem, tomado, despierta, semDe, pc>>
    PROVE  Dormidos'
<1>1. \A c : AMedias(c)' = AMedias(c) /\ Parado(c)' = Parado(c) /\ Parada(c)' = Parada(c)
    BY DEF AMedias, Parado, Parada, Veces
<1>2. \A c \in Carpinchos : EnSuLista(c)'
    BY <1>1 DEF Dormidos, EnSuLista, Veces
<1>3. \A c \in Carpinchos : EnSuCola(c)'
    BY DEF Dormidos, EnSuCola
<1>4. \A k \in CPUs : DuranteElPedido(k)'
    BY DEF Dormidos, DuranteElPedido
<1> QED BY <1>2, <1>3, <1>4 DEF Dormidos

\* A step of a request that wakes nobody and leaves the lists alone.
LEMMA DormidosPedido ==
    ASSUME UnaCPU, IInvSem, Dormidos, NEW k \in CPUs, NEW a, NEW e, En(k, a), Ir(k, e),
           {a, e} \cap (ConDespierto \cup {"semEncolar"}) = {}, a = "semLog" => e # "semLog",
           UNCHANGED <<cola, estado, espera, colaSem>>,
           despierta'[k] = IF a = "semLog" THEN Nadie ELSE despierta[k]
    PROVE  Dormidos'
<1>1. /\ \A h \in CPUs : h = k
      /\ pc \in [Hilos -> Etiquetas \cup EtiquetasSem] /\ k \in Hilos
      /\ \A c : AMedias(c) <=> \/ tomado[k] = c /\ pc[k] = "semEncolar"
                               \/ despierta[k] = c /\ pc[k] \in {"semAReady", "semRetener"}
      /\ \A c : AMedias(c)' <=> \/ tomado'[k] = c /\ pc'[k] = "semEncolar"
                                \/ despierta'[k] = c /\ pc'[k] \in {"semAReady", "semRetener"}
    BY DormidosUna
<1>2. pc[k] = a /\ pc'[k] = e
    BY <1>1 DEF En, Ir
<1>3. despierta'[k] = Nadie
    BY <1>2 DEF Dormidos, DuranteElPedido
<1>4. \A c : ~AMedias(c) /\ ~AMedias(c)'
    BY <1>1, <1>2 DEF ConDespierto
<1>5. \A c \in Carpinchos : EnSuLista(c)'
    BY <1>4 DEF Dormidos, EnSuLista, Parada, Parado, Veces
<1>6. \A c \in Carpinchos : EnSuCola(c)'
    <2>1. \A h \in CPUs : despierta'[h] = Nadie /\ pc[h] \notin ConDespierto
        BY <1>1, <1>2, <1>3
    <2>2. Nadie \notin Carpinchos
        BY DormidosUna
    <2> QED BY <2>1, <2>2 DEF Dormidos, EnSuCola
<1>7. \A h \in CPUs : DuranteElPedido(h)'
    BY <1>1, <1>2, <1>3 DEF DuranteElPedido
<1> QED BY <1>5, <1>6, <1>7 DEF Dormidos

\* SEM_INIT and SEM_DESTROY.
LEMMA DormidosInitDestroy ==
    ASSUME UnaCPU, IInvSem, Dormidos, NEW k \in CPUs,
           SemInit(k) \/ SemDestroy(k) \/ FinPedido(k)
    PROVE  Dormidos'
<1>0. despierta \in [CPUs -> Carpinchos \cup {Nadie}] /\ "atender" \notin ConDespierto
    BY DormidosUna DEF ConDespierto
<1>1. ASSUME ResponderYa(k), UNCHANGED <<cola, estado, espera, colaSem, tomado, despierta, semDe>>
      PROVE  Dormidos'
    BY <1>1, DormidosIgual DEF ResponderYa
<1>2. CASE AtenderSemInit(k)
    <2>1. CASE ResponderYa(k)
        BY <1>1, <1>2, <2>1 DEF AtenderSemInit, SinPlanificar, ResponderYa, deadlockInfo
    <2>2. CASE Recibir(k, "semCrear")
        BY <1>0, <1>2, <2>2, DormidosPedido, AlRecibir
           DEF AtenderSemInit, SinPlanificar, deadlockInfo, ConDespierto
    <2> QED BY <1>2, <2>1, <2>2 DEF AtenderSemInit
<1>3. CASE CrearSem(k)
    BY <1>0, <1>3, DormidosPedido
       DEF CrearSem, EnSem, SinPlanificar, cuentas, deadlockInfo, ConDespierto
<1>4. ASSUME NEW n, AtenderSemDestroy(k, n) PROVE Dormidos'
    <2>1. CASE ResponderYa(k)
        BY <1>1, <1>4, <2>1
           DEF AtenderSemDestroy, Encontrar, SinPlanificar, ResponderYa, deadlockInfo, cuentas
    <2>2. CASE Recibir(k, "semDestruir")
        BY <1>0, <1>4, <2>2, DormidosPedido, AlRecibir
           DEF AtenderSemDestroy, Encontrar, SinPlanificar, deadlockInfo, cuentas, ConDespierto
    <2> QED BY <1>4, <2>1, <2>2 DEF AtenderSemDestroy, Encontrar
<1>5. CASE SacarDeLista(k)
    <2>0. /\ En(k, "semQuitar") /\ UNCHANGED <<cola, estado, espera, colaSem, tomado, enCurso>>
        BY <1>5 DEF SacarDeLista, EnSem, cuentas, deadlockInfo
    <2>1. CASE Ir(k, "semLiberar")
        BY <2>0, <2>1, DormidosPedido DEF enCurso, ConDespierto
    <2>2. CASE UNCHANGED pc
        BY <2>0, <2>2, DormidosIgual DEF enCurso
    <2> QED BY <1>5, <2>1, <2>2 DEF SacarDeLista
<1>6. CASE DestruirSem(k)
    <2>1. despierta[k] = Nadie
        BY <1>6 DEF DestruirSem, EnSem, En, Dormidos, DuranteElPedido, ConDespierto
    <2> QED BY <1>0, <1>6, <2>1, DormidosPedido
            DEF DestruirSem, EnSem, Responder, SinPlanificar, cuentas, deadlockInfo, ConDespierto
<1>7. CASE MirarCola(k)
    <2>1. /\ En(k, "semDestruir") /\ UNCHANGED <<cola, estado, espera, colaSem, despierta>>
          /\ Ir(k, "semQuitar") \/ Ir(k, "semLog")
        BY <1>7 DEF MirarCola, EnSem, varsSem, cuentas, deadlockInfo, enCurso
    <2> QED BY <2>1, DormidosPedido DEF ConDespierto
<1>8. CASE FinPedido(k)
    BY <1>0, <1>8, DormidosPedido
       DEF FinPedido, EnSem, Responder, cuentas, deadlockInfo, ConDespierto
<1> QED BY <1>2, <1>3, <1>4, <1>5, <1>6, <1>7, <1>8 DEF SemInit, SemDestroy

\* SEM_WAIT: a PCB joins the semaphore's queue and then BLOCKED.
LEMMA DormidosSemWait ==
    ASSUME UnaCPU, IInvSem, EnOrden, Dormidos, NEW k \in CPUs, SemWait(k)
    PROVE  Dormidos'
<1>0. /\ \A h \in CPUs : h = k
      /\ pc \in [Hilos -> Etiquetas \cup EtiquetasSem] /\ k \in Hilos /\ Nadie \notin Carpinchos
      /\ despierta \in [CPUs -> Carpinchos \cup {Nadie}]
      /\ \A c : AMedias(c) <=> \/ tomado[k] = c /\ pc[k] = "semEncolar"
                               \/ despierta[k] = c /\ pc[k] \in {"semAReady", "semRetener"}
      /\ \A c : AMedias(c)' <=> \/ tomado'[k] = c /\ pc'[k] = "semEncolar"
                                \/ despierta'[k] = c /\ pc'[k] \in {"semAReady", "semRetener"}
    BY DormidosUna
<1>1. /\ cola \in TipoCola /\ estado \in [Carpinchos -> Estados] /\ DOMAIN cola = Colas
      /\ espera \in [Carpinchos -> Semaforos \cup {Nadie}] /\ Nadie \notin Semaforos
      /\ colaSem \in [Semaforos -> Seq(Carpinchos)]
    BY ConstantesSemOK DEF IInvSem, IInv, Tipos, TipoPCB, TiposSem, TipoDeadlock, TipoCuentas, TipoCola,
                           ConstantesSemOK
<1>2. ASSUME NEW n, AtenderSemWait(k, n) PROVE Dormidos'
    <2>1. CASE ResponderYa(k)
        BY <1>2, <2>1, DormidosIgual
           DEF AtenderSemWait, Encontrar, SinPlanificar, ResponderYa, deadlockInfo, cuentas
    <2>2. CASE Recibir(k, "semWait")
        BY <1>2, <2>2, DormidosPedido, AlRecibir
           DEF AtenderSemWait, Encontrar, SinPlanificar, deadlockInfo, cuentas, ConDespierto
    <2> QED BY <1>2, <2>1, <2>2 DEF AtenderSemWait, Encontrar
<1>3. CASE RestarInstancia(k)
    <2>0. En(k, "semWait") /\ UNCHANGED <<cola, estado, espera, colaSem>>
        BY <1>3 DEF RestarInstancia, EnSem, SinPlanificar, deadlockInfo
    <2>1. UNCHANGED despierta /\ (Ir(k, "semTomada") \/ Ir(k, "semBloquear"))
        BY <1>3 DEF RestarInstancia, enCurso
    <2> QED BY <2>0, <2>1, DormidosPedido DEF ConDespierto
<1>4. CASE BloquearEnSem(k)
    <2>0. En(k, "semBloquear") /\ tomado[k] \in Carpinchos /\ semDe[k] \in Semaforos
        BY <1>4, DelPedido DEF BloquearEnSem, EtiquetasSem
    <2>1. PICK x \in Carpinchos, s \in Semaforos : x = tomado[k] /\ s = semDe[k]
        BY <2>0
    <2>2. EsLugar("cola", "exec") /\ Fichas("cola", "exec", x) > 0
        BY <2>0, <2>1, ElDelPedido DEF EsLugar, Fichas, ConFicha, Atendiendo, EtiquetasSem
    <2>3. ~Parado(x)
        BY <2>1, <2>2, ConOtraFicha DEF EnOrden
    <2>4. /\ pc[k] = "semBloquear" /\ pc'[k] = "semEncolar"
          /\ despierta[k] = Nadie /\ UNCHANGED <<tomado, despierta, semDe>>
        BY <1>0, <1>4, <2>0 DEF En, Ir, BloquearEnSem, enCurso, Dormidos, DuranteElPedido, ConDespierto
    <2>5. /\ \A c \in Carpinchos \ {x} : estado'[c] = estado[c] /\ espera'[c] = espera[c]
          /\ estado'[x] = "BLOCKED" /\ espera'[x] = s
          /\ colaSem'[s] = Append(colaSem[s], x)
          /\ \A r \in Semaforos \ {s} : colaSem'[r] = colaSem[r]
          /\ cola'["blocked"] = cola["blocked"] /\ cola'["susblocked"] = cola["susblocked"]
        BY <1>1, <1>4, <2>1 DEF BloquearEnSem, Marcar, Colas
    <2>6. espera[x] = Nadie
        BY <2>3, <2>4, <1>0 DEF Parado
    <2>7. ASSUME NEW c \in Carpinchos PROVE Contains(colaSem'[s], c) <=> Contains(colaSem[s], c) \/ c = x
        <3>1. Append(colaSem[s], x) \in Seq(Carpinchos)
              /\ ToSet(Append(colaSem[s], x)) = ToSet(colaSem[s]) \cup {x}
            BY <1>1, <2>1, ListaMas
        <3>2. Contains(Append(colaSem[s], x), c) <=> c \in ToSet(Append(colaSem[s], x))
            BY <3>1, EnLista
        <3>3. Contains(colaSem[s], c) <=> c \in ToSet(colaSem[s])
            BY <1>1, EnLista
        <3> QED BY <2>5, <3>1, <3>2, <3>3
    <2>8. ASSUME NEW c \in Carpinchos PROVE EnSuLista(c)'
        <3>1. Veces(c, "blocked")' = Veces(c, "blocked") /\ Veces(c, "susblocked")' = Veces(c, "susblocked")
            BY <2>5 DEF Veces
        <3>2. CASE c = x
            <4>1. ~Parado(c)'
                BY <1>0, <2>4, <2>1, <3>2 DEF Parado
            <4> QED BY <2>3, <3>1, <3>2, <4>1 DEF Dormidos, EnSuLista
        <3>3. CASE c # x
            <4>1. Parado(c)' = Parado(c)
                BY <1>0, <2>4, <2>5, <2>1, <3>3 DEF Parado
            <4> QED BY <2>5, <3>1, <3>3, <4>1 DEF Dormidos, EnSuLista, Parada
        <3> QED BY <3>2, <3>3
    <2>9. ASSUME NEW c \in Carpinchos PROVE EnSuCola(c)'
        <3>1. \A h \in CPUs : despierta'[h] = Nadie /\ despierta[h] = Nadie
            BY <1>0, <2>4
        <3>2. CASE c = x
            <4>1. \A r \in Semaforos : ~Contains(colaSem[r], x)
                BY <1>1, <2>1, <2>6, <3>2 DEF Dormidos, EnSuCola
            <4>2. \A r \in Semaforos : Contains(colaSem'[r], x) => r = s
                BY <2>5, <4>1
            <4>3. \A h \in CPUs : despierta'[h] # x
                BY <1>0, <3>1
            <4>4. Contains(colaSem'[s], x)
                BY <2>7
            <4> QED BY <2>5, <3>2, <4>2, <4>3, <4>4 DEF EnSuCola
        <3>3. CASE c # x
            <4>1. ASSUME NEW r \in Semaforos PROVE Contains(colaSem'[r], c) <=> Contains(colaSem[r], c)
                <5>1. CASE r = s
                    BY <2>7, <3>3, <5>1
                <5>2. CASE r # s
                    BY <2>5, <5>2
                <5> QED BY <5>1, <5>2
            <4>2. espera'[c] = espera[c] /\ espera[c] \in Semaforos \cup {Nadie}
                BY <1>1, <2>5, <3>3
            <4> QED BY <1>0, <3>1, <4>1, <4>2 DEF Dormidos, EnSuCola
        <3> QED BY <3>2, <3>3
    <2>10. DuranteElPedido(k)'
        BY <2>1, <2>4, <2>5, <2>7 DEF DuranteElPedido
    <2> QED BY <1>0, <2>8, <2>9, <2>10 DEF Dormidos
<1>5. CASE EncolarEnBlocked(k)
    <2>0. tomado[k] \in Carpinchos /\ semDe[k] \in Semaforos
        BY <1>5, DelPedido DEF EncolarEnBlocked, EtiquetasSem
    <2> PICK x \in Carpinchos : x = tomado[k]
        BY <2>0
    <2>1. /\ pc[k] = "semEncolar" /\ x = tomado[k] /\ pc'[k] = "espSem"
          /\ UNCHANGED <<estado, espera, colaSem, tomado, despierta, semDe>>
        BY <1>0, <1>5 DEF EncolarEnBlocked, EnSem, En, Ir, varsSem, cuentas, deadlockInfo, enCurso
    <2>2. despierta[k] = Nadie
        BY <2>1 DEF Dormidos, DuranteElPedido, ConDespierto
    <2>3. espera[x] # Nadie /\ estado[x] = "BLOCKED"
        BY <1>1, <2>0, <2>1 DEF Dormidos, DuranteElPedido
    <2>4. ASSUME NEW c \in Carpinchos
          PROVE  /\ Veces(c, "blocked")' = Veces(c, "blocked") + Uno(c = x)
                 /\ Veces(c, "susblocked")' = Veces(c, "susblocked")
        <3>1. "blocked" \in Colas /\ "susblocked" \in Colas /\ cola' = Encolar("blocked", x)
            BY <1>5 DEF Colas, EncolarEnBlocked
        <3>2. /\ Veces(c, "blocked")' = Veces(c, "blocked") + Uno(c = x /\ "blocked" = "blocked")
              /\ Veces(c, "susblocked")' = Veces(c, "susblocked") + Uno(c = x /\ "susblocked" = "blocked")
            BY <1>1, <2>1, <3>1, VecesEncolar
        <3>3. Veces(c, "susblocked") \in Nat
            BY <1>1, <3>1, VecesApariciones
        <3> QED BY <3>2, <3>3 DEF Uno
    <2>5. ASSUME NEW c \in Carpinchos PROVE EnSuLista(c)'
        <3>1. CASE c = x
            <4>1. AMedias(x) /\ ~Parado(x) /\ ~AMedias(x)' /\ Parado(x)'
                BY <1>0, <2>1, <2>2, <2>3, <3>1 DEF Parado
            <4>2. Veces(x, "blocked") = 0 /\ Veces(x, "susblocked") = 0
                BY <3>1, <4>1 DEF Dormidos, EnSuLista
            <4>3. Veces(x, "blocked")' = 1 /\ Veces(x, "susblocked")' = 0
                BY <2>4, <3>1, <4>2 DEF Uno
            <4> QED BY <2>1, <2>3, <3>1, <4>1, <4>3 DEF EnSuLista, Parada
        <3>2. CASE c # x
            <4>1. Parado(c)' = Parado(c)
                BY <1>0, <2>1, <2>2, <3>2 DEF Parado
            <4>2. Veces(c, "blocked") \in Nat
                BY <1>1, VecesApariciones DEF Colas
            <4>3. Veces(c, "blocked")' = Veces(c, "blocked")
                BY <2>4, <3>2, <4>2 DEF Uno
            <4> QED BY <2>1, <2>4, <4>1, <4>3 DEF Dormidos, EnSuLista, Parada
        <3> QED BY <3>1, <3>2
    <2>6. \A c \in Carpinchos : EnSuCola(c)'
        <3>1. \A h \in CPUs : pc[h] \notin ConDespierto
            BY <1>0, <2>1 DEF ConDespierto
        <3> QED BY <2>1, <3>1 DEF Dormidos, EnSuCola
    <2>7. DuranteElPedido(k)'
        BY <2>1, <2>2 DEF DuranteElPedido
    <2> QED BY <1>0, <2>5, <2>6, <2>7 DEF Dormidos
<1>6. CASE TerminarSemWait(k)
    <2>1. En(k, "espSem") /\ Ir(k, "estimar") /\ UNCHANGED <<cola, estado, espera, colaSem, despierta>>
        BY <1>6 DEF TerminarSemWait, EnSem, deadlockInfo, cuentas
    <2> QED BY <2>1, DormidosPedido DEF ConDespierto
<1>7. CASE RetenerTomada(k)
    <2>1. /\ En(k, "semTomada") /\ Ir(k, "semLog")
          /\ UNCHANGED <<cola, estado, espera, colaSem, despierta>>
        BY <1>7 DEF RetenerTomada, EnSem, SinPlanificar, cuentas, enCurso
    <2> QED BY <2>1, DormidosPedido DEF ConDespierto
<1> QED BY <1>2, <1>3, <1>4, <1>5, <1>6, <1>7 DEF SemWait

\* SEM_POST: a PCB leaves the semaphore's queue, then its list, and at last waits for
\* nothing.
LEMMA DormidosSacar ==
    ASSUME UnaCPU, IInvSem, EnOrden, Dormidos, NEW k \in CPUs, SacarDeSem(k)
    PROVE  Dormidos'
<1>0. /\ \A h \in CPUs : h = k
      /\ pc \in [Hilos -> Etiquetas \cup EtiquetasSem] /\ k \in Hilos /\ Nadie \notin Carpinchos
      /\ despierta \in [CPUs -> Carpinchos \cup {Nadie}]
      /\ \A c : AMedias(c) <=> \/ tomado[k] = c /\ pc[k] = "semEncolar"
                               \/ despierta[k] = c /\ pc[k] \in {"semAReady", "semRetener"}
      /\ \A c : AMedias(c)' <=> \/ tomado'[k] = c /\ pc'[k] = "semEncolar"
                                \/ despierta'[k] = c /\ pc'[k] \in {"semAReady", "semRetener"}
    BY DormidosUna
<1>1. /\ colaSem \in [Semaforos -> Seq(Carpinchos)] /\ Nadie \notin Semaforos
      /\ espera \in [Carpinchos -> Semaforos \cup {Nadie}]
    BY ConstantesSemOK DEF IInvSem, TiposSem, TipoCuentas, TipoDeadlock, ConstantesSemOK
<1>2. En(k, "semPop") /\ pc[k] = "semPop" /\ semDe[k] \in Semaforos
    BY <1>0, DelPedido DEF SacarDeSem, EnSem, En, EtiquetasSem
<1>3. UNCHANGED <<cola, estado, espera, tomado>>
    BY DEF SacarDeSem, SinPlanificar, deadlockInfo
<1>4. CASE Ir(k, "semLog") /\ UNCHANGED <<colaSem, despierta>>
    BY <1>2, <1>3, <1>4, DormidosPedido DEF ConDespierto
<1>5. CASE colaSem[semDe[k]] # <<>> /\ Ir(k, "semDespertar")
    <2> PICK s \in Semaforos : s = semDe[k]
        BY <1>2
    <2>1. PICK x \in Carpinchos : x = Head(colaSem[s]) /\ Apariciones(colaSem[s], x) > 0
        BY <1>5, ElPrimero
    <2>2. /\ despierta' = [despierta EXCEPT ![k] = x]
          /\ colaSem' = [colaSem EXCEPT ![s] = Tail(@)]
          /\ UNCHANGED semDe
        BY <1>5, <2>1 DEF SacarDeSem, Ir
    <2>3. pc'[k] = "semDespertar" /\ despierta[k] = Nadie /\ despierta'[k] = x
        BY <1>0, <1>2, <1>5, <2>2 DEF Ir, Dormidos, DuranteElPedido, ConDespierto
    <2>4. \A c : ~AMedias(c) /\ ~AMedias(c)'
        BY <1>0, <1>2, <2>3
    <2>5. \A c \in Carpinchos : EnSuLista(c)'
        BY <1>3, <2>4 DEF Dormidos, EnSuLista, Parada, Parado, Veces
    <2>6. ASSUME NEW c \in Carpinchos, NEW r \in Semaforos
          PROVE  /\ Contains(colaSem'[r], c) => Contains(colaSem[r], c) /\ c # x
                 /\ Contains(colaSem[r], c) /\ c # x => Contains(colaSem'[r], c)
        <3>1. colaSem[r] \in Seq(Carpinchos)
            BY <1>1
        <3>2. Contains(colaSem[r], c) <=> Apariciones(colaSem[r], c) > 0
            BY <3>1, EnLista
        <3>3. EsLugar("sem", s) /\ Fichas("sem", s, x) > 0 /\ EsLugar("sem", r)
            BY <2>1 DEF EsLugar, Fichas
        <3>4. CASE r = s
            <4>1. colaSem'[r] = Tail(colaSem[r]) /\ Tail(colaSem[r]) \in Seq(Carpinchos)
                <5>1. colaSem'[r] = Tail(colaSem[r])
                    BY <1>1, <2>2, <3>4
                <5>2. colaSem[r] # <<>>
                    BY <1>5, <3>4
                <5> QED BY <3>1, <5>1, <5>2
            <4>2. Contains(colaSem'[r], c) <=> Apariciones(Tail(colaSem[r]), c) > 0
                <5>1. Contains(Tail(colaSem[r]), c) <=> Apariciones(Tail(colaSem[r]), c) > 0
                    BY <4>1, EnLista
                <5> QED BY <4>1, <5>1
            <4>3. Apariciones(Tail(colaSem[r]), c) = Apariciones(colaSem[r], c) - Uno(x = c)
                BY <1>5, <2>1, <3>1, <3>4, AparicionesTail
            <4>4. Apariciones(colaSem[r], c) \in Nat
                BY <3>1, AparicionesNat
            <4>5. Apariciones(colaSem[s], x) <= 1
                BY <3>3 DEF EnOrden, Unicas, Fichas
            <4> QED BY <3>2, <3>4, <4>2, <4>3, <4>4, <4>5 DEF Uno
        <3>5. CASE r # s
            <4>1. colaSem'[r] = colaSem[r]
                BY <1>1, <2>2, <3>5
            <4>2. ~(Fichas("sem", r, x) > 0)
                BY <3>3, <3>5 DEF EnOrden, Unicas
            <4>3. c = x => ~Contains(colaSem[r], c)
                BY <3>2, <4>2 DEF Fichas
            <4> QED BY <4>1, <4>3
        <3> QED BY <3>4, <3>5
    <2>7. Contains(colaSem[s], x) /\ espera[x] = s
        <3>1. Contains(colaSem[s], x)
            BY <1>1, <2>1, EnLista
        <3> QED BY <3>1 DEF Dormidos, EnSuCola
    <2>8. ASSUME NEW c \in Carpinchos PROVE EnSuCola(c)'
        <3>1. \A r \in Semaforos : Contains(colaSem'[r], c) =>
                  espera'[c] = r /\ \A h \in CPUs : despierta'[h] # c
            BY <1>0, <1>3, <2>3, <2>6 DEF Dormidos, EnSuCola
        <3>2. ASSUME espera'[c] # Nadie
              PROVE  \/ Contains(colaSem'[espera'[c]], c)
                     \/ \E h \in CPUs : despierta'[h] = c /\ pc'[h] \in ConDespierto
            <4>1. CASE c = x
                BY <2>3, <4>1 DEF ConDespierto
            <4>2. CASE c # x
                <5>1. espera'[c] = espera[c] /\ espera[c] \in Semaforos
                    BY <1>1, <1>3, <3>2
                <5>2. Contains(colaSem[espera[c]], c)
                    BY <1>0, <2>3, <5>1, <3>2 DEF Dormidos, EnSuCola
                <5> QED BY <2>6, <4>2, <5>1, <5>2
            <4> QED BY <4>1, <4>2
        <3> QED BY <3>1, <3>2 DEF EnSuCola
    <2>9. DuranteElPedido(k)'
        BY <1>1, <1>3, <2>3, <2>7 DEF DuranteElPedido, ConDespierto
    <2> QED BY <1>0, <2>5, <2>8, <2>9 DEF Dormidos
<1> QED BY <1>4, <1>5 DEF SacarDeSem

\* A PCB that a post wakes leaves its list: c moves from one set of facts to the other,
\* and for the rest nothing changes.
LEMMA DormidosSale ==
    ASSUME UnaCPU, IInvSem, Dormidos, NEW k \in CPUs, NEW x \in Carpinchos, x = despierta[k],
           NEW e \in {"semAReady", "semRetener"}, pc[k] \in ConDespierto, Ir(k, e),
           UNCHANGED <<espera, colaSem, tomado, despierta, semDe>>,
           \A c \in Carpinchos : c # x => /\ estado'[c] = estado[c]
                                          /\ Veces(c, "blocked")' = Veces(c, "blocked")
                                          /\ Veces(c, "susblocked")' = Veces(c, "susblocked"),
           Veces(x, "blocked")' = 0 /\ Veces(x, "susblocked")' = 0
    PROVE  Dormidos'
<1>0. /\ \A h \in CPUs : h = k
      /\ pc \in [Hilos -> Etiquetas \cup EtiquetasSem] /\ k \in Hilos
      /\ \A c : AMedias(c) <=> \/ tomado[k] = c /\ pc[k] = "semEncolar"
                               \/ despierta[k] = c /\ pc[k] \in {"semAReady", "semRetener"}
      /\ \A c : AMedias(c)' <=> \/ tomado'[k] = c /\ pc'[k] = "semEncolar"
                                \/ despierta'[k] = c /\ pc'[k] \in {"semAReady", "semRetener"}
    BY DormidosUna
<1>1. pc'[k] = e /\ pc[k] # "semEncolar"
    BY <1>0 DEF Ir, ConDespierto
<1>2. AMedias(x)' /\ \A c \in Carpinchos : c # x => ~AMedias(c) /\ ~AMedias(c)'
    BY <1>0, <1>1
<1>3. ASSUME NEW c \in Carpinchos PROVE EnSuLista(c)'
    <2>1. CASE c = x
        BY <1>2, <2>1 DEF EnSuLista, Parado
    <2>2. CASE c # x
        BY <1>2, <2>2 DEF Dormidos, EnSuLista, Parado, Parada
    <2> QED BY <2>1, <2>2
<1>4. \A c \in Carpinchos : EnSuCola(c)'
    BY <1>0, <1>1 DEF Dormidos, EnSuCola, ConDespierto
<1>5. DuranteElPedido(k)'
    BY <1>1 DEF Dormidos, DuranteElPedido, ConDespierto
<1> QED BY <1>0, <1>3, <1>4, <1>5 DEF Dormidos

\* What the CPU reads of the PCB it wakes: it is in the list its status says.
LEMMA ElDespierto ==
    ASSUME UnaCPU, IInvSem, Dormidos, NEW k \in CPUs, EnSem(k, "semDespertar")
    PROVE  despierta[k] \in Carpinchos /\ Parada(despierta[k])
<1>1. despierta[k] \in Carpinchos /\ pc[k] = "semDespertar"
    BY DelPedido DEF EnSem, En, EtiquetasSem, ConDespierto
<1>2. /\ Nadie \notin Carpinchos
      /\ \A c : AMedias(c) <=> \/ tomado[k] = c /\ pc[k] = "semEncolar"
                               \/ despierta[k] = c /\ pc[k] \in {"semAReady", "semRetener"}
    BY DormidosUna
<1>3. Parado(despierta[k])
    BY <1>1, <1>2 DEF Parado, Dormidos, DuranteElPedido
<1> QED BY <1>1, <1>3 DEF Dormidos, EnSuLista

\* ... leaves the list its status names ...
LEMMA DormidosDespertar ==
    ASSUME UnaCPU, IInvSem, Dormidos, NEW k \in CPUs, DespertarDeSem(k)
    PROVE  Dormidos'
<1>0. despierta[k] \in Carpinchos /\ Parada(despierta[k]) /\ pc[k] \in ConDespierto
    BY ElDespierto DEF DespertarDeSem, EnSem, En, ConDespierto
<1> PICK x \in Carpinchos : x = despierta[k]
    BY <1>0
<1>1. cola \in TipoCola /\ estado \in [Carpinchos -> Estados] /\ "blocked" \in Colas /\ "susblocked" \in Colas
    BY DEF IInvSem, IInv, Tipos, TipoPCB, Colas
<1>2. UNCHANGED <<espera, colaSem, tomado, despierta, semDe>>
    BY DEF DespertarDeSem, varsSem, cuentas, deadlockInfo, enCurso
<1>3. \A c \in Carpinchos : Veces(c, "blocked") \in Nat /\ Veces(c, "susblocked") \in Nat
    BY <1>1, VecesApariciones
<1>4. CASE estado[x] = "SUSBLOCKED"
    <2>1. /\ Ir(k, "semRetener") /\ estado' = [estado EXCEPT ![x] = "SUSREADY"]
          /\ cola' = Mover(x, "susblocked", "susready")
        BY <1>4 DEF DespertarDeSem, Marcar
    <2>2. Veces(x, "blocked") = 0 /\ Veces(x, "susblocked") = 1
        BY <1>0, <1>4 DEF Parada
    <2>3. Contains(cola["susblocked"], x)
        BY <1>1, <2>2, VecesApariciones
    <2>4. ASSUME NEW c \in Carpinchos
          PROVE  /\ Veces(c, "blocked")' = Veces(c, "blocked")
                 /\ Veces(c, "susblocked")' = Veces(c, "susblocked") - Uno(c = x)
        <3>1. /\ Veces(c, "blocked")' = Veces(c, "blocked") + Uno(c = x /\ "blocked" = "susready")
                                                            - Uno(c = x /\ "blocked" = "susblocked")
              /\ Veces(c, "susblocked")' = Veces(c, "susblocked") + Uno(c = x /\ "susblocked" = "susready")
                                                                  - Uno(c = x /\ "susblocked" = "susblocked")
            BY <1>1, <2>1, <2>3, VecesMover DEF Colas
        <3> QED BY <1>3, <3>1 DEF Uno
    <2>5. Veces(x, "blocked")' = 0 /\ Veces(x, "susblocked")' = 0
        BY <2>2, <2>4 DEF Uno
    <2>6. \A c \in Carpinchos : c # x => /\ estado'[c] = estado[c]
                                         /\ Veces(c, "blocked")' = Veces(c, "blocked")
                                         /\ Veces(c, "susblocked")' = Veces(c, "susblocked")
        BY <1>1, <1>3, <2>1, <2>4 DEF Uno
    <2> QED BY <1>0, <1>2, <2>1, <2>5, <2>6, DormidosSale
<1>5. CASE estado[x] # "SUSBLOCKED"
    <2>1. estado[x] = "BLOCKED" /\ Veces(x, "blocked") = 1 /\ Veces(x, "susblocked") = 0
        BY <1>0, <1>5 DEF Parada
    <2>2. /\ Ir(k, "semAReady") /\ estado' = estado
          /\ cola' = [cola EXCEPT !["blocked"] = RemoveFirst(@, x)]
        BY <2>1 DEF DespertarDeSem
    <2>3. Contains(cola["blocked"], x)
        BY <1>1, <2>1, VecesApariciones
    <2>4. ASSUME NEW c \in Carpinchos
          PROVE  /\ Veces(c, "blocked")' = Veces(c, "blocked") - Uno(c = x)
                 /\ Veces(c, "susblocked")' = Veces(c, "susblocked")
        <3>1. \A r \in Colas : Veces(c, r)' = Veces(c, r)
                  - Uno(c = x /\ r = "blocked" /\ Contains(cola["blocked"], x))
            BY <1>1, <2>2, VecesQuitar
        <3> QED BY <1>1, <1>3, <2>3, <3>1 DEF Uno
    <2>5. Veces(x, "blocked")' = 0 /\ Veces(x, "susblocked")' = 0
        BY <2>1, <2>4 DEF Uno
    <2>6. \A c \in Carpinchos : c # x => /\ estado'[c] = estado[c]
                                         /\ Veces(c, "blocked")' = Veces(c, "blocked")
                                         /\ Veces(c, "susblocked")' = Veces(c, "susblocked")
        BY <1>3, <2>2, <2>4 DEF Uno
    <2> QED BY <1>0, <1>2, <2>2, <2>5, <2>6, DormidosSale
<1> QED BY <1>4, <1>5

\* ... goes to READY ...
LEMMA DormidosAReady ==
    ASSUME UnaCPU, IInvSem, Dormidos, NEW k \in CPUs, DeSemAReady(k)
    PROVE  Dormidos'
<1>1. despierta[k] \in Carpinchos /\ pc[k] = "semAReady" /\ pc[k] \in ConDespierto
    BY DelPedido DEF DeSemAReady, EnSem, En, EtiquetasSem, ConDespierto
<1> PICK x \in Carpinchos : x = despierta[k]
    BY <1>1
<1>2. /\ cola \in TipoCola /\ estado \in [Carpinchos -> Estados]
      /\ cola'["blocked"] = cola["blocked"] /\ cola'["susblocked"] = cola["susblocked"]
      /\ UNCHANGED <<espera, colaSem, tomado, despierta, semDe>> /\ Ir(k, "semRetener")
    BY DEF IInvSem, IInv, Tipos, TipoPCB, TipoCola, Colas, DeSemAReady, Encolar, varsSem, cuentas,
           deadlockInfo, enCurso
<1>3. \A c : Veces(c, "blocked")' = Veces(c, "blocked") /\ Veces(c, "susblocked")' = Veces(c, "susblocked")
    BY <1>2 DEF Veces
<1>4. AMedias(x)
    BY <1>1 DEF AMedias
<1>5. Veces(x, "blocked") = 0 /\ Veces(x, "susblocked") = 0
    BY <1>4 DEF Dormidos, EnSuLista, Parado
<1>6. \A c \in Carpinchos : c # x => estado'[c] = estado[c]
    BY <1>2 DEF DeSemAReady, Marcar
<1> QED BY <1>1, <1>2, <1>3, <1>5, <1>6, DormidosSale

\* ... and waits for nothing when the post ends.
LEMMA DormidosTerminar ==
    ASSUME UnaCPU, IInvSem, Dormidos, NEW k \in CPUs, TerminarSemPost(k)
    PROVE  Dormidos'
<1>0. /\ \A h \in CPUs : h = k
      /\ pc \in [Hilos -> Etiquetas \cup EtiquetasSem] /\ k \in Hilos /\ Nadie \notin Carpinchos
      /\ despierta \in [CPUs -> Carpinchos \cup {Nadie}]
      /\ \A c : AMedias(c) <=> \/ tomado[k] = c /\ pc[k] = "semEncolar"
                               \/ despierta[k] = c /\ pc[k] \in {"semAReady", "semRetener"}
      /\ \A c : AMedias(c)' <=> \/ tomado'[k] = c /\ pc'[k] = "semEncolar"
                                \/ despierta'[k] = c /\ pc'[k] \in {"semAReady", "semRetener"}
    BY DormidosUna
<1>1. despierta[k] \in Carpinchos /\ pc[k] = "semRetener"
    BY DelPedido DEF TerminarSemPost, EnSem, En, EtiquetasSem, ConDespierto
<1> PICK x \in Carpinchos : x = despierta[k]
    BY <1>1
<1>2. espera \in [Carpinchos -> Semaforos \cup {Nadie}]
    BY DEF IInvSem, TiposSem, TipoDeadlock
<1>3. /\ UNCHANGED <<cola, estado, colaSem, tomado>> /\ espera' = [espera EXCEPT ![x] = Nadie]
      /\ UNCHANGED despierta /\ pc'[k] = "semLog"
    BY <1>0 DEF TerminarSemPost, SinPlanificar, cuentas, enCurso, Ir
<1>4. AMedias(x) /\ \A c \in Carpinchos : c # x => ~AMedias(c)
    BY <1>0, <1>1
<1>5. \A c \in Carpinchos : ~AMedias(c)'
    BY <1>0, <1>3
<1>6. ASSUME NEW c \in Carpinchos PROVE EnSuLista(c)'
    <2>1. Veces(c, "blocked")' = Veces(c, "blocked") /\ Veces(c, "susblocked")' = Veces(c, "susblocked")
        BY <1>3 DEF Veces
    <2>2. CASE c = x
        BY <1>2, <1>3, <1>4, <2>1, <2>2 DEF Dormidos, EnSuLista, Parado
    <2>3. CASE c # x
        BY <1>2, <1>3, <1>4, <1>5, <2>1, <2>3 DEF Dormidos, EnSuLista, Parado, Parada
    <2> QED BY <2>2, <2>3
<1>7. ASSUME NEW c \in Carpinchos PROVE EnSuCola(c)'
    <2>1. \A r \in Semaforos : Contains(colaSem[r], c) => espera[c] = r /\ c # x
        BY DEF Dormidos, EnSuCola
    <2>2. \A h \in CPUs : despierta'[h] = x
        BY <1>0, <1>1, <1>3
    <2>3. c # x => espera'[c] = espera[c]
        BY <1>2, <1>3
    <2>4. CASE c = x
        BY <1>2, <1>3, <2>1, <2>4 DEF EnSuCola
    <2>5. CASE c # x
        BY <1>0, <1>3, <2>1, <2>2, <2>3, <2>5 DEF Dormidos, EnSuCola
    <2> QED BY <2>4, <2>5
<1>8. DuranteElPedido(k)'
    BY <1>3 DEF DuranteElPedido
<1> QED BY <1>0, <1>6, <1>7, <1>8 DEF Dormidos

\* SEM_POST as a whole.
LEMMA DormidosSemPost ==
    ASSUME UnaCPU, IInvSem, EnOrden, Dormidos, NEW k \in CPUs, SemPost(k)
    PROVE  Dormidos'
<1>0. despierta \in [CPUs -> Carpinchos \cup {Nadie}]
    BY DormidosUna
<1>1. ASSUME NEW n, AtenderSemPost(k, n) PROVE Dormidos'
    <2>1. CASE ResponderYa(k)
        BY <1>1, <2>1, DormidosIgual
           DEF AtenderSemPost, Encontrar, SinPlanificar, ResponderYa, deadlockInfo, cuentas
    <2>2. CASE Recibir(k, "semPost")
        BY <1>1, <2>2, DormidosPedido, AlRecibir
           DEF AtenderSemPost, Encontrar, SinPlanificar, deadlockInfo, cuentas, ConDespierto
    <2> QED BY <1>1, <2>1, <2>2 DEF AtenderSemPost, Encontrar
<1>2. CASE SumarInstancia(k)
    <2>0. En(k, "semPost") /\ UNCHANGED <<cola, estado, espera, colaSem>>
        BY <1>2 DEF SumarInstancia, EnSem, SinPlanificar
    <2>1. CASE Ir(k, "semPop") /\ UNCHANGED enCurso
        BY <2>0, <2>1, DormidosPedido DEF enCurso, ConDespierto
    <2>2. CASE Ir(k, "semLog") /\ UNCHANGED enCurso
        BY <2>0, <2>2, DormidosPedido DEF enCurso, ConDespierto
    <2> QED BY <1>2, <2>1, <2>2 DEF SumarInstancia
<1> QED BY <1>1, <1>2, DormidosSacar, DormidosDespertar, DormidosAReady, DormidosTerminar DEF SemPost

\* Initially nobody waits.
LEMMA DormidosInit == InitSem => Dormidos
<1> SUFFICES ASSUME InitSem PROVE Dormidos
    OBVIOUS
<1>1. /\ cola["blocked"] = <<>> /\ cola["susblocked"] = <<>>
      /\ \A i \in Semaforos : colaSem[i] = <<>>
      /\ \A c \in Carpinchos : espera[c] = Nadie
      /\ \A k \in CPUs : despierta[k] = Nadie /\ pc[k] # "semEncolar"
    BY LosHilos DEF InitSem, Init, Colas, Hilos, Planificadores
<1>2. \A c : Veces(c, "blocked") = 0 /\ Veces(c, "susblocked") = 0
    <2>1. \A c : {i \in DOMAIN <<>> : <<>>[i] = c} = {}
        OBVIOUS
    <2> QED BY <1>1, <2>1, FS_EmptySet DEF Veces
<1>3. \A i \in Semaforos : \A c : ~Contains(colaSem[i], c)
    BY <1>1 DEF Contains
<1>4. \A c \in Carpinchos : EnSuLista(c) /\ EnSuCola(c)
    BY <1>1, <1>2, <1>3 DEF EnSuLista, EnSuCola, Parado
<1> QED BY <1>1, <1>4 DEF Dormidos, DuranteElPedido

\* The lists are right after every step.
LEMMA DormidosSiempre ==
    UnaCPU /\ Dispositivos = {} /\ IInvSem /\ EnOrden /\ Dormidos /\ [NextSem]_varsTodo => Dormidos'
<1> SUFFICES ASSUME UnaCPU, Dispositivos = {}, IInvSem, EnOrden, Dormidos, [NextSem]_varsTodo
             PROVE  Dormidos'
    OBVIOUS
<1>1. CASE UNCHANGED varsTodo
    <2>1. UNCHANGED <<cola, estado, espera, colaSem, tomado, despierta, semDe, pc>>
        BY <1>1 DEF varsTodo, vars, varsSem, cuentas, deadlockInfo, enCurso
    <2> QED BY <2>1, DormidosIgual
<1>2. CASE Next /\ UNCHANGED varsSem
    BY <1>2, DormidosNext
<1>3. ASSUME NEW k \in CPUs,
             \/ SemInit(k) \/ SemWait(k) \/ SemPost(k) \/ SemDestroy(k)
             \/ FinPedido(k) \/ UsarColgado(k)
      PROVE  Dormidos'
    <2>1. CASE UsarColgado(k)
        <3>1. UNCHANGED <<cola, estado, espera, colaSem, tomado, despierta, semDe, pc>>
            BY <2>1 DEF UsarColgado, Caer, varsSem, cuentas, deadlockInfo, enCurso
        <3> QED BY <3>1, DormidosIgual
    <2> QED BY <1>3, <2>1, DormidosInitDestroy, DormidosSemWait, DormidosSemPost
<1> QED BY <1>1, <1>2, <1>3 DEF NextSem

\* The property from the invariant: the token of a PCB in a semaphore's queue is there
\* once and nowhere else.
LEMMA DormidosEspera == IInvSem /\ EnOrden /\ Dormidos => EsperaEnSuCola
<1> SUFFICES ASSUME IInvSem, EnOrden, Dormidos, NEW c \in Carpinchos,
                    \A k \in CPUs : despierta[k] = c => pc[k] = "semLog"
             PROVE  /\ espera[c] = Nadie => \A s \in Semaforos : ~Contains(colaSem[s], c)
                    /\ espera[c] # Nadie =>
                         /\ Veces(c, "exec") + Veces(c, "ready") = 0
                         /\ Cardinality({i \in DOMAIN colaSem[espera[c]] : colaSem[espera[c]][i] = c}) = 1
                         /\ \/ estado[c] = "SUSBLOCKED" /\ Veces(c, "susblocked") = 1
                            \/ estado[c] = "BLOCKED" /\ Veces(c, "blocked") = 1
                            \/ \E k \in CPUs : tomado[k] = c /\ pc[k] = "semEncolar"
    BY DEF EsperaEnSuCola
<1>1. EnSuCola(c) /\ EnSuLista(c)
    BY DEF Dormidos
<1>2. espera[c] \in Semaforos \cup {Nadie} /\ Nadie \notin Semaforos
    BY ConstantesSemOK DEF IInvSem, TiposSem, TipoDeadlock, ConstantesSemOK
<1>3. \A k \in CPUs : despierta[k] = c => pc[k] \notin ConDespierto
    BY DEF ConDespierto
<1>4. ASSUME espera[c] = Nadie PROVE \A s \in Semaforos : ~Contains(colaSem[s], c)
    BY <1>1, <1>2, <1>4 DEF EnSuCola
<1>5. ASSUME espera[c] # Nadie
      PROVE  /\ Veces(c, "exec") + Veces(c, "ready") = 0
             /\ Cardinality({i \in DOMAIN colaSem[espera[c]] : colaSem[espera[c]][i] = c}) = 1
             /\ \/ estado[c] = "SUSBLOCKED" /\ Veces(c, "susblocked") = 1
                \/ estado[c] = "BLOCKED" /\ Veces(c, "blocked") = 1
                \/ \E k \in CPUs : tomado[k] = c /\ pc[k] = "semEncolar"
    <2> PICK s \in Semaforos : s = espera[c]
        BY <1>2, <1>5
    <2>1. Contains(colaSem[s], c) /\ colaSem[s] \in Seq(Carpinchos)
        BY <1>1, <1>5, <1>3 DEF EnSuCola, IInvSem, TiposSem, TipoCuentas
    <2>2. Apariciones(colaSem[s], c) \in Nat /\ Apariciones(colaSem[s], c) > 0
        BY <2>1, EnLista, AparicionesNat
    <2>3. EsLugar("sem", s) /\ Fichas("sem", s, c) = Apariciones(colaSem[s], c)
        BY DEF EsLugar, Fichas
    <2>4. Apariciones(colaSem[s], c) = 1
        BY <2>2, <2>3 DEF EnOrden, Unicas
    <2>5. ASSUME NEW q \in {"exec", "ready"} PROVE Veces(c, q) = 0
        <3>1. EsLugar("cola", q) /\ Fichas("cola", q, c) = Apariciones(cola[q], c)
            BY DEF EsLugar, Fichas, ConFicha
        <3>2. ~(Fichas("cola", q, c) > 0)
            BY <2>2, <2>3, <3>1 DEF EnOrden, Unicas
        <3>3. Veces(c, q) = Apariciones(cola[q], c) /\ Veces(c, q) \in Nat
            BY VecesApariciones DEF IInvSem, IInv, Tipos, Colas
        <3> QED BY <3>1, <3>2, <3>3
    <2>6. \/ Parada(c)
          \/ \E k \in CPUs : tomado[k] = c /\ pc[k] = "semEncolar"
        BY <1>1, <1>5, <1>3 DEF EnSuLista, Parado, AMedias, ConDespierto
    <2>7. Cardinality({i \in DOMAIN colaSem[espera[c]] : colaSem[espera[c]][i] = c}) = 1
        BY <2>4 DEF Apariciones, Donde
    <2> QED BY <2>5, <2>6, <2>7 DEF Parada
<1> QED BY <1>4, <1>5

\* With one CPU and no devices, what the deadlock detector reads is right whenever no post
\* is waking the PCB: it waits for the semaphore in whose queue it is, once, and it is in
\* BLOCKED or in SUSP/BLOCKED as its status says, and not in EXEC nor in READY.
THEOREM EsperaEnSuColaSiempre ==
    ASSUME UnaCPU, Dispositivos = {}
    PROVE  SpecSem => []EsperaEnSuCola
<1>1. IInvSem /\ EnOrden /\ [NextSem]_varsTodo => EnOrden'
    BY OrdenSiempre
<1>2. IInvSem /\ EnOrden /\ Dormidos /\ [NextSem]_varsTodo => Dormidos'
    BY DormidosSiempre
<1>3. IInvSem /\ EnOrden /\ Dormidos => EsperaEnSuCola
    BY DormidosEspera
<1> QED BY <1>1, <1>2, <1>3, IInvSemSiempre, OrdenInit, DormidosInit, PTL DEF SpecSem
-----------------------------------------------------------------------------
(* The degree of multiprogramming without devices: a place is free, with a *)
(* thread that admits or frees a PCB, with the CPU that blocks or wakes    *)
(* one, or with a PCB of a queue.                                          *)

Llevan == EnMarcha \cup {"semEncolar", "semAReady"}

\* What a step must do: a thread goes from label l to e and a PCB from place a to b.
SaldaExacto(l, e, a, b) ==
    Plazas' + Uno(e \in Llevan) + Uno(b \in Admitidas)
    = Plazas + Uno(l \in Llevan) + Uno(a \in Admitidas)

\* Such a step keeps the sum.
LEMMA ExactoPaso ==
    ASSUME Tipos, Tipos', GradoExacto, NEW t \in Hilos, NEW l, NEW e, En(t, l), Ir(t, e),
           NEW a, NEW b, TamMuda(a, b), SaldaExacto(l, e, a, b)
    PROVE  GradoExacto'
<1>1. /\ Plazas \in Nat /\ Ocupadas \in Nat /\ sem["grado"] \in Nat /\ sem["transicionar"] \in Nat
      /\ Tam("ready") \in Nat /\ Tam("exec") \in Nat /\ Tam("blocked") \in Nat
      /\ Tam("exit") \in Nat
    BY GradoNaturales DEF Tipos, Colas, Contadores
<1>2. /\ Plazas' \in Nat /\ Ocupadas' \in Nat /\ sem'["grado"] \in Nat /\ sem'["transicionar"] \in Nat
      /\ Tam("ready")' \in Nat /\ Tam("exec")' \in Nat /\ Tam("blocked")' \in Nat
      /\ Tam("exit")' \in Nat
    BY GradoNaturalesDespues DEF Tipos, Colas, Contadores
<1>3. GradoMultiprog \in Nat /\ Cuantos(Llevan) \in Nat /\ Cuantos(Llevan)' \in Nat
    <2>1. Cuantos(Llevan)' = Cardinality({h \in Hilos : pc'[h] \in Llevan})
        BY DEF Cuantos, Llevan, EnMarcha
    <2>2. IsFiniteSet({h \in Hilos : pc'[h] \in Llevan})
        BY ConstantesOK, FS_Subset DEF ConstantesOK
    <2> QED BY <2>1, <2>2, ConstantesOK, CuantosNat, FS_CardinalityType DEF ConstantesOK
<1>4. Cuantos(Llevan)' = Cuantos(Llevan) - Uno(l \in Llevan) + Uno(e \in Llevan)
    <2>1. pc[t] = l /\ pc' = [pc EXCEPT ![t] = e]
        BY DEF En, Ir
    <2> QED BY <2>1, CambioDeEtiqueta DEF Tipos, TipoHilos
<1>5. Ocupadas' = Ocupadas + Uno(b \in Admitidas) - Uno(a \in Admitidas)
    BY OcupadasTras
<1>6. Plazas + Cuantos(Llevan) + Ocupadas = GradoMultiprog
    <2>1. Llevan = {"mirar", "sacar", "aReady", "liberar", "registrarSuspension",
                    "semEncolar", "semAReady"}
        BY DEF Llevan, EnMarcha
    <2>2. sem["grado"] + sem["transicionar"] + Cuantos(Llevan)
          + Tam("ready") + Tam("exec") + Tam("blocked") + Tam("exit") = GradoMultiprog
        BY <2>1 DEF GradoExacto, En, Tam
    <2> QED BY <1>1, <1>3, <2>2 DEF Plazas, Ocupadas
<1>7. /\ Uno(l \in Llevan) \in Nat /\ Uno(e \in Llevan) \in Nat
      /\ Uno(a \in Admitidas) \in Nat /\ Uno(b \in Admitidas) \in Nat
    BY DEF Uno
<1>8. Plazas' + Cuantos(Llevan)' + Ocupadas' = GradoMultiprog
    <2> DEFINE p == Plazas    pp == Plazas'    k == Cuantos(Llevan)    kk == Cuantos(Llevan)'
               o == Ocupadas  oo == Ocupadas'  u == Uno(l \in Llevan)  v == Uno(e \in Llevan)
               m == Uno(a \in Admitidas)       n == Uno(b \in Admitidas)
    <2>1. /\ p \in Int /\ pp \in Int /\ k \in Int /\ kk \in Int /\ o \in Int /\ oo \in Int
          /\ u \in Int /\ v \in Int /\ m \in Int /\ n \in Int /\ GradoMultiprog \in Int
        BY <1>1, <1>2, <1>3, <1>7
    <2>2. pp + v + n = p + u + m
        BY DEF SaldaExacto
    <2>3. kk = k - u + v /\ oo = o + n - m /\ p + k + o = GradoMultiprog
        BY <1>4, <1>5, <1>6
    <2> HIDE DEF p, pp, k, kk, o, oo, u, v, m, n
    <2>4. pp + kk + oo = GradoMultiprog
        BY ONLY <2>1, <2>2, <2>3
    <2> QED BY <2>4 DEF pp, kk, oo
<1>9. sem'["grado"] + sem'["transicionar"] + Cuantos(Llevan)'
      + Tam("ready")' + Tam("exec")' + Tam("blocked")' + Tam("exit")' = GradoMultiprog
    BY <1>2, <1>3, <1>8 DEF Plazas, Ocupadas
<1>10. Llevan = {"mirar", "sacar", "aReady", "liberar", "registrarSuspension",
                 "semEncolar", "semAReady"}
    BY DEF Llevan, EnMarcha
<1> QED BY <1>9, <1>10 DEF GradoExacto, Tam, Cuantos

\* A step that moves no PCB between queues.
LEMMA ExactoQuieto ==
    ASSUME Tipos, Tipos', GradoExacto, NEW t \in Hilos, NEW l, NEW e, En(t, l), Ir(t, e),
           UNCHANGED cola, Plazas' + Uno(e \in Llevan) = Plazas + Uno(l \in Llevan)
    PROVE  GradoExacto'
<1>1. TamMuda("nada", "nada")
    <2>1. \A q \in Colas : Tam(q)' = Tam(q) /\ Tam(q) \in Nat
        BY GradoNaturales DEF Tipos, Tam
    <2>2. "nada" \notin Colas
        BY DEF Colas
    <2> QED BY <2>1, <2>2 DEF TamMuda, Uno
<1>2. SaldaExacto(l, e, "nada", "nada")
    <2>1. Plazas \in Nat /\ Plazas' \in Nat /\ Uno("nada" \in Admitidas) = 0
        BY GradoNaturales, GradoNaturalesDespues DEF Tipos, Uno, Admitidas
    <2>2. Uno(e \in Llevan) \in Nat /\ Uno(l \in Llevan) \in Nat
        BY DEF Uno
    <2> QED BY <2>1, <2>2 DEF SaldaExacto
<1> QED BY <1>1, <1>2, ExactoPaso

\* A step that changes nothing of the sum: the semaphores are not the two of the
\* degree and the thread carries a place before and after it or neither.
LEMMA ExactoIgual ==
    ASSUME Tipos, Tipos', GradoExacto, NEW t \in Hilos, NEW l, NEW e, En(t, l), Ir(t, e),
           UNCHANGED cola, l \in Llevan <=> e \in Llevan,
           sem'["grado"] = sem["grado"], sem'["transicionar"] = sem["transicionar"]
    PROVE  GradoExacto'
<1>1. Plazas' = Plazas
    BY DEF Plazas
<1>2. Uno(e \in Llevan) = Uno(l \in Llevan)
    BY DEF Uno
<1> QED BY <1>1, <1>2, ExactoQuieto

\* A kernel that has fallen promises nothing.
LEMMA ExactoCaer ==
    ASSUME NEW q \in {"largo", "liberador", "mediano", "susready", "corto", "io",
                      "indefinido", "registro"},
           Caer(q)
    PROVE  GradoExacto'
    BY DEF Caer, GradoExacto

\* A PCB leaves a queue, and is in it.
LEMMA TamQuitar ==
    ASSUME cola \in TipoCola, NEW a \in Colas, NEW x \in Carpinchos, Contains(cola[a], x),
           cola' = [cola EXCEPT ![a] = RemoveFirst(@, x)]
    PROVE  TamMuda(a, "mano")
<1> SUFFICES ASSUME NEW q \in Colas PROVE Tam(q)' = Tam(q) + Uno(q = "mano") - Uno(q = a)
    BY DEF TamMuda
<1>1. Len(cola[q]) \in Nat /\ cola[q] \in Seq(Carpinchos) /\ q # "mano"
    BY LenProperties DEF TipoCola, Colas
<1>2. CASE q = a
    <2>1. cola'[q] = RemoveFirst(cola[q], x)
        BY <1>2 DEF TipoCola
    <2>2. Len(RemoveFirst(cola[q], x)) = Len(cola[q]) - 1
        BY <1>1, <1>2, QuitarPrimero
    <2> QED BY <1>1, <1>2, <2>1, <2>2 DEF Tam, Uno
<1>3. CASE q # a
    <2>1. cola'[q] = cola[q]
        BY <1>3 DEF TipoCola
    <2>2. Len(cola'[q]) = Len(cola[q]) + 0 - 0
        BY <1>1, <2>1
    <2> QED BY <1>1, <1>3, <2>2 DEF Tam, Uno
<1> QED BY <1>2, <1>3

\* The threads that admit, free and suspend PCBs.
LEMMA ExactoAReady ==
    ASSUME Tipos, Tipos', GradoExacto, NEW t \in Hilos, NEW v, v \notin Llevan,
           PasarAReady(t, v), UNCHANGED sem
    PROVE  GradoExacto'
<1>1. /\ En(t, "aReady") /\ Ir(t, v) /\ cola' = Encolar("ready", tomado[t]) /\ UNCHANGED sem
      /\ pc[t] = "aReady"
    BY DEF PasarAReady, EnCon, En
<1>2. tomado[t] \in Carpinchos
    BY <1>1 DEF Tipos, TipoHilos, Manos, ConPCB
<1>3. TamMuda("mano", "ready")
    BY <1>1, <1>2, TamEncolar DEF Tipos, Colas
<1>4. Plazas' = Plazas /\ Plazas \in Int
    BY <1>1, GradoNaturales DEF Plazas, Tipos
<1>5. SaldaExacto("aReady", v, "mano", "ready")
    BY <1>4 DEF SaldaExacto, Uno, Llevan, EnMarcha, Admitidas
<1> QED BY <1>1, <1>3, <1>5, ExactoPaso

\* The handler of a connection takes no place.
LEMMA ExactoAlta ==
    ASSUME Tipos, Tipos', GradoExacto, NEW c \in Carpinchos, Alta(c)
    PROVE  GradoExacto'
<1>0. c \in Hilos /\ Plazas \in Int
    BY LosHilos, GradoNaturales DEF Tipos
<1>1. CASE AltaEnNew(c)
    <2>1. TamMuda("nada", "new")
        BY <1>1, TamEncolar DEF AltaEnNew, Tipos, Colas
    <2>2. Plazas' = Plazas
        BY <1>1 DEF AltaEnNew, Plazas
    <2>3. SaldaExacto("alta", "registrarAlta", "nada", "new")
        BY <1>0, <2>2 DEF SaldaExacto, Uno, Llevan, EnMarcha, Admitidas
    <2> QED BY <1>0, <1>1, <2>1, <2>3, ExactoPaso DEF AltaEnNew
<1>2. CASE ConcluirAlta(c)
    <2>1. /\ En(c, "espAlta") /\ Ir(c, "fin") /\ UNCHANGED cola
          /\ sem'["grado"] = sem["grado"] /\ sem'["transicionar"] = sem["transicionar"]
        BY <1>2 DEF ConcluirAlta, Wait, Tipos, TipoSem, Contadores
    <2> QED BY <1>0, <2>1, ExactoIgual DEF Llevan, EnMarcha
<1>3. CASE RegistrarAlta(c)
    <2>1. /\ En(c, "registrarAlta") /\ Ir(c, "espAlta") /\ UNCHANGED cola
          /\ sem'["grado"] = sem["grado"] /\ sem'["transicionar"] = sem["transicionar"]
        BY <1>3 DEF RegistrarAlta, Post, Tipos, TipoSem, Contadores
    <2> QED BY <1>0, <2>1, ExactoIgual DEF Llevan, EnMarcha
<1> QED BY <1>1, <1>2, <1>3 DEF Alta

\* The end of an admission or a transition is the V of READY's semaphore.
LEMMA ExactoRegistrarReady ==
    ASSUME Tipos, Tipos', GradoExacto, NEW t \in Hilos, NEW v, v \notin Llevan,
           RegistrarReady(t, v)
    PROVE  GradoExacto'
<1>1. /\ En(t, "registrarReady") /\ Ir(t, v) /\ UNCHANGED cola
      /\ sem'["grado"] = sem["grado"] /\ sem'["transicionar"] = sem["transicionar"]
    BY DEF RegistrarReady, Post, Tipos, TipoSem, Contadores
<1> QED BY <1>1, ExactoIgual DEF Llevan, EnMarcha

\* The long-term scheduler takes a place and goes with it to READY, or leaves
\* it to the thread of SUSP/READY.
LEMMA ExactoLargo ==
    ASSUME Tipos, Tipos', GradoExacto, Largo
    PROVE  GradoExacto'
<1>0. "largo" \in Hilos /\ Plazas \in Int /\ sem \in [Contadores -> Nat]
    BY LosPlanificadores, GradoNaturales DEF Tipos, Planificadores, TipoSem
<1>1. CASE TomarCandidato
    <2>1. /\ En("largo", "hay") /\ Ir("largo", "grado") /\ UNCHANGED cola
          /\ sem'["grado"] = sem["grado"] /\ sem'["transicionar"] = sem["transicionar"]
        BY <1>0, <1>1 DEF TomarCandidato, Wait, Contadores
    <2> QED BY <1>0, <2>1, ExactoIgual DEF Llevan, EnMarcha
<1>2. CASE TomarGrado
    <2>1. Plazas' = Plazas - 1
        BY <1>0, <1>2 DEF TomarGrado, Wait, Plazas, Contadores
    <2>2. Plazas' + Uno("mirar" \in Llevan) = Plazas + Uno("grado" \in Llevan)
        BY <1>0, <2>1 DEF Uno, Llevan, EnMarcha
    <2> QED BY <1>0, <1>2, <2>2, ExactoQuieto DEF TomarGrado
<1>3. CASE DelegarEnSusReady
    <2>1. Plazas' = Plazas + 1
        BY <1>0, <1>3 DEF DelegarEnSusReady, Post, Plazas, Contadores
    <2>2. Plazas' + Uno("hay" \in Llevan) = Plazas + Uno("mirar" \in Llevan)
        BY <1>0, <2>1 DEF Uno, Llevan, EnMarcha
    <2> QED BY <1>0, <1>3, <2>2, ExactoQuieto DEF DelegarEnSusReady
<1>4. CASE ElegirNew
    BY <1>0, <1>4, ExactoIgual DEF ElegirNew, Llevan, EnMarcha
<1>5. CASE SacarDeNew
    <2>1. CASE cola["new"] = <<>>
        BY <1>5, <2>1, ExactoCaer DEF SacarDeNew
    <2>2. CASE cola["new"] # <<>>
        <3>1. TamMuda("new", "mano")
            BY <1>5, <2>2, TamSinPrimero DEF SacarDeNew, Tipos, Colas
        <3>2. SaldaExacto("sacar", "aReady", "new", "mano")
            BY <1>0, <1>5, <2>2 DEF SacarDeNew, Plazas, SaldaExacto, Uno, Llevan, EnMarcha, Admitidas
        <3> QED BY <1>0, <1>5, <2>2, <3>1, <3>2, ExactoPaso DEF SacarDeNew
    <2> QED BY <2>1, <2>2
<1>6. CASE NewAReady
    BY <1>0, <1>6, ExactoAReady DEF NewAReady, Llevan, EnMarcha
<1>7. CASE RegistrarAdmision
    BY <1>0, <1>7, ExactoRegistrarReady DEF RegistrarAdmision, Llevan, EnMarcha
<1> QED BY <1>1, <1>2, <1>3, <1>4, <1>5, <1>6, <1>7 DEF Largo

\* EXIT gives its places back, and SUSP/READY takes those it was left.
LEMMA ExactoSalidas ==
    ASSUME Tipos, Tipos', GradoExacto, Liberador \/ SusReady
    PROVE  GradoExacto'
<1>0. /\ "liberador" \in Hilos /\ "susready" \in Hilos
      /\ Plazas \in Int /\ sem \in [Contadores -> Nat]
    BY LosPlanificadores, GradoNaturales DEF Tipos, Planificadores, TipoSem
<1>1. CASE TomarExit
    <2>1. CASE cola["exit"] = <<>>
        BY <1>1, <2>1, ExactoCaer DEF TomarExit
    <2>2. CASE cola["exit"] # <<>>
        <3>1. TamMuda("exit", "mano")
            BY <1>1, <2>2, TamSinPrimero DEF TomarExit, Tipos, Colas
        <3>2. Plazas' = Plazas
            BY <1>0, <1>1, <2>2 DEF TomarExit, Wait, Plazas, Contadores
        <3>3. SaldaExacto("exit", "liberar", "exit", "mano")
            BY <1>0, <3>2 DEF SaldaExacto, Uno, Llevan, EnMarcha, Admitidas
        <3> QED BY <1>0, <1>1, <2>2, <3>1, <3>3, ExactoPaso DEF TomarExit
    <2> QED BY <2>1, <2>2
<1>2. CASE Liberar
    <2>1. Plazas' = Plazas + 1
        BY <1>0, <1>2 DEF Liberar, Post, Plazas, Contadores
    <2>2. Plazas' + Uno("exit" \in Llevan) = Plazas + Uno("liberar" \in Llevan)
        BY <1>0, <2>1 DEF Uno, Llevan, EnMarcha
    <2> QED BY <1>0, <1>2, <2>2, ExactoQuieto DEF Liberar, EnCon
<1>3. CASE TomarSusReady
    <2>1. CASE cola["susready"] = <<>>
        BY <1>3, <2>1, ExactoCaer DEF TomarSusReady
    <2>2. CASE cola["susready"] # <<>>
        <3>1. TamMuda("susready", "mano")
            BY <1>3, <2>2, TamSinPrimero DEF TomarSusReady, Tipos, Colas
        <3>2. Plazas' = Plazas - 1
            BY <1>0, <1>3, <2>2 DEF TomarSusReady, Wait, Plazas, Contadores
        <3>3. SaldaExacto("transicionar", "aReady", "susready", "mano")
            BY <1>0, <3>2 DEF SaldaExacto, Uno, Llevan, EnMarcha, Admitidas
        <3> QED BY <1>0, <1>3, <2>2, <3>1, <3>3, ExactoPaso DEF TomarSusReady
    <2> QED BY <2>1, <2>2
<1>4. CASE SusReadyAReady
    BY <1>0, <1>4, ExactoAReady DEF SusReadyAReady, Llevan, EnMarcha
<1>5. CASE RegistrarTransicion
    BY <1>0, <1>5, ExactoRegistrarReady DEF RegistrarTransicion, Llevan, EnMarcha
<1> QED BY <1>1, <1>2, <1>3, <1>4, <1>5 DEF Liberador, SusReady

\* A suspension gives back the place of the PCB it takes out of BLOCKED.
LEMMA ExactoMediano ==
    ASSUME Tipos, Tipos', GradoExacto, Mediano
    PROVE  GradoExacto'
<1>0. "mediano" \in Hilos /\ Plazas \in Int /\ sem \in [Contadores -> Nat]
    BY LosPlanificadores, GradoNaturales DEF Tipos, Planificadores, TipoSem
<1>1. CASE Despertar
    <2>1. /\ En("mediano", "despertar") /\ UNCHANGED cola
          /\ sem'["grado"] = sem["grado"] /\ sem'["transicionar"] = sem["transicionar"]
        BY <1>0, <1>1 DEF Despertar, Wait, Contadores
    <2>2. CASE cola["ready"] = <<>>
        BY <1>0, <1>1, <2>1, <2>2, ExactoIgual DEF Despertar, Llevan, EnMarcha
    <2>3. CASE cola["ready"] # <<>>
        <3>1. Ir("mediano", "despertar")
            BY <1>1, <2>1, <2>3 DEF Despertar, Ir, En, Tipos, TipoHilos
        <3> QED BY <1>0, <2>1, <3>1, ExactoIgual
    <2> QED BY <2>2, <2>3
<1>2. ASSUME NEW e \in {"verNew", "verBlocked", "verGrado"}, NEW condicion,
             NEW sigue \in {"verBlocked", "verGrado", "suspender"}, Evaluar(e, condicion, sigue)
      PROVE  GradoExacto'
    <2>1. /\ En("mediano", e) /\ UNCHANGED cola
          /\ sem'["grado"] = sem["grado"] /\ sem'["transicionar"] = sem["transicionar"]
        BY <1>0, <1>2 DEF Evaluar, DejarDeEvaluar, Post, Contadores
    <2>2. Ir("mediano", sigue) \/ Ir("mediano", "despertar")
        BY <1>2 DEF Evaluar, DejarDeEvaluar
    <2>3. \A l \in {"verNew", "verBlocked", "verGrado", "suspender", "despertar"} : l \notin Llevan
        BY DEF Llevan, EnMarcha
    <2> QED BY <1>0, <2>1, <2>2, <2>3, ExactoIgual
<1>3. CASE Suspender
    <2>1. CASE Caer("mediano") \/ Caer("indefinido")
        BY <2>1, ExactoCaer
    <2>2. CASE ~(Caer("mediano") \/ Caer("indefinido"))
        <3> DEFINE x == Last(cola["blocked"])
        <3>1. /\ En("mediano", "suspender") /\ Ir("mediano", "registrarSuspension")
              /\ cola["blocked"] # <<>> /\ UNCHANGED sem
              /\ cola' = [cola EXCEPT !["blocked"] = Front(@), !["susblocked"] = Append(@, x)]
            BY <1>3, <2>2 DEF Suspender
        <3>2. cola["blocked"] \in Seq(Carpinchos) /\ cola \in TipoCola
            BY DEF Tipos, TipoCola, Colas
        <3>3. x \in Carpinchos
            BY <3>1, <3>2, QuitarUltimo
        <3>4. TamMuda("blocked", "susblocked")
            BY <3>1, <3>2, <3>3, TamSuspender
        <3>5. SaldaExacto("suspender", "registrarSuspension", "blocked", "susblocked")
            <4>1. Plazas' = Plazas
                BY <3>1 DEF Plazas
            <4> QED BY <1>0, <4>1 DEF SaldaExacto, Uno, Llevan, EnMarcha, Admitidas
        <3> QED BY <1>0, <3>1, <3>4, <3>5, ExactoPaso
    <2> QED BY <2>1, <2>2
<1>4. CASE RegistrarSuspension
    <2>1. Plazas' = Plazas + 1
        <3>1. sem' = [[sem EXCEPT !["grado"] = @ + 1] EXCEPT !["concluida"] = @ + 1]
            BY <1>4 DEF RegistrarSuspension, Post
        <3>2. sem'["grado"] = sem["grado"] + 1 /\ sem'["transicionar"] = sem["transicionar"]
            BY <1>0, <3>1 DEF Contadores
        <3>3. sem["grado"] \in Nat /\ sem["transicionar"] \in Nat
            BY <1>0 DEF Contadores
        <3> QED BY <3>2, <3>3 DEF Plazas
    <2>2. Plazas' + Uno("despertar" \in Llevan) = Plazas + Uno("registrarSuspension" \in Llevan)
        BY <1>0, <2>1 DEF Uno, Llevan, EnMarcha
    <2> QED BY <1>0, <1>4, <2>2, ExactoQuieto DEF RegistrarSuspension
<1> QED BY <1>1, <1>2, <1>3, <1>4 DEF Mediano, VerNew, VerBlocked, VerGrado

\* The CPU outside a request about a semaphore.
LEMMA ExactoCPU ==
    ASSUME Dispositivos = {}, IInvSem, Tipos', EnOrden, GradoExacto, NEW k \in CPUs, CPU(k)
    PROVE  GradoExacto'
<1>0. /\ k \in Hilos /\ Plazas \in Int /\ sem \in [Contadores -> Nat] /\ Tipos
      /\ cola \in TipoCola /\ TipoHilos
    BY LosHilos, GradoNaturales DEF Tipos, TipoSem, IInvSem, IInv
<1>1. CASE Elegir(k)
    <2>1. CASE cola["ready"] = <<>> /\ Caer("corto")
        BY <2>1, ExactoCaer
    <2>2. CASE ~(cola["ready"] = <<>> /\ Caer("corto"))
        <3>1. /\ En(k, "ready") /\ Ir(k, "despachar") /\ UNCHANGED cola
              /\ sem'["grado"] = sem["grado"] /\ sem'["transicionar"] = sem["transicionar"]
            BY <1>0, <1>1, <2>2 DEF Elegir, Wait, Contadores
        <3> QED BY <1>0, <3>1, ExactoIgual DEF Llevan, EnMarcha
    <2> QED BY <2>1, <2>2
<1>2. CASE Despachar(k)
    <2>1. tomado[k] \in Carpinchos /\ Apariciones(cola["ready"], tomado[k]) > 0 /\ En(k, "despachar")
        BY <1>0, <1>2 DEF Despachar, EnCon, En, TipoHilos, Manos, ConPCB, EnOrden, Servidos, Servido
    <2>2. Contains(cola["ready"], tomado[k])
        BY <1>0, <2>1, EnLista DEF TipoCola, Colas
    <2>3. TamMuda("ready", "exec")
        BY <1>0, <1>2, <2>1, <2>2, TamMover DEF Despachar, Colas
    <2>4. Plazas' = Plazas
        BY <1>0, <1>2 DEF Despachar, Post, Plazas, Contadores
    <2>5. SaldaExacto("despachar", "espExec", "ready", "exec")
        BY <1>0, <2>4 DEF SaldaExacto, Uno, Llevan, EnMarcha, Admitidas
    <2> QED BY <1>0, <1>2, <2>1, <2>3, <2>5, ExactoPaso DEF Despachar
<1>3. CASE AtenderCierre(k)
    <2>1. tomado[k] \in Carpinchos /\ Apariciones(cola["exec"], tomado[k]) > 0 /\ En(k, "atender")
        BY <1>0, <1>3 DEF AtenderCierre, Recibe, EnCon, En, TipoHilos, Manos, ConPCB, EnOrden,
                          Servidos, Servido, Atendiendo
    <2>2. Contains(cola["exec"], tomado[k])
        BY <1>0, <2>1, EnLista DEF TipoCola, Colas
    <2>3. TamMuda("exec", "exit")
        BY <1>0, <1>3, <2>1, <2>2, TamMover DEF AtenderCierre, Colas
    <2>4. Plazas' = Plazas
        BY <1>3 DEF AtenderCierre, Plazas
    <2>5. SaldaExacto("atender", "registrarExit", "exec", "exit")
        BY <1>0, <2>4 DEF SaldaExacto, Uno, Llevan, EnMarcha, Admitidas
    <2> QED BY <1>0, <1>3, <2>1, <2>3, <2>5, ExactoPaso DEF AtenderCierre
<1>4. ASSUME NEW l \in {"espExec", "encolarIO", "espIO", "atender", "estimar", "registrarExit"},
             NEW e \in {"atender", "espIO", "estimar", "ready"}, En(k, l), Ir(k, e), UNCHANGED cola,
             \/ UNCHANGED sem
             \/ \E s \in {"despertar", "concluida", "exit"} : sem' = Post(s) \/ sem' = Wait(s)
      PROVE  GradoExacto'
    <2>1. sem'["grado"] = sem["grado"] /\ sem'["transicionar"] = sem["transicionar"]
        BY <1>0, <1>4 DEF Post, Wait, Contadores
    <2>2. l \notin Llevan /\ e \notin Llevan
        BY <1>4 DEF Llevan, EnMarcha
    <2> QED BY <1>0, <1>4, <2>1, <2>2, ExactoIgual
<1>5. CASE \/ EmpezarAtencion(k) \/ EncolarEnDispositivo(k) \/ AvisarDispositivo(k)
           \/ AtenderIODesconocida(k) \/ Estimar(k) \/ RegistrarExit(k)
    BY <1>4, <1>5 DEF EmpezarAtencion, EncolarEnDispositivo, AvisarDispositivo, EnCon,
                      AtenderIODesconocida, Estimar, RegistrarExit, Pide, Recibe
<1>7. Configurados = {}
    BY DEF Configurados
<1> QED BY <1>1, <1>2, <1>3, <1>5, <1>7 DEF CPU

\* A step of the scheduler, the CPU outside the semaphores among them.
LEMMA ExactoNext ==
    ASSUME Dispositivos = {}, IInvSem, Tipos', EnOrden, GradoExacto, Next
    PROVE  GradoExacto'
<1>0. Tipos
    BY DEF IInvSem, IInv
<1>1. ASSUME NEW t \in Hilos, UsarLiberado(t) PROVE GradoExacto'
    BY <1>1, ExactoCaer DEF UsarLiberado
<1> QED BY <1>0, <1>1, ExactoAlta, ExactoLargo, ExactoSalidas, ExactoMediano, ExactoCPU DEF Next

\* The steps of a request that move no PCB and touch neither semaphore of the degree.
LEMMA ExactoPedido ==
    ASSUME Tipos, Tipos', GradoExacto, NEW k \in CPUs, NEW l, NEW e, En(k, l), Ir(k, e),
           l \notin Llevan, e \notin Llevan, UNCHANGED cola,
           sem' = sem \/ sem' = Wait("concluida")
    PROVE  GradoExacto'
<1>1. sem'["grado"] = sem["grado"] /\ sem'["transicionar"] = sem["transicionar"]
    BY DEF Wait, Tipos, TipoSem, Contadores
<1> QED BY <1>1, LosHilos, ExactoIgual

\* A request answered at once changes nothing of the sum.
LEMMA ExactoYa ==
    ASSUME GradoExacto, UNCHANGED <<cola, sem, pc>>, fallo = "no"
    PROVE  GradoExacto'
    BY DEF GradoExacto, Cuantos

\* A request that names a semaphore.
LEMMA ExactoEncontrar ==
    ASSUME Tipos, Tipos', GradoExacto, NEW k \in CPUs, NEW n,
           NEW e \in {"semWait", "semPost", "semDestruir"}, Encontrar(k, n, e)
    PROVE  GradoExacto'
<1>1. CASE Buscar(n) = Nadie /\ ResponderYa(k)
    BY <1>1, ExactoYa DEF Encontrar, SinPlanificar, ResponderYa, Pide, Recibe, EnCon, En
<1>2. CASE Recibir(k, e)
    <2>1. En(k, "atender") /\ Ir(k, e)
        BY <1>2 DEF Recibir, Pide, Recibe, EnCon
    <2>2. "atender" \notin Llevan /\ e \notin Llevan
        BY DEF Llevan, EnMarcha
    <2> QED BY <2>1, <2>2, ExactoPedido DEF Encontrar, SinPlanificar
<1> QED BY <1>1, <1>2 DEF Encontrar

\* SEM_INIT and SEM_DESTROY.
LEMMA ExactoInitDestroy ==
    ASSUME Tipos, Tipos', GradoExacto, NEW k \in CPUs,
           SemInit(k) \/ SemDestroy(k) \/ FinPedido(k)
    PROVE  GradoExacto'
<1>0. /\ "semCrear" \notin Llevan /\ "semDestruir" \notin Llevan /\ "semLiberar" \notin Llevan
      /\ "atender" \notin Llevan /\ "semQuitar" \notin Llevan /\ "semLog" \notin Llevan
    BY DEF Llevan, EnMarcha
<1>1. CASE AtenderSemInit(k)
    <2>1. UNCHANGED <<cola, sem, fallo>> /\ (ResponderYa(k) \/ Recibir(k, "semCrear"))
        BY <1>1 DEF AtenderSemInit, SinPlanificar, fin
    <2>2. CASE ResponderYa(k)
        BY <2>1, <2>2, ExactoYa DEF ResponderYa, Pide, Recibe, EnCon, En
    <2>3. CASE Recibir(k, "semCrear")
        BY <1>0, <2>1, <2>3, ExactoPedido DEF Recibir, Pide, Recibe, EnCon
    <2> QED BY <2>1, <2>2, <2>3
<1>2. CASE CrearSem(k)
    BY <1>0, <1>2, ExactoPedido DEF CrearSem, EnSem, SinPlanificar
<1>3. ASSUME NEW n \in NombresSem, AtenderSemDestroy(k, n) PROVE GradoExacto'
    BY <1>3, ExactoEncontrar DEF AtenderSemDestroy
<1>4. CASE SacarDeLista(k)
    <2>1. CASE fallo' = "indefinido"
        BY <2>1 DEF GradoExacto
    <2>2. CASE fallo' # "indefinido"
        <3>1. En(k, "semQuitar") /\ UNCHANGED <<cola, sem>> /\ Ir(k, "semLiberar")
            BY <1>4, <2>2 DEF SacarDeLista, EnSem
        <3> QED BY <1>0, <3>1, ExactoPedido
    <2> QED BY <2>1, <2>2
<1>5. CASE DestruirSem(k)
    BY <1>0, <1>5, ExactoPedido DEF DestruirSem, EnSem, Responder, SinPlanificar
<1>6. CASE MirarCola(k)
    <2>1. /\ En(k, "semDestruir") /\ UNCHANGED <<cola, sem>>
          /\ Ir(k, "semQuitar") \/ Ir(k, "semLog")
        BY <1>6 DEF MirarCola, EnSem
    <2> QED BY <1>0, <2>1, ExactoPedido
<1>7. CASE FinPedido(k)
    BY <1>0, <1>7, ExactoPedido DEF FinPedido, EnSem, Responder
<1> QED BY <1>1, <1>2, <1>3, <1>4, <1>5, <1>6, <1>7 DEF SemInit, SemDestroy

\* SEM_WAIT: the place goes with the PCB, through the CPU that blocks it.
LEMMA ExactoSemWait ==
    ASSUME IInvSem, Tipos', EnOrden, GradoExacto, NEW k \in CPUs, SemWait(k)
    PROVE  GradoExacto'
<1>0. /\ k \in Hilos /\ Plazas \in Int /\ sem \in [Contadores -> Nat] /\ Tipos /\ cola \in TipoCola
    BY LosHilos, GradoNaturales DEF Tipos, TipoSem, IInvSem, IInv
<1>1. /\ "semWait" \notin Llevan /\ "semBloquear" \notin Llevan /\ "espSem" \notin Llevan
      /\ "semTomada" \notin Llevan /\ "semLog" \notin Llevan /\ "estimar" \notin Llevan
      /\ "semEncolar" \in Llevan
    BY DEF Llevan, EnMarcha
<1>2. ASSUME NEW n \in NombresSem, AtenderSemWait(k, n) PROVE GradoExacto'
    BY <1>0, <1>2, ExactoEncontrar DEF AtenderSemWait
<1>3. CASE RestarInstancia(k)
    <2>1. /\ En(k, "semWait") /\ UNCHANGED <<cola, sem>>
          /\ Ir(k, "semTomada") \/ Ir(k, "semBloquear")
        BY <1>3 DEF RestarInstancia, EnSem, SinPlanificar
    <2> QED BY <1>0, <1>1, <2>1, ExactoPedido
<1>4. CASE BloquearEnSem(k)
    <2>1. /\ En(k, "semBloquear") /\ Ir(k, "semEncolar") /\ UNCHANGED sem
          /\ cola' = [cola EXCEPT !["exec"] = RemoveFirst(@, tomado[k])]
        BY <1>4 DEF BloquearEnSem, EnSem
    <2>2. tomado[k] \in Carpinchos /\ Apariciones(cola["exec"], tomado[k]) > 0
        BY <2>1, ElDelPedido DEF Atendiendo, EtiquetasSem
    <2>3. Contains(cola["exec"], tomado[k]) /\ "exec" \in Colas
        BY <1>0, <2>2, EnLista DEF TipoCola, Colas
    <2>4. TamMuda("exec", "mano")
        BY <1>0, <2>1, <2>2, <2>3, TamQuitar
    <2>5. SaldaExacto("semBloquear", "semEncolar", "exec", "mano")
        <3>1. Plazas' = Plazas
            BY <2>1 DEF Plazas
        <3> QED BY <1>0, <1>1, <3>1 DEF SaldaExacto, Uno, Admitidas
    <2> QED BY <1>0, <2>1, <2>4, <2>5, ExactoPaso
<1>5. CASE EncolarEnBlocked(k)
    <2>1. /\ En(k, "semEncolar") /\ Ir(k, "espSem") /\ pc[k] = "semEncolar"
          /\ cola' = Encolar("blocked", tomado[k]) /\ sem' = Post("despertar")
        BY <1>5 DEF EncolarEnBlocked, EnSem, En
    <2>2. tomado[k] \in Carpinchos
        BY <1>5, DelPedido DEF EncolarEnBlocked, EtiquetasSem
    <2>3. TamMuda("mano", "blocked")
        BY <1>0, <2>1, <2>2, TamEncolar DEF Colas
    <2>4. SaldaExacto("semEncolar", "espSem", "mano", "blocked")
        <3>1. Plazas' = Plazas
            BY <1>0, <2>1 DEF Post, Plazas, Contadores
        <3> QED BY <1>0, <1>1, <3>1 DEF SaldaExacto, Uno, Admitidas
    <2> QED BY <1>0, <2>1, <2>3, <2>4, ExactoPaso
<1>6. CASE TerminarSemWait(k)
    BY <1>0, <1>1, <1>6, ExactoPedido DEF TerminarSemWait, EnSem
<1>7. CASE RetenerTomada(k)
    BY <1>0, <1>1, <1>7, ExactoPedido DEF RetenerTomada, EnSem, SinPlanificar
<1> QED BY <1>2, <1>3, <1>4, <1>5, <1>6, <1>7 DEF SemWait

\* SEM_POST: what it wakes is in the queue its status names, so that the place
\* of a PCB that leaves BLOCKED is not lost.
LEMMA ExactoSemPost ==
    ASSUME UnaCPU, IInvSem, Tipos', Dormidos, GradoExacto, NEW k \in CPUs, SemPost(k)
    PROVE  GradoExacto'
<1>0. /\ k \in Hilos /\ Plazas \in Int /\ sem \in [Contadores -> Nat] /\ Tipos /\ cola \in TipoCola
    BY LosHilos, GradoNaturales DEF Tipos, TipoSem, IInvSem, IInv
<1>1. /\ "semPost" \notin Llevan /\ "semPop" \notin Llevan /\ "semDespertar" \notin Llevan
      /\ "semLog" \notin Llevan /\ "semRetener" \notin Llevan /\ "semAReady" \in Llevan
    BY DEF Llevan, EnMarcha
<1>2. ASSUME NEW n \in NombresSem, AtenderSemPost(k, n) PROVE GradoExacto'
    BY <1>0, <1>2, ExactoEncontrar DEF AtenderSemPost
<1>3. CASE SumarInstancia(k)
    <2>1. /\ En(k, "semPost") /\ UNCHANGED <<cola, sem>>
          /\ Ir(k, "semLog") \/ Ir(k, "semPop")
        BY <1>3 DEF SumarInstancia, EnSem, SinPlanificar
    <2> QED BY <1>0, <1>1, <2>1, ExactoPedido
<1>4. CASE SacarDeSem(k)
    <2>1. /\ En(k, "semPop") /\ UNCHANGED <<cola, sem>>
          /\ Ir(k, "semLog") \/ Ir(k, "semDespertar")
        BY <1>4 DEF SacarDeSem, EnSem, SinPlanificar
    <2> QED BY <1>0, <1>1, <2>1, ExactoPedido
<1>5. CASE DespertarDeSem(k)
    <2> DEFINE x == despierta[k]
    <2>1. EnSem(k, "semDespertar") /\ En(k, "semDespertar")
        BY <1>5 DEF DespertarDeSem, EnSem
    <2>2. x \in Carpinchos /\ Parada(x)
        BY <2>1, ElDespierto
    <2>3. \A q \in {"blocked", "susblocked"} : q \in Colas /\ (Veces(x, q) = 1 => Contains(cola[q], x))
        <3>1. \A q \in {"blocked", "susblocked"} : q \in Colas
            BY DEF Colas
        <3> QED BY <1>0, <3>1, VecesApariciones
    <2>4. CASE estado[x] = "SUSBLOCKED"
        <3>1. Contains(cola["susblocked"], x)
            BY <2>2, <2>3, <2>4 DEF Parada
        <3>2. Ir(k, "semRetener") /\ cola' = Mover(x, "susblocked", "susready") /\ sem' = Post("hay")
            BY <1>5, <2>4 DEF DespertarDeSem
        <3>3. TamMuda("susblocked", "susready")
            BY <1>0, <2>2, <3>1, <3>2, TamMover DEF Colas
        <3>4. SaldaExacto("semDespertar", "semRetener", "susblocked", "susready")
            <4>1. Plazas' = Plazas
                BY <1>0, <3>2 DEF Post, Plazas, Contadores
            <4> QED BY <1>0, <1>1, <4>1 DEF SaldaExacto, Uno, Admitidas
        <3> QED BY <1>0, <2>1, <3>2, <3>3, <3>4, ExactoPaso
    <2>5. CASE estado[x] = "BLOCKED"
        <3>1. Contains(cola["blocked"], x)
            BY <2>2, <2>3, <2>5 DEF Parada
        <3>2. /\ Ir(k, "semAReady") /\ UNCHANGED sem
              /\ cola' = [cola EXCEPT !["blocked"] = RemoveFirst(@, x)]
            BY <1>5, <2>5 DEF DespertarDeSem
        <3>3. TamMuda("blocked", "mano")
            BY <1>0, <2>2, <2>3, <3>1, <3>2, TamQuitar
        <3>4. SaldaExacto("semDespertar", "semAReady", "blocked", "mano")
            <4>1. Plazas' = Plazas
                BY <3>2 DEF Plazas
            <4> QED BY <1>0, <1>1, <4>1 DEF SaldaExacto, Uno, Admitidas
        <3> QED BY <1>0, <2>1, <3>2, <3>3, <3>4, ExactoPaso
    <2> QED BY <2>2, <2>4, <2>5 DEF Parada
<1>6. CASE DeSemAReady(k)
    <2>1. /\ En(k, "semAReady") /\ Ir(k, "semRetener") /\ pc[k] = "semAReady"
          /\ cola' = Encolar("ready", despierta[k]) /\ sem' = Post("ready")
        BY <1>6 DEF DeSemAReady, EnSem, En
    <2>2. despierta[k] \in Carpinchos
        BY <1>6, DelPedido DEF DeSemAReady, EtiquetasSem, ConDespierto
    <2>3. TamMuda("mano", "ready")
        BY <1>0, <2>1, <2>2, TamEncolar DEF Colas
    <2>4. SaldaExacto("semAReady", "semRetener", "mano", "ready")
        <3>1. Plazas' = Plazas
            BY <1>0, <2>1 DEF Post, Plazas, Contadores
        <3> QED BY <1>0, <1>1, <3>1 DEF SaldaExacto, Uno, Admitidas
    <2> QED BY <1>0, <2>1, <2>3, <2>4, ExactoPaso
<1>7. CASE TerminarSemPost(k)
    BY <1>0, <1>1, <1>7, ExactoPedido DEF TerminarSemPost, EnSem, SinPlanificar
<1> QED BY <1>2, <1>3, <1>4, <1>5, <1>6, <1>7 DEF SemPost

\* At the start every place is free.
LEMMA ExactoInit == InitSem => GradoExacto
<1> SUFFICES ASSUME InitSem PROVE GradoExacto
    OBVIOUS
<1>1. sem["grado"] = GradoMultiprog /\ sem["transicionar"] = 0 /\ GradoMultiprog \in Nat
    BY ConstantesOK DEF InitSem, Init, Contadores, ConstantesOK
<1> DEFINE E == {"mirar", "sacar", "aReady", "liberar", "registrarSuspension",
                 "semEncolar", "semAReady"}
<1>2. Cuantos(E) = 0
    <2>1. {t \in Hilos : pc[t] \in E} = {}
        BY DEF InitSem, Init, Hilos, Planificadores
    <2> QED BY <2>1, FS_EmptySet DEF Cuantos
<1>3. /\ Len(cola["ready"]) = 0 /\ Len(cola["exec"]) = 0 /\ Len(cola["blocked"]) = 0
      /\ Len(cola["exit"]) = 0
    BY DEF InitSem, Init, Colas
<1> QED BY <1>1, <1>2, <1>3 DEF GradoExacto

\* Every step.
LEMMA ExactoSiempre ==
    UnaCPU /\ Dispositivos = {} /\ IInvSem /\ IInvSem' /\ EnOrden /\ Dormidos /\ GradoExacto
        /\ [NextSem]_varsTodo => GradoExacto'
<1> SUFFICES ASSUME UnaCPU, Dispositivos = {}, IInvSem, IInvSem', EnOrden, Dormidos, GradoExacto,
                    [NextSem]_varsTodo
             PROVE  GradoExacto'
    OBVIOUS
<1>0. Tipos /\ Tipos'
    BY DEF IInvSem, IInv
<1>1. CASE UNCHANGED varsTodo
    BY <1>1 DEF varsTodo, vars, fin, GradoExacto, Cuantos
<1>2. ASSUME NEW k \in CPUs, UsarColgado(k) PROVE GradoExacto'
    BY <1>2, ExactoCaer DEF UsarColgado
<1>3. CASE NextSem
    BY <1>0, <1>2, <1>3, ExactoNext, ExactoInitDestroy, ExactoSemWait, ExactoSemPost DEF NextSem
<1> QED BY <1>1, <1>3

\* With one CPU and no devices the degree of multiprogramming is exact: every
\* place __iniciar_largo_plazo has taken is with a PCB of READY, EXEC, BLOCKED or
\* EXIT or in the hands of the thread or the CPU that moves one, and a post gives
\* back the place of the PCB it wakes because mutexDeadlock keeps its status as
\* it was read.
THEOREM GradoExactoSiempre ==
    ASSUME UnaCPU, Dispositivos = {}
    PROVE  SpecSem => []GradoExacto
<1>1. IInvSem /\ EnOrden /\ [NextSem]_varsTodo => EnOrden'
    BY OrdenSiempre
<1>2. IInvSem /\ EnOrden /\ Dormidos /\ [NextSem]_varsTodo => Dormidos'
    BY DormidosSiempre
<1>3. IInvSem /\ IInvSem' /\ EnOrden /\ Dormidos /\ GradoExacto /\ [NextSem]_varsTodo
          => GradoExacto'
    BY ExactoSiempre
<1> QED BY <1>1, <1>2, <1>3, IInvSemSiempre, OrdenInit, DormidosInit, ExactoInit, PTL DEF SpecSem
=============================================================================
