-------------------------- MODULE SemaforosProofs --------------------------
(* Theorems about Semaforos, for any number of carpinchos, CPUs, devices   *)
(* and semaphores.  The scheduler's sums survive the steps of the kernel's *)
(* semaphores, and the value of a semaphore never promises a wake-up that  *)
(* is not there.                                                           *)
EXTENDS Semaforos, PlanificacionProofs

-----------------------------------------------------------------------------
(* Types.                                                                  *)

TipoObjetos ==
    /\ listaSem \in Seq(Semaforos)
    /\ nombre \in [Semaforos -> NombresSem \cup {Nadie}]
    /\ semLibres \subseteq Semaforos
TipoCuentas ==
    /\ valor \in [Semaforos -> Int]
    /\ colaSem \in [Semaforos -> Seq(Carpinchos)]
TipoDeadlock ==
    /\ retiene \in [Carpinchos -> [NombresSem -> Nat]]
    /\ espera \in [Carpinchos -> Semaforos \cup {Nadie}]
TipoCurso ==
    /\ semDe \in [CPUs -> Semaforos \cup {Nadie}]
    /\ despierta \in [CPUs -> Carpinchos \cup {Nadie}]

\* A CPU inside a request has the PCB that made it and, until it logs what it
\* has done, a semaphore that was created; one that has popped a PCB has that PCB.
ConSem == EtiquetasSem \ {"semLog"}
ConDespierto == {"semDespertar", "semAReady", "semRetener"}
EnPedido(k) ==
    /\ tomado[k] \in Carpinchos
    /\ semDe[k] \in Semaforos
    /\ nombre[semDe[k]] \in NombresSem
ManosSem ==
    \A k \in CPUs :
        /\ pc[k] \in EtiquetasSem => tomado[k] \in Carpinchos
        /\ pc[k] \in ConSem => EnPedido(k)
        /\ pc[k] \in ConDespierto => despierta[k] \in Carpinchos

TiposSem == TipoObjetos /\ TipoCuentas /\ TipoDeadlock /\ TipoCurso /\ ManosSem

\* The scheduler's invariant, with the types of the semaphores.
IInvSem == IInv /\ TiposSem

\* The type invariant of Semaforos is part of it.
LEMMA IInvSemTipo == IInvSem => TypeSemOK
BY DEF IInvSem, IInv, Tipos, TipoCola, TipoSem, TipoHilos, TipoIO, TipoPCB, TiposSem,
       TipoObjetos, TipoCuentas, TipoDeadlock, TipoCurso, TypeSemOK

\* The labels of a CPU inside a request are not those of the scheduler.
LEMMA LasEtiquetas ==
    /\ EtiquetasSem \cap Etiquetas = {}
    /\ EtiquetasSem \cap ConPCB = {}
    /\ "atender" \in Etiquetas /\ "estimar" \in Etiquetas
    /\ ConDespierto \subseteq EtiquetasSem /\ ConSem \subseteq EtiquetasSem
BY DEF Etiquetas, EtiquetasSem, ConPCB, ConSem, ConDespierto

\* What list_find2 returns is in the list and has the name.
LEMMA BuscarEncuentra ==
    ASSUME listaSem \in Seq(Semaforos), NEW n, Buscar(n) # Nadie
    PROVE  Buscar(n) \in Semaforos /\ nombre[Buscar(n)] = n
<1> DEFINE I == {i \in 1..Len(listaSem) : nombre[listaSem[i]] = n}
           p == SelectInSeq(listaSem, LAMBDA s : nombre[s] = n)
<1>1. p = IF I # {} THEN Min(I) ELSE 0
    BY DEF SelectInSeq
<1>2. Buscar(n) = IF p = 0 THEN Nadie ELSE listaSem[p]
    BY DEF Buscar
<1>3. I \in SUBSET Nat
    OBVIOUS
<1> HIDE DEF p, I
<1>4. p # 0 /\ I # {}
    BY <1>1, <1>2
<1>5. p \in I
    BY <1>1, <1>3, <1>4, Minimo
<1>6. p \in 1..Len(listaSem) /\ nombre[listaSem[p]] = n
    BY <1>5 DEF I
<1> QED BY <1>2, <1>4, <1>6, ElementOfSeq

\* A step of the scheduler leaves a CPU inside a request where it is, and takes
\* none to one.
LEMMA NoEntraEnPedido ==
    ASSUME Tipos, Next, NEW k \in CPUs
    PROVE  /\ pc[k] \in EtiquetasSem => pc'[k] = pc[k] /\ tomado'[k] = tomado[k]
           /\ pc'[k] \in EtiquetasSem => pc[k] \in EtiquetasSem
<1> DEFINE G == /\ pc[k] \in EtiquetasSem => pc'[k] = pc[k] /\ tomado'[k] = tomado[k]
                /\ pc'[k] \in EtiquetasSem => pc[k] \in EtiquetasSem
<1> SUFFICES G
    OBVIOUS
<1>0. /\ k \in Hilos
      /\ pc \in [Hilos -> Etiquetas \cup EtiquetasSem]
      /\ tomado \in [Hilos -> Carpinchos \cup {Nadie}]
    BY LosHilos DEF Tipos, TipoHilos
<1>1. ASSUME NEW t \in Hilos, NEW a \in Etiquetas, NEW e \in Etiquetas, En(t, a), Ir(t, e),
             UNCHANGED tomado \/ \E c : Tomar(t, c)
      PROVE  G
    BY <1>0, <1>1, LasEtiquetas DEF En, Ir, Tomar
<1>2. ASSUME UNCHANGED <<pc, tomado>>
      PROVE  G
    BY <1>2
<1> HIDE DEF G
<1> USE LosHilos
<1>3. ASSUME NEW q, Caer(q)
      PROVE  G
    BY <1>2, <1>3 DEF Caer
<1>4. ASSUME NEW c \in Carpinchos, Alta(c)
      PROVE  G
    BY <1>1, <1>4 DEF Alta, AltaEnNew, RegistrarAlta, ConcluirAlta, Soltar, Etiquetas
<1>10. /\ "largo" \in Hilos /\ "liberador" \in Hilos
       /\ "mediano" \in Hilos /\ "susready" \in Hilos
    BY DEF Planificadores
<1>11. ASSUME NEW t \in Hilos, NEW v \in Etiquetas, PasarAReady(t, v) \/ RegistrarReady(t, v)
       PROVE  G
    BY <1>1, <1>11 DEF PasarAReady, RegistrarReady, EnCon, Soltar, Etiquetas
<1>5. CASE Largo
    <2>1. CASE TomarCandidato \/ TomarGrado \/ DelegarEnSusReady \/ ElegirNew
        BY <1>1, <1>10, <2>1 DEF TomarCandidato, TomarGrado, DelegarEnSusReady,
           ElegirNew, Etiquetas
    <2>2. CASE SacarDeNew
        BY <1>1, <1>3, <1>10, <2>2 DEF SacarDeNew, Etiquetas
    <2>3. CASE NewAReady \/ RegistrarAdmision
        BY <1>10, <1>11, <2>3 DEF NewAReady, RegistrarAdmision, Etiquetas
    <2> QED BY <1>5, <2>1, <2>2, <2>3 DEF Largo
<1>6. CASE Liberador \/ SusReady
    <2>1. CASE TomarExit \/ TomarSusReady
        BY <1>1, <1>3, <1>10, <2>1 DEF TomarExit, TomarSusReady, Etiquetas
    <2>2. CASE Liberar
        BY <1>1, <1>10, <2>2 DEF Liberar, EnCon, Soltar, Etiquetas
    <2>3. CASE SusReadyAReady \/ RegistrarTransicion
        BY <1>10, <1>11, <2>3 DEF SusReadyAReady, RegistrarTransicion, Etiquetas
    <2> QED BY <1>6, <2>1, <2>2, <2>3 DEF Liberador, SusReady
<1>7. CASE Mediano
    <2>1. CASE Despertar
        <3>1. CASE cola["ready"] = <<>>
            BY <1>1, <1>10, <2>1, <3>1 DEF Despertar, Etiquetas
        <3>2. CASE cola["ready"] # <<>>
            BY <1>2, <2>1, <3>2 DEF Despertar
        <3> QED BY <3>1, <3>2
    <2>2. ASSUME NEW a \in Etiquetas, NEW c, NEW e \in Etiquetas, Evaluar(a, c, e)
          PROVE  G
        BY <1>1, <1>10, <2>2 DEF Evaluar, DejarDeEvaluar, Etiquetas
    <2>3. CASE VerNew \/ VerBlocked \/ VerGrado
        BY <2>2, <2>3 DEF VerNew, VerBlocked, VerGrado, Etiquetas
    <2>4. CASE Suspender \/ RegistrarSuspension
        BY <1>1, <1>3, <1>10, <2>4 DEF Suspender, RegistrarSuspension, Soltar, Etiquetas
    <2> QED BY <1>7, <2>1, <2>3, <2>4 DEF Mediano
<1>8. ASSUME NEW h \in CPUs, CPU(h)
      PROVE  G
    BY <1>1, <1>3, <1>8 DEF CPU, Elegir, Despachar, EmpezarAtencion, AtenderCierre,
       RegistrarExit, AtenderCallIO, EncolarEnDispositivo, AvisarDispositivo, AtenderIODesconocida,
       Estimar, Pide, Recibe, EnCon, Soltar, Etiquetas
<1>9. ASSUME NEW d \in Dispositivos, Dispositivo(d)
      PROVE  G
    BY <1>1, <1>3, <1>9 DEF Dispositivo, TomarIO, VerSusBlocked, VerSiBlocked,
       PasarASusReady, SacarDeBlocked, DesbloquearAReady, RegistrarIO, PasarAReady, EnCon,
       Soltar, Etiquetas
<1> QED BY <1>3, <1>4, <1>5, <1>6, <1>7, <1>8, <1>9 DEF Next, UsarLiberado

\* A step of the scheduler keeps the types of the semaphores.
LEMMA SemNext ==
    ASSUME IInvSem, Next, UNCHANGED varsSem
    PROVE  IInvSem'
<1>1. IInv'
    BY IInvNext DEF IInvSem
<1>2. UNCHANGED <<listaSem, nombre, semLibres, valor, colaSem, retiene, espera, semDe, despierta>>
    BY DEF varsSem, objetos, cuentas, deadlockInfo, enCurso
<1>3. /\ TipoObjetos' /\ TipoCuentas' /\ TipoDeadlock' /\ TipoCurso'
    BY <1>2 DEF IInvSem, TiposSem, TipoObjetos, TipoCuentas, TipoDeadlock, TipoCurso
<1>4. ASSUME NEW k \in CPUs
      PROVE  /\ pc[k] \in EtiquetasSem => pc'[k] = pc[k] /\ tomado'[k] = tomado[k]
             /\ pc'[k] \in EtiquetasSem => pc[k] \in EtiquetasSem
    BY NoEntraEnPedido DEF IInvSem, IInv
<1>5. ManosSem'
    BY <1>2, <1>4, LasEtiquetas DEF IInvSem, TiposSem, ManosSem, EnPedido
<1> QED BY <1>1, <1>3, <1>5 DEF IInvSem, TiposSem
-----------------------------------------------------------------------------
(* The steps of a CPU inside a request.                                    *)

\* What such a step does to the CPU's own state keeps the hands' types, when the
\* semaphores that have a name keep it.
LEMMA TrasManos ==
    ASSUME IInvSem, NEW k \in CPUs, NEW e, Ir(k, e), UNCHANGED tomado,
           \A h \in CPUs \ {k} : semDe'[h] = semDe[h] /\ despierta'[h] = despierta[h],
           \A i \in Semaforos : nombre[i] \in NombresSem => nombre'[i] = nombre[i],
           e \in EtiquetasSem => tomado[k] \in Carpinchos,
           e \in ConSem => EnPedido(k)',
           e \in ConDespierto => despierta'[k] \in Carpinchos
    PROVE  ManosSem'
<1>1. /\ CPUs \subseteq Hilos /\ pc \in [Hilos -> Etiquetas \cup EtiquetasSem]
    BY LosHilos DEF IInvSem, IInv, Tipos, TipoHilos
<1>2. pc'[k] = e /\ \A h \in CPUs \ {k} : pc'[h] = pc[h]
    BY <1>1 DEF Ir
<1>3. ASSUME NEW h \in CPUs \ {k}
      PROVE  /\ pc'[h] \in EtiquetasSem => tomado'[h] \in Carpinchos
             /\ pc'[h] \in ConSem => EnPedido(h)'
             /\ pc'[h] \in ConDespierto => despierta'[h] \in Carpinchos
    BY <1>2 DEF IInvSem, TiposSem, ManosSem, EnPedido
<1> QED BY <1>2, <1>3 DEF ManosSem

\* The step in which a CPU changes nothing but its place, the client's messages
\* and its turn of mutexDeadlock keeps the scheduler's invariant ...
DePedido == {"atender"} \cup (EtiquetasSem \ {"espSem"})
\* A step of a request that touches none of the scheduler's lists or semaphores.
LEMMA PasoSinPlanificar ==
    ASSUME IInv, NEW k \in CPUs, NEW a \in DePedido, NEW e \in DePedido, En(k, a), Ir(k, e),
           tomado[k] \in Carpinchos, SinPlanificar,
           mutexDeadlock' \in {mutexDeadlock, k, Nadie},
           credito' \in [Carpinchos -> Int], pedidos' \in [Carpinchos -> 0..MaxPedidos]
    PROVE  IInv'
<1>1. UNCHANGED <<cola, estado, sem, ioInst, colaIO, recurso, tomado, cerrados, liberados, fallo>>
    BY DEF SinPlanificar, io, fin
<1>2. k \in Hilos /\ k # "largo" /\ k # "mediano"
    BY LosHilos DEF Planificadores
<1>3. /\ a \notin {"espIO"} \cup Esperas \cup Admitiendo \cup Despachando \cup Cerrando
      /\ e \notin {"espIO"} \cup Esperas \cup Admitiendo \cup Despachando \cup Cerrando
      /\ e \in Etiquetas \cup EtiquetasSem
    BY DEF DePedido, Etiquetas, EtiquetasSem, Esperas, Admitiendo, Despachando, Cerrando
<1>4. TipoHilos'
    BY <1>1, <1>2, <1>3, TrasIr DEF IInv, Tipos
<1>5. TipoIO' /\ TipoPCB' /\ TipoSem' /\ (cola \in TipoCola)'
    BY <1>1 DEF IInv, Tipos, TipoIO, TipoPCB, TipoSem
<1>6. CuentaIO'
    BY <1>1, <1>2, <1>3, IOIr DEF IInv
<1>7. Conteos'
    BY <1>1, <1>2, <1>3, ConteosIr
<1> QED BY <1>4, <1>5, <1>6, <1>7 DEF IInv, Tipos

\* ... and so does the answer that changes nothing but the number of requests.
LEMMA PasoYa ==
    ASSUME IInvSem, NEW k \in CPUs, ResponderYa(k), SinPlanificar,
           UNCHANGED <<mutexDeadlock, objetos, cuentas, deadlockInfo, despierta>>
    PROVE  IInvSem'
<1>1. /\ UNCHANGED <<cola, estado, sem, ioInst, colaIO, recurso, tomado, cerrados,
                     liberados, fallo, credito, pc, mutexDeadlock>>
      /\ UNCHANGED <<listaSem, nombre, semLibres, valor, colaSem, retiene, espera,
                     semDe, despierta>>
    BY DEF SinPlanificar, io, fin, ResponderYa, objetos, cuentas, deadlockInfo
<1>2. tomado[k] \in Carpinchos
    BY LosHilos DEF ResponderYa, Pide, Recibe, EnCon, En, IInvSem, IInv, Tipos, TipoHilos,
       Manos, ConPCB
<1>3. pedidos' \in [Carpinchos -> 0..MaxPedidos]
    <2>1. pedidos[tomado[k]] + 1 \in 0..MaxPedidos
        BY <1>2, ConstantesOK DEF ResponderYa, Pide, IInvSem, IInv, Tipos, TipoPCB, ConstantesOK
    <2> QED BY <1>2, <2>1 DEF ResponderYa, Pide, IInvSem, IInv, Tipos, TipoPCB
<1>4. Tipos'
    BY <1>1, <1>3 DEF IInvSem, IInv, Tipos, TipoCola, TipoSem, TipoHilos, Manos, TipoIO, TipoPCB
<1>5. CuentaIO'
    BY <1>1 DEF IInvSem, IInv, CuentaIO
<1>6. Conteos'
    BY <1>1 DEF IInvSem, IInv, Conteos, Apreton, CuentaAdmision, CuentaReady, CuentaExit,
       LargoEnNew, FallaSoloSuspension, Cuantos
<1>7. TiposSem'
    BY <1>1 DEF IInvSem, TiposSem, TipoObjetos, TipoCuentas, TipoDeadlock, TipoCurso,
       ManosSem, EnPedido
<1> QED BY <1>4, <1>5, <1>6, <1>7 DEF IInvSem, IInv

\* What a CPU inside a request works on.
LEMMA DelPedido ==
    ASSUME IInvSem, NEW k \in CPUs, NEW a \in EtiquetasSem, EnSem(k, a)
    PROVE  /\ En(k, a) /\ tomado[k] \in Carpinchos
           /\ a # "semLog" => semDe[k] \in Semaforos /\ nombre[semDe[k]] \in NombresSem
           /\ a \in ConDespierto => despierta[k] \in Carpinchos
BY DEF EnSem, En, IInvSem, TiposSem, ManosSem, ConSem, EnPedido

\* A step of a request from one of its labels to another of them, which leaves
\* alone the scheduler, the answer owed to the client, and what the CPU holds.
LEMMA PasoDePedido ==
    ASSUME IInvSem, NEW k \in CPUs, NEW a \in EtiquetasSem \ {"espSem"},
           NEW e \in EtiquetasSem \ {"espSem"}, EnSem(k, a), Ir(k, e), SinPlanificar,
           mutexDeadlock' \in {mutexDeadlock, k, Nadie}, UNCHANGED <<credito, pedidos>>,
           a # "semLog", e \notin ConDespierto,
           UNCHANGED nombre, UNCHANGED <<semDe, despierta>>,
           TipoObjetos', TipoCuentas', TipoDeadlock'
    PROVE  IInvSem'
<1>1. /\ En(k, a) /\ tomado[k] \in Carpinchos /\ semDe[k] \in Semaforos
      /\ nombre[semDe[k]] \in NombresSem
    BY DelPedido
<1>2. a \in DePedido /\ e \in DePedido
    BY DEF DePedido
<1>3. UNCHANGED tomado
    BY DEF SinPlanificar
<1>4. IInv'
    BY <1>1, <1>2, PasoSinPlanificar DEF IInvSem, IInv, Tipos, TipoPCB
<1>5. TipoCurso' /\ EnPedido(k)'
    BY <1>1, <1>3 DEF IInvSem, TiposSem, TipoCurso, EnPedido
<1>6. ManosSem'
    BY <1>1, <1>3, <1>5, TrasManos
<1> QED BY <1>4, <1>5, <1>6 DEF IInvSem, TiposSem

\* A request that arrives: the label, the client's messages and its PCB.
LEMMA AlRecibir ==
    ASSUME IInvSem, NEW k \in CPUs, NEW e, Recibir(k, e)
    PROVE  /\ En(k, "atender") /\ Ir(k, e) /\ tomado[k] \in Carpinchos
           /\ credito' \in [Carpinchos -> Int]
           /\ pedidos' \in [Carpinchos -> 0..MaxPedidos]
<1>1. En(k, "atender") /\ Ir(k, e)
    BY DEF Recibir, Pide, Recibe, EnCon
<1>2. tomado[k] \in Carpinchos
    BY <1>1, LosHilos DEF En, IInvSem, IInv, Tipos, TipoHilos, Manos, ConPCB
<1>3. credito' \in [Carpinchos -> Int]
    <2>1. credito[tomado[k]] - 2 \in Int
        BY <1>2 DEF IInvSem, IInv, Tipos, TipoPCB
    <2> QED BY <2>1 DEF Recibir, IInvSem, IInv, Tipos, TipoPCB
<1>4. pedidos' \in [Carpinchos -> 0..MaxPedidos]
    <2>1. pedidos[tomado[k]] + 1 \in 0..MaxPedidos
        BY <1>2, ConstantesOK DEF Recibir, Pide, IInvSem, IInv, Tipos, TipoPCB, ConstantesOK
    <2> QED BY <1>2, <2>1 DEF Recibir, Pide, IInvSem, IInv, Tipos, TipoPCB
<1> QED BY <1>1, <1>2, <1>3, <1>4

\* The answer: the same, and the CPU keeps no semaphore and no popped PCB.
LEMMA AlResponder ==
    ASSUME IInvSem, NEW k \in CPUs, tomado[k] \in Carpinchos, Responder(k)
    PROVE  /\ Ir(k, "atender") /\ credito' \in [Carpinchos -> Int]
           /\ TipoCurso'
           /\ \A h \in CPUs \ {k} : semDe'[h] = semDe[h] /\ despierta'[h] = despierta[h]
<1>1. credito' \in [Carpinchos -> Int]
    <2>1. credito[tomado[k]] + 2 \in Int
        BY DEF IInvSem, IInv, Tipos, TipoPCB
    <2> QED BY <2>1 DEF Responder, IInvSem, IInv, Tipos, TipoPCB
<1>2. /\ TipoCurso'
      /\ \A h \in CPUs \ {k} : semDe'[h] = semDe[h] /\ despierta'[h] = despierta[h]
    BY DEF Responder, IInvSem, TiposSem, TipoCurso
<1> QED BY <1>1, <1>2 DEF Responder

\* The counts of instances stay natural numbers.
LEMMA TrasRetener ==
    ASSUME TipoDeadlock, NEW c \in Carpinchos, NEW s, nombre[s] \in NombresSem,
           Retener(c, s) \/ LiberarInstancia(c, s)
    PROVE  retiene' \in [Carpinchos -> [NombresSem -> Nat]]
<1> DEFINE n == nombre[s]
           r == retiene[c]
<1>1. r \in [NombresSem -> Nat] /\ n \in NombresSem
    BY DEF TipoDeadlock
<1>2. r[n] \in Nat
    BY <1>1
<1>3. r[n] + 1 \in Nat /\ (IF r[n] > 0 THEN r[n] - 1 ELSE 0) \in Nat
    BY <1>2
<1>4. ASSUME NEW x \in Nat
      PROVE  [retiene EXCEPT ![c] = [r EXCEPT ![n] = x]] \in [Carpinchos -> [NombresSem -> Nat]]
    <2>1. [r EXCEPT ![n] = x] \in [NombresSem -> Nat]
        BY <1>1
    <2> QED BY <2>1 DEF TipoDeadlock
<1>5. \/ retiene' = [retiene EXCEPT ![c] = [r EXCEPT ![n] = r[n] + 1]]
      \/ retiene' = [retiene EXCEPT ![c] = [r EXCEPT ![n] =
                                             IF r[n] > 0 THEN r[n] - 1 ELSE 0]]
    BY DEF Retener, LiberarInstancia
<1> QED BY <1>3, <1>4, <1>5
-----------------------------------------------------------------------------
\* A request that names a semaphore of the list.
LEMMA InvEncontrar ==
    ASSUME IInvSem, NEW k \in CPUs, NEW n \in NombresSem,
           NEW e \in {"semWait", "semPost", "semDestruir"}, Encontrar(k, n, e)
    PROVE  IInvSem'
<1>1. CASE ResponderYa(k)
    BY <1>1, PasoYa DEF Encontrar
<1>2. CASE /\ Buscar(n) # Nadie /\ Recibir(k, e)
           /\ semDe' = [semDe EXCEPT ![k] = Buscar(n)]
    <2>1. /\ SinPlanificar
          /\ UNCHANGED <<mutexDeadlock, listaSem, nombre, semLibres, valor, colaSem,
                         retiene, espera, despierta>>
        BY DEF Encontrar, objetos, cuentas, deadlockInfo
    <2>2. Buscar(n) \in Semaforos /\ nombre[Buscar(n)] = n
        BY <1>2, BuscarEncuentra DEF IInvSem, TiposSem, TipoObjetos
    <2>3. e \in DePedido /\ "atender" \in DePedido /\ e \notin ConDespierto
        BY DEF DePedido, EtiquetasSem, ConDespierto
    <2>4. /\ En(k, "atender") /\ Ir(k, e) /\ tomado[k] \in Carpinchos
          /\ credito' \in [Carpinchos -> Int] /\ pedidos' \in [Carpinchos -> 0..MaxPedidos]
        BY <1>2, AlRecibir
    <2>5. IInv'
        BY <2>1, <2>3, <2>4, PasoSinPlanificar DEF IInvSem
    <2>6. TipoObjetos' /\ TipoCuentas' /\ TipoDeadlock' /\ TipoCurso'
        BY <1>2, <2>1, <2>2 DEF IInvSem, TiposSem, TipoObjetos, TipoCuentas, TipoDeadlock, TipoCurso
    <2>7. EnPedido(k)' /\ \A h \in CPUs \ {k} : semDe'[h] = semDe[h]
        BY <1>2, <2>1, <2>2, <2>4 DEF EnPedido, SinPlanificar, IInvSem, TiposSem, TipoCurso
    <2>8. UNCHANGED tomado
        BY <2>1 DEF SinPlanificar
    <2>9. ManosSem'
        BY <2>1, <2>3, <2>4, <2>7, <2>8, TrasManos DEF ConSem
    <2> QED BY <2>5, <2>6, <2>9 DEF IInvSem, TiposSem
<1> QED BY <1>1, <1>2 DEF Encontrar

\* SEM_INIT.
LEMMA InvSemInit ==
    ASSUME IInvSem, NEW k \in CPUs, SemInit(k)
    PROVE  IInvSem'
<1>1. CASE ResponderYa(k) /\ UNCHANGED <<nombre, valor>> /\ AtenderSemInit(k)
    BY <1>1, PasoYa DEF AtenderSemInit, objetos, cuentas
<1>2. ASSUME NEW n \in NombresSem, NEW i \in Semaforos, NEW v \in Iniciales,
             AtenderSemInit(k), nombre[i] = Nadie, Recibir(k, "semCrear"),
             nombre' = [nombre EXCEPT ![i] = n], valor' = [valor EXCEPT ![i] = v],
             semDe' = [semDe EXCEPT ![k] = i]
      PROVE  IInvSem'
    <2>1. /\ SinPlanificar
          /\ UNCHANGED <<mutexDeadlock, listaSem, semLibres, colaSem, retiene, espera, despierta>>
        BY <1>2 DEF AtenderSemInit, deadlockInfo
    <2>2. "semCrear" \in DePedido /\ "atender" \in DePedido /\ "semCrear" \notin ConDespierto
        BY DEF DePedido, EtiquetasSem, ConDespierto
    <2>3. /\ En(k, "atender") /\ Ir(k, "semCrear") /\ tomado[k] \in Carpinchos
          /\ credito' \in [Carpinchos -> Int] /\ pedidos' \in [Carpinchos -> 0..MaxPedidos]
        BY <1>2, AlRecibir
    <2>4. IInv'
        BY <2>1, <2>2, <2>3, PasoSinPlanificar DEF IInvSem
    <2>5. TipoObjetos' /\ TipoCuentas' /\ TipoDeadlock' /\ TipoCurso'
        BY <1>2, <2>1, ConstantesSemOK
           DEF IInvSem, TiposSem, TipoObjetos, TipoCuentas, TipoDeadlock, TipoCurso, ConstantesSemOK
    <2>6. EnPedido(k)' /\ \A h \in CPUs \ {k} : semDe'[h] = semDe[h]
        BY <1>2, <2>1, <2>3 DEF EnPedido, SinPlanificar, IInvSem, TiposSem, TipoObjetos, TipoCurso
    <2>7. \A j \in Semaforos : nombre[j] \in NombresSem => nombre'[j] = nombre[j]
        BY <1>2, ConstantesSemOK DEF IInvSem, TiposSem, TipoObjetos, ConstantesSemOK
    <2>8. UNCHANGED tomado
        BY <2>1 DEF SinPlanificar
    <2>9. ManosSem'
        BY <2>1, <2>2, <2>3, <2>6, <2>7, <2>8, TrasManos
    <2> QED BY <2>4, <2>5, <2>9 DEF IInvSem, TiposSem
<1>3. CASE CrearSem(k)
    <2>1. /\ SinPlanificar /\ Ir(k, "semLog")
          /\ listaSem' = Append(listaSem, semDe[k])
          /\ semDe' = [semDe EXCEPT ![k] = Nadie]
          /\ UNCHANGED <<credito, mutexDeadlock, pedidos, nombre, semLibres, valor, colaSem,
                         retiene, espera, despierta>>
        BY <1>3 DEF CrearSem, cuentas, deadlockInfo
    <2>2. /\ {"semCrear", "semLog"} \subseteq DePedido \cap EtiquetasSem
          /\ "semLog" \notin ConSem \cup ConDespierto
        BY DEF DePedido, EtiquetasSem, ConSem, ConDespierto
    <2>3. En(k, "semCrear") /\ tomado[k] \in Carpinchos /\ semDe[k] \in Semaforos
        BY <1>3, <2>2, DelPedido DEF CrearSem
    <2>4. IInv'
        BY <2>1, <2>2, <2>3, PasoSinPlanificar DEF IInvSem, IInv, Tipos, TipoPCB
    <2>5. TipoObjetos' /\ TipoCuentas' /\ TipoDeadlock' /\ TipoCurso'
        BY <2>1, <2>3, AppendProperties
           DEF IInvSem, TiposSem, TipoObjetos, TipoCuentas, TipoDeadlock, TipoCurso
    <2>6. UNCHANGED tomado /\ \A h \in CPUs \ {k} : semDe'[h] = semDe[h]
        BY <2>1 DEF SinPlanificar, IInvSem, TiposSem, TipoCurso
    <2>7. ManosSem'
        BY <2>1, <2>2, <2>3, <2>6, TrasManos
    <2> QED BY <2>4, <2>5, <2>7 DEF IInvSem, TiposSem
<1>4. CASE AtenderSemInit(k)
    BY <1>1, <1>2, <1>4 DEF AtenderSemInit
<1> QED BY <1>3, <1>4 DEF SemInit

\* The end of a request: what it did is logged, and the client has its answer.
LEMMA InvFinPedido ==
    ASSUME IInvSem, NEW k \in CPUs, FinPedido(k)
    PROVE  IInvSem'
<1>1. /\ SinPlanificar /\ Responder(k)
      /\ UNCHANGED <<mutexDeadlock, pedidos, listaSem, nombre, semLibres, valor, colaSem,
                     retiene, espera>>
    BY DEF FinPedido, SinPlanificar, objetos, cuentas, deadlockInfo
<1>2. /\ "semLog" \in DePedido \cap EtiquetasSem
      /\ "atender" \in DePedido /\ "atender" \notin EtiquetasSem \cup ConSem \cup ConDespierto
    BY DEF DePedido, EtiquetasSem, ConSem, ConDespierto
<1>3. En(k, "semLog") /\ tomado[k] \in Carpinchos
    BY <1>2, DelPedido DEF FinPedido
<1>4. /\ Ir(k, "atender") /\ credito' \in [Carpinchos -> Int] /\ TipoCurso'
      /\ \A h \in CPUs \ {k} : semDe'[h] = semDe[h] /\ despierta'[h] = despierta[h]
    BY <1>1, <1>3, AlResponder
<1>5. IInv'
    BY <1>1, <1>2, <1>3, <1>4, PasoSinPlanificar DEF IInvSem, IInv, Tipos, TipoPCB
<1>6. TipoObjetos' /\ TipoCuentas' /\ TipoDeadlock'
    BY <1>1 DEF IInvSem, TiposSem, TipoObjetos, TipoCuentas, TipoDeadlock
<1>7. UNCHANGED tomado
    BY <1>1 DEF SinPlanificar
<1>8. ManosSem'
    BY <1>1, <1>2, <1>4, <1>7, TrasManos
<1> QED BY <1>4, <1>5, <1>6, <1>8 DEF IInvSem, TiposSem

\* The terms of the sums, for a CPU.
LEMMA Terminos ==
    ASSUME IInv, NEW k \in CPUs
    PROVE  /\ cola \in TipoCola /\ TipoSem
           /\ Tam("new") \in Nat /\ Tam("susready") \in Nat
           /\ Tam("ready") \in Nat /\ Tam("exit") \in Nat
           /\ Respuestas \in Nat /\ Avisos \in Nat
           /\ sem \in [Contadores -> Nat]
           /\ sem["ready"] \in Nat /\ sem["exit"] \in Nat
           /\ k \in Hilos /\ k # "largo" /\ k # "mediano"
BY LosHilos, Naturales DEF IInv, Tipos, TipoSem, Planificadores

\* A step that moves a PCB between queues no sum is about, and no semaphore.
LEMMA ConteosMovido ==
    ASSUME IInv, NEW k \in CPUs, NEW a \in EtiquetasSem \ {"espSem"},
           NEW e \in EtiquetasSem \ {"espSem"}, En(k, a), Ir(k, e),
           (cola \in TipoCola)', UNCHANGED <<sem, fallo>>,
           \A q \in Colas \ {"exec", "blocked", "susblocked"} : cola'[q] = cola[q]
    PROVE  Conteos'
<1>0. /\ cola \in TipoCola /\ TipoSem
      /\ Tam("new") \in Nat /\ Tam("susready") \in Nat
      /\ Tam("ready") \in Nat /\ Tam("exit") \in Nat
      /\ Respuestas \in Nat /\ Avisos \in Nat
      /\ sem["ready"] \in Nat /\ sem["exit"] \in Nat
      /\ k \in Hilos /\ k # "largo" /\ k # "mediano"
    BY Terminos
<1>1. /\ a \notin Esperas \cup Admitiendo \cup Despachando \cup Cerrando
      /\ e \notin Esperas \cup Admitiendo \cup Despachando \cup Cerrando
    BY DEF EtiquetasSem, Esperas, Admitiendo, Despachando, Cerrando
<1>2. UNCHANGED <<Tam("new"), Tam("susready"), Tam("ready"), Tam("exit"),
                  Respuestas, Avisos, sem["ready"], sem["exit"]>>
    BY DEF Tam, Colas, Respuestas, Avisos
<1>3. SaldaApreton(k, a, e) /\ SaldaAdmision(a, e) /\ SaldaReady(a, e)
    BY <1>0, <1>1, <1>2 DEF SaldaApreton, SaldaAdmision, SaldaReady, Uno
<1>4. SaldaExit(a, e) /\ SaldaLargo(k, e)
    BY <1>0, <1>1, <1>2 DEF SaldaExit, SaldaLargo, Uno
<1>5. TipoSem' /\ fallo' = "no"
    BY <1>0 DEF TipoSem, En
<1> QED BY <1>0, <1>3, <1>4, <1>5, ConteosTras DEF Salda

\* The parts of the invariant that only depend on what a CPU does to its label.
LEMMA PasoEnPedido ==
    ASSUME IInv, NEW k \in CPUs, NEW a \in EtiquetasSem,
           NEW e \in EtiquetasSem \cup {"estimar"}, En(k, a), Ir(k, e),
           tomado[k] \in Carpinchos, UNCHANGED <<io, mutexDeadlock, tomado>>
    PROVE  TipoHilos' /\ TipoIO' /\ CuentaIO'
<1>1. k \in Hilos
    BY LosHilos
<1>2. /\ e \in Etiquetas \cup EtiquetasSem /\ a # "espIO" /\ e # "espIO"
    BY DEF Etiquetas, EtiquetasSem
<1>3. TipoHilos'
    BY <1>1, <1>2, TrasIr DEF IInv, Tipos
<1>4. UNCHANGED <<ioInst, colaIO, recurso>>
    BY DEF io
<1>5. TipoIO'
    BY <1>4 DEF IInv, Tipos, TipoIO
<1>6. CuentaIO'
    BY <1>1, <1>2, <1>4, IOIr DEF IInv
<1> QED BY <1>3, <1>5, <1>6
-----------------------------------------------------------------------------
\* SEM_WAIT: the value goes down ...
LEMMA InvRestarInstancia ==
    ASSUME IInvSem, NEW k \in CPUs, RestarInstancia(k)
    PROVE  IInvSem'
<1>1. /\ SinPlanificar /\ valor' = [valor EXCEPT ![semDe[k]] = @ - 1]
      /\ Ir(k, "semTomada") \/ Ir(k, "semBloquear")
      /\ UNCHANGED <<credito, mutexDeadlock, pedidos, listaSem, nombre, semLibres, colaSem,
                     retiene, espera, semDe, despierta>>
    BY DEF RestarInstancia, objetos, deadlockInfo, enCurso
<1>2. /\ {"semWait", "semTomada", "semBloquear"} \subseteq EtiquetasSem \ {"espSem", "semLog"}
      /\ {"semTomada", "semBloquear"} \cap ConDespierto = {}
    BY DEF EtiquetasSem, ConDespierto
<1>3. EnSem(k, "semWait") /\ semDe[k] \in Semaforos
    BY <1>2, DelPedido DEF RestarInstancia
<1>4. TipoObjetos' /\ TipoCuentas' /\ TipoDeadlock'
    BY <1>1, <1>3 DEF IInvSem, TiposSem, TipoObjetos, TipoCuentas, TipoDeadlock
<1> QED BY <1>1, <1>2, <1>3, <1>4, PasoDePedido

\* ... the PCB holds the instance it has taken ...
LEMMA InvRetenerTomada ==
    ASSUME IInvSem, NEW k \in CPUs, RetenerTomada(k)
    PROVE  IInvSem'
<1>1. /\ SinPlanificar /\ Retener(tomado[k], semDe[k]) /\ Ir(k, "semLog")
      /\ UNCHANGED <<credito, mutexDeadlock, pedidos, listaSem, nombre, semLibres, valor,
                     colaSem, espera, semDe, despierta>>
    BY DEF RetenerTomada, objetos, cuentas, enCurso
<1>2. /\ "semTomada" \in EtiquetasSem \ {"espSem", "semLog"}
      /\ "semLog" \in EtiquetasSem \ {"espSem"} /\ "semLog" \notin ConDespierto
    BY DEF EtiquetasSem, ConDespierto
<1>3. /\ EnSem(k, "semTomada") /\ tomado[k] \in Carpinchos
      /\ nombre[semDe[k]] \in NombresSem
    BY <1>2, DelPedido DEF RetenerTomada
<1>4. retiene' \in [Carpinchos -> [NombresSem -> Nat]]
    BY <1>1, <1>3, TrasRetener DEF IInvSem, TiposSem
<1>5. TipoObjetos' /\ TipoCuentas' /\ TipoDeadlock'
    BY <1>1, <1>4 DEF IInvSem, TiposSem, TipoObjetos, TipoCuentas, TipoDeadlock
<1> QED BY <1>1, <1>2, <1>3, <1>5, PasoDePedido

\* ... the PCB leaves EXEC for the semaphore's queue ...
LEMMA InvBloquearEnSem ==
    ASSUME IInvSem, NEW k \in CPUs, BloquearEnSem(k)
    PROVE  IInvSem'
<1>1. /\ cola' = [cola EXCEPT !["exec"] = RemoveFirst(@, tomado[k])]
      /\ estado' = [estado EXCEPT ![tomado[k]] = "BLOCKED"]
      /\ espera' = [espera EXCEPT ![tomado[k]] = semDe[k]]
      /\ colaSem' = [colaSem EXCEPT ![semDe[k]] = Append(colaSem[semDe[k]], tomado[k])]
      /\ Ir(k, "semEncolar")
      /\ UNCHANGED <<sem, io, mutexDeadlock, tomado, credito, pedidos, cerrados, liberados, fallo,
                     listaSem, nombre, semLibres, valor, retiene, semDe, despierta>>
    BY DEF BloquearEnSem, Marcar, objetos, enCurso, clientes, fin
<1>2. /\ {"semBloquear", "semEncolar"} \subseteq EtiquetasSem \ {"espSem"}
      /\ "semEncolar" \notin ConDespierto
    BY DEF EtiquetasSem, ConDespierto
<1>3. /\ En(k, "semBloquear") /\ tomado[k] \in Carpinchos /\ semDe[k] \in Semaforos
      /\ nombre[semDe[k]] \in NombresSem
    BY <1>2, DelPedido DEF BloquearEnSem
<1>4. TipoHilos' /\ TipoIO' /\ CuentaIO'
    BY <1>1, <1>2, <1>3, PasoEnPedido DEF IInvSem
<1>5. cola \in TipoCola /\ cola["exec"] \in Seq(Carpinchos)
    BY DEF IInvSem, IInv, Tipos, TipoCola, Colas
<1>6. RemoveFirst(cola["exec"], tomado[k]) \in Seq(Carpinchos)
    BY <1>5, QuitarPrimero
<1>7. (cola \in TipoCola)' /\ \A q \in Colas \ {"exec"} : cola'[q] = cola[q]
    BY <1>1, <1>5, <1>6 DEF TipoCola
<1>8. Conteos'
    BY <1>1, <1>2, <1>3, <1>7, ConteosMovido DEF IInvSem
<1>9. TipoSem' /\ TipoPCB'
    BY <1>1, <1>3 DEF IInvSem, IInv, Tipos, TipoSem, TipoPCB, Estados
<1>10. TipoObjetos' /\ TipoDeadlock' /\ TipoCurso' /\ EnPedido(k)'
    BY <1>1, <1>3 DEF IInvSem, TiposSem, TipoObjetos, TipoDeadlock, TipoCurso, EnPedido
<1>11. TipoCuentas'
    <2>1. Append(colaSem[semDe[k]], tomado[k]) \in Seq(Carpinchos)
        BY <1>3, AppendProperties DEF IInvSem, TiposSem, TipoCuentas
    <2> QED BY <1>1, <2>1 DEF IInvSem, TiposSem, TipoCuentas
<1>12. ManosSem'
    BY <1>1, <1>2, <1>3, <1>10, TrasManos
<1> QED BY <1>4, <1>7, <1>8, <1>9, <1>10, <1>11, <1>12 DEF IInvSem, IInv, Tipos, TiposSem

\* ... and for BLOCKED, where it asks for an evaluation ...
LEMMA InvEncolarEnBlocked ==
    ASSUME IInvSem, NEW k \in CPUs, EncolarEnBlocked(k)
    PROVE  IInvSem'
<1>1. /\ cola' = Encolar("blocked", tomado[k]) /\ sem' = Post("despertar")
      /\ Ir(k, "espSem")
      /\ UNCHANGED <<estado, io, mutexDeadlock, tomado, credito, pedidos, cerrados, liberados,
                     fallo, listaSem, nombre, semLibres, valor, colaSem, retiene, espera,
                     semDe, despierta>>
    BY DEF EncolarEnBlocked, varsSem, objetos, cuentas, deadlockInfo, enCurso, clientes, fin
<1>2. /\ "semEncolar" \in EtiquetasSem /\ "espSem" \in EtiquetasSem
      /\ "espSem" \notin ConDespierto
    BY DEF EtiquetasSem, ConDespierto
<1>3. /\ En(k, "semEncolar") /\ tomado[k] \in Carpinchos /\ semDe[k] \in Semaforos
      /\ nombre[semDe[k]] \in NombresSem
    BY <1>2, DelPedido DEF EncolarEnBlocked
<1>4. TipoHilos' /\ TipoIO' /\ CuentaIO'
    BY <1>1, <1>2, <1>3, PasoEnPedido DEF IInvSem
<1>5. /\ cola \in TipoCola /\ TipoSem
      /\ Tam("new") \in Nat /\ Tam("susready") \in Nat
      /\ Tam("ready") \in Nat /\ Tam("exit") \in Nat
      /\ Respuestas \in Nat /\ Avisos \in Nat
      /\ sem \in [Contadores -> Nat]
      /\ sem["ready"] \in Nat /\ sem["exit"] \in Nat
      /\ k \in Hilos /\ k # "largo" /\ k # "mediano"
    BY Terminos DEF IInvSem
<1>6. /\ (cola \in TipoCola)'
      /\ \A q \in Colas \ {"blocked"} : cola'[q] = cola[q]
    BY <1>1, <1>3, <1>5, TrasEncolar DEF Colas
<1>7. /\ TipoSem' /\ sem'["despertar"] = sem["despertar"] + 1
      /\ \A u \in Contadores \ {"despertar"} : sem'[u] = sem[u]
    BY <1>1, <1>5, TrasPost DEF Contadores
<1>8. /\ Respuestas' = Respuestas + 1
      /\ UNCHANGED <<Tam("new"), Tam("susready"), Tam("ready"), Tam("exit"),
                     Avisos, sem["ready"], sem["exit"]>>
    <2>1. \A u \in Contadores : sem[u] \in Nat
        BY <1>5
    <2>2. Respuestas' = Respuestas + 1
        BY <1>7, <2>1 DEF Respuestas, Contadores
    <2>3. UNCHANGED <<Avisos, sem["ready"], sem["exit"]>>
        BY <1>7 DEF Avisos, Contadores
    <2>4. UNCHANGED <<Tam("new"), Tam("susready"), Tam("ready"), Tam("exit")>>
        BY <1>6 DEF Tam, Colas
    <2> QED BY <2>2, <2>3, <2>4
<1>9. SaldaApreton(k, "semEncolar", "espSem")
    BY <1>5, <1>8 DEF SaldaApreton, Uno, Esperas
<1>10. SaldaAdmision("semEncolar", "espSem") /\ SaldaReady("semEncolar", "espSem")
    BY <1>5, <1>8 DEF SaldaAdmision, SaldaReady, Uno, Admitiendo, Despachando
<1>11. SaldaExit("semEncolar", "espSem") /\ SaldaLargo(k, "espSem") /\ fallo' = "no"
    BY <1>1, <1>3, <1>5, <1>8 DEF SaldaExit, SaldaLargo, Uno, Cerrando, En
<1>12. Conteos'
    BY <1>1, <1>3, <1>5, <1>6, <1>7, <1>9, <1>10, <1>11, ConteosTras DEF Salda, IInvSem
<1>13. TipoPCB'
    BY <1>1 DEF IInvSem, IInv, Tipos, TipoPCB
<1>14. TipoObjetos' /\ TipoCuentas' /\ TipoDeadlock' /\ TipoCurso' /\ EnPedido(k)'
    BY <1>1, <1>3 DEF IInvSem, TiposSem, TipoObjetos, TipoCuentas, TipoDeadlock, TipoCurso, EnPedido
<1>15. ManosSem'
    BY <1>1, <1>2, <1>3, <1>14, TrasManos
<1> QED BY <1>4, <1>6, <1>7, <1>12, <1>13, <1>14, <1>15 DEF IInvSem, IInv, Tipos, TiposSem

\* ... for which it waits.
LEMMA InvTerminarSemWait ==
    ASSUME IInvSem, NEW k \in CPUs, TerminarSemWait(k)
    PROVE  IInvSem'
<1>1. /\ Puede("concluida") /\ sem' = Wait("concluida")
      /\ credito' = [credito EXCEPT ![tomado[k]] = credito[tomado[k]] + 1]
      /\ semDe' = [semDe EXCEPT ![k] = Nadie] /\ Ir(k, "estimar")
      /\ UNCHANGED <<cola, estado, io, mutexDeadlock, tomado, pedidos, cerrados, liberados,
                     fallo, listaSem, nombre, semLibres, valor, colaSem, retiene, espera,
                     despierta>>
    BY DEF TerminarSemWait, objetos, cuentas, deadlockInfo, fin
<1>2. /\ "espSem" \in EtiquetasSem
      /\ "estimar" \notin EtiquetasSem \cup ConSem \cup ConDespierto
    BY DEF EtiquetasSem, ConSem, ConDespierto
<1>3. En(k, "espSem") /\ tomado[k] \in Carpinchos
    BY <1>2, DelPedido DEF TerminarSemWait
<1>4. TipoHilos' /\ TipoIO' /\ CuentaIO'
    BY <1>1, <1>2, <1>3, PasoEnPedido DEF IInvSem
<1>5. /\ cola \in TipoCola /\ TipoSem
      /\ Tam("new") \in Nat /\ Tam("susready") \in Nat
      /\ Tam("ready") \in Nat /\ Tam("exit") \in Nat
      /\ Respuestas \in Nat /\ Avisos \in Nat
      /\ sem \in [Contadores -> Nat]
      /\ sem["ready"] \in Nat /\ sem["exit"] \in Nat
      /\ k \in Hilos /\ k # "largo" /\ k # "mediano"
    BY Terminos DEF IInvSem
<1>6. /\ TipoSem' /\ sem'["concluida"] + 1 = sem["concluida"]
      /\ \A u \in Contadores \ {"concluida"} : sem'[u] = sem[u]
    BY <1>1, <1>5, TrasWait DEF Contadores
<1>7. /\ Respuestas' = Respuestas - 1
      /\ UNCHANGED <<Tam("new"), Tam("susready"), Tam("ready"), Tam("exit"),
                     Avisos, sem["ready"], sem["exit"]>>
    <2>1. \A u \in Contadores : sem[u] \in Nat /\ sem'[u] \in Nat
        BY <1>5, <1>6 DEF TipoSem
    <2>2. Respuestas' = Respuestas - 1
        BY <1>6, <2>1 DEF Respuestas, Contadores
    <2>3. UNCHANGED <<Avisos, sem["ready"], sem["exit"]>>
        BY <1>6 DEF Avisos, Contadores
    <2>4. UNCHANGED <<Tam("new"), Tam("susready"), Tam("ready"), Tam("exit")>>
        BY <1>1 DEF Tam
    <2> QED BY <2>2, <2>3, <2>4
<1>8. SaldaApreton(k, "espSem", "estimar")
    BY <1>5, <1>7 DEF SaldaApreton, Uno, Esperas
<1>9. SaldaAdmision("espSem", "estimar") /\ SaldaReady("espSem", "estimar")
    BY <1>5, <1>7 DEF SaldaAdmision, SaldaReady, Uno, Admitiendo, Despachando
<1>10. SaldaExit("espSem", "estimar") /\ SaldaLargo(k, "estimar") /\ fallo' = "no"
    BY <1>1, <1>3, <1>5, <1>7 DEF SaldaExit, SaldaLargo, Uno, Cerrando, En
<1>11. (cola \in TipoCola)'
    BY <1>1, <1>5
<1>12. Conteos'
    BY <1>1, <1>3, <1>5, <1>6, <1>8, <1>9, <1>10, <1>11, ConteosTras DEF Salda, IInvSem
<1>13. TipoPCB'
    <2>1. credito[tomado[k]] + 1 \in Int
        BY <1>3 DEF IInvSem, IInv, Tipos, TipoPCB
    <2>2. credito' \in [Carpinchos -> Int]
        BY <1>1, <2>1 DEF IInvSem, IInv, Tipos, TipoPCB
    <2> QED BY <1>1, <2>2 DEF IInvSem, IInv, Tipos, TipoPCB
<1>14. TipoObjetos' /\ TipoCuentas' /\ TipoDeadlock' /\ TipoCurso'
    BY <1>1 DEF IInvSem, TiposSem, TipoObjetos, TipoCuentas, TipoDeadlock, TipoCurso
<1>15. \A h \in CPUs \ {k} : semDe'[h] = semDe[h]
    BY <1>1 DEF IInvSem, TiposSem, TipoCurso
<1>16. ManosSem'
    BY <1>1, <1>2, <1>15, TrasManos
<1> QED BY <1>4, <1>6, <1>11, <1>12, <1>13, <1>14, <1>16 DEF IInvSem, IInv, Tipos, TiposSem
-----------------------------------------------------------------------------
\* SEM_POST: the value goes up ...
LEMMA InvSumarInstancia ==
    ASSUME IInvSem, NEW k \in CPUs, SumarInstancia(k)
    PROVE  IInvSem'
<1>1. /\ SinPlanificar /\ valor' = [valor EXCEPT ![semDe[k]] = @ + 1]
      /\ LiberarInstancia(tomado[k], semDe[k])
      /\ mutexDeadlock' \in {mutexDeadlock, k} /\ (Ir(k, "semPop") \/ Ir(k, "semLog"))
      /\ UNCHANGED <<credito, pedidos, listaSem, nombre, semLibres, colaSem, espera, semDe,
                     despierta>>
    BY DEF SumarInstancia, objetos, enCurso
<1>2. /\ {"semPost", "semPop"} \subseteq EtiquetasSem \ {"espSem", "semLog"}
      /\ "semLog" \in EtiquetasSem \ {"espSem"} /\ {"semPop", "semLog"} \cap ConDespierto = {}
    BY DEF EtiquetasSem, ConDespierto
<1>3. /\ EnSem(k, "semPost") /\ tomado[k] \in Carpinchos /\ semDe[k] \in Semaforos
      /\ nombre[semDe[k]] \in NombresSem
    BY <1>2, DelPedido DEF SumarInstancia
<1>4. retiene' \in [Carpinchos -> [NombresSem -> Nat]]
    BY <1>1, <1>3, TrasRetener DEF IInvSem, TiposSem
<1>5. TipoObjetos' /\ TipoCuentas' /\ TipoDeadlock'
    BY <1>1, <1>3, <1>4 DEF IInvSem, TiposSem, TipoObjetos, TipoCuentas, TipoDeadlock
<1> QED BY <1>1, <1>2, <1>3, <1>5, PasoDePedido

\* ... the first PCB of the semaphore's queue comes out ...
LEMMA InvSacarDeSem ==
    ASSUME IInvSem, NEW k \in CPUs, SacarDeSem(k)
    PROVE  IInvSem'
<1>1. /\ SinPlanificar
      /\ UNCHANGED <<credito, pedidos, listaSem, nombre, semLibres, valor, retiene, espera, semDe>>
    BY DEF SacarDeSem, objetos, deadlockInfo
<1>2. /\ {"semPop", "semDespertar"} \subseteq DePedido \cap EtiquetasSem
      /\ "semPop" \in EtiquetasSem \ {"espSem", "semLog"}
      /\ "semLog" \in EtiquetasSem \ {"espSem"} /\ "semLog" \notin ConDespierto
    BY DEF DePedido, EtiquetasSem, ConDespierto
<1>3. /\ EnSem(k, "semPop") /\ En(k, "semPop") /\ tomado[k] \in Carpinchos
      /\ semDe[k] \in Semaforos /\ nombre[semDe[k]] \in NombresSem
    BY <1>2, DelPedido DEF SacarDeSem
<1>4. UNCHANGED tomado
    BY <1>1 DEF SinPlanificar
<1>5. TipoObjetos' /\ TipoDeadlock'
    BY <1>1 DEF IInvSem, TiposSem, TipoObjetos, TipoDeadlock
<1>6. CASE Ir(k, "semLog") /\ mutexDeadlock' = Nadie /\ UNCHANGED <<colaSem, despierta>>
    <2>1. TipoCuentas'
        BY <1>1, <1>6 DEF IInvSem, TiposSem, TipoCuentas
    <2> QED BY <1>1, <1>2, <1>3, <1>5, <1>6, <2>1, PasoDePedido
<1>7. CASE /\ colaSem[semDe[k]] # <<>>
           /\ despierta' = [despierta EXCEPT ![k] = Head(colaSem[semDe[k]])]
           /\ colaSem' = [colaSem EXCEPT ![semDe[k]] = Tail(colaSem[semDe[k]])]
           /\ Ir(k, "semDespertar")
           /\ UNCHANGED mutexDeadlock
    <2>1. IInv'
        BY <1>1, <1>2, <1>3, <1>7, PasoSinPlanificar DEF IInvSem, IInv, Tipos, TipoPCB
    <2>2. /\ Head(colaSem[semDe[k]]) \in Carpinchos
          /\ Tail(colaSem[semDe[k]]) \in Seq(Carpinchos)
        BY <1>3, <1>7, HeadTailProperties DEF IInvSem, TiposSem, TipoCuentas
    <2>3. TipoCuentas' /\ TipoCurso'
        BY <1>1, <1>7, <2>2 DEF IInvSem, TiposSem, TipoCuentas, TipoCurso
    <2>4. /\ EnPedido(k)' /\ despierta'[k] \in Carpinchos
          /\ \A h \in CPUs \ {k} : despierta'[h] = despierta[h]
        BY <1>1, <1>3, <1>4, <1>7, <2>2 DEF IInvSem, TiposSem, TipoCurso, EnPedido
    <2>5. ManosSem'
        BY <1>1, <1>2, <1>3, <1>4, <1>7, <2>4, TrasManos
    <2> QED BY <1>5, <2>1, <2>3, <2>5 DEF IInvSem, TiposSem
<1> QED BY <1>6, <1>7 DEF SacarDeSem

\* ... goes to SUSP/READY, which is announced, or out of BLOCKED ...
LEMMA InvDespertarDeSem ==
    ASSUME IInvSem, NEW k \in CPUs, DespertarDeSem(k)
    PROVE  IInvSem'
<1> DEFINE c == despierta[k]
<1>1. /\ UNCHANGED <<io, mutexDeadlock, tomado, credito, pedidos, cerrados, liberados, fallo>>
      /\ UNCHANGED <<listaSem, nombre, semLibres, valor, colaSem, retiene, espera,
                     semDe, despierta>>
    BY DEF DespertarDeSem, varsSem, objetos, cuentas, deadlockInfo, enCurso, clientes, fin
<1>2. /\ {"semDespertar", "semAReady", "semRetener"} \subseteq EtiquetasSem \ {"espSem"}
      /\ "semDespertar" \in ConDespierto
    BY DEF EtiquetasSem, ConDespierto
<1>3. /\ En(k, "semDespertar") /\ tomado[k] \in Carpinchos /\ semDe[k] \in Semaforos
      /\ nombre[semDe[k]] \in NombresSem /\ c \in Carpinchos
    BY <1>2, DelPedido DEF DespertarDeSem
<1>4. TipoObjetos' /\ TipoCuentas' /\ TipoDeadlock' /\ TipoCurso' /\ EnPedido(k)'
    BY <1>1, <1>3 DEF IInvSem, TiposSem, TipoObjetos, TipoCuentas, TipoDeadlock, TipoCurso, EnPedido
<1>5. /\ cola \in TipoCola /\ TipoSem
      /\ Tam("new") \in Nat /\ Tam("susready") \in Nat
      /\ Tam("ready") \in Nat /\ Tam("exit") \in Nat
      /\ Respuestas \in Nat /\ Avisos \in Nat
      /\ sem \in [Contadores -> Nat]
      /\ sem["ready"] \in Nat /\ sem["exit"] \in Nat
      /\ k \in Hilos /\ k # "largo" /\ k # "mediano"
    BY Terminos DEF IInvSem
<1>6. ASSUME NEW e \in {"semAReady", "semRetener"}, Ir(k, e), (cola \in TipoCola)',
             TipoSem', estado' \in [Carpinchos -> Estados], Conteos'
      PROVE  IInvSem'
    <2>1. TipoHilos' /\ TipoIO' /\ CuentaIO'
        BY <1>1, <1>2, <1>3, <1>6, PasoEnPedido DEF IInvSem
    <2>2. TipoPCB'
        BY <1>1, <1>6 DEF IInvSem, IInv, Tipos, TipoPCB
    <2>3. ManosSem'
        BY <1>1, <1>2, <1>3, <1>4, <1>6, TrasManos
    <2> QED BY <1>4, <1>6, <2>1, <2>2, <2>3 DEF IInvSem, IInv, Tipos, TiposSem
<1>7. estado \in [Carpinchos -> Estados]
    BY DEF IInvSem, IInv, Tipos, TipoPCB
<1>8. CASE /\ estado' = [estado EXCEPT ![c] = "SUSREADY"]
           /\ cola' = Mover(c, "susblocked", "susready")
           /\ sem' = Post("hay")
           /\ Ir(k, "semRetener")
    <2>1. /\ (cola \in TipoCola)'
          /\ Len(cola'["susready"]) = Len(cola["susready"]) + 1
          /\ \A q \in Colas \ {"susblocked", "susready"} : cola'[q] = cola[q]
        <3>1. "susblocked" \in Colas /\ "susready" \in Colas
            BY DEF Colas
        <3> HIDE DEF c
        <3> QED BY <1>3, <1>5, <1>8, <3>1, TrasMover
    <2>2. /\ TipoSem' /\ sem'["hay"] = sem["hay"] + 1
          /\ \A u \in Contadores \ {"hay"} : sem'[u] = sem[u]
        BY <1>5, <1>8, TrasPost DEF Contadores
    <2>3. \A u \in Contadores : sem[u] \in Nat /\ sem'[u] \in Nat
        BY <1>5, <2>2 DEF TipoSem
    <2>4. Avisos' = Avisos + 1
        BY <2>2, <2>3 DEF Avisos, Contadores
    <2>5. UNCHANGED <<Respuestas, sem["ready"], sem["exit"]>>
        BY <2>2 DEF Respuestas, Contadores
    <2>6. /\ Tam("susready")' = Tam("susready") + 1
          /\ UNCHANGED <<Tam("new"), Tam("ready"), Tam("exit")>>
        BY <2>1 DEF Tam, Colas
    <2>7. /\ SaldaApreton(k, "semDespertar", "semRetener")
          /\ SaldaAdmision("semDespertar", "semRetener")
        BY <1>5, <2>4, <2>5, <2>6 DEF SaldaApreton, SaldaAdmision, Uno, Esperas, Admitiendo
    <2>8. /\ SaldaReady("semDespertar", "semRetener")
          /\ SaldaExit("semDespertar", "semRetener") /\ SaldaLargo(k, "semRetener")
        BY <1>5, <2>4, <2>5, <2>6 DEF SaldaReady, SaldaExit, SaldaLargo, Uno, Despachando, Cerrando
    <2>9. fallo' = "no"
        BY <1>1, <1>3 DEF En
    <2>10. Conteos'
        BY <1>3, <1>5, <1>8, <2>1, <2>2, <2>7, <2>8, <2>9, ConteosTras DEF Salda, IInvSem
    <2>11. estado' \in [Carpinchos -> Estados]
        BY <1>3, <1>7, <1>8 DEF Estados
    <2> QED BY <1>6, <1>8, <2>1, <2>2, <2>10, <2>11
<1>9. CASE /\ cola' = [cola EXCEPT !["blocked"] = RemoveFirst(cola["blocked"], c)]
           /\ Ir(k, "semAReady") /\ UNCHANGED <<estado, sem>>
    <2>1. cola["blocked"] \in Seq(Carpinchos)
        BY <1>5 DEF TipoCola, Colas
    <2>2. RemoveFirst(cola["blocked"], c) \in Seq(Carpinchos)
        BY <2>1, QuitarPrimero
    <2>3. (cola \in TipoCola)' /\ \A q \in Colas \ {"blocked"} : cola'[q] = cola[q]
        BY <1>5, <1>9, <2>2 DEF TipoCola
    <2>4. Conteos'
        BY <1>1, <1>2, <1>3, <1>9, <2>3, ConteosMovido DEF IInvSem
    <2>5. TipoSem' /\ estado' \in [Carpinchos -> Estados]
        BY <1>5, <1>7, <1>9 DEF TipoSem
    <2> QED BY <1>6, <1>9, <2>3, <2>4, <2>5
<1>10. CASE Ir(k, "semRetener") /\ UNCHANGED <<cola, estado, sem>>
    <2>1. (cola \in TipoCola)' /\ TipoSem' /\ estado' \in [Carpinchos -> Estados]
        BY <1>5, <1>7, <1>10 DEF TipoSem
    <2>2. Conteos'
        BY <1>1, <1>2, <1>3, <1>10, <2>1, ConteosMovido DEF IInvSem
    <2> QED BY <1>6, <1>10, <2>1, <2>2
<1> QED BY <1>8, <1>9, <1>10 DEF DespertarDeSem, Marcar

\* ... and then to READY, before READY's semaphore ...
LEMMA InvDeSemAReady ==
    ASSUME IInvSem, NEW k \in CPUs, DeSemAReady(k)
    PROVE  IInvSem'
<1>1. /\ estado' = [estado EXCEPT ![despierta[k]] = "READY"]
      /\ cola' = Encolar("ready", despierta[k]) /\ sem' = Post("ready") /\ Ir(k, "semRetener")
      /\ UNCHANGED <<io, mutexDeadlock, tomado, credito, pedidos, cerrados, liberados, fallo>>
      /\ UNCHANGED <<listaSem, nombre, semLibres, valor, colaSem, retiene, espera,
                     semDe, despierta>>
    BY DEF DeSemAReady, Marcar, varsSem, objetos, cuentas, deadlockInfo, enCurso, clientes, fin
<1>2. /\ {"semAReady", "semRetener"} \subseteq EtiquetasSem
      /\ "semAReady" \in ConDespierto
    BY DEF EtiquetasSem, ConDespierto
<1>3. /\ En(k, "semAReady") /\ tomado[k] \in Carpinchos /\ semDe[k] \in Semaforos
      /\ nombre[semDe[k]] \in NombresSem /\ despierta[k] \in Carpinchos
    BY <1>2, DelPedido DEF DeSemAReady
<1>4. TipoHilos' /\ TipoIO' /\ CuentaIO'
    BY <1>1, <1>2, <1>3, PasoEnPedido DEF IInvSem
<1>5. /\ cola \in TipoCola /\ TipoSem
      /\ Tam("new") \in Nat /\ Tam("susready") \in Nat
      /\ Tam("ready") \in Nat /\ Tam("exit") \in Nat
      /\ Respuestas \in Nat /\ Avisos \in Nat
      /\ sem \in [Contadores -> Nat]
      /\ sem["ready"] \in Nat /\ sem["exit"] \in Nat
      /\ k \in Hilos /\ k # "largo" /\ k # "mediano"
    BY Terminos DEF IInvSem
<1>6. /\ (cola \in TipoCola)' /\ Len(cola'["ready"]) = Len(cola["ready"]) + 1
      /\ \A q \in Colas \ {"ready"} : cola'[q] = cola[q]
    BY <1>1, <1>3, <1>5, TrasEncolar DEF Colas
<1>7. /\ TipoSem' /\ sem'["ready"] = sem["ready"] + 1
      /\ \A u \in Contadores \ {"ready"} : sem'[u] = sem[u]
    BY <1>1, <1>5, TrasPost DEF Contadores
<1>8. UNCHANGED <<Respuestas, Avisos, sem["exit"]>>
    BY <1>7 DEF Respuestas, Avisos, Contadores
<1>9. /\ Tam("ready")' = Tam("ready") + 1
      /\ UNCHANGED <<Tam("new"), Tam("susready"), Tam("exit")>>
    BY <1>6 DEF Tam, Colas
<1>10. SaldaApreton(k, "semAReady", "semRetener") /\ SaldaAdmision("semAReady", "semRetener")
    BY <1>5, <1>8, <1>9 DEF SaldaApreton, SaldaAdmision, Uno, Esperas, Admitiendo
<1>11. /\ SaldaReady("semAReady", "semRetener") /\ SaldaExit("semAReady", "semRetener")
       /\ SaldaLargo(k, "semRetener")
    BY <1>5, <1>7, <1>8, <1>9 DEF SaldaReady, SaldaExit, SaldaLargo, Uno, Despachando, Cerrando
<1>12. fallo' = "no"
    BY <1>1, <1>3 DEF En
<1>13. Conteos'
    BY <1>1, <1>3, <1>5, <1>6, <1>7, <1>10, <1>11, <1>12, ConteosTras DEF Salda, IInvSem
<1>14. TipoPCB'
    BY <1>1, <1>3 DEF IInvSem, IInv, Tipos, TipoPCB, Estados
<1>15. TipoObjetos' /\ TipoCuentas' /\ TipoDeadlock' /\ TipoCurso' /\ EnPedido(k)'
    BY <1>1, <1>3 DEF IInvSem, TiposSem, TipoObjetos, TipoCuentas, TipoDeadlock, TipoCurso, EnPedido
<1>16. ManosSem'
    BY <1>1, <1>2, <1>3, <1>15, TrasManos
<1> QED BY <1>4, <1>6, <1>7, <1>13, <1>14, <1>15, <1>16 DEF IInvSem, IInv, Tipos, TiposSem

\* ... and only then holds the instance.
LEMMA InvTerminarSemPost ==
    ASSUME IInvSem, NEW k \in CPUs, TerminarSemPost(k)
    PROVE  IInvSem'
<1>1. /\ SinPlanificar /\ Ir(k, "semLog") /\ mutexDeadlock' = Nadie
      /\ espera' = [espera EXCEPT ![despierta[k]] = Nadie]
      /\ Retener(despierta[k], semDe[k])
      /\ UNCHANGED <<credito, pedidos, listaSem, nombre, semLibres, valor, colaSem, semDe,
                     despierta>>
    BY DEF TerminarSemPost, objetos, cuentas, enCurso
<1>2. /\ "semRetener" \in EtiquetasSem \ {"espSem", "semLog"} /\ "semRetener" \in ConDespierto
      /\ "semLog" \in EtiquetasSem \ {"espSem"} /\ "semLog" \notin ConDespierto
    BY DEF EtiquetasSem, ConDespierto
<1>3. /\ EnSem(k, "semRetener") /\ nombre[semDe[k]] \in NombresSem
      /\ despierta[k] \in Carpinchos
    BY <1>2, DelPedido DEF TerminarSemPost
<1>4. retiene' \in [Carpinchos -> [NombresSem -> Nat]]
    BY <1>1, <1>3, TrasRetener DEF IInvSem, TiposSem
<1>5. TipoObjetos' /\ TipoCuentas' /\ TipoDeadlock'
    BY <1>1, <1>4 DEF IInvSem, TiposSem, TipoObjetos, TipoCuentas, TipoDeadlock
<1> QED BY <1>1, <1>2, <1>3, <1>5, PasoDePedido
-----------------------------------------------------------------------------
\* Removing from the list keeps its type.
LEMMA TrasSacarDeLista ==
    ASSUME listaSem \in Seq(Semaforos), NEW i
    PROVE  RemoveFirst(listaSem, i) \in Seq(Semaforos)
<1> HIDE DEF Semaforos
<1> QED BY QuitarPrimero

\* SEM_DESTROY: the queue is read ...
LEMMA InvMirarCola ==
    ASSUME IInvSem, NEW k \in CPUs, MirarCola(k)
    PROVE  IInvSem'
<1>1. /\ SinPlanificar /\ (Ir(k, "semQuitar") \/ Ir(k, "semLog"))
      /\ UNCHANGED <<credito, mutexDeadlock, pedidos, listaSem, nombre, semLibres, valor,
                     colaSem, retiene, espera, semDe, despierta>>
    BY DEF MirarCola, SinPlanificar, clientes, fin, varsSem, objetos, cuentas, deadlockInfo, enCurso
<1>2. /\ {"semDestruir", "semQuitar"} \subseteq EtiquetasSem \ {"espSem", "semLog"}
      /\ "semLog" \in EtiquetasSem \ {"espSem"}
      /\ {"semQuitar", "semLog"} \cap ConDespierto = {}
    BY DEF EtiquetasSem, ConDespierto
<1>3. EnSem(k, "semDestruir")
    BY DEF MirarCola
<1>4. TipoObjetos' /\ TipoCuentas' /\ TipoDeadlock'
    BY <1>1 DEF IInvSem, TiposSem, TipoObjetos, TipoCuentas, TipoDeadlock
<1> QED BY <1>1, <1>2, <1>3, <1>4, PasoDePedido

\* ... the semaphore goes out of the list ...
LEMMA InvSacarDeLista ==
    ASSUME IInvSem, NEW k \in CPUs, SacarDeLista(k)
    PROVE  IInvSem'
<1>1. /\ UNCHANGED <<cola, estado, sem, io, mutexDeadlock, tomado, credito, pedidos, cerrados,
                     liberados>>
      /\ UNCHANGED <<nombre, semLibres, valor, colaSem, retiene, espera, semDe, despierta>>
    BY DEF SacarDeLista, clientes, cuentas, deadlockInfo, enCurso
<1>2. /\ {"semQuitar", "semLiberar"} \subseteq EtiquetasSem \ {"espSem", "semLog"}
      /\ "semLiberar" \notin ConDespierto
    BY DEF EtiquetasSem, ConDespierto
<1>3. EnSem(k, "semQuitar")
    BY DEF SacarDeLista
<1>4. TipoCuentas' /\ TipoDeadlock'
    BY <1>1 DEF IInvSem, TiposSem, TipoCuentas, TipoDeadlock
<1>5. CASE /\ listaSem' = RemoveFirst(listaSem, Buscar(nombre[semDe[k]]))
           /\ Ir(k, "semLiberar") /\ UNCHANGED fallo
    <2>1. SinPlanificar
        BY <1>1, <1>5 DEF SinPlanificar, fin
    <2>2. TipoObjetos'
        BY <1>1, <1>5, TrasSacarDeLista DEF IInvSem, TiposSem, TipoObjetos
    <2> QED BY <1>1, <1>2, <1>3, <1>4, <1>5, <2>1, <2>2, PasoDePedido
<1>6. CASE fallo' = "indefinido" /\ UNCHANGED <<listaSem, pc>>
    <2>1. Caer("indefinido")
        BY <1>1, <1>6 DEF Caer, clientes
    <2>2. Tipos' /\ CuentaIO' /\ Conteos'
        BY <1>6, <2>1, TiposCaer, IOCaer, ConteosCaer DEF IInvSem, IInv
    <2>3. TiposSem'
        BY <1>1, <1>6 DEF IInvSem, TiposSem, TipoObjetos, TipoCuentas, TipoDeadlock,
           TipoCurso, ManosSem, EnPedido
    <2> QED BY <2>2, <2>3 DEF IInvSem, IInv
<1> QED BY <1>5, <1>6 DEF SacarDeLista

\* ... and is freed.
LEMMA InvDestruirSem ==
    ASSUME IInvSem, NEW k \in CPUs, DestruirSem(k)
    PROVE  IInvSem'
<1>1. /\ SinPlanificar /\ Responder(k)
      /\ semLibres' = semLibres \cup {semDe[k]}
      /\ UNCHANGED <<mutexDeadlock, pedidos, listaSem, nombre, valor, colaSem, retiene, espera>>
    BY DEF DestruirSem, cuentas, deadlockInfo
<1>2. /\ "semLiberar" \in DePedido \cap EtiquetasSem
      /\ "atender" \in DePedido /\ "atender" \notin EtiquetasSem \cup ConSem \cup ConDespierto
    BY DEF DePedido, EtiquetasSem, ConSem, ConDespierto
<1>3. En(k, "semLiberar") /\ tomado[k] \in Carpinchos /\ semDe[k] \in Semaforos
    BY <1>2, DelPedido DEF DestruirSem
<1>4. /\ Ir(k, "atender") /\ credito' \in [Carpinchos -> Int] /\ TipoCurso'
      /\ \A h \in CPUs \ {k} : semDe'[h] = semDe[h] /\ despierta'[h] = despierta[h]
    BY <1>1, <1>3, AlResponder
<1>5. IInv'
    BY <1>1, <1>2, <1>3, <1>4, PasoSinPlanificar DEF IInvSem, IInv, Tipos, TipoPCB
<1>6. TipoObjetos' /\ TipoCuentas' /\ TipoDeadlock'
    BY <1>1, <1>3 DEF IInvSem, TiposSem, TipoObjetos, TipoCuentas, TipoDeadlock
<1>7. UNCHANGED tomado
    BY <1>1 DEF SinPlanificar
<1>8. ManosSem'
    BY <1>1, <1>2, <1>4, <1>7, TrasManos
<1> QED BY <1>4, <1>5, <1>6, <1>8 DEF IInvSem, TiposSem

\* A freed PCB or semaphore ends the kernel.
LEMMA InvUsarColgado ==
    ASSUME IInvSem, NEW k \in CPUs, UsarColgado(k)
    PROVE  IInvSem'
<1>1. /\ Caer("indefinido") /\ UNCHANGED <<pc, tomado>>
      /\ UNCHANGED <<listaSem, nombre, semLibres, valor, colaSem, retiene, espera, semDe,
                     despierta>>
    BY DEF UsarColgado, Caer, varsSem, objetos, cuentas, deadlockInfo, enCurso
<1>2. Tipos' /\ CuentaIO' /\ Conteos'
    BY <1>1, TiposCaer, IOCaer, ConteosCaer DEF IInvSem, IInv, Caer
<1>3. TiposSem'
    BY <1>1 DEF IInvSem, TiposSem, TipoObjetos, TipoCuentas, TipoDeadlock,
       TipoCurso, ManosSem, EnPedido
<1> QED BY <1>2, <1>3 DEF IInvSem, IInv
-----------------------------------------------------------------------------
\* The invariant holds when the kernel starts ...
LEMMA IInvSemInit == InitSem => IInvSem
<1> SUFFICES ASSUME InitSem PROVE IInvSem
    OBVIOUS
<1>1. IInv
    BY IInvInit DEF InitSem
<1>2. TipoObjetos /\ TipoCuentas /\ TipoDeadlock /\ TipoCurso
    BY EmptySeq DEF InitSem, TipoObjetos, TipoCuentas, TipoDeadlock, TipoCurso
<1>3. \A k \in CPUs : pc[k] \notin EtiquetasSem \cup ConSem \cup ConDespierto
    BY LosHilos DEF InitSem, Init, EtiquetasSem, ConSem, ConDespierto, Hilos, Planificadores
<1>4. ManosSem
    BY <1>3 DEF ManosSem
<1> QED BY <1>1, <1>2, <1>4 DEF IInvSem, TiposSem

\* ... and every step keeps it.
LEMMA IInvSemNext == IInvSem /\ [NextSem]_varsTodo => IInvSem'
<1> SUFFICES ASSUME IInvSem, [NextSem]_varsTodo PROVE IInvSem'
    OBVIOUS
<1>1. ASSUME NEW k \in CPUs, SemWait(k) PROVE IInvSem'
    BY <1>1, InvEncontrar, InvRestarInstancia, InvRetenerTomada, InvBloquearEnSem,
       InvEncolarEnBlocked, InvTerminarSemWait DEF SemWait, AtenderSemWait
<1>2. ASSUME NEW k \in CPUs, SemPost(k) PROVE IInvSem'
    BY <1>2, InvEncontrar, InvSumarInstancia, InvSacarDeSem, InvDespertarDeSem,
       InvDeSemAReady, InvTerminarSemPost DEF SemPost, AtenderSemPost
<1>3. ASSUME NEW k \in CPUs, SemDestroy(k) PROVE IInvSem'
    BY <1>3, InvEncontrar, InvMirarCola, InvSacarDeLista, InvDestruirSem
       DEF SemDestroy, AtenderSemDestroy
<1>4. CASE NextSem
    BY <1>1, <1>2, <1>3, <1>4, SemNext, InvSemInit, InvFinPedido, InvUsarColgado DEF NextSem
<1>5. CASE UNCHANGED varsTodo
    <2>1. UNCHANGED vars /\ UNCHANGED varsSem
        BY <1>5 DEF varsTodo
    <2>2. IInv'
        BY <2>1, IInvNext DEF IInvSem
    <2>3. UNCHANGED <<pc, tomado, listaSem, nombre, semLibres, valor, colaSem, retiene,
                      espera, semDe, despierta>>
        BY <2>1 DEF vars, varsSem, objetos, cuentas, deadlockInfo, enCurso
    <2>4. TiposSem'
        BY <2>3 DEF IInvSem, TiposSem, TipoObjetos, TipoCuentas, TipoDeadlock,
           TipoCurso, ManosSem, EnPedido
    <2> QED BY <2>2, <2>4 DEF IInvSem
<1> QED BY <1>4, <1>5

\* The scheduler's sums and the types hold with kernel semaphores too.
THEOREM IInvSemSiempre == SpecSem => []IInvSem
<1>1. InitSem => IInvSem
    BY IInvSemInit
<1>2. IInvSem /\ [NextSem]_varsTodo => IInvSem'
    BY IInvSemNext
<1> QED BY <1>1, <1>2, PTL DEF SpecSem

\* The type invariant the runs check.
THEOREM TypeSemOKSiempre == SpecSem => []TypeSemOK
BY IInvSemSiempre, IInvSemTipo, PTL

\* A CPU woken by READY's semaphore finds a PCB in READY, also when a SEM_POST
\* is what made it READY.
THEOREM CuentaReadySemSiempre == SpecSem => []CuentaReady
<1>1. IInvSem => CuentaReady
    BY DEF IInvSem, IInv, Conteos
<1> QED BY <1>1, IInvSemSiempre, PTL

\* Every thread that waits for the medium-term scheduler is owed one answer, also
\* when it is a SEM_WAIT that has blocked its PCB.
THEOREM ApretonSemSiempre == SpecSem => []Apreton
<1>1. IInvSem => Apreton
    BY DEF IInvSem, IInv, Conteos
<1> QED BY <1>1, IInvSemSiempre, PTL
-----------------------------------------------------------------------------
(* The posts and the waits, which change the value of a semaphore in one     *)
(* step and its queue in another: what each step does to the difference      *)
(* between the PCBs blocked at a semaphore and those its value promises.     *)

Saldo(s) == Bloqueados(s) - Deuda(s)

\* The CPUs that serve semaphore s at label e, and the length of its queue.
Sirviendo(s, e) == {k \in CPUs : semDe[k] = s /\ pc[k] = e}
EnCola(s) == Len(colaSem[s])

\* When one CPU moves, the count of those at a label of s changes by that CPU.
LEMMA CambioDeEse ==
    ASSUME NEW k \in CPUs, NEW s, NEW e,
           \A h \in CPUs \ {k} : semDe'[h] = semDe[h] /\ pc'[h] = pc[h]
    PROVE  /\ EnEse(s, e) \in Nat /\ EnEse(s, e)' \in Nat
           /\ EnEse(s, e)' + Uno(semDe[k] = s /\ pc[k] = e)
                = EnEse(s, e) + Uno(semDe'[k] = s /\ pc'[k] = e)
<1> DEFINE T == Sirviendo(s, e)
           U == {h \in CPUs : semDe'[h] = s /\ pc'[h] = e}
           R == T \ {k}
<1>1. IsFiniteSet(CPUs)
    BY ConstantesOK, LosHilos, FS_Subset DEF ConstantesOK
<1>2. T \subseteq CPUs /\ U \subseteq CPUs /\ R \subseteq CPUs
    BY DEF Sirviendo
<1>3. IsFiniteSet(T) /\ IsFiniteSet(U) /\ IsFiniteSet(R)
    BY <1>1, <1>2, FS_Subset
<1>4. /\ Cardinality(T) \in Nat /\ Cardinality(U) \in Nat /\ Cardinality(R) \in Nat
    BY <1>3, FS_CardinalityType
<1>5. /\ k \in T <=> semDe[k] = s /\ pc[k] = e
      /\ k \in U <=> semDe'[k] = s /\ pc'[k] = e
      /\ R = U \ {k}
    BY DEF Sirviendo
<1>6. Cardinality(R) = IF k \in T THEN Cardinality(T) - 1 ELSE Cardinality(T)
    BY <1>3, FS_RemoveElement
<1>7. Cardinality(U \ {k}) = IF k \in U THEN Cardinality(U) - 1 ELSE Cardinality(U)
    BY <1>3, FS_RemoveElement
<1>8. EnEse(s, e) = Cardinality(T) /\ EnEse(s, e)' = Cardinality(U)
    BY DEF EnEse, Sirviendo
<1> HIDE DEF T, U, R
<1> QED BY <1>4, <1>5, <1>6, <1>7, <1>8 DEF Uno

\* What a step of CPU k from label a to label e adds to the PCBs blocked at s.
Aporte(k, s, a, e) ==
    (EnCola(s)' - EnCola(s))
    + (Uno(semDe'[k] = s /\ e = "semBloquear") - Uno(semDe[k] = s /\ a = "semBloquear"))
    - (Uno(semDe'[k] = s /\ e = "semPop") - Uno(semDe[k] = s /\ a = "semPop"))

\* The balance moves by what the step adds to the blocked and to the debt.
LEMMA SaldoTras ==
    ASSUME IInvSem, IInvSem', NEW k \in CPUs, NEW a, NEW e, En(k, a), Ir(k, e),
           \A h \in CPUs \ {k} : semDe'[h] = semDe[h], NEW s \in Semaforos
    PROVE  /\ Saldo(s) \in Int /\ Deuda(s) \in Int /\ Deuda(s)' \in Int
           /\ Aporte(k, s, a, e) \in Int
           /\ Saldo(s)' = Saldo(s) + Aporte(k, s, a, e) - (Deuda(s)' - Deuda(s))
<1>1. /\ CPUs \subseteq Hilos /\ pc \in [Hilos -> Etiquetas \cup EtiquetasSem]
    BY LosHilos DEF IInvSem, IInv, Tipos, TipoHilos
<1>2. /\ pc[k] = a /\ pc'[k] = e /\ \A h \in CPUs \ {k} : pc'[h] = pc[h]
    BY <1>1 DEF En, Ir
<1>3. /\ EnCola(s) \in Nat /\ EnCola(s)' \in Nat
    BY LenProperties DEF EnCola, IInvSem, TiposSem, TipoCuentas
<1>4. Deuda(s) \in Int /\ Deuda(s)' \in Int
    <2>1. valor[s] \in Int /\ valor'[s] \in Int
        BY DEF IInvSem, TiposSem, TipoCuentas
    <2> QED BY <2>1 DEF Deuda
<1>5. /\ EnEse(s, "semBloquear") \in Nat /\ EnEse(s, "semBloquear")' \in Nat
      /\ EnEse(s, "semBloquear")' + Uno(semDe[k] = s /\ a = "semBloquear")
           = EnEse(s, "semBloquear") + Uno(semDe'[k] = s /\ e = "semBloquear")
    BY <1>2, CambioDeEse
<1>6. /\ EnEse(s, "semPop") \in Nat /\ EnEse(s, "semPop")' \in Nat
      /\ EnEse(s, "semPop")' + Uno(semDe[k] = s /\ a = "semPop")
           = EnEse(s, "semPop") + Uno(semDe'[k] = s /\ e = "semPop")
    BY <1>2, CambioDeEse
<1>7. /\ Uno(semDe[k] = s /\ a = "semBloquear") \in Nat
      /\ Uno(semDe'[k] = s /\ e = "semBloquear") \in Nat
      /\ Uno(semDe[k] = s /\ a = "semPop") \in Nat
      /\ Uno(semDe'[k] = s /\ e = "semPop") \in Nat
    BY DEF Uno
<1> DEFINE b == Uno(semDe[k] = s /\ a = "semBloquear")
           bb == Uno(semDe'[k] = s /\ e = "semBloquear")
           p == Uno(semDe[k] = s /\ a = "semPop")
           pp == Uno(semDe'[k] = s /\ e = "semPop")
           l == EnCola(s)
           ll == EnCola(s)'
           d == Deuda(s)
           dd == Deuda(s)'
           eb == EnEse(s, "semBloquear")
           ebb == EnEse(s, "semBloquear")'
           ep == EnEse(s, "semPop")
           epp == EnEse(s, "semPop")'
<1>8. /\ Saldo(s) = (l + eb - ep) - d
      /\ Saldo(s)' = (ll + ebb - epp) - dd
      /\ Aporte(k, s, a, e) = (ll - l) + (bb - b) - (pp - p)
    BY DEF Saldo, Bloqueados, Aporte, EnCola
<1>9. /\ ebb + b = eb + bb /\ epp + p = ep + pp
      /\ l \in Int /\ ll \in Int /\ d \in Int /\ dd \in Int
      /\ eb \in Int /\ ebb \in Int /\ ep \in Int /\ epp \in Int
      /\ b \in Int /\ bb \in Int /\ p \in Int /\ pp \in Int
    BY <1>3, <1>4, <1>5, <1>6, <1>7
<1> HIDE DEF b, bb, p, pp, l, ll, d, dd, eb, ebb, ep, epp
<1>10. /\ (l + eb - ep) - d \in Int /\ (ll - l) + (bb - b) - (pp - p) \in Int
       /\ (ll + ebb - epp) - dd
            = ((l + eb - ep) - d) + ((ll - l) + (bb - b) - (pp - p)) - (dd - d)
    BY ONLY <1>9
<1> QED BY <1>4, <1>8, <1>10 DEF d, dd

\* A step that changes neither a value nor a queue, between labels at which both
\* are settled, keeps it.
LEMMA SaldoIgual ==
    ASSUME IInvSem, IInvSem', NEW k \in CPUs, NEW a, NEW e, En(k, a), Ir(k, e),
           {a, e} \cap {"semBloquear", "semPop"} = {},
           \A h \in CPUs \ {k} : semDe'[h] = semDe[h],
           UNCHANGED <<valor, colaSem>>, NEW s \in Semaforos
    PROVE  Saldo(s)' = Saldo(s)
<1>1. EnCola(s)' = EnCola(s) /\ Deuda(s)' = Deuda(s)
    BY DEF EnCola, Deuda
<1>2. EnCola(s) \in Nat
    BY LenProperties DEF EnCola, IInvSem, TiposSem, TipoCuentas
<1>3. a \notin {"semBloquear", "semPop"} /\ e \notin {"semBloquear", "semPop"}
    OBVIOUS
<1>4. Aporte(k, s, a, e) = 0
    BY <1>1, <1>2, <1>3 DEF Aporte, Uno
<1> QED BY <1>1, <1>4, SaldoTras

\* A step after which the terms are what they were.
LEMMA SaldoQuieto ==
    ASSUME UNCHANGED <<valor, colaSem, semDe>>,
           \A k \in CPUs : \/ pc'[k] = pc[k]
                          \/ {pc[k], pc'[k]} \cap {"semBloquear", "semPop"} = {},
           NEW s \in Semaforos
    PROVE  Saldo(s)' = Saldo(s)
<1>1. /\ {k \in CPUs : semDe'[k] = s /\ pc'[k] = "semBloquear"}
           = {k \in CPUs : semDe[k] = s /\ pc[k] = "semBloquear"}
      /\ {k \in CPUs : semDe'[k] = s /\ pc'[k] = "semPop"}
           = {k \in CPUs : semDe[k] = s /\ pc[k] = "semPop"}
    OBVIOUS
<1>2. /\ EnEse(s, "semBloquear")' = EnEse(s, "semBloquear")
      /\ EnEse(s, "semPop")' = EnEse(s, "semPop")
    BY <1>1 DEF EnEse
<1> QED BY <1>2 DEF Saldo, Bloqueados, Deuda

\* SEM_WAIT: the debt and the PCB about to block appear together.
LEMMA SaldoRestar ==
    ASSUME IInvSem, IInvSem', NEW s \in Semaforos, NEW k \in CPUs, RestarInstancia(k)
    PROVE  Saldo(s)' = Saldo(s)
<1>1. /\ valor' = [valor EXCEPT ![semDe[k]] = valor[semDe[k]] - 1] /\ UNCHANGED colaSem
      /\ En(k, "semWait")
    BY DEF RestarInstancia, EnSem
<1>2. /\ valor \in [Semaforos -> Int] /\ semDe \in [CPUs -> Semaforos \cup {Nadie}]
    BY DEF IInvSem, TiposSem, TipoCuentas, TipoCurso
<1>3. EnCola(s)' = EnCola(s) /\ EnCola(s) \in Nat
    BY <1>1, LenProperties DEF EnCola, IInvSem, TiposSem, TipoCuentas
<1>4. CASE valor[semDe[k]] <= 0 /\ Ir(k, "semBloquear") /\ UNCHANGED semDe
    <2>1. CASE semDe[k] = s
        <3>1. Deuda(s)' - Deuda(s) = 1
            BY <1>1, <1>2, <1>4, <2>1 DEF Deuda
        <3>2. Aporte(k, s, "semWait", "semBloquear") = 1
            BY <1>3, <1>4, <2>1 DEF Aporte, Uno
        <3>3. Aporte(k, s, "semWait", "semBloquear") = Deuda(s)' - Deuda(s)
            BY <3>1, <3>2
        <3> QED BY <1>1, <1>4, <3>3, SaldoTras
    <2>2. CASE semDe[k] # s
        <3>1. Deuda(s)' = Deuda(s) /\ Deuda(s) \in Int
            BY <1>1, <1>2, <2>2 DEF Deuda
        <3>2. Aporte(k, s, "semWait", "semBloquear") = Deuda(s)' - Deuda(s)
            BY <1>3, <1>4, <2>2, <3>1 DEF Aporte, Uno
        <3> QED BY <1>1, <1>4, <3>2, SaldoTras
    <2> QED BY <2>1, <2>2
<1>5. CASE valor[semDe[k]] > 0 /\ Ir(k, "semTomada") /\ UNCHANGED semDe
    <2>1. Deuda(s)' = Deuda(s) /\ Deuda(s) \in Int
        BY <1>1, <1>2, <1>5 DEF Deuda
    <2>2. Aporte(k, s, "semWait", "semTomada") = Deuda(s)' - Deuda(s)
        BY <1>3, <1>5, <2>1 DEF Aporte, Uno
    <2> QED BY <1>1, <1>5, <2>2, SaldoTras
<1>6. valor[semDe[k]] \in Int
    <2>1. "semWait" \in EtiquetasSem
        BY DEF EtiquetasSem
    <2> QED BY <1>2, <2>1, DelPedido DEF RestarInstancia
<1> QED BY <1>4, <1>5, <1>6 DEF RestarInstancia, enCurso

\* The PCB that was about to block is in the queue.
LEMMA SaldoBloquear ==
    ASSUME IInvSem, IInvSem', NEW s \in Semaforos, NEW k \in CPUs, BloquearEnSem(k)
    PROVE  Saldo(s)' = Saldo(s)
<1>1. /\ colaSem' = [colaSem EXCEPT ![semDe[k]] = Append(colaSem[semDe[k]], tomado[k])]
      /\ En(k, "semBloquear") /\ Ir(k, "semEncolar") /\ UNCHANGED <<valor, semDe>>
    BY DEF BloquearEnSem, EnSem, enCurso
<1>2. "semBloquear" \in EtiquetasSem
    BY DEF EtiquetasSem
<1>3. tomado[k] \in Carpinchos /\ semDe[k] \in Semaforos
    BY <1>2, DelPedido DEF BloquearEnSem
<1>4. colaSem \in [Semaforos -> Seq(Carpinchos)] /\ valor \in [Semaforos -> Int]
    BY DEF IInvSem, TiposSem, TipoCuentas
<1>5. Deuda(s)' = Deuda(s) /\ Deuda(s) \in Int /\ EnCola(s) \in Nat
    BY <1>1, <1>4, LenProperties DEF Deuda, EnCola
<1>6. EnCola(s)' = EnCola(s) + Uno(semDe[k] = s)
    BY <1>1, <1>3, <1>4, AppendProperties DEF EnCola, Uno
<1>7. Aporte(k, s, "semBloquear", "semEncolar") = Deuda(s)' - Deuda(s)
    BY <1>1, <1>5, <1>6 DEF Aporte, Uno
<1> QED BY <1>1, <1>7, SaldoTras

\* SEM_POST: what it gives back and the PCB it is about to pop disappear together.
LEMMA SaldoSumar ==
    ASSUME IInvSem, IInvSem', NEW s \in Semaforos, NEW k \in CPUs, SumarInstancia(k)
    PROVE  Saldo(s)' = Saldo(s)
<1>1. /\ valor' = [valor EXCEPT ![semDe[k]] = valor[semDe[k]] + 1] /\ UNCHANGED colaSem
      /\ En(k, "semPost")
    BY DEF SumarInstancia, EnSem
<1>2. /\ valor \in [Semaforos -> Int] /\ semDe \in [CPUs -> Semaforos \cup {Nadie}]
    BY DEF IInvSem, TiposSem, TipoCuentas, TipoCurso
<1>3. EnCola(s)' = EnCola(s) /\ EnCola(s) \in Nat
    BY <1>1, LenProperties DEF EnCola, IInvSem, TiposSem, TipoCuentas
<1>4. CASE valor[semDe[k]] < 0 /\ Ir(k, "semPop") /\ UNCHANGED semDe
    <2>1. CASE semDe[k] = s
        <3>1. Deuda(s)' - Deuda(s) = -1
            BY <1>1, <1>2, <1>4, <2>1 DEF Deuda
        <3>2. Aporte(k, s, "semPost", "semPop") = -1
            BY <1>3, <1>4, <2>1 DEF Aporte, Uno
        <3>3. Aporte(k, s, "semPost", "semPop") = Deuda(s)' - Deuda(s)
            BY <3>1, <3>2
        <3> QED BY <1>1, <1>4, <3>3, SaldoTras
    <2>2. CASE semDe[k] # s
        <3>1. Deuda(s)' = Deuda(s) /\ Deuda(s) \in Int
            BY <1>1, <1>2, <2>2 DEF Deuda
        <3>2. Aporte(k, s, "semPost", "semPop") = Deuda(s)' - Deuda(s)
            BY <1>3, <1>4, <2>2, <3>1 DEF Aporte, Uno
        <3> QED BY <1>1, <1>4, <3>2, SaldoTras
    <2> QED BY <2>1, <2>2
<1>5. CASE valor[semDe[k]] >= 0 /\ Ir(k, "semLog") /\ UNCHANGED semDe
    <2>1. Deuda(s)' = Deuda(s) /\ Deuda(s) \in Int
        BY <1>1, <1>2, <1>5 DEF Deuda
    <2>2. Aporte(k, s, "semPost", "semLog") = Deuda(s)' - Deuda(s)
        BY <1>3, <1>5, <2>1 DEF Aporte, Uno
    <2> QED BY <1>1, <1>5, <2>2, SaldoTras
<1> QED BY <1>4, <1>5 DEF SumarInstancia, enCurso

\* The pop: a PCB leaves the queue, or there was none and the post gives up.
LEMMA SaldoSacar ==
    ASSUME IInvSem, IInvSem', NEW s \in Semaforos, NEW k \in CPUs, SacarDeSem(k)
    PROVE  /\ Saldo(s) \in Int
           /\ Saldo(s)' = Saldo(s) + Uno(semDe[k] = s /\ colaSem[s] = <<>>)
<1>1. En(k, "semPop") /\ UNCHANGED valor
    BY DEF SacarDeSem, EnSem
<1>2. "semPop" \in EtiquetasSem
    BY DEF EtiquetasSem
<1>3. semDe[k] \in Semaforos /\ semDe \in [CPUs -> Semaforos \cup {Nadie}]
    BY <1>2, DelPedido DEF SacarDeSem, IInvSem, TiposSem, TipoCurso
<1>4. colaSem \in [Semaforos -> Seq(Carpinchos)] /\ valor \in [Semaforos -> Int]
    BY DEF IInvSem, TiposSem, TipoCuentas
<1>5. Deuda(s)' = Deuda(s) /\ Deuda(s) \in Int /\ EnCola(s) \in Nat
    BY <1>1, <1>4, LenProperties DEF Deuda, EnCola
<1>6. CASE /\ colaSem[semDe[k]] = <<>> /\ Ir(k, "semLog")
           /\ UNCHANGED <<colaSem, semDe>>
    <2>1. EnCola(s)' = EnCola(s)
        BY <1>6 DEF EnCola
    <2>2. /\ Aporte(k, s, "semPop", "semLog") = Uno(semDe[k] = s)
          /\ Uno(semDe[k] = s) = Uno(semDe[k] = s /\ colaSem[s] = <<>>)
        BY <1>5, <1>6, <2>1 DEF Aporte, Uno
    <2> QED BY <1>1, <1>5, <1>6, <2>2, SaldoTras
<1>7. CASE /\ colaSem[semDe[k]] # <<>>
           /\ colaSem' = [colaSem EXCEPT ![semDe[k]] = Tail(colaSem[semDe[k]])]
           /\ Ir(k, "semDespertar") /\ UNCHANGED semDe
    <2>1. EnCola(s)' = EnCola(s) - Uno(semDe[k] = s)
        <3>1. Len(Tail(colaSem[semDe[k]])) = Len(colaSem[semDe[k]]) - 1
            BY <1>3, <1>4, <1>7, HeadTailProperties
        <3>2. colaSem'[s] = IF semDe[k] = s THEN Tail(colaSem[semDe[k]]) ELSE colaSem[s]
            BY <1>4, <1>7
        <3> QED BY <1>5, <3>1, <3>2 DEF EnCola, Uno
    <2>2. Aporte(k, s, "semPop", "semDespertar") = 0
        BY <1>5, <1>7, <2>1 DEF Aporte, Uno
    <2>3. Uno(semDe[k] = s /\ colaSem[s] = <<>>) = 0
        BY <1>7 DEF Uno
    <2> QED BY <1>1, <1>5, <1>7, <2>2, <2>3, SaldoTras
<1> QED BY <1>6, <1>7 DEF SacarDeSem

\* A semaphore that is created has no debt.
LEMMA SaldoCrear ==
    ASSUME Iniciales \subseteq Nat, IInvSem, IInvSem', NEW s \in Semaforos, NEW k \in CPUs,
           AtenderSemInit(k)
    PROVE  \/ Saldo(s)' = Saldo(s)
           \/ /\ nombre[s] = Nadie /\ Deuda(s) \in Nat /\ Saldo(s) \in Int
              /\ Saldo(s)' = Saldo(s) + Deuda(s)
<1>1. CASE ResponderYa(k) /\ UNCHANGED <<nombre, valor>>
    BY <1>1, SaldoQuieto DEF AtenderSemInit, ResponderYa
<1>2. ASSUME NEW i \in Semaforos, NEW v \in Iniciales, Recibir(k, "semCrear"),
             nombre[i] = Nadie, valor' = [valor EXCEPT ![i] = v],
             semDe' = [semDe EXCEPT ![k] = i]
      PROVE  \/ Saldo(s)' = Saldo(s)
             \/ /\ nombre[s] = Nadie /\ Deuda(s) \in Nat /\ Saldo(s) \in Int
                /\ Saldo(s)' = Saldo(s) + Deuda(s)
    <2>1. En(k, "atender") /\ Ir(k, "semCrear") /\ UNCHANGED colaSem
        BY <1>2, AlRecibir DEF AtenderSemInit
    <2>2. /\ valor \in [Semaforos -> Int] /\ semDe \in [CPUs -> Semaforos \cup {Nadie}]
          /\ v \in Nat
        BY <1>2 DEF IInvSem, TiposSem, TipoCuentas, TipoCurso
    <2>3. EnCola(s)' = EnCola(s) /\ EnCola(s) \in Nat
        BY <2>1, LenProperties DEF EnCola, IInvSem, TiposSem, TipoCuentas
    <2>4. /\ Deuda(s) \in Nat
          /\ s = i => Deuda(s)' = 0
          /\ s # i => Deuda(s)' = Deuda(s)
        BY <1>2, <2>2 DEF Deuda
    <2>5. Aporte(k, s, "atender", "semCrear") = 0
        BY <2>3 DEF Aporte, Uno
    <2>6. \A h \in CPUs \ {k} : semDe'[h] = semDe[h]
        BY <1>2, <2>2
    <2>7. Saldo(s) \in Int /\ Saldo(s)' = Saldo(s) + 0 - (Deuda(s)' - Deuda(s))
        BY <2>1, <2>5, <2>6, SaldoTras
    <2> QED BY <1>2, <2>4, <2>7
<1> QED BY <1>1, <1>2 DEF AtenderSemInit

\* A request that names a semaphore of the list.
LEMMA SaldoEncontrar ==
    ASSUME IInvSem, IInvSem', NEW s \in Semaforos, NEW k \in CPUs, NEW n,
           NEW e \in {"semWait", "semPost", "semDestruir"}, Encontrar(k, n, e)
    PROVE  Saldo(s)' = Saldo(s)
<1>1. UNCHANGED <<valor, colaSem>>
    BY DEF Encontrar, objetos, cuentas
<1>2. CASE ResponderYa(k)
    BY <1>1, <1>2, SaldoQuieto DEF ResponderYa
<1>3. CASE Recibir(k, e) /\ semDe' = [semDe EXCEPT ![k] = Buscar(n)]
    <2>1. En(k, "atender") /\ Ir(k, e)
        BY <1>3, AlRecibir
    <2>2. \A h \in CPUs \ {k} : semDe'[h] = semDe[h]
        BY <1>3 DEF IInvSem, TiposSem, TipoCurso
    <2> QED BY <1>1, <2>1, <2>2, SaldoIgual
<1> QED BY <1>2, <1>3 DEF Encontrar

\* The other steps inside a request.
LEMMA SaldoOtros ==
    ASSUME IInvSem, IInvSem', NEW s \in Semaforos, NEW k \in CPUs,
           \/ CrearSem(k) \/ RetenerTomada(k) \/ EncolarEnBlocked(k) \/ TerminarSemWait(k)
           \/ DespertarDeSem(k) \/ DeSemAReady(k) \/ TerminarSemPost(k)
           \/ MirarCola(k) \/ SacarDeLista(k) \/ DestruirSem(k) \/ FinPedido(k)
    PROVE  Saldo(s)' = Saldo(s)
<1> USE DEF EnSem, varsSem, objetos, cuentas, enCurso
<1>1. semDe \in [CPUs -> Semaforos \cup {Nadie}]
    BY DEF IInvSem, TiposSem, TipoCurso
<1>2. ASSUME Responder(k)
      PROVE  Ir(k, "atender") /\ \A h \in CPUs \ {k} : semDe'[h] = semDe[h]
    BY <1>1, <1>2 DEF Responder
<1>3. CASE FinPedido(k) \/ DestruirSem(k)
    <2>1. Responder(k) /\ UNCHANGED <<valor, colaSem>>
        BY <1>3 DEF FinPedido, DestruirSem
    <2>2. En(k, "semLog") \/ En(k, "semLiberar")
        BY <1>3 DEF FinPedido, DestruirSem
    <2> QED BY <1>2, <2>1, <2>2, SaldoIgual
<1>4. CASE EncolarEnBlocked(k) \/ DeSemAReady(k) \/ DespertarDeSem(k)
    <2>1. UNCHANGED <<valor, colaSem, semDe>>
        BY <1>4 DEF EncolarEnBlocked, DeSemAReady, DespertarDeSem
    <2>2. \/ En(k, "semEncolar") /\ Ir(k, "espSem")
          \/ En(k, "semAReady") /\ Ir(k, "semRetener")
          \/ En(k, "semDespertar") /\ (Ir(k, "semRetener") \/ Ir(k, "semAReady"))
        BY <1>4 DEF EncolarEnBlocked, DeSemAReady, DespertarDeSem
    <2> QED BY <2>1, <2>2, SaldoIgual
<1>5. CASE TerminarSemWait(k)
    <2>1. /\ UNCHANGED <<valor, colaSem>> /\ En(k, "espSem") /\ Ir(k, "estimar")
          /\ \A h \in CPUs \ {k} : semDe'[h] = semDe[h]
        BY <1>1, <1>5 DEF TerminarSemWait
    <2> QED BY <2>1, SaldoIgual
<1>6. CASE SacarDeLista(k)
    <2>1. UNCHANGED <<valor, colaSem, semDe>> /\ En(k, "semQuitar")
        BY <1>6 DEF SacarDeLista
    <2>2. CASE Ir(k, "semLiberar")
        BY <2>1, <2>2, SaldoIgual
    <2>3. CASE UNCHANGED pc
        BY <2>1, <2>3, SaldoQuieto
    <2> QED BY <1>6, <2>2, <2>3 DEF SacarDeLista
<1>7. CASE RetenerTomada(k) \/ TerminarSemPost(k) \/ MirarCola(k)
    <2>1. UNCHANGED <<valor, colaSem, semDe>>
        BY <1>7 DEF RetenerTomada, TerminarSemPost, MirarCola
    <2>2. \/ En(k, "semTomada") /\ Ir(k, "semLog")
          \/ En(k, "semRetener") /\ Ir(k, "semLog")
          \/ En(k, "semDestruir") /\ (Ir(k, "semQuitar") \/ Ir(k, "semLog"))
        BY <1>7 DEF RetenerTomada, TerminarSemPost, MirarCola
    <2> QED BY <2>1, <2>2, SaldoIgual
<1>8. CASE CrearSem(k)
    <2>1. /\ UNCHANGED <<valor, colaSem>> /\ En(k, "semCrear") /\ Ir(k, "semLog")
          /\ \A h \in CPUs \ {k} : semDe'[h] = semDe[h]
        BY <1>1, <1>8 DEF CrearSem
    <2> QED BY <2>1, SaldoIgual
<1> QED BY <1>3, <1>4, <1>5, <1>6, <1>7, <1>8

\* What every step does to the balance of a semaphore: it stays as it was, unless
\* the semaphore is created or a post finds its queue empty.
LEMMA SaldoNext ==
    ASSUME Iniciales \subseteq Nat, IInvSem, [NextSem]_varsTodo, NEW s \in Semaforos
    PROVE  \/ Saldo(s)' = Saldo(s)
           \/ /\ nombre[s] = Nadie /\ Deuda(s) \in Nat /\ Saldo(s) \in Int
              /\ Saldo(s)' = Saldo(s) + Deuda(s)
           \/ /\ Saldo(s) \in Int /\ Saldo(s)' = Saldo(s) + 1
              /\ \E k \in CPUs : EnSem(k, "semPop") /\ semDe[k] = s /\ colaSem[s] = <<>>
<1> DEFINE G == \/ Saldo(s)' = Saldo(s)
                \/ /\ nombre[s] = Nadie /\ Deuda(s) \in Nat /\ Saldo(s) \in Int
                   /\ Saldo(s)' = Saldo(s) + Deuda(s)
                \/ /\ Saldo(s) \in Int /\ Saldo(s)' = Saldo(s) + 1
                   /\ \E k \in CPUs : EnSem(k, "semPop") /\ semDe[k] = s /\ colaSem[s] = <<>>
<1> SUFFICES G
    OBVIOUS
<1>0. IInvSem'
    BY IInvSemNext
<1>1. CASE Next /\ UNCHANGED varsSem
    <2>1. ASSUME NEW k \in CPUs
          PROVE  \/ pc'[k] = pc[k]
                 \/ pc[k] \notin EtiquetasSem /\ pc'[k] \notin EtiquetasSem
        BY <1>1, NoEntraEnPedido DEF IInvSem, IInv
    <2>2. {"semBloquear", "semPop"} \subseteq EtiquetasSem
        BY DEF EtiquetasSem
    <2>3. UNCHANGED <<valor, colaSem, semDe>>
        BY <1>1 DEF varsSem, cuentas, enCurso
    <2> QED BY <2>1, <2>2, <2>3, SaldoQuieto
<1>2. ASSUME NEW k \in CPUs, UsarColgado(k) PROVE Saldo(s)' = Saldo(s)
    BY <1>2, SaldoQuieto DEF UsarColgado, Caer, varsSem, cuentas, enCurso
<1>3. ASSUME NEW k \in CPUs, SemWait(k) PROVE Saldo(s)' = Saldo(s)
    BY <1>0, <1>3, SaldoEncontrar, SaldoRestar, SaldoBloquear, SaldoOtros DEF SemWait, AtenderSemWait
<1>4. ASSUME NEW k \in CPUs, SacarDeSem(k) PROVE G
    <2>1. EnSem(k, "semPop")
        BY <1>4 DEF SacarDeSem
    <2>2. CASE semDe[k] = s /\ colaSem[s] = <<>>
        BY <1>0, <1>4, <2>1, <2>2, SaldoSacar DEF Uno
    <2>3. CASE ~(semDe[k] = s /\ colaSem[s] = <<>>)
        BY <1>0, <1>4, <2>3, SaldoSacar DEF Uno
    <2> QED BY <2>2, <2>3
<1>5. ASSUME NEW k \in CPUs, SemPost(k) PROVE G
    <2>1. CASE SacarDeSem(k)
        BY <1>4, <2>1
    <2> QED BY <1>0, <1>5, <2>1, SaldoEncontrar, SaldoSumar, SaldoOtros DEF SemPost, AtenderSemPost
<1>6. ASSUME NEW k \in CPUs, SemDestroy(k) PROVE Saldo(s)' = Saldo(s)
    BY <1>0, <1>6, SaldoEncontrar, SaldoOtros DEF SemDestroy, AtenderSemDestroy
<1>7. ASSUME NEW k \in CPUs, SemInit(k) PROVE G
    BY <1>0, <1>7, SaldoCrear, SaldoOtros DEF SemInit
<1>8. CASE UNCHANGED varsTodo
    BY <1>8, SaldoQuieto DEF varsTodo, vars, varsSem, cuentas, enCurso
<1>9. ASSUME NEW k \in CPUs, FinPedido(k) PROVE Saldo(s)' = Saldo(s)
    BY <1>0, <1>9, SaldoOtros
<1> QED BY <1>1, <1>2, <1>3, <1>5, <1>6, <1>7, <1>8, <1>9 DEF NextSem

\* At the start nobody is blocked and nobody is owed.
LEMMA SaldoInit ==
    ASSUME InitSem, NEW s \in Semaforos
    PROVE  Saldo(s) = 0
<1>1. \A k \in CPUs : pc[k] \notin EtiquetasSem
    BY LosHilos DEF InitSem, Init, EtiquetasSem, Hilos, Planificadores
<1>2. EnEse(s, "semBloquear") = 0 /\ EnEse(s, "semPop") = 0
    <2>1. /\ {k \in CPUs : semDe[k] = s /\ pc[k] = "semBloquear"} = {}
          /\ {k \in CPUs : semDe[k] = s /\ pc[k] = "semPop"} = {}
        BY <1>1 DEF EtiquetasSem
    <2> QED BY <2>1, FS_EmptySet DEF EnEse
<1>3. Len(colaSem[s]) = 0 /\ Deuda(s) = 0
    BY EmptySeq DEF InitSem, Deuda
<1> QED BY <1>2, <1>3 DEF Saldo, Bloqueados
-----------------------------------------------------------------------------
(* NuncaDeMenos, with any number of CPUs.                                  *)

\* NuncaDeMenos, whether or not the kernel has ended.
Promesas == \A s \in Semaforos \ semLibres : Saldo(s) >= 0

\* Balances are integers, and compare as what they balance.
LEMMA SaldoEntero ==
    ASSUME IInvSem, NEW s \in Semaforos
    PROVE  /\ Bloqueados(s) \in Int /\ Deuda(s) \in Nat /\ Saldo(s) \in Int
           /\ Saldo(s) >= 0 <=> Bloqueados(s) >= Deuda(s)
           /\ Saldo(s) = 0 <=> Bloqueados(s) = Deuda(s)
<1>1. EnCola(s) \in Nat
    BY LenProperties DEF EnCola, IInvSem, TiposSem, TipoCuentas
<1>2. EnEse(s, "semBloquear") \in Nat /\ EnEse(s, "semPop") \in Nat
    <2>1. IsFiniteSet(CPUs)
        BY ConstantesOK, LosHilos, FS_Subset DEF ConstantesOK
    <2>2. \A e : IsFiniteSet({k \in CPUs : semDe[k] = s /\ pc[k] = e})
        BY <2>1, FS_Subset
    <2> QED BY <2>2, FS_CardinalityType DEF EnEse
<1>3. valor[s] \in Int
    BY DEF IInvSem, TiposSem, TipoCuentas
<1>4. Deuda(s) \in Nat
    BY <1>3 DEF Deuda
<1>5. Bloqueados(s) \in Int
    BY <1>1, <1>2 DEF Bloqueados, EnCola
<1> QED BY <1>4, <1>5 DEF Saldo

\* No semaphore comes back from being freed.
LEMMA LibresNext == [NextSem]_varsTodo => semLibres \subseteq semLibres'
<1> USE DEF varsSem, objetos
<1> SUFFICES ASSUME [NextSem]_varsTodo PROVE semLibres \subseteq semLibres'
    OBVIOUS
<1>1. ASSUME NEW k \in CPUs, SemInit(k) \/ FinPedido(k) \/ UsarColgado(k)
      PROVE  semLibres \subseteq semLibres'
    BY <1>1 DEF SemInit, AtenderSemInit, CrearSem, FinPedido, UsarColgado
<1>2. ASSUME NEW k \in CPUs, SemWait(k) PROVE semLibres \subseteq semLibres'
    BY <1>2 DEF SemWait, AtenderSemWait, Encontrar, RestarInstancia, RetenerTomada,
       BloquearEnSem, EncolarEnBlocked, TerminarSemWait
<1>3. ASSUME NEW k \in CPUs, SemPost(k) PROVE semLibres \subseteq semLibres'
    BY <1>3 DEF SemPost, AtenderSemPost, Encontrar, SumarInstancia, SacarDeSem,
       DespertarDeSem, DeSemAReady, TerminarSemPost
<1>4. ASSUME NEW k \in CPUs, SemDestroy(k) PROVE semLibres \subseteq semLibres'
    BY <1>4 DEF SemDestroy, AtenderSemDestroy, Encontrar, MirarCola, SacarDeLista, DestruirSem
<1> QED BY <1>1, <1>2, <1>3, <1>4 DEF NextSem, varsTodo

\* When no semaphore is created with a negative value, a post that finds the value
\* negative has a PCB to wake, in the queue or on its way to it: the waits and
\* the posts of different CPUs never promise more wake-ups than there are PCBs.
THEOREM NuncaDeMenosSiempre ==
    ASSUME Iniciales \subseteq Nat
    PROVE  SpecSem => []NuncaDeMenos
<1>1. InitSem => Promesas
    BY SaldoInit DEF Promesas
<1>2. IInvSem /\ Promesas /\ [NextSem]_varsTodo => Promesas'
    <2> SUFFICES ASSUME IInvSem, Promesas, [NextSem]_varsTodo,
                        NEW s \in Semaforos \ semLibres'
                 PROVE  Saldo(s)' >= 0
        BY DEF Promesas
    <2>1. s \in Semaforos \ semLibres /\ Saldo(s) >= 0
        BY LibresNext DEF Promesas
    <2> QED BY <2>1, SaldoNext, SaldoEntero
<1>3. IInvSem /\ Promesas => NuncaDeMenos
    BY SaldoEntero DEF Promesas, NuncaDeMenos
<1> QED BY <1>1, <1>2, <1>3, IInvSemSiempre, PTL DEF SpecSem
-----------------------------------------------------------------------------
(* With one CPU, the bound is an equality.                                 *)

\* A semaphore that is not freed owes as many wake-ups as PCBs are blocked at it,
\* and one that was never created owes none.
Exactas ==
    /\ \A s \in Semaforos \ semLibres : Saldo(s) = 0
    /\ \A s \in Semaforos : nombre[s] = Nadie => valor[s] = 0

\* The only CPU is at the pop: nobody else is about to block.
LEMMA SoloUnPop ==
    ASSUME UnaCPU, IInvSem, NEW k \in CPUs, EnSem(k, "semPop"), NEW s \in Semaforos,
           semDe[k] = s, colaSem[s] = <<>>
    PROVE  Saldo(s) # 0
<1>1. CPUs = {k} /\ pc[k] = "semPop"
    BY DEF UnaCPU, EnSem, En
<1>2. /\ {h \in CPUs : semDe[h] = s /\ pc[h] = "semBloquear"} = {}
      /\ {h \in CPUs : semDe[h] = s /\ pc[h] = "semPop"} = {k}
    BY <1>1
<1>3. EnEse(s, "semBloquear") = 0 /\ EnEse(s, "semPop") = 1
    BY <1>2, FS_EmptySet, FS_Singleton DEF EnEse
<1>4. Bloqueados(s) = -1
    BY <1>3, EmptySeq DEF Bloqueados
<1>5. Deuda(s) \in Nat
    BY SaldoEntero
<1> QED BY <1>4, <1>5 DEF Saldo

\* A semaphore gets its name and its value in one step, and then keeps the name.
LEMMA SinEstrenar ==
    ASSUME IInvSem, [NextSem]_varsTodo, NEW s \in Semaforos, nombre'[s] = Nadie
    PROVE  nombre[s] = Nadie /\ valor'[s] = valor[s]
<1> DEFINE G == nombre[s] = Nadie /\ valor'[s] = valor[s]
<1> SUFFICES G
    OBVIOUS
<1>1. /\ nombre \in [Semaforos -> NombresSem \cup {Nadie}] /\ valor \in [Semaforos -> Int]
      /\ Nadie \notin NombresSem
    BY ConstantesSemOK DEF IInvSem, TiposSem, TipoObjetos, TipoCuentas, ConstantesSemOK
<1>2. ASSUME UNCHANGED <<nombre, valor>> PROVE G
    BY <1>2
<1>3. ASSUME NEW k \in CPUs, NEW v, NEW e \in EtiquetasSem \ {"semLog"}, EnSem(k, e),
             UNCHANGED nombre, valor' = [valor EXCEPT ![semDe[k]] = v]
      PROVE  G
    <2>1. semDe[k] \in Semaforos /\ nombre[semDe[k]] \in NombresSem
        BY <1>3, DelPedido
    <2> QED BY <1>1, <1>3, <2>1
<1>4. ASSUME NEW k \in CPUs, AtenderSemInit(k) PROVE G
    BY <1>1, <1>4 DEF AtenderSemInit
<1> HIDE DEF G
<1>5. ASSUME NEW k \in CPUs, RestarInstancia(k) \/ SumarInstancia(k) PROVE G
    <2>1. {"semWait", "semPost"} \subseteq EtiquetasSem \ {"semLog"}
        BY DEF EtiquetasSem
    <2> QED BY <1>3, <1>5, <2>1 DEF RestarInstancia, SumarInstancia, objetos
<1> USE DEF varsSem, objetos, cuentas
<1>6. ASSUME NEW k \in CPUs, SemInit(k) \/ FinPedido(k) \/ UsarColgado(k) PROVE G
    BY <1>2, <1>4, <1>6 DEF SemInit, CrearSem, FinPedido, UsarColgado
<1>7. ASSUME NEW k \in CPUs, SemWait(k) PROVE G
    BY <1>2, <1>5, <1>7 DEF SemWait, AtenderSemWait, Encontrar, RetenerTomada,
       BloquearEnSem, EncolarEnBlocked, TerminarSemWait
<1>8. ASSUME NEW k \in CPUs, SemPost(k) PROVE G
    BY <1>2, <1>5, <1>8 DEF SemPost, AtenderSemPost, Encontrar, SacarDeSem,
       DespertarDeSem, DeSemAReady, TerminarSemPost
<1>9. ASSUME NEW k \in CPUs, SemDestroy(k) PROVE G
    BY <1>2, <1>9 DEF SemDestroy, AtenderSemDestroy, Encontrar, MirarCola, SacarDeLista,
       DestruirSem
<1> QED BY <1>2, <1>6, <1>7, <1>8, <1>9 DEF NextSem, varsTodo

\* Initially no semaphore owes anything.
LEMMA ExactasInit == InitSem => Exactas
BY SaldoInit DEF Exactas, InitSem

\* With one CPU every step keeps the balances exact.
LEMMA ExactasNext ==
    UnaCPU /\ Iniciales \subseteq Nat /\ IInvSem /\ Exactas /\ [NextSem]_varsTodo => Exactas'
<1> SUFFICES ASSUME UnaCPU, Iniciales \subseteq Nat, IInvSem, Exactas, [NextSem]_varsTodo
             PROVE  Exactas'
    OBVIOUS
<1>1. ASSUME NEW s \in Semaforos \ semLibres' PROVE Saldo(s)' = 0
    <2>1. s \in Semaforos \ semLibres /\ Saldo(s) = 0
        BY <1>1, LibresNext DEF Exactas
    <2>2. nombre[s] = Nadie => Deuda(s) = 0
        BY <2>1 DEF Exactas, Deuda
    <2>3. ~\E k \in CPUs : EnSem(k, "semPop") /\ semDe[k] = s /\ colaSem[s] = <<>>
        BY <2>1, SoloUnPop
    <2> QED BY <2>1, <2>2, <2>3, SaldoNext
<1>2. \A s \in Semaforos : nombre'[s] = Nadie => valor'[s] = 0
    BY SinEstrenar DEF Exactas
<1> QED BY <1>1, <1>2 DEF Exactas

\* With one CPU a negative value is exactly the number of PCBs blocked at the
\* semaphore: no post finds the queue empty, and no wake-up is lost.
THEOREM CuentaSemaforoSiempre ==
    ASSUME UnaCPU, Iniciales \subseteq Nat
    PROVE  SpecSem => []CuentaSemaforo
<1>1. IInvSem /\ Exactas /\ [NextSem]_varsTodo => Exactas'
    BY ExactasNext
<1>2. IInvSem /\ Exactas => CuentaSemaforo
    BY SaldoEntero DEF Exactas, CuentaSemaforo
<1> QED BY ExactasInit, <1>1, <1>2, IInvSemSiempre, PTL DEF SpecSem
=============================================================================
