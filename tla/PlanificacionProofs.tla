------------------------ MODULE PlanificacionProofs ------------------------
(* Theorems about Planificacion, for any number of carpinchos, CPUs and    *)
(* devices and any degree of multiprogramming.                             *)
EXTENDS Planificacion, FiniteSetTheorems, SequenceTheorems,
        WellFoundedInduction, TLAPS

\* GRADO_MULTIPROCESAMIENTO = 1, the hypothesis of some theorems.
UnaCPU == \E k : CPUs = {k}
-----------------------------------------------------------------------------
(* Sequences: what __dequeue_pcb and __pop_ultimo_de_cola leave.           *)

\* A non-empty set of naturals has a least element.
LEMMA Minimo ==
    ASSUME NEW I \in SUBSET Nat, I # {}
    PROVE  Min(I) \in I
<1>1. PICK x \in I : \A y \in I : ~ (<<y, x>> \in OpToRel(<, Nat))
    BY NatLessThanWellFounded, WFMin
<1>2. \A y \in I : x <= y
    <2> SUFFICES ASSUME NEW y \in I PROVE x <= y
        OBVIOUS
    <2>1. ~ (y < x)
        BY <1>1 DEF OpToRel
    <2> QED BY <2>1
<1> QED BY <1>2 DEF Min

\* Removing the first occurrence of an element keeps the type of the sequence
\* and takes at most one element out of it.
LEMMA QuitarPrimero ==
    ASSUME NEW S, NEW s \in Seq(S), NEW e
    PROVE  /\ RemoveFirst(s, e) \in Seq(S)
           /\ Len(RemoveFirst(s, e)) \in {Len(s) - 1, Len(s)}
           /\ Contains(s, e) => Len(RemoveFirst(s, e)) = Len(s) - 1
<1>1. CASE ~ \E i \in 1..Len(s) : s[i] = e
    BY <1>1 DEF RemoveFirst, Contains
<1>2. CASE \E i \in 1..Len(s) : s[i] = e
    <2> DEFINE I == {i \in 1..Len(s) : s[i] = e}
               n == SelectInSeq(s, LAMBDA v : v = e)
    <2>1. I \in SUBSET Nat /\ I # {}
        BY <1>2
    <2>2. n = Min(I)
        BY <2>1 DEF SelectInSeq
    <2>3. n \in 1..Len(s)
        BY <2>1, <2>2, Minimo
    <2> HIDE DEF n, I
    <2>4. RemoveFirst(s, e) = RemoveAt(s, n)
        BY <1>2 DEF RemoveFirst, n
    <2>5. Len(s) \in Nat /\ n \in Int
        BY <2>3, LenProperties
    <2>6. /\ SubSeq(s, 1, n - 1) \in Seq(S)
          /\ Len(SubSeq(s, 1, n - 1)) = n - 1
        BY <2>3, <2>5, ElementOfSeq, SubSeqProperties
    <2>7. /\ SubSeq(s, n + 1, Len(s)) \in Seq(S)
          /\ Len(SubSeq(s, n + 1, Len(s))) = Len(s) - n
        BY <2>3, <2>5, ElementOfSeq, SubSeqProperties
    <2>8. /\ RemoveAt(s, n) \in Seq(S)
          /\ Len(RemoveAt(s, n)) = (n - 1) + (Len(s) - n)
        BY <2>6, <2>7, ConcatProperties DEF RemoveAt
    <2> QED BY <2>4, <2>5, <2>8
<1> QED BY <1>1, <1>2

\* The last element and what is before it.
LEMMA QuitarUltimo ==
    ASSUME NEW S, NEW s \in Seq(S), s # <<>>
    PROVE  /\ Last(s) \in S
           /\ Front(s) \in Seq(S)
           /\ Len(Front(s)) = Len(s) - 1
<1>1. Len(s) \in Nat \ {0}
    BY EmptySeq
<1>2. \A i \in 1..Len(s) : s[i] \in S
    BY ElementOfSeq
<1> DEFINE n == Len(s) - 1
<1>3. n \in Nat
    BY <1>1
<1>4. \A i \in 1..n : i \in 1..Len(s)
    BY <1>1
<1> HIDE DEF n
<1>5. /\ SubSeq(s, 1, n) \in Seq(S)
      /\ Len(SubSeq(s, 1, n)) = n
    BY <1>2, <1>3, <1>4, SubSeqProperties
<1> QED BY <1>1, <1>2, <1>5 DEF Last, Front, n

\* The queues after each of the ways of moving a PCB.
TipoCola == [Colas -> Seq(Carpinchos)]

\* After __enqueue_pcb ...
LEMMA TrasEncolar ==
    ASSUME cola \in TipoCola, NEW q \in Colas, NEW c \in Carpinchos
    PROVE  /\ Encolar(q, c) \in TipoCola
           /\ Len(Encolar(q, c)[q]) = Len(cola[q]) + 1
           /\ \A r \in Colas \ {q} : Encolar(q, c)[r] = cola[r]
<1>1. /\ Append(cola[q], c) \in Seq(Carpinchos)
      /\ Len(Append(cola[q], c)) = Len(cola[q]) + 1
    BY AppendProperties DEF TipoCola
<1> QED BY <1>1 DEF Encolar, TipoCola

\* ... after __dequeue_pcb and __enqueue_pcb, which leaves the first queue as it
\* is when the PCB is not there ...
LEMMA TrasMover ==
    ASSUME cola \in TipoCola, NEW p \in Colas, NEW q \in Colas, p # q,
           NEW c \in Carpinchos
    PROVE  /\ Mover(c, p, q) \in TipoCola
           /\ Len(Mover(c, p, q)[p]) \in {Len(cola[p]) - 1, Len(cola[p])}
           /\ Contains(cola[p], c) => Len(Mover(c, p, q)[p]) = Len(cola[p]) - 1
           /\ Len(Mover(c, p, q)[q]) = Len(cola[q]) + 1
           /\ \A r \in Colas \ {p, q} : Mover(c, p, q)[r] = cola[r]
<1>1. /\ Append(cola[q], c) \in Seq(Carpinchos)
      /\ Len(Append(cola[q], c)) = Len(cola[q]) + 1
    BY AppendProperties DEF TipoCola
<1>2. /\ RemoveFirst(cola[p], c) \in Seq(Carpinchos)
      /\ Len(RemoveFirst(cola[p], c)) \in {Len(cola[p]) - 1, Len(cola[p])}
      /\ Contains(cola[p], c) => Len(RemoveFirst(cola[p], c)) = Len(cola[p]) - 1
    <2>1. cola[p] \in Seq(Carpinchos)
        BY DEF TipoCola
    <2> QED BY <2>1, QuitarPrimero
<1> QED BY <1>1, <1>2 DEF Mover, TipoCola

\* ... and after __get_and_remove_first_pcb_from_queue of a queue that is not empty.
LEMMA TrasSinPrimero ==
    ASSUME cola \in TipoCola, NEW q \in Colas, cola[q] # <<>>
    PROVE  /\ Head(cola[q]) \in Carpinchos
           /\ SinPrimero(q) \in TipoCola
           /\ Len(SinPrimero(q)[q]) = Len(cola[q]) - 1
           /\ \A r \in Colas \ {q} : SinPrimero(q)[r] = cola[r]
<1>1. /\ Head(cola[q]) \in Carpinchos
      /\ Tail(cola[q]) \in Seq(Carpinchos)
      /\ Len(Tail(cola[q])) = Len(cola[q]) - 1
    BY HeadTailProperties DEF TipoCola
<1> QED BY <1>1 DEF SinPrimero, TipoCola
-----------------------------------------------------------------------------
(* Counting threads by their label.                                        *)

\* The number of threads at some labels is a natural number, positive when a
\* thread is at one of them.
LEMMA CuantosNat ==
    ASSUME NEW E
    PROVE  /\ Cuantos(E) \in Nat
           /\ \A t \in Hilos : pc[t] \in E => Cuantos(E) >= 1
<1> DEFINE T == {t \in Hilos : pc[t] \in E}
<1>1. IsFiniteSet(T) /\ Cardinality(T) \in Nat
    BY ConstantesOK, FS_Subset, FS_CardinalityType DEF ConstantesOK
<1>2. ASSUME NEW t \in Hilos, pc[t] \in E
      PROVE  Cardinality(T) >= 1
    <2>1. T # {}
        BY <1>2
    <2> HIDE DEF T
    <2> QED BY <1>1, <2>1, FS_EmptySet
<1> QED BY <1>1, <1>2 DEF Cuantos

\* When one thread changes its label, the count changes by at most that thread.
LEMMA CambioDeEtiqueta ==
    ASSUME NEW E, NEW t \in Hilos, NEW e,
           pc \in [Hilos -> Etiquetas \cup EtiquetasSem], pc' = [pc EXCEPT ![t] = e]
    PROVE  Cuantos(E)' = Cuantos(E) - Uno(pc[t] \in E) + Uno(e \in E)
<1> DEFINE T == {h \in Hilos : pc[h] \in E}
           R == T \ {t}
<1>1. IsFiniteSet(T) /\ Cardinality(T) \in Nat
    BY ConstantesOK, FS_Subset, FS_CardinalityType DEF ConstantesOK
<1>2. /\ IsFiniteSet(R)
      /\ Cardinality(R) = IF t \in T THEN Cardinality(T) - 1 ELSE Cardinality(T)
    BY <1>1, FS_RemoveElement
<1>3. {h \in Hilos : pc'[h] \in E} = IF e \in E THEN R \cup {t} ELSE R
    OBVIOUS
<1>4. Cardinality(R \cup {t}) = Cardinality(R) + 1
    BY <1>2, FS_AddElement
<1>5. t \in T <=> pc[t] \in E
    OBVIOUS
<1>6. Cardinality(R) \in Int
    BY <1>1, <1>2
<1> HIDE DEF R
<1>7. Cuantos(E)' = IF e \in E THEN Cardinality(R) + 1 ELSE Cardinality(R)
    BY <1>3, <1>4 DEF Cuantos
<1> QED BY <1>1, <1>2, <1>5, <1>6, <1>7 DEF Cuantos, Uno
-----------------------------------------------------------------------------
(* Types.                                                                  *)

\* The labels at which a thread has a PCB in hand, and that it has one.
ConPCB == {"aReady", "liberar", "despachar", "espExec", "atender", "encolarIO",
           "espIO", "estimar", "verSusBlocked", "verSiBlocked", "aSusReady",
           "sacarBlocked"}
Manos == \A t \in Hilos : pc[t] \in ConPCB => tomado[t] \in Carpinchos

\* TypeOK in five parts, with Manos in the third.  They also hold of the
\* steps Semaforos adds, whose labels they allow.
TipoSem == sem \in [Contadores -> Nat]
TipoHilos ==
    /\ pc \in [Hilos -> Etiquetas \cup EtiquetasSem]
    /\ tomado \in [Hilos -> Carpinchos \cup {Nadie}]
    /\ Manos
TipoIO ==
    /\ ioInst \in [Dispositivos -> Nat]
    /\ colaIO \in [Dispositivos -> Seq(Carpinchos)]
    /\ recurso \in [CPUs -> Dispositivos \cup {Nadie}]
    /\ mutexDeadlock \in Dispositivos \cup CPUs \cup {Nadie}
TipoPCB ==
    /\ estado \in [Carpinchos -> Estados]
    /\ credito \in [Carpinchos -> Int]
    /\ pedidos \in [Carpinchos -> 0..MaxPedidos]
    /\ cerrados \subseteq Carpinchos
    /\ liberados \subseteq Carpinchos
    /\ fallo \in {"no", "indefinido", "registro", "corto", "io"} \cup Planificadores
Tipos == cola \in TipoCola /\ TipoSem /\ TipoHilos /\ TipoIO /\ TipoPCB

\* Without kernel semaphores no CPU is in one of their requests, and only the
\* devices take mutexDeadlock.
SinSemaforos ==
    /\ pc \in [Hilos -> Etiquetas]
    /\ mutexDeadlock \in Dispositivos \cup {Nadie}

\* They give the type invariant.
LEMMA TiposTypeOK == Tipos /\ SinSemaforos => TypeOK
BY DEF Tipos, TipoCola, TipoSem, TipoHilos, TipoIO, TipoPCB, TypeOK, SinSemaforos

\* The threads, by kind.
LEMMA LosHilos ==
    /\ Carpinchos \subseteq Hilos /\ CPUs \subseteq Hilos
    /\ Dispositivos \subseteq Hilos /\ Planificadores \subseteq Hilos
    /\ \A t \in Carpinchos \cup CPUs \cup Dispositivos : t \notin Planificadores
BY ConstantesOK DEF ConstantesOK, Hilos

\* What a step does to the label and the hand of one thread keeps their types.
LEMMA TrasIr ==
    ASSUME TipoHilos, NEW t \in Hilos, NEW e \in Etiquetas \cup EtiquetasSem, Ir(t, e),
           \/ tomado' = tomado /\ (e \in ConPCB => tomado[t] \in Carpinchos)
           \/ \E c \in Carpinchos : Tomar(t, c)
           \/ Soltar(t) /\ e \notin ConPCB
    PROVE  TipoHilos'
BY DEF TipoHilos, Manos, Ir, Tomar, Soltar

\* The semaphores stay natural numbers: a wait is only made when it can return.
LEMMA TrasSem ==
    ASSUME TipoSem, NEW s \in Contadores, NEW u \in Contadores
    PROVE  /\ Post(s) \in [Contadores -> Nat]
           /\ [Post(s) EXCEPT ![u] = @ + 1] \in [Contadores -> Nat]
           /\ Puede(s) => Wait(s) \in [Contadores -> Nat]
           /\ Puede(s) => [Wait(s) EXCEPT ![u] = @ + 1] \in [Contadores -> Nat]
<1>1. Post(s) \in [Contadores -> Nat]
    BY DEF TipoSem, Post
<1>2. Puede(s) => Wait(s) \in [Contadores -> Nat]
    BY DEF TipoSem, Puede, Wait
<1>3. ASSUME NEW f \in [Contadores -> Nat]
      PROVE  [f EXCEPT ![u] = @ + 1] \in [Contadores -> Nat]
    BY <1>3
<1> QED BY <1>1, <1>2, <1>3

\* The types when the kernel starts.
LEMMA TiposInit == Init => Tipos
<1> SUFFICES ASSUME Init PROVE Tipos
    OBVIOUS
<1>1. pc \in [Hilos -> Etiquetas]
    BY DEF Init, Hilos, Planificadores, Etiquetas
<1>2. \A t \in Hilos : pc[t] \notin ConPCB
    BY DEF Init, Hilos, Planificadores, ConPCB
<1>3. cola \in TipoCola /\ TipoIO
    BY EmptySeq DEF Init, TipoCola, TipoIO
<1>4. TipoSem
    BY ConstantesOK DEF Init, ConstantesOK, TipoSem
<1>5. TipoPCB
    BY ConstantesOK DEF Init, ConstantesOK, TipoPCB, Estados
<1>6. TipoHilos
    BY <1>1, <1>2 DEF Init, TipoHilos, Manos
<1> QED BY <1>3, <1>4, <1>5, <1>6 DEF Tipos

\* The handler of a connection keeps the types.
LEMMA TiposAlta ==
    ASSUME Tipos, NEW c \in Carpinchos, Alta(c)
    PROVE  Tipos'
<1> USE LosHilos DEF Tipos
<1> USE DEF io, clientes, fin
<1>1. CASE AltaEnNew(c)
    <2>1. TipoHilos'
        BY <1>1, TrasIr DEF AltaEnNew, Etiquetas, ConPCB
    <2>2. cola' \in TipoCola
        BY <1>1, TrasEncolar DEF AltaEnNew, Colas
    <2> QED BY <1>1, <2>1, <2>2 DEF AltaEnNew, TipoSem, TipoIO, TipoPCB
<1>2. CASE RegistrarAlta(c)
    <2>1. TipoHilos'
        BY <1>2, TrasIr DEF RegistrarAlta, Etiquetas, ConPCB
    <2>2. TipoSem'
        BY <1>2, TrasSem DEF RegistrarAlta, TipoSem, Contadores
    <2> QED BY <1>2, <2>1, <2>2 DEF RegistrarAlta, TipoIO, TipoPCB
<1>3. CASE ConcluirAlta(c)
    <2>1. TipoHilos'
        BY <1>3, TrasIr DEF ConcluirAlta, Etiquetas, ConPCB
    <2>2. TipoSem'
        BY <1>3, TrasSem DEF ConcluirAlta, TipoSem, Contadores
    <2> QED BY <1>3, <2>1, <2>2 DEF ConcluirAlta, TipoIO, TipoPCB
<1> QED BY <1>1, <1>2, <1>3 DEF Alta

\* A step that only ends the kernel.
LEMMA TiposCaer ==
    ASSUME Tipos, NEW q \in {"no", "indefinido", "registro", "corto", "io"} \cup Planificadores,
           Caer(q)
    PROVE  Tipos'
BY DEF Tipos, Caer, io, clientes, TipoCola, TipoSem, TipoHilos,
       Manos, TipoIO, TipoPCB

\* PasarAReady, for the three threads that make a PCB READY.
LEMMA TiposPasarAReady ==
    ASSUME Tipos, NEW t \in Hilos, NEW v \in Etiquetas \ ConPCB, PasarAReady(t, v),
           TipoSem', mutexDeadlock' \in Dispositivos \cup CPUs \cup {Nadie}
    PROVE  Tipos'
<1> USE DEF Tipos, PasarAReady, io, clientes, fin
<1>1. tomado[t] \in Carpinchos
    BY DEF TipoHilos, Manos, EnCon, En, ConPCB
<1>2. TipoHilos'
    BY TrasIr
<1>3. cola' \in TipoCola
    BY <1>1, TrasEncolar DEF Colas
<1>4. TipoPCB'
    BY <1>1 DEF TipoPCB, Marcar, Estados
<1> QED BY <1>2, <1>3, <1>4 DEF TipoIO

\* The step that counts it there.
LEMMA TiposRegistrarReady ==
    ASSUME Tipos, NEW t \in Hilos, NEW v \in Etiquetas \ ConPCB, RegistrarReady(t, v)
    PROVE  Tipos'
<1> USE DEF Tipos, RegistrarReady, io, clientes, fin
<1>1. TipoHilos'
    BY TrasIr
<1>2. TipoSem'
    BY TrasSem DEF TipoSem, Contadores
<1> QED BY <1>1, <1>2 DEF TipoIO, TipoPCB

\* The long-term scheduler keeps the types.
LEMMA TiposLargo ==
    ASSUME Tipos, Largo
    PROVE  Tipos'
<1> USE LosHilos DEF Tipos, Planificadores
<1> USE DEF io, clientes, fin
<1>1. CASE TomarCandidato
    <2>1. TipoHilos'
        BY <1>1, TrasIr DEF TomarCandidato, Etiquetas, ConPCB
    <2>2. TipoSem'
        BY <1>1, TrasSem DEF TomarCandidato, TipoSem, Contadores
    <2> QED BY <1>1, <2>1, <2>2 DEF TomarCandidato, TipoIO, TipoPCB
<1>2. CASE TomarGrado
    <2>1. TipoHilos'
        BY <1>2, TrasIr DEF TomarGrado, Etiquetas, ConPCB
    <2>2. TipoSem'
        BY <1>2, TrasSem DEF TomarGrado, TipoSem, Contadores
    <2> QED BY <1>2, <2>1, <2>2 DEF TomarGrado, TipoIO, TipoPCB
<1>3. CASE DelegarEnSusReady
    <2>1. TipoHilos'
        BY <1>3, TrasIr DEF DelegarEnSusReady, Etiquetas, ConPCB
    <2>2. TipoSem'
        BY <1>3, TrasSem DEF DelegarEnSusReady, TipoSem, Contadores
    <2> QED BY <1>3, <2>1, <2>2 DEF DelegarEnSusReady, TipoIO, TipoPCB
<1>4. CASE ElegirNew
    <2>1. TipoHilos'
        BY <1>4, TrasIr DEF ElegirNew, Etiquetas, ConPCB
    <2> QED BY <1>4, <2>1 DEF ElegirNew, TipoSem, TipoIO, TipoPCB
<1>5. CASE SacarDeNew
    <2>1. CASE cola["new"] = <<>>
        BY <1>5, <2>1, TiposCaer DEF SacarDeNew
    <2>2. CASE cola["new"] # <<>>
        <3>1. Head(cola["new"]) \in Carpinchos /\ SinPrimero("new") \in TipoCola
            BY <2>2, TrasSinPrimero DEF Colas
        <3>2. TipoHilos'
            BY <1>5, <2>2, <3>1, TrasIr DEF SacarDeNew, Etiquetas
        <3> QED BY <1>5, <2>2, <3>1, <3>2 DEF SacarDeNew, TipoSem, TipoIO, TipoPCB
    <2> QED BY <2>1, <2>2
<1>6. CASE NewAReady
    <2>1. "registrarReady" \in Etiquetas \ ConPCB /\ UNCHANGED <<sem, mutexDeadlock>>
        BY <1>6 DEF NewAReady, Etiquetas, ConPCB
    <2>2. TipoSem' /\ mutexDeadlock' \in Dispositivos \cup CPUs \cup {Nadie}
        BY <2>1 DEF TipoSem, TipoIO
    <2> QED BY <1>6, <2>1, <2>2, TiposPasarAReady DEF NewAReady
<1>7. CASE RegistrarAdmision
    BY <1>7, TiposRegistrarReady DEF RegistrarAdmision, Etiquetas, ConPCB
<1> QED BY <1>1, <1>2, <1>3, <1>4, <1>5, <1>6, <1>7 DEF Largo

\* The thread that frees finished PCBs keeps the types.
LEMMA TiposLiberador ==
    ASSUME Tipos, Liberador
    PROVE  Tipos'
<1> USE LosHilos DEF Tipos, Planificadores
<1> USE DEF io, clientes, fin
<1>1. CASE TomarExit
    <2>1. CASE cola["exit"] = <<>>
        BY <1>1, <2>1, TiposCaer DEF TomarExit
    <2>2. CASE cola["exit"] # <<>>
        <3>1. Head(cola["exit"]) \in Carpinchos /\ SinPrimero("exit") \in TipoCola
            BY <2>2, TrasSinPrimero DEF Colas
        <3>2. TipoHilos'
            BY <1>1, <2>2, <3>1, TrasIr DEF TomarExit, Etiquetas
        <3>3. TipoSem'
            BY <1>1, <2>2, TrasSem DEF TomarExit, TipoSem, Contadores
        <3> QED BY <1>1, <2>2, <3>1, <3>2, <3>3 DEF TomarExit, TipoIO, TipoPCB
    <2> QED BY <2>1, <2>2
<1>2. CASE Liberar
    <2>1. tomado["liberador"] \in Carpinchos
        BY <1>2 DEF Liberar, EnCon, En, TipoHilos, Manos, ConPCB
    <2>2. TipoHilos'
        BY <1>2, TrasIr DEF Liberar, Etiquetas, ConPCB
    <2>3. TipoSem'
        BY <1>2, TrasSem DEF Liberar, TipoSem, Contadores
    <2> QED BY <1>2, <2>1, <2>2, <2>3 DEF Liberar, TipoIO, TipoPCB
<1> QED BY <1>1, <1>2 DEF Liberador

\* The thread that moves SUSP/READY to READY keeps the types.
LEMMA TiposSusReady ==
    ASSUME Tipos, SusReady
    PROVE  Tipos'
<1> USE LosHilos DEF Tipos, Planificadores
<1> USE DEF io, clientes, fin
<1>1. CASE TomarSusReady
    <2>1. CASE cola["susready"] = <<>>
        BY <1>1, <2>1, TiposCaer DEF TomarSusReady
    <2>2. CASE cola["susready"] # <<>>
        <3>1. Head(cola["susready"]) \in Carpinchos /\ SinPrimero("susready") \in TipoCola
            BY <2>2, TrasSinPrimero DEF Colas
        <3>2. TipoHilos'
            BY <1>1, <2>2, <3>1, TrasIr DEF TomarSusReady, Etiquetas
        <3>3. TipoSem'
            BY <1>1, <2>2, TrasSem DEF TomarSusReady, TipoSem, Contadores
        <3> QED BY <1>1, <2>2, <3>1, <3>2, <3>3 DEF TomarSusReady, TipoIO, TipoPCB
    <2> QED BY <2>1, <2>2
<1>2. CASE SusReadyAReady
    <2>1. "registrarReady" \in Etiquetas \ ConPCB /\ UNCHANGED <<sem, mutexDeadlock>>
        BY <1>2 DEF SusReadyAReady, Etiquetas, ConPCB
    <2>2. TipoSem' /\ mutexDeadlock' \in Dispositivos \cup CPUs \cup {Nadie}
        BY <2>1 DEF TipoSem, TipoIO
    <2> QED BY <1>2, <2>1, <2>2, TiposPasarAReady DEF SusReadyAReady
<1>3. CASE RegistrarTransicion
    BY <1>3, TiposRegistrarReady DEF RegistrarTransicion, Etiquetas, ConPCB
<1> QED BY <1>1, <1>2, <1>3 DEF SusReady

\* The medium-term scheduler keeps the types.
LEMMA TiposMediano ==
    ASSUME Tipos, Mediano
    PROVE  Tipos'
<1> USE LosHilos DEF Tipos, Planificadores
<1> USE DEF io, clientes, fin
<1>1. CASE Despertar
    <2>1. TipoHilos'
        <3>1. CASE cola["ready"] = <<>>
            BY <1>1, <3>1, TrasIr DEF Despertar, Etiquetas, ConPCB
        <3>2. CASE cola["ready"] # <<>>
            BY <1>1, <3>2 DEF Despertar, TipoHilos, Manos
        <3> QED BY <3>1, <3>2
    <2>2. TipoSem'
        <3>1. /\ Puede("despertar")
              /\ \/ sem' = Wait("despertar")
                 \/ sem' = [Wait("despertar") EXCEPT !["concluida"] = @ + 1]
            BY <1>1 DEF Despertar
        <3>2. "despertar" \in Contadores /\ "concluida" \in Contadores
            BY DEF Contadores
        <3> QED BY <3>1, <3>2, TrasSem DEF TipoSem
    <2>3. UNCHANGED <<cola, estado, io, mutexDeadlock, tomado, clientes, fin>>
        BY <1>1 DEF Despertar
    <2> QED BY <2>1, <2>2, <2>3 DEF TipoIO, TipoPCB
<1>2. ASSUME NEW e, NEW b, NEW f \in Etiquetas \ ConPCB, Evaluar(e, b, f)
      PROVE  Tipos'
    <2>1. TipoHilos'
        BY <1>2, TrasIr DEF Evaluar, DejarDeEvaluar, Etiquetas, ConPCB
    <2>2. TipoSem'
        BY <1>2, TrasSem DEF Evaluar, DejarDeEvaluar, TipoSem, Contadores
    <2> QED BY <1>2, <2>1, <2>2 DEF Evaluar, TipoIO, TipoPCB
<1>3. CASE VerNew \/ VerBlocked \/ VerGrado
    <2>1. {"verBlocked", "verGrado", "suspender"} \subseteq Etiquetas \ ConPCB
        BY DEF Etiquetas, ConPCB
    <2> QED BY <1>2, <1>3, <2>1 DEF VerNew, VerBlocked, VerGrado
<1>4. CASE Suspender
    <2>1. CASE cola["blocked"] = <<>>
        BY <1>4, <2>1, TiposCaer DEF Suspender
    <2>2. CASE cola["blocked"] # <<>> /\ Last(cola["blocked"]) \in liberados
        BY <1>4, <2>2, TiposCaer DEF Suspender
    <2>3. CASE cola["blocked"] # <<>> /\ Last(cola["blocked"]) \notin liberados
        <3>1. /\ Last(cola["blocked"]) \in Carpinchos
              /\ Front(cola["blocked"]) \in Seq(Carpinchos)
              /\ Append(cola["susblocked"], Last(cola["blocked"])) \in Seq(Carpinchos)
            <4>1. cola["blocked"] \in Seq(Carpinchos) /\ cola["susblocked"] \in Seq(Carpinchos)
                BY DEF TipoCola, Colas
            <4> QED BY <2>3, <4>1, QuitarUltimo, AppendProperties
        <3>2. cola' \in TipoCola
            BY <1>4, <2>3, <3>1 DEF Suspender, TipoCola
        <3>3. TipoHilos'
            BY <1>4, <2>3, <3>1, TrasIr DEF Suspender, Etiquetas, ConPCB
        <3>4. /\ estado' = [estado EXCEPT ![Last(cola["blocked"])] = "SUSBLOCKED"]
              /\ UNCHANGED <<sem, io, mutexDeadlock, clientes, fin>>
            BY <1>4, <2>3 DEF Suspender, Marcar
        <3>5. TipoPCB'
            BY <3>1, <3>4 DEF TipoPCB, Estados
        <3> QED BY <3>2, <3>3, <3>4, <3>5 DEF TipoSem, TipoIO
    <2> QED BY <2>1, <2>2, <2>3
<1>5. CASE RegistrarSuspension
    <2>1. TipoHilos'
        BY <1>5, TrasIr DEF RegistrarSuspension, Etiquetas, ConPCB
    <2>2. TipoSem'
        <3>1. sem' = [Post("grado") EXCEPT !["concluida"] = @ + 1]
            BY <1>5 DEF RegistrarSuspension
        <3>2. "grado" \in Contadores /\ "concluida" \in Contadores
            BY DEF Contadores
        <3> QED BY <3>1, <3>2, TrasSem DEF TipoSem
    <2> QED BY <1>5, <2>1, <2>2 DEF RegistrarSuspension, TipoIO, TipoPCB
<1> QED BY <1>1, <1>3, <1>4, <1>5 DEF Mediano

\* A CPU keeps the types: it has a PCB in hand from its choice to its estimate.
LEMMA TiposCPU ==
    ASSUME Tipos, NEW k \in CPUs, CPU(k)
    PROVE  Tipos'
<1> USE LosHilos DEF Tipos
<1> USE DEF io, clientes, fin
<1>0. pc[k] \in ConPCB => tomado[k] \in Carpinchos
    BY DEF TipoHilos, Manos
<1>1. CASE Elegir(k)
    <2>1. CASE cola["ready"] = <<>> /\ Caer("corto")
        BY <2>1, TiposCaer
    <2>2. ASSUME NEW c \in ToSet(cola["ready"]),
                 sem' = Wait("ready") /\ Tomar(k, c) /\ Ir(k, "despachar"),
                 UNCHANGED <<cola, estado, io, mutexDeadlock, clientes, fin>>
          PROVE  Tipos'
        <3>1. c \in Carpinchos
            BY ElementOfSeq, LenProperties DEF ToSet, TipoCola, Colas
        <3>2. TipoHilos'
            BY <2>2, <3>1, TrasIr DEF Etiquetas
        <3>3. TipoSem'
            BY <1>1, <2>2, TrasSem DEF Elegir, TipoSem, Contadores
        <3> QED BY <2>2, <3>2, <3>3 DEF TipoIO, TipoPCB
    <2> QED BY <1>1, <2>1, <2>2 DEF Elegir
<1>2. CASE Despachar(k)
    <2>1. tomado[k] \in Carpinchos
        BY <1>0, <1>2 DEF Despachar, EnCon, En, ConPCB
    <2>2. cola' \in TipoCola
        BY <1>2, <2>1, TrasMover DEF Despachar, Colas
    <2>3. TipoHilos'
        BY <1>2, <2>1, TrasIr DEF Despachar, Etiquetas
    <2>4. TipoSem'
        BY <1>2, TrasSem DEF Despachar, TipoSem, Contadores
    <2>5. TipoPCB'
        BY <1>2, <2>1 DEF Despachar, TipoPCB, Marcar, Estados
    <2> QED BY <1>2, <2>2, <2>3, <2>4, <2>5 DEF Despachar, TipoIO
<1>3. CASE EmpezarAtencion(k)
    <2>1. tomado[k] \in Carpinchos
        BY <1>0, <1>3 DEF EmpezarAtencion, EnCon, En, ConPCB
    <2>2. TipoHilos'
        BY <1>3, <2>1, TrasIr DEF EmpezarAtencion, Etiquetas
    <2>3. TipoSem'
        BY <1>3, TrasSem DEF EmpezarAtencion, TipoSem, Contadores
    <2>4. TipoPCB'
        BY <1>3, <2>1 DEF EmpezarAtencion, TipoPCB
    <2> QED BY <1>3, <2>2, <2>3, <2>4 DEF EmpezarAtencion, TipoIO
<1>4. CASE AtenderCierre(k)
    <2>1. tomado[k] \in Carpinchos
        BY <1>0, <1>4 DEF AtenderCierre, Recibe, EnCon, En, ConPCB
    <2>2. cola' \in TipoCola
        BY <1>4, <2>1, TrasMover DEF AtenderCierre, Colas
    <2>3. TipoHilos'
        BY <1>4, TrasIr DEF AtenderCierre, Etiquetas, ConPCB
    <2>4. TipoPCB'
        BY <1>4, <2>1 DEF AtenderCierre, TipoPCB, Marcar, Estados
    <2> QED BY <1>4, <2>2, <2>3, <2>4 DEF AtenderCierre, TipoSem, TipoIO
<1>5. ASSUME Pide(k)
      PROVE  /\ tomado[k] \in Carpinchos
             /\ pedidos' \in [Carpinchos -> 0..MaxPedidos]
    <2>1. tomado[k] \in Carpinchos
        BY <1>0, <1>5 DEF Pide, Recibe, EnCon, En, ConPCB
    <2>2. pedidos[tomado[k]] + 1 \in 0..MaxPedidos
        BY <1>5, <2>1, ConstantesOK DEF Pide, TipoPCB, ConstantesOK
    <2> QED BY <1>5, <2>1, <2>2 DEF Pide, TipoPCB
<1>6. ASSUME NEW d \in Dispositivos, AtenderCallIO(k, d)
      PROVE  Tipos'
    <2>1. tomado[k] \in Carpinchos /\ pedidos' \in [Carpinchos -> 0..MaxPedidos]
        BY <1>5, <1>6 DEF AtenderCallIO
    <2>2. cola' \in TipoCola
        BY <1>6, <2>1, TrasMover DEF AtenderCallIO, Colas
    <2>3. TipoHilos'
        BY <1>6, <2>1, TrasIr DEF AtenderCallIO, Etiquetas
    <2>4. TipoPCB'
        <3>1. estado' \in [Carpinchos -> Estados] /\ credito' \in [Carpinchos -> Int]
            BY <1>6, <2>1 DEF AtenderCallIO, TipoPCB, Marcar, Estados
        <3> QED BY <1>6, <2>1, <3>1 DEF AtenderCallIO, TipoPCB
    <2>5. TipoIO'
        BY <1>6 DEF AtenderCallIO, TipoIO
    <2> QED BY <1>6, <2>2, <2>3, <2>4, <2>5 DEF AtenderCallIO, TipoSem
<1>7. CASE EncolarEnDispositivo(k)
    <2>1. tomado[k] \in Carpinchos
        BY <1>0, <1>7 DEF EncolarEnDispositivo, EnCon, En, ConPCB
    <2>2. TipoHilos'
        BY <1>7, <2>1, TrasIr DEF EncolarEnDispositivo, Etiquetas
    <2>3. TipoSem'
        BY <1>7, TrasSem DEF EncolarEnDispositivo, TipoSem, Contadores
    <2>4. TipoIO'
        <3>1. \A d \in Dispositivos : Append(colaIO[d], tomado[k]) \in Seq(Carpinchos)
            BY <2>1, AppendProperties DEF TipoIO
        <3>2. colaIO' \in [Dispositivos -> Seq(Carpinchos)]
            BY <1>7, <3>1 DEF EncolarEnDispositivo, TipoIO
        <3> QED BY <1>7, <3>2 DEF EncolarEnDispositivo, TipoIO
    <2> QED BY <1>7, <2>2, <2>3, <2>4 DEF EncolarEnDispositivo, TipoPCB
<1>8. CASE AvisarDispositivo(k)
    <2>1. tomado[k] \in Carpinchos
        BY <1>0, <1>8 DEF AvisarDispositivo, En, ConPCB
    <2>2. TipoHilos'
        BY <1>8, <2>1, TrasIr DEF AvisarDispositivo, Etiquetas
    <2>3. TipoSem'
        BY <1>8, TrasSem DEF AvisarDispositivo, TipoSem, Contadores
    <2>4. TipoIO'
        <3>1. \A d \in Dispositivos : ioInst[d] + 1 \in Nat
            BY DEF TipoIO
        <3>2. ioInst' = [ioInst EXCEPT ![recurso[k]] = ioInst[recurso[k]] + 1]
            BY <1>8 DEF AvisarDispositivo
        <3>3. ioInst' \in [Dispositivos -> Nat]
            BY <3>1, <3>2 DEF TipoIO
        <3>4. recurso' \in [CPUs -> Dispositivos \cup {Nadie}]
            BY <1>8 DEF AvisarDispositivo, TipoIO
        <3> QED BY <1>8, <3>3, <3>4 DEF AvisarDispositivo, TipoIO
    <2>5. TipoPCB'
        <3>1. credito' = [credito EXCEPT ![tomado[k]] = credito[tomado[k]] + 1]
            BY <1>8 DEF AvisarDispositivo
        <3>2. credito[tomado[k]] + 1 \in Int
            BY <2>1 DEF TipoPCB
        <3>3. credito' \in [Carpinchos -> Int]
            BY <3>1, <3>2 DEF TipoPCB
        <3>4. UNCHANGED <<estado, pedidos, cerrados, liberados, fallo>>
            BY <1>8 DEF AvisarDispositivo
        <3> QED BY <3>3, <3>4 DEF TipoPCB
    <2>6. UNCHANGED <<cola, mutexDeadlock>>
        BY <1>8 DEF AvisarDispositivo
    <2> QED BY <2>2, <2>3, <2>4, <2>5, <2>6
<1>9. CASE AtenderIODesconocida(k)
    <2>1. tomado[k] \in Carpinchos /\ pedidos' \in [Carpinchos -> 0..MaxPedidos]
        BY <1>5, <1>9 DEF AtenderIODesconocida
    <2>2. TipoHilos'
        BY <1>9, <2>1, TrasIr DEF AtenderIODesconocida, Etiquetas
    <2>3. TipoPCB'
        <3>1. credito' = [credito EXCEPT ![tomado[k]] = credito[tomado[k]] - 1]
            BY <1>9 DEF AtenderIODesconocida
        <3>2. credito[tomado[k]] - 1 \in Int
            BY <2>1 DEF TipoPCB
        <3>3. credito' \in [Carpinchos -> Int]
            BY <3>1, <3>2 DEF TipoPCB
        <3>4. UNCHANGED <<estado, cerrados, liberados, fallo>>
            BY <1>9 DEF AtenderIODesconocida
        <3> QED BY <2>1, <3>3, <3>4 DEF TipoPCB
    <2> QED BY <1>9, <2>2, <2>3 DEF AtenderIODesconocida, TipoSem, TipoIO
<1>10. CASE Estimar(k)
    <2>1. TipoHilos'
        BY <1>10, TrasIr DEF Estimar, Etiquetas, ConPCB
    <2> QED BY <1>10, <2>1 DEF Estimar, TipoSem, TipoIO, TipoPCB
<1>12. CASE RegistrarExit(k)
    <2>1. TipoHilos'
        BY <1>12, TrasIr DEF RegistrarExit, Etiquetas, ConPCB
    <2>2. TipoSem'
        BY <1>12, TrasSem DEF RegistrarExit, TipoSem, Contadores
    <2> QED BY <1>12, <2>1, <2>2 DEF RegistrarExit, TipoIO, TipoPCB
<1> QED BY <1>1, <1>2, <1>3, <1>4, <1>6, <1>7, <1>8, <1>9, <1>10, <1>12
        DEF CPU, Configurados

\* The thread of a device keeps the types.
LEMMA TiposDispositivo ==
    ASSUME Tipos, NEW d \in Dispositivos, Dispositivo(d)
    PROVE  Tipos'
<1> USE LosHilos DEF Tipos
<1> USE DEF io, clientes, fin
<1>0. pc[d] \in ConPCB => tomado[d] \in Carpinchos
    BY DEF TipoHilos, Manos
<1>1. CASE TomarIO(d)
    <2>1. CASE colaIO[d] = <<>>
        BY <1>1, <2>1, TiposCaer DEF TomarIO
    <2>2. CASE colaIO[d] # <<>>
        <3>1. Head(colaIO[d]) \in Carpinchos /\ Tail(colaIO[d]) \in Seq(Carpinchos)
            BY <2>2, HeadTailProperties DEF TipoIO
        <3>2. TipoHilos'
            BY <1>1, <2>2, <3>1, TrasIr DEF TomarIO, Etiquetas
        <3>3. ioInst' \in [Dispositivos -> Nat]
            <4>1. ioInst[d] \in Nat /\ ioInst[d] > 0
                BY <1>1 DEF TomarIO, TipoIO
            <4>2. ioInst[d] - 1 \in Nat
                BY <4>1
            <4>3. ioInst' = [ioInst EXCEPT ![d] = ioInst[d] - 1]
                BY <1>1, <2>2 DEF TomarIO
            <4> QED BY <4>2, <4>3 DEF TipoIO
        <3>4. colaIO' \in [Dispositivos -> Seq(Carpinchos)]
            <4>1. colaIO' = [colaIO EXCEPT ![d] = Tail(colaIO[d])]
                BY <1>1, <2>2 DEF TomarIO
            <4> QED BY <3>1, <4>1 DEF TipoIO
        <3>5. UNCHANGED <<cola, estado, sem, recurso, mutexDeadlock, clientes, fin>>
            BY <1>1, <2>2 DEF TomarIO
        <3> QED BY <3>2, <3>3, <3>4, <3>5 DEF TipoSem, TipoIO, TipoPCB
    <2> QED BY <2>1, <2>2
<1>2. CASE VerSusBlocked(d)
    <2>1. tomado[d] \in Carpinchos
        BY <1>0, <1>2 DEF VerSusBlocked, EnCon, En, ConPCB
    <2>2. TipoHilos'
        BY <1>2, <2>1, TrasIr DEF VerSusBlocked, Etiquetas
    <2> QED BY <1>2, <2>2 DEF VerSusBlocked, TipoSem, TipoIO, TipoPCB
<1>3. CASE VerSiBlocked(d)
    <2>1. tomado[d] \in Carpinchos
        BY <1>0, <1>3 DEF VerSiBlocked, EnCon, En, ConPCB
    <2>2. TipoHilos'
        BY <1>3, <2>1, TrasIr DEF VerSiBlocked, Etiquetas, ConPCB
    <2> QED BY <1>3, <2>2 DEF VerSiBlocked, TipoSem, TipoIO, TipoPCB
<1>4. CASE PasarASusReady(d)
    <2>1. tomado[d] \in Carpinchos
        BY <1>0, <1>4 DEF PasarASusReady, EnCon, En, ConPCB
    <2>2. cola' \in TipoCola
        BY <1>4, <2>1, TrasMover DEF PasarASusReady, Colas
    <2>3. TipoHilos'
        BY <1>4, TrasIr DEF PasarASusReady, Etiquetas, ConPCB
    <2>4. TipoSem'
        BY <1>4, TrasSem DEF PasarASusReady, TipoSem, Contadores
    <2>5. TipoPCB'
        BY <1>4, <2>1 DEF PasarASusReady, TipoPCB, Marcar, Estados
    <2> QED BY <1>4, <2>2, <2>3, <2>4, <2>5 DEF PasarASusReady, TipoIO
<1>5. CASE SacarDeBlocked(d)
    <2>1. tomado[d] \in Carpinchos
        BY <1>0, <1>5 DEF SacarDeBlocked, EnCon, En, ConPCB
    <2>2. RemoveFirst(cola["blocked"], tomado[d]) \in Seq(Carpinchos)
        <3>1. cola["blocked"] \in Seq(Carpinchos)
            BY DEF TipoCola, Colas
        <3> QED BY <3>1, QuitarPrimero
    <2>3. cola' \in TipoCola
        BY <1>5, <2>2 DEF SacarDeBlocked, TipoCola
    <2>4. TipoHilos'
        BY <1>5, <2>1, TrasIr DEF SacarDeBlocked, Etiquetas
    <2> QED BY <1>5, <2>3, <2>4 DEF SacarDeBlocked, TipoSem, TipoIO, TipoPCB
<1>6. CASE DesbloquearAReady(d)
    <2>1. "registrarIO" \in Etiquetas \ ConPCB
        BY DEF Etiquetas, ConPCB
    <2>2. TipoSem'
        BY <1>6, TrasSem DEF DesbloquearAReady, TipoSem, Contadores
    <2> QED BY <1>6, <2>1, <2>2, TiposPasarAReady DEF DesbloquearAReady
<1>7. CASE RegistrarIO(d)
    <2>1. TipoHilos'
        BY <1>7, TrasIr DEF RegistrarIO, Etiquetas, ConPCB
    <2> QED BY <1>7, <2>1 DEF RegistrarIO, TipoSem, TipoIO, TipoPCB
<1> QED BY <1>1, <1>2, <1>3, <1>4, <1>5, <1>6, <1>7 DEF Dispositivo

\* Every step keeps the types.
LEMMA TiposNext == Tipos /\ [Next]_vars => Tipos'
<1> SUFFICES ASSUME Tipos, [Next]_vars PROVE Tipos'
    OBVIOUS
<1>1. CASE Next
    <2>1. ASSUME NEW t \in Hilos, UsarLiberado(t) PROVE Tipos'
        BY <2>1, TiposCaer DEF UsarLiberado
    <2> QED BY <1>1, <2>1, TiposAlta, TiposLargo, TiposLiberador, TiposMediano,
               TiposSusReady, TiposCPU, TiposDispositivo DEF Next
<1>2. CASE UNCHANGED vars
    BY <1>2 DEF vars, io, clientes, fin, Tipos, TipoCola, TipoSem,
                TipoHilos, Manos, TipoIO, TipoPCB
<1> QED BY <1>1, <1>2

\* Next takes no thread to a label of Semaforos, and gives mutexDeadlock to
\* nobody but a device.
LEMMA SinSemaforosNext == SinSemaforos /\ [Next]_vars => SinSemaforos'
<1> SUFFICES ASSUME SinSemaforos, [Next]_vars PROVE SinSemaforos'
    OBVIOUS
<1>1. ASSUME \/ UNCHANGED pc
             \/ \E t \in Hilos, e \in Etiquetas : Ir(t, e),
             mutexDeadlock' \in Dispositivos \cup {Nadie}
      PROVE  SinSemaforos'
    BY <1>1 DEF SinSemaforos, Ir
<1>2. ASSUME NEW q, Caer(q)
      PROVE  SinSemaforos'
    BY <1>2 DEF Caer, SinSemaforos
<1> USE LosHilos
<1>3. ASSUME NEW c \in Carpinchos, Alta(c)
      PROVE  SinSemaforos'
    BY <1>1, <1>3 DEF Alta, AltaEnNew, RegistrarAlta, ConcluirAlta, Etiquetas,
       SinSemaforos
<1>4. CASE Largo
    BY <1>1, <1>2, <1>4 DEF Largo, TomarCandidato, TomarGrado, DelegarEnSusReady,
       ElegirNew, SacarDeNew, NewAReady, PasarAReady, RegistrarAdmision, RegistrarReady,
       Planificadores, Etiquetas, SinSemaforos
<1>5. CASE Liberador \/ SusReady
    BY <1>1, <1>2, <1>5 DEF Liberador, TomarExit, Liberar, SusReady, TomarSusReady,
       SusReadyAReady, PasarAReady, RegistrarTransicion, RegistrarReady, Planificadores,
       Etiquetas, SinSemaforos
<1>6. CASE Mediano
    BY <1>1, <1>2, <1>6 DEF Mediano, Despertar, VerNew, VerBlocked, VerGrado, Evaluar,
       DejarDeEvaluar, Suspender, RegistrarSuspension, Planificadores, Etiquetas, SinSemaforos
<1>7. ASSUME NEW k \in CPUs, CPU(k)
      PROVE  SinSemaforos'
    BY <1>1, <1>2, <1>7 DEF CPU, Elegir, Despachar, EmpezarAtencion, AtenderCierre,
       RegistrarExit, AtenderCallIO, EncolarEnDispositivo, AvisarDispositivo,
       AtenderIODesconocida, Estimar, Etiquetas, SinSemaforos
<1>8. ASSUME NEW d \in Dispositivos, Dispositivo(d)
      PROVE  SinSemaforos'
    BY <1>1, <1>2, <1>8 DEF Dispositivo, TomarIO, VerSusBlocked, VerSiBlocked,
       PasarASusReady, SacarDeBlocked, DesbloquearAReady, PasarAReady, RegistrarIO, Etiquetas,
       SinSemaforos
<1>9. CASE UNCHANGED vars
    BY <1>9 DEF vars, SinSemaforos
<1> QED BY <1>2, <1>3, <1>4, <1>5, <1>6, <1>7, <1>8, <1>9
        DEF Next, UsarLiberado

\* Every queue holds PCBs, no POSIX semaphore goes below zero and no thread
\* works on a PCB it does not have, whatever the threads interleave.
THEOREM TiposSiempre == Spec => []Tipos
<1>1. Init => Tipos
    BY TiposInit
<1>2. Tipos /\ [Next]_vars => Tipos'
    BY TiposNext
<1> QED BY <1>1, <1>2, PTL DEF Spec

\* The type invariant the runs check.
THEOREM TypeOKSiempre == Spec => []TypeOK
<1>1. Init => SinSemaforos
    BY DEF Init, Hilos, Planificadores, Etiquetas, SinSemaforos
<1>2. SinSemaforos /\ [Next]_vars => SinSemaforos'
    BY SinSemaforosNext
<1> QED BY <1>1, <1>2, TiposSiempre, TiposTypeOK, PTL DEF Spec
-----------------------------------------------------------------------------
(* What the POSIX semaphores count.  Each of them is posted after the      *)
(* state it stands for has changed and waited for before that state is     *)
(* used, so the sums below never lose a unit; the invariant that a step    *)
(* keeps is the conjunction of all of them with the types.                 *)

\* When the long-term scheduler has seen SUSP/READY empty, what has arrived
\* there since was announced: its unit of hay is not the one it took.
LargoEnNew ==
    fallo = "no" /\ pc["largo"] = "sacar" =>
        Len(cola["susready"]) <= sem["hay"] + sem["transicionar"]

Conteos ==
    /\ Apreton
    /\ CuentaAdmision
    /\ CuentaReady
    /\ CuentaExit
    /\ LargoEnNew
    /\ FallaSoloSuspension

\* The CPUs between the queue of a device and its semaphore.
EnAviso(d) == {k \in CPUs : pc[k] = "espIO" /\ recurso[k] = d}

IInv == Tipos /\ CuentaIO /\ Conteos
-----------------------------------------------------------------------------
\* The terms of the sums: what a queue holds and what two semaphores hold
\* together.
Tam(q) == Len(cola[q])
Respuestas == sem["despertar"] + sem["concluida"]
Avisos == sem["hay"] + sem["transicionar"]
Admitiendo == {"registrarAlta", "espAlta", "grado", "mirar", "sacar"}
Despachando == {"despachar", "registrarReady"}
Cerrando == {"registrarExit"}

\* The four counts of the invariant after a thread goes from label a to label e.
Recuento(a, e) ==
    /\ Cuantos(Esperas)' + Uno(a \in Esperas) = Cuantos(Esperas) + Uno(e \in Esperas)
    /\ Cuantos(Admitiendo)' + Uno(a \in Admitiendo)
         = Cuantos(Admitiendo) + Uno(e \in Admitiendo)
    /\ Cuantos(Despachando)' + Uno(a \in Despachando)
         = Cuantos(Despachando) + Uno(e \in Despachando)
    /\ Cuantos(Cerrando)' + Uno(a \in Cerrando) = Cuantos(Cerrando) + Uno(e \in Cerrando)

\* A thread that changes its label changes the counts, and no other label.
LEMMA CambioDeCuentas ==
    ASSUME TipoHilos, NEW t \in Hilos, NEW a, NEW e, En(t, a), Ir(t, e)
    PROVE  /\ Recuento(a, e)
           /\ \A h \in Hilos \ {t} : pc'[h] = pc[h]
           /\ pc[t] = a /\ pc'[t] = e
<1>1. ASSUME NEW E
      PROVE  Cuantos(E)' + Uno(a \in E) = Cuantos(E) + Uno(e \in E)
    <2>1. Cuantos(E)' = Cuantos(E) - Uno(a \in E) + Uno(e \in E)
        BY CambioDeEtiqueta DEF TipoHilos, Ir, En
    <2>2. Cuantos(E) \in Nat
        BY CuantosNat
    <2> QED BY <2>1, <2>2 DEF Uno
<1>2. pc[t] = a
    BY DEF En
<1>3. /\ \A h \in Hilos \ {t} : pc'[h] = pc[h]
      /\ pc'[t] = e
    BY DEF TipoHilos, Ir
<1> QED BY <1>1, <1>2, <1>3 DEF Recuento

\* Every term is a natural number, before and after a step.
LEMMA Naturales ==
    ASSUME cola \in TipoCola, TipoSem
    PROVE  /\ Cuantos(Esperas) \in Nat /\ Cuantos(Admitiendo) \in Nat
           /\ Cuantos(Despachando) \in Nat /\ Cuantos(Cerrando) \in Nat
           /\ Tam("new") \in Nat /\ Tam("susready") \in Nat
           /\ Tam("ready") \in Nat /\ Tam("exit") \in Nat
           /\ Respuestas \in Nat /\ Avisos \in Nat
           /\ sem["ready"] \in Nat /\ sem["exit"] \in Nat
<1>1. \A q \in Colas : Len(cola[q]) \in Nat
    BY LenProperties DEF TipoCola
<1>2. \A s \in Contadores : sem[s] \in Nat
    BY DEF TipoSem
<1>3. /\ Cuantos(Esperas) \in Nat /\ Cuantos(Admitiendo) \in Nat
      /\ Cuantos(Despachando) \in Nat /\ Cuantos(Cerrando) \in Nat
    BY CuantosNat
<1>4. /\ Tam("new") \in Nat /\ Tam("susready") \in Nat
      /\ Tam("ready") \in Nat /\ Tam("exit") \in Nat
    BY <1>1 DEF Tam, Colas
<1>5. Respuestas \in Nat /\ Avisos \in Nat
    BY <1>2 DEF Respuestas, Avisos, Contadores
<1>6. sem["ready"] \in Nat /\ sem["exit"] \in Nat
    BY <1>2 DEF Contadores
<1> QED BY <1>3, <1>4, <1>5, <1>6

\* The same, of the state a step leads to.
LEMMA NaturalesDespues ==
    ASSUME (cola \in TipoCola)', TipoSem'
    PROVE  /\ Cuantos(Esperas)' \in Nat /\ Cuantos(Admitiendo)' \in Nat
           /\ Cuantos(Despachando)' \in Nat /\ Cuantos(Cerrando)' \in Nat
           /\ Tam("new")' \in Nat /\ Tam("susready")' \in Nat
           /\ Tam("ready")' \in Nat /\ Tam("exit")' \in Nat
           /\ Respuestas' \in Nat /\ Avisos' \in Nat
           /\ sem'["ready"] \in Nat /\ sem'["exit"] \in Nat
<1>1. \A q \in Colas : Len(cola'[q]) \in Nat
    BY LenProperties DEF TipoCola
<1>2. \A s \in Contadores : sem'[s] \in Nat
    BY DEF TipoSem
<1>3. ASSUME NEW E PROVE Cuantos(E)' \in Nat
    <2>1. IsFiniteSet({t \in Hilos : pc'[t] \in E})
        BY ConstantesOK, FS_Subset DEF ConstantesOK
    <2> QED BY <2>1, FS_CardinalityType DEF Cuantos
<1>4. /\ Tam("new")' \in Nat /\ Tam("susready")' \in Nat
      /\ Tam("ready")' \in Nat /\ Tam("exit")' \in Nat
    BY <1>1 DEF Tam, Colas
<1>5. Respuestas' \in Nat /\ Avisos' \in Nat
    BY <1>2 DEF Respuestas, Avisos, Contadores
<1>6. sem'["ready"] \in Nat /\ sem'["exit"] \in Nat
    BY <1>2 DEF Contadores
<1> QED BY <1>3, <1>4, <1>5, <1>6

\* The CPUs about to tell a device are finitely many.
LEMMA AvisoFinito ==
    ASSUME NEW d
    PROVE  IsFiniteSet(EnAviso(d)) /\ Cardinality(EnAviso(d)) \in Nat
<1>1. EnAviso(d) \subseteq Hilos
    BY LosHilos DEF EnAviso
<1> QED BY <1>1, ConstantesOK, FS_Subset, FS_CardinalityType DEF ConstantesOK

\* A step that ends the kernel.
LEMMA ConteosCaer ==
    ASSUME Conteos, NEW q \in {"mediano", "susready", "indefinido", "registro"}, Caer(q)
    PROVE  Conteos'
BY DEF Conteos, Caer, Apreton, CuentaAdmision, CuentaReady, CuentaExit, LargoEnNew,
       FallaSoloSuspension, Cuantos
-----------------------------------------------------------------------------
\* What a step must do for the sums to be kept: thread t goes from label a
\* to label e.
SaldaApreton(t, a, e) ==
    Respuestas' + Uno(a \in Esperas) + Uno(t = "mediano" /\ e \in Evaluando)
    = Respuestas + Uno(e \in Esperas) + Uno(t = "mediano" /\ a \in Evaluando)
SaldaAdmision(a, e) ==
    Tam("new")' + Tam("susready")' + Avisos + Uno(a \in Admitiendo)
    = Tam("new") + Tam("susready") + Avisos' + Uno(e \in Admitiendo)
SaldaReady(a, e) ==
    sem'["ready"] + Uno(e \in Despachando) + Tam("ready")
    <= sem["ready"] + Uno(a \in Despachando) + Tam("ready")'
SaldaExit(a, e) ==
    sem'["exit"] + Uno(e \in Cerrando) + Tam("exit")
    = sem["exit"] + Uno(a \in Cerrando) + Tam("exit")'
SaldaLargo(t, e) ==
    IF t = "largo" THEN e = "sacar" => Tam("susready")' = 0
                   ELSE Tam("susready")' + Avisos <= Tam("susready") + Avisos'
Salda(t, a, e) ==
    /\ SaldaApreton(t, a, e) /\ SaldaAdmision(a, e) /\ SaldaReady(a, e)
    /\ SaldaExit(a, e) /\ SaldaLargo(t, e)

\* Such a step keeps the invariant.
LEMMA ConteosTras ==
    ASSUME IInv, NEW t \in Hilos, NEW a, NEW e, En(t, a), Ir(t, e),
           TipoSem', (cola \in TipoCola)', fallo' = "no", Salda(t, a, e)
    PROVE  Conteos'
<1>1. "largo" \in Hilos /\ "mediano" \in Hilos /\ fallo = "no"
    BY LosHilos DEF Planificadores, En
<1>2. /\ Cuantos(Esperas) \in Nat /\ Cuantos(Admitiendo) \in Nat
      /\ Cuantos(Despachando) \in Nat /\ Cuantos(Cerrando) \in Nat
      /\ Tam("new") \in Nat /\ Tam("susready") \in Nat
      /\ Tam("ready") \in Nat /\ Tam("exit") \in Nat
      /\ Respuestas \in Nat /\ Avisos \in Nat
      /\ sem["ready"] \in Nat /\ sem["exit"] \in Nat
    BY Naturales DEF IInv, Tipos
<1>3. /\ Cuantos(Esperas)' \in Nat /\ Cuantos(Admitiendo)' \in Nat
      /\ Cuantos(Despachando)' \in Nat /\ Cuantos(Cerrando)' \in Nat
      /\ Tam("new")' \in Nat /\ Tam("susready")' \in Nat
      /\ Tam("ready")' \in Nat /\ Tam("exit")' \in Nat
      /\ Respuestas' \in Nat /\ Avisos' \in Nat
      /\ sem'["ready"] \in Nat /\ sem'["exit"] \in Nat
    BY NaturalesDespues
<1>4. /\ Recuento(a, e)
      /\ \A h \in Hilos \ {t} : pc'[h] = pc[h]
      /\ pc[t] = a /\ pc'[t] = e
    BY CambioDeCuentas DEF IInv, Tipos
<1>5. Apreton'
    <2>1. Uno(pc'["mediano"] \in Evaluando) + Uno(t = "mediano" /\ a \in Evaluando)
            = Uno(pc["mediano"] \in Evaluando) + Uno(t = "mediano" /\ e \in Evaluando)
        BY <1>1, <1>4 DEF Uno
    <2>2. /\ Uno(pc'["mediano"] \in Evaluando) \in Nat
          /\ Uno(pc["mediano"] \in Evaluando) \in Nat
          /\ Uno(t = "mediano" /\ e \in Evaluando) \in Nat
          /\ Uno(t = "mediano" /\ a \in Evaluando) \in Nat
          /\ Uno(e \in Esperas) \in Nat /\ Uno(a \in Esperas) \in Nat
        BY DEF Uno
    <2>3. Cuantos(Esperas) = Respuestas + Uno(pc["mediano"] \in Evaluando)
        BY DEF IInv, Conteos, Apreton, Respuestas
    <2>4. Respuestas' + Uno(a \in Esperas) + Uno(t = "mediano" /\ e \in Evaluando)
          = Respuestas + Uno(e \in Esperas) + Uno(t = "mediano" /\ a \in Evaluando)
        BY DEF Salda, SaldaApreton
    <2>5. Cuantos(Esperas)' + Uno(a \in Esperas) = Cuantos(Esperas) + Uno(e \in Esperas)
        BY <1>4 DEF Recuento
    <2>6. Cuantos(Esperas)' = Respuestas' + Uno(pc'["mediano"] \in Evaluando)
        BY <1>2, <1>3, <2>1, <2>2, <2>3, <2>4, <2>5
    <2> QED BY <2>6 DEF Apreton, Respuestas
<1>6. CuentaAdmision'
    <2>1. Tam("new") + Tam("susready") = Cuantos(Admitiendo) + Avisos
        <3>1. Tam("new") + Tam("susready") =
                Cuantos(Admitiendo) + sem["hay"] + sem["transicionar"]
            BY <1>1 DEF IInv, Conteos, CuentaAdmision, Tam, Admitiendo
        <3>2. sem["hay"] \in Nat /\ sem["transicionar"] \in Nat
            BY DEF IInv, Tipos, TipoSem, Contadores
        <3> QED BY <1>2, <3>1, <3>2 DEF Avisos
    <2>2. Uno(a \in Admitiendo) \in Nat /\ Uno(e \in Admitiendo) \in Nat
        BY DEF Uno
    <2>3. Tam("new")' + Tam("susready")' + Avisos + Uno(a \in Admitiendo)
            = Tam("new") + Tam("susready") + Avisos' + Uno(e \in Admitiendo)
        BY DEF Salda, SaldaAdmision
    <2>4. Cuantos(Admitiendo)' + Uno(a \in Admitiendo)
            = Cuantos(Admitiendo) + Uno(e \in Admitiendo)
        BY <1>4 DEF Recuento
    <2>5. Tam("new")' + Tam("susready")' = Cuantos(Admitiendo)' + Avisos'
        BY <1>2, <1>3, <2>1, <2>2, <2>3, <2>4
    <2>6. sem'["hay"] \in Nat /\ sem'["transicionar"] \in Nat
        BY DEF TipoSem, Contadores
    <2>7. Tam("new")' + Tam("susready")' =
            Cuantos(Admitiendo)' + sem'["hay"] + sem'["transicionar"]
        BY <1>3, <2>5, <2>6 DEF Avisos
    <2> QED BY <2>7 DEF CuentaAdmision, Tam, Admitiendo
<1>7. CuentaReady'
    <2>1. sem["ready"] + Cuantos(Despachando) <= Tam("ready")
        BY <1>1 DEF IInv, Conteos, CuentaReady, Tam, Despachando
    <2>2. Uno(a \in Despachando) \in Nat /\ Uno(e \in Despachando) \in Nat
        BY DEF Uno
    <2>3. sem'["ready"] + Uno(e \in Despachando) + Tam("ready")
            <= sem["ready"] + Uno(a \in Despachando) + Tam("ready")'
        BY DEF Salda, SaldaReady
    <2>4. Cuantos(Despachando)' + Uno(a \in Despachando)
            = Cuantos(Despachando) + Uno(e \in Despachando)
        BY <1>4 DEF Recuento
    <2>5. sem'["ready"] + Cuantos(Despachando)' <= Tam("ready")'
        BY <1>2, <1>3, <2>1, <2>2, <2>3, <2>4
    <2> QED BY <2>5 DEF CuentaReady, Tam, Despachando
<1>8. CuentaExit'
    <2>1. sem["exit"] + Cuantos(Cerrando) = Tam("exit")
        BY <1>1 DEF IInv, Conteos, CuentaExit, Tam, Cerrando
    <2>2. Uno(a \in Cerrando) \in Nat /\ Uno(e \in Cerrando) \in Nat
        BY DEF Uno
    <2>3. sem'["exit"] + Uno(e \in Cerrando) + Tam("exit")
            = sem["exit"] + Uno(a \in Cerrando) + Tam("exit")'
        BY DEF Salda, SaldaExit
    <2>4. Cuantos(Cerrando)' + Uno(a \in Cerrando) = Cuantos(Cerrando) + Uno(e \in Cerrando)
        BY <1>4 DEF Recuento
    <2>5. sem'["exit"] + Cuantos(Cerrando)' = Tam("exit")'
        BY <1>2, <1>3, <2>1, <2>2, <2>3, <2>4
    <2> QED BY <2>5 DEF CuentaExit, Tam, Cerrando
<1>9. LargoEnNew'
    <2>1. CASE t = "largo"
        <3>1. e = "sacar" => Tam("susready")' = 0
            BY <2>1 DEF Salda, SaldaLargo
        <3> QED BY <1>3, <1>4, <2>1, <3>1 DEF LargoEnNew, Tam, Avisos
    <2>2. CASE t # "largo"
        <3>1. pc'["largo"] = pc["largo"]
            BY <1>1, <1>4, <2>2
        <3>2. pc["largo"] = "sacar" => Tam("susready") <= Avisos
            BY <1>1 DEF IInv, Conteos, LargoEnNew, Tam, Avisos
        <3>3. pc["largo"] = "sacar" => Tam("susready")' <= Avisos'
            BY <1>2, <1>3, <2>2, <3>2 DEF Salda, SaldaLargo
        <3> QED BY <3>1, <3>3 DEF LargoEnNew, Tam, Avisos
    <2> QED BY <2>1, <2>2
<1>10. FallaSoloSuspension'
    BY DEF FallaSoloSuspension
<1> QED BY <1>5, <1>6, <1>7, <1>8, <1>9, <1>10 DEF Conteos

\* The values of the semaphores after the ways in which a step changes them.
LEMMA TrasPost ==
    ASSUME TipoSem, NEW s \in Contadores, sem' = Post(s)
    PROVE  /\ TipoSem'
           /\ sem'[s] = sem[s] + 1
           /\ \A u \in Contadores \ {s} : sem'[u] = sem[u]
BY DEF TipoSem, Post

\* The same after a sem_wait ...
LEMMA TrasWait ==
    ASSUME TipoSem, NEW s \in Contadores, Puede(s), sem' = Wait(s)
    PROVE  /\ TipoSem'
           /\ sem'[s] + 1 = sem[s]
           /\ \A u \in Contadores \ {s} : sem'[u] = sem[u]
BY DEF TipoSem, Wait, Puede

\* ... after a sem_wait and a sem_post ...
LEMMA TrasWaitPost ==
    ASSUME TipoSem, NEW s \in Contadores, NEW r \in Contadores \ {s}, Puede(s),
           sem' = [Wait(s) EXCEPT ![r] = @ + 1]
    PROVE  /\ TipoSem'
           /\ sem'[s] + 1 = sem[s] /\ sem'[r] = sem[r] + 1
           /\ \A u \in Contadores \ {s, r} : sem'[u] = sem[u]
BY DEF TipoSem, Wait, Puede

\* ... and after two sem_post.
LEMMA TrasPostPost ==
    ASSUME TipoSem, NEW s \in Contadores, NEW r \in Contadores \ {s},
           sem' = [Post(s) EXCEPT ![r] = @ + 1]
    PROVE  /\ TipoSem'
           /\ sem'[s] = sem[s] + 1 /\ sem'[r] = sem[r] + 1
           /\ \A u \in Contadores \ {s, r} : sem'[u] = sem[u]
BY DEF TipoSem, Post

\* A step that moves nothing: labels that appear in no sum, or in the same ones.
LEMMA ConteosIr ==
    ASSUME IInv, NEW t \in Hilos, NEW a, NEW e, En(t, a), Ir(t, e),
           UNCHANGED <<cola, sem, fallo>>,
           a \notin Esperas \cup Despachando \cup Cerrando,
           e \notin Esperas \cup Despachando \cup Cerrando,
           a \in Admitiendo <=> e \in Admitiendo,
           t = "mediano" => (a \in Evaluando <=> e \in Evaluando),
           t = "largo" /\ e = "sacar" => cola["susready"] = <<>>
    PROVE  Conteos'
<1>1. /\ Uno(a \in Esperas) = Uno(e \in Esperas)
      /\ Uno(a \in Admitiendo) = Uno(e \in Admitiendo)
      /\ Uno(a \in Despachando) = Uno(e \in Despachando)
      /\ Uno(a \in Cerrando) = Uno(e \in Cerrando)
      /\ Uno(t = "mediano" /\ a \in Evaluando) = Uno(t = "mediano" /\ e \in Evaluando)
      /\ Uno(a \in Despachando) \in Nat
    BY DEF Uno
<1>2. /\ Tam("new")' = Tam("new") /\ Tam("susready")' = Tam("susready")
      /\ Tam("ready")' = Tam("ready") /\ Tam("exit")' = Tam("exit")
      /\ Respuestas' = Respuestas /\ Avisos' = Avisos
    BY DEF Tam, Respuestas, Avisos
<1>3. /\ Tam("susready") \in Nat /\ Tam("ready") \in Nat
      /\ Avisos \in Nat /\ sem["ready"] \in Nat
    BY Naturales DEF IInv, Tipos
<1>4. cola["susready"] = <<>> => Tam("susready") = 0
    BY EmptySeq DEF Tam
<1>5. SaldaApreton(t, a, e)
    BY <1>1, <1>2 DEF SaldaApreton
<1>6. SaldaAdmision(a, e) /\ SaldaExit(a, e)
    BY <1>1, <1>2 DEF SaldaAdmision, SaldaExit
<1>7. SaldaReady(a, e) /\ SaldaLargo(t, e)
    BY <1>1, <1>2, <1>3, <1>4 DEF SaldaReady, SaldaLargo
<1>8. fallo' = "no" /\ TipoSem' /\ (cola \in TipoCola)'
    BY DEF IInv, Tipos, TipoSem, En
<1> QED BY <1>5, <1>6, <1>7, <1>8, ConteosTras DEF Salda

\* The handler of a connection keeps the sums: the PCB is in NEW before its
\* handler leaves espAlta, and is announced as it leaves.
LEMMA ConteosAlta ==
    ASSUME IInv, NEW c \in Carpinchos, Alta(c)
    PROVE  Conteos'
<1> USE DEF io, clientes, fin
<1>0. /\ cola \in TipoCola /\ TipoSem
      /\ Tam("new") \in Nat /\ Tam("susready") \in Nat
      /\ Tam("ready") \in Nat /\ Tam("exit") \in Nat
      /\ Respuestas \in Nat /\ Avisos \in Nat
      /\ \A s \in Contadores : sem[s] \in Nat
      /\ sem["ready"] \in Nat /\ sem["exit"] \in Nat
      /\ c \in Hilos /\ c # "largo" /\ c # "mediano"
    BY LosHilos, Naturales DEF IInv, Tipos, TipoSem, Planificadores
<1>1. CASE AltaEnNew(c)
    <2>1. En(c, "alta") /\ Ir(c, "registrarAlta") /\ fallo' = "no"
        BY <1>1 DEF AltaEnNew, En
    <2>2. TipoSem' /\ sem' = sem
        BY <1>0, <1>1 DEF AltaEnNew, TipoSem
    <2>3. UNCHANGED <<Respuestas, Avisos, sem["ready"], sem["exit"]>>
        BY <2>2 DEF Respuestas, Avisos
    <2>4. /\ (cola \in TipoCola)'
          /\ Len(cola'["new"]) = Len(cola["new"]) + 1
          /\ \A r \in Colas \ {"new"} : cola'[r] = cola[r]
        BY <1>0, <1>1, TrasEncolar DEF AltaEnNew, Colas
    <2>5. /\ Tam("new")' = Tam("new") + 1
          /\ UNCHANGED <<Tam("susready"), Tam("ready"), Tam("exit")>>
        BY <2>4 DEF Tam, Colas
    <2>6. SaldaApreton(c, "alta", "registrarAlta")
        BY <1>0, <2>3 DEF SaldaApreton, Uno, Esperas, Evaluando
    <2>7. SaldaAdmision("alta", "registrarAlta")
        BY <1>0, <2>3, <2>5 DEF SaldaAdmision, Uno, Admitiendo
    <2>8. SaldaReady("alta", "registrarAlta") /\ SaldaExit("alta", "registrarAlta") /\ SaldaLargo(c, "registrarAlta")
        BY <1>0, <2>3, <2>5 DEF SaldaReady, SaldaExit, SaldaLargo, Uno, Despachando,
           Cerrando
    <2> QED BY <1>0, <2>1, <2>2, <2>4, <2>6, <2>7, <2>8, ConteosTras DEF Salda
<1>2. CASE ConcluirAlta(c)
    <2>1. En(c, "espAlta") /\ Ir(c, "fin") /\ fallo' = "no"
        BY <1>2 DEF ConcluirAlta, En
    <2>2. /\ TipoSem'
          /\ sem'["concluida"] + 1 = sem["concluida"]
          /\ sem'["hay"] = sem["hay"] + 1
          /\ \A u \in Contadores \ {"concluida", "hay"} : sem'[u] = sem[u]
        BY <1>0, <1>2, TrasWaitPost DEF ConcluirAlta, Contadores
    <2>3. /\ Respuestas' = Respuestas - 1
          /\ Avisos' = Avisos + 1
          /\ UNCHANGED <<sem["ready"], sem["exit"]>>
        BY <1>0, <2>2 DEF Respuestas, Avisos, Contadores, TipoSem
    <2>4. (cola \in TipoCola)' /\ cola' = cola
        BY <1>0, <1>2 DEF ConcluirAlta
    <2>5. /\ UNCHANGED <<Tam("new"), Tam("susready"), Tam("ready"), Tam("exit")>>
        BY <2>4 DEF Tam
    <2>6. SaldaApreton(c, "espAlta", "fin")
        BY <1>0, <2>3 DEF SaldaApreton, Uno, Esperas, Evaluando
    <2>7. SaldaAdmision("espAlta", "fin")
        BY <1>0, <2>3, <2>5 DEF SaldaAdmision, Uno, Admitiendo
    <2>8. SaldaReady("espAlta", "fin") /\ SaldaExit("espAlta", "fin") /\ SaldaLargo(c, "fin")
        BY <1>0, <2>3, <2>5 DEF SaldaReady, SaldaExit, SaldaLargo, Uno, Despachando,
           Cerrando
    <2> QED BY <1>0, <2>1, <2>2, <2>4, <2>6, <2>7, <2>8, ConteosTras DEF Salda
<1>3. CASE RegistrarAlta(c)
    <2>1. En(c, "registrarAlta") /\ Ir(c, "espAlta") /\ fallo' = "no"
        BY <1>3 DEF RegistrarAlta, En
    <2>2. /\ TipoSem'
          /\ sem'["despertar"] = sem["despertar"] + 1
          /\ \A u \in Contadores \ {"despertar"} : sem'[u] = sem[u]
        BY <1>0, <1>3, TrasPost DEF RegistrarAlta, Contadores
    <2>3. /\ Respuestas' = Respuestas + 1
          /\ UNCHANGED <<Avisos, sem["ready"], sem["exit"]>>
        BY <1>0, <2>2 DEF Respuestas, Avisos, Contadores, TipoSem
    <2>4. (cola \in TipoCola)' /\ cola' = cola
        BY <1>0, <1>3 DEF RegistrarAlta
    <2>5. UNCHANGED <<Tam("new"), Tam("susready"), Tam("ready"), Tam("exit")>>
        BY <2>4 DEF Tam
    <2>6. SaldaApreton(c, "registrarAlta", "espAlta")
        BY <1>0, <2>3 DEF SaldaApreton, Uno, Esperas, Evaluando
    <2>7. SaldaAdmision("registrarAlta", "espAlta")
        BY <1>0, <2>3, <2>5 DEF SaldaAdmision, Uno, Admitiendo
    <2>8. SaldaReady("registrarAlta", "espAlta") /\ SaldaExit("registrarAlta", "espAlta") /\ SaldaLargo(c, "espAlta")
        BY <1>0, <2>3, <2>5 DEF SaldaReady, SaldaExit, SaldaLargo, Uno, Despachando,
           Cerrando
    <2> QED BY <1>0, <2>1, <2>2, <2>4, <2>6, <2>7, <2>8, ConteosTras DEF Salda
<1> QED BY <1>1, <1>2, <1>3 DEF Alta

\* At the end of an admission a PCB is in READY before its semaphore is posted ...
LEMMA ConteosPasarAReady ==
    ASSUME IInv, NEW t \in Hilos, PasarAReady(t, "registrarReady"), UNCHANGED sem
    PROVE  Conteos'
<1> USE DEF io, clientes, fin
<1>0. /\ cola \in TipoCola /\ TipoSem
      /\ Tam("new") \in Nat /\ Tam("susready") \in Nat
      /\ Tam("ready") \in Nat /\ Tam("exit") \in Nat
      /\ Respuestas \in Nat /\ Avisos \in Nat
      /\ \A s \in Contadores : sem[s] \in Nat
      /\ sem["ready"] \in Nat /\ sem["exit"] \in Nat
      /\ tomado[t] \in Carpinchos
    BY Naturales DEF IInv, Tipos, TipoSem, TipoHilos, Manos, ConPCB, PasarAReady, EnCon, En
<1>1. En(t, "aReady") /\ Ir(t, "registrarReady") /\ fallo' = "no"
    BY DEF PasarAReady, EnCon, En
<1>2. TipoSem' /\ sem' = sem
    BY <1>0 DEF PasarAReady, EnCon, TipoSem
<1>3. UNCHANGED <<Respuestas, Avisos, sem["ready"], sem["exit"]>>
    BY <1>2 DEF Respuestas, Avisos
<1>4. /\ (cola \in TipoCola)'
      /\ Len(cola'["ready"]) = Len(cola["ready"]) + 1
      /\ \A r \in Colas \ {"ready"} : cola'[r] = cola[r]
    BY <1>0, TrasEncolar DEF PasarAReady, EnCon, Colas
<1>5. /\ Tam("ready")' = Tam("ready") + 1
      /\ UNCHANGED <<Tam("new"), Tam("susready"), Tam("exit")>>
    BY <1>4 DEF Tam, Colas
<1>6. SaldaApreton(t, "aReady", "registrarReady")
    BY <1>0, <1>3 DEF SaldaApreton, Uno, Esperas, Evaluando
<1>7. SaldaAdmision("aReady", "registrarReady")
    BY <1>0, <1>3, <1>5 DEF SaldaAdmision, Uno, Admitiendo
<1>8. SaldaReady("aReady", "registrarReady") /\ SaldaExit("aReady", "registrarReady") /\ SaldaLargo(t, "registrarReady")
    BY <1>0, <1>3, <1>5 DEF SaldaReady, SaldaExit, SaldaLargo, Uno, Despachando,
       Cerrando
<1> QED BY <1>0, <1>1, <1>2, <1>4, <1>6, <1>7, <1>8, ConteosTras DEF Salda

\* ... which is posted once the PCB has been logged ...
LEMMA ConteosRegistrarReady ==
    ASSUME IInv, NEW t \in Hilos, NEW v \in {"hay", "transicionar"}, RegistrarReady(t, v)
    PROVE  Conteos'
<1> USE DEF io, clientes, fin
<1>0. /\ cola \in TipoCola /\ TipoSem
      /\ Tam("new") \in Nat /\ Tam("susready") \in Nat
      /\ Tam("ready") \in Nat /\ Tam("exit") \in Nat
      /\ Respuestas \in Nat /\ Avisos \in Nat
      /\ \A s \in Contadores : sem[s] \in Nat
      /\ sem["ready"] \in Nat /\ sem["exit"] \in Nat
    BY Naturales DEF IInv, Tipos, TipoSem
<1>1. En(t, "registrarReady") /\ Ir(t, v) /\ fallo' = "no"
    BY DEF RegistrarReady, En
<1>2. /\ TipoSem'
      /\ sem'["ready"] = sem["ready"] + 1
      /\ \A u \in Contadores \ {"ready"} : sem'[u] = sem[u]
    BY <1>0, TrasPost DEF RegistrarReady, Contadores
<1>3. /\ sem'["ready"] = sem["ready"] + 1
      /\ UNCHANGED <<Respuestas, Avisos, sem["exit"]>>
    BY <1>0, <1>2 DEF Respuestas, Avisos, Contadores, TipoSem
<1>4. (cola \in TipoCola)' /\ cola' = cola
    BY <1>0 DEF RegistrarReady
<1>5. UNCHANGED <<Tam("new"), Tam("susready"), Tam("ready"), Tam("exit")>>
    BY <1>4 DEF Tam
<1>6. SaldaApreton(t, "registrarReady", v)
    BY <1>0, <1>3 DEF SaldaApreton, Uno, Esperas, Evaluando
<1>7. SaldaAdmision("registrarReady", v)
    BY <1>0, <1>3, <1>5 DEF SaldaAdmision, Uno, Admitiendo
<1>8. SaldaReady("registrarReady", v) /\ SaldaExit("registrarReady", v) /\ SaldaLargo(t, v)
    BY <1>0, <1>3, <1>5 DEF SaldaReady, SaldaExit, SaldaLargo, Uno, Despachando,
       Cerrando
<1> QED BY <1>0, <1>1, <1>2, <1>4, <1>6, <1>7, <1>8, ConteosTras DEF Salda

\* ... while a device does both under mutexDeadlock.
LEMMA ConteosDesbloquear ==
    ASSUME IInv, NEW t \in Hilos, PasarAReady(t, "registrarIO"), sem' = Post("ready")
    PROVE  Conteos'
<1> USE DEF io, clientes, fin
<1>0. /\ cola \in TipoCola /\ TipoSem
      /\ Tam("new") \in Nat /\ Tam("susready") \in Nat
      /\ Tam("ready") \in Nat /\ Tam("exit") \in Nat
      /\ Respuestas \in Nat /\ Avisos \in Nat
      /\ \A s \in Contadores : sem[s] \in Nat
      /\ sem["ready"] \in Nat /\ sem["exit"] \in Nat
      /\ tomado[t] \in Carpinchos
    BY Naturales DEF IInv, Tipos, TipoSem, TipoHilos, Manos, ConPCB, PasarAReady, EnCon, En
<1>1. En(t, "aReady") /\ Ir(t, "registrarIO") /\ fallo' = "no"
    BY DEF PasarAReady, EnCon, En
<1>2. /\ TipoSem'
      /\ sem'["ready"] = sem["ready"] + 1
      /\ \A u \in Contadores \ {"ready"} : sem'[u] = sem[u]
    BY <1>0, TrasPost DEF PasarAReady, EnCon, Contadores
<1>3. /\ sem'["ready"] = sem["ready"] + 1
      /\ UNCHANGED <<Respuestas, Avisos, sem["exit"]>>
    BY <1>0, <1>2 DEF Respuestas, Avisos, Contadores, TipoSem
<1>4. /\ (cola \in TipoCola)'
      /\ Len(cola'["ready"]) = Len(cola["ready"]) + 1
      /\ \A r \in Colas \ {"ready"} : cola'[r] = cola[r]
    BY <1>0, TrasEncolar DEF PasarAReady, EnCon, Colas
<1>5. /\ Tam("ready")' = Tam("ready") + 1
      /\ UNCHANGED <<Tam("new"), Tam("susready"), Tam("exit")>>
    BY <1>4 DEF Tam, Colas
<1>6. SaldaApreton(t, "aReady", "registrarIO")
    BY <1>0, <1>3 DEF SaldaApreton, Uno, Esperas, Evaluando
<1>7. SaldaAdmision("aReady", "registrarIO")
    BY <1>0, <1>3, <1>5 DEF SaldaAdmision, Uno, Admitiendo
<1>8. SaldaReady("aReady", "registrarIO") /\ SaldaExit("aReady", "registrarIO") /\ SaldaLargo(t, "registrarIO")
    BY <1>0, <1>3, <1>5 DEF SaldaReady, SaldaExit, SaldaLargo, Uno, Despachando,
       Cerrando
<1> QED BY <1>0, <1>1, <1>2, <1>4, <1>6, <1>7, <1>8, ConteosTras DEF Salda

\* The long-term scheduler keeps the sums, and finds a PCB in NEW: what it
\* saw is still so, since who adds to SUSP/READY announces it.
LEMMA ConteosLargo ==
    ASSUME IInv, Largo
    PROVE  Conteos'
<1> USE DEF io, clientes, fin
<1>0. /\ cola \in TipoCola /\ TipoSem
      /\ Tam("new") \in Nat /\ Tam("susready") \in Nat
      /\ Tam("ready") \in Nat /\ Tam("exit") \in Nat
      /\ Respuestas \in Nat /\ Avisos \in Nat
      /\ \A s \in Contadores : sem[s] \in Nat
      /\ sem["ready"] \in Nat /\ sem["exit"] \in Nat
      /\ "largo" \in Hilos
    BY LosHilos, Naturales DEF IInv, Tipos, TipoSem, Planificadores
<1>1. CASE TomarCandidato
    <2>1. En("largo", "hay") /\ Ir("largo", "grado") /\ fallo' = "no"
        BY <1>1 DEF TomarCandidato, En
    <2>2. /\ TipoSem'
          /\ sem'["hay"] + 1 = sem["hay"]
          /\ \A u \in Contadores \ {"hay"} : sem'[u] = sem[u]
        BY <1>0, <1>1, TrasWait DEF TomarCandidato, Contadores
    <2>3. /\ Avisos' = Avisos - 1
          /\ UNCHANGED <<Respuestas, sem["ready"], sem["exit"]>>
        BY <1>0, <2>2 DEF Respuestas, Avisos, Contadores, TipoSem
    <2>4. (cola \in TipoCola)' /\ cola' = cola
        BY <1>0, <1>1 DEF TomarCandidato
    <2>5. /\ UNCHANGED <<Tam("new"), Tam("susready"), Tam("ready"), Tam("exit")>>
        BY <2>4 DEF Tam
    <2>6. SaldaApreton("largo", "hay", "grado")
        BY <1>0, <2>3 DEF SaldaApreton, Uno, Esperas, Evaluando
    <2>7. SaldaAdmision("hay", "grado")
        BY <1>0, <2>3, <2>5 DEF SaldaAdmision, Uno, Admitiendo
    <2>8. SaldaReady("hay", "grado") /\ SaldaExit("hay", "grado") /\ SaldaLargo("largo", "grado")
        BY <1>0, <2>3, <2>5 DEF SaldaReady, SaldaExit, SaldaLargo, Uno, Despachando,
           Cerrando
    <2> QED BY <1>0, <2>1, <2>2, <2>4, <2>6, <2>7, <2>8, ConteosTras DEF Salda
<1>2. CASE TomarGrado
    <2>1. En("largo", "grado") /\ Ir("largo", "mirar") /\ fallo' = "no"
        BY <1>2 DEF TomarGrado, En
    <2>2. /\ TipoSem'
          /\ sem'["grado"] + 1 = sem["grado"]
          /\ \A u \in Contadores \ {"grado"} : sem'[u] = sem[u]
        BY <1>0, <1>2, TrasWait DEF TomarGrado, Contadores
    <2>3. /\ UNCHANGED <<Respuestas, Avisos, sem["ready"], sem["exit"]>>
        BY <1>0, <2>2 DEF Respuestas, Avisos, Contadores, TipoSem
    <2>4. (cola \in TipoCola)' /\ cola' = cola
        BY <1>0, <1>2 DEF TomarGrado
    <2>5. /\ UNCHANGED <<Tam("new"), Tam("susready"), Tam("ready"), Tam("exit")>>
        BY <2>4 DEF Tam
    <2>6. SaldaApreton("largo", "grado", "mirar")
        BY <1>0, <2>3 DEF SaldaApreton, Uno, Esperas, Evaluando
    <2>7. SaldaAdmision("grado", "mirar")
        BY <1>0, <2>3, <2>5 DEF SaldaAdmision, Uno, Admitiendo
    <2>8. SaldaReady("grado", "mirar") /\ SaldaExit("grado", "mirar") /\ SaldaLargo("largo", "mirar")
        BY <1>0, <2>3, <2>5 DEF SaldaReady, SaldaExit, SaldaLargo, Uno, Despachando,
           Cerrando
    <2> QED BY <1>0, <2>1, <2>2, <2>4, <2>6, <2>7, <2>8, ConteosTras DEF Salda
<1>3. CASE DelegarEnSusReady
    <2>1. En("largo", "mirar") /\ Ir("largo", "hay") /\ fallo' = "no"
        BY <1>3 DEF DelegarEnSusReady, En
    <2>2. /\ TipoSem'
          /\ sem'["transicionar"] = sem["transicionar"] + 1
          /\ \A u \in Contadores \ {"transicionar"} : sem'[u] = sem[u]
        BY <1>0, <1>3, TrasPost DEF DelegarEnSusReady, Contadores
    <2>3. /\ Avisos' = Avisos + 1
          /\ UNCHANGED <<Respuestas, sem["ready"], sem["exit"]>>
        BY <1>0, <2>2 DEF Respuestas, Avisos, Contadores, TipoSem
    <2>4. (cola \in TipoCola)' /\ cola' = cola
        BY <1>0, <1>3 DEF DelegarEnSusReady
    <2>5. /\ UNCHANGED <<Tam("new"), Tam("susready"), Tam("ready"), Tam("exit")>>
        BY <2>4 DEF Tam
    <2>6. SaldaApreton("largo", "mirar", "hay")
        BY <1>0, <2>3 DEF SaldaApreton, Uno, Esperas, Evaluando
    <2>7. SaldaAdmision("mirar", "hay")
        BY <1>0, <2>3, <2>5 DEF SaldaAdmision, Uno, Admitiendo
    <2>8. SaldaReady("mirar", "hay") /\ SaldaExit("mirar", "hay") /\ SaldaLargo("largo", "hay")
        BY <1>0, <2>3, <2>5 DEF SaldaReady, SaldaExit, SaldaLargo, Uno, Despachando,
           Cerrando
    <2> QED BY <1>0, <2>1, <2>2, <2>4, <2>6, <2>7, <2>8, ConteosTras DEF Salda
<1>4. CASE ElegirNew
    BY <1>0, <1>4, ConteosIr DEF ElegirNew, Esperas, Admitiendo, Despachando,
       Cerrando, Evaluando
<1>5. CASE SacarDeNew
    <2>1. cola["new"] # <<>>
        <3>1. Tam("new") + Tam("susready") = Cuantos(Admitiendo) + Avisos
            <4>1. Tam("new") + Tam("susready") =
                    Cuantos(Admitiendo) + sem["hay"] + sem["transicionar"]
                BY <1>5 DEF SacarDeNew, En, IInv, Conteos, CuentaAdmision, Tam, Admitiendo
            <4>2. /\ sem["hay"] \in Nat /\ sem["transicionar"] \in Nat
                  /\ Cuantos(Admitiendo) \in Nat
                BY <1>0, CuantosNat DEF Contadores
            <4> QED BY <4>1, <4>2 DEF Avisos
        <3>2. Tam("susready") <= Avisos
            BY <1>5 DEF SacarDeNew, En, IInv, Conteos, LargoEnNew, Tam, Avisos
        <3>3. Cuantos(Admitiendo) \in Nat /\ Cuantos(Admitiendo) >= 1
            BY <1>0, <1>5, CuantosNat DEF SacarDeNew, En, Admitiendo
        <3>4. Tam("new") >= 1
            BY <1>0, <3>1, <3>2, <3>3
        <3> QED BY <3>4, EmptySeq DEF Tam
    <2>2. /\ En("largo", "sacar") /\ Ir("largo", "aReady") /\ cola' = SinPrimero("new")
          /\ UNCHANGED <<sem, fin>>
        BY <1>5, <2>1 DEF SacarDeNew
    <2>3. En("largo", "sacar") /\ Ir("largo", "aReady") /\ fallo' = "no"
        BY <2>2 DEF En
    <2>4. TipoSem' /\ sem' = sem
        BY <1>0, <2>2 DEF En, TipoSem
    <2>5. /\ UNCHANGED <<Respuestas, Avisos, sem["ready"], sem["exit"]>>
        BY <2>4 DEF Respuestas, Avisos
    <2>6. /\ (cola \in TipoCola)'
          /\ Len(cola'["new"]) = Len(cola["new"]) - 1
          /\ \A r \in Colas \ {"new"} : cola'[r] = cola[r]
        BY <1>0, <2>2, <2>1, TrasSinPrimero DEF En, Colas
    <2>7. /\ Tam("new")' = Tam("new") - 1
          /\ UNCHANGED <<Tam("susready"), Tam("ready"), Tam("exit")>>
        BY <2>6 DEF Tam, Colas
    <2>8. SaldaApreton("largo", "sacar", "aReady")
        BY <1>0, <2>5 DEF SaldaApreton, Uno, Esperas, Evaluando
    <2>9. SaldaAdmision("sacar", "aReady")
        BY <1>0, <2>5, <2>7 DEF SaldaAdmision, Uno, Admitiendo
    <2>10. SaldaReady("sacar", "aReady") /\ SaldaExit("sacar", "aReady") /\ SaldaLargo("largo", "aReady")
        BY <1>0, <2>5, <2>7 DEF SaldaReady, SaldaExit, SaldaLargo, Uno, Despachando,
           Cerrando
    <2> QED BY <1>0, <2>3, <2>4, <2>6, <2>8, <2>9, <2>10, ConteosTras DEF Salda
<1>6. CASE NewAReady
    BY <1>0, <1>6, ConteosPasarAReady DEF NewAReady
<1>7. CASE RegistrarAdmision
    BY <1>0, <1>7, ConteosRegistrarReady DEF RegistrarAdmision
<1> QED BY <1>1, <1>2, <1>3, <1>4, <1>5, <1>6, <1>7 DEF Largo

\* The thread that frees the PCBs of EXIT.
LEMMA ConteosLiberador ==
    ASSUME IInv, Liberador
    PROVE  Conteos'
<1> USE DEF io, clientes, fin
<1>0. /\ cola \in TipoCola /\ TipoSem
      /\ Tam("new") \in Nat /\ Tam("susready") \in Nat
      /\ Tam("ready") \in Nat /\ Tam("exit") \in Nat
      /\ Respuestas \in Nat /\ Avisos \in Nat
      /\ \A s \in Contadores : sem[s] \in Nat
      /\ sem["ready"] \in Nat /\ sem["exit"] \in Nat
      /\ "liberador" \in Hilos
    BY LosHilos, Naturales DEF IInv, Tipos, TipoSem, Planificadores
<1>1. CASE TomarExit
    <2>1. cola["exit"] # <<>>
        <3>1. sem["exit"] + Cuantos(Cerrando) = Tam("exit") /\ sem["exit"] > 0
            BY <1>1 DEF TomarExit, En, Puede, IInv, Conteos, CuentaExit, Tam, Cerrando
        <3>2. Cuantos(Cerrando) \in Nat
            BY CuantosNat
        <3> QED BY <1>0, <3>1, <3>2, EmptySeq DEF Tam
    <2>2. /\ En("liberador", "exit") /\ Ir("liberador", "liberar") /\ cola' = SinPrimero("exit")
          /\ Puede("exit") /\ sem' = Wait("exit") /\ UNCHANGED fin
        BY <1>1, <2>1 DEF TomarExit
    <2>3. En("liberador", "exit") /\ Ir("liberador", "liberar") /\ fallo' = "no"
        BY <2>2 DEF En
    <2>4. /\ TipoSem'
          /\ sem'["exit"] + 1 = sem["exit"]
          /\ \A u \in Contadores \ {"exit"} : sem'[u] = sem[u]
        BY <1>0, <2>2, TrasWait DEF En, Contadores
    <2>5. /\ sem'["exit"] = sem["exit"] - 1
          /\ UNCHANGED <<Respuestas, Avisos, sem["ready"]>>
        BY <1>0, <2>4 DEF Respuestas, Avisos, Contadores, TipoSem
    <2>6. /\ (cola \in TipoCola)'
          /\ Len(cola'["exit"]) = Len(cola["exit"]) - 1
          /\ \A r \in Colas \ {"exit"} : cola'[r] = cola[r]
        BY <1>0, <2>2, <2>1, TrasSinPrimero DEF En, Colas
    <2>7. /\ Tam("exit")' = Tam("exit") - 1
          /\ UNCHANGED <<Tam("new"), Tam("susready"), Tam("ready")>>
        BY <2>6 DEF Tam, Colas
    <2>8. SaldaApreton("liberador", "exit", "liberar")
        BY <1>0, <2>5 DEF SaldaApreton, Uno, Esperas, Evaluando
    <2>9. SaldaAdmision("exit", "liberar")
        BY <1>0, <2>5, <2>7 DEF SaldaAdmision, Uno, Admitiendo
    <2>10. SaldaReady("exit", "liberar") /\ SaldaExit("exit", "liberar") /\ SaldaLargo("liberador", "liberar")
        BY <1>0, <2>5, <2>7 DEF SaldaReady, SaldaExit, SaldaLargo, Uno, Despachando,
           Cerrando
    <2> QED BY <1>0, <2>3, <2>4, <2>6, <2>8, <2>9, <2>10, ConteosTras DEF Salda
<1>2. CASE Liberar
    <2>1. En("liberador", "liberar") /\ Ir("liberador", "exit") /\ fallo' = "no"
        BY <1>2 DEF Liberar, EnCon, En
    <2>2. /\ TipoSem'
          /\ sem'["grado"] = sem["grado"] + 1
          /\ \A u \in Contadores \ {"grado"} : sem'[u] = sem[u]
        BY <1>0, <1>2, TrasPost DEF Liberar, EnCon, Contadores
    <2>3. /\ UNCHANGED <<Respuestas, Avisos, sem["ready"], sem["exit"]>>
        BY <1>0, <2>2 DEF Respuestas, Avisos, Contadores, TipoSem
    <2>4. (cola \in TipoCola)' /\ cola' = cola
        BY <1>0, <1>2 DEF Liberar, EnCon
    <2>5. /\ UNCHANGED <<Tam("new"), Tam("susready"), Tam("ready"), Tam("exit")>>
        BY <2>4 DEF Tam
    <2>6. SaldaApreton("liberador", "liberar", "exit")
        BY <1>0, <2>3 DEF SaldaApreton, Uno, Esperas, Evaluando
    <2>7. SaldaAdmision("liberar", "exit")
        BY <1>0, <2>3, <2>5 DEF SaldaAdmision, Uno, Admitiendo
    <2>8. SaldaReady("liberar", "exit") /\ SaldaExit("liberar", "exit") /\ SaldaLargo("liberador", "exit")
        BY <1>0, <2>3, <2>5 DEF SaldaReady, SaldaExit, SaldaLargo, Uno, Despachando,
           Cerrando
    <2> QED BY <1>0, <2>1, <2>2, <2>4, <2>6, <2>7, <2>8, ConteosTras DEF Salda
<1> QED BY <1>1, <1>2 DEF Liberador

\* The medium-term scheduler answers.
LEMMA ConteosDejarDeEvaluar ==
    ASSUME IInv, NEW e \in {"verNew", "verBlocked", "verGrado"}, En("mediano", e),
           DejarDeEvaluar, UNCHANGED <<cola, fallo>>
    PROVE  Conteos'
<1> USE DEF io, clientes, fin
<1>0. /\ cola \in TipoCola /\ TipoSem
      /\ Tam("new") \in Nat /\ Tam("susready") \in Nat
      /\ Tam("ready") \in Nat /\ Tam("exit") \in Nat
      /\ Respuestas \in Nat /\ Avisos \in Nat
      /\ \A s \in Contadores : sem[s] \in Nat
      /\ sem["ready"] \in Nat /\ sem["exit"] \in Nat
      /\ "mediano" \in Hilos
    BY LosHilos, Naturales DEF IInv, Tipos, TipoSem, Planificadores
<1>1. En("mediano", e) /\ Ir("mediano", "despertar") /\ fallo' = "no"
    BY DEF DejarDeEvaluar, En
<1>2. /\ TipoSem'
      /\ sem'["concluida"] = sem["concluida"] + 1
      /\ \A u \in Contadores \ {"concluida"} : sem'[u] = sem[u]
    BY <1>0, TrasPost DEF DejarDeEvaluar, Contadores
<1>3. /\ Respuestas' = Respuestas + 1
      /\ UNCHANGED <<Avisos, sem["ready"], sem["exit"]>>
    BY <1>0, <1>2 DEF Respuestas, Avisos, Contadores, TipoSem
<1>4. (cola \in TipoCola)' /\ cola' = cola
    BY <1>0 DEF DejarDeEvaluar
<1>5. /\ UNCHANGED <<Tam("new"), Tam("susready"), Tam("ready"), Tam("exit")>>
    BY <1>4 DEF Tam
<1>6. SaldaApreton("mediano", e, "despertar")
    BY <1>0, <1>3 DEF SaldaApreton, Uno, Esperas, Evaluando
<1>7. SaldaAdmision(e, "despertar")
    BY <1>0, <1>3, <1>5 DEF SaldaAdmision, Uno, Admitiendo
<1>8. SaldaReady(e, "despertar") /\ SaldaExit(e, "despertar") /\ SaldaLargo("mediano", "despertar")
    BY <1>0, <1>3, <1>5 DEF SaldaReady, SaldaExit, SaldaLargo, Uno, Despachando,
           Cerrando
<1> QED BY <1>0, <1>1, <1>2, <1>4, <1>6, <1>7, <1>8, ConteosTras DEF Salda

\* The medium-term scheduler keeps the sums on every way out of an evaluation.
LEMMA ConteosMediano ==
    ASSUME IInv, Tipos', Mediano
    PROVE  Conteos'
<1> USE DEF io, clientes, fin
<1>0. /\ cola \in TipoCola /\ TipoSem
      /\ Tam("new") \in Nat /\ Tam("susready") \in Nat
      /\ Tam("ready") \in Nat /\ Tam("exit") \in Nat
      /\ Respuestas \in Nat /\ Avisos \in Nat
      /\ \A s \in Contadores : sem[s] \in Nat
      /\ sem["ready"] \in Nat /\ sem["exit"] \in Nat
      /\ "mediano" \in Hilos
    BY LosHilos, Naturales DEF IInv, Tipos, TipoSem, Planificadores
<1>1. CASE Despertar
    <2>1. CASE cola["ready"] = <<>>
        <3>1. En("mediano", "despertar") /\ Ir("mediano", "verNew") /\ fallo' = "no"
            BY <1>1, <2>1 DEF Despertar, En
        <3>2. /\ TipoSem'
              /\ sem'["despertar"] + 1 = sem["despertar"]
              /\ \A u \in Contadores \ {"despertar"} : sem'[u] = sem[u]
            BY <1>0, <1>1, <2>1, TrasWait DEF Despertar, Contadores
        <3>3. /\ Respuestas' = Respuestas - 1
              /\ UNCHANGED <<Avisos, sem["ready"], sem["exit"]>>
            BY <1>0, <3>2 DEF Respuestas, Avisos, Contadores, TipoSem
        <3>4. (cola \in TipoCola)' /\ cola' = cola
            BY <1>0, <1>1, <2>1 DEF Despertar
        <3>5. /\ UNCHANGED <<Tam("new"), Tam("susready"), Tam("ready"), Tam("exit")>>
            BY <3>4 DEF Tam
        <3>6. SaldaApreton("mediano", "despertar", "verNew")
            BY <1>0, <3>3 DEF SaldaApreton, Uno, Esperas, Evaluando
        <3>7. SaldaAdmision("despertar", "verNew")
            BY <1>0, <3>3, <3>5 DEF SaldaAdmision, Uno, Admitiendo
        <3>8. SaldaReady("despertar", "verNew") /\ SaldaExit("despertar", "verNew") /\ SaldaLargo("mediano", "verNew")
            BY <1>0, <3>3, <3>5 DEF SaldaReady, SaldaExit, SaldaLargo, Uno, Despachando,
           Cerrando
        <3> QED BY <1>0, <3>1, <3>2, <3>4, <3>6, <3>7, <3>8, ConteosTras DEF Salda
    <2>2. CASE cola["ready"] # <<>>
        <3>1. En("mediano", "despertar") /\ Ir("mediano", "despertar") /\ fallo' = "no"
            BY <1>1, <2>2 DEF Despertar, Ir, IInv, Tipos, TipoHilos, En
        <3>2. /\ TipoSem'
              /\ sem'["despertar"] + 1 = sem["despertar"]
              /\ sem'["concluida"] = sem["concluida"] + 1
              /\ \A u \in Contadores \ {"despertar", "concluida"} : sem'[u] = sem[u]
            BY <1>0, <1>1, <2>2, TrasWaitPost DEF Despertar, Contadores
        <3>3. /\ UNCHANGED <<Respuestas, Avisos, sem["ready"], sem["exit"]>>
            BY <1>0, <3>2 DEF Respuestas, Avisos, Contadores, TipoSem
        <3>4. (cola \in TipoCola)' /\ cola' = cola
            BY <1>0, <1>1, <2>2 DEF Despertar
        <3>5. /\ UNCHANGED <<Tam("new"), Tam("susready"), Tam("ready"), Tam("exit")>>
            BY <3>4 DEF Tam
        <3>6. SaldaApreton("mediano", "despertar", "despertar")
            BY <1>0, <3>3 DEF SaldaApreton, Uno, Esperas, Evaluando
        <3>7. SaldaAdmision("despertar", "despertar")
            BY <1>0, <3>3, <3>5 DEF SaldaAdmision, Uno, Admitiendo
        <3>8. SaldaReady("despertar", "despertar") /\ SaldaExit("despertar", "despertar") /\ SaldaLargo("mediano", "despertar")
            BY <1>0, <3>3, <3>5 DEF SaldaReady, SaldaExit, SaldaLargo, Uno, Despachando,
           Cerrando
        <3> QED BY <1>0, <3>1, <3>2, <3>4, <3>6, <3>7, <3>8, ConteosTras DEF Salda
    <2> QED BY <2>1, <2>2
<1>2. CASE VerNew
    <2>1. CASE DejarDeEvaluar
        BY <1>2, <2>1, ConteosDejarDeEvaluar DEF VerNew, Evaluar
    <2>2. CASE Ir("mediano", "verBlocked") /\ UNCHANGED sem
        BY <1>0, <1>2, <2>2, ConteosIr DEF VerNew, Evaluar, Esperas, Admitiendo, Despachando,
       Cerrando, Evaluando
    <2> QED BY <1>2, <2>1, <2>2 DEF VerNew, Evaluar
<1>3. CASE VerBlocked
    <2>1. CASE DejarDeEvaluar
        BY <1>3, <2>1, ConteosDejarDeEvaluar DEF VerBlocked, Evaluar
    <2>2. CASE Ir("mediano", "verGrado") /\ UNCHANGED sem
        BY <1>0, <1>3, <2>2, ConteosIr DEF VerBlocked, Evaluar, Esperas, Admitiendo, Despachando,
       Cerrando, Evaluando
    <2> QED BY <1>3, <2>1, <2>2 DEF VerBlocked, Evaluar
<1>4. CASE VerGrado
    <2>1. CASE DejarDeEvaluar
        BY <1>4, <2>1, ConteosDejarDeEvaluar DEF VerGrado, Evaluar
    <2>2. CASE Ir("mediano", "suspender") /\ UNCHANGED sem
        BY <1>0, <1>4, <2>2, ConteosIr DEF VerGrado, Evaluar, Esperas, Admitiendo, Despachando,
       Cerrando, Evaluando
    <2> QED BY <1>4, <2>1, <2>2 DEF VerGrado, Evaluar
<1>5. CASE Suspender
    <2>1. CASE cola["blocked"] = <<>>
        BY <1>5, <2>1, ConteosCaer DEF Suspender, IInv
    <2>2. CASE cola["blocked"] # <<>> /\ Last(cola["blocked"]) \in liberados
        BY <1>5, <2>2, ConteosCaer DEF Suspender, IInv
    <2>3. CASE cola["blocked"] # <<>> /\ Last(cola["blocked"]) \notin liberados
        <3>1. /\ En("mediano", "suspender") /\ Ir("mediano", "registrarSuspension")
              /\ fallo' = "no"
            BY <1>5, <2>3 DEF Suspender, En
        <3>2. TipoSem' /\ sem' = sem
            BY <1>0, <1>5, <2>3 DEF Suspender, TipoSem
        <3>3. UNCHANGED <<Respuestas, Avisos, sem["ready"], sem["exit"]>>
            BY <3>2 DEF Respuestas, Avisos
        <3>4. /\ (cola \in TipoCola)'
              /\ \A r \in Colas \ {"blocked", "susblocked"} : cola'[r] = cola[r]
            BY <1>0, <1>5, <2>3 DEF Suspender, Tipos, TipoCola
        <3>5. UNCHANGED <<Tam("new"), Tam("susready"), Tam("ready"), Tam("exit")>>
            BY <3>4 DEF Tam, Colas
        <3>6. SaldaApreton("mediano", "suspender", "registrarSuspension")
            BY <1>0, <3>3 DEF SaldaApreton, Uno, Esperas, Evaluando
        <3>7. SaldaAdmision("suspender", "registrarSuspension")
            BY <1>0, <3>3, <3>5 DEF SaldaAdmision, Uno, Admitiendo
        <3>8. /\ SaldaReady("suspender", "registrarSuspension")
              /\ SaldaExit("suspender", "registrarSuspension")
              /\ SaldaLargo("mediano", "registrarSuspension")
            BY <1>0, <3>3, <3>5 DEF SaldaReady, SaldaExit, SaldaLargo, Uno, Despachando,
               Cerrando
        <3> QED BY <1>0, <3>1, <3>2, <3>4, <3>6, <3>7, <3>8, ConteosTras DEF Salda
    <2> QED BY <2>1, <2>2, <2>3
<1>6. CASE RegistrarSuspension
    <2>1. En("mediano", "registrarSuspension") /\ Ir("mediano", "despertar") /\ fallo' = "no"
        BY <1>6 DEF RegistrarSuspension, En
    <2>2. /\ TipoSem'
          /\ sem'["grado"] = sem["grado"] + 1
          /\ sem'["concluida"] = sem["concluida"] + 1
          /\ \A u \in Contadores \ {"grado", "concluida"} : sem'[u] = sem[u]
        BY <1>0, <1>6, TrasPostPost DEF RegistrarSuspension, Contadores
    <2>3. /\ Respuestas' = Respuestas + 1
          /\ UNCHANGED <<Avisos, sem["ready"], sem["exit"]>>
        BY <1>0, <2>2 DEF Respuestas, Avisos, Contadores, TipoSem
    <2>4. (cola \in TipoCola)' /\ cola' = cola
        BY <1>0, <1>6 DEF RegistrarSuspension
    <2>5. UNCHANGED <<Tam("new"), Tam("susready"), Tam("ready"), Tam("exit")>>
        BY <2>4 DEF Tam
    <2>6. SaldaApreton("mediano", "registrarSuspension", "despertar")
        BY <1>0, <2>3 DEF SaldaApreton, Uno, Esperas, Evaluando
    <2>7. SaldaAdmision("registrarSuspension", "despertar")
        BY <1>0, <2>3, <2>5 DEF SaldaAdmision, Uno, Admitiendo
    <2>8. SaldaReady("registrarSuspension", "despertar") /\ SaldaExit("registrarSuspension", "despertar") /\ SaldaLargo("mediano", "despertar")
        BY <1>0, <2>3, <2>5 DEF SaldaReady, SaldaExit, SaldaLargo, Uno, Despachando,
           Cerrando
    <2> QED BY <1>0, <2>1, <2>2, <2>4, <2>6, <2>7, <2>8, ConteosTras DEF Salda
<1> QED BY <1>1, <1>2, <1>3, <1>4, <1>5, <1>6 DEF Mediano

\* The thread that moves SUSP/READY to READY.
LEMMA ConteosSusReady ==
    ASSUME IInv, SusReady
    PROVE  Conteos'
<1> USE DEF io, clientes, fin
<1>0. /\ cola \in TipoCola /\ TipoSem
      /\ Tam("new") \in Nat /\ Tam("susready") \in Nat
      /\ Tam("ready") \in Nat /\ Tam("exit") \in Nat
      /\ Respuestas \in Nat /\ Avisos \in Nat
      /\ \A s \in Contadores : sem[s] \in Nat
      /\ sem["ready"] \in Nat /\ sem["exit"] \in Nat
      /\ "susready" \in Hilos
    BY LosHilos, Naturales DEF IInv, Tipos, TipoSem, Planificadores
<1>1. CASE TomarSusReady
    <2>1. CASE cola["susready"] = <<>>
        BY <1>1, <2>1, ConteosCaer DEF TomarSusReady, IInv
    <2>2. CASE cola["susready"] # <<>>
        <3>1. En("susready", "transicionar") /\ Ir("susready", "aReady") /\ fallo' = "no"
            BY <1>1, <2>2 DEF TomarSusReady, En
        <3>2. /\ TipoSem'
              /\ sem'["transicionar"] + 1 = sem["transicionar"]
              /\ \A u \in Contadores \ {"transicionar"} : sem'[u] = sem[u]
            BY <1>0, <1>1, <2>2, TrasWait DEF TomarSusReady, Contadores
        <3>3. /\ Avisos' = Avisos - 1
              /\ UNCHANGED <<Respuestas, sem["ready"], sem["exit"]>>
            BY <1>0, <3>2 DEF Respuestas, Avisos, Contadores, TipoSem
        <3>4. /\ (cola \in TipoCola)'
              /\ Len(cola'["susready"]) = Len(cola["susready"]) - 1
              /\ \A r \in Colas \ {"susready"} : cola'[r] = cola[r]
            BY <1>0, <1>1, <2>2, TrasSinPrimero DEF TomarSusReady, Colas
        <3>5. /\ Tam("susready")' = Tam("susready") - 1
              /\ UNCHANGED <<Tam("new"), Tam("ready"), Tam("exit")>>
            BY <3>4 DEF Tam, Colas
        <3>6. SaldaApreton("susready", "transicionar", "aReady")
            BY <1>0, <3>3 DEF SaldaApreton, Uno, Esperas, Evaluando
        <3>7. SaldaAdmision("transicionar", "aReady")
            BY <1>0, <3>3, <3>5 DEF SaldaAdmision, Uno, Admitiendo
        <3>8. SaldaReady("transicionar", "aReady") /\ SaldaExit("transicionar", "aReady") /\ SaldaLargo("susready", "aReady")
            BY <1>0, <3>3, <3>5 DEF SaldaReady, SaldaExit, SaldaLargo, Uno, Despachando,
           Cerrando
        <3> QED BY <1>0, <3>1, <3>2, <3>4, <3>6, <3>7, <3>8, ConteosTras DEF Salda
    <2> QED BY <2>1, <2>2
<1>2. CASE SusReadyAReady
    BY <1>0, <1>2, ConteosPasarAReady DEF SusReadyAReady
<1>3. CASE RegistrarTransicion
    BY <1>0, <1>3, ConteosRegistrarReady DEF RegistrarTransicion
<1> QED BY <1>1, <1>2, <1>3 DEF SusReady

\* A CPU keeps the sums: it chooses a PCB for each unit of READY's semaphore,
\* and when its choice is gone it leaves READY as it is.
LEMMA ConteosCPU ==
    ASSUME IInv, Tipos', NEW k \in CPUs, CPU(k)
    PROVE  Conteos'
<1> USE DEF io, clientes, fin
<1>0. /\ cola \in TipoCola /\ TipoSem
      /\ Tam("new") \in Nat /\ Tam("susready") \in Nat
      /\ Tam("ready") \in Nat /\ Tam("exit") \in Nat
      /\ Respuestas \in Nat /\ Avisos \in Nat
      /\ \A s \in Contadores : sem[s] \in Nat
      /\ sem["ready"] \in Nat /\ sem["exit"] \in Nat
      /\ k \in Hilos /\ k # "largo" /\ k # "mediano"
      /\ pc[k] \in ConPCB => tomado[k] \in Carpinchos
    BY LosHilos, Naturales DEF IInv, Tipos, TipoSem, Planificadores,
       TipoHilos, Manos
<1>1. CASE Elegir(k)
    <2>1. cola["ready"] # <<>>
        <3>1. sem["ready"] + Cuantos(Despachando) <= Tam("ready") /\ sem["ready"] > 0
            BY <1>1 DEF Elegir, En, Puede, IInv, Conteos, CuentaReady, Tam, Despachando
        <3>2. Cuantos(Despachando) \in Nat
            BY CuantosNat
        <3> QED BY <1>0, <3>1, <3>2, EmptySeq DEF Tam
    <2>2. /\ En(k, "ready") /\ Ir(k, "despachar") /\ Puede("ready") /\ sem' = Wait("ready")
          /\ UNCHANGED <<cola, fin>>
        BY <1>1, <2>1 DEF Elegir
    <2>3. En(k, "ready") /\ Ir(k, "despachar") /\ fallo' = "no"
        BY <2>2 DEF En
    <2>4. /\ TipoSem'
          /\ sem'["ready"] + 1 = sem["ready"]
          /\ \A u \in Contadores \ {"ready"} : sem'[u] = sem[u]
        BY <1>0, <2>2, TrasWait DEF En, Contadores
    <2>5. /\ sem'["ready"] = sem["ready"] - 1
          /\ UNCHANGED <<Respuestas, Avisos, sem["exit"]>>
        BY <1>0, <2>4 DEF Respuestas, Avisos, Contadores, TipoSem
    <2>6. (cola \in TipoCola)' /\ cola' = cola
        BY <1>0, <2>2 DEF En
    <2>7. /\ UNCHANGED <<Tam("new"), Tam("susready"), Tam("ready"), Tam("exit")>>
        BY <2>6 DEF Tam
    <2>8. SaldaApreton(k, "ready", "despachar")
        BY <1>0, <2>5 DEF SaldaApreton, Uno, Esperas, Evaluando
    <2>9. SaldaAdmision("ready", "despachar")
        BY <1>0, <2>5, <2>7 DEF SaldaAdmision, Uno, Admitiendo
    <2>10. SaldaReady("ready", "despachar") /\ SaldaExit("ready", "despachar") /\ SaldaLargo(k, "despachar")
        BY <1>0, <2>5, <2>7 DEF SaldaReady, SaldaExit, SaldaLargo, Uno, Despachando,
           Cerrando
    <2> QED BY <1>0, <2>3, <2>4, <2>6, <2>8, <2>9, <2>10, ConteosTras DEF Salda
<1>2. CASE Despachar(k)
    <2>1. tomado[k] \in Carpinchos
        BY <1>0, <1>2 DEF Despachar, Recibe, Pide, EnCon, En, ConPCB
    <2>2. En(k, "despachar") /\ Ir(k, "espExec") /\ fallo' = "no"
        BY <1>2 DEF Despachar, EnCon, En
    <2>3. /\ TipoSem'
          /\ sem'["despertar"] = sem["despertar"] + 1
          /\ \A u \in Contadores \ {"despertar"} : sem'[u] = sem[u]
        BY <1>0, <1>2, TrasPost DEF Despachar, EnCon, Contadores
    <2>4. /\ Respuestas' = Respuestas + 1
          /\ UNCHANGED <<Avisos, sem["ready"], sem["exit"]>>
        BY <1>0, <2>3 DEF Respuestas, Avisos, Contadores, TipoSem
    <2>5. /\ (cola \in TipoCola)'
          /\ Len(cola'["ready"]) \in {Len(cola["ready"]) - 1, Len(cola["ready"])}
          /\ Len(cola'["exec"]) = Len(cola["exec"]) + 1
          /\ \A r \in Colas \ {"ready", "exec"} : cola'[r] = cola[r]
        <3>1. cola' = Mover(tomado[k], "ready", "exec")
            BY <1>2 DEF Despachar, EnCon
        <3>2. /\ Mover(tomado[k], "ready", "exec") \in TipoCola
              /\ Len(Mover(tomado[k], "ready", "exec")["ready"])
                   \in {Len(cola["ready"]) - 1, Len(cola["ready"])}
            BY <1>0, <2>1, TrasMover DEF Colas
        <3>3. /\ Len(Mover(tomado[k], "ready", "exec")["exec"]) = Len(cola["exec"]) + 1
              /\ \A r \in Colas \ {"ready", "exec"} :
                   Mover(tomado[k], "ready", "exec")[r] = cola[r]
            BY <1>0, <2>1, TrasMover DEF Colas
        <3> QED BY <3>1, <3>2, <3>3
    <2>6. /\ Tam("ready")' \in {Tam("ready") - 1, Tam("ready")}
          /\ UNCHANGED <<Tam("new"), Tam("susready"), Tam("exit")>>
        BY <2>5 DEF Tam, Colas
    <2>7. SaldaApreton(k, "despachar", "espExec")
        BY <1>0, <2>4 DEF SaldaApreton, Uno, Esperas, Evaluando
    <2>8. SaldaAdmision("despachar", "espExec")
        BY <1>0, <2>4, <2>6 DEF SaldaAdmision, Uno, Admitiendo
    <2>9. SaldaReady("despachar", "espExec") /\ SaldaExit("despachar", "espExec") /\ SaldaLargo(k, "espExec")
        BY <1>0, <2>4, <2>6 DEF SaldaReady, SaldaExit, SaldaLargo, Uno, Despachando,
           Cerrando
    <2> QED BY <1>0, <2>2, <2>3, <2>5, <2>7, <2>8, <2>9, ConteosTras DEF Salda
<1>3. CASE EmpezarAtencion(k)
    <2>1. En(k, "espExec") /\ Ir(k, "atender") /\ fallo' = "no"
        BY <1>3 DEF EmpezarAtencion, EnCon, En
    <2>2. /\ TipoSem'
          /\ sem'["concluida"] + 1 = sem["concluida"]
          /\ \A u \in Contadores \ {"concluida"} : sem'[u] = sem[u]
        BY <1>0, <1>3, TrasWait DEF EmpezarAtencion, EnCon, Contadores
    <2>3. /\ Respuestas' = Respuestas - 1
          /\ UNCHANGED <<Avisos, sem["ready"], sem["exit"]>>
        BY <1>0, <2>2 DEF Respuestas, Avisos, Contadores, TipoSem
    <2>4. (cola \in TipoCola)' /\ cola' = cola
        BY <1>0, <1>3 DEF EmpezarAtencion, EnCon
    <2>5. /\ UNCHANGED <<Tam("new"), Tam("susready"), Tam("ready"), Tam("exit")>>
        BY <2>4 DEF Tam
    <2>6. SaldaApreton(k, "espExec", "atender")
        BY <1>0, <2>3 DEF SaldaApreton, Uno, Esperas, Evaluando
    <2>7. SaldaAdmision("espExec", "atender")
        BY <1>0, <2>3, <2>5 DEF SaldaAdmision, Uno, Admitiendo
    <2>8. SaldaReady("espExec", "atender") /\ SaldaExit("espExec", "atender") /\ SaldaLargo(k, "atender")
        BY <1>0, <2>3, <2>5 DEF SaldaReady, SaldaExit, SaldaLargo, Uno, Despachando,
           Cerrando
    <2> QED BY <1>0, <2>1, <2>2, <2>4, <2>6, <2>7, <2>8, ConteosTras DEF Salda
<1>4. CASE AtenderCierre(k)
    <2>1. tomado[k] \in Carpinchos
        BY <1>0, <1>4 DEF AtenderCierre, Recibe, Pide, EnCon, En, ConPCB
    <2>2. En(k, "atender") /\ Ir(k, "registrarExit") /\ fallo' = "no"
        BY <1>4 DEF AtenderCierre, Recibe, EnCon, En
    <2>3. TipoSem' /\ sem' = sem
        BY <1>0, <1>4 DEF AtenderCierre, Recibe, EnCon, TipoSem
    <2>4. UNCHANGED <<Respuestas, Avisos, sem["ready"], sem["exit"]>>
        BY <2>3 DEF Respuestas, Avisos
    <2>5. /\ (cola \in TipoCola)'
          /\ Len(cola'["exit"]) = Len(cola["exit"]) + 1
          /\ \A r \in Colas \ {"exec", "exit"} : cola'[r] = cola[r]
        <3>1. cola' = Mover(tomado[k], "exec", "exit")
            BY <1>4 DEF AtenderCierre, Recibe, EnCon
        <3> QED BY <1>0, <3>1, <2>1, TrasMover DEF Colas
    <2>6. /\ Tam("exit")' = Tam("exit") + 1
          /\ UNCHANGED <<Tam("new"), Tam("susready"), Tam("ready")>>
        BY <2>5 DEF Tam, Colas
    <2>7. SaldaApreton(k, "atender", "registrarExit")
        BY <1>0, <2>4 DEF SaldaApreton, Uno, Esperas, Evaluando
    <2>8. SaldaAdmision("atender", "registrarExit")
        BY <1>0, <2>4, <2>6 DEF SaldaAdmision, Uno, Admitiendo
    <2>9. /\ SaldaReady("atender", "registrarExit") /\ SaldaExit("atender", "registrarExit")
          /\ SaldaLargo(k, "registrarExit")
        BY <1>0, <2>4, <2>6 DEF SaldaReady, SaldaExit, SaldaLargo, Uno, Despachando,
           Cerrando
    <2> QED BY <1>0, <2>2, <2>3, <2>5, <2>7, <2>8, <2>9, ConteosTras DEF Salda
<1>5. ASSUME NEW d \in Configurados, AtenderCallIO(k, d)
      PROVE  Conteos'
    <2>1. tomado[k] \in Carpinchos
        BY <1>0, <1>5 DEF AtenderCallIO, Recibe, Pide, EnCon, En, ConPCB
    <2>2. En(k, "atender") /\ Ir(k, "encolarIO") /\ fallo' = "no"
        BY <1>5 DEF AtenderCallIO, Pide, Recibe, EnCon, En
    <2>3. TipoSem' /\ sem' = sem
        BY <1>0, <1>5 DEF AtenderCallIO, Pide, Recibe, EnCon, TipoSem
    <2>4. /\ UNCHANGED <<Respuestas, Avisos, sem["ready"], sem["exit"]>>
        BY <2>3 DEF Respuestas, Avisos
    <2>5. /\ (cola \in TipoCola)'
          /\ Len(cola'["blocked"]) = Len(cola["blocked"]) + 1
          /\ \A r \in Colas \ {"exec", "blocked"} : cola'[r] = cola[r]
        <3>1. cola' = Mover(tomado[k], "exec", "blocked")
            BY <1>5 DEF AtenderCallIO, Pide, Recibe, EnCon
        <3> QED BY <1>0, <3>1, <2>1, TrasMover DEF Colas
    <2>6. /\ UNCHANGED <<Tam("new"), Tam("susready"), Tam("ready"), Tam("exit")>>
        BY <2>5 DEF Tam, Colas
    <2>7. SaldaApreton(k, "atender", "encolarIO")
        BY <1>0, <2>4 DEF SaldaApreton, Uno, Esperas, Evaluando
    <2>8. SaldaAdmision("atender", "encolarIO")
        BY <1>0, <2>4, <2>6 DEF SaldaAdmision, Uno, Admitiendo
    <2>9. SaldaReady("atender", "encolarIO") /\ SaldaExit("atender", "encolarIO") /\ SaldaLargo(k, "encolarIO")
        BY <1>0, <2>4, <2>6 DEF SaldaReady, SaldaExit, SaldaLargo, Uno, Despachando,
           Cerrando
    <2> QED BY <1>0, <2>2, <2>3, <2>5, <2>7, <2>8, <2>9, ConteosTras DEF Salda
<1>6. CASE EncolarEnDispositivo(k)
    <2>1. En(k, "encolarIO") /\ Ir(k, "espIO") /\ fallo' = "no"
        BY <1>6 DEF EncolarEnDispositivo, EnCon, En
    <2>2. /\ TipoSem'
          /\ sem'["despertar"] = sem["despertar"] + 1
          /\ \A u \in Contadores \ {"despertar"} : sem'[u] = sem[u]
        BY <1>0, <1>6, TrasPost DEF EncolarEnDispositivo, EnCon, Contadores
    <2>3. /\ Respuestas' = Respuestas + 1
          /\ UNCHANGED <<Avisos, sem["ready"], sem["exit"]>>
        BY <1>0, <2>2 DEF Respuestas, Avisos, Contadores, TipoSem
    <2>4. (cola \in TipoCola)' /\ cola' = cola
        BY <1>0, <1>6 DEF EncolarEnDispositivo, EnCon
    <2>5. /\ UNCHANGED <<Tam("new"), Tam("susready"), Tam("ready"), Tam("exit")>>
        BY <2>4 DEF Tam
    <2>6. SaldaApreton(k, "encolarIO", "espIO")
        BY <1>0, <2>3 DEF SaldaApreton, Uno, Esperas, Evaluando
    <2>7. SaldaAdmision("encolarIO", "espIO")
        BY <1>0, <2>3, <2>5 DEF SaldaAdmision, Uno, Admitiendo
    <2>8. SaldaReady("encolarIO", "espIO") /\ SaldaExit("encolarIO", "espIO") /\ SaldaLargo(k, "espIO")
        BY <1>0, <2>3, <2>5 DEF SaldaReady, SaldaExit, SaldaLargo, Uno, Despachando,
           Cerrando
    <2> QED BY <1>0, <2>1, <2>2, <2>4, <2>6, <2>7, <2>8, ConteosTras DEF Salda
<1>7. CASE AvisarDispositivo(k)
    <2>1. En(k, "espIO") /\ Ir(k, "estimar") /\ fallo' = "no"
        BY <1>7 DEF AvisarDispositivo, En
    <2>2. /\ TipoSem'
          /\ sem'["concluida"] + 1 = sem["concluida"]
          /\ \A u \in Contadores \ {"concluida"} : sem'[u] = sem[u]
        BY <1>0, <1>7, TrasWait DEF AvisarDispositivo, Contadores
    <2>3. /\ Respuestas' = Respuestas - 1
          /\ UNCHANGED <<Avisos, sem["ready"], sem["exit"]>>
        BY <1>0, <2>2 DEF Respuestas, Avisos, Contadores, TipoSem
    <2>4. (cola \in TipoCola)' /\ cola' = cola
        BY <1>0, <1>7 DEF AvisarDispositivo
    <2>5. /\ UNCHANGED <<Tam("new"), Tam("susready"), Tam("ready"), Tam("exit")>>
        BY <2>4 DEF Tam
    <2>6. SaldaApreton(k, "espIO", "estimar")
        BY <1>0, <2>3 DEF SaldaApreton, Uno, Esperas, Evaluando
    <2>7. SaldaAdmision("espIO", "estimar")
        BY <1>0, <2>3, <2>5 DEF SaldaAdmision, Uno, Admitiendo
    <2>8. SaldaReady("espIO", "estimar") /\ SaldaExit("espIO", "estimar") /\ SaldaLargo(k, "estimar")
        BY <1>0, <2>3, <2>5 DEF SaldaReady, SaldaExit, SaldaLargo, Uno, Despachando,
           Cerrando
    <2> QED BY <1>0, <2>1, <2>2, <2>4, <2>6, <2>7, <2>8, ConteosTras DEF Salda
<1>8. CASE AtenderIODesconocida(k)
    BY <1>0, <1>8, ConteosIr DEF AtenderIODesconocida, Pide, Recibe, EnCon, Esperas, Admitiendo, Despachando,
       Cerrando, Evaluando
<1>9. CASE Estimar(k)
    BY <1>0, <1>9, ConteosIr DEF Estimar, EnCon, Esperas, Admitiendo, Despachando,
       Cerrando, Evaluando
<1>11. CASE RegistrarExit(k)
    <2>1. En(k, "registrarExit") /\ Ir(k, "ready") /\ fallo' = "no"
        BY <1>11 DEF RegistrarExit, En
    <2>2. /\ TipoSem'
          /\ sem'["exit"] = sem["exit"] + 1
          /\ \A u \in Contadores \ {"exit"} : sem'[u] = sem[u]
        BY <1>0, <1>11, TrasPost DEF RegistrarExit, Contadores
    <2>3. /\ sem'["exit"] = sem["exit"] + 1
          /\ UNCHANGED <<Respuestas, Avisos, sem["ready"]>>
        BY <1>0, <2>2 DEF Respuestas, Avisos, Contadores, TipoSem
    <2>4. (cola \in TipoCola)' /\ cola' = cola
        BY <1>0, <1>11 DEF RegistrarExit
    <2>5. UNCHANGED <<Tam("new"), Tam("susready"), Tam("ready"), Tam("exit")>>
        BY <2>4 DEF Tam
    <2>6. SaldaApreton(k, "registrarExit", "ready")
        BY <1>0, <2>3 DEF SaldaApreton, Uno, Esperas, Evaluando
    <2>7. SaldaAdmision("registrarExit", "ready")
        BY <1>0, <2>3, <2>5 DEF SaldaAdmision, Uno, Admitiendo
    <2>8. SaldaReady("registrarExit", "ready") /\ SaldaExit("registrarExit", "ready") /\ SaldaLargo(k, "ready")
        BY <1>0, <2>3, <2>5 DEF SaldaReady, SaldaExit, SaldaLargo, Uno, Despachando,
           Cerrando
    <2> QED BY <1>0, <2>1, <2>2, <2>4, <2>6, <2>7, <2>8, ConteosTras DEF Salda
<1> QED BY <1>1, <1>2, <1>3, <1>4, <1>5, <1>6, <1>7, <1>8, <1>9, <1>11 DEF CPU

\* The thread of a device keeps the sums, whatever status it reads.
LEMMA ConteosDispositivo ==
    ASSUME IInv, Tipos', NEW d \in Dispositivos, Dispositivo(d)
    PROVE  Conteos'
<1> USE DEF io, clientes, fin
<1>0. /\ cola \in TipoCola /\ TipoSem
      /\ Tam("new") \in Nat /\ Tam("susready") \in Nat
      /\ Tam("ready") \in Nat /\ Tam("exit") \in Nat
      /\ Respuestas \in Nat /\ Avisos \in Nat
      /\ \A s \in Contadores : sem[s] \in Nat
      /\ sem["ready"] \in Nat /\ sem["exit"] \in Nat
      /\ d \in Hilos /\ d # "largo" /\ d # "mediano"
      /\ pc[d] \in ConPCB => tomado[d] \in Carpinchos
    BY LosHilos, Naturales DEF IInv, Tipos, TipoSem, Planificadores,
       TipoHilos, Manos
<1>1. CASE TomarIO(d)
    <2>1. colaIO[d] # <<>>
        <3>1. Len(colaIO[d]) = ioInst[d] + Cardinality(EnAviso(d))
            BY <1>1 DEF TomarIO, En, IInv, CuentaIO, EnAviso
        <3>2. ioInst[d] \in Nat /\ ioInst[d] > 0
            BY <1>1 DEF TomarIO, IInv, Tipos, TipoIO
        <3>3. Cardinality(EnAviso(d)) \in Nat
            BY AvisoFinito
        <3>4. Len(colaIO[d]) # 0
            BY <3>1, <3>2, <3>3
        <3> QED BY <3>4, EmptySeq
    <2>2. En(d, "io") /\ Ir(d, "verSusBlocked") /\ UNCHANGED <<cola, sem, fallo>>
        BY <1>1, <2>1 DEF TomarIO
    <2> QED BY <1>0, <2>2, ConteosIr DEF Esperas, Admitiendo, Despachando,
       Cerrando, Evaluando
<1>2. CASE VerSusBlocked(d)
    BY <1>0, <1>2, ConteosIr DEF VerSusBlocked, EnCon, Esperas, Admitiendo, Despachando,
       Cerrando, Evaluando
<1>3. CASE VerSiBlocked(d)
    BY <1>0, <1>3, ConteosIr DEF VerSiBlocked, EnCon, Esperas, Admitiendo, Despachando,
       Cerrando, Evaluando
<1>4. CASE PasarASusReady(d)
    <2>1. tomado[d] \in Carpinchos
        BY <1>0, <1>4 DEF PasarASusReady, EnCon, En, ConPCB
    <2>2. En(d, "aSusReady") /\ Ir(d, "registrarIO") /\ fallo' = "no"
        BY <1>4 DEF PasarASusReady, EnCon, En
    <2>3. /\ TipoSem'
          /\ sem'["hay"] = sem["hay"] + 1
          /\ \A u \in Contadores \ {"hay"} : sem'[u] = sem[u]
        BY <1>0, <1>4, TrasPost DEF PasarASusReady, EnCon, Contadores
    <2>4. /\ Avisos' = Avisos + 1
          /\ UNCHANGED <<Respuestas, sem["ready"], sem["exit"]>>
        BY <1>0, <2>3 DEF Respuestas, Avisos, Contadores, TipoSem
    <2>5. /\ (cola \in TipoCola)'
          /\ Len(cola'["susready"]) = Len(cola["susready"]) + 1
          /\ \A r \in Colas \ {"susblocked", "susready"} : cola'[r] = cola[r]
        <3>1. cola' = Mover(tomado[d], "susblocked", "susready")
            BY <1>4 DEF PasarASusReady, EnCon
        <3> QED BY <1>0, <3>1, <2>1, TrasMover DEF Colas
    <2>6. /\ Tam("susready")' = Tam("susready") + 1
          /\ UNCHANGED <<Tam("new"), Tam("ready"), Tam("exit")>>
        BY <2>5 DEF Tam, Colas
    <2>7. SaldaApreton(d, "aSusReady", "registrarIO")
        BY <1>0, <2>4 DEF SaldaApreton, Uno, Esperas, Evaluando
    <2>8. SaldaAdmision("aSusReady", "registrarIO")
        BY <1>0, <2>4, <2>6 DEF SaldaAdmision, Uno, Admitiendo
    <2>9. /\ SaldaReady("aSusReady", "registrarIO") /\ SaldaExit("aSusReady", "registrarIO")
          /\ SaldaLargo(d, "registrarIO")
        BY <1>0, <2>4, <2>6 DEF SaldaReady, SaldaExit, SaldaLargo, Uno, Despachando,
           Cerrando
    <2> QED BY <1>0, <2>2, <2>3, <2>5, <2>7, <2>8, <2>9, ConteosTras DEF Salda
<1>5. CASE SacarDeBlocked(d)
    <2>1. En(d, "sacarBlocked") /\ Ir(d, "aReady") /\ fallo' = "no"
        BY <1>5 DEF SacarDeBlocked, EnCon, En
    <2>2. TipoSem' /\ sem' = sem
        BY <1>0, <1>5 DEF SacarDeBlocked, EnCon, TipoSem
    <2>3. /\ UNCHANGED <<Respuestas, Avisos, sem["ready"], sem["exit"]>>
        BY <2>2 DEF Respuestas, Avisos
    <2>4. /\ (cola \in TipoCola)'
          /\ \A r \in Colas \ {"blocked"} : cola'[r] = cola[r]
        BY <1>0, <1>5 DEF SacarDeBlocked, Tipos, TipoCola
    <2>5. /\ UNCHANGED <<Tam("new"), Tam("susready"), Tam("ready"), Tam("exit")>>
        BY <2>4 DEF Tam, Colas
    <2>6. SaldaApreton(d, "sacarBlocked", "aReady")
        BY <1>0, <2>3 DEF SaldaApreton, Uno, Esperas, Evaluando
    <2>7. SaldaAdmision("sacarBlocked", "aReady")
        BY <1>0, <2>3, <2>5 DEF SaldaAdmision, Uno, Admitiendo
    <2>8. SaldaReady("sacarBlocked", "aReady") /\ SaldaExit("sacarBlocked", "aReady") /\ SaldaLargo(d, "aReady")
        BY <1>0, <2>3, <2>5 DEF SaldaReady, SaldaExit, SaldaLargo, Uno, Despachando,
           Cerrando
    <2> QED BY <1>0, <2>1, <2>2, <2>4, <2>6, <2>7, <2>8, ConteosTras DEF Salda
<1>6. CASE DesbloquearAReady(d)
    BY <1>0, <1>6, ConteosDesbloquear DEF DesbloquearAReady
<1>7. CASE RegistrarIO(d)
    BY <1>0, <1>7, ConteosIr DEF RegistrarIO, Esperas, Admitiendo, Despachando, Cerrando,
       Evaluando
<1> QED BY <1>1, <1>2, <1>3, <1>4, <1>5, <1>6, <1>7 DEF Dispositivo
-----------------------------------------------------------------------------
(* CuentaIO.                                                               *)

\* A step that leaves the devices' queues and semaphores alone and every CPU
\* that is, or is not, between the two.
LEMMA IOIgual ==
    ASSUME CuentaIO, UNCHANGED <<ioInst, colaIO>>, fallo = "no",
           \A k \in CPUs, d \in Dispositivos :
             (pc'[k] = "espIO" /\ recurso'[k] = d) <=> (pc[k] = "espIO" /\ recurso[k] = d)
    PROVE  CuentaIO'
<1> SUFFICES ASSUME NEW d \in Dispositivos
             PROVE  (fallo = "no" =>
                       Len(colaIO[d]) = ioInst[d]
                         + Cardinality({k \in CPUs : pc[k] = "espIO" /\ recurso[k] = d}))'
    BY DEF CuentaIO
<1>1. {k \in CPUs : pc'[k] = "espIO" /\ recurso'[k] = d}
        = {k \in CPUs : pc[k] = "espIO" /\ recurso[k] = d}
    OBVIOUS
<1> QED BY <1>1 DEF CuentaIO

\* The same, for thread t, from label a to label e.
LEMMA IOIr ==
    ASSUME Tipos, CuentaIO, NEW t \in Hilos, NEW a, NEW e, En(t, a), Ir(t, e),
           a # "espIO", e # "espIO", \A k \in CPUs \ {t} : recurso'[k] = recurso[k],
           UNCHANGED <<ioInst, colaIO>>
    PROVE  CuentaIO'
<1>1. pc' = [pc EXCEPT ![t] = e] /\ pc[t] = a /\ pc \in [Hilos -> Etiquetas \cup EtiquetasSem]
    BY DEF Tipos, TipoHilos, En, Ir
<1>2. pc'[t] # "espIO" /\ pc[t] # "espIO"
    BY <1>1
<1>3. \A k \in CPUs \ {t} : pc'[k] = pc[k]
    BY <1>1, LosHilos
<1> QED BY <1>2, <1>3, IOIgual DEF En

\* The kernel has ended, or the labels and the devices are as they were.
LEMMA IOCaer ==
    ASSUME CuentaIO, fallo' # "no"
    PROVE  CuentaIO'
BY DEF CuentaIO

\* The CPUs about to tell device d when at most one, k, changes.
LEMMA IOMovido ==
    ASSUME NEW d, NEW k \in CPUs, pc' \in [Hilos -> Etiquetas \cup EtiquetasSem],
           \A h \in CPUs \ {k} : h \in EnAviso(d)' <=> h \in EnAviso(d)
    PROVE  /\ k \in EnAviso(d)' /\ k \notin EnAviso(d) =>
                Cardinality(EnAviso(d)') = Cardinality(EnAviso(d)) + 1
           /\ k \in EnAviso(d) /\ k \notin EnAviso(d)' =>
                Cardinality(EnAviso(d)') = Cardinality(EnAviso(d)) - 1
           /\ (k \in EnAviso(d) <=> k \in EnAviso(d)') =>
                Cardinality(EnAviso(d)') = Cardinality(EnAviso(d))
<1>1. EnAviso(d) \subseteq CPUs /\ EnAviso(d)' \subseteq CPUs
    BY DEF EnAviso
<1>2. IsFiniteSet(EnAviso(d))
    BY AvisoFinito
<1>3. ASSUME k \in EnAviso(d)', k \notin EnAviso(d)
      PROVE  Cardinality(EnAviso(d)') = Cardinality(EnAviso(d)) + 1
    <2>1. EnAviso(d)' = EnAviso(d) \cup {k}
        BY <1>1, <1>3
    <2> QED BY <1>2, <1>3, <2>1, FS_AddElement
<1>4. ASSUME k \in EnAviso(d), k \notin EnAviso(d)'
      PROVE  Cardinality(EnAviso(d)') = Cardinality(EnAviso(d)) - 1
    <2>1. EnAviso(d)' = EnAviso(d) \ {k}
        BY <1>1, <1>4
    <2> QED BY <1>2, <1>4, <2>1, FS_RemoveElement
<1>5. ASSUME k \in EnAviso(d) <=> k \in EnAviso(d)'
      PROVE  Cardinality(EnAviso(d)') = Cardinality(EnAviso(d))
    <2>1. EnAviso(d)' = EnAviso(d)
        BY <1>1, <1>5
    <2> QED BY <2>1
<1> QED BY <1>3, <1>4, <1>5

\* A CPU puts a PCB in a device's queue.
LEMMA IOEncolar ==
    ASSUME Tipos, CuentaIO, NEW k \in CPUs, EncolarEnDispositivo(k)
    PROVE  CuentaIO'
<1>1. /\ fallo = "no" /\ pc[k] = "encolarIO" /\ pc' = [pc EXCEPT ![k] = "espIO"]
      /\ colaIO' = [colaIO EXCEPT ![recurso[k]] = Append(@, tomado[k])]
      /\ UNCHANGED <<ioInst, recurso>>
    BY DEF EncolarEnDispositivo, EnCon, En, Ir
<1>2. /\ k \in Hilos /\ CPUs \subseteq Hilos /\ pc \in [Hilos -> Etiquetas \cup EtiquetasSem]
      /\ tomado[k] \in Carpinchos /\ recurso[k] \in Dispositivos \cup {Nadie}
      /\ colaIO \in [Dispositivos -> Seq(Carpinchos)] /\ ioInst \in [Dispositivos -> Nat]
    BY <1>1, LosHilos DEF Tipos, TipoHilos, TipoIO, Manos, ConPCB
<1> SUFFICES ASSUME NEW d \in Dispositivos
             PROVE  Len(colaIO'[d]) = ioInst'[d] + Cardinality(EnAviso(d)')
    BY DEF CuentaIO, EnAviso
<1>3. Len(colaIO[d]) = ioInst[d] + Cardinality(EnAviso(d))
    BY <1>1 DEF CuentaIO, EnAviso
<1>4. /\ \A h \in CPUs \ {k} : h \in EnAviso(d)' <=> h \in EnAviso(d)
      /\ k \notin EnAviso(d) /\ (k \in EnAviso(d)' <=> recurso[k] = d)
    BY <1>1, <1>2 DEF EnAviso
<1>5. pc' \in [Hilos -> Etiquetas \cup EtiquetasSem]
    BY <1>1, <1>2 DEF Etiquetas
<1>6. Cardinality(EnAviso(d)) \in Nat /\ ioInst[d] \in Nat /\ ioInst'[d] = ioInst[d]
    BY <1>1, <1>2, AvisoFinito
<1>7. CASE recurso[k] = d
    <2>1. Cardinality(EnAviso(d)') = Cardinality(EnAviso(d)) + 1
        BY <1>4, <1>5, <1>7, IOMovido
    <2>2. colaIO'[d] = Append(colaIO[d], tomado[k])
        BY <1>1, <1>2, <1>7
    <2>3. Len(colaIO'[d]) = Len(colaIO[d]) + 1
        BY <1>2, <2>2, AppendProperties
    <2> QED BY <1>3, <1>6, <2>1, <2>3
<1>8. CASE recurso[k] # d
    <2>1. Cardinality(EnAviso(d)') = Cardinality(EnAviso(d))
        BY <1>4, <1>5, <1>8, IOMovido
    <2>2. colaIO'[d] = colaIO[d]
        BY <1>1, <1>2, <1>8
    <2> QED BY <1>3, <1>6, <2>1, <2>2
<1> QED BY <1>7, <1>8

\* The CPU tells the device, after the answer of the medium-term scheduler.
LEMMA IOAvisar ==
    ASSUME Tipos, CuentaIO, NEW k \in CPUs, AvisarDispositivo(k)
    PROVE  CuentaIO'
<1>1. /\ fallo = "no" /\ pc[k] = "espIO" /\ pc' = [pc EXCEPT ![k] = "estimar"]
      /\ ioInst' = [ioInst EXCEPT ![recurso[k]] = @ + 1]
      /\ recurso' = [recurso EXCEPT ![k] = Nadie]
      /\ UNCHANGED colaIO
    BY DEF AvisarDispositivo, En, Ir
<1>2. /\ k \in Hilos /\ CPUs \subseteq Hilos /\ pc \in [Hilos -> Etiquetas \cup EtiquetasSem]
      /\ recurso \in [CPUs -> Dispositivos \cup {Nadie}]
      /\ colaIO \in [Dispositivos -> Seq(Carpinchos)] /\ ioInst \in [Dispositivos -> Nat]
    BY <1>1, LosHilos DEF Tipos, TipoHilos, TipoIO
<1> SUFFICES ASSUME NEW d \in Dispositivos
             PROVE  Len(colaIO'[d]) = ioInst'[d] + Cardinality(EnAviso(d)')
    BY DEF CuentaIO, EnAviso
<1>3. Len(colaIO[d]) = ioInst[d] + Cardinality(EnAviso(d))
    BY <1>1 DEF CuentaIO, EnAviso
<1>4. /\ \A h \in CPUs \ {k} : h \in EnAviso(d)' <=> h \in EnAviso(d)
      /\ k \notin EnAviso(d)' /\ (k \in EnAviso(d) <=> recurso[k] = d)
    BY <1>1, <1>2 DEF EnAviso
<1>5. pc' \in [Hilos -> Etiquetas \cup EtiquetasSem]
    BY <1>1, <1>2 DEF Etiquetas
<1>6. Cardinality(EnAviso(d)) \in Nat /\ ioInst[d] \in Nat /\ colaIO'[d] = colaIO[d]
    BY <1>1, <1>2, AvisoFinito
<1>7. CASE recurso[k] = d
    <2>1. Cardinality(EnAviso(d)') = Cardinality(EnAviso(d)) - 1
        BY <1>4, <1>5, <1>7, IOMovido
    <2>2. ioInst'[d] = ioInst[d] + 1
        BY <1>1, <1>2, <1>7
    <2> QED BY <1>3, <1>6, <2>1, <2>2
<1>8. CASE recurso[k] # d
    <2>1. Cardinality(EnAviso(d)') = Cardinality(EnAviso(d))
        BY <1>4, <1>5, <1>8, IOMovido
    <2>2. ioInst'[d] = ioInst[d]
        BY <1>1, <1>2, <1>8
    <2> QED BY <1>3, <1>6, <2>1, <2>2
<1> QED BY <1>7, <1>8

\* The device takes the PCB it was told of.
LEMMA IOTomar ==
    ASSUME Tipos, CuentaIO, NEW d \in Dispositivos, TomarIO(d)
    PROVE  CuentaIO'
<1>1. CASE colaIO[d] = <<>>
    BY <1>1, IOCaer DEF TomarIO, Caer
<1>2. CASE colaIO[d] # <<>>
    <2>1. /\ fallo = "no" /\ pc' = [pc EXCEPT ![d] = "verSusBlocked"]
          /\ ioInst[d] > 0 /\ ioInst' = [ioInst EXCEPT ![d] = @ - 1]
          /\ colaIO' = [colaIO EXCEPT ![d] = Tail(@)]
          /\ UNCHANGED recurso
        BY <1>2 DEF TomarIO, En, Ir
    <2>2. /\ \A k \in CPUs : k \in Hilos /\ k # d
          /\ pc \in [Hilos -> Etiquetas \cup EtiquetasSem]
          /\ colaIO \in [Dispositivos -> Seq(Carpinchos)] /\ ioInst \in [Dispositivos -> Nat]
        BY ConstantesOK, LosHilos DEF ConstantesOK, Tipos, TipoHilos, TipoIO
    <2> SUFFICES ASSUME NEW x \in Dispositivos
                 PROVE  Len(colaIO'[x]) = ioInst'[x] + Cardinality(EnAviso(x)')
        BY DEF CuentaIO, EnAviso
    <2>3. Len(colaIO[x]) = ioInst[x] + Cardinality(EnAviso(x))
        BY <2>1 DEF CuentaIO, EnAviso
    <2>4. EnAviso(x)' = EnAviso(x)
        BY <2>1, <2>2 DEF EnAviso
    <2>5. Cardinality(EnAviso(x)) \in Nat /\ ioInst[x] \in Nat
        BY <2>2, AvisoFinito
    <2>6. CASE x = d
        <3>1. colaIO'[x] = Tail(colaIO[x]) /\ ioInst'[x] = ioInst[x] - 1
            BY <2>1, <2>2, <2>6
        <3>2. Len(Tail(colaIO[x])) = Len(colaIO[x]) - 1
            BY <1>2, <2>2, <2>6, HeadTailProperties
        <3> QED BY <2>3, <2>4, <2>5, <3>1, <3>2
    <2>7. CASE x # d
        BY <2>1, <2>2, <2>3, <2>4, <2>7
    <2> QED BY <2>6, <2>7
<1> QED BY <1>1, <1>2

\* Every step keeps CuentaIO.
LEMMA IONext ==
    ASSUME Tipos, CuentaIO, Next
    PROVE  CuentaIO'
<1> USE LosHilos DEF io, clientes, fin
<1>1. ASSUME NEW c \in Carpinchos, Alta(c) PROVE CuentaIO'
    BY <1>1, IOIr DEF Alta, AltaEnNew, RegistrarAlta, ConcluirAlta
<1>2. ASSUME NEW t \in Hilos, NEW v \in {"hay", "transicionar", "registrarReady", "registrarIO"},
             PasarAReady(t, v) \/ RegistrarReady(t, v)
      PROVE  CuentaIO'
    BY <1>2, IOIr DEF PasarAReady, RegistrarReady, EnCon
<1>3. ASSUME NEW q \in Planificadores \cup {"indefinido", "registro", "corto", "io"}, Caer(q)
      PROVE  CuentaIO'
    BY <1>3, IOCaer DEF Caer, Planificadores
<1>4. CASE Largo
    <2>1. CASE SacarDeNew
        BY <1>3, <2>1, IOIr DEF SacarDeNew, Planificadores
    <2>2. CASE TomarCandidato \/ TomarGrado \/ DelegarEnSusReady \/ ElegirNew
        BY <2>2, IOIr DEF TomarCandidato, TomarGrado, DelegarEnSusReady, ElegirNew,
           Planificadores
    <2> QED BY <1>2, <1>4, <2>1, <2>2 DEF Largo, NewAReady, RegistrarAdmision,
           Planificadores
<1>5. CASE Liberador
    <2>1. CASE TomarExit
        BY <1>3, <2>1, IOIr DEF TomarExit, Planificadores
    <2>2. CASE Liberar
        BY <2>2, IOIr DEF Liberar, EnCon, Planificadores
    <2> QED BY <1>5, <2>1, <2>2 DEF Liberador
<1>6. CASE Mediano
    <2>1. CASE Despertar
        <3>1. CASE cola["ready"] = <<>>
            BY <2>1, <3>1, IOIr DEF Despertar, Planificadores
        <3>2. CASE cola["ready"] # <<>>
            BY <2>1, <3>2, IOIgual DEF Despertar, En
        <3> QED BY <3>1, <3>2
    <2>2. CASE VerNew \/ VerBlocked \/ VerGrado
        BY <2>2, IOIr DEF VerNew, VerBlocked, VerGrado, Evaluar, DejarDeEvaluar,
           Planificadores
    <2>3. CASE Suspender
        BY <1>3, <2>3, IOIr DEF Suspender, Planificadores
    <2>4. CASE RegistrarSuspension
        BY <2>4, IOIr DEF RegistrarSuspension, Planificadores
    <2> QED BY <1>6, <2>1, <2>2, <2>3, <2>4 DEF Mediano
<1>7. CASE SusReady
    <2>1. CASE TomarSusReady
        BY <1>3, <2>1, IOIr DEF TomarSusReady, Planificadores
    <2> QED BY <1>2, <1>7, <2>1 DEF SusReady, SusReadyAReady,
           RegistrarTransicion, Planificadores
<1>8. ASSUME NEW k \in CPUs, CPU(k) PROVE CuentaIO'
    <2>1. CASE Elegir(k)
        BY <1>3, <2>1, IOIr DEF Elegir
    <2>2. CASE Despachar(k) \/ EmpezarAtencion(k) \/ AtenderCierre(k)
               \/ RegistrarExit(k) \/ Estimar(k)
        BY <2>2, IOIr DEF Despachar, EmpezarAtencion, AtenderCierre, RegistrarExit, Estimar,
           Recibe, EnCon
    <2>3. ASSUME NEW d \in Configurados, AtenderCallIO(k, d)
          PROVE  CuentaIO'
        <3>1. \A h \in CPUs \ {k} : recurso'[h] = recurso[h]
            BY <2>3 DEF AtenderCallIO, Tipos, TipoIO
        <3> QED BY <2>3, <3>1, IOIr DEF AtenderCallIO, Pide, Recibe, EnCon
    <2>4. CASE AtenderIODesconocida(k)
        BY <2>4, IOIr DEF AtenderIODesconocida, Pide, Recibe, EnCon
    <2> QED BY <1>8, <2>1, <2>2, <2>3, <2>4, IOEncolar, IOAvisar DEF CPU
<1>9. ASSUME NEW d \in Dispositivos, Dispositivo(d) PROVE CuentaIO'
    <2>1. CASE VerSusBlocked(d) \/ VerSiBlocked(d)
        BY <2>1, IOIr DEF VerSusBlocked, VerSiBlocked, EnCon
    <2>2. CASE PasarASusReady(d) \/ SacarDeBlocked(d) \/ RegistrarIO(d)
        BY <2>2, IOIr DEF PasarASusReady, SacarDeBlocked, RegistrarIO, EnCon
    <2> QED BY <1>2, <1>9, <2>1, <2>2, IOTomar DEF Dispositivo, DesbloquearAReady
<1>10. ASSUME NEW t \in Hilos, UsarLiberado(t) PROVE CuentaIO'
    BY <1>3, <1>10 DEF UsarLiberado
<1> QED BY <1>1, <1>4, <1>5, <1>6, <1>7, <1>8, <1>9, <1>10 DEF Next
-----------------------------------------------------------------------------
(* The theorems.                                                           *)
\* The invariant holds when the kernel starts ...
LEMMA IInvInit == Init => IInv
<1> SUFFICES ASSUME Init PROVE IInv
    OBVIOUS
<1>1. Tipos
    BY TiposInit
<1>2. \A t \in Hilos : pc[t] \notin Esperas \cup Admitiendo \cup Despachando \cup Cerrando
    BY DEF Init, Hilos, Planificadores, Esperas, Admitiendo, Despachando, Cerrando
<1>3. /\ Cuantos(Esperas) = 0 /\ Cuantos(Admitiendo) = 0 /\ Cuantos(Despachando) = 0
      /\ Cuantos(Cerrando) = 0
    <2>1. /\ {t \in Hilos : pc[t] \in Esperas} = {}
          /\ {t \in Hilos : pc[t] \in Admitiendo} = {}
          /\ {t \in Hilos : pc[t] \in Despachando} = {}
          /\ {t \in Hilos : pc[t] \in Cerrando} = {}
        BY <1>2
    <2> QED BY <2>1, FS_EmptySet DEF Cuantos
<1>4. \A q \in Colas : Len(cola[q]) = 0
    BY EmptySeq DEF Init
<1>5. pc["mediano"] = "despertar" /\ pc["largo"] = "hay"
    BY ConstantesOK, LosHilos DEF Init, Planificadores, ConstantesOK
<1>6. /\ sem["hay"] = 0 /\ sem["transicionar"] = 0 /\ sem["despertar"] = 0
      /\ sem["concluida"] = 0 /\ sem["ready"] = 0 /\ sem["exit"] = 0
    BY DEF Init, Contadores
<1>7. Apreton
    BY <1>3, <1>5, <1>6 DEF Apreton, Uno, Evaluando
<1>8. CuentaAdmision
    <2>1. Len(cola["new"]) = 0 /\ Len(cola["susready"]) = 0
        BY <1>4 DEF Colas
    <2> QED BY <1>3, <1>6, <2>1 DEF CuentaAdmision, Admitiendo
<1>9. CuentaReady
    BY <1>3, <1>4, <1>6 DEF CuentaReady, Despachando, Colas
<1>10. CuentaExit
    BY <1>3, <1>4, <1>6 DEF CuentaExit, Cerrando, Colas
<1>11. LargoEnNew /\ FallaSoloSuspension
    BY <1>5 DEF LargoEnNew, FallaSoloSuspension, Init
<1>12. CuentaIO
    <2> SUFFICES ASSUME NEW d \in Dispositivos
                 PROVE  Len(colaIO[d]) = ioInst[d] + Cardinality(EnAviso(d))
        BY DEF CuentaIO, EnAviso
    <2>1. EnAviso(d) = {}
        BY ConstantesOK, LosHilos DEF EnAviso, Init, ConstantesOK
    <2>2. Cardinality(EnAviso(d)) = 0
        BY <2>1, FS_EmptySet
    <2> QED BY <2>2, EmptySeq DEF Init
<1> QED BY <1>1, <1>7, <1>8, <1>9, <1>10, <1>11, <1>12 DEF IInv, Conteos

\* ... and every step keeps it.
LEMMA IInvNext == IInv /\ [Next]_vars => IInv'
<1> SUFFICES ASSUME IInv, [Next]_vars PROVE IInv'
    OBVIOUS
<1>1. Tipos'
    BY TiposNext DEF IInv
<1>2. CASE Next
    <2>1. CuentaIO'
        BY <1>2, IONext DEF IInv
    <2>2. ASSUME NEW t \in Hilos, UsarLiberado(t) PROVE Conteos'
        BY <2>2, ConteosCaer DEF UsarLiberado, IInv
    <2>3. Conteos'
        BY <1>1, <1>2, <2>2, ConteosAlta, ConteosLargo, ConteosLiberador, ConteosMediano,
           ConteosSusReady, ConteosCPU, ConteosDispositivo DEF Next
    <2> QED BY <1>1, <2>1, <2>3 DEF IInv
<1>3. CASE UNCHANGED vars
    <2>1. UNCHANGED <<cola, sem, ioInst, colaIO, recurso, pc, fallo>>
        BY <1>3 DEF vars, io, fin
    <2>2. CuentaIO'
        BY <2>1 DEF IInv, CuentaIO
    <2>3. Conteos'
        BY <2>1 DEF IInv, Conteos, Apreton, CuentaAdmision, CuentaReady, CuentaExit,
           LargoEnNew, FallaSoloSuspension, Cuantos
    <2> QED BY <1>1, <2>2, <2>3 DEF IInv
<1> QED BY <1>2, <1>3

\* All the sums hold in every state of every execution.
THEOREM IInvSiempre == Spec => []IInv
<1>1. Init => IInv
    BY IInvInit
<1>2. IInv /\ [Next]_vars => IInv'
    BY IInvNext
<1> QED BY <1>1, <1>2, PTL DEF Spec

\* Every thread inside __evaluar_suspension is owed exactly one sem_post of
\* suspensionConcluida: the two semaphores, shared by all handlers and CPUs and
\* not tied to who asked, never lose an answer nor give one too many.
THEOREM ApretonSiempre == Spec => []Apreton
<1>1. IInv => Apreton
    BY DEF IInv, Conteos
<1> QED BY <1>1, IInvSiempre, PTL

\* hayPCBsParaAgregarAlSistema and transicionarSusReadyAReady announce each
\* PCB of NEW and SUSP/READY once.
THEOREM CuentaAdmisionSiempre == Spec => []CuentaAdmision
<1>1. IInv => CuentaAdmision
    BY DEF IInv, Conteos
<1> QED BY <1>1, IInvSiempre, PTL

\* A CPU woken by READY's semaphore always finds a PCB in READY, also when
\* others have chosen and not yet taken theirs.
THEOREM CuentaReadySiempre == Spec => []CuentaReady
<1>1. IInv => CuentaReady
    BY DEF IInv, Conteos
<1> QED BY <1>1, IInvSiempre, PTL

\* A device finds in its queue every PCB it is told of.
THEOREM CuentaIOSiempre == Spec => []CuentaIO
<1>1. IInv => CuentaIO
    BY DEF IInv
<1> QED BY <1>1, IInvSiempre, PTL

\* The thread that frees finished PCBs finds one per unit of its semaphore.
THEOREM CuentaExitSiempre == Spec => []CuentaExit
<1>1. IInv => CuentaExit
    BY DEF IInv, Conteos
<1> QED BY <1>1, IInvSiempre, PTL

\* Of the six places that take a PCB from a queue without looking for NULL,
\* the long-term scheduler, the freeing thread, the CPUs and the devices never
\* meet it.
THEOREM FallaSoloSuspensionSiempre == Spec => []FallaSoloSuspension
<1>1. IInv => FallaSoloSuspension
    BY DEF IInv, Conteos
<1> QED BY <1>1, IInvSiempre, PTL
=============================================================================
