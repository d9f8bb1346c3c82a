--------------------------- MODULE Planificacion ---------------------------
(***************************************************************************)
(* The threads of the kernel's scheduler, kernel/src/scheduler.c: one      *)
(* handler per connected carpincho, the long-term scheduler and the thread *)
(* that frees finished PCBs, the medium-term scheduler and the thread that *)
(* moves SUSP/READY to READY, GRADO_MULTIPROCESAMIENTO CPUs (short-term    *)
(* scheduler) and one thread per I/O device.  Kernel semaphores and the    *)
(* deadlock detector are added by the modules that extend this one.        *)
(*                                                                         *)
(* A step is one access to shared state that other threads may observe,    *)
(* together with the P of a POSIX semaphore right before it and the V and  *)
(* the updates of state the thread owns right after it.  Only the medium-  *)
(* term scheduler reads the value of a semaphore (gradoMultiprog), so P    *)
(* commutes to the right and V to the left of every other step; P of       *)
(* gradoMultiprog, which that read does observe, is a step of its own.     *)
(* PCBs are pointers in the code, and its lists are searched by pointer:   *)
(* here a PCB is its carpincho.  Only the detector compares PIDs.  The     *)
(* last use a thread makes of a PCB is often a log written after another   *)
(* thread may have taken it: that read is a step of its own.               *)
(***************************************************************************)
EXTENDS Integers, Sequences, FiniteSets, SequencesExt

CONSTANTS
    Carpinchos,      \* the clients that may connect
    CPUs,            \* the threads of __iniciar_corto_plazo
    Dispositivos,    \* the configured I/O devices
    Nombres,         \* the device names clients ask for
    GradoMultiprog,  \* GRADO_MULTIPROGRAMACION
    MaxPedidos,      \* bound: the requests of one carpincho before MATE_CLOSE
    Nadie            \* NULL

Planificadores == {"largo", "liberador", "mediano", "susready"}
Hilos == Carpinchos \cup CPUs \cup Dispositivos \cup Planificadores

ASSUME ConstantesOK ==
    /\ IsFiniteSet(Hilos)
    /\ Carpinchos \cap (CPUs \cup Dispositivos \cup Planificadores) = {}
    /\ CPUs \cap (Dispositivos \cup Planificadores) = {}
    /\ Dispositivos \cap Planificadores = {}
    /\ GradoMultiprog \in Nat
    /\ MaxPedidos \in Nat
    /\ Nadie \notin Carpinchos \cup Dispositivos

VARIABLES
    cola,           \* pcbsNew ... pcbsExit: the seven scheduling queues
    estado,         \* t_status of each PCB
    sem,            \* value of each POSIX semaphore that is not a device's
    ioInst,         \* instanciasDisponibles of each device
    colaIO,         \* colaPCBs of each device
    mutexDeadlock,  \* the thread that holds mutexDeadlock, or Nadie
    pc,             \* where each thread is
    tomado,         \* the PCB each thread has in hand, or Nadie
    recurso,        \* the device the CPU's current request names, or Nadie
    credito,        \* OK_CONTINUE messages sent to a client and not yet read
    pedidos,        \* requests each client has made, MATE_CLOSE aside
    cerrados,       \* clients that sent MATE_CLOSE and closed their socket
    liberados,      \* PCBs freed by pcb_algoritmo_destroy
    fallo           \* "no", or what ended the kernel: the thread that had a
                    \* NULL PCB, "indefinido" or "registro" (memory not valid)

io == <<ioInst, colaIO, recurso>>
clientes == <<credito, pedidos, cerrados>>
fin == <<liberados, fallo>>
vars == <<cola, estado, sem, io, mutexDeadlock, pc, tomado, clientes, fin>>

Colas == {"new", "ready", "exec", "blocked", "susready", "susblocked", "exit"}
Estados == {"NEW", "READY", "EXEC", "BLOCKED", "SUSREADY", "SUSBLOCKED", "EXIT"}
Contadores == {"grado", "hay", "transicionar", "despertar", "concluida",
               "ready", "exit"}
Etiquetas ==
    {"alta", "registrarAlta", "espAlta", "fin",
     "hay", "grado", "mirar", "sacar", "aReady", "registrarReady",
     "exit", "liberar", "transicionar",
     "despertar", "verNew", "verBlocked", "verGrado", "suspender", "registrarSuspension",
     "ready", "despachar", "espExec", "atender", "registrarExit",
     "encolarIO", "espIO", "estimar",
     "io", "verSusBlocked", "verSiBlocked", "aSusReady", "sacarBlocked", "registrarIO"}
\* The labels of a CPU inside a request about a kernel semaphore, whose steps
\* are those of Semaforos.
EtiquetasSem ==
    {"semCrear", "semWait", "semTomada", "semBloquear", "semEncolar", "espSem",
     "semPost", "semPop", "semDespertar", "semAReady", "semRetener",
     "semDestruir", "semQuitar", "semLiberar", "semLog"}

\* The labels of a thread inside __evaluar_suspension, at its sem_wait.
Esperas == {"espAlta", "espExec", "espIO", "espSem"}
\* The labels of the medium-term scheduler between its sem_wait and sem_post.
Evaluando == {"verNew", "verBlocked", "verGrado", "suspender", "registrarSuspension"}
\* The labels of a thread that logs a PCB which others may have taken by then.
Registrando == {"registrarAlta", "registrarReady", "registrarSuspension",
                "registrarExit", "registrarIO"}
-----------------------------------------------------------------------------
Init ==
    /\ cola = [q \in Colas |-> <<>>]
    /\ estado = [c \in Carpinchos |-> "NEW"]
    /\ sem = [s \in Contadores |-> IF s = "grado" THEN GradoMultiprog ELSE 0]
    /\ ioInst = [d \in Dispositivos |-> 0]
    /\ colaIO = [d \in Dispositivos |-> <<>>]
    /\ mutexDeadlock = Nadie
    /\ pc = [t \in Hilos |->
               CASE t \in Carpinchos -> "alta"
                 [] t \in CPUs -> "ready"
                 [] t \in Dispositivos -> "io"
                 [] t = "largo" -> "hay"
                 [] t = "liberador" -> "exit"
                 [] t = "mediano" -> "despertar"
                 [] t = "susready" -> "transicionar"]
    /\ tomado = [t \in Hilos |-> Nadie]
    /\ recurso = [k \in CPUs |-> Nadie]
    /\ credito = [c \in Carpinchos |-> 0]
    /\ pedidos = [c \in Carpinchos |-> 0]
    /\ cerrados = {}
    /\ liberados = {}
    /\ fallo = "no"
-----------------------------------------------------------------------------
\* Thread t is about to take the step labelled e; the process still runs.
En(t, e) == fallo = "no" /\ pc[t] = e
\* The same, for a step that reads or writes the PCB in hand.
EnCon(t, e) == En(t, e) /\ tomado[t] \notin liberados

Ir(t, e) == pc' = [pc EXCEPT ![t] = e]
Tomar(t, c) == tomado' = [tomado EXCEPT ![t] = c]
Soltar(t) == Tomar(t, Nadie)
Marcar(c, e) == estado' = [estado EXCEPT ![c] = e]

\* The POSIX semaphores: when sem_wait of s returns, and the value of sem after
\* sem_post or sem_wait of s.
Puede(s) == sem[s] > 0
Post(s) == [sem EXCEPT ![s] = @ + 1]
Wait(s) == [sem EXCEPT ![s] = @ - 1]

\* __enqueue_pcb and __dequeue_pcb: the queues with c moved; a PCB that is
\* not in its queue is logged as an error and the thread goes on.
Encolar(q, c) == [cola EXCEPT ![q] = Append(@, c)]
Mover(c, desde, hacia) ==
    [cola EXCEPT ![desde] = RemoveFirst(@, c), ![hacia] = Append(@, c)]
SinPrimero(q) == [cola EXCEPT ![q] = Tail(@)]

\* The thread dereferences NULL or a freed PCB: the kernel stops here.
Caer(quien) ==
    /\ fallo' = quien
    /\ UNCHANGED <<cola, estado, sem, io, mutexDeadlock, pc, tomado, clientes, liberados>>
-----------------------------------------------------------------------------
(* The handler of a connection: encolar_en_new_nuevo_carpincho_entrante.   *)
AltaEnNew(c) ==
    /\ En(c, "alta")
    /\ credito' = [credito EXCEPT ![c] = @ + 1]
    /\ cola' = Encolar("new", c)
    /\ Tomar(c, c)
    /\ Ir(c, "registrarAlta")
    /\ UNCHANGED <<estado, sem, io, mutexDeadlock, pedidos, cerrados, fin>>

RegistrarAlta(c) ==
    /\ En(c, "registrarAlta")
    /\ sem' = Post("despertar")
    /\ Soltar(c)
    /\ Ir(c, "espAlta")
    /\ UNCHANGED <<cola, estado, io, mutexDeadlock, clientes, fin>>

\* Mutant: the handler does not count the new PCB.
MutConcluirAlta(c) ==
    /\ En(c, "espAlta")
    /\ Puede("concluida")
    /\ sem' = Wait("concluida")
    /\ Ir(c, "fin")
    /\ UNCHANGED <<cola, estado, io, mutexDeadlock, tomado, clientes, fin>>

ConcluirAlta(c) ==
    /\ En(c, "espAlta")
    /\ Puede("concluida")
    /\ sem' = [Wait("concluida") EXCEPT !["hay"] = @ + 1]
    /\ Ir(c, "fin")
    /\ UNCHANGED <<cola, estado, io, mutexDeadlock, tomado, clientes, fin>>
-----------------------------------------------------------------------------
(* The long-term scheduler: __iniciar_largo_plazo.                         *)
TomarCandidato ==
    /\ En("largo", "hay")
    /\ Puede("hay")
    /\ sem' = Wait("hay")
    /\ Ir("largo", "grado")
    /\ UNCHANGED <<cola, estado, io, mutexDeadlock, tomado, clientes, fin>>

TomarGrado ==
    /\ En("largo", "grado")
    /\ Puede("grado")
    /\ sem' = Wait("grado")
    /\ Ir("largo", "mirar")
    /\ UNCHANGED <<cola, estado, io, mutexDeadlock, tomado, clientes, fin>>

\* Mutant: it also counts the PCB in READY, as the thread it wakes will do.
MutDelegarEnSusReady ==
    /\ En("largo", "mirar")
    /\ cola["susready"] # <<>>
    /\ sem' = [Post("transicionar") EXCEPT !["ready"] = @ + 1]
    /\ Ir("largo", "hay")
    /\ UNCHANGED <<cola, estado, io, mutexDeadlock, tomado, clientes, fin>>

\* SUSP/READY goes first; the list is read without its mutex and is emptied
\* by another thread.
DelegarEnSusReady ==
    /\ En("largo", "mirar")
    /\ cola["susready"] # <<>>
    /\ sem' = Post("transicionar")
    /\ Ir("largo", "hay")
    /\ UNCHANGED <<cola, estado, io, mutexDeadlock, tomado, clientes, fin>>

\* Mutant: it takes from NEW whatever SUSP/READY holds.
MutElegirNew ==
    /\ En("largo", "mirar")
    /\ Ir("largo", "sacar")
    /\ UNCHANGED <<cola, estado, sem, io, mutexDeadlock, tomado, clientes, fin>>

ElegirNew ==
    /\ En("largo", "mirar")
    /\ cola["susready"] = <<>>
    /\ Ir("largo", "sacar")
    /\ UNCHANGED <<cola, estado, sem, io, mutexDeadlock, tomado, clientes, fin>>

SacarDeNew ==
    /\ En("largo", "sacar")
    /\ IF cola["new"] = <<>>
       THEN Caer("largo")
       ELSE /\ Tomar("largo", Head(cola["new"]))
            /\ cola' = SinPrimero("new")
            /\ Ir("largo", "aReady")
            /\ UNCHANGED <<estado, sem, io, mutexDeadlock, clientes, fin>>

\* The PCB in hand becomes READY.
PasarAReady(t, sigue) ==
    /\ EnCon(t, "aReady")
    /\ Marcar(tomado[t], "READY")
    /\ cola' = Encolar("ready", tomado[t])
    /\ Ir(t, sigue)
    /\ UNCHANGED <<io, tomado, clientes, fin>>

\* At the end of an admission, and of SUSP/READY to READY, it is logged and
\* counted, and the thread goes back to its semaphore.
RegistrarReady(t, vuelta) ==
    /\ En(t, "registrarReady")
    /\ sem' = Post("ready")
    /\ Soltar(t)
    /\ Ir(t, vuelta)
    /\ UNCHANGED <<cola, estado, io, mutexDeadlock, clientes, fin>>

NewAReady == PasarAReady("largo", "registrarReady") /\ UNCHANGED <<sem, mutexDeadlock>>
RegistrarAdmision == RegistrarReady("largo", "hay")

(* Its second thread: __liberar_carpinchos_en_exit.                        *)
TomarExit ==
    /\ En("liberador", "exit")
    /\ Puede("exit")
    /\ IF cola["exit"] = <<>>
       THEN Caer("liberador")
       ELSE /\ sem' = Wait("exit")
            /\ Tomar("liberador", Head(cola["exit"]))
            /\ cola' = SinPrimero("exit")
            /\ Ir("liberador", "liberar")
            /\ UNCHANGED <<estado, io, mutexDeadlock, clientes, fin>>

\* Mutant: a carpincho that ends does not give its place back.
MutLiberar ==
    /\ EnCon("liberador", "liberar")
    /\ liberados' = liberados \cup {tomado["liberador"]}
    /\ Soltar("liberador")
    /\ Ir("liberador", "exit")
    /\ UNCHANGED <<cola, estado, sem, io, mutexDeadlock, clientes, fallo>>

Liberar ==
    /\ EnCon("liberador", "liberar")
    /\ liberados' = liberados \cup {tomado["liberador"]}
    /\ sem' = Post("grado")
    /\ Soltar("liberador")
    /\ Ir("liberador", "exit")
    /\ UNCHANGED <<cola, estado, io, mutexDeadlock, clientes, fallo>>
-----------------------------------------------------------------------------
(* The medium-term scheduler: __iniciar_mediano_plazo.  The four reads of  *)
(* __existe_caso_de_suspension are separate critical sections.             *)
\* Mutant: no answer when there is nothing to suspend.
MutDejarDeEvaluar == UNCHANGED sem /\ Ir("mediano", "despertar")

DejarDeEvaluar ==
    /\ sem' = Post("concluida")
    /\ Ir("mediano", "despertar")

Evaluar(e, condicion, sigue) ==
    /\ En("mediano", e)
    /\ \/ condicion /\ Ir("mediano", sigue) /\ UNCHANGED sem
       \/ ~condicion /\ DejarDeEvaluar
    /\ UNCHANGED <<cola, estado, io, mutexDeadlock, tomado, clientes, fin>>

\* Woken, it reads whether READY is empty.
Despertar ==
    /\ En("mediano", "despertar")
    /\ Puede("despertar")
    /\ IF cola["ready"] = <<>>
       THEN sem' = Wait("despertar") /\ Ir("mediano", "verNew")
       ELSE /\ sem' = [Wait("despertar") EXCEPT !["concluida"] = @ + 1]
            /\ UNCHANGED pc
    /\ UNCHANGED <<cola, estado, io, mutexDeadlock, tomado, clientes, fin>>

VerNew == Evaluar("verNew", cola["new"] # <<>>, "verBlocked")
VerBlocked == Evaluar("verBlocked", cola["blocked"] # <<>>, "verGrado")
VerGrado == Evaluar("verGrado", sem["grado"] = 0, "suspender")

\* Mutant: the PCB is read from BLOCKED (list_get) instead of removed.
MutSuspender ==
    /\ En("mediano", "suspender")
    /\ mutexDeadlock = Nadie
    /\ IF cola["blocked"] = <<>>
       THEN Caer("mediano")
       ELSE LET c == Last(cola["blocked"]) IN
            /\ Marcar(c, "SUSBLOCKED")
            /\ cola' = Encolar("susblocked", c)
            /\ Tomar("mediano", c)
            /\ Ir("mediano", "registrarSuspension")
            /\ UNCHANGED <<sem, io, mutexDeadlock, clientes, fin>>

\* The last PCB of BLOCKED is suspended, under mutexDeadlock.
Suspender ==
    /\ En("mediano", "suspender")
    /\ mutexDeadlock = Nadie
    /\ IF cola["blocked"] = <<>>
       THEN Caer("mediano")
       ELSE LET c == Last(cola["blocked"]) IN
            IF c \in liberados
            THEN Caer("indefinido")
            ELSE /\ Marcar(c, "SUSBLOCKED")
                 /\ cola' = [cola EXCEPT !["blocked"] = Front(@),
                                         !["susblocked"] = Append(@, c)]
                 /\ Tomar("mediano", c)
                 /\ Ir("mediano", "registrarSuspension")
                 /\ UNCHANGED <<sem, io, mutexDeadlock, clientes, fin>>

\* Its place is given back once it has been logged, without the mutex.
RegistrarSuspension ==
    /\ En("mediano", "registrarSuspension")
    /\ sem' = [Post("grado") EXCEPT !["concluida"] = @ + 1]
    /\ Soltar("mediano")
    /\ Ir("mediano", "despertar")
    /\ UNCHANGED <<cola, estado, io, mutexDeadlock, clientes, fin>>

(* Its second thread: __transicion_susready_a_ready.                       *)
TomarSusReady ==
    /\ En("susready", "transicionar")
    /\ Puede("transicionar")
    /\ IF cola["susready"] = <<>>
       THEN Caer("susready")
       ELSE /\ sem' = Wait("transicionar")
            /\ Tomar("susready", Head(cola["susready"]))
            /\ cola' = SinPrimero("susready")
            /\ Ir("susready", "aReady")
            /\ UNCHANGED <<estado, io, mutexDeadlock, clientes, fin>>

SusReadyAReady == PasarAReady("susready", "registrarReady") /\ UNCHANGED <<sem, mutexDeadlock>>
RegistrarTransicion == RegistrarReady("susready", "transicionar")
-----------------------------------------------------------------------------
(* A CPU: __iniciar_corto_plazo and __atender_peticiones_del_carpincho.    *)
\* The choice of SJF or HRRN depends on times measured by the wall clock: any
\* PCB of READY may be the one.  It stays in READY until Despachar.
Elegir(k) ==
    /\ En(k, "ready")
    /\ Puede("ready")
    /\ \/ /\ cola["ready"] = <<>>
          /\ Caer("corto")
       \/ \E c \in ToSet(cola["ready"]) :
            /\ sem' = Wait("ready")
            /\ Tomar(k, c)
            /\ Ir(k, "despachar")
            /\ UNCHANGED <<cola, estado, io, mutexDeadlock, clientes, fin>>

Despachar(k) ==
    /\ EnCon(k, "despachar")
    /\ Marcar(tomado[k], "EXEC")
    /\ cola' = Mover(tomado[k], "ready", "exec")
    /\ sem' = Post("despertar")
    /\ Ir(k, "espExec")
    /\ UNCHANGED <<io, mutexDeadlock, tomado, clientes, fin>>

\* The OK_CONTINUE that lets the client send its next request, on the socket
\* that the PCB keeps.
EmpezarAtencion(k) ==
    /\ EnCon(k, "espExec")
    /\ Puede("concluida")
    /\ sem' = Wait("concluida")
    /\ credito' = [credito EXCEPT ![tomado[k]] = @ + 1]
    /\ Ir(k, "atender")
    /\ UNCHANGED <<cola, estado, io, mutexDeadlock, tomado, pedidos, cerrados, fin>>

\* A request of the client of tomado[k] arrives: the client has read the
\* answer to the one before and the OK_CONTINUE that follows it.
Recibe(k) ==
    /\ EnCon(k, "atender")
    /\ tomado[k] \notin cerrados
    /\ credito[tomado[k]] >= 2

\* Mutant: the semaphore of EXIT is posted here too, before the log.
MutAtenderCierre(k) ==
    /\ Recibe(k)
    /\ credito' = [credito EXCEPT ![tomado[k]] = @ - 2]
    /\ cerrados' = cerrados \cup {tomado[k]}
    /\ Marcar(tomado[k], "EXIT")
    /\ cola' = Mover(tomado[k], "exec", "exit")
    /\ sem' = Post("exit")
    /\ Ir(k, "registrarExit")
    /\ UNCHANGED <<io, mutexDeadlock, tomado, pedidos, fin>>

\* MATE_CLOSE: the PCB goes from EXEC to EXIT ...
AtenderCierre(k) ==
    /\ Recibe(k)
    /\ credito' = [credito EXCEPT ![tomado[k]] = @ - 2]
    /\ cerrados' = cerrados \cup {tomado[k]}
    /\ Marcar(tomado[k], "EXIT")
    /\ cola' = Mover(tomado[k], "exec", "exit")
    /\ Ir(k, "registrarExit")
    /\ UNCHANGED <<sem, io, mutexDeadlock, tomado, pedidos, fin>>

\* Mutant: the estimate is updated after MATE_CLOSE, as after the others.
MutRegistrarExit(k) ==
    /\ En(k, "registrarExit")
    /\ sem' = Post("exit")
    /\ Ir(k, "estimar")
    /\ UNCHANGED <<cola, estado, io, mutexDeadlock, tomado, clientes, fin>>

\* ... and, once logged, is counted there.
RegistrarExit(k) ==
    /\ En(k, "registrarExit")
    /\ sem' = Post("exit")
    /\ Soltar(k)
    /\ Ir(k, "ready")
    /\ UNCHANGED <<cola, estado, io, mutexDeadlock, clientes, fin>>

\* Any other request, within the bound.
Pide(k) ==
    /\ Recibe(k)
    /\ pedidos[tomado[k]] < MaxPedidos
    /\ pedidos' = [pedidos EXCEPT ![tomado[k]] = @ + 1]

\* The names that list_find2 finds among the devices; the rest give NULL.
MutConfigurados == Nombres  \* mutant: the test for NULL is left out
Configurados == Nombres \cap Dispositivos

\* CALL_IO, __encolar_pcb_a_dispositivo_io: the PCB blocks ...
AtenderCallIO(k, d) ==
    /\ Pide(k)
    /\ mutexDeadlock = Nadie
    /\ credito' = [credito EXCEPT ![tomado[k]] = @ - 2]
    /\ Marcar(tomado[k], "BLOCKED")
    /\ cola' = Mover(tomado[k], "exec", "blocked")
    /\ recurso' = [recurso EXCEPT ![k] = d]
    /\ Ir(k, "encolarIO")
    /\ UNCHANGED <<sem, ioInst, colaIO, mutexDeadlock, tomado, cerrados, fin>>

\* Mutant: the device is told now, and once more after the suspension.
MutEncolarEnDispositivo(k) ==
    /\ EnCon(k, "encolarIO")
    /\ colaIO' = [colaIO EXCEPT ![recurso[k]] = Append(@, tomado[k])]
    /\ ioInst' = [ioInst EXCEPT ![recurso[k]] = @ + 1]
    /\ sem' = Post("despertar")
    /\ Ir(k, "espIO")
    /\ UNCHANGED <<cola, estado, recurso, mutexDeadlock, tomado, clientes, fin>>

\* ... is queued at the device ...
EncolarEnDispositivo(k) ==
    /\ EnCon(k, "encolarIO")
    /\ colaIO' = [colaIO EXCEPT ![recurso[k]] = Append(@, tomado[k])]
    /\ sem' = Post("despertar")
    /\ Ir(k, "espIO")
    /\ UNCHANGED <<cola, estado, ioInst, recurso, mutexDeadlock, tomado, clientes, fin>>

\* ... and the device is told once the medium-term scheduler has answered.
AvisarDispositivo(k) ==
    /\ En(k, "espIO")
    /\ Puede("concluida")
    /\ sem' = Wait("concluida")
    /\ ioInst' = [ioInst EXCEPT ![recurso[k]] = @ + 1]
    /\ recurso' = [recurso EXCEPT ![k] = Nadie]
    /\ credito' = [credito EXCEPT ![tomado[k]] = @ + 1]
    /\ Ir(k, "estimar")
    /\ UNCHANGED <<cola, estado, colaIO, mutexDeadlock, tomado, pedidos, cerrados, fin>>

\* CALL_IO on a device that is not configured: an error is logged and the
\* CPU leaves the PCB in EXEC, as for a request that blocked.
AtenderIODesconocida(k) ==
    /\ Nombres \ Configurados # {}
    /\ Pide(k)
    /\ credito' = [credito EXCEPT ![tomado[k]] = @ - 1]
    /\ Ir(k, "estimar")
    /\ UNCHANGED <<cola, estado, sem, io, mutexDeadlock, tomado, cerrados, fin>>

\* pcb_algoritmo_update_next_est_info, on a PCB that others may already run.
Estimar(k) ==
    /\ EnCon(k, "estimar")
    /\ Soltar(k)
    /\ Ir(k, "ready")
    /\ UNCHANGED <<cola, estado, sem, io, mutexDeadlock, clientes, fin>>
-----------------------------------------------------------------------------
(* The thread of a device: __iniciar_rutina_ejecucion_dispositivos_io.     *)
TomarIO(d) ==
    /\ En(d, "io")
    /\ ioInst[d] > 0
    /\ IF colaIO[d] = <<>>
       THEN Caer("io")
       ELSE /\ ioInst' = [ioInst EXCEPT ![d] = @ - 1]
            /\ Tomar(d, Head(colaIO[d]))
            /\ colaIO' = [colaIO EXCEPT ![d] = Tail(@)]
            /\ Ir(d, "verSusBlocked")
            /\ UNCHANGED <<cola, estado, sem, recurso, mutexDeadlock, clientes, fin>>

\* The burst is over: the status is read twice, outside mutexDeadlock.
VerSusBlocked(d) ==
    /\ EnCon(d, "verSusBlocked")
    /\ Ir(d, IF estado[tomado[d]] = "SUSBLOCKED" THEN "aSusReady" ELSE "verSiBlocked")
    /\ UNCHANGED <<cola, estado, sem, io, mutexDeadlock, tomado, clientes, fin>>

\* Mutant: the second test repeats the first.
MutVerSiBlocked(d) ==
    /\ EnCon(d, "verSiBlocked")
    /\ IF estado[tomado[d]] = "SUSBLOCKED"
       THEN Ir(d, "sacarBlocked") /\ UNCHANGED tomado
       ELSE Ir(d, "io") /\ Soltar(d)
    /\ UNCHANGED <<cola, estado, sem, io, mutexDeadlock, clientes, fin>>

VerSiBlocked(d) ==
    /\ EnCon(d, "verSiBlocked")
    /\ IF estado[tomado[d]] = "BLOCKED"
       THEN Ir(d, "sacarBlocked") /\ UNCHANGED tomado
       ELSE Ir(d, "io") /\ Soltar(d)
    /\ UNCHANGED <<cola, estado, sem, io, mutexDeadlock, clientes, fin>>

\* Mutant: the PCB reaches SUSP/READY and hayPCBsParaAgregarAlSistema is not posted.
MutPasarASusReady(d) ==
    /\ EnCon(d, "aSusReady")
    /\ mutexDeadlock = Nadie
    /\ Marcar(tomado[d], "SUSREADY")
    /\ cola' = Mover(tomado[d], "susblocked", "susready")
    /\ Ir(d, "registrarIO")
    /\ UNCHANGED <<sem, io, mutexDeadlock, tomado, clientes, fin>>

\* __pasar_de_susblocked_a_susready
PasarASusReady(d) ==
    /\ EnCon(d, "aSusReady")
    /\ mutexDeadlock = Nadie
    /\ Marcar(tomado[d], "SUSREADY")
    /\ cola' = Mover(tomado[d], "susblocked", "susready")
    /\ sem' = Post("hay")
    /\ Ir(d, "registrarIO")
    /\ UNCHANGED <<io, mutexDeadlock, tomado, clientes, fin>>

\* __pasar_de_blocked_a_ready: out of BLOCKED, then into READY.
SacarDeBlocked(d) ==
    /\ EnCon(d, "sacarBlocked")
    /\ mutexDeadlock = Nadie
    /\ mutexDeadlock' = d
    /\ cola' = [cola EXCEPT !["blocked"] = RemoveFirst(@, tomado[d])]
    /\ Ir(d, "aReady")
    /\ UNCHANGED <<estado, sem, io, tomado, clientes, fin>>

DesbloquearAReady(d) ==
    /\ PasarAReady(d, "registrarIO")
    /\ sem' = Post("ready")
    /\ mutexDeadlock' = Nadie

\* Either way the log comes after the mutex has been released.
RegistrarIO(d) ==
    /\ En(d, "registrarIO")
    /\ Soltar(d)
    /\ Ir(d, "io")
    /\ UNCHANGED <<cola, estado, sem, io, mutexDeadlock, clientes, fin>>
-----------------------------------------------------------------------------
\* The labels at which a thread reads the PCB it has taken.
Desreferencian ==
    (Etiquetas \ Esperas) \cup (IF Puede("concluida") THEN {"espExec"} ELSE {})

\* A thread goes on with a PCB that has been freed, or a CPU reads its request
\* when the peer has closed: recv returns 0 and the opcode is never written.  If
\* the read is only for a log it may also give a wrong number: then the thread
\* goes on.
UsarLiberado(t) ==
    /\ fallo = "no"
    /\ pc[t] \in Desreferencian
    /\ tomado[t] \in (IF pc[t] = "atender" THEN cerrados ELSE liberados)
    /\ Caer(IF pc[t] \in Registrando THEN "registro" ELSE "indefinido")

Alta(c) == AltaEnNew(c) \/ RegistrarAlta(c) \/ ConcluirAlta(c)
Largo == \/ TomarCandidato \/ TomarGrado \/ DelegarEnSusReady \/ ElegirNew
         \/ SacarDeNew \/ NewAReady \/ RegistrarAdmision
Liberador == TomarExit \/ Liberar
Mediano == \/ Despertar \/ VerNew \/ VerBlocked \/ VerGrado
           \/ Suspender \/ RegistrarSuspension
SusReady == TomarSusReady \/ SusReadyAReady \/ RegistrarTransicion
CPU(k) ==
    \/ Elegir(k) \/ Despachar(k) \/ EmpezarAtencion(k)
    \/ AtenderCierre(k) \/ RegistrarExit(k)
    \/ \E d \in Configurados : AtenderCallIO(k, d)
    \/ EncolarEnDispositivo(k) \/ AvisarDispositivo(k)
    \/ AtenderIODesconocida(k) \/ Estimar(k)
Dispositivo(d) ==
    \/ TomarIO(d) \/ VerSusBlocked(d) \/ VerSiBlocked(d)
    \/ PasarASusReady(d) \/ SacarDeBlocked(d) \/ DesbloquearAReady(d)
    \/ RegistrarIO(d)

Next ==
    \/ \E c \in Carpinchos : Alta(c)
    \/ Largo \/ Liberador \/ Mediano \/ SusReady
    \/ \E k \in CPUs : CPU(k)
    \/ \E d \in Dispositivos : Dispositivo(d)
    \/ \E t \in Hilos : UsarLiberado(t)

Spec == Init /\ [][Next]_vars

(* The operating system runs every thread that can run, and a client that  *)
(* may send a request does, MATE_CLOSE in the end.                         *)
Justicia ==
    /\ \A c \in Carpinchos : WF_vars(Alta(c))
    /\ WF_vars(Largo) /\ WF_vars(Liberador) /\ WF_vars(Mediano) /\ WF_vars(SusReady)
    /\ \A k \in CPUs : WF_vars(CPU(k) \/ UsarLiberado(k))
    /\ \A d \in Dispositivos : WF_vars(Dispositivo(d))

SpecJusta == Spec /\ Justicia
-----------------------------------------------------------------------------
\* Type invariant: queues hold PCBs, a request that blocks at a device names one
\* that is configured.
TypeOK ==
    /\ cola \in [Colas -> Seq(Carpinchos)]
    /\ estado \in [Carpinchos -> Estados]
    /\ sem \in [Contadores -> Nat]
    /\ ioInst \in [Dispositivos -> Nat]
    /\ colaIO \in [Dispositivos -> Seq(Carpinchos)]
    /\ mutexDeadlock \in Dispositivos \cup {Nadie}
    /\ pc \in [Hilos -> Etiquetas]
    /\ tomado \in [Hilos -> Carpinchos \cup {Nadie}]
    /\ recurso \in [CPUs -> Dispositivos \cup {Nadie}]
    /\ credito \in [Carpinchos -> Int]
    /\ pedidos \in [Carpinchos -> 0..MaxPedidos]
    /\ cerrados \subseteq Carpinchos
    /\ liberados \subseteq Carpinchos
    /\ fallo \in {"no", "indefinido", "registro", "corto", "io"} \cup Planificadores

\* How many threads are at one of the labels of E.
Cuantos(E) == Cardinality({t \in Hilos : pc[t] \in E})
Uno(condicion) == IF condicion THEN 1 ELSE 0

\* __evaluar_suspension is a handshake over two semaphores shared by every
\* handler and CPU: each thread in it is owed exactly one sem_post of
\* suspensionConcluida, which is there, on its way, or will be asked for.
Apreton ==
    Cuantos(Esperas) =
        sem["despertar"] + sem["concluida"] + Uno(pc["mediano"] \in Evaluando)

\* hayPCBsParaAgregarAlSistema counts the PCBs of NEW and SUSP/READY that
\* nobody has been sent for: what the two queues hold is matched by a handler
\* about to post, by the semaphore, by the long-term scheduler on its way, or
\* by a request to the SUSP/READY thread.
CuentaAdmision ==
    fallo = "no" =>
        Len(cola["new"]) + Len(cola["susready"]) =
            Cuantos({"registrarAlta", "espAlta", "grado", "mirar", "sacar"})
            + sem["hay"] + sem["transicionar"]

\* Every unit of READY's semaphore, every thread about to post one and every
\* CPU that has chosen and not yet taken has a PCB of READY of its own: two CPUs
\* may choose the same PCB, and the second leaves one in READY that no unit
\* stands for, never the opposite.
CuentaReady ==
    fallo = "no" =>
        sem["ready"] + Cuantos({"despachar", "registrarReady"}) <= Len(cola["ready"])

\* A device is told of a PCB only after it is in its queue.
CuentaIO ==
    \A d \in Dispositivos :
        fallo = "no" =>
            Len(colaIO[d]) =
                ioInst[d] + Cardinality({k \in CPUs : pc[k] = "espIO" /\ recurso[k] = d})

\* EXIT's semaphore counts the PCBs of EXIT, but for those a CPU is logging.
CuentaExit ==
    fallo = "no" => sem["exit"] + Cuantos({"registrarExit"}) = Len(cola["exit"])

\* None of the six places that take a PCB out of a queue checks for NULL.
\* Four of them never meet it: only the suspension and the SUSP/READY thread,
\* which act on a condition read before, and freed memory end the kernel.
FallaSoloSuspension == fallo \in {"no", "mediano", "susready", "indefinido", "registro"}

\* With one CPU a PCB that has been freed is used by nobody but the threads that
\* log it after they have handed it over, and each of them drops it then: no
\* list, status or estimate of a freed PCB is ever read or written.
SinUsoDeLiberado == fallo # "indefinido"

\* The log of __dequeue_pcb, "No existe tal elemento en la cola", is not
\* reached by a CPU: the PCB it chose is still in READY.
DespachoEnReady ==
    \A k \in CPUs : EnCon(k, "despachar") => Contains(cola["ready"], tomado[k])

\* "binario": transicionarSusReadyAready never holds more than one unit.
TransicionarBinario == sem["transicionar"] <= 1

\* The times c appears in queue q, and in all the queues of a set.
Veces(c, q) == Cardinality({i \in DOMAIN cola[q] : cola[q][i] = c})
EnMano(c) == Cardinality({t \in Hilos \ CPUs : tomado[t] = c /\ pc[t] \in {"aReady", "liberar"}})
Lugares(c) ==
    Veces(c, "new") + Veces(c, "ready") + Veces(c, "exec") + Veces(c, "blocked")
    + Veces(c, "susready") + Veces(c, "exit") + EnMano(c)
Existe(c) == pc[c] \in {"registrarAlta", "espAlta", "fin"} /\ c \notin liberados

\* With one CPU, and while no fault ends it, the kernel never loses a PCB and
\* never has it twice: it is in one queue, or in the hand of the thread that
\* is moving it.  Only SUSP/BLOCKED may keep a PCB that is also elsewhere.
UnSoloLugar ==
    fallo = "no" =>
        \A c \in Carpinchos :
            IF Existe(c) THEN \/ Lugares(c) = 1
                              \/ Lugares(c) = 0 /\ Veces(c, "susblocked") > 0
                         ELSE Lugares(c) = 0

\* A blocked PCB has someone to unblock it.
PorDesbloquear(c) ==
    \/ \E d \in Dispositivos :
         Contains(colaIO[d], c) \/ (tomado[d] = c /\ pc[d] # "registrarIO")
    \/ \E k \in CPUs : tomado[k] = c /\ pc[k] = "encolarIO"
BloqueadoConDespertador ==
    \A c \in Carpinchos :
        estado[c] \in {"BLOCKED", "SUSBLOCKED"} => PorDesbloquear(c)

\* The degree of multiprogramming: with one CPU, the places that are free, the
\* admissions under way and the PCBs admitted are GRADO_MULTIPROGRAMACION in
\* all, and one more for each entry of SUSP/BLOCKED whose PCB is not there any
\* more: a PCB suspended while its device was taking it out of BLOCKED gives
\* its place back and runs all the same.
CuentaGrado ==
    fallo = "no" =>
        sem["grado"] + sem["transicionar"]
        + Cuantos({"mirar", "sacar", "aReady", "liberar", "registrarSuspension"})
        + Len(cola["ready"]) + Len(cola["exec"]) + Len(cola["blocked"]) + Len(cola["exit"])
        = GradoMultiprog + Len(cola["susblocked"])
          - Cardinality({c \in Carpinchos : Existe(c) /\ Lugares(c) = 0})

\* A thread in __evaluar_suspension gets its answer, unless the kernel falls.
EvaluacionResponde ==
    \A t \in Carpinchos \cup CPUs :
        pc[t] \in Esperas ~> (pc[t] \notin Esperas \/ fallo # "no")

\* Every carpincho that connects is served until it closes, unless the kernel
\* falls.
TodosTerminan == <>(fallo # "no" \/ cerrados = Carpinchos)
=============================================================================
