----------------------------- MODULE Protocolo -----------------------------
(***************************************************************************)
(* The conversations of the system: each carpincho, through matelib, with  *)
(* the kernel over its own socket, and the kernel's threads with the       *)
(* memory module over one socket they share (mem_adapter.c).               *)
(*                                                                         *)
(* A call of matelib sends a request and reads two messages: the answer    *)
(* and the OK_CONTINUE that the kernel sends when the PCB has a CPU.  Of   *)
(* the scheduler this module keeps where each PCB is; Planificacion and    *)
(* Semaforos have the rest.  A message is its opcode; with it goes, for    *)
(* the properties only, what it answers.                                   *)
(***************************************************************************)
EXTENDS Integers, Sequences, FiniteSets

CONSTANTS
    Carpinchos,
    Llamadas,            \* the calls of matelib that carpinchos make
    MaxLlamadas,         \* bound: the calls of one carpincho
    RespuestasMemoria,   \* what the memory module answers
    Nadie

Simples == {"SEM_INIT", "SEM_POST", "SEM_DESTROY"}
Bloqueantes == {"SEM_WAIT", "CALL_IO"}
DeMemoria == {"MEM_ALLOC", "MEM_FREE", "MEM_READ", "MEM_WRITE"}
Hilos == Carpinchos \cup {"liberador", "mediano"}

ASSUME ConstantesProtocoloOK ==
    /\ IsFiniteSet(Carpinchos)
    /\ Carpinchos \cap {"liberador", "mediano"} = {}
    /\ Llamadas \subseteq Simples \cup Bloqueantes \cup DeMemoria
    /\ MaxLlamadas \in Nat
    /\ RespuestasMemoria \subseteq {"OK_CONTINUE", "FAIL"}
    /\ Nadie \notin Hilos

VARIABLES
    aKernel,     \* requests each client has sent and the kernel has not read
    aCliente,    \* messages on their way to each client
    cliente,     \* where each client is in matelib
    llamada,     \* the call each client is making or made last
    hechas,      \* how many calls it has made
    fallas,      \* how many of them got FAIL from memory
    pcb,         \* where each PCB is in the kernel
    debe,        \* how many CPUs have yet to send the answer of a call that blocked
    aMem, deMem, \* the socket of the memory module, in each direction
    mutexMem,    \* mutexMemSocket: the thread that holds it, or Nadie
    modo,        \* EXEC_MODE, read from the configuration when the kernel starts
    caido        \* the kernel has ended

sockets == <<aKernel, aCliente>>
lib == <<cliente, llamada, hechas, fallas>>
memoria == <<aMem, deMem, mutexMem>>
vars == <<sockets, lib, pcb, debe, memoria, modo, caido>>

Init ==
    /\ aKernel = [c \in Carpinchos |-> <<>>]
    /\ aCliente = [c \in Carpinchos |-> <<>>]
    /\ cliente = [c \in Carpinchos |-> "inicio"]
    /\ llamada = [c \in Carpinchos |-> "MATE_INIT"]
    /\ hechas = [c \in Carpinchos |-> 0]
    /\ fallas = [c \in Carpinchos |-> 0]
    /\ pcb = [c \in Carpinchos |-> "conectar"]
    /\ debe = [c \in Carpinchos |-> 0]
    /\ aMem = <<>> /\ deMem = <<>> /\ mutexMem = Nadie
    /\ modo \in {"DEV_MODE", "DEPLOY_MODE"}
    /\ caido = FALSE
-----------------------------------------------------------------------------
(* matelib *)
Pedir(c, op) == aKernel' = [aKernel EXCEPT ![c] = Append(@, op)]
IrCliente(c, e) == cliente' = [cliente EXCEPT ![c] = e]

\* The client reads the next message, of opcode op.
Leer(c, op) ==
    /\ aCliente[c] # <<>>
    /\ op = Head(aCliente[c]).op
    /\ aCliente' = [aCliente EXCEPT ![c] = Tail(@)]

\* mate_init: the answer carries the pid.
MateInit(c) ==
    /\ cliente[c] = "inicio"
    /\ Pedir(c, "MATE_INIT")
    /\ IrCliente(c, "respuesta")
    /\ UNCHANGED <<aCliente, llamada, hechas, fallas, pcb, debe, memoria, modo, caido>>

\* Any other call: the request goes out and the answer is awaited.
Llamar(c, op) ==
    /\ cliente[c] = "libre"
    /\ hechas[c] < MaxLlamadas
    /\ Pedir(c, op)
    /\ llamada' = [llamada EXCEPT ![c] = op]
    /\ hechas' = [hechas EXCEPT ![c] = @ + 1]
    /\ IrCliente(c, "respuesta")
    /\ UNCHANGED <<aCliente, fallas, pcb, debe, memoria, modo, caido>>

\* Mutant: one message answers a call.
MutLeerRespuesta(c) ==
    /\ cliente[c] = "respuesta"
    /\ \E op \in {"OK_CONTINUE", "FAIL", "DEADLOCK_END", "OK_FINISH"} : Leer(c, op)
    /\ IrCliente(c, "libre")
    /\ UNCHANGED <<aKernel, llamada, hechas, fallas, pcb, debe, memoria, modo, caido>>

\* The answer.  Whatever it says, mate_init, mate_sem_* and mate_call_io read
\* one message more; mate_mem* return at once unless it is OK_CONTINUE.  A
\* message is read whole, its opcode and its size: of a FAIL, mate_memalloc,
\* mate_memfree and mate_memread read the size in the branch of the error, and
\* mate_memwrite before it looks at the opcode.
LeerRespuesta(c) ==
    /\ cliente[c] = "respuesta"
    /\ \E op \in {"OK_CONTINUE", "FAIL", "DEADLOCK_END", "OK_FINISH"} :
         /\ Leer(c, op)
         /\ \/ /\ llamada[c] \in DeMemoria /\ op # "OK_CONTINUE"
               /\ IrCliente(c, "libre")
               /\ fallas' = [fallas EXCEPT ![c] = @ + 1]
            \/ /\ llamada[c] \notin DeMemoria \/ op = "OK_CONTINUE"
               /\ IrCliente(c, "continuar")
               /\ UNCHANGED fallas
    /\ UNCHANGED <<aKernel, llamada, hechas, pcb, debe, memoria, modo, caido>>

\* Mutant: the end by deadlock is not told from the other answers.
MutLeerContinuar(c) ==
    /\ cliente[c] = "continuar"
    /\ \E op \in {"OK_CONTINUE", "FAIL", "DEADLOCK_END", "OK_FINISH"} : Leer(c, op)
    /\ IrCliente(c, "libre")
    /\ UNCHANGED <<aKernel, llamada, hechas, fallas, pcb, debe, memoria, modo, caido>>

\* The second message lets the carpincho go on, or ends it.
LeerContinuar(c) ==
    /\ cliente[c] = "continuar"
    /\ \/ Leer(c, "DEADLOCK_END") /\ IrCliente(c, "fin")
       \/ \E op \in {"OK_CONTINUE", "FAIL", "OK_FINISH"} :
            Leer(c, op) /\ IrCliente(c, "libre")
    /\ UNCHANGED <<aKernel, llamada, hechas, fallas, pcb, debe, memoria, modo, caido>>

MateClose(c) ==
    /\ cliente[c] = "libre"
    /\ Pedir(c, "MATE_CLOSE")
    /\ IrCliente(c, "fin")
    /\ UNCHANGED <<aCliente, llamada, hechas, fallas, pcb, debe, memoria, modo, caido>>
-----------------------------------------------------------------------------
(* The kernel *)
Enviar(c, op, que) ==
    aCliente' = [aCliente EXCEPT ![c] = Append(@, [op |-> op, que |-> que])]
IrPCB(c, e) == pcb' = [pcb EXCEPT ![c] = e]
Recibir(c, op) ==
    /\ aKernel[c] # <<>>
    /\ Head(aKernel[c]) = op
    /\ aKernel' = [aKernel EXCEPT ![c] = Tail(@)]

\* The handler of the connection answers with the pid.
Conectar(c) ==
    /\ ~caido
    /\ pcb[c] = "conectar"
    /\ Recibir(c, "MATE_INIT")
    /\ Enviar(c, "OK_CONTINUE", "respuesta")
    /\ IrPCB(c, "espera")
    /\ UNCHANGED <<lib, debe, memoria, modo, caido>>

\* The loop of the CPU that runs the PCB begins a turn.
DarTurno(c) ==
    /\ ~caido
    /\ Enviar(c, "OK_CONTINUE", "continuar")
    /\ IrPCB(c, "exec")
    /\ UNCHANGED <<aKernel, lib, debe, memoria, modo, caido>>

\* A CPU takes the PCB: the first turn.
Despachar(c) == pcb[c] = "espera" /\ DarTurno(c)

\* The turn after a request that did not block.
Continuar(c) == pcb[c] = "turno" /\ DarTurno(c)

\* SEM_INIT, SEM_POST, SEM_DESTROY and a SEM_WAIT that does not block.
AtenderSimple(c) ==
    /\ ~caido
    /\ pcb[c] = "exec"
    /\ \E op \in Simples \cup {"SEM_WAIT"} : Recibir(c, op)
    /\ Enviar(c, "OK_CONTINUE", "respuesta")
    /\ IrPCB(c, "turno")
    /\ UNCHANGED <<lib, debe, memoria, modo, caido>>

\* Mutant: a call that blocks is not answered.
MutAtenderBloqueante(c) ==
    /\ ~caido
    /\ pcb[c] = "exec"
    /\ \/ Recibir(c, "SEM_WAIT") /\ IrPCB(c, "blockedSem")
       \/ Recibir(c, "CALL_IO") /\ IrPCB(c, "blockedIO")
    /\ UNCHANGED <<aCliente, lib, debe, memoria, modo, caido>>

\* SEM_WAIT or CALL_IO: the PCB leaves the CPU before the answer is sent ...
AtenderBloqueante(c) ==
    /\ ~caido
    /\ pcb[c] = "exec"
    /\ \/ Recibir(c, "SEM_WAIT") /\ IrPCB(c, "blockedSem")
       \/ Recibir(c, "CALL_IO") /\ IrPCB(c, "blockedIO")
    /\ debe' = [debe EXCEPT ![c] = @ + 1]
    /\ UNCHANGED <<aCliente, lib, memoria, modo, caido>>

\* ... by the CPU it left, over its own copy of the socket.  It looks at the PCB
\* before (the log) and after (the estimate), and if the PCB has been freed
\* either of them may end the kernel, or neither.
ResponderBloqueante(c) ==
    /\ ~caido
    /\ debe[c] > 0
    /\ caido' \in BOOLEAN
    /\ caido' => pcb[c] \in {"finalizado", "liberado"}
    /\ \/ /\ Enviar(c, "OK_CONTINUE", "respuesta")
          /\ debe' = [debe EXCEPT ![c] = @ - 1]
       \/ caido' /\ UNCHANGED <<aCliente, debe>>
    /\ UNCHANGED <<aKernel, lib, pcb, memoria, modo>>

\* Mutant: the opcode of the request goes back instead of OK_CONTINUE.
MutAtenderIODesconocida(c) ==
    /\ ~caido
    /\ pcb[c] = "exec"
    /\ Recibir(c, "CALL_IO")
    /\ Enviar(c, "CALL_IO", "respuesta")
    /\ IrPCB(c, "abandonado")
    /\ UNCHANGED <<lib, debe, memoria, modo, caido>>

\* CALL_IO on a device that is not configured: the CPU drops the PCB.
AtenderIODesconocida(c) ==
    /\ ~caido
    /\ pcb[c] = "exec"
    /\ Recibir(c, "CALL_IO")
    /\ Enviar(c, "OK_CONTINUE", "respuesta")
    /\ IrPCB(c, "abandonado")
    /\ UNCHANGED <<lib, debe, memoria, modo, caido>>

\* The event it waited for: a post, or the end of an I/O.
Desbloquear(c) ==
    /\ ~caido
    /\ pcb[c] \in {"blockedSem", "blockedIO", "susblockedSem", "susblockedIO"}
    /\ IrPCB(c, "espera")
    /\ UNCHANGED <<sockets, lib, debe, memoria, modo, caido>>

\* The detector, with mutexDeadlock, ends a PCB blocked at a semaphore: first it
\* tells the carpincho ...
Finalizar(c) ==
    /\ ~caido
    /\ pcb[c] \in {"blockedSem", "susblockedSem"}
    /\ Enviar(c, "DEADLOCK_END", "continuar")
    /\ IrPCB(c, "finalizando")
    /\ UNCHANGED <<aKernel, lib, debe, memoria, modo, caido>>

\* ... and then it frees the PCB.
Destruir(c) ==
    /\ ~caido
    /\ pcb[c] = "finalizando"
    /\ IrPCB(c, "finalizado")
    /\ UNCHANGED <<sockets, lib, debe, memoria, modo, caido>>

AtenderCierre(c) ==
    /\ ~caido
    /\ pcb[c] = "exec"
    /\ Recibir(c, "MATE_CLOSE")
    /\ IrPCB(c, "exit")
    /\ UNCHANGED <<aCliente, lib, debe, memoria, modo, caido>>
-----------------------------------------------------------------------------
(* The memory module's socket *)

\* Mutant: the socket is written without its mutex.
MutPreguntar(t) ==
    /\ mutexMem' = t
    /\ aMem' = Append(aMem, t)
    /\ UNCHANGED deMem

\* Thread t takes the mutex and sends a request ...
Preguntar(t) ==
    /\ mutexMem = Nadie
    /\ mutexMem' = t
    /\ aMem' = Append(aMem, t)
    /\ UNCHANGED deMem

\* ... and reads the answer, r, before it lets the mutex go.
Contestada(t, r) ==
    /\ mutexMem = t
    /\ deMem # <<>>
    /\ r = Head(deMem).op
    /\ deMem' = Tail(deMem)
    /\ mutexMem' = Nadie
    /\ UNCHANGED aMem

\* The memory module answers in order; what it says is its own affair.
ResponderMemoria ==
    /\ aMem # <<>>
    /\ \E r \in RespuestasMemoria : deMem' = Append(deMem, [op |-> r, para |-> Head(aMem)])
    /\ aMem' = Tail(aMem)
    /\ UNCHANGED <<sockets, lib, pcb, debe, mutexMem, modo, caido>>

\* MEM_*: with the memory module the request is passed on ...
AtenderMemoria(c) ==
    /\ ~caido
    /\ modo = "DEPLOY_MODE"
    /\ pcb[c] = "exec"
    /\ \E op \in DeMemoria : Recibir(c, op)
    /\ Preguntar(c)
    /\ IrPCB(c, "memoria")
    /\ UNCHANGED <<aCliente, lib, debe, modo, caido>>

\* Mutant: the loop waits for the next request without another OK_CONTINUE.
MutTerminarMemoria(c) ==
    /\ ~caido
    /\ pcb[c] = "memoria"
    /\ \E r \in {"OK_CONTINUE", "FAIL"} :
         Contestada(c, r) /\ Enviar(c, r, "respuesta")
    /\ IrPCB(c, "exec")
    /\ UNCHANGED <<aKernel, lib, debe, modo, caido>>

\* ... and so is the answer, OK_CONTINUE or FAIL, and the loop goes on.
TerminarMemoria(c) ==
    /\ ~caido
    /\ pcb[c] = "memoria"
    /\ \E r \in {"OK_CONTINUE", "FAIL"} :
         Contestada(c, r) /\ Enviar(c, r, "respuesta")
    /\ IrPCB(c, "turno")
    /\ UNCHANGED <<aKernel, lib, debe, modo, caido>>

\* Without it the kernel itself answers.
AtenderMemoriaSimulada(c) ==
    /\ ~caido
    /\ modo = "DEV_MODE"
    /\ pcb[c] = "exec"
    /\ \E op \in DeMemoria : Recibir(c, op)
    /\ Enviar(c, "OK_CONTINUE", "respuesta")
    /\ IrPCB(c, "turno")
    /\ UNCHANGED <<lib, debe, memoria, modo, caido>>

\* The medium-term scheduler suspends a PCB and tells the memory module; the
\* PCB is not unblocked meanwhile (mutexDeadlock), and the kernel ends if the
\* answer is not OK_CONTINUE.
Bloqueado == [Sem |-> "blockedSem", IO |-> "blockedIO"]
Suspendiendo == [Sem |-> "suspendiendoSem", IO |-> "suspendiendoIO"]
Suspendido == [Sem |-> "susblockedSem", IO |-> "susblockedIO"]

Suspender(c) ==
    /\ ~caido
    /\ \E m \in {"Sem", "IO"} :
         /\ pcb[c] = Bloqueado[m]
         /\ \/ /\ modo = "DEPLOY_MODE"
               /\ Preguntar("mediano")
               /\ IrPCB(c, Suspendiendo[m])
            \/ /\ modo = "DEV_MODE"
               /\ IrPCB(c, Suspendido[m])
               /\ UNCHANGED memoria
    /\ UNCHANGED <<sockets, lib, debe, modo, caido>>

TerminarSuspension(c) ==
    /\ ~caido
    /\ \E m \in {"Sem", "IO"} :
         /\ pcb[c] = Suspendiendo[m]
         /\ IrPCB(c, Suspendido[m])
    /\ \E r \in {"OK_CONTINUE", "FAIL"} :
         Contestada("mediano", r) /\ caido' = (r = "FAIL")
    /\ UNCHANGED <<sockets, lib, debe, modo>>

\* The thread that frees the PCBs of EXIT: memory first, then the carpincho,
\* which has most likely closed its socket, is sent OK_FINISH.
Liberar(c) ==
    /\ ~caido
    /\ pcb[c] = "exit"
    /\ \/ /\ modo = "DEPLOY_MODE"
          /\ Preguntar("liberador")
          /\ IrPCB(c, "cierre")
          /\ UNCHANGED aCliente
       \/ /\ modo = "DEV_MODE"
          /\ Enviar(c, "OK_FINISH", "fin")
          /\ IrPCB(c, "liberado")
          /\ UNCHANGED memoria
    /\ UNCHANGED <<aKernel, lib, debe, modo, caido>>

TerminarCierre(c) ==
    /\ ~caido
    /\ pcb[c] = "cierre"
    /\ \/ /\ Contestada("liberador", "OK_CONTINUE")
          /\ Enviar(c, "OK_FINISH", "fin")
          /\ IrPCB(c, "liberado")
          /\ UNCHANGED caido
       \/ /\ Contestada("liberador", "FAIL")
          /\ caido' = TRUE
          /\ UNCHANGED <<aCliente, pcb>>
    /\ UNCHANGED <<aKernel, lib, debe, modo>>
-----------------------------------------------------------------------------
Lee(c) == LeerRespuesta(c) \/ LeerContinuar(c)

\* What the kernel does for c without waiting for another carpincho; to give it
\* a CPU is not in it: a CPU serves one carpincho as long as that one pleases.
Atiende(c) ==
    \/ Conectar(c) \/ Continuar(c) \/ AtenderSimple(c) \/ AtenderBloqueante(c)
    \/ AtenderIODesconocida(c) \/ AtenderMemoria(c)
    \/ AtenderMemoriaSimulada(c) \/ AtenderCierre(c)

Next ==
    \/ \E c \in Carpinchos :
         \/ MateInit(c) \/ MateClose(c) \/ Lee(c)
         \/ \E op \in Llamadas : Llamar(c, op)
         \/ Despachar(c) \/ Atiende(c) \/ ResponderBloqueante(c) \/ TerminarMemoria(c)
         \/ Desbloquear(c) \/ Finalizar(c) \/ Destruir(c)
         \/ Suspender(c) \/ TerminarSuspension(c) \/ Liberar(c) \/ TerminarCierre(c)
    \/ ResponderMemoria

Spec == Init /\ [][Next]_vars

(* The threads run, a client reads what it waits for, and the memory module  *)
(* answers.  Nobody has to make a call, to close, to unblock a PCB or to give *)
(* it a CPU.                                                                 *)
Justicia ==
    /\ \A c \in Carpinchos :
         /\ WF_vars(Lee(c)) /\ WF_vars(Atiende(c)) /\ WF_vars(ResponderBloqueante(c))
         /\ WF_vars(TerminarMemoria(c)) /\ WF_vars(TerminarSuspension(c))
         /\ WF_vars(TerminarCierre(c)) /\ WF_vars(Destruir(c))
    /\ WF_vars(ResponderMemoria)

SpecJusta == Spec /\ Justicia
-----------------------------------------------------------------------------
\* Type invariant.
Opcodes == {"OK_CONTINUE", "FAIL", "DEADLOCK_END", "OK_FINISH"}
Mensajes == [op : Opcodes, que : {"respuesta", "continuar", "fin"}]
Pedidos == Llamadas \cup {"MATE_INIT", "MATE_CLOSE"}
LugaresPCB ==
    {"conectar", "espera", "exec", "turno", "memoria", "abandonado", "exit", "cierre",
     "liberado", "finalizando", "finalizado", "blockedSem", "blockedIO", "suspendiendoSem",
     "suspendiendoIO", "susblockedSem", "susblockedIO"}
TypeOK ==
    /\ aKernel \in [Carpinchos -> Seq(Pedidos)]
    /\ aCliente \in [Carpinchos -> Seq(Mensajes)]
    /\ cliente \in [Carpinchos -> {"inicio", "respuesta", "continuar", "libre", "fin"}]
    /\ llamada \in [Carpinchos -> Llamadas \cup {"MATE_INIT"}]
    /\ hechas \in [Carpinchos -> 0..MaxLlamadas]
    /\ fallas \in [Carpinchos -> 0..MaxLlamadas]
    /\ pcb \in [Carpinchos -> LugaresPCB]
    /\ debe \in [Carpinchos -> Nat]
    /\ aMem \in Seq(Hilos)
    /\ deMem \in Seq([op : RespuestasMemoria, para : Hilos])
    /\ mutexMem \in Hilos \cup {Nadie}
    /\ modo \in {"DEV_MODE", "DEPLOY_MODE"}
    /\ caido \in BOOLEAN

\* The memory socket carries one conversation at a time: what is in it belongs
\* to the thread that holds mutexMemSocket, so no thread reads the answer to a
\* request of another.
RespuestaPropia ==
    /\ Len(aMem) + Len(deMem) <= 1
    /\ \A i \in DOMAIN aMem : aMem[i] = mutexMem
    /\ \A i \in DOMAIN deMem : deMem[i].para = mutexMem

\* As long as memory has not failed it, a carpincho that is not inside a call
\* has the CPU: mate_sem_wait and mate_call_io do not return while the PCB is
\* blocked, suspended or waiting for a CPU.  Only the victim of a deadlock may
\* be let go by the late answer of the wait it was blocked at.
VuelveEnEjecucion ==
    \A c \in Carpinchos :
        cliente[c] = "libre" /\ fallas[c] = 0
            => pcb[c] \in {"exec", "finalizando", "finalizado"}

\* The messages a carpincho has not read, when it is not inside a call: none,
\* but one more for each FAIL, whose OK_CONTINUE mate_mem* leaves unread, as
\* far as the kernel has sent it.
Atraso(c) == Len(aCliente[c])
CuentaAtraso ==
    \A c \in Carpinchos :
        cliente[c] = "libre" /\ pcb[c] = "exec" /\ aKernel[c] = <<>> /\ debe[c] = 0
            => Atraso(c) = fallas[c]

\* Every call returns, unless from some moment on and for ever the PCB is
\* blocked, waits for a CPU, was dropped or freed, or the kernel has ended, or
\* memory has failed the carpincho.
EnLlamada(c) == cliente[c] \in {"respuesta", "continuar"}
Detenido(c) ==
    \/ pcb[c] \in {"blockedSem", "blockedIO", "susblockedSem", "susblockedIO"}
    \/ pcb[c] \in {"espera", "abandonado", "finalizado"}
    \/ caido \/ fallas[c] > 0
RetornaLlamada == \A c \in Carpinchos : []<>~EnLlamada(c) \/ <>[]Detenido(c)

\* A carpincho to which DEADLOCK_END is the last thing the kernel has to say, the
\* answer of its wait having gone before, ends, whatever becomes of the kernel,
\* unless memory has failed it.
Avisado(c) ==
    /\ debe[c] = 0
    /\ aCliente[c] # <<>>
    /\ aCliente[c][Len(aCliente[c])].op = "DEADLOCK_END"
FinalizadoTermina ==
    \A c \in Carpinchos : Avisado(c) ~> (cliente[c] = "fin" \/ fallas[c] > 0)

\* What matelib says when it reads DEADLOCK_END: the carpincho of a PCB that the
\* detector has ended ends too.
VictimaTermina ==
    \A c \in Carpinchos :
        pcb[c] = "finalizado" ~> (cliente[c] = "fin" \/ caido \/ fallas[c] > 0)
=============================================================================
