----------------------------- MODULE Deteccion -----------------------------
(***************************************************************************)
(* The deadlock detector, __iniciar_rutina_deteccion_de_deadlocks and      *)
(* deadlock.c, on top of the kernel's semaphores.  Its thread holds        *)
(* mutexDeadlock from the analysis to the end of the last recovery, which  *)
(* keeps out SEM_POST and the suspension, and not SEM_WAIT.                *)
(*                                                                         *)
(* The carpinchos are programs: each makes the requests of its script and  *)
(* closes.  Their semaphores are there from the start, created by a        *)
(* carpincho that has left, as those of use-case-deadlock are.             *)
(*                                                                         *)
(* The victim is the highest PID of those in deadlock.  Handlers of        *)
(* connections number PCBs in any order (it need not be that of NEW), so   *)
(* the victim may be any of them.  The removals by PID are removals of the *)
(* PCB: two PCBs of one PID are left out.                                  *)
(***************************************************************************)
EXTENDS Semaforos, Matrices

CONSTANTS
    Senales,  \* the names of the semaphores created with 0; the others, with 1
    Guiones   \* the scripts: for each carpincho, a sequence of <<"wait" or "post", name>>

ASSUME GuionesOK ==
    \A g \in Guiones, c \in Carpinchos :
        /\ g[c] \in Seq({"wait", "post"} \X NombresSem)
        /\ Len(g[c]) <= MaxPedidos

VARIABLES
    guion,      \* what the carpinchos are programmed to ask for
    detector,   \* where the detector's thread is
    candidatas, \* pcbsEnDeadlock, as list_filter makes it
    victima,    \* pcbDeMayorPID, or Nadie
    semDet,     \* the semaphore the detector posts, or Nadie
    socorrido,  \* the PCB it has popped from it, or Nadie
    leido,      \* the value it has read and not yet written
    carrera     \* history: the detector has met a SEM_WAIT half way; what the
                \* lists and values they both write are then is left open

varsDet == <<detector, candidatas, victima, semDet, socorrido, leido, carrera>>
varsSistema == <<varsTodo, guion, varsDet>>

ValorInicial(n) == IF n \in Senales THEN 0 ELSE 1

InitDet ==
    /\ Init
    /\ nombre = SetToSeq(NombresSem)
    /\ listaSem = [i \in Semaforos |-> i]
    /\ valor = [i \in Semaforos |-> ValorInicial(nombre[i])]
    /\ colaSem = [i \in Semaforos |-> <<>>]
    /\ semLibres = {}
    /\ retiene = [c \in Carpinchos |-> [n \in NombresSem |-> 0]]
    /\ espera = [c \in Carpinchos |-> Nadie]
    /\ semDe = [k \in CPUs |-> Nadie]
    /\ despierta = [k \in CPUs |-> Nadie]
    /\ guion \in Guiones
    /\ detector = "duerme"
    /\ candidatas = {}
    /\ victima = Nadie
    /\ semDet = Nadie
    /\ socorrido = Nadie
    /\ leido = 0
    /\ carrera = FALSE
-----------------------------------------------------------------------------
\* What the detector reads, by name.
Espera(c) == IF espera[c] = Nadie THEN Nadie ELSE nombre[espera[c]]
Peticiones == [c \in Carpinchos |-> Espera(c)]
Asignados == [c \in Carpinchos |-> {n \in NombresSem : retiene[c][n] > 0}]

\* The PCBs of the lists that list_filter reads, and those that it takes.
Listadas == ToSet(cola["blocked"]) \cup ToSet(cola["susblocked"])
EnEspera == {c \in Listadas : espera[c] # Nadie}

\* What the reduction leaves of them and of semaforosDelSistema.
EnDeadlock ==
    PcbsIrreducibles(Peticiones, Asignados, candidatas, {nombre[s] : s \in ToSet(listaSem)})

EnDet(e) == fallo = "no" /\ detector = e
IrDet(e) == detector' = e

\* The detector wakes, or looks again after a recovery, ...
Analiza ==
    \/ EnDet("duerme") /\ mutexDeadlock = Nadie
    \/ EnDet("otraVez")

\* ... and filters the lists ...
Filtrar ==
    /\ Analiza
    /\ Listadas \cap liberados = {}
    /\ EnEspera # {}
    /\ candidatas' = EnEspera
    /\ mutexDeadlock' = "detector"
    /\ IrDet("reducir")
    /\ UNCHANGED <<cola, estado, sem, io, pc, tomado, clientes, fin, varsSem,
                   victima, semDet, socorrido, leido, carrera>>

\* ... where there may be a PCB that has been freed.
LeerLiberado ==
    /\ Analiza
    /\ Listadas \cap liberados # {}
    /\ Caer("indefinido")
    /\ UNCHANGED <<varsSem, varsDet>>

\* It reduces what the PCBs then hold and wait for: SEM_WAIT has gone on.
ElegirVictima ==
    /\ EnDet("reducir")
    /\ victima' \in EnDeadlock
    /\ candidatas' = {}
    /\ IrDet("quitar")
    /\ UNCHANGED <<varsTodo, semDet, socorrido, leido, carrera>>

\* Mutant: it sleeps with the mutex.
MutDormir ==
    /\ \/ Analiza /\ Listadas \cap liberados = {} /\ EnEspera = {}
       \/ EnDet("reducir") /\ EnDeadlock = {}
    /\ candidatas' = {}
    /\ IrDet("duerme")
    /\ UNCHANGED <<varsTodo, victima, semDet, socorrido, leido, carrera>>

\* Nobody waits, or nobody is in deadlock.
Dormir ==
    /\ \/ Analiza /\ Listadas \cap liberados = {} /\ EnEspera = {}
       \/ EnDet("reducir") /\ EnDeadlock = {}
    /\ candidatas' = {}
    /\ mutexDeadlock' = Nadie
    /\ IrDet("duerme")
    /\ UNCHANGED <<cola, estado, sem, io, pc, tomado, clientes, fin, varsSem,
                   victima, semDet, socorrido, leido, carrera>>

\* The victim leaves BLOCKED, whose list is searched and changed without its
\* mutex: a SEM_WAIT that appends to it at once leaves it as it may ...
Quitar ==
    LET bloqueada == Contains(cola["blocked"], victima) IN
    /\ EnDet("quitar")
    /\ cola' = [cola EXCEPT !["blocked"] = RemoveFirst(@, victima)]
    /\ sem' = IF bloqueada THEN Post("grado") ELSE sem
    /\ carrera' = (carrera \/ \E k \in CPUs : pc[k] = "semEncolar")
    /\ IrDet(IF bloqueada THEN "quitarSem" ELSE "quitarSus")
    /\ UNCHANGED <<estado, io, mutexDeadlock, pc, tomado, clientes, fin, varsSem,
                   candidatas, victima, semDet, socorrido, leido>>

\* Mutant: a suspended victim is looked for in BLOCKED only.
MutQuitarSuspendida ==
    /\ EnDet("quitarSus")
    /\ IrDet("quitarSem")
    /\ UNCHANGED <<varsTodo, candidatas, victima, semDet, socorrido, leido, carrera>>

\* ... or, if it was not there, SUSP/BLOCKED ...
QuitarSuspendida ==
    /\ EnDet("quitarSus")
    /\ cola' = [cola EXCEPT !["susblocked"] = RemoveFirst(@, victima)]
    /\ IrDet("quitarSem")
    /\ UNCHANGED <<estado, sem, io, mutexDeadlock, pc, tomado, clientes, fin, varsSem,
                   candidatas, victima, semDet, socorrido, leido, carrera>>

\* ... and the queue of the semaphore it waits for, without its mutex either ...
QuitarDelSem ==
    LET s == Buscar(Espera(victima)) IN
    /\ EnDet("quitarSem")
    /\ colaSem' = [colaSem EXCEPT ![s] = RemoveFirst(@, victima)]
    /\ semDet' = s
    /\ carrera' = (carrera \/ EnEse(s, "semBloquear") > 0)
    /\ IrDet("leer")
    /\ UNCHANGED <<vars, objetos, valor, deadlockInfo, enCurso,
                   candidatas, victima, socorrido, leido>>

\* ... whose value goes up without mutexValorSemaforo: it is read ...
LeerValor ==
    /\ EnDet("leer")
    /\ leido' = valor[semDet]
    /\ IrDet("escribir")
    /\ UNCHANGED <<varsTodo, candidatas, victima, semDet, socorrido, carrera>>

\* Mutant: the instance the victim waited for is not given back.
MutEscribirValor ==
    /\ EnDet("escribir")
    /\ carrera' = (carrera \/ valor[semDet] # leido)
    /\ leido' = 0
    /\ semDet' = Nadie
    /\ IrDet("soltar")
    /\ UNCHANGED <<vars, objetos, cuentas, deadlockInfo, enCurso, candidatas, victima, socorrido>>

\* ... and written, and if a SEM_WAIT has changed it either update may be lost.
EscribirValor ==
    /\ EnDet("escribir")
    /\ \E v \in {leido + 1} \cup (IF valor[semDet] # leido THEN {valor[semDet]} ELSE {}) :
         valor' = [valor EXCEPT ![semDet] = v]
    /\ carrera' = (carrera \/ valor[semDet] # leido)
    /\ leido' = 0
    /\ semDet' = Nadie
    /\ IrDet("soltar")
    /\ UNCHANGED <<vars, objetos, colaSem, deadlockInfo, enCurso, candidatas, victima, socorrido>>

\* Semaphore by semaphore of the system, each instance the victim holds is
\* posted: kernel_sem_post, by the detector's thread.  The value goes up ...
Retenidos == {s \in ToSet(listaSem) : retiene[victima][nombre[s]] > 0}

SoltarInstancia ==
    /\ EnDet("soltar") /\ Retenidos # {}
    /\ LET s == listaSem[SelectInSeq(listaSem, LAMBDA i : i \in Retenidos)] IN
         /\ valor' = [valor EXCEPT ![s] = @ + 1]
         /\ LiberarInstancia(victima, s)
         /\ IF valor[s] < 0
            THEN semDet' = s /\ IrDet("sacar")
            ELSE UNCHANGED <<semDet, detector>>
    /\ UNCHANGED <<vars, objetos, colaSem, espera, enCurso, candidatas, victima, socorrido, leido, carrera>>

\* ... and the first of its queue comes out, if there is one ...
SacarDelSem ==
    /\ EnDet("sacar")
    /\ \/ /\ colaSem[semDet] = <<>>
          /\ semDet' = Nadie
          /\ carrera' = TRUE
          /\ IrDet("soltar")
          /\ UNCHANGED <<colaSem, socorrido>>
       \/ /\ colaSem[semDet] # <<>>
          /\ socorrido' = Head(colaSem[semDet])
          /\ colaSem' = [colaSem EXCEPT ![semDet] = Tail(@)]
          /\ IrDet("despertar")
          /\ UNCHANGED <<semDet, carrera>>
    /\ UNCHANGED <<vars, objetos, valor, deadlockInfo, enCurso, candidatas, victima, leido>>

\* ... to SUSP/READY, or out of BLOCKED, where it may not be yet, and to READY ...
DespertarSocorrido ==
    LET c == socorrido
        suspendido == estado[c] = "SUSBLOCKED"
        bloqueado == estado[c] = "BLOCKED"
    IN /\ EnDet("despertar")
       /\ c \notin liberados
       /\ estado' = IF suspendido THEN [estado EXCEPT ![c] = "SUSREADY"] ELSE estado
       /\ cola' = CASE suspendido -> Mover(c, "susblocked", "susready")
                    [] bloqueado -> [cola EXCEPT !["blocked"] = RemoveFirst(@, c)]
                    [] OTHER -> cola
       /\ sem' = IF suspendido THEN Post("hay") ELSE sem
       /\ carrera' = (carrera \/ (bloqueado /\ ~Contains(cola["blocked"], c)))
       /\ IrDet(IF bloqueado THEN "aReady" ELSE "retener")
       /\ UNCHANGED <<io, mutexDeadlock, pc, tomado, clientes, fin, varsSem,
                      candidatas, victima, semDet, socorrido, leido>>

SocorridoAReady ==
    /\ EnDet("aReady")
    /\ socorrido \notin liberados
    /\ Marcar(socorrido, "READY")
    /\ cola' = Encolar("ready", socorrido)
    /\ sem' = Post("ready")
    /\ IrDet("retener")
    /\ UNCHANGED <<io, mutexDeadlock, pc, tomado, clientes, fin, varsSem,
                   candidatas, victima, semDet, socorrido, leido, carrera>>

\* ... and holds the instance, though it may run, close and be freed by then.
RetenerSocorrido ==
    /\ EnDet("retener")
    /\ socorrido \notin liberados
    /\ espera' = [espera EXCEPT ![socorrido] = Nadie]
    /\ Retener(socorrido, semDet)
    /\ semDet' = Nadie
    /\ socorrido' = Nadie
    /\ IrDet("soltar")
    /\ UNCHANGED <<vars, objetos, cuentas, enCurso, candidatas, victima, leido, carrera>>

UsarSocorridoLiberado ==
    /\ EnDet("retener")
    /\ socorrido \in liberados
    /\ Caer("indefinido")
    /\ UNCHANGED <<varsSem, varsDet>>

\* The victim holds nothing more: it is told and its PCB freed.
Finalizar ==
    /\ EnDet("soltar") /\ Retenidos = {}
    /\ liberados' = liberados \cup {victima}
    /\ victima' = Nadie
    /\ IrDet("otraVez")
    /\ UNCHANGED <<cola, estado, sem, io, mutexDeadlock, pc, tomado, clientes, fallo, varsSem,
                   candidatas, semDet, socorrido, leido, carrera>>

Detector ==
    \/ Filtrar \/ LeerLiberado \/ ElegirVictima \/ Dormir
    \/ Quitar \/ QuitarSuspendida \/ QuitarDelSem \/ LeerValor \/ EscribirValor
    \/ SoltarInstancia \/ SacarDelSem \/ DespertarSocorrido \/ SocorridoAReady
    \/ RetenerSocorrido \/ UsarSocorridoLiberado \/ Finalizar
-----------------------------------------------------------------------------
\* A carpincho makes the next request of its script ...
Pedir(k) ==
    LET c == tomado[k]
        hechos == pedidos[c]
    IN /\ c # Nadie
       /\ hechos < Len(guion[c])
       /\ LET pedido == guion[c][hechos + 1] IN
            \/ pedido[1] = "wait" /\ AtenderSemWait(k, pedido[2])
            \/ pedido[1] = "post" /\ AtenderSemPost(k, pedido[2])

\* ... and closes at its end.
CierreEnFecha == \A c \in cerrados' \ cerrados : pedidos[c] = Len(guion[c])

Sistema == NextSem /\ pedidos' = pedidos /\ CierreEnFecha

NextDet ==
    /\ \/ (Sistema \/ \E k \in CPUs : Pedir(k)) /\ UNCHANGED varsDet
       \/ Detector
    /\ UNCHANGED guion

SpecDet == InitDet /\ [][NextDet]_varsSistema

\* The threads run, and so does the detector, whenever it finds mutexDeadlock free.
\* It sleeps between two analyses, and those that wait for the mutex get it then.
Libre(A) == A /\ UNCHANGED <<varsSem, guion, varsDet>>
JusticiaDet ==
    /\ WF_varsSistema(Detector /\ UNCHANGED guion)
    /\ WF_varsSistema(Libre(\E c \in Carpinchos : Alta(c)))
    /\ WF_varsSistema(Libre(Largo))
    /\ WF_varsSistema(Libre(Liberador))
    /\ SF_varsSistema(Libre(Mediano))
    /\ WF_varsSistema(Libre(SusReady))
    /\ \A k \in CPUs :
         SF_varsSistema(/\ \/ Pedir(k)
                           \/ /\ \/ (CPU(k) \/ UsarLiberado(k)) /\ UNCHANGED varsSem
                                 \/ SemWait(k) \/ SemPost(k) \/ FinPedido(k)
                                 \/ UsarColgado(k)
                              /\ UNCHANGED pedidos /\ CierreEnFecha
                        /\ UNCHANGED <<guion, varsDet>>)

SpecDetJusta == SpecDet /\ JusticiaDet
-----------------------------------------------------------------------------
\* The PCBs that a post has taken from the queue of s and not yet given it to.
Sacados(s) ==
    Cardinality({k \in CPUs : semDe[k] = s /\ despierta[k] # Nadie /\ pc[k] # "semLog"})
    + Uno(semDet = s /\ socorrido # Nadie)

\* Through posts, waits, suspensions and recoveries no instance of a lock is
\* lost or made: it is in the value, held by a carpincho, or on its way to one,
\* and each PCB that waits for it has taken one from the value.  So it is until
\* the detector meets a SEM_WAIT half way.
Conservacion ==
    fallo = "no" /\ ~carrera =>
        \A s \in {i \in Semaforos : nombre[i] \notin Senales} :
            valor[s] + Len(colaSem[s]) + Sacados(s)
            + EnEse(s, "semBloquear") + EnEse(s, "semTomada")
            + FoldSet(LAMBDA c, n : retiene[c][nombre[s]] + n, 0, Carpinchos)
            + Uno(semDet = s /\ detector \in {"leer", "escribir"}) = 1

\* Nothing refers to a PCB that has ended, be it a victim, suspended or not,
\* taken by the detector from three lists, or one that closed.
SinRastro ==
    fallo = "no" /\ ~carrera =>
        \A c \in liberados :
            /\ \A q \in Colas : ~Contains(cola[q], c)
            /\ \A s \in Semaforos : ~Contains(colaSem[s], c)

\* The detector kills only those who could never go on: with semaphores of one
\* instance a victim belongs to a set of PCBs that wait for each other, though
\* the matrices are read while SEM_WAIT goes on in a CPU.
SoloReales ==
    [][victima = Nadie /\ victima' # Nadie =>
         \E D \in SUBSET Carpinchos :
            victima' \in D /\ EsDeadlock(Peticiones, Asignados, D)]_varsSistema

\* The system is stuck out of the detector's reach: somebody in SUSP/READY holds
\* what all the others wait for, and they hold the degree of multiprogramming.
\* A PCB is suspended only if there is one in NEW.
SinLugar ==
    /\ cola["susready"] # <<>>
    /\ cola["new"] = <<>> /\ sem["grado"] = 0
    /\ \A c \in Carpinchos \ (liberados \cup ToSet(cola["susready"])) : espera[c] # Nadie

\* Every carpincho ends, by its MATE_CLOSE or as a victim, whatever they wait
\* for, unless the kernel falls, the detector has met a SEM_WAIT half way, or
\* from some moment on nobody gives a place to the one the others wait for.
TodosSalen == <>(liberados = Carpinchos \/ fallo # "no" \/ carrera) \/ <>[]SinLugar
=============================================================================
