----------------------------- MODULE Semaforos -----------------------------
(***************************************************************************)
(* The kernel's semaphores on top of the scheduler: SEM_INIT, SEM_WAIT,    *)
(* SEM_POST and SEM_DESTROY of __realizar_tarea, kernel_sem_wait and       *)
(* kernel_sem_post, and what each PCB records for the deadlock detector    *)
(* (semaforosQueRetiene, esperaEnSemaforo).                                *)
(*                                                                         *)
(* The steps are those of Planificacion plus the ones of a CPU inside a    *)
(* semaphore request.  SEM_POST runs under mutexDeadlock and SEM_WAIT does *)
(* not, so that the steps of a wait interleave with those of a post made   *)
(* by another CPU.  A semaphore is an object with a name: the list of the  *)
(* system may hold two of one name, and a CPU may hold a pointer to one    *)
(* that is already freed.                                                  *)
(***************************************************************************)
EXTENDS Planificacion

CONSTANTS
    NombresSem,    \* the names clients give to semaphores
    Iniciales,     \* the initial values clients ask for in SEM_INIT
    MaxSemaforos   \* bound: the semaphores created in a run

Semaforos == 1..MaxSemaforos

ASSUME ConstantesSemOK ==
    /\ IsFiniteSet(NombresSem)
    /\ Iniciales \subseteq Int
    /\ MaxSemaforos \in Nat
    /\ Nadie \notin NombresSem \cup Semaforos \cup CPUs

VARIABLES
    listaSem,    \* semaforosDelSistema
    nombre,      \* name of each semaphore, Nadie before it is created
    valor,       \* valorActual
    colaSem,     \* colaPCBs
    semLibres,   \* semaphores freed by recurso_sem_destroy
    retiene,     \* semaforosQueRetiene: the instances each PCB holds, by name
    espera,      \* esperaEnSemaforo of each PCB, or Nadie
    semDe,       \* the semaphore of the request each CPU serves, or Nadie
    despierta    \* the PCB a CPU has popped from a semaphore, or Nadie

objetos == <<listaSem, nombre, semLibres>>
cuentas == <<valor, colaSem>>
deadlockInfo == <<retiene, espera>>
enCurso == <<semDe, despierta>>
varsSem == <<objetos, cuentas, deadlockInfo, enCurso>>
varsTodo == <<vars, varsSem>>

InitSem ==
    /\ Init
    /\ listaSem = <<>>
    /\ nombre = [i \in Semaforos |-> Nadie]
    /\ valor = [i \in Semaforos |-> 0]
    /\ colaSem = [i \in Semaforos |-> <<>>]
    /\ semLibres = {}
    /\ retiene = [c \in Carpinchos |-> [n \in NombresSem |-> 0]]
    /\ espera = [c \in Carpinchos |-> Nadie]
    /\ semDe = [k \in CPUs |-> Nadie]
    /\ despierta = [k \in CPUs |-> Nadie]
-----------------------------------------------------------------------------
\* A freed PCB or semaphore that CPU k is about to use.
Colgado(k) ==
    \/ tomado[k] \in liberados
    \/ semDe[k] \in semLibres
    \/ despierta[k] \in liberados

\* CPU k serves a semaphore request and is about to take the step labelled e.
EnSem(k, e) == En(k, e) /\ ~Colgado(k)

\* list_find2 by name: the first of the list.
Buscar(n) ==
    LET i == SelectInSeq(listaSem, LAMBDA s : nombre[s] = n)
    IN IF i = 0 THEN Nadie ELSE listaSem[i]

\* A request arrives, and the CPU goes on to the step labelled e.
Recibir(k, e) ==
    /\ Pide(k)
    /\ credito' = [credito EXCEPT ![tomado[k]] = @ - 2]
    /\ Ir(k, e)

\* The answer, and the OK_CONTINUE of the next turn of the loop.
Responder(k) ==
    /\ credito' = [credito EXCEPT ![tomado[k]] = @ + 2]
    /\ semDe' = [semDe EXCEPT ![k] = Nadie]
    /\ despierta' = [despierta EXCEPT ![k] = Nadie]
    /\ Ir(k, "atender")

\* The request is done.  What it did is logged, with the semaphore and the PCBs
\* read outside every mutex, and then it is answered.
FinPedido(k) ==
    /\ EnSem(k, "semLog")
    /\ Responder(k)
    /\ UNCHANGED <<cola, estado, sem, io, tomado, pedidos, cerrados, fin,
                   mutexDeadlock, objetos, cuentas, deadlockInfo>>

\* The request ends where it began: nothing but the number of requests changes.
ResponderYa(k) == Pide(k) /\ UNCHANGED <<credito, pc, semDe>>

SinPlanificar == UNCHANGED <<cola, estado, sem, io, tomado, cerrados, fin>>

\* retener_una_instancia_del_semaforo, liberar_una_instancia_del_semaforo
Retener(c, s) == retiene' = [retiene EXCEPT ![c][nombre[s]] = @ + 1]
\* Mutant: the count goes down for a PCB that holds no instance too.
MutLiberarInstancia(c, s) == retiene' = [retiene EXCEPT ![c][nombre[s]] = @ - 1]
LiberarInstancia(c, s) ==
    retiene' = [retiene EXCEPT ![c][nombre[s]] = IF @ > 0 THEN @ - 1 ELSE 0]

\* The request names a semaphore: the answer comes at once unless the list has
\* it, and the CPU keeps a pointer to it after the list's mutex is released.
Encontrar(k, n, e) ==
    /\ \/ Buscar(n) = Nadie /\ ResponderYa(k)
       \/ /\ Buscar(n) # Nadie
          /\ Recibir(k, e)
          /\ semDe' = [semDe EXCEPT ![k] = Buscar(n)]
    /\ SinPlanificar
    /\ UNCHANGED <<mutexDeadlock, objetos, cuentas, deadlockInfo, despierta>>
-----------------------------------------------------------------------------
\* SEM_INIT: the list is searched ...
AtenderSemInit(k) ==
    /\ \E n \in NombresSem :
         \/ Buscar(n) # Nadie /\ ResponderYa(k) /\ UNCHANGED <<nombre, valor>>
         \/ \E i \in Semaforos, v \in Iniciales :
              /\ Buscar(n) = Nadie
              /\ nombre[i] = Nadie
              /\ \A j \in Semaforos : j < i => nombre[j] # Nadie
              /\ Recibir(k, "semCrear")
              /\ nombre' = [nombre EXCEPT ![i] = n]
              /\ valor' = [valor EXCEPT ![i] = v]
              /\ semDe' = [semDe EXCEPT ![k] = i]
    /\ SinPlanificar
    /\ UNCHANGED <<mutexDeadlock, listaSem, semLibres, colaSem, deadlockInfo, despierta>>

\* ... and, in a second critical section, the new semaphore is appended.
CrearSem(k) ==
    /\ EnSem(k, "semCrear")
    /\ listaSem' = Append(listaSem, semDe[k])
    /\ semDe' = [semDe EXCEPT ![k] = Nadie]
    /\ Ir(k, "semLog")
    /\ SinPlanificar
    /\ UNCHANGED <<credito, mutexDeadlock, pedidos, nombre, semLibres, cuentas,
                   deadlockInfo, despierta>>
-----------------------------------------------------------------------------
\* SEM_WAIT, kernel_sem_wait: the value goes down ...
AtenderSemWait(k, n) == Encontrar(k, n, "semWait")

\* Mutant: it blocks on the value before the decrement.
MutRestarAntes(k) ==
    /\ EnSem(k, "semWait")
    /\ valor' = [valor EXCEPT ![semDe[k]] = @ - 1]
    /\ Ir(k, IF valor[semDe[k]] >= 0 THEN "semTomada" ELSE "semBloquear")
    /\ SinPlanificar
    /\ UNCHANGED <<credito, mutexDeadlock, pedidos, objetos, colaSem, deadlockInfo, enCurso>>

\* Mutant: it blocks when the last instance is taken.
MutRestarInstancia(k) ==
    /\ EnSem(k, "semWait")
    /\ valor' = [valor EXCEPT ![semDe[k]] = @ - 1]
    /\ Ir(k, IF valor[semDe[k]] > 1 THEN "semTomada" ELSE "semBloquear")
    /\ SinPlanificar
    /\ UNCHANGED <<credito, mutexDeadlock, pedidos, objetos, colaSem, deadlockInfo, enCurso>>

RestarInstancia(k) ==
    /\ EnSem(k, "semWait")
    /\ valor' = [valor EXCEPT ![semDe[k]] = @ - 1]
    /\ Ir(k, IF valor[semDe[k]] > 0 THEN "semTomada" ELSE "semBloquear")
    /\ SinPlanificar
    /\ UNCHANGED <<credito, mutexDeadlock, pedidos, objetos, colaSem, deadlockInfo, enCurso>>

\* ... if it is not negative, the PCB holds the instance ...
RetenerTomada(k) ==
    /\ EnSem(k, "semTomada")
    /\ Retener(tomado[k], semDe[k])
    /\ Ir(k, "semLog")
    /\ SinPlanificar
    /\ UNCHANGED <<credito, mutexDeadlock, pedidos, objetos, cuentas, espera, enCurso>>

\* ... and if it is, the PCB leaves EXEC and joins the semaphore's queue ...
BloquearEnSem(k) ==
    /\ EnSem(k, "semBloquear")
    /\ cola' = [cola EXCEPT !["exec"] = RemoveFirst(@, tomado[k])]
    /\ Marcar(tomado[k], "BLOCKED")
    /\ espera' = [espera EXCEPT ![tomado[k]] = semDe[k]]
    /\ colaSem' = [colaSem EXCEPT ![semDe[k]] = Append(@, tomado[k])]
    /\ Ir(k, "semEncolar")
    /\ UNCHANGED <<sem, io, mutexDeadlock, tomado, clientes, fin, objetos, valor,
                   retiene, enCurso>>

\* ... then BLOCKED, without mutexDeadlock: the semaphore's queue showed it first.
EncolarEnBlocked(k) ==
    /\ EnSem(k, "semEncolar")
    /\ cola' = Encolar("blocked", tomado[k])
    /\ sem' = Post("despertar")
    /\ Ir(k, "espSem")
    /\ UNCHANGED <<estado, io, mutexDeadlock, tomado, clientes, fin, varsSem>>

\* The suspension has been considered: the answer goes out.
TerminarSemWait(k) ==
    /\ EnSem(k, "espSem")
    /\ Puede("concluida")
    /\ sem' = Wait("concluida")
    /\ credito' = [credito EXCEPT ![tomado[k]] = @ + 1]
    /\ semDe' = [semDe EXCEPT ![k] = Nadie]
    /\ Ir(k, "estimar")
    /\ UNCHANGED <<cola, estado, io, mutexDeadlock, tomado, pedidos, cerrados,
                   fin, objetos, cuentas, deadlockInfo, despierta>>
-----------------------------------------------------------------------------
\* SEM_POST, kernel_sem_post, all of it under mutexDeadlock: the value goes up ...
AtenderSemPost(k, n) == Encontrar(k, n, "semPost")

SumarInstancia(k) ==
    /\ EnSem(k, "semPost")
    /\ mutexDeadlock = Nadie
    /\ valor' = [valor EXCEPT ![semDe[k]] = @ + 1]
    /\ LiberarInstancia(tomado[k], semDe[k])
    /\ \/ /\ valor[semDe[k]] < 0
          /\ mutexDeadlock' = k
          /\ Ir(k, "semPop")
       \/ /\ valor[semDe[k]] >= 0
          /\ Ir(k, "semLog")
          /\ UNCHANGED mutexDeadlock
    /\ SinPlanificar
    /\ UNCHANGED <<credito, pedidos, objetos, colaSem, espera, enCurso>>

\* ... the first PCB of the queue comes out, if the one that blocks is already
\* there; mutexDeadlock keeps its status as it is read ...
SacarDeSem(k) ==
    /\ EnSem(k, "semPop")
    /\ LET s == semDe[k] IN
       \/ /\ colaSem[s] = <<>>
          /\ mutexDeadlock' = Nadie
          /\ Ir(k, "semLog")
          /\ UNCHANGED <<colaSem, despierta>>
       \/ /\ colaSem[s] # <<>>
          /\ despierta' = [despierta EXCEPT ![k] = Head(colaSem[s])]
          /\ colaSem' = [colaSem EXCEPT ![s] = Tail(@)]
          /\ Ir(k, "semDespertar")
          /\ UNCHANGED mutexDeadlock
    /\ SinPlanificar
    /\ UNCHANGED <<credito, pedidos, objetos, valor, deadlockInfo, semDe>>

\* Mutant: it does not look whether the PCB was suspended.
MutDespertarDeSem(k) ==
    /\ EnSem(k, "semDespertar")
    /\ cola' = [cola EXCEPT !["blocked"] = RemoveFirst(@, despierta[k]),
                            !["susblocked"] = RemoveFirst(@, despierta[k])]
    /\ Ir(k, "semAReady")
    /\ UNCHANGED <<estado, sem, io, mutexDeadlock, tomado, clientes, fin, varsSem>>

\* ... and goes from SUSP/BLOCKED to SUSP/READY, from BLOCKED to READY ...
DespertarDeSem(k) ==
    /\ EnSem(k, "semDespertar")
    /\ LET c == despierta[k] IN
       \/ /\ estado[c] = "SUSBLOCKED"
          /\ Marcar(c, "SUSREADY")
          /\ cola' = Mover(c, "susblocked", "susready")
          /\ sem' = Post("hay")
          /\ Ir(k, "semRetener")
       \/ /\ estado[c] = "BLOCKED"
          /\ cola' = [cola EXCEPT !["blocked"] = RemoveFirst(@, c)]
          /\ Ir(k, "semAReady")
          /\ UNCHANGED <<estado, sem>>
       \/ /\ estado[c] \notin {"SUSBLOCKED", "BLOCKED"}
          /\ Ir(k, "semRetener")
          /\ UNCHANGED <<cola, estado, sem>>
    /\ UNCHANGED <<io, mutexDeadlock, tomado, clientes, fin, varsSem>>

DeSemAReady(k) ==
    /\ EnSem(k, "semAReady")
    /\ Marcar(despierta[k], "READY")
    /\ cola' = Encolar("ready", despierta[k])
    /\ sem' = Post("ready")
    /\ Ir(k, "semRetener")
    /\ UNCHANGED <<io, mutexDeadlock, tomado, clientes, fin, varsSem>>

\* Mutant: the woken PCB still waits for the semaphore.
MutTerminarSemPost(k) ==
    /\ EnSem(k, "semRetener")
    /\ Retener(despierta[k], semDe[k])
    /\ mutexDeadlock' = Nadie
    /\ Ir(k, "semLog")
    /\ SinPlanificar
    /\ UNCHANGED <<credito, pedidos, objetos, cuentas, espera, enCurso>>

\* ... and only then does it hold the instance and wait for nothing.
TerminarSemPost(k) ==
    /\ EnSem(k, "semRetener")
    /\ espera' = [espera EXCEPT ![despierta[k]] = Nadie]
    /\ Retener(despierta[k], semDe[k])
    /\ mutexDeadlock' = Nadie
    /\ Ir(k, "semLog")
    /\ SinPlanificar
    /\ UNCHANGED <<credito, pedidos, objetos, cuentas, enCurso>>
-----------------------------------------------------------------------------
\* SEM_DESTROY: a semaphore whose queue is empty, read without its mutex ...
AtenderSemDestroy(k, n) == Encontrar(k, n, "semDestruir")

\* Mutant: PCBs that wait for the semaphore do not keep it from being destroyed.
MutMirarCola(k) ==
    /\ EnSem(k, "semDestruir")
    /\ Ir(k, "semQuitar")
    /\ UNCHANGED <<cola, estado, sem, io, mutexDeadlock, tomado, clientes, fin, varsSem>>

MirarCola(k) ==
    /\ EnSem(k, "semDestruir")
    /\ Ir(k, IF colaSem[semDe[k]] = <<>> THEN "semQuitar" ELSE "semLog")
    /\ UNCHANGED <<cola, estado, sem, io, mutexDeadlock, tomado, clientes, fin, varsSem>>

\* ... goes out of the list by its name, again without the mutex ...
SacarDeLista(k) ==
    /\ EnSem(k, "semQuitar")
    /\ LET s == Buscar(nombre[semDe[k]]) IN
       \/ /\ s # Nadie
          /\ listaSem' = RemoveFirst(listaSem, s)
          /\ Ir(k, "semLiberar")
          /\ UNCHANGED fallo
       \/ /\ s = Nadie
          /\ fallo' = "indefinido"
          /\ UNCHANGED <<listaSem, pc>>
    /\ UNCHANGED <<cola, estado, sem, io, mutexDeadlock, tomado, clientes, liberados,
                   nombre, semLibres, cuentas, deadlockInfo, enCurso>>

\* ... and is freed.
DestruirSem(k) ==
    /\ EnSem(k, "semLiberar")
    /\ semLibres' = semLibres \cup {semDe[k]}
    /\ Responder(k)
    /\ SinPlanificar
    /\ UNCHANGED <<mutexDeadlock, pedidos, listaSem, nombre, cuentas, deadlockInfo>>
-----------------------------------------------------------------------------
\* A CPU goes on with a PCB or a semaphore that has been freed.
UsarColgado(k) ==
    /\ fallo = "no"
    /\ pc[k] \in EtiquetasSem
    /\ pc[k] = "espSem" => Puede("concluida")
    /\ Colgado(k)
    /\ Caer("indefinido")
    /\ UNCHANGED varsSem

SemInit(k) == AtenderSemInit(k) \/ CrearSem(k)
SemWait(k) ==
    \/ \E n \in NombresSem : AtenderSemWait(k, n)
    \/ RestarInstancia(k) \/ RetenerTomada(k)
    \/ BloquearEnSem(k) \/ EncolarEnBlocked(k) \/ TerminarSemWait(k)
SemPost(k) ==
    \/ \E n \in NombresSem : AtenderSemPost(k, n)
    \/ SumarInstancia(k) \/ SacarDeSem(k)
    \/ DespertarDeSem(k) \/ DeSemAReady(k) \/ TerminarSemPost(k)
SemDestroy(k) ==
    \/ \E n \in NombresSem : AtenderSemDestroy(k, n)
    \/ MirarCola(k) \/ SacarDeLista(k) \/ DestruirSem(k)

NextSem ==
    \/ Next /\ UNCHANGED varsSem
    \/ \E k \in CPUs :
         \/ SemInit(k) \/ SemWait(k) \/ SemPost(k) \/ SemDestroy(k)
         \/ FinPedido(k) \/ UsarColgado(k)

SpecSem == InitSem /\ [][NextSem]_varsTodo
-----------------------------------------------------------------------------
\* Type invariant.
TypeSemOK ==
    /\ cola \in [Colas -> Seq(Carpinchos)]
    /\ estado \in [Carpinchos -> Estados]
    /\ sem \in [Contadores -> Nat]
    /\ mutexDeadlock \in Dispositivos \cup CPUs \cup {Nadie}
    /\ pc \in [Hilos -> Etiquetas \cup EtiquetasSem]
    /\ listaSem \in Seq(Semaforos)
    /\ nombre \in [Semaforos -> NombresSem \cup {Nadie}]
    /\ valor \in [Semaforos -> Int]
    /\ colaSem \in [Semaforos -> Seq(Carpinchos)]
    /\ semLibres \subseteq Semaforos
    /\ retiene \in [Carpinchos -> [NombresSem -> Nat]]
    /\ espera \in [Carpinchos -> Semaforos \cup {Nadie}]
    /\ semDe \in [CPUs -> Semaforos \cup {Nadie}]
    /\ despierta \in [CPUs -> Carpinchos \cup {Nadie}]

\* The CPUs that serve semaphore s and are at label e.
EnEse(s, e) == Cardinality({k \in CPUs : semDe[k] = s /\ pc[k] = e})

\* The PCBs blocked at s, counting a wait that has already taken its value and
\* discounting a post that has already given it back.
Bloqueados(s) == Len(colaSem[s]) + EnEse(s, "semBloquear") - EnEse(s, "semPop")
Deuda(s) == IF valor[s] < 0 THEN -valor[s] ELSE 0

\* A negative value of a semaphore never promises more PCBs to wake than there
\* are: posts and waits of different CPUs interleave, and a PCB may be left in
\* the queue that no post will wake, never the opposite.
NuncaDeMenos ==
    fallo = "no" => \A s \in Semaforos \ semLibres : Bloqueados(s) >= Deuda(s)

\* "Viene de BLOCKED => hay que eliminarlo de la lista general de bloqueados":
\* the BLOCKED PCB a post wakes is in BLOCKED.
DesbloqueoEnBlocked ==
    \A k \in CPUs :
        EnSem(k, "semDespertar") /\ estado[despierta[k]] = "BLOCKED"
            => Contains(cola["blocked"], despierta[k])

\* With one CPU a semaphore's value, when negative, is exactly the number of
\* PCBs blocked at it: no wake-up is lost.
CuentaSemaforo ==
    fallo = "no" => \A s \in Semaforos \ semLibres : Bloqueados(s) = Deuda(s)

\* The queue of s as a post or a wait that has already changed the value leaves it.
ColaPrevista(s) ==
    (IF EnEse(s, "semPop") > 0 THEN Tail(colaSem[s]) ELSE colaSem[s])
    \o SetToSeq({tomado[k] : k \in {h \in CPUs : semDe[h] = s /\ pc[h] = "semBloquear"}})

\* With one CPU the requests implement the abstract semaphores: each takes
\* effect when it changes the list or the value, and waiting is first come,
\* first served.
Abstractos == INSTANCE SemaforosAbstractos
    WITH Valores <- Iniciales,
         existe <- ToSet(listaSem),
         disponibles <- [s \in Semaforos |->
             IF Contains(listaSem, s) /\ valor[s] > 0 THEN valor[s] ELSE 0],
         esperando <- [s \in Semaforos |-> ColaPrevista(s)]
SonSemaforos == Abstractos!Spec

\* With one CPU and no I/O what the deadlock detector reads is right whenever no
\* post is under way: a PCB waits for the semaphore in whose queue it is, and it
\* is in BLOCKED or in SUSP/BLOCKED as its status says.
EsperaEnSuCola ==
    fallo = "no" =>
        \A c \in Carpinchos \ liberados :
            (\A k \in CPUs : despierta[k] = c => pc[k] = "semLog") =>
                /\ espera[c] = Nadie => \A s \in Semaforos : ~Contains(colaSem[s], c)
                /\ espera[c] # Nadie =>
                     /\ Veces(c, "exec") + Veces(c, "ready") = 0
                     /\ Cardinality({i \in DOMAIN colaSem[espera[c]] : colaSem[espera[c]][i] = c}) = 1
                     /\ \/ estado[c] = "SUSBLOCKED" /\ Veces(c, "susblocked") = 1
                        \/ estado[c] = "BLOCKED" /\ Veces(c, "blocked") = 1
                        \/ \E k \in CPUs : tomado[k] = c /\ pc[k] = "semEncolar"

\* With one CPU and no I/O, semaphores alone keep the degree of multiprogramming
\* exact: a post reads the status under mutexDeadlock, so no PCB leaves a stale
\* entry in SUSP/BLOCKED.
GradoExacto ==
    fallo = "no" =>
        sem["grado"] + sem["transicionar"]
        + Cuantos({"mirar", "sacar", "aReady", "liberar", "registrarSuspension",
                   "semEncolar", "semAReady"})
        + Len(cola["ready"]) + Len(cola["exec"]) + Len(cola["blocked"]) + Len(cola["exit"])
        = GradoMultiprog
=============================================================================
