# A TLA+ model of capy-scheduler

capy-scheduler is a kernel that schedules *carpinchos*: client programs linked
with `matelib` that connect over a socket and ask for semaphores, I/O and memory.
The kernel is one process with many threads. Its lists are protected one by one
with mutexes, and its threads wait for each other with POSIX semaphores, so that
almost everything that can go wrong in it is an order of steps. This directory
holds modules that model it, model-checked with TLC on small instances, and
proofs of most of its invariants, for any instance, checked with TLAPS.

## 1. Inventory

| Component | State | Operations | What makes it correct |
|---|---|---|---|
| Handler of a connection (`encolar_en_new_...`) | `nextPid`, `pcbsNew` | MATE_INIT: pid, answer, PCB to NEW, evaluate suspension, announce | every carpincho that connects is admitted |
| Long term (`__iniciar_largo_plazo`, `__liberar_carpinchos_en_exit`) | `gradoMultiprog`, `hayPCBsParaAgregarAlSistema`, NEW, EXIT | admit from SUSP/READY or NEW; free the PCBs of EXIT | the degree of multiprogramming; no pop of an empty list |
| Medium term (`__iniciar_mediano_plazo`, `__transicion_susready_a_ready`) | BLOCKED, SUSP/BLOCKED, SUSP/READY, the handshake `despertarMedianoPlazo` / `suspensionConcluida`, `transicionarSusReadyAready` | suspend the last of BLOCKED; bring back from SUSP/READY | every evaluation is answered; no PCB lost or duplicated |
| CPUs (`__iniciar_corto_plazo`), GRADO_MULTIPROCESAMIENTO of them | READY, EXEC | choose (SJF or HRRN), dispatch, serve requests until one blocks | a PCB has one CPU; a freed PCB is not used |
| I/O devices | queue and semaphore of each | take a PCB, sleep, unblock it | every I/O wakes its PCB |
| Kernel semaphores (`kernel_sem_wait`, `kernel_sem_post`, `recurso_sem.c`) | list of semaphores, value and queue of each, what each PCB holds and waits for | SEM_INIT, SEM_WAIT, SEM_POST, SEM_DESTROY | counting semaphores, first come first served; no lost wake-up |
| Deadlock detector (`deadlock.c`) | the two matrices, built from the PCBs | reduce, choose the highest PID, release what it holds, finalize | finds the deadlocks there are, and only those; recovery leaves lists and values right |
| Memory adapter (`mem_adapter.c`) | the memory socket, `mutexMemSocket` | MEM_*, SUSPEND_CARPINCHO, MATE_CLOSE | one conversation at a time |
| matelib | socket, pid | `mate_*` | a call returns when its PCB has the CPU, and returns |
| Estimates and algorithms (`sjf.c`, `hrrn.c`, `pcb.c`) | estimates of each PCB | exponential average, minimum estimate, maximum response ratio | the right PCB is chosen |
| Start, connections, configuration, buffers | – | sequential | – |

Threads share the lists and semaphores above; they call each other only through
`__evaluar_suspension`, a handshake in which a handler, a CPU or (through a CPU)
a request wakes the medium-term scheduler and waits for its answer. `mutexDeadlock`
is meant to keep the suspension, the unblocking of PCBs, the posts and the
detector from each other. Carpinchos and the memory module talk to the kernel
over sockets.

What is hard to test: every item of `hazards` in `PROJECT.json`, each at its
line. In short: conditions read in one critical section and used in another (the
double dispatch, the two tests of a device, the evaluation of a suspension, the
two posts for one SUSP/READY PCB, SEM_INIT, SEM_DESTROY), `kernel_sem_wait`
outside `mutexDeadlock`, PCBs used after they have been made visible or freed,
semaphores that must count lists nobody checks for empty, and messages of
different threads to one client.

## 2. Modules

| Module | Models | Extends |
|---|---|---|
| `Planificacion` | every thread of `scheduler.c` but the detector | – |
| `MCPlanificacion` | instances of it for TLC | `Planificacion` |
| `PlanificacionProofs` | types of the state, lemmas on queues, what each POSIX semaphore counts | `Planificacion` |
| `LugaresProofs` | with one CPU: where each PCB is, who has it in charge | `PlanificacionProofs` |
| `GradoProofs` | with one CPU: the degree of multiprogramming | `LugaresProofs` |
| `SemaforosAbstractos` | what the kernel promises of semaphores | – |
| `Semaforos` | SEM_* requests composed with the scheduler; refinement | `Planificacion` |
| `MCSemaforos` | instances of it for TLC | `Semaforos` |
| `SemaforosProofs` | types, counts and promises of the composition | `Semaforos`, `PlanificacionProofs` |
| `EsperasProofs` | with one CPU: who may put each PCB in a queue; the refinement of `SemaforosAbstractos` | `SemaforosProofs`, `LugaresProofs` |
| `DormidosProofs` | with one CPU and no devices: what the detector reads of a PCB that waits; the exact degree | `EsperasProofs`, `GradoProofs` |
| `Matrices` | the two matrices of the deadlock detector, as functions of what PCBs wait for and hold | – |
| `Reduccion` | the loop that reduces them, pass by pass | `Matrices` |
| `Deteccion` | the detector's thread composed with the scheduler and the semaphores | `Semaforos`, `Matrices` |
| `MCDeteccion` | three programs that deadlock | `Deteccion` |
| `Seleccion` | SJF, HRRN and the estimates | – |
| `MCAlgoritmos` | instances of `Reduccion` and `Seleccion` for TLC | `Reduccion`, `Seleccion` |
| `AlgoritmosProofs` | what the reduction computes; which PCB is chosen, and by what estimates | `Reduccion`, `Seleccion` |
| `Protocolo` | matelib, the kernel and the memory module as parties that exchange messages | – |
| `ProtocoloProofs` | what is on its way in each conversation | `Protocolo` |

### Planificacion

The seven lists are `cola`, the POSIX semaphores `sem` (and `ioInst` for the
devices), the status of a PCB `estado`, the PCB in a local variable of a thread
`tomado`, and where a thread is `pc`. A PCB is named by its carpincho: the
code's lists hold pointers and are searched by pointer (`__get_pcb_index`). Only the
detector compares PIDs, so `nextPid` is not modelled.

*Grain.* A step is one access to shared state that another thread may observe (in
the code a critical section of one mutex, or an unprotected read), with the P of
a POSIX semaphore right before it and the V and the thread's own updates right
after. Only `__grado_multiprog` reads the value of a semaphore, so the P of
`gradoMultiprog` is a step of its own (`TomarGrado`) and the others commute with
what they are merged with. The reads of `__existe_caso_de_suspension` are four
steps; the two tests of a device are two; the choice of a PCB and its removal are
two. `mutexDeadlock` is a variable where it is held over more than one step. The
last thing a thread does with a PCB is often to log it, after it has put it in a
list where another thread may take it (scheduler.c:198, 230, 285, 292, 607, 703,
726): that read is a step of its own (`RegistrarAlta`, `RegistrarReady`,
`RegistrarSuspension`, `RegistrarExit`, `RegistrarIO`; `Registrando` is the set of
their labels), so that the PCB can run, close and be freed before it.

*Data left out.* Which PCB of READY an algorithm chooses is nondeterministic
(`Elegir`), which covers SJF and HRRN; `Seleccion` models the choice. Times,
estimates and what logs say are left out.
Where the code dereferences NULL or a freed PCB the model stops: `fallo` holds
the thread that did it, `"indefinido"` for freed memory or an opcode that a closed
socket never wrote, or `"registro"` when only a
log reads it, and no action is enabled any more. The log of a freed PCB may also
print a wrong number and go on: both outcomes are in the model (`UsarLiberado`
and the ordinary step).

*Bounds.* `MaxPedidos`, the requests of a carpincho before MATE_CLOSE. `credito`
counts the OK_CONTINUE a client has not read, for the double dispatch: a request
is made only by a client whose turn it is.

### Semaforos

Adds the requests on semaphores to the CPUs of `Planificacion`. A semaphore is an
object of the heap (`1..MaxSemaforos`), with a name, a value and a queue; the
list of the system is `listaSem`, searched by name, and a CPU keeps a pointer
(`semDe`) that another can free. `kernel_sem_wait` has no lock over its steps: the
value; then the record of the instance held, or EXEC, the status and the semaphore's
queue, BLOCKED, and the answer of the suspension. `kernel_sem_post` is up to five
under `mutexDeadlock`. SEM_DESTROY reads the queue (`MirarCola`), removes from the list
(`SacarDeLista`) and frees (`DestruirSem`), three steps without a mutex. A request that did not block
is logged with its semaphore and the PCBs before it is answered (`FinPedido`). What
`BloquearEnSem` merges (the exit from EXEC, the status, what the PCB waits for and
its entry in the semaphore's queue) no other thread looks at before the last of
them, which is how a post finds the PCB.

`SemaforosAbstractos` is the promise: semaphores created, taken, returned and
destroyed in one step each, first come first served. The refinement mapping puts
the effect of a request at the change of the value (for a wait or post) or of the
list (for a creation or destruction); `ColaPrevista` is the queue as the requests
under way will leave it.

### Matrices, Reduccion

`deadlock.c` never builds its matrices: it reads a cell from the PCBs when it needs
it. A row is a PCB and a column a semaphore; one is null unless somebody in it waits
and somebody in it holds. `__deadlock_eliminar_celdas_nulas_consecutivas` removes from one list
by what it reads in the other, which does not change meanwhile, so that the order
of the walk (and its `i--`) has no effect and a pass is one step on sets
(`EliminarColumnas`, `EliminarFilas`). `Reduccion` starts from every pair of
matrices. `PcbsIrreducibles` is what is left when the loop ends, which is proved
(`DejaLasIrreduciblesSiempre`), and what `Deteccion` uses for the whole loop.

### Deteccion

The detector's thread takes `mutexDeadlock` from the analysis to the end of the last
recovery; the posts and the suspension of `Semaforos` need it too, and SEM_WAIT does
not. An analysis filters the lists (`Filtrar`) and later reduces what the PCBs taken
then hold and wait for (`ElegirVictima`, `Dormir`), with SEM_WAIT going on in between. The
reduction itself is one step: while the mutex is held waits and holdings only grow, so that
a walk that overlaps with SEM_WAIT finds no more than one made at its end. The
recovery is: the removal from BLOCKED, which gives back a place of the degree
(`Quitar`), or else from SUSP/BLOCKED (`QuitarSuspendida`), and from the semaphore's queue
(`QuitarDelSem`), each a step, as none of these lists' mutexes is taken; the increment of that
semaphore's value, which `recurso_sem_inc_cant_instancias` does without its mutex
and so is a read and a write (`LeerValor`, `EscribirValor`: a decrement of SEM_WAIT
in between and either may be lost); for each instance it holds, a
`kernel_sem_post` in the detector's thread (`SoltarInstancia` to
`RetenerSocorrido`); the end of the PCB (`Finalizar`); another analysis.
`LeerLiberado` is the analysis that finds a freed PCB in the lists it filters, and
`UsarSocorridoLiberado` the write to the record of a woken PCB that has run and been freed.

BLOCKED and the semaphore's queue are what the detector and a SEM_WAIT can change at
once. The history variable `carrera` marks that it has met one half way; how a list torn
by two writers looks is left out, and the properties claim nothing from then on.

Carpinchos are programs here (`Guiones`): SEM_WAIT and SEM_POST on semaphores that
exist from the start, then MATE_CLOSE. They have the shape of those of
`use-case-deadlock`: two or three that take locks in different orders and one that
waits outside the ring. That use case orders its carpinchos with sleeps; with one
CPU, which is not preempted, the programs order themselves with semaphores of
value 0 (`Senales`) instead. The victim is any of the PCBs left: the code takes the
highest PID, and handlers of connections number PCBs in any order.

### Seleccion

The clock, the estimates and the bursts of the PCBs that come to READY; the rest of
the scheduler is reduced to four actions: an admission (`pcb_algoritmo_init`), a
dispatch, the block that ends a burst (`algoritmo_update_next_est_info`) and the
return to READY. ALFA is 0, 1/2 or 1 and estimates are counted in fractions of a second that make
halves exact. The comparison of response ratios is by cross multiplication, which
gives what C gives for the infinities and the NaN of an estimate of 0. The choice
and the removal are one step here; that they are two is `planif_despacho`'s subject.

### Protocolo

Channels are FIFO and reliable. Each message is its opcode, with what it answers
as a label for the properties. Of the scheduler it keeps where the PCB is: when
CPUs, posts and I/O move it is `Planificacion`'s and `Semaforos`' business, and is
nondeterministic here. A message is read whole, its opcode and its size: `mate_memwrite`
reads both before it looks at the opcode (matelib.c:399-400), the others of `mate_mem*` read
the size of a FAIL in the branch of the error. The answer to a call that blocks goes over a copy of
the socket's number (scheduler.c:460), so it is sent even if the PCB has been freed; the reads of the PCB
around it may end the kernel or not (`ResponderBloqueante`). The end of a victim is the message
(`Finalizar`) and then the free (`Destruir`). `modo` is EXEC_MODE. A request of matelib reads two
messages: the answer, and the OK_CONTINUE that a CPU sends when it begins to
serve the PCB or another turn of its loop. The memory module is external: it
answers in order, OK_CONTINUE or FAIL.

## 3. Runs

Distinct states are rounded. All passing runs end in under three minutes with two
workers.

| Run | Instance | Shows |
|---|---|---|
| `planif_un_cpu` | 3 carpinchos, 1 CPU, 1 device and an unknown one, degree 2, 2 requests each, 546 000 states | types; no PCB lost or duplicated; a freed PCB read by nothing but a log; the exact degree of multiprogramming |
| `planif_vivacidad` | 2 carpinchos, 1 CPU, degree 2, 2 requests, fairness, 12 300 states | with no suspension between the two tests of a device: evaluations are answered, blocked PCBs have somebody to wake them, every carpincho is served to its end |
| `planif_despacho` | 2 CPUs | **violation**: both dispatch the same PCB |
| `planif_transicionar` | degree 2, 3 carpinchos | **violation**: two posts for the one PCB of SUSP/READY |
| `planif_fin_perdido` | degree 1, fairness | **violation**: an I/O that ends during a suspension is lost |
| `semaf_un_cpu` | 3 carpinchos, 1 CPU, 1 name, values 0 and 1, 3 requests each, 610 000 states | with one CPU: the abstract semaphores, no lost wake-up, the detector's data, the degree |
| `semaf_dos_cpu` | 3 carpinchos, 2 CPUs, 1 device, 1 name, degree 2, 1 request each, 579 000 states | the counts of the scheduler (`Apreton`, `CuentaAdmision`, `CuentaReady`, `CuentaExit`, `CuentaIO`) with I/O, waits and posts; types; a negative value never promises more PCBs than wait; only suspension and freed memory end the kernel (`FallaSoloSuspension`) |
| `semaf_despertar` | 2 carpinchos, 2 CPUs | **violation**: a post wakes a PCB that is not yet in BLOCKED |
| `algoritmos` | every pair of matrices of 3 PCBs and 3 semaphores; 3 PCBs in READY, a clock of 3 seconds, 2 bursts each, initial estimate 0 or 2, ALFA 0, 1/2, 1; 1 130 000 states | the reduction leaves the greatest irreducible submatrix, misses no deadlock and, for locks, invents none; SJF and HRRN serve the best of READY; estimates are exponential averages |
| `deteccion` | 3 carpinchos, 3 programs, 1 CPU, degree 2, 5 semaphores, fairness, 222 000 states | recoveries lose no instance of a lock and leave no trace of a victim; only deadlocked carpinchos are killed; every carpincho ends, or is stuck for ever out of the detector's reach |
| `protocolo` | 2 carpinchos, wait, I/O, reads and writes of memory, 2 calls each, both modes, 309 000 states | answers reach who asked; calls return with the CPU, and return unless the PCB is for ever without one; a carpincho told last that it is a victim ends |
| `protocolo_victima` | 1 carpincho, 1 call, both modes | **violation**: a victim whose DEADLOCK_END overtakes the answer of its wait goes on without a PCB |

*Why the bounds are enough for what is asked.* Each hazard involves at most two
carpinchos against one thread, and one more to fill the degree of
multiprogramming: with three and degree 2 there is always one in NEW, which is
what a suspension needs, and two to fight. Two CPUs are the least that can
dispatch, wait and post at once. One name of semaphore with two objects covers
the creation of two with the same name and the reuse of a name; the detector has
five names. Three PCBs and three semaphores are what a ring and somebody who waits
outside it, or for it, take; the proofs have no such bound. In `deteccion` three
carpinchos with degree 2 are a ring with a third in NEW, which makes one of the
ring be suspended, and victims come both from BLOCKED and from SUSP/BLOCKED. It has
one CPU, the value of `GRADO_MULTIPROCESAMIENTO` in `kernel/cfg/kernel_config.cfg`
(the configuration of `use-case-deadlock` has 8): with two, the double dispatch and the
waits against posts of `semaf_despertar` break lists and values before the
detector has a part in it. The clock of `algoritmos` lets a burst last 0 to 3
seconds, and one of 0 is what makes an estimate 0. The programs of
`deteccion` are a ring of two with another that waits outside it, a ring of three, where
any may be the victim, and a victim whose end wakes both others,
one of which can close at once. In `semaf_dos_cpu` one request each is what two CPUs need to
choose, block and wake the same PCB; what a second one adds is in `planif_un_cpu` and `semaf_un_cpu`, and the proofs of
these counts have no bound. Two calls of each carpincho are what it takes to
see a call that follows one that went wrong. In `planif_vivacidad` the degree is
the number of carpinchos; one is still suspended and brought back, while the other
is between the place taken for it and its exit from NEW, but nobody evaluates a
suspension while a device is between its two tests, which is what
`planif_fin_perdido` needs. `CHECK_DEADLOCK FALSE` is used
throughout: when every carpincho has closed, or waits for a post that nobody will
make, or the kernel has fallen, all threads rightly wait.

*Symmetry* over carpinchos and CPUs is used in runs of invariants (and in
`semaf_un_cpu`, whose property is a refinement without fairness); never in runs
of liveness.

*Fairness.* In `Planificacion` and `Deteccion` every thread that can run does (the operating
system's scheduler; the detector's sleep ends), and a carpincho whose turn it is makes a request and in the
end closes: `MaxPedidos` bounds them, and MATE_CLOSE is one of the CPU's
alternatives; in `Deteccion` it follows its program, and the CPU and the medium-term
scheduler are strongly fair, since the detector takes `mutexDeadlock` again and again and sleeps, with
the mutex free, in between. In `Protocolo` a client reads what it waits for, the kernel's threads run
and the memory module answers, all of it weak fairness. Nobody has to make a call, to close, to unblock a PCB, or to
give it a CPU: a CPU serves its carpincho, without preemption, for as long as that one pleases
(scheduler.c:600), and the degree of multiprogramming can be used up. So `RetornaLlamada` excepts a PCB
that from some moment on is for ever blocked, without a CPU, dropped or freed. MEM_* contends for `mutexMemSocket`, but
calls are bounded, so that whoever waits for it is in the end alone and weak fairness is enough.

### What the violations say

1. `planif_despacho`: `elegir_en_base_a_*` leaves its PCB in READY; the removal
   that follows logs "No existe tal elemento en la cola" and goes on. The
   carpincho has two CPUs and the other PCB stays in READY with no unit for it.
2. `planif_transicionar`: the test of SUSP/READY and its emptying are in two
   threads; the second pop gives NULL.
3. `planif_fin_perdido`: a device tests SUSBLOCKED, then BLOCKED; a PCB suspended
   between the tests passes neither.
4. `semaf_despertar`: `kernel_sem_wait` shows the PCB in the semaphore's queue
   before it is in BLOCKED, without `mutexDeadlock`.
5. `protocolo_victima`: the CPU of a SEM_WAIT that blocks has still to answer when the
   detector ends its PCB; the client reads DEADLOCK_END as the answer and the late
   OK_CONTINUE as the leave to go on.

More facts that the properties record rather than refute. `CuentaGrado` counts
entries of SUSP/BLOCKED whose PCB runs elsewhere: the device that read BLOCKED
and unblocks a PCB suspended since. `CuentaAtraso` counts, and
`VuelveEnEjecucion`, `RetornaLlamada` and `FinalizadoTermina` exclude, the
carpinchos whose `mate_mem*` got FAIL: these return without reading the
OK_CONTINUE that follows, so that every later call reads one message late, and a
`mate_sem_wait` returns while its PCB is blocked. `FinalizadoTermina` is the other
side of `protocolo_victima`: a victim to which nothing else is owed when
DEADLOCK_END is sent does end, whether or not the kernel goes on. `VuelveEnEjecucion`
excepts a victim by name: it is the only carpincho that a call may let go without a PCB in EXEC.

`SinUsoDeLiberado` excepts the logs of section 2: with one CPU a thread that logs the
PCB it has handed over can find it freed, and TLC reaches that state (`fallo = "registro"`). CALL_IO on an
unknown device (scheduler.c:335) leaves its PCB in EXEC for ever: `UnSoloLugar` and
`CuentaGrado` count it there.

What `deteccion` found, and its properties except:

- `carrera` marks that the detector has met a SEM_WAIT half way, which one CPU is
  enough for, as SEM_WAIT does not take `mutexDeadlock`. The increment at
  deadlock.c:162 races with the decrement and one is lost; a post for the victim
  (deadlock.c:139) comes between a decrement and the entry in the queue, pops
  nobody, and the PCB that then blocks waits for a post already made; or it wakes a PCB that
  is in the queue and not yet in BLOCKED, which stays there while it runs and when
  it is freed. `Conservacion`, `SinRastro` and `TodosSalen` speak of what happens
  until then; without the exception TLC finds each of the three.
- `SinLugar`, for ever (`<>[]`): a post brings a suspended PCB to SUSP/READY with what all the others
  wait for, and they, blocked, have the degree. The same state may also pass, when the long-term
  scheduler has taken a place and not yet moved the PCB, and then it excuses nothing. A suspension needs a PCB in NEW
  (scheduler.c:162-164), so when NEW is empty nobody makes room. It is a deadlock the detector cannot see, as
  one of its parties waits for the degree and not for a semaphore.
- A victim can be freed while its CPU is still to log it or to update
  its estimate (deadlock.c:132), and a woken PCB before the write of its record (scheduler.c:451): `fallo`.
- `SinFalsosDeadlocks` and `SoloReales` are about semaphores of one instance. With
  more, a PCB that waits and holds an instance of one that is waited for is a row that stays,
  even if another holder runs and will post.
- `EligeAlMejor` has a case of its own for the first of READY with a ratio of 0/0:
  nothing exceeds NaN, and it goes before those who have waited.

## 4. Proofs

The theorems hold for any finite sets of carpinchos, CPUs and devices, any degree,
number of requests and of semaphores: what is assumed are the ASSUMEs of the
modules (`ConstantesOK`, `ConstantesSemOK`, `PcbsFinitas`, `ConstantesSeleccionOK`), which TLC
evaluates in every run, and in some theorems one or more of

- `UnaCPU`, that there is one CPU (`GRADO_MULTIPROCESAMIENTO=1` in
  `kernel/cfg/kernel_config.cfg`). It is not there for the proofs' sake: with two CPUs the same
  properties are false (`planif_despacho`, `semaf_despertar`);
- `Iniciales \subseteq Nat`, that nobody asks for a semaphore with a negative value.
  With one, the value would promise PCBs to wake that do not wait. `SEM_INIT` travels
  as `uint32_t` and is stored as `int32_t`, so the code can be asked for one (a
  hazard of `PROJECT.json` without a property);
- `Dispositivos = {}`, that no device is configured (`DISPOSITIVOS_IO=[]`), in the two
  theorems of `DormidosProofs`: an assumption that the shipped `kernel_config.cfg`, which has one device, does
  not meet, so that they are about the kernel's semaphores by themselves. With devices their properties are false: a device that has read BLOCKED
  and then moves a PCB suspended since leaves its entry in SUSP/BLOCKED, where
  `CuentaGrado` counts it.

### Types and counts of the scheduler: `PlanificacionProofs`

- `TypeOK` (`TypeOKSiempre`), through `Tipos`, its inductive form: besides the
  types, a thread at a step that uses a PCB has one in hand, and a semaphore's
  device name is a device;
- `Apreton`, `CuentaAdmision`, `CuentaReady`, `CuentaIO`, `CuentaExit`,
  `FallaSoloSuspension`.

The invariant that is inductive is `IInv == Tipos /\ CuentaIO /\ Conteos`. Every
count needs `Tipos`, to know whose label changes and that lengths are numbers.
`FallaSoloSuspension` needs the counts, since a pop of an empty list is what a
count exceeded would cause, and one more thing, `LargoEnNew`: when the long-term scheduler goes to NEW
because it saw SUSP/READY empty, PCBs may have come to SUSP/READY since, and the
sum of `CuentaAdmision` alone would allow NEW to be empty; `LargoEnNew` says that
whatever came since has brought its own unit, so that the one taken stands for a
PCB of NEW.

The argument for each step is the same: the thread's change of label changes one
count by one (`CambioDeCuentas`, from a lemma on the cardinality of the threads at
a set of labels), the step changes a length or a semaphore by one, and the sum
remains. Lemmas on `RemoveFirst`, `Front` and `Tail` say what a removal does to a
length, the removal of a PCB that is not there included.

`IInv` is stated over the labels of both modules (`Etiquetas \cup EtiquetasSem`),
so that its lemmas serve `Spec` and `SpecSem` alike.

### Where each PCB is: `LugaresProofs`, with one CPU

- `UnSoloLugar`, `SinUsoDeLiberado`.

The inductive invariant is `ILugar`, with `Tipos`. A step moves a PCB from a place
to another (`Muda`), and places are counted, since a queue may hold a PCB more than
once: for each PCB the places that count are one, or none and SUSP/BLOCKED has it. That
alone is not inductive, as a device moves the PCB it holds out of BLOCKED whether
it is there or not. So `ILugar` says who has a PCB *in charge* (`Encarga`): a CPU that has
called CALL_IO, the device that serves it, or a position in the queue of a device; that there is at most one
of these for each PCB (`Unico`); and that a PCB in charge is in BLOCKED, once, or in SUSP/BLOCKED
and nowhere else, as its status says (`Frenos`). The clients that have closed are exactly those
whose PCB is in EXIT, in the hand of the thread that frees it, or freed (`Cierres`), and
what a thread has in hand exists (`Vivos`), unless the thread is one that logs it (`Registrando`): hence
nobody else uses a PCB that is freed, and such a thread has only the log left to do.
With two CPUs the first thing to fail is that a chosen PCB, which is still in READY, is
in the hand of one.

### The degree of multiprogramming: `GradoProofs`, with one CPU

- `CuentaGrado`.

Each step keeps a balance between free places, threads that carry one, the
queues of admitted PCBs, the entries of SUSP/BLOCKED and the PCBs that are there and
nowhere else (`SaldaGrado`). The last term is the one that needs `ILugar`: when a
device removes from BLOCKED a PCB that was suspended after its test, the PCB it brings
to READY was counted as suspended and now is not, and its entry stays; when it
removes one from SUSP/BLOCKED, that entry is the only one.

### Semaphores: `SemaforosProofs`

Under `SpecSem`:

- `TypeSemOK`, `CuentaReady` and `Apreton`: the steps of a request keep `IInv`.
  `IInvSem` adds that a CPU inside a request has the PCB that made it and a semaphore
  that was created, and one past `semPop` the PCB it has popped;
- `NuncaDeMenos`, with `Iniciales \subseteq Nat`: for each semaphore `Saldo`, the PCBs
  blocked less what the value owes, is kept by the steps of waits and posts, however they
  interleave (a CPU at `semBloquear` counts before it is in the queue, one at `semPop`
  is discounted before it takes anybody out), and only grows when a pop finds the queue empty;
- `CuentaSemaforo`, with one CPU too: there a pop never finds it empty, because the value
  was negative one step before and nobody is at `semBloquear` (`SoloUnPop`).

### The promise of the semaphores: `EsperasProofs`, with one CPU

- `SonSemaforos`, with `Iniciales \subseteq Nat`: `SpecSem` implements
  `SemaforosAbstractos`. It has no bound on carpinchos, devices, names or requests.

A wait or a post is several steps, and a suspension, a device or the thread that frees
PCBs may come between any two of them. Three invariants, besides `IInvSem` and
`Exactas` (every balance is 0), make the abstract state what it should be:

- `EnOrden`: each PCB has one *token* at most, among NEW, READY, EXEC, SUSP/READY, EXIT, the
  queues of devices and of semaphores, and the hands of the threads that are to put it in a
  queue (`Unicas`); a carpincho that has not come has none (`Sueltas`); the PCB a CPU serves has
  its own in EXEC, and the one it has chosen in READY (`Servidos`). BLOCKED and SUSP/BLOCKED
  have no tokens, so that the entries devices leave there do not matter. Each step moves one
  token (`Pasa`), and `TrasPasa` says once and for all that this keeps them unique. The PCB that
  is to wait is then in no semaphore's queue yet, which the guard of `Esperar` asks.
- `Listados`: each semaphore is in the list once and under a name of its own; the one a
  request works on is in the list; the one SEM_INIT is about to add has a new name.
- `Vistas`, a consequence of `UnaCPU`: `ColaPrevista` is the queue, or the queue with the request
  that is half way, which is the only one.

The simulation is a lemma for each step: `CrearSem` is `Crear`; `RestarInstancia` is `Tomar` or
`Esperar`, by the value; `SumarInstancia` is `Devolver`, of an instance or of the
first who waits; `SacarDeLista` is `Destruir`; `BloquearEnSem` and `SacarDeSem`
change the queue and not the queue foreseen, and the rest, every step of the
scheduler included, are stutters. `Exactas` is what makes the value and the queue agree, so
that the concrete test on the value is the abstract guard.

### PCBs that wait: `DormidosProofs`, with one CPU and no devices

- `EsperaEnSuCola`: the queue, the list and the status the detector reads of a PCB
  agree whenever no post is under way.
- `GradoExacto`: semaphores, suspensions and ends neither lose nor make a place of the degree.

`EnOrden` has no tokens in BLOCKED and SUSP/BLOCKED, since devices leave stale entries
there. Without devices there are none, and `Dormidos` says so: a PCB is in one of
the two lists, once, and in the one its status names (`Parada`), exactly when it waits for a
semaphore and no CPU is half way with it (`EnSuLista`). Half way (`AMedias`) are the PCB that
`BloquearEnSem` has put in the semaphore's queue and `EncolarEnBlocked` not yet in BLOCKED, and the PCB
a post has taken out of the lists and whose record it has not yet cleared (a post keeps the PCB it has woken
in hand until its answer, `semLog`, and no longer owns it there). `EnSuCola` is the
other half: it is in the queue of the semaphore it waits for and no other, or in a post's
hand. `DuranteElPedido` carries these facts over the steps of a request. The
argument at each step is which token the PCB has (`ConOtraFicha`): a PCB whose token is in READY,
in EXEC or with a thread of the scheduler does not wait, so no step of the scheduler but the
suspension touches one that does; and the suspension and the post exclude each
other with `mutexDeadlock`, so that the status a post reads is still true when it
removes the PCB from the list it names.

That is what makes the degree exact: `DespertarDeSem` removes from BLOCKED an entry that is
there, whose place goes on to READY, or from SUSP/BLOCKED one whose place the suspension gave back.
`SaldaExacto` is the balance of places, and each step keeps it.

### Messages: `ProtocoloProofs`

- `TypeOK`, `RespuestaPropia`, `VuelveEnEjecucion`, `CuentaAtraso`.

`RespuestaPropia` is inductive with the types: the holder of `mutexMemSocket` is the
one whose question is on the socket. The others need an account of each
conversation (`Cuenta`): the messages unread, plus the ones the kernel
still owes for the request it serves and for the place the PCB is at, are those matelib waits for
plus one for each FAIL. A call that ends with nothing skipped has then read its
OK_CONTINUE, so the PCB is in EXEC. What the kernel owes because a CPU has blocked
the PCB and not answered yet (`debe`) is a counter and not a flag: a carpincho
after a FAIL can block again, at another CPU, before the first has answered.
DEADLOCK_END takes the place of the leave to go on: the account of a victim is that of a
PCB to which nothing but the late answer is owed, and `VuelveEnEjecucion` excepts the
victim by name.

### Detector: `AlgoritmosProofs`

For any finite set of PCBs (`PcbsFinitas`) and any semaphores, waits and holdings,
`SpecReduccion` implies always:

- `QuedaLaMayor`: the inductive invariant is `IInv == TypeOK /\ NoSacaDeMas /\
  ColumnasHechas /\ NadaQueSacar`. That no pass removes a row or column of an
  irreducible submatrix follows because what is not null in it is not null in any
  larger one (`ColumnaCrece`, `FilaCrece`); that nothing is left to remove at the end
  needs `ColumnasHechas`: after a pass over the columns none is null, and if the next one
  removes no rows none has become so.
- `SinFalsosDeadlocks`: in what is left each PCB's semaphore has a holder left, and
  with one instance it has no other.
- `VeLosDeadlocks`: a deadlock contains a least non-empty set of PCBs each of which
  waits for what another of the set holds (`CerradoMinimo`, by cardinality: this is what
  finiteness is for). In a least one each also holds what another waits for
  (`MinimoRetiene`), since otherwise it could be left out. So it is an irreducible
  submatrix and, by the invariant, it is still there at the end.
- `DejaLasIrreducibles`: the set left is `PcbsIrreducibles`, which `Deteccion` uses.

### The choice of a PCB and the estimates: `AlgoritmosProofs`

For any PCBs, algorithm, ALFA among 0, 1/2 and 1, initial estimates, clock and number of bursts,
`SpecSeleccion` implies always:

- `EligeAlMejor`. Both choices are folds over READY, and a fold of the community modules
  is a function on sets of indices. The lemmas of the first part say, once for every fold,
  that there is such a function (`HayPliegue`) and that along 1, 1..2, 1..3 it is the
  plain loop of the code (`EnFila`); induction on naturals is `Induccion`, from a least
  counterexample. Then `MejorSJF` and `MejorHRRN` are loop invariants: what is kept
  of the first k PCBs is the best of them and the first on ties. For HRRN that needs the
  comparison of ratios, by cross multiplication and with estimates of 0 in it, to be
  the one of reals with infinities (`RatioProducto`) and a strict order in which what exceeds
  a ratio exceeds all that do not (`RatioTransitivo`). It is not one with 0/0, which is why
  the property has a case for a first PCB of ratio 0/0.
- `EstimaElPromedio`. The invariant `Estimadas` says that the estimate of a PCB in the system
  is the average of its n bursts in units of 1/2^(MaxRafagas - n), so that each halving of
  `__media_exponencial` is exact (`MediaEsPromedio`); the average is defined by the weight of each
  burst and not by the recurrence of the code, and `PromedioCrece` shows that one more burst
  multiplies the weights of the others by 1 - ALFA. A PCB keeps its estimate from the list to
  the CPU and back, so `Estimadas` covers those in READY, the one in EXEC and those that have run.

### Only model-checked

- Liveness, here and in `Deteccion` and `Protocolo`: it is out of the prover's reach, as
  is ENABLED.
- `BloqueadoConDespertador`: it holds when no suspension comes between the two
  tests of a device, as in `planif_vivacidad`; in general it is false
  (`planif_fin_perdido`).
- `Conservacion`, `SinRastro` and `SoloReales`, of the detector composed with the rest.
  They hold for programs of locks, with `carrera` excepted, so that a proof needs first what a
  program well formed does; and the detector holds `mutexDeadlock` itself, so the
  invariants of `SpecSem` would have to be stated again for its steps.

## 5. What is not modelled

- PIDs, which two connections can get equal (scheduler.c:224): the detector removes
  by PID and would take another PCB out of a list. `Deteccion` removes the victim.
- In `Deteccion`, SEM_INIT and SEM_DESTROY while the detector walks the list of
  semaphores, and I/O: its programs only wait, post and close.
- What a list looks like that two threads change at once: semaforosDelSistema in
  SEM_DESTROY (scheduler.c:548-549), and BLOCKED and a semaphore's queue under the detector
  (deadlock.c:152-160), whose outcome after `carrera` is left open.
- What the memory module keeps: it is told of every end but a victim's.
- The rounding of doubles in the estimates, and the widths of integers (values over
  2^31-1 in SEM_INIT).
- Configuration files, the packing of buffers, and the accessors of abstract data types:
  sequential, and with no state of their own that a property looks at.
- A client that dies without MATE_CLOSE, partial sends and receives, and resets of
  connections; `UsarLiberado` models the read of a socket whose client closed.
- The handshake with the memory module at the start, which precedes every thread.
- The unlock of a mutex not locked, in `enviar_suspension_de_carpincho_a_memoria`
  in DEV_MODE: nothing the model keeps depends on that mutex in that mode.
- Opcodes that matelib never sends.

## 6. Plan

Done: the scheduler, its semaphores, the protocol, the detector, the choice of a
PCB; the proofs of section 4. Left, in this order:

1. Proofs: the type of the state of `Deteccion`, and `SinRastro` for any programs, from
   `Dormidos` extended with the PCB that the detector removes.
2. PIDs in `Deteccion`, and what a removal by an equal PID leaves.
3. A stuck or dead client: what a CPU does with the opcode it did not receive.
