----------------------------- MODULE Seleccion -----------------------------
(***************************************************************************)
(* Which PCB of READY a CPU chooses, and the estimates the choice reads:   *)
(* elegir_en_base_a_sjf and elegir_en_base_a_hrrn of scheduler.c, and the  *)
(* part of domain/pcb.c they rest on.  What the rest of the scheduler does *)
(* with the PCB is Planificacion's business, where the choice is any.      *)
(*                                                                         *)
(* Times are whole seconds (time_t).  ALFA is alfa/2 and an estimate is    *)
(* counted in units of 1/Escala of a second, so that halves are exact: the *)
(* rounding of doubles is left out.                                        *)
(***************************************************************************)
EXTENDS Integers, Sequences, SequencesExt

CONSTANTS
    Procesos,    \* the PCBs that come to READY
    Iniciales,   \* the values of ESTIMACION_INICIAL, in seconds
    MaxTiempo,   \* bound: the clock
    MaxRafagas,  \* bound: the bursts of one PCB
    Ninguna      \* no PCB

ASSUME ConstantesSeleccionOK ==
    /\ Iniciales \subseteq Nat
    /\ MaxTiempo \in Nat /\ MaxRafagas \in Nat
    /\ Ninguna \notin Procesos

\* The powers of b.
Potencia(b) ==
    LET pot[n \in 0..MaxRafagas] == IF n = 0 THEN 1 ELSE b * pot[n - 1] IN pot

Escala == Potencia(2)[MaxRafagas]

VARIABLES
    algoritmo,  \* ALGORITMO_PLANIFICACION
    alfa,       \* twice ALFA
    inicial,    \* ESTIMACION_INICIAL
    ahora,      \* the clock
    listas,     \* pcbsReady
    est,        \* estActual of t_sjf, s of t_hrrn
    desde,      \* w of t_hrrn
    enExec,     \* the PCB the CPU serves, or Ninguna
    inicio,     \* start, in __atender_peticiones_del_carpincho
    rafagas     \* history: the bursts each PCB has run, in seconds

config == <<algoritmo, alfa, inicial>>
varsSeleccion == <<config, ahora, listas, est, desde, enExec, inicio, rafagas>>

InitSeleccion ==
    /\ algoritmo \in {"SJF", "HRRN"}
    /\ alfa \in 0..2
    /\ inicial \in Iniciales
    /\ ahora = 0
    /\ listas = <<>>
    /\ est = [p \in Procesos |-> 0]
    /\ desde = [p \in Procesos |-> 0]
    /\ enExec = Ninguna
    /\ inicio = 0
    /\ rafagas = [p \in Procesos |-> <<>>]

\* pcb_minimum_est(p, q): the first on ties.
MinimumEst(p, q) == IF est[p] <= est[q] THEN p ELSE q

\* pcb_response_ratio(q) > pcb_response_ratio(p), of doubles: the difference
\* over the estimate, by cross multiplication.  With an estimate of 0 it is
\* what C says of infinities, and FALSE for NaN, which is 0/0.
Espero(p) == ahora - desde[p]
MutMayorRatio(q, p) == Espero(q) * est[p] >= Espero(p) * est[q]  \* mutant
MayorRatio(q, p) == Espero(q) * est[p] > Espero(p) * est[q]

\* list_get_minimum folds the list with pcb_minimum_est.
ElegirSJF == FoldLeft(MinimumEst, Head(listas), Tail(listas))
\* The loop of elegir_en_base_a_hrrn keeps the first PCB until one exceeds it.
ElMayor(p, q) == IF MayorRatio(q, p) THEN q ELSE p
ElegirHRRN == FoldLeft(ElMayor, Head(listas), Tail(listas))
Elegida == IF algoritmo = "SJF" THEN ElegirSJF ELSE ElegirHRRN

\* __media_exponencial
\* Mutant: the weights are swapped.
MutMediaExponencial(real, anterior) == ((2 - alfa) * real * Escala + alfa * anterior) \div 2
MediaExponencial(real, anterior) == (alfa * real * Escala + (2 - alfa) * anterior) \div 2
-----------------------------------------------------------------------------
Pasar ==
    /\ ahora < MaxTiempo
    /\ ahora' = ahora + 1
    /\ UNCHANGED <<config, listas, est, desde, enExec, inicio, rafagas>>

EnSistema(p) == Contains(listas, p) \/ enExec = p

\* An admission: pcb_algoritmo_init sets the estimate and the clock.
Admitir(p) ==
    /\ rafagas[p] = <<>> /\ ~EnSistema(p)
    /\ est' = [est EXCEPT ![p] = inicial * Escala]
    /\ desde' = [desde EXCEPT ![p] = ahora]
    /\ listas' = Append(listas, p)
    /\ UNCHANGED <<config, ahora, enExec, inicio, rafagas>>

\* The choice, the removal and the dispatch, up to time(&start).
Despachar ==
    /\ enExec = Ninguna /\ listas # <<>>
    /\ enExec' = Elegida
    /\ listas' = RemoveFirst(listas, Elegida)
    /\ inicio' = ahora
    /\ UNCHANGED <<config, ahora, est, desde, rafagas>>

\* A request blocks: algoritmo_update_next_est_info, with end - start.
Bloquear ==
    /\ enExec # Ninguna
    /\ Len(rafagas[enExec]) < MaxRafagas
    /\ est' = [est EXCEPT ![enExec] = MediaExponencial(ahora - inicio, @)]
    /\ desde' = [desde EXCEPT ![enExec] = ahora]
    /\ rafagas' = [rafagas EXCEPT ![enExec] = Append(@, ahora - inicio)]
    /\ enExec' = Ninguna
    /\ UNCHANGED <<config, ahora, listas, inicio>>

\* It is unblocked: it comes with its estimate and the time it blocked at.
Volver(p) ==
    /\ rafagas[p] # <<>> /\ ~EnSistema(p)
    /\ listas' = Append(listas, p)
    /\ UNCHANGED <<config, ahora, est, desde, enExec, inicio, rafagas>>

NextSeleccion ==
    \/ Pasar \/ Despachar \/ Bloquear
    \/ \E p \in Procesos : Admitir(p) \/ Volver(p)

SpecSeleccion == InitSeleccion /\ [][NextSeleccion]_varsSeleccion
-----------------------------------------------------------------------------
\* The response ratio of listas[i] as a real, compared with that of listas[j]:
\* 0/0 compares with nothing, and x/0 is greater than all but another x/0.
NaN(i) == est[listas[i]] = 0 /\ Espero(listas[i]) = 0
Infinito(i) == est[listas[i]] = 0 /\ Espero(listas[i]) # 0
Supera(i, j) ==
    \/ Infinito(i) /\ ~Infinito(j)
    \/ /\ ~Infinito(i) /\ ~Infinito(j)
       /\ Espero(listas[i]) * est[listas[j]] > Espero(listas[j]) * est[listas[i]]

MenorEstimado(i) ==
    /\ \A j \in DOMAIN listas : est[listas[i]] <= est[listas[j]]
    /\ \A j \in 1..(i - 1) : est[listas[i]] < est[listas[j]]
MayorDeLosRatios(i) ==
    \A j \in DOMAIN listas : ~NaN(j) => ~Supera(j, i) /\ (j < i => Supera(i, j))

\* SJF serves a PCB of the least estimate and HRRN one of the greatest ratio,
\* the first to come of them.  They do so even with estimates of 0, which bursts
\* of less than a second bring about, but for one case: if the first of READY
\* has just blocked or connected its ratio is 0/0, nothing exceeds it, and it
\* goes before all who waited.
EligeAlMejor ==
    listas # <<>> /\ enExec = Ninguna =>
        \E i \in DOMAIN listas :
            /\ Elegida = listas[i]
            /\ CASE algoritmo = "SJF" -> MenorEstimado(i)
                 [] algoritmo = "HRRN" /\ NaN(1) -> i = 1
                 [] OTHER -> ~NaN(i) /\ MayorDeLosRatios(i)

\* The estimate of a PCB after n bursts is the exponential average of them and
\* of ESTIMACION_INICIAL: each weighs ALFA by (1 - ALFA) for each one since.  Here
\* a is twice ALFA, e the first estimate and r the bursts, and all is over 2^n.
Peso(a, i, n) == a * Potencia(2 - a)[n - i] * Potencia(2)[i - 1]
Promedio(a, e, r) ==
    Potencia(2 - a)[Len(r)] * e
    + FoldLeft(+, 0, [i \in DOMAIN r |-> Peso(a, i, Len(r)) * r[i]])
EstimaElPromedio ==
    \A p \in Procesos :
        rafagas[p] # <<>> =>
            est[p] * Potencia(2)[Len(rafagas[p])]
            = Escala * Promedio(alfa, inicial, rafagas[p])
=============================================================================
