-------------------------- MODULE ProtocoloProofs --------------------------
(* For any number of carpinchos and of calls: the memory socket carries    *)
(* one conversation at a time, a call returns when its PCB has the CPU or  *)
(* has been ended by the detector, and what a carpincho leaves unread is   *)
(* one message for each FAIL.                                              *)
(*                                                                         *)
(* The invariant behind the last two is an account of each conversation:   *)
(* what is on its way to the carpincho, and what the kernel will still     *)
(* send for what it holds, is what matelib waits for plus what it has      *)
(* skipped.                                                                *)
EXTENDS Protocolo, SequenceTheorems, TLAPS

\* The messages that the kernel has yet to send to a PCB at a place, besides
\* the answer of a call that blocked, and those that matelib waits for.
Debidos(l) ==
    IF l = "memoria" THEN 2
    ELSE IF l \in {"conectar", "exec", "finalizando", "finalizado", "exit", "cierre",
                  "liberado"}
    THEN 0 ELSE 1
Esperados(e) == IF e = "respuesta" THEN 2 ELSE IF e = "continuar" THEN 1 ELSE 0

\* A request on its way is worth the two messages that it will bring.
Pendientes(c) == Len(aKernel[c])
Prometidos(c) == Debidos(pcb[c])
Total(c) == 2 * Pendientes(c) + Atraso(c) + Prometidos(c) + debe[c]

\* A call of memory fails at most once.
FallaUnaVez(c) ==
    /\ fallas[c] <= hechas[c]
    /\ cliente[c] = "respuesta" /\ llamada[c] \in DeMemoria => fallas[c] < hechas[c]
    /\ cliente[c] = "inicio" => llamada[c] = "MATE_INIT"

\* Before the handler of the connection has answered.
Conectando(c) ==
    /\ cliente[c] = "inicio" => pcb[c] = "conectar"
    /\ pcb[c] = "conectar" =>
        /\ aCliente[c] = <<>> /\ fallas[c] = 0 /\ debe[c] = 0
        /\ \/ cliente[c] = "inicio" /\ aKernel[c] = <<>>
           \/ cliente[c] = "respuesta" /\ aKernel[c] = <<"MATE_INIT">>

\* Only a carpincho that has closed is in EXIT.
Cerrando(c) ==
    /\ \A i \in 1..Len(aKernel[c]) : aKernel[c][i] = "MATE_CLOSE" => cliente[c] = "fin"
    /\ pcb[c] \in {"exit", "cierre", "liberado"} => cliente[c] = "fin"

\* The account.
Cuenta(c) == cliente[c] # "fin" => Total(c) = Esperados(cliente[c]) + fallas[c]

Conversacion(c) ==
    FallaUnaVez(c) /\ Conectando(c) /\ Cerrando(c) /\ Cuenta(c)

IInv == TypeOK /\ RespuestaPropia /\ \A c \in Carpinchos : Conversacion(c)

-----------------------------------------------------------------------------
(* The sockets *)

\* A message more to the carpincho.
LEMMA TrasEnviar ==
    ASSUME aCliente \in [Carpinchos -> Seq(Mensajes)], NEW c \in Carpinchos,
           NEW op \in Opcodes, NEW que \in {"respuesta", "continuar", "fin"},
           Enviar(c, op, que)
    PROVE  /\ aCliente' \in [Carpinchos -> Seq(Mensajes)]
           /\ Len(aCliente'[c]) = Len(aCliente[c]) + 1
           /\ aCliente'[c][Len(aCliente'[c])].op = op
           /\ \A d \in Carpinchos \ {c} : aCliente'[d] = aCliente[d]
<1> DEFINE m == [op |-> op, que |-> que]
<1>1. m \in Mensajes
    BY DEF Mensajes
<1>2. aCliente[c] \in Seq(Mensajes)
    OBVIOUS
<1>3. aCliente'[c] = Append(aCliente[c], m)
    BY DEF Enviar
<1>4. /\ Append(aCliente[c], m) \in Seq(Mensajes)
      /\ Len(Append(aCliente[c], m)) = Len(aCliente[c]) + 1
      /\ Append(aCliente[c], m)[Len(aCliente[c]) + 1] = m
    BY <1>1, <1>2, AppendProperties
<1>5. /\ aCliente' \in [Carpinchos -> Seq(Mensajes)]
      /\ \A d \in Carpinchos \ {c} : aCliente'[d] = aCliente[d]
    BY <1>3, <1>4 DEF Enviar
<1> QED BY <1>3, <1>4, <1>5

\* A message less: the ones behind it are the same.
LEMMA TrasLeer ==
    ASSUME aCliente \in [Carpinchos -> Seq(Mensajes)], NEW c \in Carpinchos,
           NEW op, Leer(c, op)
    PROVE  /\ aCliente' \in [Carpinchos -> Seq(Mensajes)]
           /\ Len(aCliente[c]) \in Nat \ {0}
           /\ Len(aCliente'[c]) = Len(aCliente[c]) - 1
           /\ aCliente[c][1].op = op
           /\ Len(aCliente'[c]) > 0 =>
                aCliente'[c][Len(aCliente'[c])] = aCliente[c][Len(aCliente[c])]
           /\ \A d \in Carpinchos \ {c} : aCliente'[d] = aCliente[d]
<1>1. aCliente[c] \in Seq(Mensajes) /\ aCliente[c] # <<>>
    BY DEF Leer
<1>2. aCliente'[c] = Tail(aCliente[c]) /\ op = Head(aCliente[c]).op
    BY DEF Leer
<1>3. /\ Tail(aCliente[c]) \in Seq(Mensajes)
      /\ Len(Tail(aCliente[c])) = Len(aCliente[c]) - 1
      /\ \A i \in 1..Len(Tail(aCliente[c])) : Tail(aCliente[c])[i] = aCliente[c][i + 1]
    BY <1>1, HeadTailProperties
<1>4. /\ Len(aCliente[c]) \in Nat \ {0}
      /\ Head(aCliente[c]) = aCliente[c][1]
    BY <1>1, LenProperties, EmptySeq
<1>5. /\ aCliente' \in [Carpinchos -> Seq(Mensajes)]
      /\ \A d \in Carpinchos \ {c} : aCliente'[d] = aCliente[d]
    BY <1>2, <1>3 DEF Leer
<1> QED BY <1>2, <1>3, <1>4, <1>5

\* A request more to the kernel.
LEMMA TrasPedir ==
    ASSUME aKernel \in [Carpinchos -> Seq(Pedidos)], NEW c \in Carpinchos,
           NEW op \in Pedidos, Pedir(c, op)
    PROVE  /\ aKernel' \in [Carpinchos -> Seq(Pedidos)]
           /\ aKernel'[c] = Append(aKernel[c], op)
           /\ Len(aKernel'[c]) = Len(aKernel[c]) + 1
           /\ \A i \in 1..Len(aKernel[c]) : aKernel'[c][i] = aKernel[c][i]
           /\ aKernel'[c][Len(aKernel[c]) + 1] = op
           /\ \A d \in Carpinchos \ {c} : aKernel'[d] = aKernel[d]
<1>1. aKernel[c] \in Seq(Pedidos)
    OBVIOUS
<1>2. aKernel'[c] = Append(aKernel[c], op)
    BY DEF Pedir
<1>3. /\ Append(aKernel[c], op) \in Seq(Pedidos)
      /\ Len(Append(aKernel[c], op)) = Len(aKernel[c]) + 1
      /\ \A i \in 1..Len(aKernel[c]) : Append(aKernel[c], op)[i] = aKernel[c][i]
      /\ Append(aKernel[c], op)[Len(aKernel[c]) + 1] = op
    BY <1>1, AppendProperties
<1>4. /\ aKernel' \in [Carpinchos -> Seq(Pedidos)]
      /\ \A d \in Carpinchos \ {c} : aKernel'[d] = aKernel[d]
    BY <1>2, <1>3 DEF Pedir
<1> QED BY <1>2, <1>3, <1>4

\* A request less.
LEMMA TrasRecibir ==
    ASSUME aKernel \in [Carpinchos -> Seq(Pedidos)], NEW c \in Carpinchos,
           NEW op, Recibir(c, op)
    PROVE  /\ aKernel' \in [Carpinchos -> Seq(Pedidos)]
           /\ Len(aKernel[c]) \in Nat \ {0}
           /\ Len(aKernel'[c]) = Len(aKernel[c]) - 1
           /\ aKernel[c][1] = op
           /\ \A i \in 1..Len(aKernel'[c]) : aKernel'[c][i] = aKernel[c][i + 1]
           /\ \A d \in Carpinchos \ {c} : aKernel'[d] = aKernel[d]
<1>1. aKernel[c] \in Seq(Pedidos) /\ aKernel[c] # <<>>
    BY DEF Recibir
<1>2. aKernel'[c] = Tail(aKernel[c]) /\ op = Head(aKernel[c])
    BY DEF Recibir
<1>3. /\ Tail(aKernel[c]) \in Seq(Pedidos)
      /\ Len(Tail(aKernel[c])) = Len(aKernel[c]) - 1
      /\ \A i \in 1..Len(Tail(aKernel[c])) : Tail(aKernel[c])[i] = aKernel[c][i + 1]
    BY <1>1, HeadTailProperties
<1>4. /\ Len(aKernel[c]) \in Nat \ {0}
      /\ Head(aKernel[c]) = aKernel[c][1]
    BY <1>1, LenProperties, EmptySeq
<1>5. /\ aKernel' \in [Carpinchos -> Seq(Pedidos)]
      /\ \A d \in Carpinchos \ {c} : aKernel'[d] = aKernel[d]
    BY <1>2, <1>3 DEF Recibir
<1> QED BY <1>2, <1>3, <1>4, <1>5

\* The memory socket: its types and its one conversation.
TipoMem ==
    /\ aMem \in Seq(Hilos)
    /\ deMem \in Seq([op : RespuestasMemoria, para : Hilos])
    /\ mutexMem \in Hilos \cup {Nadie}

LEMMA TrasPreguntar ==
    ASSUME TipoMem, RespuestaPropia, NEW t \in Hilos, Preguntar(t)
    PROVE  TipoMem' /\ RespuestaPropia'
<1> USE DEF TipoMem
<1>1. Nadie \notin Hilos
    BY ConstantesProtocoloOK DEF ConstantesProtocoloOK
<1>2. mutexMem = Nadie /\ mutexMem' = t /\ aMem' = Append(aMem, t) /\ deMem' = deMem
    BY DEF Preguntar
<1>3. \A i \in 1..Len(aMem) : aMem[i] \in Hilos
    BY ElementOfSeq
<1>4. ASSUME NEW i \in 1..Len(deMem) PROVE deMem[i].para \in Hilos
    <2>1. deMem[i] \in [op : RespuestasMemoria, para : Hilos]
        BY ElementOfSeq
    <2> QED BY <2>1
<1>5. DOMAIN aMem = 1..Len(aMem) /\ DOMAIN deMem = 1..Len(deMem)
    BY LenProperties
<1>6. Len(aMem) \in Nat /\ Len(deMem) \in Nat
    BY LenProperties
<1>7. Len(aMem) = 0 /\ Len(deMem) = 0
    BY <1>1, <1>2, <1>3, <1>4, <1>5, <1>6 DEF RespuestaPropia
<1>8. /\ Append(aMem, t) \in Seq(Hilos)
      /\ Len(Append(aMem, t)) = 1
      /\ DOMAIN Append(aMem, t) = 1..1
      /\ Append(aMem, t)[1] = t
    BY <1>7, AppendProperties, LenProperties
<1>9. TipoMem'
    BY <1>2, <1>8
<1> QED BY <1>2, <1>5, <1>7, <1>8, <1>9 DEF RespuestaPropia

LEMMA TrasContestada ==
    ASSUME TipoMem, RespuestaPropia, NEW t, NEW r, Contestada(t, r)
    PROVE  TipoMem' /\ RespuestaPropia'
<1> USE DEF TipoMem
<1>1. deMem # <<>> /\ mutexMem' = Nadie /\ aMem' = aMem /\ deMem' = Tail(deMem)
    BY DEF Contestada
<1>2. /\ Len(aMem) \in Nat /\ Len(deMem) \in Nat \ {0}
      /\ DOMAIN aMem = 1..Len(aMem)
    BY <1>1, LenProperties, EmptySeq
<1>3. Len(aMem) = 0 /\ Len(deMem) = 1
    <2>1. Len(aMem) + Len(deMem) <= 1
        BY DEF RespuestaPropia
    <2> QED BY ONLY <1>2, <2>1
<1>4. /\ Tail(deMem) \in Seq([op : RespuestasMemoria, para : Hilos])
      /\ Len(Tail(deMem)) = 0
    BY <1>1, <1>3, HeadTailProperties
<1>5. DOMAIN Tail(deMem) = 1..0
    BY <1>4, LenProperties
<1>6. TipoMem'
    BY <1>1, <1>4
<1> QED BY <1>1, <1>2, <1>3, <1>4, <1>5, <1>6 DEF RespuestaPropia

LEMMA TrasResponder ==
    ASSUME TipoMem, RespuestaPropia, ResponderMemoria
    PROVE  TipoMem' /\ RespuestaPropia'
<1> USE DEF TipoMem
<1>1. PICK r \in RespuestasMemoria : deMem' = Append(deMem, [op |-> r, para |-> Head(aMem)])
    BY DEF ResponderMemoria
<1>2. aMem # <<>> /\ aMem' = Tail(aMem) /\ mutexMem' = mutexMem
    BY DEF ResponderMemoria
<1>3. /\ Len(aMem) \in Nat \ {0} /\ Len(deMem) \in Nat
      /\ DOMAIN aMem = 1..Len(aMem) /\ Head(aMem) = aMem[1]
    BY <1>2, LenProperties, EmptySeq
<1>4. Len(aMem) = 1 /\ Len(deMem) = 0 /\ Head(aMem) = mutexMem
    BY <1>3 DEF RespuestaPropia
<1>5. Head(aMem) \in Hilos
    BY <1>2, HeadTailProperties
<1> DEFINE m == [op |-> r, para |-> Head(aMem)]
<1>6. m \in [op : RespuestasMemoria, para : Hilos] /\ m.para = mutexMem
    BY <1>4, <1>5
<1>7. /\ Tail(aMem) \in Seq(Hilos) /\ Len(Tail(aMem)) = 0
    BY <1>2, <1>4, HeadTailProperties
<1>8. DOMAIN Tail(aMem) = 1..0
    BY <1>7, LenProperties
<1> HIDE DEF m
<1>9. /\ Append(deMem, m) \in Seq([op : RespuestasMemoria, para : Hilos])
      /\ Len(Append(deMem, m)) = 1
      /\ DOMAIN Append(deMem, m) = 1..1
      /\ Append(deMem, m)[1] = m
    BY <1>4, <1>6, AppendProperties, LenProperties
<1>10. deMem' = Append(deMem, m)
    BY <1>1 DEF m
<1>11. TipoMem'
    BY <1>2, <1>7, <1>9, <1>10
<1> QED BY <1>2, <1>6, <1>7, <1>8, <1>9, <1>10, <1>11 DEF RespuestaPropia
-----------------------------------------------------------------------------
(* Types *)

\* What TypeOK says of one carpincho.
Tipo(c) ==
    /\ aKernel[c] \in Seq(Pedidos) /\ aCliente[c] \in Seq(Mensajes)
    /\ Len(aKernel[c]) \in Nat /\ Len(aCliente[c]) \in Nat
    /\ cliente[c] \in {"inicio", "respuesta", "continuar", "libre", "fin"}
    /\ llamada[c] \in Llamadas \cup {"MATE_INIT"}
    /\ hechas[c] \in 0..MaxLlamadas /\ fallas[c] \in 0..MaxLlamadas
    /\ pcb[c] \in LugaresPCB
    /\ debe[c] \in Nat

LEMMA TipoDeCadaUno ==
    ASSUME TypeOK
    PROVE  TipoMem /\ \A c \in Carpinchos : Tipo(c)
BY LenProperties DEF TypeOK, Tipo, TipoMem

\* The client.
LEMMA TiposCliente ==
    ASSUME IInv, NEW c \in Carpinchos,
           MateInit(c) \/ MateClose(c) \/ Lee(c) \/ \E op \in Llamadas : Llamar(c, op)
    PROVE  TypeOK'
<1> USE DEF memoria
<1>1. TypeOK /\ FallaUnaVez(c)
    BY DEF IInv, Conversacion
<1>2. MaxLlamadas \in Nat
    BY ConstantesProtocoloOK DEF ConstantesProtocoloOK
<1>3. ASSUME NEW op, Leer(c, op) PROVE aCliente' \in [Carpinchos -> Seq(Mensajes)]
    BY <1>1, <1>3, TrasLeer DEF TypeOK
<1>4. ASSUME NEW op \in Pedidos, Pedir(c, op) PROVE aKernel' \in [Carpinchos -> Seq(Pedidos)]
    BY <1>1, <1>4, TrasPedir DEF TypeOK
<1>5. {"MATE_INIT", "MATE_CLOSE"} \cup Llamadas \subseteq Pedidos
    BY DEF Pedidos
<1>6. CASE MateInit(c)
    BY <1>1, <1>4, <1>5, <1>6 DEF MateInit, IrCliente, TypeOK
<1>7. CASE MateClose(c)
    BY <1>1, <1>4, <1>5, <1>7 DEF MateClose, IrCliente, TypeOK
<1>8. CASE LeerRespuesta(c)
    <2>1. fallas' \in [Carpinchos -> 0..MaxLlamadas]
        <3>1. fallas[c] \in 0..MaxLlamadas /\ hechas[c] \in 0..MaxLlamadas
            BY <1>1 DEF TypeOK
        <3>2. CASE /\ llamada[c] \in DeMemoria
                   /\ fallas' = [fallas EXCEPT ![c] = @ + 1]
            <4>1. fallas[c] < hechas[c]
                BY <1>1, <1>8, <3>2 DEF LeerRespuesta, FallaUnaVez
            <4>2. fallas[c] + 1 \in 0..MaxLlamadas
                BY <1>2, <3>1, <4>1
            <4> QED BY <1>1, <3>2, <4>2 DEF TypeOK
        <3>3. CASE UNCHANGED fallas
            BY <1>1, <3>3 DEF TypeOK
        <3> QED BY <1>8, <3>2, <3>3 DEF LeerRespuesta
    <2> QED BY <1>1, <1>3, <1>8, <2>1 DEF LeerRespuesta, IrCliente, TypeOK
<1>9. CASE LeerContinuar(c)
    BY <1>1, <1>3, <1>9 DEF LeerContinuar, IrCliente, TypeOK
<1>10. CASE \E op \in Llamadas : Llamar(c, op)
    BY <1>1, <1>2, <1>4, <1>5, <1>10 DEF Llamar, IrCliente, TypeOK
<1> QED BY <1>6, <1>7, <1>8, <1>9, <1>10 DEF Lee

\* The kernel, without the memory module.
LEMMA TiposKernel ==
    ASSUME TypeOK, NEW c \in Carpinchos,
           \/ Conectar(c) \/ Despachar(c) \/ Continuar(c) \/ AtenderSimple(c)
           \/ AtenderBloqueante(c) \/ AtenderIODesconocida(c)
           \/ AtenderMemoriaSimulada(c) \/ AtenderCierre(c) \/ ResponderBloqueante(c)
           \/ Desbloquear(c) \/ Finalizar(c) \/ Destruir(c)
    PROVE  TypeOK'
<1> USE DEF memoria, lib, sockets, TypeOK, IrPCB
<1>1. ASSUME NEW op, Recibir(c, op) PROVE aKernel' \in [Carpinchos -> Seq(Pedidos)]
    BY <1>1, TrasRecibir
<1>2. ASSUME NEW op \in Opcodes, NEW que \in {"respuesta", "continuar", "fin"},
             Enviar(c, op, que)
      PROVE  aCliente' \in [Carpinchos -> Seq(Mensajes)]
    BY <1>2, TrasEnviar
<1>3. {"OK_CONTINUE", "DEADLOCK_END"} \subseteq Opcodes
    BY DEF Opcodes
<1>4. {"espera", "exec", "turno", "abandonado", "exit", "finalizando", "finalizado",
       "blockedSem", "blockedIO"} \subseteq LugaresPCB
    BY DEF LugaresPCB
<1>5. CASE Conectar(c) BY <1>1, <1>2, <1>3, <1>4, <1>5 DEF Conectar
<1>6. CASE Despachar(c) \/ Continuar(c)
    BY <1>2, <1>3, <1>4, <1>6 DEF Despachar, Continuar, DarTurno
<1>7. CASE AtenderSimple(c)
    BY <1>1, <1>2, <1>3, <1>4, <1>7 DEF AtenderSimple
<1>8. CASE AtenderBloqueante(c)
    <2>1. debe' \in [Carpinchos -> Nat]
        BY <1>8 DEF AtenderBloqueante
    <2> QED BY <1>1, <1>4, <1>8, <2>1 DEF AtenderBloqueante
<1>9. CASE AtenderIODesconocida(c)
    BY <1>1, <1>2, <1>3, <1>4, <1>9 DEF AtenderIODesconocida
<1>10. CASE AtenderMemoriaSimulada(c)
    BY <1>1, <1>2, <1>3, <1>4, <1>10 DEF AtenderMemoriaSimulada
<1>11. CASE AtenderCierre(c) BY <1>1, <1>4, <1>11 DEF AtenderCierre
<1>12. CASE ResponderBloqueante(c)
    <2>1. debe[c] - 1 \in Nat
        BY <1>12 DEF ResponderBloqueante
    <2>2. debe' \in [Carpinchos -> Nat]
        BY <1>12, <2>1 DEF ResponderBloqueante
    <2>3. aCliente' \in [Carpinchos -> Seq(Mensajes)]
        BY <1>2, <1>3, <1>12 DEF ResponderBloqueante
    <2> QED BY <1>12, <2>2, <2>3 DEF ResponderBloqueante
<1>13. CASE Desbloquear(c) BY <1>4, <1>13 DEF Desbloquear
<1>14. CASE Finalizar(c) BY <1>2, <1>3, <1>4, <1>14 DEF Finalizar
<1>15. CASE Destruir(c) BY <1>4, <1>15 DEF Destruir
<1> QED BY <1>5, <1>6, <1>7, <1>8, <1>9, <1>10, <1>11, <1>12, <1>13, <1>14, <1>15

\* The threads that use the memory socket, and the memory module.
LEMMA TiposMemoria ==
    ASSUME TypeOK, RespuestaPropia, NEW c \in Carpinchos,
           \/ AtenderMemoria(c) \/ TerminarMemoria(c) \/ Suspender(c)
           \/ TerminarSuspension(c) \/ Liberar(c) \/ TerminarCierre(c) \/ ResponderMemoria
    PROVE  TypeOK' /\ RespuestaPropia'
<1> USE DEF lib, sockets, IrPCB
<1>1. ASSUME NEW op, Recibir(c, op) PROVE aKernel' \in [Carpinchos -> Seq(Pedidos)]
    BY <1>1, TrasRecibir DEF TypeOK
<1>2. ASSUME NEW op \in Opcodes, NEW que \in {"respuesta", "continuar", "fin"},
             Enviar(c, op, que)
      PROVE  aCliente' \in [Carpinchos -> Seq(Mensajes)]
    BY <1>2, TrasEnviar DEF TypeOK
<1>3. {"OK_CONTINUE", "FAIL", "OK_FINISH"} \subseteq Opcodes
    BY DEF Opcodes
<1>4. /\ {"turno", "memoria", "cierre", "liberado"} \subseteq LugaresPCB
      /\ \A m \in {"Sem", "IO"} : {Suspendiendo[m], Suspendido[m]} \subseteq LugaresPCB
    BY DEF LugaresPCB, Suspendiendo, Suspendido
<1>5. TipoMem
    BY TipoDeCadaUno
<1>6. ASSUME NEW t \in Hilos, Preguntar(t) PROVE TipoMem' /\ RespuestaPropia'
    BY <1>5, <1>6, TrasPreguntar
<1>7. ASSUME NEW t, NEW r, Contestada(t, r) PROVE TipoMem' /\ RespuestaPropia'
    BY <1>5, <1>7, TrasContestada
<1>8. c \in Hilos /\ "mediano" \in Hilos /\ "liberador" \in Hilos
    BY DEF Hilos
<1>9. ASSUME UNCHANGED memoria PROVE TipoMem' /\ RespuestaPropia'
    BY <1>5, <1>9 DEF memoria, TipoMem, RespuestaPropia
<1> USE DEF TypeOK, TipoMem
<1>10. CASE AtenderMemoria(c)
    BY <1>1, <1>4, <1>6, <1>8, <1>10 DEF AtenderMemoria
<1>11. CASE TerminarMemoria(c)
    BY <1>2, <1>3, <1>4, <1>7, <1>11 DEF TerminarMemoria
<1>12. CASE Suspender(c)
    BY <1>4, <1>6, <1>8, <1>9, <1>12 DEF Suspender
<1>13. CASE TerminarSuspension(c)
    BY <1>4, <1>7, <1>13 DEF TerminarSuspension
<1>14. CASE Liberar(c)
    BY <1>2, <1>3, <1>4, <1>6, <1>8, <1>9, <1>14 DEF Liberar
<1>15. CASE TerminarCierre(c)
    BY <1>2, <1>3, <1>4, <1>7, <1>15 DEF TerminarCierre
<1>16. CASE ResponderMemoria
    BY <1>5, <1>16, TrasResponder DEF ResponderMemoria
<1> QED BY <1>10, <1>11, <1>12, <1>13, <1>14, <1>15, <1>16
-----------------------------------------------------------------------------
(* The conversation of the carpincho that moves *)

\* Every term of the account is a number.
Numeros(c) ==
    /\ Pendientes(c) \in Nat /\ Atraso(c) \in Nat
    /\ Prometidos(c) \in 0..2 /\ debe[c] \in Nat
    /\ Total(c) \in Nat /\ Esperados(cliente[c]) \in 0..2 /\ fallas[c] \in Nat

LEMMA NumerosSiempre ==
    ASSUME NEW c, Tipo(c)
    PROVE  Numeros(c)
<1>1. Pendientes(c) \in Nat /\ Atraso(c) \in Nat
    BY DEF Tipo, Pendientes, Atraso
<1>2. Prometidos(c) \in 0..2 /\ Esperados(cliente[c]) \in 0..2
    BY DEF Prometidos, Debidos, Esperados
<1>3. debe[c] \in Nat /\ fallas[c] \in Nat
    BY DEF Tipo
<1>4. Total(c) \in Nat
    BY <1>1, <1>2, <1>3 DEF Total
<1> QED BY <1>1, <1>2, <1>3, <1>4 DEF Numeros
LEMMA ConversaCliente ==
    ASSUME IInv, NEW c \in Carpinchos,
           MateInit(c) \/ MateClose(c) \/ Lee(c) \/ \E op \in Llamadas : Llamar(c, op)
    PROVE  Conversacion(c)'
<1> USE DEF TypeOK
<1>1. TypeOK /\ Conversacion(c) /\ Tipo(c)
    BY TipoDeCadaUno DEF IInv
<1>2. \A i \in 1..Len(aKernel[c]) : aKernel[c][i] \in Pedidos
    BY <1>1, ElementOfSeq DEF Tipo
<1>3. Numeros(c)
    BY <1>1, NumerosSiempre
<1>4. CASE MateInit(c)
    <2>1. Pedir(c, "MATE_INIT") /\ "MATE_INIT" \in Pedidos
        BY <1>4 DEF MateInit, Pedidos
    <2>2. /\ pcb[c] = "conectar" /\ aKernel[c] = <<>> /\ aCliente[c] = <<>>
          /\ fallas[c] = 0 /\ debe[c] = 0 /\ llamada[c] = "MATE_INIT"
        BY <1>1, <1>4 DEF MateInit, Conversacion, Conectando, FallaUnaVez
    <2>3. /\ aKernel'[c] = <<"MATE_INIT">> /\ aCliente'[c] = <<>>
          /\ cliente'[c] = "respuesta" /\ pcb'[c] = "conectar"
          /\ llamada'[c] = "MATE_INIT" /\ hechas'[c] = hechas[c]
          /\ fallas'[c] = 0 /\ debe'[c] = 0
        BY <1>1, <1>4, <2>1, <2>2, TrasPedir DEF MateInit, IrCliente
    <2> QED BY <1>1, <2>2, <2>3
         DEF Conversacion, FallaUnaVez, Conectando, Cerrando, Cuenta,
             Total, Pendientes, Atraso, Prometidos, Debidos, Esperados, DeMemoria, Tipo
<1>5. CASE MateClose(c)
    <2>1. cliente[c] = "libre" /\ cliente'[c] = "fin"
        BY <1>1, <1>5 DEF MateClose, IrCliente
    <2>2. pcb[c] # "conectar" /\ pcb'[c] = pcb[c] /\ fallas'[c] = fallas[c]
          /\ hechas'[c] = hechas[c]
        BY <1>1, <1>5, <2>1 DEF MateClose, Conversacion, Conectando
    <2> QED BY <1>1, <2>1, <2>2
         DEF Conversacion, FallaUnaVez, Conectando, Cerrando, Cuenta
<1>6. CASE LeerRespuesta(c)
    <2>1. PICK op \in Opcodes :
            /\ Leer(c, op)
            /\ \/ /\ llamada[c] \in DeMemoria /\ op # "OK_CONTINUE"
                  /\ IrCliente(c, "libre")
                  /\ fallas' = [fallas EXCEPT ![c] = @ + 1]
               \/ /\ llamada[c] \notin DeMemoria \/ op = "OK_CONTINUE"
                  /\ IrCliente(c, "continuar")
                  /\ UNCHANGED fallas
        BY <1>6 DEF LeerRespuesta, Opcodes
    <2>2. Len(aCliente[c]) \in Nat \ {0} /\ Len(aCliente'[c]) = Len(aCliente[c]) - 1
        BY <1>1, <2>1, TrasLeer
    <2>3. /\ cliente[c] = "respuesta" /\ pcb'[c] = pcb[c] /\ debe'[c] = debe[c]
          /\ aKernel'[c] = aKernel[c] /\ llamada'[c] = llamada[c] /\ hechas'[c] = hechas[c]
          /\ UNCHANGED caido
        BY <1>6 DEF LeerRespuesta
    <2>4. \/ cliente'[c] = "libre" /\ fallas'[c] = fallas[c] + 1 /\ llamada[c] \in DeMemoria
          \/ cliente'[c] = "continuar" /\ fallas'[c] = fallas[c]
        BY <1>1, <2>1 DEF IrCliente
    <2>5. FallaUnaVez(c)'
        BY <1>1, <2>3, <2>4 DEF Conversacion, FallaUnaVez, Tipo
    <2>6. Conectando(c)'
        BY <1>1, <2>2, <2>3, <2>4, EmptySeq, LenProperties
           DEF Conversacion, Conectando, Tipo
    <2>7. Cerrando(c)'
        BY <1>1, <2>3, <2>4 DEF Conversacion, Cerrando
    <2>8. Total(c)' = Total(c) - 1
        <3>1. /\ Pendientes(c)' = Pendientes(c) /\ Atraso(c)' = Atraso(c) - 1
              /\ Prometidos(c)' = Prometidos(c) /\ debe'[c] = debe[c]
            BY <2>2, <2>3 DEF Pendientes, Atraso, Prometidos
        <3> QED BY <1>3, <3>1 DEF Numeros, Total
    <2>9. Cuenta(c)'
        <3>1. Esperados(cliente[c])' + fallas'[c] = Esperados(cliente[c]) + fallas[c] - 1
            BY <1>3, <2>3, <2>4 DEF Esperados, Numeros
        <3>2. Esperados(cliente[c])' \in Nat /\ fallas'[c] \in Nat
            BY <1>3, <2>3, <2>4 DEF Esperados, Numeros
        <3>3. /\ Total(c) \in Nat /\ Total(c)' \in Int
              /\ Esperados(cliente[c]) \in Nat /\ fallas[c] \in Nat
            BY <1>3, <2>8 DEF Numeros
        <3>4. Total(c) = Esperados(cliente[c]) + fallas[c]
            BY <1>1, <2>3 DEF Conversacion, Cuenta
        <3>5. Total(c)' = Esperados(cliente[c])' + fallas'[c]
            BY <2>8, <3>1, <3>2, <3>3, <3>4
        <3> QED BY <3>5 DEF Cuenta
    <2> QED BY <2>5, <2>6, <2>7, <2>9 DEF Conversacion
<1>7. CASE LeerContinuar(c)
    <2>1. PICK op \in Opcodes :
            /\ Leer(c, op)
            /\ IF op = "DEADLOCK_END" THEN IrCliente(c, "fin") ELSE IrCliente(c, "libre")
        BY <1>7 DEF LeerContinuar, Opcodes
    <2>2. Len(aCliente[c]) \in Nat \ {0} /\ Len(aCliente'[c]) = Len(aCliente[c]) - 1
        BY <1>1, <2>1, TrasLeer
    <2>3. /\ cliente[c] = "continuar" /\ pcb'[c] = pcb[c] /\ debe'[c] = debe[c]
          /\ aKernel'[c] = aKernel[c] /\ llamada'[c] = llamada[c] /\ hechas'[c] = hechas[c]
          /\ fallas'[c] = fallas[c] /\ UNCHANGED caido
        BY <1>7 DEF LeerContinuar
    <2>4. cliente'[c] = IF op = "DEADLOCK_END" THEN "fin" ELSE "libre"
        BY <1>1, <2>1 DEF IrCliente
    <2>5. FallaUnaVez(c)'
        BY <1>1, <2>3, <2>4 DEF Conversacion, FallaUnaVez
    <2>6. Conectando(c)'
        BY <1>1, <2>3, <2>4 DEF Conversacion, Conectando
    <2>7. Cerrando(c)'
        BY <1>1, <2>3, <2>4 DEF Conversacion, Cerrando
    <2>8. Total(c)' = Total(c) - 1
        <3>1. /\ Pendientes(c)' = Pendientes(c) /\ Atraso(c)' = Atraso(c) - 1
              /\ Prometidos(c)' = Prometidos(c) /\ debe'[c] = debe[c]
            BY <2>2, <2>3 DEF Pendientes, Atraso, Prometidos
        <3> QED BY <1>3, <3>1 DEF Numeros, Total
    <2>9. Cuenta(c)'
        BY <1>1, <1>3, <2>3, <2>4, <2>8 DEF Conversacion, Cuenta, Esperados, Numeros
    <2> QED BY <2>5, <2>6, <2>7, <2>9 DEF Conversacion
<1>8. ASSUME NEW op \in Llamadas, Llamar(c, op) PROVE Conversacion(c)'
    <2>1. Pedir(c, op) /\ op \in Pedidos /\ op # "MATE_CLOSE"
        BY <1>8, ConstantesProtocoloOK
           DEF Llamar, Pedidos, ConstantesProtocoloOK, Simples, Bloqueantes, DeMemoria
    <2>2. /\ Len(aKernel'[c]) = Len(aKernel[c]) + 1
          /\ \A i \in 1..Len(aKernel[c]) : aKernel'[c][i] = aKernel[c][i]
          /\ aKernel'[c][Len(aKernel[c]) + 1] = op
        BY <1>1, <2>1, TrasPedir
    <2>3. /\ cliente[c] = "libre" /\ cliente'[c] = "respuesta"
          /\ pcb'[c] = pcb[c] /\ debe'[c] = debe[c]
          /\ aCliente'[c] = aCliente[c] /\ hechas'[c] = hechas[c] + 1
          /\ fallas'[c] = fallas[c] /\ UNCHANGED caido
        BY <1>1, <1>8 DEF Llamar, IrCliente
    <2>4. FallaUnaVez(c)'
        BY <1>1, <2>3 DEF Conversacion, FallaUnaVez, Tipo
    <2>5. Conectando(c)'
        BY <1>1, <2>3 DEF Conversacion, Conectando
    <2>6. \A i \in 1..Len(aKernel[c]) : aKernel[c][i] # "MATE_CLOSE"
        BY <1>1, <2>3 DEF Conversacion, Cerrando
    <2>7. \A i \in 1..Len(aKernel'[c]) : aKernel'[c][i] # "MATE_CLOSE"
        BY <1>3, <2>1, <2>2, <2>6
    <2>8. Cerrando(c)'
        BY <1>1, <2>3, <2>7 DEF Conversacion, Cerrando
    <2>9. Total(c)' = Total(c) + 2
        <3>1. /\ Pendientes(c)' = Pendientes(c) + 1 /\ Atraso(c)' = Atraso(c)
              /\ Prometidos(c)' = Prometidos(c) /\ debe'[c] = debe[c]
            BY <2>2, <2>3 DEF Pendientes, Atraso, Prometidos
        <3> QED BY <1>3, <3>1 DEF Numeros, Total
    <2>10. Cuenta(c)'
        BY <1>1, <1>3, <2>3, <2>9 DEF Conversacion, Cuenta, Esperados, Numeros
    <2> QED BY <2>4, <2>5, <2>8, <2>10 DEF Conversacion
<1> QED BY <1>4, <1>5, <1>6, <1>7, <1>8 DEF Lee

\* What a thread of the kernel does to a conversation keeps its account: it
\* trades a request, or a message it owed, for messages of the same worth.
LEMMA ConversaKernel ==
    ASSUME NEW c, Tipo(c), Conversacion(c), cliente[c] # "inicio",
           cliente'[c] = cliente[c], llamada'[c] = llamada[c],
           hechas'[c] = hechas[c], fallas'[c] = fallas[c],
           pcb'[c] # "conectar",
           pcb'[c] \in {"exit", "cierre", "liberado"} => cliente[c] = "fin",
           cliente[c] = "fin" \/ Total(c)' = Total(c),
           \A i \in 1..Len(aKernel'[c]) : \E j \in 1..Len(aKernel[c]) :
                aKernel'[c][i] = aKernel[c][j]
    PROVE  Conversacion(c)'
<1>1. FallaUnaVez(c)'
    BY DEF Conversacion, FallaUnaVez
<1>2. Conectando(c)'
    BY DEF Conversacion, Conectando
<1>3. Cerrando(c)'
    BY DEF Conversacion, Cerrando
<1>4. Cuenta(c)'
    BY DEF Conversacion, Cuenta
<1> QED BY <1>1, <1>2, <1>3, <1>4 DEF Conversacion

\* The kernel, but for the answer that a CPU owes.
LEMMA AccionKernel ==
    ASSUME IInv, NEW c \in Carpinchos,
           \/ Despachar(c) \/ Finalizar(c) \/ Destruir(c)
           \/ Atiende(c) \/ TerminarMemoria(c) \/ Desbloquear(c) \/ Suspender(c)
           \/ TerminarSuspension(c) \/ Liberar(c) \/ TerminarCierre(c)
    PROVE  Conversacion(c)'
<1> USE DEF TypeOK, IrPCB, sockets, lib, Opcodes
<1>1. TypeOK /\ Conversacion(c) /\ Tipo(c)
    BY TipoDeCadaUno DEF IInv
<1>2. Numeros(c)
    BY <1>1, NumerosSiempre
<1>3. ~caido /\ UNCHANGED lib
    BY DEF Atiende, Conectar, Despachar, Continuar, DarTurno, AtenderSimple,
           AtenderBloqueante, AtenderIODesconocida, AtenderMemoria,
           AtenderMemoriaSimulada, AtenderCierre, TerminarMemoria, Desbloquear,
           Finalizar, Destruir, Suspender, TerminarSuspension, Liberar, TerminarCierre
<1>4. pcb[c] # "conectar" => cliente[c] # "inicio"
    BY <1>1 DEF Conversacion, Conectando
\* What each step does to the sockets of the carpincho.
<1> DEFINE Recibe(op) ==
            /\ Pendientes(c)' = Pendientes(c) - 1 /\ Len(aKernel[c]) > 0
            /\ aKernel[c][1] = op
            /\ \A i \in 1..Len(aKernel'[c]) : aKernel'[c][i] = aKernel[c][i + 1]
           NoRecibe == aKernel'[c] = aKernel[c]
           Manda == Atraso(c)' = Atraso(c) + 1
           NoManda == Atraso(c)' = Atraso(c)
           Pasa(a, e) == pcb[c] = a /\ pcb'[c] = e
<1>5. ASSUME NEW op, Recibir(c, op) PROVE Recibe(op)
    BY <1>1, <1>5, TrasRecibir DEF Pendientes
<1>6. ASSUME NEW op \in Opcodes, NEW que \in {"respuesta", "continuar", "fin"},
             Enviar(c, op, que)
      PROVE  Manda
    BY <1>1, <1>6, TrasEnviar DEF Atraso
<1>7. ASSUME UNCHANGED aKernel PROVE NoRecibe /\ Pendientes(c)' = Pendientes(c)
    BY <1>7 DEF Pendientes
<1>8. ASSUME UNCHANGED aCliente PROVE NoManda
    BY <1>8 DEF Atraso
<1>9. ASSUME NoRecibe \/ \E op : Recibe(op)
      PROVE  \A i \in 1..Len(aKernel'[c]) : \E j \in 1..Len(aKernel[c]) :
                aKernel'[c][i] = aKernel[c][j]
    <2>1. CASE NoRecibe
        BY <2>1
    <2>2. ASSUME NEW op, Recibe(op), NEW i \in 1..Len(aKernel'[c])
          PROVE  \E j \in 1..Len(aKernel[c]) : aKernel'[c][i] = aKernel[c][j]
        <3>1. Len(aKernel'[c]) = Len(aKernel[c]) - 1 /\ Len(aKernel[c]) \in Nat
            BY <1>2, <2>2 DEF Numeros, Pendientes
        <3>2. i + 1 \in 1..Len(aKernel[c])
            BY <2>2, <3>1
        <3> QED BY <2>2, <3>2
    <2> QED BY <1>9, <2>1, <2>2
<1> HIDE DEF Recibe, NoRecibe
<1>10. ASSUME cliente[c] # "inicio", pcb'[c] # "conectar",
              pcb'[c] \in {"exit", "cierre", "liberado"} => cliente[c] = "fin",
              cliente[c] = "fin" \/ Total(c)' = Total(c),
              NoRecibe \/ \E op : Recibe(op)
       PROVE  Conversacion(c)'
    <2>1. \A i \in 1..Len(aKernel'[c]) : \E j \in 1..Len(aKernel[c]) :
                aKernel'[c][i] = aKernel[c][j]
        BY <1>9, <1>10
    <2> QED BY <1>1, <1>3, <1>10, <2>1, ConversaKernel
<1>11. CASE Conectar(c)
    <2>1. Recibe("MATE_INIT") /\ Manda /\ Pasa("conectar", "espera") /\ debe'[c] = debe[c]
        BY <1>1, <1>5, <1>6, <1>11 DEF Conectar
    <2>2. cliente[c] # "inicio"
        BY <1>1, <2>1, EmptySeq DEF Conversacion, Conectando, Recibe
    <2>3. Total(c)' = Total(c)
        BY <1>2, <2>1 DEF Recibe, Total, Numeros, Prometidos, Debidos
    <2> QED BY <1>10, <2>1, <2>2, <2>3
<1>12. CASE Despachar(c) \/ Continuar(c)
    <2>1. NoRecibe /\ Pendientes(c)' = Pendientes(c) /\ Manda /\ debe'[c] = debe[c]
        BY <1>6, <1>7, <1>12 DEF Despachar, Continuar, DarTurno
    <2>2. pcb[c] \in {"espera", "turno"} /\ pcb'[c] = "exec"
        BY <1>1, <1>12 DEF Despachar, Continuar, DarTurno
    <2>3. Total(c)' = Total(c)
        BY <1>2, <2>1, <2>2 DEF Total, Numeros, Prometidos, Debidos
    <2> QED BY <1>4, <1>10, <2>1, <2>2, <2>3
<1>13. CASE AtenderSimple(c)
    <2>1. (\E op : Recibe(op)) /\ Manda /\ Pasa("exec", "turno") /\ debe'[c] = debe[c]
        BY <1>1, <1>5, <1>6, <1>13 DEF AtenderSimple
    <2>2. Total(c)' = Total(c)
        BY <1>2, <2>1 DEF Recibe, Total, Numeros, Prometidos, Debidos
    <2> QED BY <1>4, <1>10, <2>1, <2>2
<1>14. CASE AtenderBloqueante(c)
    <2>1. (\E op : Recibe(op)) /\ NoManda /\ debe'[c] = debe[c] + 1
        BY <1>1, <1>5, <1>8, <1>14 DEF AtenderBloqueante
    <2>2. pcb[c] = "exec" /\ pcb'[c] \in {"blockedSem", "blockedIO"}
        BY <1>1, <1>14 DEF AtenderBloqueante
    <2>3. Prometidos(c) = 0 /\ Prometidos(c)' = 1
        BY <2>2 DEF Prometidos, Debidos
    <2>4. Total(c)' = Total(c)
        BY <1>2, <2>1, <2>3 DEF Recibe, Total, Numeros
    <2> QED BY <1>4, <1>10, <2>1, <2>2, <2>4
<1>15. CASE AtenderIODesconocida(c)
    <2>1. (\E op : Recibe(op)) /\ Manda /\ Pasa("exec", "abandonado") /\ debe'[c] = debe[c]
        BY <1>1, <1>5, <1>6, <1>15 DEF AtenderIODesconocida
    <2>2. Total(c)' = Total(c)
        BY <1>2, <2>1 DEF Recibe, Total, Numeros, Prometidos, Debidos
    <2> QED BY <1>4, <1>10, <2>1, <2>2
<1>16. CASE AtenderMemoria(c)
    <2>1. (\E op : Recibe(op)) /\ NoManda /\ Pasa("exec", "memoria") /\ debe'[c] = debe[c]
        BY <1>1, <1>5, <1>8, <1>16 DEF AtenderMemoria
    <2>2. Total(c)' = Total(c)
        BY <1>2, <2>1 DEF Recibe, Total, Numeros, Prometidos, Debidos
    <2> QED BY <1>4, <1>10, <2>1, <2>2
<1>17. CASE AtenderMemoriaSimulada(c)
    <2>1. (\E op : Recibe(op)) /\ Manda /\ Pasa("exec", "turno") /\ debe'[c] = debe[c]
        BY <1>1, <1>5, <1>6, <1>17 DEF AtenderMemoriaSimulada
    <2>2. Total(c)' = Total(c)
        BY <1>2, <2>1 DEF Recibe, Total, Numeros, Prometidos, Debidos
    <2> QED BY <1>4, <1>10, <2>1, <2>2
<1>18. CASE AtenderCierre(c)
    <2>1. Recibe("MATE_CLOSE") /\ Pasa("exec", "exit")
        BY <1>1, <1>5, <1>18 DEF AtenderCierre
    <2>2. cliente[c] = "fin"
        <3>1. 1 \in 1..Len(aKernel[c]) /\ aKernel[c][1] = "MATE_CLOSE"
            BY <1>2, <2>1 DEF Recibe, Numeros, Pendientes
        <3> QED BY <1>1, <3>1 DEF Conversacion, Cerrando
    <2> QED BY <1>10, <2>1, <2>2
<1>19. CASE TerminarMemoria(c)
    <2>1. NoRecibe /\ Pendientes(c)' = Pendientes(c) /\ Manda /\ Pasa("memoria", "turno")
          /\ debe'[c] = debe[c]
        BY <1>1, <1>6, <1>7, <1>19 DEF TerminarMemoria
    <2>2. Total(c)' = Total(c)
        BY <1>2, <2>1 DEF Total, Numeros, Prometidos, Debidos
    <2> QED BY <1>4, <1>10, <2>1, <2>2
\* A PCB that moves between the blocked states, or leaves them.
<1>20. ASSUME UNCHANGED sockets, debe'[c] = debe[c],
              pcb[c] \in {"blockedSem", "blockedIO", "suspendiendoSem", "suspendiendoIO",
                          "susblockedSem", "susblockedIO"},
              pcb'[c] \in {"espera", "suspendiendoSem", "suspendiendoIO",
                          "susblockedSem", "susblockedIO"}
       PROVE  Conversacion(c)'
    <2>1. NoRecibe /\ Pendientes(c)' = Pendientes(c) /\ NoManda
        BY <1>7, <1>8, <1>20
    <2>2. Total(c)' = Total(c)
        BY <1>2, <1>20, <2>1 DEF Total, Numeros, Prometidos, Debidos
    <2> QED BY <1>4, <1>10, <1>20, <2>1, <2>2
<1>21. CASE Desbloquear(c)
    BY <1>1, <1>20, <1>21 DEF Desbloquear
<1>22. CASE Suspender(c)
    BY <1>1, <1>20, <1>22 DEF Suspender, Bloqueado, Suspendiendo, Suspendido
<1>23. CASE TerminarSuspension(c)
    BY <1>1, <1>20, <1>23 DEF TerminarSuspension, Suspendiendo, Suspendido
<1>24. ASSUME UNCHANGED aKernel, pcb[c] \in {"exit", "cierre"},
              pcb'[c] \in {"cierre", "liberado"}
       PROVE  Conversacion(c)'
    <2>1. cliente[c] = "fin"
        BY <1>1, <1>24 DEF Conversacion, Cerrando
    <2> QED BY <1>7, <1>10, <1>24, <2>1
<1>25. CASE Liberar(c)
    BY <1>1, <1>24, <1>25 DEF Liberar
<1>26. CASE TerminarCierre(c)
    BY <1>1, <1>24, <1>26 DEF TerminarCierre
\* The detector: DEADLOCK_END in the place of the OK_CONTINUE of the dispatch.
<1>27. CASE Finalizar(c)
    <2>1. NoRecibe /\ Pendientes(c)' = Pendientes(c) /\ Manda /\ debe'[c] = debe[c]
        BY <1>6, <1>7, <1>27 DEF Finalizar
    <2>2. pcb[c] \in {"blockedSem", "susblockedSem"} /\ pcb'[c] = "finalizando"
        BY <1>1, <1>27 DEF Finalizar
    <2>3. Total(c)' = Total(c)
        BY <1>2, <2>1, <2>2 DEF Total, Numeros, Prometidos, Debidos
    <2> QED BY <1>4, <1>10, <2>1, <2>2, <2>3
<1>28. CASE Destruir(c)
    <2>1. NoRecibe /\ Pendientes(c)' = Pendientes(c) /\ NoManda /\ debe'[c] = debe[c]
        BY <1>7, <1>8, <1>28 DEF Destruir
    <2>2. Pasa("finalizando", "finalizado")
        BY <1>1, <1>28 DEF Destruir
    <2>3. Total(c)' = Total(c)
        BY <1>2, <2>1, <2>2 DEF Total, Numeros, Prometidos, Debidos
    <2> QED BY <1>4, <1>10, <2>1, <2>2, <2>3
<1> QED BY <1>11, <1>12, <1>13, <1>14, <1>15, <1>16, <1>17, <1>18, <1>19, <1>21, <1>22,
           <1>23, <1>25, <1>26, <1>27, <1>28 DEF Atiende

\* A CPU sends the answer that it owed, or the kernel ends before that.
LEMMA ConversaResponder ==
    ASSUME IInv, NEW c \in Carpinchos, ResponderBloqueante(c)
    PROVE  Conversacion(c)'
<1>1. TypeOK /\ Conversacion(c) /\ Tipo(c)
    BY TipoDeCadaUno DEF IInv
<1>2. Numeros(c)
    BY <1>1, NumerosSiempre
<1>3. debe[c] > 0 /\ UNCHANGED <<aKernel, cliente, llamada, hechas, fallas, pcb>>
    BY DEF ResponderBloqueante, lib
<1>4. cliente[c] # "inicio" /\ pcb[c] # "conectar"
    BY <1>1, <1>2, <1>3 DEF Conversacion, Conectando, Numeros
<1>5. Pendientes(c)' = Pendientes(c) /\ Prometidos(c)' = Prometidos(c)
    BY <1>3 DEF Pendientes, Prometidos
<1>6. Total(c)' = Total(c)
    <2>1. CASE /\ Enviar(c, "OK_CONTINUE", "respuesta")
               /\ debe' = [debe EXCEPT ![c] = @ - 1]
        <3>1. Atraso(c)' = Atraso(c) + 1
            BY <1>1, <2>1, TrasEnviar DEF Atraso, TypeOK, Opcodes
        <3>2. debe'[c] = debe[c] - 1
            BY <1>1, <2>1 DEF TypeOK
        <3> QED BY <1>2, <1>5, <3>1, <3>2 DEF Total, Numeros
    <2>2. CASE UNCHANGED <<aCliente, debe>>
        BY <1>5, <2>2 DEF Total, Atraso
    <2> QED BY <2>1, <2>2 DEF ResponderBloqueante
<1>7. pcb'[c] \in {"exit", "cierre", "liberado"} => cliente[c] = "fin"
    BY <1>1, <1>3 DEF Conversacion, Cerrando
<1> QED BY <1>1, <1>3, <1>4, <1>6, <1>7, ConversaKernel
-----------------------------------------------------------------------------
(* Every step *)

\* A step that leaves a carpincho alone leaves its account alone.
LEMMA Ajeno ==
    ASSUME NEW d, Conversacion(d),
           aKernel'[d] = aKernel[d], aCliente'[d] = aCliente[d],
           cliente'[d] = cliente[d], llamada'[d] = llamada[d], hechas'[d] = hechas[d],
           fallas'[d] = fallas[d], pcb'[d] = pcb[d], debe'[d] = debe[d]
    PROVE  Conversacion(d)'
<1>1. Total(d)' = Total(d) /\ Esperados(cliente[d])' = Esperados(cliente[d])
    BY DEF Total, Pendientes, Atraso, Prometidos, Esperados
<1>2. Cuenta(d)'
    BY <1>1 DEF Conversacion, Cuenta
<1>3. FallaUnaVez(d)' /\ Conectando(d)' /\ Cerrando(d)'
    BY DEF Conversacion, FallaUnaVez, Conectando, Cerrando
<1> QED BY <1>2, <1>3 DEF Conversacion

DelCliente(c) == MateInit(c) \/ MateClose(c) \/ Lee(c) \/ \E op \in Llamadas : Llamar(c, op)
DelKernel(c) ==
    \/ Despachar(c) \/ Finalizar(c) \/ Destruir(c)
    \/ Atiende(c) \/ TerminarMemoria(c) \/ Desbloquear(c) \/ Suspender(c)
    \/ TerminarSuspension(c) \/ Liberar(c) \/ TerminarCierre(c)

\* A step of c changes the sockets, the client and the PCB of c only.
LEMMA SoloDeUno ==
    ASSUME TypeOK, NEW c \in Carpinchos, NEW d \in Carpinchos \ {c},
           DelCliente(c) \/ DelKernel(c) \/ ResponderBloqueante(c)
    PROVE  /\ aKernel'[d] = aKernel[d] /\ aCliente'[d] = aCliente[d]
           /\ cliente'[d] = cliente[d] /\ llamada'[d] = llamada[d]
           /\ hechas'[d] = hechas[d] /\ fallas'[d] = fallas[d]
           /\ pcb'[d] = pcb[d] /\ debe'[d] = debe[d]
<1> USE DEF TypeOK, sockets, lib, Pedir, IrCliente, Leer, Enviar, Recibir, IrPCB
<1>1. CASE DelCliente(c)
    BY <1>1 DEF DelCliente, MateInit, MateClose, Lee, LeerRespuesta, LeerContinuar, Llamar
<1>2. CASE Atiende(c)
    BY <1>2 DEF Atiende, Conectar, Continuar, DarTurno, AtenderSimple, AtenderBloqueante,
                AtenderIODesconocida, AtenderMemoria, AtenderMemoriaSimulada, AtenderCierre
<1>3. CASE TerminarMemoria(c) \/ Desbloquear(c) \/ Suspender(c) \/ TerminarSuspension(c)
    BY <1>3 DEF TerminarMemoria, Desbloquear, Suspender, TerminarSuspension
<1>4. CASE Liberar(c) \/ TerminarCierre(c) \/ ResponderBloqueante(c)
    BY <1>4 DEF Liberar, TerminarCierre, ResponderBloqueante
<1>5. CASE Despachar(c) \/ Finalizar(c) \/ Destruir(c)
    BY <1>5 DEF Despachar, DarTurno, Finalizar, Destruir
<1> QED BY <1>1, <1>2, <1>3, <1>4, <1>5 DEF DelKernel

\* The invariant holds at the beginning and every step keeps it.
LEMMA Inicial ==
    ASSUME Init
    PROVE  IInv
<1>1. TypeOK
    <2>1. MaxLlamadas \in Nat
        BY ConstantesProtocoloOK DEF ConstantesProtocoloOK
    <2>2. /\ <<>> \in Seq(Pedidos) /\ <<>> \in Seq(Mensajes) /\ <<>> \in Seq(Hilos)
          /\ <<>> \in Seq([op : RespuestasMemoria, para : Hilos])
        BY EmptySeq
    <2>3. /\ hechas \in [Carpinchos -> 0..MaxLlamadas]
          /\ fallas \in [Carpinchos -> 0..MaxLlamadas]
        BY <2>1 DEF Init
    <2> QED BY <2>2, <2>3 DEF Init, TypeOK, LugaresPCB
<1>2. RespuestaPropia
    BY DEF Init, RespuestaPropia
<1>3. ASSUME NEW c \in Carpinchos PROVE Conversacion(c)
    BY <1>3, EmptySeq DEF Init, Conversacion, FallaUnaVez, Conectando, Cerrando, Cuenta,
       Total, Pendientes, Atraso, Prometidos, Debidos, Esperados
<1> QED BY <1>1, <1>2, <1>3 DEF IInv

LEMMA Inductivo ==
    ASSUME IInv, [Next]_vars
    PROVE  IInv'
<1>1. TypeOK /\ RespuestaPropia
    BY DEF IInv
<1>2. CASE UNCHANGED vars
    <2>1. TypeOK' /\ RespuestaPropia'
        BY <1>1, <1>2 DEF vars, sockets, lib, memoria, TypeOK, RespuestaPropia
    <2>2. ASSUME NEW d \in Carpinchos PROVE Conversacion(d)'
        BY <1>2, Ajeno DEF IInv, vars, sockets, lib, memoria
    <2> QED BY <2>1, <2>2 DEF IInv
<1>3. ASSUME NEW c \in Carpinchos,
             DelCliente(c) \/ DelKernel(c) \/ ResponderBloqueante(c)
      PROVE  \A d \in Carpinchos : Conversacion(d)'
    <2>1. Conversacion(c)'
        BY <1>3, ConversaCliente, AccionKernel, ConversaResponder
           DEF DelCliente, DelKernel
    <2>2. ASSUME NEW d \in Carpinchos \ {c} PROVE Conversacion(d)'
        BY <1>1, <1>3, SoloDeUno, Ajeno DEF IInv
    <2> QED BY <2>1, <2>2
<1>4. ASSUME NEW c \in Carpinchos,
             DelCliente(c) \/ DelKernel(c) \/ ResponderBloqueante(c)
      PROVE  TypeOK' /\ RespuestaPropia'
    <2>1. CASE DelCliente(c)
        <3>1. UNCHANGED memoria
            BY <2>1 DEF DelCliente, MateInit, MateClose, Lee, LeerRespuesta,
                        LeerContinuar, Llamar
        <3> QED BY <1>1, <2>1, <3>1, TiposCliente DEF DelCliente, memoria, RespuestaPropia
    <2>2. CASE \/ AtenderMemoria(c) \/ TerminarMemoria(c) \/ Suspender(c)
               \/ TerminarSuspension(c) \/ Liberar(c) \/ TerminarCierre(c)
        BY <1>1, <2>2, TiposMemoria
    <2>3. CASE \/ Conectar(c) \/ Despachar(c) \/ Continuar(c) \/ AtenderSimple(c)
               \/ AtenderBloqueante(c) \/ AtenderIODesconocida(c)
               \/ AtenderMemoriaSimulada(c) \/ AtenderCierre(c) \/ ResponderBloqueante(c)
               \/ Desbloquear(c) \/ Finalizar(c) \/ Destruir(c)
        <3>1. UNCHANGED memoria
            BY <2>3 DEF Conectar, Despachar, Continuar, DarTurno, AtenderSimple,
                   AtenderBloqueante, AtenderIODesconocida, AtenderMemoriaSimulada,
                   AtenderCierre, ResponderBloqueante, Desbloquear, Finalizar, Destruir
        <3> QED BY <1>1, <2>3, <3>1, TiposKernel DEF memoria, RespuestaPropia
    <2> QED BY <1>4, <2>1, <2>2, <2>3 DEF DelKernel, Atiende
<1>5. CASE ResponderMemoria
    <2>1. TypeOK' /\ RespuestaPropia'
        <3>1. CASE Carpinchos = {}
            BY <1>1, <1>5, <3>1, TrasResponder, TipoDeCadaUno
               DEF ResponderMemoria, TypeOK, TipoMem, sockets, lib
        <3>2. ASSUME NEW c \in Carpinchos PROVE TypeOK' /\ RespuestaPropia'
            BY <1>1, <1>5, TiposMemoria
        <3> QED BY <3>1, <3>2
    <2>2. ASSUME NEW d \in Carpinchos PROVE Conversacion(d)'
        BY <1>5, Ajeno DEF IInv, ResponderMemoria, sockets, lib
    <2> QED BY <2>1, <2>2 DEF IInv
<1>6. ASSUME NEW c \in Carpinchos,
             DelCliente(c) \/ DelKernel(c) \/ ResponderBloqueante(c)
      PROVE  IInv'
    BY <1>3, <1>4, <1>6 DEF IInv
<1> QED BY <1>2, <1>5, <1>6 DEF Next, DelCliente, DelKernel

THEOREM IInvSiempre == Spec => []IInv
BY Inicial, Inductivo, PTL DEF Spec

\* Every variable keeps its type; in particular a carpincho has no more calls
\* failed by memory than calls made.
THEOREM TipoProtocoloSiempre == Spec => []TypeOK
<1>1. IInv => TypeOK
    BY DEF IInv
<1> QED BY <1>1, IInvSiempre, PTL

\* The memory socket carries one conversation at a time, that of the thread
\* that holds mutexMemSocket, for any number of carpinchos.
THEOREM RespuestaPropiaSiempre == Spec => []RespuestaPropia
<1>1. IInv => RespuestaPropia
    BY DEF IInv
<1> QED BY <1>1, IInvSiempre, PTL

\* A call of matelib returns when the PCB has the CPU, or the detector has ended
\* it, as long as memory has not failed the carpincho, for any number of calls.
THEOREM VuelveEnEjecucionSiempre == Spec => []VuelveEnEjecucion
<1>1. ASSUME IInv PROVE VuelveEnEjecucion
    <2> SUFFICES ASSUME NEW c \in Carpinchos, cliente[c] = "libre", fallas[c] = 0
                 PROVE  pcb[c] \in {"exec", "finalizando", "finalizado"}
        BY DEF VuelveEnEjecucion
    <2>1. Conversacion(c) /\ Numeros(c) /\ pcb[c] \in LugaresPCB
        BY <1>1, TipoDeCadaUno, NumerosSiempre DEF IInv, Tipo
    <2>2. pcb[c] \notin {"conectar", "exit", "cierre", "liberado"}
        BY <2>1 DEF Conversacion, Conectando, Cerrando
    <2>3. Esperados(cliente[c]) = 0
        BY DEF Esperados
    <2>4. Total(c) = 0
        BY <2>1, <2>3 DEF Conversacion, Cuenta, Numeros
    <2>5. Prometidos(c) = 0
        BY <2>1, <2>4 DEF Numeros, Total
    <2> QED BY <2>1, <2>2, <2>5 DEF Prometidos, Debidos, LugaresPCB
<1> QED BY <1>1, IInvSiempre, PTL

\* Between calls, a carpincho that runs has one unread message for each FAIL
\* of memory, and no other, for any number of calls.
THEOREM CuentaAtrasoSiempre == Spec => []CuentaAtraso
<1>1. ASSUME IInv PROVE CuentaAtraso
    <2> SUFFICES ASSUME NEW c \in Carpinchos, cliente[c] = "libre", pcb[c] = "exec",
                        aKernel[c] = <<>>, debe[c] = 0
                 PROVE  Atraso(c) = fallas[c]
        BY DEF CuentaAtraso
    <2>1. Conversacion(c) /\ Numeros(c)
        BY <1>1, TipoDeCadaUno, NumerosSiempre DEF IInv
    <2>2. Esperados(cliente[c]) = 0 /\ Prometidos(c) = 0 /\ Pendientes(c) = 0
        BY EmptySeq DEF Esperados, Prometidos, Debidos, Pendientes
    <2>3. Total(c) = fallas[c]
        BY <2>1, <2>2 DEF Conversacion, Cuenta, Numeros
    <2> QED BY <2>1, <2>2, <2>3 DEF Total, Numeros
<1> QED BY <1>1, IInvSiempre, PTL
=============================================================================
