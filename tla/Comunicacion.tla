----------------------------- MODULE Comunicacion -----------------------------
(***************************************************************************)
(* One websocket from end to end: COM in the browser (com.js), the two      *)
(* channels, and the session the server keeps for the connection.           *)
(*                                                                         *)
(* The page is one thread: an event (a call of request, a message, a tick   *)
(* of the watchdog) runs to its end before the next. Only COM's loop over   *)
(* its queue is cut into one step per turn, since it may never end. The     *)
(* server handles the messages of a connection one after another, in the    *)
(* worker the websocket library gives it, concurrently with the page.       *)
(***************************************************************************)
EXTENDS Integers, Sequences

CONSTANTS
  Pedido,      \* calls of request that the page makes, each once
  Consulta,    \* request, data and headers of each, as databank hashes them
  Buffered,    \* those made with obj.buffered
  Sync,        \* those made with obj.sync
  Incompleto,  \* those without request or callback
  Nada         \* no answer yet

Login == "user/log"        \* the request of on202

ASSUME ComAssumption ==
  /\ Buffered \subseteq Pedido /\ Sync \subseteq Pedido /\ Incompleto \subseteq Pedido
  /\ Login \notin Pedido
  /\ Nada \notin {Consulta[p] : p \in Pedido}

VARIABLES
  conexion,    \* of the websocket
  readyState, aes, stack, list, watchdog, buffer,   \* the fields of COM; aes: has a key
  porGuardar,  \* databank.stack: calls whose answer is to be kept
  i,           \* turn of process over list, 0 outside it
  Encrypt,     \* of the session
  alServidor, alCliente,                            \* packets on their way
  pedidos, ejecutado, fallidos, llamado, recibido   \* history of each call

pagina   == <<readyState, aes, stack, list, watchdog, buffer, porGuardar, i>>
historia == <<pedidos, ejecutado, fallidos, llamado, recibido>>
red      == <<conexion, Encrypt, alServidor, alCliente>>
vars     == <<pagina, historia, red>>

Ids  == Pedido \cup {Login}
Dato == {Consulta[p] : p \in Pedido} \cup {Nada}

(* What goes up is a call; what comes down, a code and what it answers.    *)
Subida == [callback : Ids, cifrado : BOOLEAN]
Bajada == [code : {200, 202}, callback : Ids, response : Dato, cifrado : BOOLEAN]

TypeOK ==
  /\ conexion \in {"conectando", "abierta", "cerrada"}
  /\ readyState \in BOOLEAN /\ aes \in BOOLEAN /\ watchdog \in BOOLEAN
  /\ stack \subseteq Ids /\ porGuardar \subseteq Pedido
  /\ list \in Seq(Pedido) /\ i \in Nat
  /\ buffer \in [Dato -> Dato]
  /\ Encrypt \in BOOLEAN
  /\ alServidor \in Seq(Subida) /\ alCliente \in Seq(Bajada)
  /\ pedidos \subseteq Pedido /\ fallidos \subseteq Pedido
  /\ ejecutado \in [Pedido -> Nat] /\ llamado \in [Pedido -> Nat]
  /\ recibido \in [Pedido -> Dato]

Init ==
  /\ conexion = "conectando" /\ Encrypt = FALSE
  /\ readyState = FALSE /\ aes = FALSE /\ watchdog = FALSE
  /\ stack = {} /\ porGuardar = {} /\ list = <<>> /\ i = 0
  /\ buffer = [d \in Dato |-> Nada]
  /\ alServidor = <<>> /\ alCliente = <<>>
  /\ pedidos = {} /\ fallidos = {}
  /\ ejecutado = [p \in Pedido |-> 0] /\ llamado = [p \in Pedido |-> 0]
  /\ recibido = [p \in Pedido |-> Nada]

-------------------------------------------------------------------------------
(* The browser.                                                            *)

(* ws.send: a closed websocket drops what it is given.                     *)
Sube(id, cifrado) ==
  alServidor' = IF conexion = "abierta"
                THEN Append(alServidor, [callback |-> id, cifrado |-> cifrado])
                ELSE alServidor

(* The callback of p is called with d.                                     *)
Llama(p, d) ==
  /\ llamado' = [llamado EXCEPT ![p] = @ + 1]
  /\ recibido' = [recibido EXCEPT ![p] = d]

EnBuffer(p) == p \in Buffered /\ buffer[Consulta[p]] # Nada

(* request with readyState: nothing without its fields; the answer of an   *)
(* equal query if there is one; else the packet, with its callback noted.   *)
Rechaza(p) ==
  /\ p \in Incompleto
  /\ UNCHANGED <<readyState, stack, porGuardar, alServidor, llamado, recibido>>

DelBufferYManda(p) ==                 \* mutant: the else is missing
  /\ p \notin Incompleto /\ EnBuffer(p)
  /\ readyState' = (p \notin Sync)
  /\ Llama(p, buffer[Consulta[p]])
  /\ stack' = stack \cup {p} /\ Sube(p, aes)
  /\ UNCHANGED porGuardar
DelBuffer(p) ==
  /\ p \notin Incompleto /\ EnBuffer(p)
  /\ readyState' = (p \notin Sync)
  /\ Llama(p, buffer[Consulta[p]])
  /\ UNCHANGED <<stack, porGuardar, alServidor>>

Manda(p) ==
  /\ p \notin Incompleto /\ ~EnBuffer(p)
  /\ readyState' = (p \notin Sync)
  /\ stack' = stack \cup {p}
  /\ porGuardar' = IF p \in Buffered THEN porGuardar \cup {p} ELSE porGuardar
  /\ Sube(p, aes)
  /\ UNCHANGED <<llamado, recibido>>

request(p) ==
  /\ readyState
  /\ Rechaza(p) \/ DelBuffer(p) \/ Manda(p)
  /\ UNCHANGED <<aes, buffer, conexion, Encrypt, alCliente, ejecutado, fallidos>>

(* request without readyState: the call waits, and somebody watches.       *)
queued(p) ==
  /\ ~readyState
  /\ list' = Append(list, p)
  /\ watchdog' = TRUE
  /\ UNCHANGED <<readyState, aes, stack, buffer, porGuardar, red,
                 ejecutado, fallidos, llamado, recibido>>

Pide(p) ==
  /\ i = 0 /\ p \notin pedidos
  /\ pedidos' = pedidos \cup {p}
  /\ \/ request(p) /\ UNCHANGED <<list, watchdog>>
     \/ queued(p)
  /\ UNCHANGED i

(* A tick of the watchdog starts process.                                  *)
checkUnico ==                         \* mutant: setTimeout for setInterval
  /\ i = 0 /\ watchdog
  /\ watchdog' = FALSE /\ i' = (IF readyState THEN 1 ELSE 0)
  /\ UNCHANGED <<readyState, aes, stack, list, buffer, porGuardar, historia, red>>
checkSinEspera ==                     \* mutant: if(readyState) is missing
  /\ i = 0 /\ watchdog
  /\ watchdog' = FALSE /\ i' = 1
  /\ UNCHANGED <<readyState, aes, stack, list, buffer, porGuardar, historia, red>>
check ==
  /\ i = 0 /\ watchdog /\ readyState
  /\ watchdog' = FALSE /\ i' = 1
  /\ UNCHANGED <<readyState, aes, stack, list, buffer, porGuardar, historia, red>>

TurnosMenos == 1..(Len(list) - 1)     \* mutant: the last one is left out
Turnos == 1..Len(list)

(* A turn of process whose request cannot be made is done again: i--. So   *)
(* Colgada is for ever, and nothing else runs in the page.                 *)
Colgada == i \in Turnos /\ (~readyState \/ list[i] \in Incompleto)

unqueued ==
  /\ i \in Turnos /\ list[i] \notin Incompleto
  /\ request(list[i])
  /\ i' = i + 1
  /\ UNCHANGED <<list, watchdog, pedidos>>

procesada ==
  /\ i > 0 /\ i \notin Turnos
  /\ list' = <<>> /\ i' = 0
  /\ UNCHANGED <<readyState, aes, stack, watchdog, buffer, porGuardar,
                 historia, red>>

(* onmessage. A packet it cannot read makes JSON.parse throw: it is gone.   *)
(* on403, on404 and on500 have nothing to do: see ConSesion.               *)
on202 ==
  /\ stack' = stack \cup {Login}
  /\ Sube(Login, aes)
  /\ aes' = TRUE
  /\ UNCHANGED <<readyState, buffer, porGuardar, llamado, recibido>>

(* The callback of user/log.                                               *)
inicia(paquete) ==
  /\ paquete.callback = Login
  /\ readyState' = (Login \in stack \/ readyState)
  /\ UNCHANGED <<aes, stack, buffer, porGuardar, alServidor, llamado, recibido>>

(* What bufferer keeps.                                                    *)
ElPaquete(paquete) == paquete         \* mutant: bufferer(packet.callback, packet)
Guarda(paquete) == paquete.response

on200(paquete) ==
  LET p == paquete.callback IN
  /\ p \in Pedido
  /\ buffer' = IF p \in porGuardar
               THEN [buffer EXCEPT ![Consulta[p]] = Guarda(paquete)] ELSE buffer
  /\ porGuardar' = porGuardar \ {p}
  /\ IF p \in stack THEN Llama(p, paquete.response) ELSE UNCHANGED <<llamado, recibido>>
  /\ UNCHANGED <<readyState, aes, stack, alServidor>>

Ignora == UNCHANGED <<readyState, aes, stack, buffer, porGuardar, alServidor,
                      llamado, recibido>>

onmessage ==
  /\ i = 0 /\ alCliente # <<>>
  /\ alCliente' = Tail(alCliente)
  /\ LET paquete == Head(alCliente) IN
     IF paquete.cifrado # aes THEN Ignora
     ELSE \/ paquete.code = 202 /\ on202
          \/ paquete.code = 200 /\ (inicia(paquete) \/ on200(paquete))
  /\ UNCHANGED <<list, watchdog, i, conexion, Encrypt, pedidos, ejecutado, fallidos>>

-------------------------------------------------------------------------------
(* The server. PacketBase.send goes through the session of the packet;      *)
(* whoever made it and set none gets a NullPointerException, swallowed.     *)
ConSesion(code) == code \in {200, 202}     \* the packets of Response.setPacketType

Baja(code, id, dato, cifrado) ==
  alCliente' = IF ConSesion(code)
               THEN Append(alCliente, [code |-> code, callback |-> id,
                                       response |-> dato, cifrado |-> cifrado])
               ELSE alCliente

(* Both ends of the opening; the server says hello in clear.               *)
onOpen ==
  /\ conexion = "conectando"
  /\ conexion' = "abierta"
  /\ Baja(202, Login, Nada, Encrypt)
  /\ UNCHANGED <<pagina, historia, Encrypt, alServidor>>

(* ControllerUser.log: the key is in use before the answer is written.     *)
logTarde ==                           \* mutant: the answer first
  /\ Encrypt' = TRUE
  /\ Baja(200, Login, Nada, Encrypt)
  /\ UNCHANGED <<ejecutado, fallidos>>
log ==
  /\ Encrypt' = TRUE
  /\ Baja(200, Login, Nada, Encrypt')
  /\ UNCHANGED <<ejecutado, fallidos>>

(* An action that answers, or ends in an exception: an error packet. What   *)
(* it did before the exception it has done.                                *)
accion(p) ==
  /\ ejecutado' = [ejecutado EXCEPT ![p] = @ + 1]
  /\ \/ Baja(200, p, Consulta[p], Encrypt) /\ UNCHANGED fallidos
     \/ fallidos' = fallidos \cup {p} /\ Baja(500, p, Nada, Encrypt)
  /\ UNCHANGED Encrypt

(* What translatePacket or JSONObject cannot read.                         *)
ilegible == Baja(500, Login, Nada, Encrypt) /\ UNCHANGED <<Encrypt, ejecutado, fallidos>>

onMessage ==
  /\ alServidor # <<>>
  /\ alServidor' = Tail(alServidor)
  /\ LET paquete == Head(alServidor) IN
     IF paquete.cifrado # Encrypt THEN ilegible
     ELSE IF paquete.callback = Login THEN log ELSE accion(paquete.callback)
  /\ UNCHANGED <<pagina, conexion, pedidos, llamado, recibido>>

(* Either end goes, or the network: what was on its way is lost, and the    *)
(* page only writes a line of log.                                         *)
Cierra ==
  /\ conexion # "cerrada"
  /\ conexion' = "cerrada"
  /\ alServidor' = <<>> /\ alCliente' = <<>>
  /\ UNCHANGED <<pagina, historia, Encrypt>>

Next ==
  \/ \E p \in Pedido : Pide(p)
  \/ check \/ unqueued \/ procesada \/ onmessage
  \/ onOpen \/ onMessage \/ Cierra

Spec == Init /\ [][Next]_vars

SeDecide == conexion = "conectando" /\ (onOpen \/ Cierra)

(* The browser delivers events and ticks, the server's workers take what    *)
(* arrives. Nobody has to ask for anything, and nothing makes a websocket   *)
(* that is neither opened nor refused go on for ever.                      *)
FairSpec ==
  Spec /\ WF_vars(check) /\ WF_vars(unqueued) /\ WF_vars(procesada) /\ WF_vars(onmessage)
       /\ WF_vars(onMessage) /\ WF_vars(SeDecide)

-------------------------------------------------------------------------------
(* Properties.                                                             *)

(* Both ends change to the key at the same packet (com.js:173-190,          *)
(* Session.generateClave, ControllerUser.log): whatever is next in a        *)
(* channel is read the way it was written, and only user/log goes in clear. *)
ClaveDeAcuerdo ==
  /\ alCliente # <<>> => Head(alCliente).cifrado = aes
  /\ alServidor # <<>> =>
       /\ Head(alServidor).cifrado = Encrypt
       /\ Head(alServidor).cifrado = (Head(alServidor).callback # Login)

(* A call that waits in the queue is watched (com.js:74-103): there is a    *)
(* tick to come, or process has it in hand.                                *)
EsperaVigilada == list # <<>> => watchdog \/ i > 0

(* process only turns for ever on a call without its fields, or behind one  *)
(* with sync, which leaves readyState false (com.js:94-98, 286-289).        *)
CuelgueExplicado ==
  Colgada => \/ list[i] \in Incompleto
             \/ \E j \in 1..(i - 1) : list[j] \in Sync

(* What request promises: PedidoRespuesta, with a call that the server      *)
(* carried out or the page was called back for twice in no state of it.     *)
Estado(p) ==
  CASE ejecutado[p] > 1 \/ llamado[p] > 1 -> "repetido"
    [] llamado[p] = 1                     -> "respondido"
    [] ejecutado[p] = 1 /\ llamado[p] = 0 -> "atendido"
    [] p \in pedidos /\ ejecutado[p] = 0 /\ llamado[p] = 0 -> "pedido"
    [] OTHER                              -> "nuevo"

Promesa == INSTANCE PedidoRespuesta WITH
  estado <- [p \in Pedido |-> Estado(p)], respuesta <- recibido

Cumple == Promesa!Spec

(* Every call that has its fields is answered, unless its action failed,    *)
(* the connection went, or a sync call came before (com.js:275-325).       *)
Respondidos ==
  \A p \in Pedido \ Incompleto :
    p \in pedidos ~> \/ llamado[p] > 0 \/ p \in fallidos
                     \/ conexion = "cerrada" \/ Colgada \/ pedidos \cap Sync # {}
===============================================================================
