-------------------------- MODULE ComunicacionProofs --------------------------
(***************************************************************************)
(* For any calls of request: type correctness of both ends of a websocket,  *)
(* that they agree on the key at every packet, that a queued call is always *)
(* watched, and that COM keeps what PedidoRespuesta promises the page.      *)
(***************************************************************************)
EXTENDS Comunicacion, SequenceTheorems, TLAPS

-----------------------------------------------------------------------------
(* Sequences.                                                              *)

LEMMA Anexo ==
  ASSUME NEW S, NEW s \in Seq(S), NEW e \in S
  PROVE  /\ Append(s, e) \in Seq(S)
         /\ Len(Append(s, e)) = Len(s) + 1
         /\ DOMAIN Append(s, e) = DOMAIN s \cup {Len(s) + 1}
         /\ \A j \in DOMAIN s : Append(s, e)[j] = s[j]
         /\ Append(s, e)[Len(s) + 1] = e
OBVIOUS

LEMMA Resto ==
  ASSUME NEW S, NEW s \in Seq(S), s # <<>>
  PROVE  /\ Tail(s) \in Seq(S) /\ Head(s) \in S /\ Head(s) = s[1] /\ 1 \in DOMAIN s
         /\ \A j \in DOMAIN Tail(s) : j + 1 \in DOMAIN s /\ Tail(s)[j] = s[j + 1]
         /\ \A j \in DOMAIN s : j # 1 => j - 1 \in DOMAIN Tail(s) /\ s[j] = Tail(s)[j - 1]
OBVIOUS

LEMMA SoloUno ==
  ASSUME NEW S, NEW s \in Seq(S), Len(s) = 1
  PROVE  Tail(s) = <<>>
<1>1. Tail(s) \in Seq(S) /\ Len(Tail(s)) = 0
  OBVIOUS
<1> QED BY <1>1, EmptySeq

(* Packets that carry p, and channels that carry no call twice.            *)
Lleva(s, p) == \E j \in DOMAIN s : s[j].callback = p
SinRepetir(s) ==
  \A j, k \in DOMAIN s : s[j].callback \in Pedido /\ s[j].callback = s[k].callback => j = k

LEMMA LlevaAnexo ==
  ASSUME NEW S, NEW s \in Seq(S), NEW e \in S
  PROVE  \A p : Lleva(Append(s, e), p) <=> Lleva(s, p) \/ e.callback = p
BY Anexo DEF Lleva

LEMMA UnicoAnexo ==
  ASSUME NEW S, NEW s \in Seq(S), NEW e \in S, SinRepetir(s),
         e.callback \in Pedido => ~Lleva(s, e.callback)
  PROVE  SinRepetir(Append(s, e))
<1> SUFFICES ASSUME NEW j \in DOMAIN Append(s, e), NEW k \in DOMAIN Append(s, e),
                    Append(s, e)[j].callback \in Pedido,
                    Append(s, e)[j].callback = Append(s, e)[k].callback
             PROVE  j = k
  BY DEF SinRepetir
<1>1. CASE j \in DOMAIN s /\ k \in DOMAIN s
  BY <1>1, Anexo DEF SinRepetir
<1>2. CASE j = Len(s) + 1 \/ k = Len(s) + 1
  BY <1>2, Anexo DEF Lleva
<1> QED BY <1>1, <1>2, Anexo

LEMMA LlevaResto ==
  ASSUME NEW S, NEW s \in Seq(S), s # <<>>
  PROVE  \A p : Lleva(s, p) <=> Lleva(Tail(s), p) \/ Head(s).callback = p
<1> TAKE p
<1>1. ASSUME Lleva(s, p) PROVE Lleva(Tail(s), p) \/ Head(s).callback = p
  <2>1. PICK j \in DOMAIN s : s[j].callback = p
    BY <1>1 DEF Lleva
  <2>2. CASE j = 1
    BY <2>1, <2>2, Resto
  <2>3. CASE j # 1
    <3>1. j - 1 \in DOMAIN Tail(s) /\ s[j] = Tail(s)[j - 1]
      BY <2>3, Resto
    <3> QED BY <2>1, <3>1 DEF Lleva
  <2> QED BY <2>2, <2>3
<1>2. ASSUME Lleva(Tail(s), p) PROVE Lleva(s, p)
  BY <1>2, Resto DEF Lleva
<1>3. ASSUME Head(s).callback = p PROVE Lleva(s, p)
  BY <1>3, Resto DEF Lleva
<1> QED BY <1>1, <1>2, <1>3

LEMMA UnicoResto ==
  ASSUME NEW S, NEW s \in Seq(S), s # <<>>, SinRepetir(s)
  PROVE  /\ SinRepetir(Tail(s))
         /\ Head(s).callback \in Pedido => ~Lleva(Tail(s), Head(s).callback)
<1>1. SinRepetir(Tail(s))
  <2> SUFFICES ASSUME NEW j \in DOMAIN Tail(s), NEW k \in DOMAIN Tail(s),
                      Tail(s)[j].callback \in Pedido,
                      Tail(s)[j].callback = Tail(s)[k].callback
               PROVE  j = k
    BY DEF SinRepetir
  <2>1. /\ j + 1 \in DOMAIN s /\ Tail(s)[j] = s[j + 1]
        /\ k + 1 \in DOMAIN s /\ Tail(s)[k] = s[k + 1]
    BY Resto
  <2>2. j + 1 = k + 1
    BY <2>1 DEF SinRepetir
  <2> QED BY <2>2
<1>2. ASSUME Head(s).callback \in Pedido, Lleva(Tail(s), Head(s).callback) PROVE FALSE
  <2>1. PICK j \in DOMAIN Tail(s) : Tail(s)[j].callback = Head(s).callback
    BY <1>2 DEF Lleva
  <2>2. j + 1 \in DOMAIN s /\ s[j + 1].callback = s[1].callback /\ 1 \in DOMAIN s
        /\ s[1].callback \in Pedido
    BY <1>2, <2>1, Resto
  <2>3. j + 1 = 1
    BY <2>2 DEF SinRepetir
  <2> QED BY <2>3
<1> QED BY <1>1, <1>2

-----------------------------------------------------------------------------
(* Type correctness.                                                       *)

LEMMA SubeTipo ==
  ASSUME alServidor \in Seq(Subida), NEW id \in Ids, NEW c \in BOOLEAN, Sube(id, c)
  PROVE  alServidor' \in Seq(Subida)
<1>1. [callback |-> id, cifrado |-> c] \in Subida
  BY DEF Subida
<1> QED BY <1>1, Anexo DEF Sube

LEMMA BajaTipo ==
  ASSUME alCliente \in Seq(Bajada), NEW id \in Ids, NEW d \in Dato, NEW c \in BOOLEAN,
         NEW code \in {200, 202, 500}, Baja(code, id, d, c)
  PROVE  alCliente' \in Seq(Bajada)
<1>1. CASE ConSesion(code)
  <2>1. [code |-> code, callback |-> id, response |-> d, cifrado |-> c] \in Bajada
    BY <1>1 DEF Bajada, ConSesion
  <2> QED BY <1>1, <2>1, Anexo DEF Baja
<1> QED BY <1>1 DEF Baja

(* What a call with readyState does keeps the types of all it touches.     *)
LEMMA requestTipo ==
  ASSUME TypeOK, NEW p \in Pedido, request(p)
  PROVE  /\ readyState' \in BOOLEAN /\ stack' \subseteq Ids /\ porGuardar' \subseteq Pedido
         /\ alServidor' \in Seq(Subida)
         /\ llamado' \in [Pedido -> Nat] /\ recibido' \in [Pedido -> Dato]
<1>1. CASE Rechaza(p)
  BY <1>1 DEF Rechaza, TypeOK
<1>2. CASE DelBuffer(p)
  <2>1. Consulta[p] \in Dato
    BY DEF Dato
  <2> QED BY <1>2, <2>1 DEF DelBuffer, Llama, TypeOK
<1>3. CASE Manda(p)
  <2>1. alServidor' \in Seq(Subida)
    BY <1>3, SubeTipo DEF Manda, TypeOK, Ids
  <2> QED BY <1>3, <2>1 DEF Manda, TypeOK, Ids
<1> QED BY <1>1, <1>2, <1>3 DEF request

LEMMA PideTipo == ASSUME TypeOK, NEW p \in Pedido, Pide(p) PROVE TypeOK'
<1>1. CASE request(p) /\ UNCHANGED <<list, watchdog>>
  BY <1>1, requestTipo DEF Pide, request, TypeOK
<1>2. CASE queued(p)
  <2>1. list' \in Seq(Pedido)
    BY <1>2, Anexo DEF queued, TypeOK
  <2> QED BY <1>2, <2>1 DEF Pide, queued, red, TypeOK
<1> QED BY <1>1, <1>2 DEF Pide

LEMMA unqueuedTipo == ASSUME TypeOK, unqueued PROVE TypeOK'
<1>1. i \in Nat /\ list[i] \in Pedido
  BY DEF unqueued, Turnos, TypeOK
<1>2. request(list[i])
  BY DEF unqueued
<1> QED BY <1>1, <1>2, requestTipo DEF unqueued, request, TypeOK

LEMMA onmessageTipo == ASSUME TypeOK, onmessage PROVE TypeOK'
<1> DEFINE paquete == Head(alCliente)
<1>1. paquete \in Bajada /\ alCliente' \in Seq(Bajada)
  BY Resto DEF onmessage, TypeOK
<1>2. paquete.code \in {200, 202} /\ paquete.response \in Dato
  BY <1>1 DEF Bajada
<1> HIDE DEF paquete
<1>3. /\ readyState' \in BOOLEAN /\ aes' \in BOOLEAN /\ stack' \subseteq Ids
      /\ porGuardar' \subseteq Pedido /\ buffer' \in [Dato -> Dato]
      /\ alServidor' \in Seq(Subida)
      /\ llamado' \in [Pedido -> Nat] /\ recibido' \in [Pedido -> Dato]
  <2>1. CASE Ignora
    BY <2>1 DEF Ignora, TypeOK
  <2>2. CASE on202
    <3>1. alServidor' \in Seq(Subida)
      BY <2>2, SubeTipo DEF on202, TypeOK, Ids
    <3> QED BY <2>2, <3>1 DEF on202, TypeOK, Ids
  <2>3. CASE inicia(paquete)
    BY <2>3 DEF inicia, TypeOK
  <2>4. CASE on200(paquete)
    <3> DEFINE p == paquete.callback
    <3>1. p \in Pedido /\ Consulta[p] \in Dato
      BY <2>4 DEF on200, Dato
    <3>2. buffer' \in [Dato -> Dato]
      BY <2>4, <3>1, <1>2 DEF on200, Guarda, TypeOK
    <3>3. llamado' \in [Pedido -> Nat] /\ recibido' \in [Pedido -> Dato]
      <4>1. CASE Llama(p, paquete.response)
        BY <4>1, <3>1, <1>2 DEF Llama, TypeOK
      <4>2. CASE UNCHANGED <<llamado, recibido>>
        BY <4>2 DEF TypeOK
      <4> QED BY <2>4, <4>1, <4>2 DEF on200
    <3> QED BY <2>4, <3>2, <3>3 DEF on200, TypeOK
  <2>5. Ignora \/ on202 \/ inicia(paquete) \/ on200(paquete)
    BY <1>2 DEF onmessage, paquete
  <2> QED BY <2>1, <2>2, <2>3, <2>4, <2>5
<1> QED BY <1>1, <1>3 DEF onmessage, TypeOK

LEMMA onMessageTipo == ASSUME TypeOK, onMessage PROVE TypeOK'
<1> DEFINE paquete == Head(alServidor)
<1>1. paquete \in Subida /\ alServidor' \in Seq(Subida)
  BY Resto DEF onMessage, TypeOK
<1>2. paquete.callback \in Ids
  BY <1>1 DEF Subida
<1>3. Nada \in Dato /\ \A p \in Pedido : Consulta[p] \in Dato
  BY DEF Dato
<1>5. Login \in Ids
  BY DEF Ids
<1> HIDE DEF paquete
<1>4. /\ Encrypt' \in BOOLEAN /\ alCliente' \in Seq(Bajada)
      /\ ejecutado' \in [Pedido -> Nat] /\ fallidos' \subseteq Pedido
  <2>1. CASE ilegible
    <3>1. alCliente' \in Seq(Bajada)
      BY <2>1, <1>3, <1>5, BajaTipo DEF ilegible, TypeOK
    <3> QED BY <2>1, <3>1 DEF ilegible, TypeOK
  <2>2. CASE log
    <3>0. Baja(200, Login, Nada, TRUE) /\ Encrypt' \in BOOLEAN
      BY <2>2 DEF log, Baja
    <3>1. alCliente' \in Seq(Bajada)
      BY <3>0, <1>3, <1>5, BajaTipo DEF TypeOK
    <3> QED BY <2>2, <3>0, <3>1 DEF log, TypeOK
  <2>3. CASE paquete.callback \in Pedido /\ accion(paquete.callback)
    <3> DEFINE p == paquete.callback
    <3>1. ejecutado' \in [Pedido -> Nat] /\ Encrypt' \in BOOLEAN
      BY <2>3 DEF accion, TypeOK
    <3>2. CASE Baja(200, p, Consulta[p], Encrypt) /\ UNCHANGED fallidos
      BY <2>3, <3>1, <3>2, <1>3, BajaTipo DEF TypeOK, Ids
    <3>3. CASE fallidos' = fallidos \cup {p} /\ Baja(500, p, Nada, Encrypt)
      BY <2>3, <3>1, <3>3, <1>3, BajaTipo DEF TypeOK, Ids
    <3> QED BY <2>3, <3>2, <3>3, <3>1 DEF accion
  <2>4. ilegible \/ log \/ (paquete.callback \in Pedido /\ accion(paquete.callback))
    BY <1>2 DEF onMessage, paquete, Ids
  <2> QED BY <2>1, <2>2, <2>3, <2>4
<1> QED BY <1>1, <1>4 DEF onMessage, pagina, TypeOK

LEMMA onOpenTipo == ASSUME TypeOK, onOpen PROVE TypeOK'
<1>1. alCliente' \in Seq(Bajada)
  <2>1. Login \in Ids /\ Nada \in Dato
    BY DEF Ids, Dato
  <2> QED BY <2>1, BajaTipo DEF onOpen, TypeOK
<1> QED BY <1>1 DEF onOpen, pagina, historia, TypeOK

LEMMA TipoInicial == Init => TypeOK
<1> SUFFICES ASSUME Init PROVE TypeOK
  OBVIOUS
<1>1. Nada \in Dato
  BY DEF Dato
<1>2. buffer \in [Dato -> Dato] /\ recibido \in [Pedido -> Dato]
  BY <1>1 DEF Init
<1>3. list \in Seq(Pedido) /\ alServidor \in Seq(Subida) /\ alCliente \in Seq(Bajada)
  BY DEF Init
<1> QED BY <1>2, <1>3 DEF Init, TypeOK

LEMMA TipoSiguiente == ASSUME TypeOK, [Next]_vars PROVE TypeOK'
<1>1. CASE \E p \in Pedido : Pide(p)
  BY <1>1, PideTipo
<1>2. CASE check
  BY <1>2 DEF check, historia, red, TypeOK
<1>3. CASE unqueued
  BY <1>3, unqueuedTipo
<1>4. CASE procesada
  BY <1>4 DEF procesada, historia, red, TypeOK
<1>5. CASE onmessage
  BY <1>5, onmessageTipo
<1>6. CASE onOpen
  BY <1>6, onOpenTipo
<1>7. CASE onMessage
  BY <1>7, onMessageTipo
<1>8. CASE Cierra
  BY <1>8 DEF Cierra, pagina, historia, TypeOK
<1>9. CASE UNCHANGED vars
  BY <1>9 DEF vars, pagina, historia, red, TypeOK
<1> QED BY <1>1, <1>2, <1>3, <1>4, <1>5, <1>6, <1>7, <1>8, <1>9 DEF Next

(* Types of both ends (com.js, Session.java).                              *)
THEOREM TipoCorrecto == Spec => []TypeOK
<1>1. TypeOK /\ [Next]_vars => TypeOK'
  BY TipoSiguiente
<1> QED BY TipoInicial, <1>1, PTL DEF Spec

-----------------------------------------------------------------------------
(* The key. While the websocket is open the two ends are in one of three    *)
(* phases, and each fixes what can be in the channels.                     *)

Saludo ==
  /\ ~aes /\ ~Encrypt /\ alServidor = <<>> /\ Len(alCliente) = 1
  /\ alCliente[1].code = 202 /\ alCliente[1].cifrado = FALSE
Acuerdo ==
  /\ aes /\ ~Encrypt /\ ~readyState /\ alCliente = <<>> /\ Len(alServidor) = 1
  /\ alServidor[1].callback = Login /\ alServidor[1].cifrado = FALSE
Cifrada ==
  /\ aes /\ Encrypt
  /\ \A j \in DOMAIN alServidor :
        alServidor[j].cifrado = TRUE /\ alServidor[j].callback # Login
  /\ \A j \in DOMAIN alCliente : alCliente[j].cifrado = TRUE /\ alCliente[j].code = 200

InvClave ==
  /\ conexion # "abierta" => alServidor = <<>> /\ alCliente = <<>>
  /\ conexion = "conectando" => ~aes /\ ~Encrypt
  /\ conexion = "abierta" => Saludo \/ Acuerdo \/ Cifrada
  /\ readyState => aes /\ Encrypt

LEMMA requestClave ==
  ASSUME TypeOK, InvClave, NEW p \in Pedido, request(p)
  PROVE  InvClave'
<1>0. /\ readyState /\ aes /\ Encrypt /\ conexion # "conectando" /\ p # Login
      /\ UNCHANGED <<aes, Encrypt, conexion, alCliente>>
  BY ComAssumption DEF request, InvClave
<1>1. CASE UNCHANGED alServidor
  BY <1>0, <1>1 DEF InvClave, Saludo, Acuerdo, Cifrada
<1>2. CASE Sube(p, aes)
  <2>1. CASE conexion = "abierta"
    <3>1. Cifrada
      BY <1>0, <2>1 DEF InvClave, Saludo, Acuerdo
    <3> DEFINE e == [callback |-> p, cifrado |-> aes]
    <3>2. e \in Subida /\ e.cifrado = TRUE /\ e.callback # Login
      BY <1>0 DEF Subida, Ids, TypeOK
    <3>3. alServidor' = Append(alServidor, e) /\ alServidor \in Seq(Subida)
      BY <1>2, <2>1 DEF Sube, TypeOK
    <3> HIDE DEF e
    <3>4. \A j \in DOMAIN alServidor' :
            alServidor'[j].cifrado = TRUE /\ alServidor'[j].callback # Login
      BY <3>1, <3>2, <3>3, Anexo DEF Cifrada
    <3>5. Cifrada'
      BY <1>0, <3>1, <3>4 DEF Cifrada
    <3> QED BY <1>0, <2>1, <3>5 DEF InvClave
  <2>2. CASE conexion # "abierta"
    BY <1>0, <1>2, <2>2 DEF Sube, InvClave
  <2> QED BY <2>1, <2>2
<1> QED BY <1>1, <1>2 DEF request, Rechaza, DelBuffer, Manda

LEMMA onmessageClave == ASSUME TypeOK, InvClave, onmessage PROVE InvClave'
<1> DEFINE paquete == Head(alCliente)
<1>1. conexion = "abierta" /\ UNCHANGED <<conexion, Encrypt>> /\ alCliente # <<>>
  BY DEF onmessage, InvClave
<1>2. /\ alCliente \in Seq(Bajada) /\ paquete = alCliente[1] /\ 1 \in DOMAIN alCliente
      /\ alCliente' = Tail(alCliente)
  BY <1>1, Resto DEF onmessage, TypeOK
<1>3. CASE Saludo
  <2>1. on202 /\ alCliente' = <<>>
    <3>1. alCliente' = <<>>
      BY <1>2, <1>3, SoloUno DEF Saludo
    <3>2. paquete.code = 202 /\ ~(paquete.cifrado # aes)
      BY <1>2, <1>3 DEF Saludo, TypeOK
    <3> HIDE DEF paquete
    <3>3. on202
      BY <3>2 DEF onmessage, paquete
    <3> QED BY <3>1, <3>3
  <2>2. alServidor' = Append(<<>>, [callback |-> Login, cifrado |-> FALSE])
    BY <1>1, <1>3, <2>1 DEF on202, Sube, Saludo, TypeOK
  <2>3. readyState = FALSE /\ readyState' = FALSE /\ aes' = TRUE /\ Encrypt' = FALSE
    BY <1>1, <1>3, <2>1 DEF on202, Saludo, InvClave, TypeOK
  <2> QED BY <1>1, <2>1, <2>2, <2>3 DEF InvClave, Acuerdo
<1>4. CASE Cifrada
  <2>1. paquete.cifrado = TRUE /\ paquete.code = 200 /\ aes = TRUE /\ Encrypt = TRUE
    BY <1>2, <1>4 DEF Cifrada, TypeOK
  <2>2. inicia(paquete) \/ on200(paquete)
    <3>1. paquete.code = 200 /\ ~(paquete.cifrado # aes)
      BY <2>1
    <3> HIDE DEF paquete
    <3> QED BY <3>1 DEF onmessage, paquete
  <2>3. UNCHANGED <<aes, alServidor>>
    BY <2>2 DEF inicia, on200
  <2>4. \A j \in DOMAIN alCliente' : alCliente'[j].cifrado = TRUE /\ alCliente'[j].code = 200
    BY <1>1, <1>2, <1>4, Resto DEF Cifrada
  <2>5. Cifrada'
    BY <1>1, <1>4, <2>3, <2>4 DEF Cifrada
  <2> QED BY <1>1, <2>1, <2>3, <2>5 DEF InvClave
<1> QED BY <1>1, <1>3, <1>4 DEF InvClave, Acuerdo

LEMMA onMessageClave == ASSUME TypeOK, InvClave, onMessage PROVE InvClave'
<1> DEFINE paquete == Head(alServidor)
<1>1. /\ conexion = "abierta" /\ UNCHANGED <<conexion, aes, readyState>> /\ alServidor # <<>>
  BY DEF onMessage, InvClave, pagina
<1>2. /\ alServidor \in Seq(Subida) /\ paquete = alServidor[1] /\ 1 \in DOMAIN alServidor
      /\ alServidor' = Tail(alServidor) /\ paquete \in Subida
  BY <1>1, Resto DEF onMessage, TypeOK
<1>3. CASE Acuerdo
  <2>1. log /\ alServidor' = <<>>
    <3>1. alServidor' = <<>>
      BY <1>2, <1>3, SoloUno DEF Acuerdo
    <3>2. paquete.callback = Login /\ paquete.cifrado = FALSE /\ Encrypt = FALSE
      BY <1>2, <1>3 DEF Acuerdo, TypeOK
    <3>3. log
      BY <3>2 DEF onMessage
    <3> QED BY <3>1, <3>3
  <2>2. /\ Encrypt' = TRUE /\ aes' = TRUE
        /\ alCliente' = Append(<<>>, [code |-> 200, callback |-> Login,
                                      response |-> Nada, cifrado |-> TRUE])
    BY <1>1, <1>3, <2>1 DEF log, Baja, ConSesion, Acuerdo, TypeOK
  <2>3. Cifrada'
    BY <2>1, <2>2 DEF Cifrada
  <2> QED BY <1>1, <2>2, <2>3 DEF InvClave
<1>4. CASE Cifrada
  <2> DEFINE p == paquete.callback
  <2>1. paquete.cifrado = TRUE /\ p \in Pedido /\ aes = TRUE /\ Encrypt = TRUE
    BY <1>2, <1>4 DEF Cifrada, TypeOK, Subida, Ids
  <2>2. accion(p) /\ p # Login
    BY <2>1, ComAssumption DEF onMessage
  <2>3. \A j \in DOMAIN alServidor' :
          alServidor'[j].cifrado = TRUE /\ alServidor'[j].callback # Login
    BY <1>1, <1>2, <1>4, Resto DEF Cifrada
  <2>4. UNCHANGED alCliente \/ Baja(200, p, Consulta[p], TRUE)
    BY <2>1, <2>2 DEF accion, Baja, ConSesion
  <2>5. \A j \in DOMAIN alCliente' : alCliente'[j].cifrado = TRUE /\ alCliente'[j].code = 200
    <3>1. CASE UNCHANGED alCliente
      BY <1>4, <3>1 DEF Cifrada
    <3>2. CASE Baja(200, p, Consulta[p], TRUE)
      <4> DEFINE e == [code |-> 200, callback |-> p, response |-> Consulta[p], cifrado |-> TRUE]
      <4>1. e \in Bajada /\ e.cifrado = TRUE /\ e.code = 200
        BY <2>1 DEF Bajada, Ids, Dato
      <4>2. alCliente' = Append(alCliente, e) /\ alCliente \in Seq(Bajada)
        BY <3>2 DEF Baja, ConSesion, TypeOK
      <4> HIDE DEF e
      <4> QED BY <1>4, <4>1, <4>2, Anexo DEF Cifrada
    <3> QED BY <2>4, <3>1, <3>2
  <2>6. Encrypt' = TRUE /\ aes' = TRUE
    BY <1>1, <2>1, <2>2 DEF accion
  <2>7. Cifrada'
    BY <2>3, <2>5, <2>6 DEF Cifrada
  <2> QED BY <1>1, <2>6, <2>7 DEF InvClave
<1> QED BY <1>1, <1>3, <1>4 DEF InvClave, Saludo

LEMMA onOpenClave == ASSUME TypeOK, InvClave, onOpen PROVE InvClave'
<1>1. /\ conexion' = "abierta" /\ ~aes' /\ ~Encrypt' /\ ~readyState' /\ alServidor' = <<>>
      /\ alCliente = <<>> /\ Encrypt = FALSE
  BY DEF onOpen, InvClave, pagina, TypeOK
<1>2. alCliente' = Append(<<>>, [code |-> 202, callback |-> Login,
                                 response |-> Nada, cifrado |-> FALSE])
  BY <1>1 DEF onOpen, Baja, ConSesion
<1>3. Saludo'
  BY <1>1, <1>2 DEF Saludo
<1> QED BY <1>1, <1>3 DEF InvClave

LEMMA ClaveSiguiente == ASSUME TypeOK, InvClave, [Next]_vars PROVE InvClave'
<1>1. ASSUME NEW p \in Pedido, Pide(p) PROVE InvClave'
  <2>1. CASE request(p)
    BY <2>1, requestClave
  <2>2. CASE queued(p)
    BY <2>2 DEF queued, red, InvClave, Saludo, Acuerdo, Cifrada
  <2> QED BY <1>1, <2>1, <2>2 DEF Pide
<1>2. CASE check
  BY <1>2 DEF check, red, InvClave, Saludo, Acuerdo, Cifrada
<1>3. CASE unqueued
  <2>1. list[i] \in Pedido /\ request(list[i])
    BY <1>3 DEF unqueued, Turnos, TypeOK
  <2> QED BY <2>1, requestClave
<1>4. CASE procesada
  BY <1>4 DEF procesada, red, InvClave, Saludo, Acuerdo, Cifrada
<1>5. CASE onmessage
  BY <1>5, onmessageClave
<1>6. CASE onOpen
  BY <1>6, onOpenClave
<1>7. CASE onMessage
  BY <1>7, onMessageClave
<1>8. CASE Cierra
  BY <1>8 DEF Cierra, pagina, InvClave
<1>9. CASE UNCHANGED vars
  BY <1>9 DEF vars, pagina, red, InvClave, Saludo, Acuerdo, Cifrada
<1> QED BY <1>1, <1>2, <1>3, <1>4, <1>5, <1>6, <1>7, <1>8, <1>9 DEF Next

LEMMA ClaveDeFase == ASSUME TypeOK, InvClave PROVE ClaveDeAcuerdo
<1>1. ASSUME alCliente # <<>> PROVE Head(alCliente).cifrado = aes
  <2>1. Head(alCliente) = alCliente[1] /\ 1 \in DOMAIN alCliente /\ (Saludo \/ Cifrada)
    BY <1>1, Resto DEF InvClave, TypeOK, Acuerdo
  <2>2. CASE Saludo
    BY <2>1, <2>2 DEF Saludo, TypeOK
  <2>3. CASE Cifrada
    <3>1. alCliente[1].cifrado = TRUE /\ aes = TRUE
      BY <2>1, <2>3 DEF Cifrada, TypeOK
    <3> QED BY <2>1, <3>1
  <2> QED BY <2>1, <2>2, <2>3
<1>2. ASSUME alServidor # <<>>
      PROVE  /\ Head(alServidor).cifrado = Encrypt
             /\ Head(alServidor).cifrado = (Head(alServidor).callback # Login)
  <2>1. Head(alServidor) = alServidor[1] /\ 1 \in DOMAIN alServidor /\ (Acuerdo \/ Cifrada)
    BY <1>2, Resto DEF InvClave, TypeOK, Saludo
  <2>2. CASE Acuerdo
    BY <2>1, <2>2 DEF Acuerdo, TypeOK
  <2>3. CASE Cifrada
    <3>1. alServidor[1].cifrado = TRUE /\ alServidor[1].callback # Login /\ Encrypt = TRUE
      BY <2>1, <2>3 DEF Cifrada, TypeOK
    <3> QED BY <2>1, <3>1
  <2> QED BY <2>1, <2>2, <2>3
<1> QED BY <1>1, <1>2 DEF ClaveDeAcuerdo

(* Both ends use the key from the same packet on (com.js:173-190,           *)
(* ControllerUser.log, Session.generateClave).                             *)
THEOREM MismaClave == Spec => []ClaveDeAcuerdo
<1>1. Init => InvClave
  BY DEF Init, InvClave
<1>2. TypeOK /\ InvClave /\ [Next]_vars => InvClave'
  BY ClaveSiguiente
<1>3. TypeOK /\ InvClave => ClaveDeAcuerdo
  BY ClaveDeFase
<1> QED BY <1>1, <1>2, <1>3, TipoCorrecto, PTL DEF Spec

-----------------------------------------------------------------------------
(* The queue.                                                              *)

(* Whatever waits in the queue is watched (com.js:74-103).                 *)
THEOREM ColaVigilada == Spec => []EsperaVigilada
<1>1. Init => EsperaVigilada
  BY DEF Init, EsperaVigilada
<1>2. ASSUME TypeOK, EsperaVigilada, [Next]_vars PROVE EsperaVigilada'
  <2>1. ASSUME NEW p \in Pedido, Pide(p) PROVE EsperaVigilada'
    BY <2>1, <1>2 DEF Pide, queued, EsperaVigilada
  <2>2. CASE check
    BY <2>2 DEF check, EsperaVigilada
  <2>3. CASE unqueued
    BY <2>3, <1>2 DEF unqueued, Turnos, EsperaVigilada, TypeOK
  <2>4. CASE procesada
    BY <2>4 DEF procesada, EsperaVigilada
  <2>5. CASE UNCHANGED <<list, watchdog, i>>
    BY <2>5, <1>2 DEF EsperaVigilada
  <2>6. onmessage \/ onOpen \/ onMessage \/ Cierra \/ UNCHANGED vars
          => UNCHANGED <<list, watchdog, i>>
    BY DEF onmessage, onOpen, onMessage, Cierra, vars, pagina
  <2> QED BY <1>2, <2>1, <2>2, <2>3, <2>4, <2>5, <2>6 DEF Next
<1>3. TypeOK /\ EsperaVigilada /\ [Next]_vars => EsperaVigilada'
  BY <1>2
<1> QED BY <1>1, <1>3, TipoCorrecto, PTL DEF Spec

(* process only goes on without readyState behind a call with sync: it was   *)
(* started with it, and a turn that takes it away is the turn of such a call. *)
InvTurno == i > 0 /\ ~readyState => \E j \in 1..(i - 1) : list[j] \in Sync

LEMMA TurnoSiguiente == ASSUME TypeOK, InvTurno, [Next]_vars PROVE InvTurno'
<1>1. CASE \E p \in Pedido : Pide(p)
  BY <1>1 DEF Pide, InvTurno
<1>2. CASE check
  BY <1>2 DEF check, InvTurno
<1>3. CASE unqueued
  <2>1. i \in Nat /\ i > 0 /\ i' = i + 1 /\ list' = list /\ readyState
    BY <1>3 DEF unqueued, Turnos, request, TypeOK
  <2>2. readyState' \/ list[i] \in Sync
    BY <1>3, <2>1 DEF unqueued, request, Rechaza, DelBuffer, Manda
  <2> QED BY <2>1, <2>2 DEF InvTurno
<1>4. CASE procesada
  BY <1>4 DEF procesada, InvTurno
<1>5. CASE onmessage
  BY <1>5 DEF onmessage, InvTurno
<1>6. CASE onOpen \/ onMessage \/ Cierra \/ UNCHANGED vars
  BY <1>6 DEF onOpen, onMessage, Cierra, vars, pagina, InvTurno
<1> QED BY <1>1, <1>2, <1>3, <1>4, <1>5, <1>6 DEF Next

(* The loop of process turns for ever only on a call without its fields or   *)
(* behind one with sync (com.js:94-98, 286-289), however long the queue.     *)
THEOREM CuelgueSiempre == Spec => []CuelgueExplicado
<1>1. Init => InvTurno
  BY DEF Init, InvTurno
<1>2. TypeOK /\ InvTurno /\ [Next]_vars => InvTurno'
  BY TurnoSiguiente
<1>3. InvTurno => CuelgueExplicado
  BY DEF InvTurno, CuelgueExplicado, Colgada, Turnos
<1> QED BY <1>1, <1>2, <1>3, TipoCorrecto, PTL DEF Spec

-----------------------------------------------------------------------------
(* The promise. A call is in one place at a time: waiting, going up, coming *)
(* down or answered, and it is counted where it has been.                  *)

EnEspera(p) == \E j \in DOMAIN list : j >= i /\ list[j] = p
Fuera(p) ==
  /\ ~Lleva(alServidor, p) /\ ~Lleva(alCliente, p)
  /\ ejecutado[p] = 0 /\ llamado[p] = 0
Canal(p) ==
  /\ Lleva(alServidor, p) => ~Lleva(alCliente, p) /\ ejecutado[p] = 0 /\ llamado[p] = 0
  /\ Lleva(alCliente, p) => ejecutado[p] = 1 /\ llamado[p] = 0
  /\ ejecutado[p] \in {0, 1} /\ llamado[p] \in {0, 1}
  /\ recibido[p] = IF llamado[p] = 1 THEN Consulta[p] ELSE Nada

InvCola ==
  /\ \A j, k \in DOMAIN list : list[j] = list[k] => j = k
  /\ \A j \in DOMAIN list : list[j] \in pedidos
  /\ \A p \in Pedido : EnEspera(p) \/ p \notin pedidos => Fuera(p)
InvCanal ==
  /\ SinRepetir(alServidor) /\ SinRepetir(alCliente)
  /\ \A p \in Pedido : Canal(p)
  /\ \A j \in DOMAIN alCliente : alCliente[j].callback \in Pedido
        => alCliente[j].response = Consulta[alCliente[j].callback]
InvBuffer ==
  /\ porGuardar \subseteq stack
  /\ \A d \in Dato : buffer[d] # Nada
        => buffer[d] = d /\ \E q \in Pedido : Consulta[q] = d /\ llamado[q] = 1
InvPromesa == InvCola /\ InvCanal /\ InvBuffer

LEMMA SubeUnico ==
  ASSUME TypeOK, NEW id \in Ids, NEW c \in BOOLEAN, Sube(id, c), SinRepetir(alServidor),
         id \in Pedido => ~Lleva(alServidor, id)
  PROVE  /\ SinRepetir(alServidor')
         /\ \A q : Lleva(alServidor', q) => Lleva(alServidor, q) \/ q = id
<1> DEFINE e == [callback |-> id, cifrado |-> c]
<1>1. e \in Subida /\ e.callback = id /\ alServidor \in Seq(Subida)
  BY DEF Subida, TypeOK
<1>2. alServidor' = alServidor \/ alServidor' = Append(alServidor, e)
  BY DEF Sube
<1> HIDE DEF e
<1>3. CASE alServidor' = Append(alServidor, e)
  <2>1. SinRepetir(Append(alServidor, e))
    BY <1>1, UnicoAnexo
  <2>2. \A q : Lleva(Append(alServidor, e), q) <=> Lleva(alServidor, q) \/ e.callback = q
    BY <1>1, LlevaAnexo
  <2> QED BY <1>1, <1>3, <2>1, <2>2
<1> QED BY <1>2, <1>3

(* A call nowhere yet, made now.                                           *)
LEMMA requestUnico ==
  ASSUME TypeOK, InvCanal, InvBuffer, NEW p \in Pedido, Fuera(p), request(p)
  PROVE  /\ InvCanal' /\ InvBuffer'
         /\ \A q \in Pedido : q # p /\ Fuera(q) => Fuera(q)'
<1>0. /\ UNCHANGED <<alCliente, ejecutado, buffer>>
      /\ ejecutado \in [Pedido -> Nat] /\ llamado \in [Pedido -> Nat]
      /\ recibido \in [Pedido -> Dato]
  BY DEF request, TypeOK
<1>1. CASE Rechaza(p)
  BY <1>0, <1>1 DEF Rechaza, InvCanal, InvBuffer, Canal, Fuera
<1>2. CASE DelBuffer(p)
  <2>1. buffer[Consulta[p]] = Consulta[p]
    BY <1>2 DEF DelBuffer, EnBuffer, InvBuffer, Dato
  <2>2. /\ UNCHANGED <<alServidor, stack, porGuardar>>
        /\ llamado'[p] = 1 /\ recibido'[p] = Consulta[p]
        /\ \A q \in Pedido : q # p => llamado'[q] = llamado[q] /\ recibido'[q] = recibido[q]
    BY <1>0, <1>2, <2>1 DEF DelBuffer, Llama, Fuera
  <2>3. \A q \in Pedido : Canal(q)'
    BY <1>0, <2>2 DEF InvCanal, Canal, Fuera
  <2>4. InvBuffer'
    BY <1>0, <2>2 DEF InvBuffer
  <2> QED BY <1>0, <2>2, <2>3, <2>4 DEF InvCanal, Fuera
<1>3. CASE Manda(p)
  <2>1. /\ UNCHANGED <<llamado, recibido>> /\ Sube(p, aes) /\ aes \in BOOLEAN /\ p \in Ids
        /\ porGuardar' \subseteq stack'
    BY <1>3 DEF Manda, TypeOK, Ids, InvBuffer
  <2>2. /\ SinRepetir(alServidor')
        /\ \A q : Lleva(alServidor', q) => Lleva(alServidor, q) \/ q = p
    BY <2>1, SubeUnico DEF InvCanal, Fuera
  <2>3. \A q \in Pedido : Canal(q)'
    BY <1>0, <2>1, <2>2 DEF InvCanal, Canal, Fuera
  <2> QED BY <1>0, <2>1, <2>2, <2>3 DEF InvCanal, InvBuffer, Fuera
<1> QED BY <1>1, <1>2, <1>3 DEF request

LEMMA PidePromesa ==
  ASSUME TypeOK, InvPromesa, NEW p \in Pedido, Pide(p)
  PROVE  InvPromesa'
<1>1. /\ i = 0 /\ UNCHANGED i /\ pedidos' = pedidos \cup {p} /\ p \notin pedidos /\ Fuera(p)
      /\ list \in Seq(Pedido)
  BY DEF Pide, InvPromesa, InvCola, TypeOK
<1>2. CASE request(p) /\ UNCHANGED list
  <2>1. /\ InvCanal' /\ InvBuffer'
        /\ \A q \in Pedido : q # p /\ Fuera(q) => Fuera(q)'
    BY <1>1, <1>2, requestUnico DEF InvPromesa
  <2>2. InvCola'
    <3>1. ~EnEspera(p)'
      BY <1>1, <1>2 DEF EnEspera, InvPromesa, InvCola
    <3>2. \A q \in Pedido : EnEspera(q)' => EnEspera(q)
      BY <1>1, <1>2 DEF EnEspera
    <3>3. \A q \in Pedido : (EnEspera(q) \/ q \notin pedidos)' => Fuera(q)'
      BY <1>1, <2>1, <3>1, <3>2 DEF InvPromesa, InvCola
    <3> QED BY <1>1, <1>2, <3>3 DEF InvPromesa, InvCola
  <2> QED BY <2>1, <2>2 DEF InvPromesa
<1>3. CASE queued(p)
  <2>1. /\ list' = Append(list, p)
        /\ UNCHANGED <<alServidor, alCliente, ejecutado, llamado, recibido, porGuardar, stack,
                       buffer>>
    BY <1>3 DEF queued, red
  <2>2. \A j \in DOMAIN list : list[j] # p
    BY <1>1 DEF InvPromesa, InvCola
  <2>3. \A j, k \in DOMAIN list' : list'[j] = list'[k] => j = k
    BY <1>1, <2>1, <2>2, Anexo DEF InvPromesa, InvCola
  <2>4. \A j \in DOMAIN list' : list'[j] \in pedidos'
    BY <1>1, <2>1, Anexo DEF InvPromesa, InvCola
  <2>5. \A q \in Pedido : EnEspera(q)' => EnEspera(q) \/ q = p
    BY <1>1, <2>1, Anexo DEF EnEspera
  <2>6. \A q \in Pedido : Fuera(q) => Fuera(q)'
    BY <2>1 DEF Fuera
  <2>7. \A q \in Pedido : (EnEspera(q) \/ q \notin pedidos)' => Fuera(q)'
    BY <1>1, <2>5, <2>6 DEF InvPromesa, InvCola
  <2>8. InvCanal' /\ InvBuffer'
    BY <2>1 DEF InvPromesa, InvCanal, InvBuffer, Canal
  <2> QED BY <2>3, <2>4, <2>7, <2>8 DEF InvPromesa, InvCola
<1> QED BY <1>2, <1>3 DEF Pide

LEMMA unqueuedPromesa ==
  ASSUME TypeOK, InvPromesa, unqueued
  PROVE  InvPromesa'
<1>0. PICK p : p = list[i]
  OBVIOUS
<1>1. /\ i \in DOMAIN list /\ i \in Nat /\ list \in Seq(Pedido) /\ p \in Pedido /\ p \in pedidos /\ EnEspera(p)
      /\ Fuera(p) /\ request(p) /\ i' = i + 1 /\ UNCHANGED <<list, pedidos>>
  BY <1>0 DEF unqueued, Turnos, TypeOK, EnEspera, InvPromesa, InvCola
<1>2. /\ InvCanal' /\ InvBuffer'
      /\ \A q \in Pedido : q # p /\ Fuera(q) => Fuera(q)'
  BY <1>1, requestUnico DEF InvPromesa
<1>3. ~EnEspera(p)'
  BY <1>0, <1>1 DEF EnEspera, InvPromesa, InvCola
<1>4. \A q \in Pedido : EnEspera(q)' => EnEspera(q)
  BY <1>1 DEF EnEspera
<1>5. \A q \in Pedido : (EnEspera(q) \/ q \notin pedidos)' => Fuera(q)'
  BY <1>1, <1>2, <1>3, <1>4 DEF InvPromesa, InvCola
<1> QED BY <1>1, <1>2, <1>5 DEF InvPromesa, InvCola

(* What leaves the queue alone and takes no call out of nowhere.           *)
LEMMA ColaIgual ==
  ASSUME InvCola, UNCHANGED <<list, i, pedidos>>,
         \A q \in Pedido : Fuera(q) => Fuera(q)'
  PROVE  InvCola'
<1>1. \A q \in Pedido : EnEspera(q)' <=> EnEspera(q)
  BY DEF EnEspera
<1> QED BY <1>1 DEF InvCola

LEMMA onmessagePromesa ==
  ASSUME TypeOK, InvPromesa, onmessage
  PROVE  InvPromesa'
<1> DEFINE paquete == Head(alCliente)  r == paquete.callback
<1>1. /\ UNCHANGED <<list, i, pedidos, ejecutado>>
      /\ alCliente \in Seq(Bajada) /\ alCliente # <<>> /\ alCliente' = Tail(alCliente)
      /\ paquete = alCliente[1] /\ 1 \in DOMAIN alCliente
  BY Resto DEF onmessage, TypeOK
<1>2. /\ \A q : Lleva(alCliente', q) => Lleva(alCliente, q)
      /\ Lleva(alCliente, r)
      /\ SinRepetir(alCliente')
      /\ r \in Pedido => ~Lleva(alCliente', r)
  BY <1>1, LlevaResto, UnicoResto DEF InvPromesa, InvCanal
<1>3. \A j \in DOMAIN alCliente' : alCliente'[j].callback \in Pedido
        => alCliente'[j].response = Consulta[alCliente'[j].callback]
  BY <1>1, Resto DEF InvPromesa, InvCanal
<1>4. r \in Pedido => ejecutado[r] = 1 /\ llamado[r] = 0 /\ ~Lleva(alServidor, r)
                      /\ paquete.response = Consulta[r]
  BY <1>1, <1>2 DEF InvPromesa, InvCanal, Canal
<1> HIDE DEF paquete, r
<1>5. CASE UNCHANGED <<alServidor, llamado, recibido, buffer, porGuardar, stack>>
  <2>1. \A q \in Pedido : (Fuera(q) => Fuera(q)') /\ Canal(q)'
    BY <1>1, <1>2, <1>5 DEF Fuera, Canal, InvPromesa, InvCanal
  <2>2. InvCola'
    BY <1>1, <2>1, ColaIgual DEF InvPromesa
  <2> QED BY <1>2, <1>3, <1>5, <2>1, <2>2 DEF InvPromesa, InvCanal, InvBuffer
<1>6. CASE on202
  <2>1. /\ Sube(Login, aes) /\ Login \in Ids /\ Login \notin Pedido /\ aes \in BOOLEAN
        /\ UNCHANGED <<llamado, recibido, buffer, porGuardar>> /\ porGuardar' \subseteq stack'
    BY <1>6, ComAssumption DEF on202, Ids, TypeOK, InvPromesa, InvBuffer
  <2>2. SinRepetir(alServidor') /\ \A q \in Pedido : Lleva(alServidor', q) => Lleva(alServidor, q)
    BY <2>1, SubeUnico DEF InvPromesa, InvCanal
  <2>3. \A q \in Pedido : (Fuera(q) => Fuera(q)') /\ Canal(q)'
    BY <1>1, <1>2, <2>1, <2>2 DEF Fuera, Canal, InvPromesa, InvCanal
  <2>4. InvCola'
    BY <1>1, <2>3, ColaIgual DEF InvPromesa
  <2> QED BY <1>2, <1>3, <2>1, <2>2, <2>3, <2>4 DEF InvPromesa, InvCanal, InvBuffer
<1>7. CASE on200(paquete)
  <2>1. r \in Pedido /\ Consulta[r] \in Dato /\ Consulta[r] # Nada
    BY <1>7, ComAssumption DEF on200, r, Dato
  <2>2. CASE r \notin stack
    <3>1. UNCHANGED <<alServidor, llamado, recibido, buffer, porGuardar, stack>>
      BY <1>7, <2>2 DEF on200, r, InvPromesa, InvBuffer
    <3> QED BY <3>1, <1>5
  <2>3. CASE r \in stack
    <3>1. /\ UNCHANGED <<alServidor, stack>> /\ porGuardar' \subseteq stack'
          /\ llamado'[r] = 1 /\ recibido'[r] = Consulta[r]
          /\ \A q \in Pedido : q # r => llamado'[q] = llamado[q] /\ recibido'[q] = recibido[q]
          /\ \A d \in Dato : buffer'[d] # buffer[d] => d = Consulta[r] /\ buffer'[d] = d
      BY <1>4, <1>7, <2>1, <2>3
         DEF on200, Guarda, Llama, r, InvPromesa, InvBuffer, TypeOK
    <3>2. \A q \in Pedido : (Fuera(q) => Fuera(q)') /\ Canal(q)'
      BY <1>1, <1>2, <1>4, <2>1, <3>1 DEF Fuera, Canal, InvPromesa, InvCanal
    <3>3. InvCola'
      BY <1>1, <3>2, ColaIgual DEF InvPromesa
    <3>4. \A q \in Pedido : llamado[q] = 1 => llamado'[q] = 1
      BY <1>4, <3>1
    <3>5. InvBuffer'
      BY <2>1, <3>1, <3>4 DEF InvPromesa, InvBuffer
    <3> QED BY <1>2, <1>3, <3>1, <3>2, <3>3, <3>5 DEF InvPromesa, InvCanal
  <2> QED BY <2>2, <2>3
<1>8. Ignora \/ on202 \/ inicia(paquete) \/ on200(paquete)
  BY DEF onmessage, paquete
<1> QED BY <1>5, <1>6, <1>7, <1>8 DEF Ignora, inicia

LEMMA onMessagePromesa ==
  ASSUME TypeOK, InvPromesa, onMessage
  PROVE  InvPromesa'
<1> DEFINE paquete == Head(alServidor)  r == paquete.callback
<1>1. /\ UNCHANGED <<list, i, pedidos, llamado, recibido, buffer, porGuardar, stack>>
      /\ alServidor \in Seq(Subida) /\ alServidor # <<>> /\ alServidor' = Tail(alServidor)
      /\ paquete \in Subida
  BY Resto DEF onMessage, pagina, TypeOK
<1>2. /\ \A q : Lleva(alServidor', q) => Lleva(alServidor, q)
      /\ Lleva(alServidor, r)
      /\ SinRepetir(alServidor')
      /\ r \in Pedido => ~Lleva(alServidor', r)
  BY <1>1, LlevaResto, UnicoResto DEF InvPromesa, InvCanal
<1>3. r \in Ids /\ (r \in Pedido => ejecutado[r] = 0 /\ llamado[r] = 0 /\ ~Lleva(alCliente, r))
  BY <1>1, <1>2 DEF InvPromesa, InvCanal, Canal, Subida
<1> HIDE DEF paquete, r
<1>4. ilegible \/ log \/ (r \in Pedido /\ accion(r))
  BY <1>3 DEF onMessage, paquete, r, Ids
<1>5. ASSUME NEW e \in Bajada, e.callback = Login \/ e.callback = r,
             e.callback \in Pedido => e.response = Consulta[e.callback],
             alCliente' = alCliente \/ alCliente' = Append(alCliente, e)
      PROVE  /\ SinRepetir(alCliente')
             /\ \A q \in Pedido : Lleva(alCliente', q) => Lleva(alCliente, q) \/ q = e.callback
             /\ \A j \in DOMAIN alCliente' : alCliente'[j].callback \in Pedido
                  => alCliente'[j].response = Consulta[alCliente'[j].callback]
  <2>1. alCliente \in Seq(Bajada) /\ (e.callback \in Pedido => ~Lleva(alCliente, e.callback))
    BY <1>3, <1>5, ComAssumption DEF TypeOK
  <2>2. CASE alCliente' = Append(alCliente, e)
    <3>1. SinRepetir(Append(alCliente, e))
      BY <2>1, UnicoAnexo DEF InvPromesa, InvCanal
    <3>2. \A q : Lleva(Append(alCliente, e), q) <=> Lleva(alCliente, q) \/ e.callback = q
      BY <2>1, LlevaAnexo
    <3>3. \A j \in DOMAIN alCliente' : alCliente'[j].callback \in Pedido
            => alCliente'[j].response = Consulta[alCliente'[j].callback]
      BY <1>5, <2>1, <2>2, Anexo DEF InvPromesa, InvCanal
    <3> QED BY <2>2, <3>1, <3>2, <3>3
  <2> QED BY <1>5, <2>2 DEF InvPromesa, InvCanal
<1>6. CASE ilegible \/ log
  <2>1. UNCHANGED ejecutado
    BY <1>6 DEF ilegible, log
  <2>2. PICK c \in BOOLEAN :
          \/ alCliente' = alCliente
          \/ alCliente' = Append(alCliente, [code |-> 200, callback |-> Login,
                                             response |-> Nada, cifrado |-> c])
    <3>1. CASE ilegible
      <4>1. alCliente' = alCliente /\ TRUE \in BOOLEAN
        BY <3>1 DEF ilegible, Baja, ConSesion
      <4> QED BY <4>1
    <3>2. CASE log
      BY <3>2 DEF log, Baja, ConSesion
    <3> QED BY <1>6, <3>1, <3>2
  <2> DEFINE e == [code |-> 200, callback |-> Login, response |-> Nada, cifrado |-> c]
  <2>3. e \in Bajada /\ e.callback = Login /\ Login \notin Pedido
    BY ComAssumption DEF Bajada, Ids, Dato
  <2> HIDE DEF e
  <2>4. /\ SinRepetir(alCliente')
        /\ \A q \in Pedido : Lleva(alCliente', q) => Lleva(alCliente, q)
        /\ \A j \in DOMAIN alCliente' : alCliente'[j].callback \in Pedido
             => alCliente'[j].response = Consulta[alCliente'[j].callback]
    BY <1>5, <2>2, <2>3 DEF e
  <2>5. \A q \in Pedido : (Fuera(q) => Fuera(q)') /\ Canal(q)'
    BY <1>1, <1>2, <2>1, <2>4 DEF Fuera, Canal, InvPromesa, InvCanal
  <2>6. InvCola'
    BY <1>1, <2>5, ColaIgual DEF InvPromesa
  <2> QED BY <1>1, <1>2, <2>4, <2>5, <2>6 DEF InvPromesa, InvCanal, InvBuffer
<1>7. CASE r \in Pedido /\ accion(r)
  <2>1. /\ ejecutado'[r] = 1
        /\ \A q \in Pedido : q # r => ejecutado'[q] = ejecutado[q]
        /\ Encrypt \in BOOLEAN
    BY <1>3, <1>7 DEF accion, TypeOK
  <2> DEFINE e == [code |-> 200, callback |-> r, response |-> Consulta[r], cifrado |-> Encrypt]
  <2>2. e \in Bajada /\ e.callback = r /\ e.response = Consulta[r]
    BY <1>7, <2>1 DEF Bajada, Ids, Dato
  <2>3. alCliente' = alCliente \/ alCliente' = Append(alCliente, e)
    BY <1>7 DEF accion, Baja, ConSesion
  <2> HIDE DEF e
  <2>4. /\ SinRepetir(alCliente')
        /\ \A q \in Pedido : Lleva(alCliente', q) => Lleva(alCliente, q) \/ q = r
        /\ \A j \in DOMAIN alCliente' : alCliente'[j].callback \in Pedido
             => alCliente'[j].response = Consulta[alCliente'[j].callback]
    BY <1>5, <2>2, <2>3
  <2>5. \A q \in Pedido : (Fuera(q) => Fuera(q)') /\ Canal(q)'
    BY <1>1, <1>2, <1>3, <1>7, <2>1, <2>4 DEF Fuera, Canal, InvPromesa, InvCanal
  <2>6. InvCola'
    BY <1>1, <2>5, ColaIgual DEF InvPromesa
  <2> QED BY <1>1, <1>2, <2>4, <2>5, <2>6 DEF InvPromesa, InvCanal, InvBuffer
<1> QED BY <1>4, <1>6, <1>7

LEMMA PromesaInicial == Init => InvPromesa
BY DEF Init, InvPromesa, InvCola, InvCanal, InvBuffer, Canal, Fuera, Lleva, SinRepetir, EnEspera

LEMMA PromesaSiguiente ==
  ASSUME TypeOK, InvPromesa, [Next]_vars PROVE InvPromesa'
<1>1. ASSUME NEW p \in Pedido, Pide(p) PROVE InvPromesa'
  BY <1>1, PidePromesa
<1>2. CASE check
  <2>1. \A q \in Pedido : (EnEspera(q)' => EnEspera(q)) /\ (Fuera(q)' <=> Fuera(q))
    BY <1>2 DEF check, EnEspera, Fuera, historia, red, TypeOK
  <2> QED BY <1>2, <2>1
      DEF check, InvPromesa, InvCola, InvCanal, InvBuffer, Canal, historia, red
<1>3. CASE unqueued
  BY <1>3, unqueuedPromesa
<1>4. CASE procesada
  <2>1. \A q \in Pedido : ~EnEspera(q)' /\ (Fuera(q)' <=> Fuera(q))
    BY <1>4 DEF procesada, EnEspera, Fuera, historia, red
  <2> QED BY <1>4, <2>1
      DEF procesada, InvPromesa, InvCola, InvCanal, InvBuffer, Canal, historia, red
<1>5. CASE onmessage
  BY <1>5, onmessagePromesa
<1>6. CASE onOpen
  <2> DEFINE e == [code |-> 202, callback |-> Login, response |-> Nada, cifrado |-> Encrypt]
  <2>1. /\ UNCHANGED <<alServidor, list, i, pedidos, ejecutado, llamado, recibido, buffer,
                       porGuardar, stack>>
        /\ alCliente \in Seq(Bajada) /\ alCliente' = Append(alCliente, e)
    BY <1>6 DEF onOpen, Baja, ConSesion, pagina, historia, TypeOK
  <2>2. e \in Bajada /\ e.callback = Login /\ Login \notin Pedido
    BY ComAssumption DEF Bajada, Ids, Dato, TypeOK
  <2> HIDE DEF e
  <2>3. /\ SinRepetir(alCliente')
        /\ \A q \in Pedido : Lleva(alCliente', q) => Lleva(alCliente, q)
    BY <2>1, <2>2, UnicoAnexo, LlevaAnexo DEF InvPromesa, InvCanal
  <2>4. \A j \in DOMAIN alCliente' : alCliente'[j].callback \in Pedido
          => alCliente'[j].response = Consulta[alCliente'[j].callback]
    BY <2>1, <2>2, Anexo DEF InvPromesa, InvCanal
  <2>5. \A q \in Pedido : (Fuera(q) => Fuera(q)') /\ Canal(q)'
    BY <2>1, <2>3 DEF Fuera, Canal, InvPromesa, InvCanal
  <2>6. InvCola'
    BY <2>1, <2>5, ColaIgual DEF InvPromesa
  <2> QED BY <2>1, <2>3, <2>4, <2>5, <2>6 DEF InvPromesa, InvCanal, InvBuffer
<1>7. CASE onMessage
  BY <1>7, onMessagePromesa
<1>8. CASE Cierra
  <2>1. /\ UNCHANGED <<list, i, pedidos, ejecutado, llamado, recibido, buffer, porGuardar, stack>>
        /\ alServidor' = <<>> /\ alCliente' = <<>>
    BY <1>8 DEF Cierra, pagina, historia
  <2>2. \A q \in Pedido : (Fuera(q) => Fuera(q)') /\ Canal(q)'
    BY <2>1 DEF Fuera, Lleva, Canal, InvPromesa, InvCanal
  <2>3. InvCola'
    BY <2>1, <2>2, ColaIgual DEF InvPromesa
  <2> QED BY <2>1, <2>2, <2>3 DEF InvPromesa, InvCanal, InvBuffer, SinRepetir
<1>9. CASE UNCHANGED vars
  <2>1. \A q \in Pedido : (EnEspera(q)' <=> EnEspera(q)) /\ (Fuera(q)' <=> Fuera(q))
    BY <1>9 DEF vars, pagina, historia, red, EnEspera, Fuera
  <2> QED BY <1>9, <2>1
      DEF vars, pagina, historia, red, InvPromesa, InvCola, InvCanal, InvBuffer, Canal
<1> QED BY <1>1, <1>2, <1>3, <1>4, <1>5, <1>6, <1>7, <1>8, <1>9 DEF Next

(* A step that takes only p, and it from one state of the promise to        *)
(* another.                                                                *)
Estados == [q \in Pedido |-> Estado(q)]

LEMMA UnEstado ==
  ASSUME NEW p \in Pedido, NEW a, Estado(p)' = a,
         \A q \in Pedido : q # p =>
           /\ (q \in pedidos' <=> q \in pedidos)
           /\ ejecutado'[q] = ejecutado[q] /\ llamado'[q] = llamado[q]
  PROVE  Estados' = [Estados EXCEPT ![p] = a]
<1>1. \A q \in Pedido : q # p => Estado(q)' = Estado(q)
  BY DEF Estado
<1> QED BY <1>1 DEF Estados

LEMMA EstadosIguales ==
  ASSUME UNCHANGED <<pedidos, ejecutado, llamado>> PROVE Estados' = Estados
BY DEF Estados, Estado

(* request for a call that is nowhere yet is Pide, Repite or nothing.       *)
LEMMA requestCumple ==
  ASSUME TypeOK, InvCanal, InvBuffer, NEW p \in Pedido, Fuera(p), request(p),
         pedidos' = pedidos \cup {p}
  PROVE  [Promesa!Next]_(Promesa!vars)
<1>0. /\ UNCHANGED <<ejecutado>> /\ ejecutado[p] = 0 /\ llamado[p] = 0 /\ Estados[p] = Estado(p)
      /\ Estado(p) = IF p \in pedidos THEN "pedido" ELSE "nuevo"
      /\ llamado \in [Pedido -> Nat] /\ recibido \in [Pedido -> Dato]
      /\ \A q \in Pedido : q # p => (q \in pedidos' <=> q \in pedidos)
  BY DEF request, Fuera, Estado, Estados, TypeOK
<1>1. CASE Rechaza(p) \/ Manda(p)
  <2>1. UNCHANGED <<llamado, recibido>>
    BY <1>1 DEF Rechaza, Manda
  <2>2. Estado(p)' = "pedido"
    BY <1>0, <2>1 DEF Estado
  <2>3. Estados' = [Estados EXCEPT ![p] = "pedido"]
    BY <1>0, <2>1, <2>2, UnEstado
  <2>4. CASE p \in pedidos
    <3>1. Estados' = Estados
      BY <1>0, <2>3, <2>4 DEF Estados
    <3> QED BY <2>1, <3>1 DEF Promesa!vars, Estados
  <2>5. CASE p \notin pedidos
    <3>1. Promesa!Pide(p)
      BY <1>0, <2>1, <2>3, <2>5 DEF Promesa!Pide, Promesa!Pasa, Estados
    <3> QED BY <3>1 DEF Promesa!Next, Promesa!Paso
  <2> QED BY <2>4, <2>5
<1>2. CASE DelBuffer(p)
  <2>1. PICK q \in Pedido : /\ Consulta[q] = Consulta[p] /\ llamado[q] = 1
                            /\ buffer[Consulta[p]] = Consulta[p]
    BY <1>2 DEF DelBuffer, EnBuffer, InvBuffer, Dato
  <2>2. recibido[q] = Consulta[p] /\ ejecutado[q] \in {0, 1}
    BY <2>1 DEF InvCanal, Canal
  <2>3. Estado(q) = "respondido" /\ Estados[q] = "respondido"
    BY <2>1, <2>2 DEF Estado, Estados
  <2>4. /\ recibido' = [recibido EXCEPT ![p] = recibido[q]]
        /\ llamado' = [llamado EXCEPT ![p] = 1]
    BY <1>0, <1>2, <2>1, <2>2 DEF DelBuffer, Llama
  <2>5. Estado(p)' = "respondido"
    BY <1>0, <2>4 DEF Estado
  <2>6. Estados' = [Estados EXCEPT ![p] = "respondido"]
    BY <1>0, <2>4, <2>5, UnEstado
  <2>7. Promesa!Repite(p, q)
    BY <1>0, <2>1, <2>3, <2>4, <2>6 DEF Promesa!Repite, Promesa!Pasa, Estados
  <2> QED BY <2>7 DEF Promesa!Next, Promesa!Paso
<1> QED BY <1>1, <1>2 DEF request

LEMMA PasoCumple ==
  ASSUME TypeOK, InvPromesa, [Next]_vars
  PROVE  [Promesa!Next]_(Promesa!vars)
<1>0. ASSUME UNCHANGED <<pedidos, ejecutado, llamado, recibido>>
      PROVE  [Promesa!Next]_(Promesa!vars)
  BY <1>0, EstadosIguales DEF Promesa!vars, Estados
<1>1. ASSUME NEW p \in Pedido, Pide(p) PROVE [Promesa!Next]_(Promesa!vars)
  <2>1. Fuera(p) /\ p \notin pedidos /\ pedidos' = pedidos \cup {p}
    BY <1>1 DEF Pide, InvPromesa, InvCola
  <2>2. CASE request(p)
    BY <2>1, <2>2, requestCumple DEF InvPromesa
  <2>3. CASE queued(p)
    <3>1. UNCHANGED <<ejecutado, llamado, recibido>>
      BY <2>3 DEF queued
    <3>2. Estado(p) = "nuevo" /\ Estado(p)' = "pedido"
      BY <2>1, <3>1 DEF Estado, Fuera
    <3>3. Estados' = [Estados EXCEPT ![p] = "pedido"] /\ Estados[p] = "nuevo"
      BY <2>1, <3>1, <3>2, UnEstado DEF Estados
    <3>4. Promesa!Pide(p)
      BY <3>1, <3>3 DEF Promesa!Pide, Promesa!Pasa, Estados
    <3> QED BY <3>4 DEF Promesa!Next, Promesa!Paso
  <2> QED BY <1>1, <2>2, <2>3 DEF Pide
<1>2. CASE unqueued
  <2>0. PICK p : p = list[i]
    OBVIOUS
  <2>1. /\ p \in Pedido /\ p \in pedidos /\ Fuera(p) /\ request(p) /\ UNCHANGED pedidos
    BY <1>2, <2>0 DEF unqueued, Turnos, TypeOK, EnEspera, InvPromesa, InvCola
  <2>2. pedidos' = pedidos \cup {p}
    BY <2>1
  <2> QED BY <2>1, <2>2, requestCumple DEF InvPromesa
<1>3. CASE onmessage
  <2> DEFINE paquete == Head(alCliente)
  <2>0. PICK r : r = paquete.callback
    OBVIOUS
  <2>1. /\ UNCHANGED <<pedidos, ejecutado>> /\ paquete = alCliente[1] /\ 1 \in DOMAIN alCliente
    BY <1>3, Resto DEF onmessage, TypeOK
  <2>2. Lleva(alCliente, r)
    BY <2>0, <2>1 DEF Lleva
  <2>3. r \in Pedido => ejecutado[r] = 1 /\ llamado[r] = 0 /\ paquete.response = Consulta[r]
    BY <2>0, <2>1, <2>2 DEF InvPromesa, InvCanal, Canal
  <2>4. Ignora \/ on202 \/ inicia(paquete) \/ on200(paquete)
    BY <1>3 DEF onmessage
  <2> HIDE DEF paquete
  <2>5. CASE UNCHANGED <<llamado, recibido>>
    BY <1>0, <2>1, <2>5
  <2>6. CASE on200(paquete) /\ r \in stack
    <3>1. /\ r \in Pedido /\ llamado' = [llamado EXCEPT ![r] = 1]
          /\ recibido' = [recibido EXCEPT ![r] = Consulta[r]]
      BY <2>0, <2>3, <2>6 DEF on200, Llama, TypeOK
    <3>2. llamado'[r] = 1 /\ ejecutado'[r] = 1
      BY <2>1, <2>3, <3>1 DEF TypeOK
    <3>3. Estado(r) = "atendido" /\ Estado(r)' = "respondido"
      BY <2>3, <3>1, <3>2 DEF Estado
    <3>4. Estados' = [Estados EXCEPT ![r] = "respondido"] /\ Estados[r] = "atendido"
      <4>1. \A q \in Pedido : q # r =>
              /\ (q \in pedidos' <=> q \in pedidos)
              /\ ejecutado'[q] = ejecutado[q] /\ llamado'[q] = llamado[q]
        BY <2>1, <3>1 DEF TypeOK
      <4> QED BY <3>1, <3>3, <4>1, UnEstado DEF Estados
    <3>5. Promesa!Responde(r)
      BY <3>1, <3>4 DEF Promesa!Responde, Promesa!Pasa, Estados
    <3> QED BY <3>1, <3>5 DEF Promesa!Next, Promesa!Paso
  <2> QED BY <2>0, <2>4, <2>5, <2>6 DEF Ignora, on202, inicia, on200
<1>4. CASE onMessage
  <2> DEFINE paquete == Head(alServidor)
  <2>0. PICK r : r = paquete.callback
    OBVIOUS
  <2>1. /\ UNCHANGED <<pedidos, llamado, recibido>>
        /\ paquete = alServidor[1] /\ 1 \in DOMAIN alServidor /\ paquete \in Subida
    BY <1>4, Resto DEF onMessage, TypeOK
  <2>2. Lleva(alServidor, r) /\ r \in Ids
    BY <2>0, <2>1 DEF Lleva, Subida
  <2>3. r \in Pedido => ejecutado[r] = 0 /\ llamado[r] = 0 /\ r \in pedidos
    BY <2>2 DEF InvPromesa, InvCanal, InvCola, Canal, Fuera
  <2>4. ilegible \/ log \/ (r \in Pedido /\ accion(r))
    BY <1>4, <2>0, <2>2 DEF onMessage, Ids
  <2>5. CASE UNCHANGED ejecutado
    BY <1>0, <2>1, <2>5
  <2>6. CASE r \in Pedido /\ accion(r)
    <3>1. ejecutado' = [ejecutado EXCEPT ![r] = 1] /\ ejecutado'[r] = 1
      BY <2>3, <2>6 DEF accion, TypeOK
    <3>2. Estado(r) = "pedido" /\ Estado(r)' = "atendido"
      BY <2>1, <2>3, <2>6, <3>1 DEF Estado
    <3>3. Estados' = [Estados EXCEPT ![r] = "atendido"] /\ Estados[r] = "pedido"
      <4>1. \A q \in Pedido : q # r =>
              /\ (q \in pedidos' <=> q \in pedidos)
              /\ ejecutado'[q] = ejecutado[q] /\ llamado'[q] = llamado[q]
        BY <2>1, <3>1 DEF TypeOK
      <4> QED BY <2>6, <3>2, <4>1, UnEstado DEF Estados
    <3>4. Promesa!Atiende(r)
      BY <2>1, <3>3 DEF Promesa!Atiende, Promesa!Pasa, Estados
    <3> QED BY <2>6, <3>4 DEF Promesa!Next, Promesa!Paso
  <2> QED BY <2>4, <2>5, <2>6 DEF ilegible, log
<1>5. CASE check \/ procesada \/ onOpen \/ Cierra \/ UNCHANGED vars
  BY <1>0, <1>5 DEF check, procesada, onOpen, Cierra, vars, historia
<1> QED BY <1>1, <1>2, <1>3, <1>4, <1>5 DEF Next

(* COM keeps its promise: nothing is carried out or called back twice, and  *)
(* every answer is to what was asked (com.js:70-136, 157-172, 275-325).     *)
THEOREM CumplePromesa == Spec => Cumple
<1>1. Init => Promesa!Init
  BY DEF Init, Promesa!Init, Estado
<1>2. TypeOK /\ InvPromesa /\ [Next]_vars => InvPromesa'
  BY PromesaSiguiente
<1>3. TypeOK /\ InvPromesa /\ [Next]_vars => [Promesa!Next]_(Promesa!vars)
  BY PasoCumple
<1> QED BY <1>1, <1>2, <1>3, PromesaInicial, TipoCorrecto, PTL DEF Spec, Cumple, Promesa!Spec
===============================================================================
