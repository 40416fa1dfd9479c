---------------------------- MODULE PedidoRespuesta ----------------------------
(***************************************************************************)
(* What COM.request promises to the page that calls it, whatever happens   *)
(* underneath: a request is carried out at most once, its callback is       *)
(* called at most once and never before, with the answer to the query that  *)
(* was asked; a request made with obj.buffered may be given the answer an   *)
(* equal query got before, without being carried out.                      *)
(***************************************************************************)
CONSTANTS
  Pedido,      \* calls of COM.request
  Consulta,    \* what each asks: request, data and headers
  Nada         \* no answer yet

VARIABLES
  estado,      \* how far each call has got
  respuesta    \* what its callback was called with

vars == <<estado, respuesta>>

Init ==
  /\ estado = [p \in Pedido |-> "nuevo"]
  /\ respuesta = [p \in Pedido |-> Nada]

Pasa(p, de, a) == estado[p] \in de /\ estado' = [estado EXCEPT ![p] = a]

Pide(p)   == Pasa(p, {"nuevo"}, "pedido") /\ UNCHANGED respuesta
Atiende(p) == Pasa(p, {"pedido"}, "atendido") /\ UNCHANGED respuesta

Responde(p) ==
  /\ Pasa(p, {"atendido"}, "respondido")
  /\ respuesta' = [respuesta EXCEPT ![p] = Consulta[p]]

(* The answer of another call of the same query, kept.                     *)
Repite(p, q) ==
  /\ estado[q] = "respondido" /\ Consulta[q] = Consulta[p]
  /\ Pasa(p, {"nuevo", "pedido"}, "respondido")
  /\ respuesta' = [respuesta EXCEPT ![p] = respuesta[q]]

Paso(p) == Pide(p) \/ Atiende(p) \/ Responde(p) \/ \E q \in Pedido : Repite(p, q)
Next    == \E p \in Pedido : Paso(p)
Spec    == Init /\ [][Next]_vars
===============================================================================
