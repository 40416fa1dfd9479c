---------------------------- MODULE MCComunicacion ----------------------------
(* Four calls for the model checker: p1 and p2 ask the same and may be       *)
(* answered from the buffer, p3 is synchronous, p4 lacks its callback.       *)
EXTENDS Comunicacion

CONSTANTS p1, p2, p3, p4, c1, c3, c4

ConsultaDe == [p \in Pedido |-> IF p \in {p1, p2} THEN c1 ELSE IF p = p3 THEN c3 ELSE c4]
===============================================================================
