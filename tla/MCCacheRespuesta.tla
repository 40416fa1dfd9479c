--------------------------- MODULE MCCacheRespuesta ---------------------------
(* Three requests for the model checker: one answered with an array, one    *)
(* with an object, one that names no action.                                *)
EXTENDS CacheRespuesta

CONSTANTS w1, w2, h1, h2, h3, l1

TipoDe == [h \in Hash |-> IF h = h1 THEN "O" ELSE IF h = h2 THEN "A" ELSE "N"]
===============================================================================
