------------------------------- MODULE MCTrazado -------------------------------
(* KML files for the model checker: a line each, one line twice, and one     *)
(* whose second placemark names no line of the tender.                       *)
EXTENDS Trazado

ArchivosMC == {<<1>>, <<2>>, <<1, 2>>, <<2, 0>>}
===============================================================================
