---------------------------- MODULE MCAdjudicacion ----------------------------
(***************************************************************************)
(* Instance for TLC: a tender of one line, and a purchase order of two: the  *)
(* first has two projects (nothing keeps a line from having several), the    *)
(* second has none, nor a contractor. Thread h1 is called for the tender; h2  *)
(* for it too, by JSON-WSP, or for the purchase order between two badly      *)
(* formed elements.                                                        *)
(***************************************************************************)
EXTENDS Adjudicacion, TLC

CONSTANTS h1, h2, l1, l2, l3, o1, o2, r1, r2, nadie

ItemsDe  == (o1 :> <<l1>>) @@ (o2 :> <<l2, l3>>)
Ruts     == (l1 :> r1) @@ (l2 :> r2) @@ (l3 :> nadie)
Antes    == <<l1, l2, l2>>
Bien(o)  == [orden |-> o, forma |-> "bien"]
Mal(f)   == [orden |-> o2, forma |-> f]
Una(wsp) == [wsp |-> wsp, ordenes |-> <<Bien(o1)>>]
Tres     == [wsp |-> FALSE, ordenes |-> <<Mal("sin campos"), Bien(o2), Mal("anonima")>>]
Ordenes  == (h1 :> {Una(FALSE)}) @@ (h2 :> {Una(TRUE), Tres})
===============================================================================
