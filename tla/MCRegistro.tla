------------------------------ MODULE MCRegistro ------------------------------
(* Requests for the model checker. Every worker stands for the thread of    *)
(* one connection; its client sends requests out of a small set.            *)
EXTENDS Registro

CONSTANTS w1, w2, k1, k2, c1, c2, c3

Bueno(k)   == [clave |-> k, bip |-> TRUE, ini |-> FALSE, comunas |-> <<c1, c2>>,
               datos |-> "completos", spatial |-> "bien"]
Minimo(k)  == [Bueno(k) EXCEPT !.bip = FALSE, !.ini = TRUE, !.comunas = <<c1>>]
Ignota(k)  == [Bueno(k) EXCEPT !.comunas = <<c1, c3>>]   \* c3: the table does not have it
SinForma(k) == [Bueno(k) EXCEPT !.spatial = "malo"]

Formularios(fs) == {[oc |-> FALSE, formularios |-> f] : f \in fs}
Compra(fs)      == {[oc |-> TRUE, formularios |-> f] : f \in fs}

(* What the front end lets through: comunas and geometry are there.         *)
Normales(k) == {<<Bueno(k)>>, <<Minimo(k)>>, <<Ignota(k)>>, <<SinForma(k)>>}

(* What the handler must cope with beyond that.                             *)
Raros(k) == {<<[Bueno(k) EXCEPT !.datos = d]>> : d \in {"incompletos", "ilegibles", "desconocidos"}}
  \cup {<<[Bueno(k) EXCEPT !.comunas = <<>>]>>, <<[Bueno(k) EXCEPT !.spatial = "ausente"]>>}

(* One client, two lines of one tender, alone and together.                 *)
UnCliente == [w \in Hilo |->
  Formularios({<<Bueno(k1)>>, <<SinForma(k1)>>, <<Bueno(k1), Minimo(k2)>>,
               <<Minimo(k1), Ignota(k2)>>, <<>>})
    \cup Formularios(Raros(k1)) \cup Compra({<<Minimo(k1)>>})]

UnaLinea == [w \in Hilo |-> Formularios(Normales(k1) \cup Raros(k1)) \cup Compra({<<Bueno(k1)>>})]

(* Two clients, a line each.                                                *)
LineaPropia == [w \in Hilo |-> Formularios(Normales(IF w = w1 THEN k1 ELSE k2))]

(* Two clients with one line in common.                                     *)
Escueto(k) == [Minimo(k) EXCEPT !.ini = FALSE]
LineaComun == [w \in Hilo |->
  IF w = w1 THEN Formularios({<<Escueto(k1)>>})
            ELSE Formularios({<<Escueto(k1)>>, <<[Escueto(k2) EXCEPT !.spatial = "malo"]>>})]
===============================================================================
