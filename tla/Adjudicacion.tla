----------------------------- MODULE Adjudicacion -----------------------------
(***************************************************************************)
(* The web service ADJUDICACION (AdjudicacionWs.java): Mercado Publico      *)
(* tells which tenders were adjudicated; for every project of their lines   *)
(* the row of GEO_TOMAS_RAZON and the row of GEO_OP_ADJUDICACIONES_CONTRATO  *)
(* are updated, one commit each, by the threads of the servlet container.   *)
(* Meanwhile the registration saga may delete the project of a line and     *)
(* insert another one (here without its failures, which Registro has).      *)
(*                                                                         *)
(* One step is one call of the ORM or of Mercado Publico. What a call       *)
(* writes is known by the number of its dispatch, 0 being what was there    *)
(* when the project was registered.                                        *)
(***************************************************************************)
EXTENDS Integers, Sequences, FiniteSets

CONSTANTS
  Hilo,          \* threads of the servlet container
  Linea, Orden,  \* tender lines; tenders and purchase orders
  LineasDe,      \* LineasDe[o]: the ITEMS Mercado Publico lists
  OC,            \* the orders that are purchase orders
  Rut, RutDe, SinRut,  \* contractor RutDe[l] was awarded l; SinRut: it was not awarded
  Previas,       \* lines of the projects registered before, X_PROY 1, 2, ...
  Pedidos,       \* Pedidos[h]: the calls thread h may get, by JSON-WSP or not
  Registrables,  \* lines that may be registered again meanwhile
  Fallas,        \* kinds of failure the surroundings may produce
  MaxLlamadas,   \* bound: calls in a behaviour
  MaxSucesos     \* bound: failures, restarts and registrations in a behaviour

Sin      == -1     \* no row
Desierto == 6730   \* IDPROVEEDOR of a line without contractor

Forma    == {"bien", "sin campos", "anonima"}
Elemento == [orden : Orden, forma : Forma]
Pedido   == [wsp : BOOLEAN, ordenes : Seq(Elemento)]

(* A query that fails answers no rows, a statement false; "npe" is a lost   *)
(* connection, "io" an IOException; getNextVal answers -1 ("seq"). What      *)
(* Mercado Publico answers may be no JSON or carry a date nobody can read.   *)
FallaFind   == {"vacio", "io"}
FallaUpdate == {"false", "io"}
FallaInsert == {"false", "npe", "io"}
FallaMP     == {"json", "fecha", "io"}
Falla       == FallaFind \cup FallaUpdate \cup FallaInsert \cup FallaMP \cup {"seq"}

MaxProy == Len(Previas) + MaxSucesos
X_PROYs == 1..MaxProy

ASSUME AdjudicacionAssumption ==
  /\ LineasDe \in [Orden -> Seq(Linea)] /\ OC \subseteq Orden
  /\ RutDe \in [Linea -> Rut \cup {SinRut}] /\ SinRut \notin Rut
  /\ Previas \in Seq(Linea) /\ Pedidos \in [Hilo -> SUBSET Pedido] /\ Fallas \subseteq Falla
  /\ Registrables \subseteq Linea /\ Linea # {}
  /\ MaxLlamadas \in Nat /\ MaxSucesos \in Nat

VARIABLES
  proy, idmu,      \* projects with a row in GEO_PROYECTOS; pairs <<X_PROY, line>>
  tora, adju,      \* the two rows of each project
  contratistas,    \* pairs <<X_CONT, rut>>
  duenio, numero,  \* the sequences: whom each X_PROY, each X_CONT was drawn for
  pc, loc,         \* of each thread: where it is, its locals
  respuesta,       \* STATUS of its last answer
  otravez,         \* JSONWsp has dispatched, Gateway still will
  reg,             \* the registration under way
  solo, ajenas,    \* history: nobody else had the project; lines others touched meanwhile
  roto,            \* history: projects a pair of updates was cut short or crossed on
  despachos, llamadas, sucesos    \* counters

filas    == <<proy, idmu, tora, adju, duenio>>
personas == <<contratistas, numero>>
historia == <<solo, ajenas, roto>>
cotas    == <<despachos, llamadas>>
vars     == <<filas, personas, pc, loc, respuesta, otravez, reg, historia, cotas, sucesos>>

Punto == {"libre", "orden", "llave", "mercado", "contratista", "numero", "alta", "linea",
          "proyecto", "respTora", "respAdju", "updTora", "updAdju", "oc", "vuelta",
          "trans", "responde"}

Locales ==
  [ordenes : Seq(Elemento), despacho : Nat, i : Nat, l : Nat, prov : Seq(Int), X_CONT : Int,
   porVer : SUBSET X_PROYs, X_PROY : 0..MaxProy, resp : Nat,
   status : {1, 2}, ordes_back : SUBSET (Orden \X {"OK", "ERROR"})]

Adju == [de : Nat \cup {Sin}, cont : Int]

TypeOK ==
  /\ proy \subseteq X_PROYs /\ idmu \subseteq X_PROYs \X Linea
  /\ tora \in [X_PROYs -> Nat \cup {Sin}] /\ adju \in [X_PROYs -> Adju]
  /\ duenio \in Seq(Linea) /\ Len(duenio) <= MaxProy
  /\ contratistas \subseteq Int \X Rut /\ numero \in Seq(Rut)
  /\ pc \in [Hilo -> Punto] /\ loc \in [Hilo -> Locales]
  /\ respuesta \in [Hilo -> {"", "OK", "IMPACT", "FAIL", "500"}]
  /\ otravez \in [Hilo -> BOOLEAN]
  /\ reg \in [linea : Linea, paso : 0..8, X_PROY : 0..MaxProy, viejos : SUBSET X_PROYs]
  /\ solo \in [Hilo -> BOOLEAN] /\ ajenas \in [Hilo -> SUBSET Linea]
  /\ roto \subseteq X_PROYs
  /\ despachos \in Nat /\ llamadas \in 0..MaxLlamadas /\ sucesos \in 0..MaxSucesos

Vacio == [ordenes |-> <<>>, despacho |-> 0, i |-> 1, l |-> 1, prov |-> <<>>, X_CONT |-> 0,
          porVer |-> {}, X_PROY |-> 0, resp |-> 0, status |-> 1, ordes_back |-> {}]
Registrada(d) == [de |-> d, cont |-> 0]
Quieta == [linea |-> CHOOSE l \in Linea : TRUE, paso |-> 0, X_PROY |-> 0, viejos |-> {}]

Init ==
  LET n == Len(Previas) IN
  /\ proy = 1..n /\ idmu = {<<y, Previas[y]>> : y \in 1..n} /\ duenio = Previas
  /\ tora = [y \in X_PROYs |-> IF y <= n THEN 0 ELSE Sin]
  /\ adju = [y \in X_PROYs |-> Registrada(IF y <= n THEN 0 ELSE Sin)]
  /\ contratistas = {} /\ numero = <<>>
  /\ pc = [h \in Hilo |-> "libre"] /\ loc = [h \in Hilo |-> Vacio]
  /\ respuesta = [h \in Hilo |-> ""] /\ otravez = [h \in Hilo |-> FALSE]
  /\ reg = Quieta
  /\ solo = [h \in Hilo |-> TRUE] /\ ajenas = [h \in Hilo |-> {}] /\ roto = {}
  /\ despachos = 0 /\ llamadas = 0 /\ sucesos = 0

-------------------------------------------------------------------------------
(* Helpers.                                                                *)
Salidas(ks) == {"ok"} \cup (IF sucesos < MaxSucesos THEN ks \cap Fallas ELSE {})
Suceso      == sucesos < MaxSucesos /\ sucesos' = sucesos + 1
Cuenta(r)   == IF r = "ok" THEN UNCHANGED sucesos ELSE Suceso

Orden_i(h) == loc[h].ordenes[loc[h].i].orden
Items(h)   == LineasDe[Orden_i(h)]
Linea_l(h) == Items(h)[loc[h].l]

Ir(h, punto)    == pc' = [pc EXCEPT ![h] = punto]
Sigue(h, punto) == Ir(h, punto) /\ UNCHANGED <<loc, respuesta>>

(* The answer is given, and the thread free; what it was called with and    *)
(* the number of the dispatch are remembered.                              *)
Contesta(h, status) ==
  /\ Ir(h, "libre") /\ respuesta' = [respuesta EXCEPT ![h] = status]
  /\ loc' = [loc EXCEPT ![h] = [Vacio EXCEPT !.ordenes = loc[h].ordenes,
                                             !.despacho = loc[h].despacho]]

(* An exception Adjudicacion does not catch: Gateway answers 500.           *)
Escapa(h) == Contesta(h, "500")

Anota(r, o, estado) ==
  [r EXCEPT !.ordes_back = @ \cup {<<o, estado>>}, !.status = IF estado = "OK" THEN @ ELSE 2]

(* An exception of the order, or of one of its lines: the rest of the order, *)
(* or of the line, is left undone.                                         *)
FallaOrden(h) ==
  /\ Ir(h, "trans") /\ loc' = [loc EXCEPT ![h] = Anota(@, Orden_i(h), "ERROR")]
  /\ UNCHANGED respuesta

SiguienteLinea(h, r) ==
  /\ loc' = [loc EXCEPT ![h] = [r EXCEPT !.l = @ + 1, !.porVer = {}, !.X_PROY = 0, !.resp = 0]]
  /\ Ir(h, IF loc[h].l < Len(Items(h)) THEN "linea" ELSE "trans")
  /\ UNCHANGED respuesta
FallaLinea(h) == SiguienteLinea(h, Anota(loc[h], Orden_i(h), "ERROR"))

(* The loop over the projects of the line, in the order the query gave.     *)
RestoIgual(ys, y) == ys                                     \* mutant: the loop does not advance
Resto(ys, y) == ys \ {y}
SiguienteProyecto(h, r) ==
  \/ r.porVer = {} /\ SiguienteLinea(h, r)
  \/ \E y \in r.porVer :
       /\ loc' = [loc EXCEPT ![h] = [r EXCEPT !.X_PROY = y, !.porVer = Resto(@, y)]]
       /\ Ir(h, "proyecto") /\ UNCHANGED respuesta

(* History: line l passed through other hands than those of the threads gs.  *)
LineasEn(ordenes) == {l \in Linea :
  \E i \in DOMAIN ordenes : \E k \in DOMAIN LineasDe[ordenes[i].orden] :
    l = LineasDe[ordenes[i].orden][k]}
PorOtros(gs, l) == ajenas' =
  [g \in Hilo |-> IF g \in gs \/ (pc[g] = "libre" /\ respuesta[g] # "OK") THEN ajenas[g]
                  ELSE ajenas[g] \cup ({l} \cap LineasEn(loc[g].ordenes))]

EnMano(h, y) ==
  pc[h] \in {"respAdju", "updTora", "updAdju", "oc", "vuelta"} /\ loc[h].X_PROY = y

-------------------------------------------------------------------------------
(* Gateway and JSONWsp. A JSON-WSP request is dispatched by the constructor *)
(* of JSONWsp and, as its status is reset, by Gateway again.                *)
Despacha(h, ordenes) ==
  /\ Ir(h, "orden") /\ despachos' = despachos + 1
  /\ loc' = [loc EXCEPT ![h] = [Vacio EXCEPT !.ordenes = ordenes, !.despacho = despachos + 1]]
  /\ respuesta' = [respuesta EXCEPT ![h] = ""]
  /\ ajenas' = [ajenas EXCEPT ![h] = LineasEn(ordenes) \cap
       ({duenio[y] : y \in {z \in DOMAIN duenio : \E g \in Hilo \ {h} : EnMano(g, z)}}
          \cup (IF reg.paso = 0 THEN {} ELSE {reg.linea}))]
  /\ UNCHANGED <<filas, personas, reg, solo, roto, sucesos>>

process(h) ==
  /\ pc[h] = "libre" /\ ~otravez[h] /\ llamadas < MaxLlamadas
  /\ llamadas' = llamadas + 1
  /\ \E p \in Pedidos[h] :
       /\ Despacha(h, p.ordenes) /\ otravez' = [otravez EXCEPT ![h] = p.wsp]

processwsp(h) ==
  /\ pc[h] = "libre" /\ otravez[h] /\ otravez' = [otravez EXCEPT ![h] = FALSE]
  /\ Despacha(h, loc[h].ordenes)
  /\ UNCHANGED llamadas

-------------------------------------------------------------------------------
(* Adjudicacion: the loop over the orders.                                  *)
EmpiezaOrden(h) ==
  /\ pc[h] = "orden"
  /\ \/ loc[h].i > Len(loc[h].ordenes) /\ Sigue(h, "responde")
     \/ /\ loc[h].i <= Len(loc[h].ordenes)
        /\ LET f == loc[h].ordenes[loc[h].i].forma IN
           \/ f = "bien" /\ Sigue(h, "llave")
           \/ f = "sin campos" /\ FallaOrden(h)
           \/ f = "anonima" /\ Contesta(h, "FAIL")     \* the catch throws: fatalError
  /\ UNCHANGED <<filas, personas, otravez, reg, historia, cotas, sucesos>>

(* Is the key of the order in the table? It may not be; a query that fails  *)
(* says the same.                                                          *)
BuscaLlave(h) ==
  /\ pc[h] = "llave"
  /\ \E r \in Salidas(FallaFind) :
       /\ Cuenta(r)
       /\ \/ r = "ok" /\ Sigue(h, "mercado")
          \/ r = "vacio" /\ FallaOrden(h)
          \/ r = "io" /\ Escapa(h)
  /\ UNCHANGED <<filas, personas, otravez, reg, historia, cotas>>

(* getMercadoPublico, getOrdenCompra: the order as it is now, then the       *)
(* contractor of each of its lines.                                        *)
getMercado(h) ==
  /\ pc[h] = "mercado"
  /\ \E r \in Salidas(FallaMP) :
       /\ Cuenta(r)
       /\ \/ /\ r = "ok" /\ Ir(h, IF Items(h) = <<>> THEN "trans" ELSE "contratista")
             /\ loc' = [loc EXCEPT ![h].prov = <<>>, ![h].l = 1] /\ UNCHANGED respuesta
          \/ r = "json" /\ FallaOrden(h)
          \/ r = "fecha" /\ Contesta(h, "FAIL")
          \/ r = "io" /\ Escapa(h)
  /\ UNCHANGED <<filas, personas, otravez, reg, historia, cotas>>

Proveedor(h, id) ==
  /\ loc' = [loc EXCEPT ![h].prov = Append(@, id), ![h].X_CONT = 0]
  /\ Ir(h, IF Len(loc[h].prov) + 1 < Len(Items(h)) THEN "contratista" ELSE "linea")
  /\ UNCHANGED respuesta

Rut_j(h) == RutDe[Items(h)[Len(loc[h].prov) + 1]]

(* obtenerIdContratista: look the contractor up, or draw a number and       *)
(* insert. Any exception leaves the line without one, an IOException with 0. *)
ConocidosTodos(rut) == {c[1] : c \in contratistas}          \* mutant: no RUT in the query
Conocidos(rut) == {c[1] : c \in {d \in contratistas : d[2] = rut}}

BuscaContratista(h) ==
  /\ pc[h] = "contratista"
  /\ \/ Rut_j(h) = SinRut /\ Proveedor(h, Desierto) /\ UNCHANGED sucesos
     \/ /\ Rut_j(h) # SinRut
        /\ \E r \in Salidas(FallaFind) :
             LET ids == IF r = "ok" THEN Conocidos(Rut_j(h)) ELSE {} IN
             /\ Cuenta(r)
             /\ \/ r = "io" /\ Proveedor(h, 0)
                \/ r # "io" /\ ids = {} /\ Sigue(h, "numero")
                \/ \E id \in ids : Proveedor(h, id)
  /\ UNCHANGED <<filas, personas, otravez, reg, historia, cotas>>

NumeroContratista(h) ==
  /\ pc[h] = "numero"
  /\ \E r \in Salidas({"seq", "io"}) :
       /\ Cuenta(r)
       /\ numero' = IF r = "ok" THEN Append(numero, Rut_j(h)) ELSE numero
       /\ \/ r = "io" /\ Proveedor(h, 0)
          \/ /\ r # "io" /\ Ir(h, "alta") /\ UNCHANGED respuesta
             /\ loc' = [loc EXCEPT ![h].X_CONT = IF r = "ok" THEN Len(numero) + 1 ELSE -1]
  /\ UNCHANGED <<filas, contratistas, otravez, reg, historia, cotas>>

AltaContratista(h) ==
  /\ pc[h] = "alta"
  /\ \E r \in Salidas(FallaInsert) :
       /\ Cuenta(r)
       /\ contratistas' = IF r = "ok" THEN contratistas \cup {<<loc[h].X_CONT, Rut_j(h)>>}
                          ELSE contratistas
       /\ Proveedor(h, CASE r = "io" -> 0 [] r = "npe" -> Desierto [] OTHER -> loc[h].X_CONT)
  /\ UNCHANGED <<filas, numero, otravez, reg, historia, cotas>>

-------------------------------------------------------------------------------
(* The lines of the order and their projects.                               *)
ProyectosDeOrden(h) ==                                      \* mutant: no LINEA in the query
  {f[1] : f \in {g \in idmu : \E k \in DOMAIN Items(h) : Items(h)[k] = g[2]}}
ProyectosDe(h) == {f[1] : f \in {g \in idmu : g[2] = Linea_l(h)}}

BuscaLinea(h) ==
  /\ pc[h] = "linea"
  /\ \E r \in Salidas(FallaFind) :
       LET ys == IF r = "ok" THEN ProyectosDe(h) ELSE {} IN
       /\ Cuenta(r)
       /\ \/ r = "io" /\ Escapa(h)
          \/ r # "io" /\ ys = {} /\ FallaLinea(h)
          \/ ys # {} /\ SiguienteProyecto(h, [loc[h] EXCEPT !.porVer = ys])
  /\ UNCHANGED <<filas, personas, otravez, reg, historia, cotas>>

LeeProyecto(h) ==
  /\ pc[h] = "proyecto"
  /\ \E r \in Salidas(FallaFind) :
       /\ Cuenta(r)
       /\ \/ r = "io" /\ Escapa(h)
          \/ r = "ok" /\ loc[h].X_PROY \in proy /\ Sigue(h, "respTora")
          \/ r # "io" /\ (r = "vacio" \/ loc[h].X_PROY \notin proy) /\ FallaLinea(h)
  /\ UNCHANGED <<filas, personas, otravez, reg, historia, cotas>>

(* The two rows are read before either is written; getJSONObject(0) throws   *)
(* when a row is missing.                                                  *)
HaySiempre(y) == TRUE                                       \* mutant: nobody looks
HayTora(y) == tora[y] # Sin
HayAdju(y) == adju[y].de # Sin

RespaldaTora(h) ==
  LET y == loc[h].X_PROY IN
  /\ pc[h] = "respTora"
  /\ \E r \in Salidas(FallaFind) :
       /\ Cuenta(r)
       /\ \/ r = "io" /\ Escapa(h)
          \/ /\ r = "ok" /\ HayTora(y)
             /\ Ir(h, "respAdju") /\ loc' = [loc EXCEPT ![h].resp = tora[y]]
             /\ UNCHANGED respuesta
          \/ r # "io" /\ (r = "vacio" \/ ~HayTora(y)) /\ FallaLinea(h)
  /\ solo' = [g \in Hilo |-> IF g = h THEN ~\E k \in Hilo \ {h} : EnMano(k, y)
                             ELSE solo[g] /\ ~EnMano(g, y)]
  /\ PorOtros({h}, duenio[y])
  /\ UNCHANGED <<filas, personas, otravez, reg, roto, cotas>>

RespaldaAdju(h) ==
  /\ pc[h] = "respAdju"
  /\ \E r \in Salidas(FallaFind) :
       /\ Cuenta(r)
       /\ \/ r = "io" /\ Escapa(h)
          \/ r = "ok" /\ HayAdju(loc[h].X_PROY) /\ Sigue(h, "updTora")
          \/ r # "io" /\ (r = "vacio" \/ ~HayAdju(loc[h].X_PROY)) /\ FallaLinea(h)
  /\ UNCHANGED <<filas, personas, otravez, reg, historia, cotas>>

(* An update of a row that is gone changes nothing, and is a success.       *)
EscribeTora(y, v) == tora' = IF tora[y] = Sin THEN tora ELSE [tora EXCEPT ![y] = v]

ActualizaTora(h) ==
  LET y == loc[h].X_PROY IN
  /\ pc[h] = "updTora"
  /\ \E r \in Salidas(FallaUpdate) :
       /\ Cuenta(r)
       /\ \/ /\ r = "ok" /\ EscribeTora(y, loc[h].despacho) /\ Sigue(h, "updAdju")
             /\ roto' = IF solo[h] THEN roto ELSE roto \cup {y}
          \/ r = "false" /\ FallaLinea(h) /\ UNCHANGED <<tora, roto>>
          \/ r = "io" /\ Escapa(h) /\ UNCHANGED <<tora, roto>>
  /\ UNCHANGED <<proy, idmu, adju, duenio, personas, otravez, reg, solo, ajenas, cotas>>

FallaSinVuelta(h) == Sigue(h, "oc")                         \* mutant: the answer is ignored
FallaConVuelta(h) == Sigue(h, "vuelta")

ActualizaAdju(h) ==
  LET y == loc[h].X_PROY IN
  /\ pc[h] = "updAdju"
  /\ \E r \in Salidas(FallaUpdate) :
       /\ Cuenta(r)
       /\ \/ /\ r = "ok" /\ Sigue(h, "oc")
             /\ adju' = IF adju[y].de = Sin THEN adju
                        ELSE [adju EXCEPT ![y] = [de   |-> loc[h].despacho,
                                                  cont |-> loc[h].prov[loc[h].l]]]
             /\ roto' = IF solo[h] THEN roto \ {y} ELSE roto
          \/ r = "false" /\ FallaConVuelta(h) /\ UNCHANGED <<adju, roto>>
          \/ r = "io" /\ Escapa(h) /\ roto' = roto \cup {y} /\ UNCHANGED adju
  /\ solo' = [solo EXCEPT ![h] = TRUE]
  /\ UNCHANGED <<proy, idmu, tora, duenio, personas, otravez, reg, ajenas, cotas>>

(* The data of a purchase order; its update may answer false unnoticed.     *)
UPDATEOC(h) ==
  /\ pc[h] = "oc"
  /\ \E r \in Salidas(IF Orden_i(h) \in OC THEN {"io"} ELSE {}) :
       /\ Cuenta(r)
       /\ IF r = "ok" THEN SiguienteProyecto(h, Anota(loc[h], Orden_i(h), "OK"))
          ELSE FallaLinea(h)
  /\ UNCHANGED <<filas, personas, otravez, reg, historia, cotas>>

(* ROLLBACK APPLY: the first row is written back from what was read, in     *)
(* whatever format that came; nobody looks whether it worked.              *)
Deshace(h) ==
  LET y == loc[h].X_PROY IN
  /\ pc[h] = "vuelta"
  /\ \/ EscribeTora(y, loc[h].resp) /\ FallaLinea(h) /\ UNCHANGED <<roto, sucesos>>
     \/ /\ UNCHANGED tora /\ roto' = roto \cup {y}
        /\ \/ FallaLinea(h) /\ UNCHANGED sucesos
           \/ \E r \in Salidas({"io"}) \ {"ok"} : Escapa(h) /\ Cuenta(r)
  /\ UNCHANGED <<proy, idmu, adju, duenio, personas, otravez, reg, solo, ajenas, cotas>>

(* The order is recorded, with whatever STATUS it has.                      *)
INTRANS(h) ==
  /\ pc[h] = "trans"
  /\ \E r \in Salidas(FallaInsert) :
       /\ Cuenta(r)
       /\ \/ /\ r \in {"ok", "false"} /\ Ir(h, "orden") /\ UNCHANGED respuesta
             /\ loc' = [loc EXCEPT ![h].i = @ + 1, ![h].l = 1, ![h].prov = <<>>]
          \/ r \in {"npe", "io"} /\ Escapa(h)
  /\ UNCHANGED <<filas, personas, otravez, reg, historia, cotas>>

response(h) ==
  /\ pc[h] = "responde"
  /\ Contesta(h, IF loc[h].status = 1 THEN "OK"
                 ELSE IF \E e \in loc[h].ordes_back : e[2] = "OK" THEN "IMPACT" ELSE "FAIL")
  /\ UNCHANGED <<filas, personas, otravez, reg, historia, cotas, sucesos>>

-------------------------------------------------------------------------------
(* The registration of a line, as far as these four tables go: its old      *)
(* projects are deleted row by row (IDMU, ADJU, TORA, PROY), then the rows   *)
(* of a new one are inserted (PROY, IDMU, TORA, ADJU).                       *)
Nueva(l) ==
  /\ duenio' = Append(duenio, l)
  /\ reg' = [linea |-> l, paso |-> 5, X_PROY |-> Len(duenio) + 1, viejos |-> {}]

Vieja(l, ys) ==
  /\ \E y \in ys : reg' = [linea |-> l, paso |-> 1, X_PROY |-> y, viejos |-> ys \ {y}]
  /\ UNCHANGED duenio

SiguienteVieja(l, ys) == IF ys = {} THEN Nueva(l) ELSE Vieja(l, ys)

Registra(l) ==
  /\ reg.paso = 0 /\ Suceso
  /\ SiguienteVieja(l, {f[1] : f \in {g \in idmu : g[2] = l}})
  /\ PorOtros({}, l)
  /\ UNCHANGED <<proy, idmu, tora, adju, personas, pc, loc, respuesta, otravez, solo, roto,
                 cotas>>

delFromGeo ==
  LET y == reg.X_PROY IN
  /\ reg.paso \in 1..4
  /\ idmu' = IF reg.paso = 1 THEN {f \in idmu : f[1] # y} ELSE idmu
  /\ adju' = IF reg.paso = 2 THEN [adju EXCEPT ![y] = Registrada(Sin)] ELSE adju
  /\ tora' = IF reg.paso = 3 THEN [tora EXCEPT ![y] = Sin] ELSE tora
  /\ proy' = IF reg.paso = 4 THEN proy \ {y} ELSE proy
  /\ IF reg.paso = 4 THEN SiguienteVieja(reg.linea, reg.viejos)
     ELSE reg' = [reg EXCEPT !.paso = @ + 1] /\ UNCHANGED duenio
  /\ UNCHANGED <<personas, pc, loc, respuesta, otravez, historia, cotas, sucesos>>

INFilas ==
  LET y == reg.X_PROY IN
  /\ reg.paso \in 5..8
  /\ proy' = IF reg.paso = 5 THEN proy \cup {y} ELSE proy
  /\ idmu' = IF reg.paso = 6 THEN idmu \cup {<<y, reg.linea>>} ELSE idmu
  /\ tora' = IF reg.paso = 7 THEN [tora EXCEPT ![y] = 0] ELSE tora
  /\ adju' = IF reg.paso = 8 THEN [adju EXCEPT ![y] = Registrada(0)] ELSE adju
  /\ reg' = IF reg.paso = 8 THEN Quieta ELSE [reg EXCEPT !.paso = @ + 1]
  /\ UNCHANGED <<duenio, personas, pc, loc, respuesta, otravez, historia, cotas, sucesos>>

(* The server stops and starts again: only the tables are left.             *)
Caida ==
  /\ Suceso
  /\ \E h \in Hilo : pc[h] # "libre"
  /\ pc' = [h \in Hilo |-> "libre"] /\ loc' = [h \in Hilo |-> Vacio]
  /\ respuesta' = [h \in Hilo |-> ""] /\ otravez' = [h \in Hilo |-> FALSE]
  /\ reg' = Quieta
  /\ roto' = roto \cup {loc[h].X_PROY : h \in {g \in Hilo : pc[g] \in {"updAdju", "vuelta"}}}
  /\ UNCHANGED <<filas, personas, solo, ajenas, cotas>>

-------------------------------------------------------------------------------
Paso(h) ==
  \/ processwsp(h) \/ EmpiezaOrden(h) \/ BuscaLlave(h) \/ getMercado(h)
  \/ BuscaContratista(h) \/ NumeroContratista(h) \/ AltaContratista(h)
  \/ BuscaLinea(h) \/ LeeProyecto(h) \/ RespaldaTora(h) \/ RespaldaAdju(h)
  \/ ActualizaTora(h) \/ ActualizaAdju(h) \/ UPDATEOC(h) \/ Deshace(h)
  \/ INTRANS(h) \/ response(h)

Registro == (\E l \in Registrables : Registra(l)) \/ delFromGeo \/ INFilas

Next == (\E h \in Hilo : process(h) \/ Paso(h)) \/ Registro \/ Caida

Spec == Init /\ [][Next]_vars

(* The container schedules the thread of every request it took.            *)
FairSpec == Spec /\ \A h \in Hilo : WF_vars(Paso(h))

-------------------------------------------------------------------------------
(* The two rows of a project tell of one and the same dispatch, whatever    *)
(* the registration does in between: the only exceptions are projects on    *)
(* which two threads crossed, a pair of updates was cut short, or the       *)
(* compensation of line 176 was refused.                                   *)
Coherente ==
  \A y \in X_PROYs \ roto :
    (tora[y] # Sin /\ adju[y].de # Sin
       /\ ~\E h \in Hilo : pc[h] \in {"updAdju", "vuelta"} /\ loc[h].X_PROY = y)
      => tora[y] = adju[y].de

(* STATUS OK is the truth: every line of every order has a project, and both *)
(* rows of all its projects were written by this dispatch, unless somebody  *)
(* else registered or adjudicated the line meanwhile.                       *)
OkEscrito ==
  \A h \in Hilo : pc[h] = "libre" /\ respuesta[h] = "OK" =>
    \A i \in DOMAIN loc[h].ordenes : \A k \in DOMAIN LineasDe[loc[h].ordenes[i].orden] :
      LET l  == LineasDe[loc[h].ordenes[i].orden][k]
          ys == {f[1] : f \in {g \in idmu : g[2] = l}} IN
      l \notin ajenas[h] =>
        /\ ys # {}
        /\ \A y \in ys : tora[y] = loc[h].despacho /\ adju[y].de = loc[h].despacho

(* The contractor of an adjudication has the RUT Mercado Publico gave for    *)
(* that very line, also when two threads insert one contractor at a time or *)
(* the insert fails; 0, -1 and 6730 stand for none.                        *)
ContratistaFiel ==
  \A y \in X_PROYs :
    LET c == adju[y].cont IN
    c > 0 /\ c # Desierto => c \in DOMAIN numero /\ numero[c] = RutDe[duenio[y]]

(* A row is only written by the thread that is at the line the project was   *)
(* registered for, however the saga replaces the projects meanwhile.        *)
SoloSuLinea ==
  [][\A y \in X_PROYs : reg' = reg /\ (tora'[y] # tora[y] \/ adju'[y] # adju[y]) =>
       \E h \in Hilo : EnMano(h, y) /\ duenio[y] = Linea_l(h)]_vars

(* Every call is answered, however many orders, lines and projects it has.   *)
Atendida == \A h \in Hilo : pc[h] # "libre" ~> pc[h] = "libre"

===============================================================================
