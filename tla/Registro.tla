------------------------------- MODULE Registro -------------------------------
(***************************************************************************)
(* The registration saga of the gateway: action mercado/set of             *)
(* ControllerMercado, the Formulario it drives for every line of a tender, *)
(* and the snapshot RollbackMP that is to undo a re-registration.          *)
(*                                                                         *)
(* One worker thread of the websocket server serves one request at a time; *)
(* every call of the ORM opens a connection of its own, which commits by   *)
(* itself, so each database call is one step and other workers run between *)
(* two of them.                                                            *)
(*                                                                         *)
(* A row is reduced to its table, the project it hangs from (X_PROY) and   *)
(* the one datum the code reads back: the key of the tender line, the      *)
(* Trew@ case file, the comuna, whether there is a geometry.               *)
(***************************************************************************)
EXTENDS Integers, Sequences, FiniteSets

CONSTANTS
  Hilo,            \* worker threads of the websocket server
  Clave,           \* tender lines: pairs <<C_ID_MERC_UNICO, LINEA>>
  Comuna,          \* comuna codes a form may carry
  ComunaConocida,  \* the ones the comuna table has
  Peticiones,      \* Peticiones[w]: the requests the client of w may send
  Fallas,          \* kinds of failure the surroundings may produce
  MaxPeticiones,   \* bound: requests received in a behaviour
  MaxFallas,       \* bound: failures in a behaviour
  MaxCaidas        \* bound: restarts of the server in a behaviour

Nulo  == 0         \* a null X_PROY, EXPETREWA; sequences start at 1
Error == -1        \* what getNextVal and creacionContratoCambioEtapa return on failure

(* What a form says, reduced to what the control flow looks at.            *)
Formulario ==
  [clave: Clave, bip: BOOLEAN, ini: BOOLEAN, comunas: Seq(Comuna),
   datos: {"completos", "incompletos", "ilegibles", "desconocidos"},
   spatial: {"bien", "malo", "ausente"}]

Peticion == [oc: BOOLEAN, formularios: Seq(Formulario)]

(* Order of the calls in RollbackMP, delFromGeo and RollbackMP.rollback.   *)
OrdenFotoSinTORA    == <<"BIP", "INI", "IDMU", "UBIC", "SPATIAL", "PROY", "ADJU">>    \* mutant
OrdenFotoSinIDMU    == <<"BIP", "INI", "UBIC", "SPATIAL", "PROY", "TORA", "ADJU">>    \* mutant
OrdenBorradoSinIDMU == <<"BIP", "INI", "SPATIAL", "UBIC", "ADJU", "TORA", "PROY">>    \* mutant
OrdenBorradoInverso == <<"PROY", "TORA", "ADJU", "UBIC", "SPATIAL", "IDMU", "INI", "BIP">>  \* mutant
OrdenFoto     == <<"BIP", "INI", "IDMU", "UBIC", "SPATIAL", "PROY", "TORA", "ADJU">>
OrdenBorrado  == <<"BIP", "INI", "IDMU", "SPATIAL", "UBIC", "ADJU", "TORA", "PROY">>
OrdenRestaura == <<"PROY", "BIP", "INI", "IDMU", "UBIC", "TORA", "ADJU", "SPATIAL">>

(* Rows. OC is SISGEOB_OC_REG, which nothing ever deletes. A row hangs from *)
(* a code that was drawn, or from Error where the draw failed, and a        *)
(* project from a case file likewise: never from a null one.                *)
Codigo == Int \ {Nulo}
Simple == {"BIP", "INI", "TORA", "ADJU", "OC"}
Fila ==
  [tabla: {"PROY"}, X_PROY: Codigo, dato: Codigo] \cup   \* dato: EXPE_X_EXPE_TREWA
  [tabla: {"IDMU"}, X_PROY: Codigo, dato: Clave] \cup
  [tabla: {"UBIC"}, X_PROY: Codigo, dato: Comuna] \cup
  [tabla: {"SPATIAL"}, X_PROY: Codigo, dato: {0, 1}] \cup   \* 1: has its geometry
  [tabla: Simple, X_PROY: Codigo, dato: {0}]

(* How a call can fail: a query that fails returns no rows, a refused      *)
(* statement false; "npe" is a connection lost before prepareStatement and *)
(* "io" the IOException of reading the connection's configuration.         *)
FallaFind   == {"vacio", "io"}
FallaDelete == {"false", "io"}
FallaInsert == {"false", "npe", "io"}
FallaSeq    == {"seq", "io"}
Falla == FallaFind \cup FallaDelete \cup FallaInsert \cup FallaSeq
           \cup {"mp", "trewa", "bandeja"}

ASSUME RegistroAssumption ==
  /\ ComunaConocida \subseteq Comuna
  /\ Peticiones \in [Hilo -> SUBSET Peticion]
  /\ Fallas \subseteq Falla
  /\ MaxPeticiones \in Nat /\ MaxFallas \in Nat /\ MaxCaidas \in Nat

VARIABLES
  db,           \* the rows in Oracle; every call commits
  duenoProy,    \* SEQ_GEO_PROYECTOS: duenoProy[x] is the line X_PROY x was drawn for
  duenoExpe,    \* Trew@: duenoExpe[e] is the line case file e was created for
  pc,           \* where each worker is
  peticion,     \* the request each worker serves
  n,            \* loop index of set: the form being processed
  retorno,      \* STATUS of the reply being built, one per request
  obj,          \* fields of _FORM: X_PROY, EXPETREWA, ROLLBACK
  lazo,         \* locals of the loops: index, projects left, rows read or to restore
  fin,          \* history: how the form ended
  antes,        \* history: rows the line had when the form looked it up
  registradas,  \* history: lines some form registered completely
  fallas, recibidas, caidas   \* counters behind the bounds

externo  == <<db, duenoProy, duenoExpe>>
local    == <<pc, peticion, n, retorno, obj, lazo>>
historia == <<fin, antes, registradas>>
cotas    == <<recibidas, caidas>>
vars     == <<externo, local, historia, fallas, cotas>>

Punto == {"libre", "datos", "formulario", "busca", "foto", "proyecto", "borra",
          "creaExp", "asigna", "genera", "INPROYECTO", "INBIP", "ININI",
          "INCODMERCADOPUB", "INUBICATION", "INTOMARAZON", "SAVEOC",
          "INADJUDICACION", "INSPATIAL", "excepcion", "rborra", "restaura",
          "siguiente"}

Status == {"", "OK", "DATA ERROR COMPLETE", "FORM LOAD ERROR", "FALLA MP"}
Final  == {"ninguno", "OK", "silencio", "rechazado", "revertido", "sinRevertir",
           "escapa", "caida"}

Objeto == [X_PROY: Int, EXPETREWA: Int, ROLLBACK: SUBSET Fila, hayRollback: BOOLEAN]
Lazo   == [i: Nat, antiguos: SUBSET Int, filas: SUBSET Fila]

ObjVacio  == [X_PROY |-> Nulo, EXPETREWA |-> Nulo, ROLLBACK |-> {}, hayRollback |-> FALSE]
LazoVacio == [i |-> 1, antiguos |-> {}, filas |-> {}]

(* The form a worker is at is one of its request, or one past the last.     *)
EnRango == \A w \in Hilo : n[w] \in 1..Len(peticion[w].formularios) + 1

(* Types, in the sense that matters here: no row is without the code it     *)
(* hangs from, whatever call failed before its insert, no loop over forms   *)
(* runs past the end, and STATUS is one of the words set writes.            *)
TypeOK ==
  /\ db \subseteq Fila
  /\ duenoProy \in Seq(Clave)
  /\ duenoExpe \in Seq(Clave)
  /\ pc \in [Hilo -> Punto]
  /\ peticion \in [Hilo -> Peticion]
  /\ n \in [Hilo -> Nat \ {0}] /\ EnRango
  /\ retorno \in [Hilo -> Status]
  /\ obj \in [Hilo -> Objeto]
  /\ lazo \in [Hilo -> Lazo]
  /\ fin \in [Hilo -> Final]
  /\ antes \in [Hilo -> SUBSET Fila]
  /\ registradas \subseteq Clave
  /\ fallas \in 0..MaxFallas
  /\ recibidas \in 0..MaxPeticiones
  /\ caidas \in 0..MaxCaidas

Init ==
  /\ db = {} /\ duenoProy = <<>> /\ duenoExpe = <<>>
  /\ pc = [w \in Hilo |-> "libre"]
  /\ peticion = [w \in Hilo |-> [oc |-> FALSE, formularios |-> <<>>]]
  /\ n = [w \in Hilo |-> 1]
  /\ retorno = [w \in Hilo |-> ""]
  /\ obj = [w \in Hilo |-> ObjVacio]
  /\ lazo = [w \in Hilo |-> LazoVacio]
  /\ fin = [w \in Hilo |-> "ninguno"]
  /\ antes = [w \in Hilo |-> {}]
  /\ registradas = {}
  /\ fallas = 0 /\ recibidas = 0 /\ caidas = 0

-----------------------------------------------------------------------------
(* Helpers.                                                                *)

Form(w) == peticion[w].formularios[n[w]]

FilasDeTabla(tabla, x) == {r \in db : r.tabla = tabla}      \* mutant: no key in the query
FilasDe(tabla, x) == {r \in db : r.tabla = tabla /\ r.X_PROY = x}

(* The outcomes of a call that may fail in the ways ks.                    *)
Salidas(ks) == {"ok"} \cup (IF fallas < MaxFallas THEN ks \cap Fallas ELSE {})
Cuenta(r)   == fallas' = IF r = "ok" THEN fallas ELSE fallas + 1

Ir(w, punto) == pc' = [pc EXCEPT ![w] = punto]

(* A line of the loop over the forms ends with this STATUS and outcome.    *)
Termina(w, status, como) ==
  /\ Ir(w, "siguiente")
  /\ retorno' = [retorno EXCEPT ![w] = status]
  /\ fin' = [fin EXCEPT ![w] = como]

(* An exception set does not catch: the request is over, nobody replies.   *)
Escapa(w) ==
  /\ Ir(w, "libre")
  /\ fin' = [fin EXCEPT ![w] = "escapa"]
  /\ UNCHANGED retorno

-----------------------------------------------------------------------------
(* set: from the request to the form.                                      *)

(* The handler of the connection hands the packet to the worker.           *)
Recibe(w) ==
  /\ pc[w] = "libre" /\ recibidas < MaxPeticiones
  /\ \E p \in Peticiones[w] : peticion' = [peticion EXCEPT ![w] = p]
  /\ Ir(w, "datos")
  /\ n' = [n EXCEPT ![w] = 1]
  /\ retorno' = [retorno EXCEPT ![w] = ""]
  /\ fin' = [fin EXCEPT ![w] = "ninguno"]
  /\ recibidas' = recibidas + 1
  /\ UNCHANGED <<externo, obj, lazo, antes, registradas, fallas, caidas>>

(* The tender or purchase order is read from Mercado Publico and mapped.   *)
(* A purchase order swallows the failure: the first form trips over the    *)
(* empty object with an exception set does not catch.                      *)
LeeMercado(w) ==
  /\ pc[w] = "datos"
  /\ \E r \in Salidas({"mp"}) :
       /\ Cuenta(r)
       /\ \/ r = "ok" /\ Ir(w, "formulario") /\ UNCHANGED <<retorno, fin>>
          \/ /\ r = "mp" /\ ~peticion[w].oc
             /\ Ir(w, "libre") /\ retorno' = [retorno EXCEPT ![w] = "FALLA MP"]
             /\ UNCHANGED fin
          \/ r = "mp" /\ peticion[w].oc /\ Escapa(w)
  /\ UNCHANGED <<externo, peticion, n, obj, lazo, antes, registradas, cotas>>

(* The loop is over: the one reply carries the STATUS left by the forms.   *)
Responde(w) ==
  /\ pc[w] = "formulario" /\ n[w] > Len(peticion[w].formularios)
  /\ Ir(w, "libre")
  /\ UNCHANGED <<externo, peticion, n, retorno, obj, lazo, historia, fallas, cotas>>

Avanza(w) ==
  /\ pc[w] = "siguiente"
  /\ Ir(w, "formulario")
  /\ n' = [n EXCEPT ![w] = @ + 1]
  /\ fin' = [fin EXCEPT ![w] = "ninguno"]
  /\ UNCHANGED <<externo, peticion, retorno, obj, lazo, antes, registradas, fallas, cotas>>

(* new Formulario and verifyAllData. A service the tables do not know, or  *)
(* whose lookup fails, is an ErrorDBDataNotExistsException set lets pass.  *)
CreaFormulario(w) ==
  /\ pc[w] = "formulario" /\ n[w] <= Len(peticion[w].formularios)
  /\ obj' = [obj EXCEPT ![w] = ObjVacio]
  /\ \E r \in Salidas(FallaFind) :
       /\ Cuenta(r)
       /\ \/ /\ r = "ok" /\ Form(w).datos = "completos"
             /\ Ir(w, "busca")
             /\ fin' = [fin EXCEPT ![w] = "ninguno"]
             /\ UNCHANGED retorno
          \/ /\ r = "ok" /\ Form(w).datos = "incompletos"
             /\ Termina(w, "DATA ERROR COMPLETE", "rechazado")
          \/ /\ r = "io" \/ (r = "ok" /\ Form(w).datos = "ilegibles")
             /\ Termina(w, "FORM LOAD ERROR", "rechazado")
          \/ /\ r = "vacio" \/ (r = "ok" /\ Form(w).datos = "desconocidos")
             /\ Escapa(w)
  /\ UNCHANGED <<externo, peticion, n, lazo, antes, registradas, cotas>>

-----------------------------------------------------------------------------
(* getTrewaaExp: find the projects the line already has and delete them,   *)
(* or create a case file.                                                  *)

Sigue(w, punto) == Ir(w, punto) /\ UNCHANGED <<retorno, fin>>
Excepcion(w)    == Sigue(w, "excepcion")
SilencioOk(w)   == Termina(w, "OK", "silencio")              \* mutant: OK by default
Silencio(w)     == Termina(w, retorno[w], "silencio")

(* Begin with project x of the ones in xs: new RollbackMP(x).              *)
Fotografia(w, xs) ==
  \E x \in xs :
    /\ Sigue(w, "foto")
    /\ obj' = [obj EXCEPT ![w].X_PROY = x]
    /\ lazo' = [lazo EXCEPT ![w] = [i |-> 1, antiguos |-> xs \ {x}, filas |-> {}]]

BuscaAntiguos(w) ==
  /\ pc[w] = "busca"
  /\ \E r \in Salidas(FallaFind) :
       LET xs == IF r # "ok" THEN {}
                 ELSE {f.X_PROY : f \in {g \in db : g.tabla = "IDMU" /\ g.dato = Form(w).clave}}
       IN /\ Cuenta(r)
          /\ antes' = [antes EXCEPT ![w] = {f \in db : f.X_PROY \in xs /\ f.tabla # "OC"}]
          /\ \/ r = "io" /\ Excepcion(w) /\ UNCHANGED <<obj, lazo>>
             \/ r # "io" /\ xs = {} /\ Sigue(w, "creaExp") /\ UNCHANGED <<obj, lazo>>
             \/ Fotografia(w, xs)
  /\ UNCHANGED <<externo, peticion, n, registradas, cotas>>

(* What toJSON keeps of the rows found: the first, but every UBIC row; the *)
(* geometry has no conversion from its column and is left out.             *)
Legible(f) == IF f.tabla = "SPATIAL" THEN [f EXCEPT !.dato = 0] ELSE f
GuardablePrimera(tabla, fs) == IF fs = {} THEN {fs} ELSE {{Legible(f)} : f \in fs}  \* mutant
Guardable(tabla, fs) ==
  IF tabla = "UBIC" \/ fs = {} THEN {fs} ELSE {{Legible(f)} : f \in fs}

(* One of the eight finds of the snapshot.                                 *)
LeeFoto(w) ==
  /\ pc[w] = "foto"
  /\ \E r \in Salidas(FallaFind) :
       LET tabla == OrdenFoto[lazo[w].i]
           fs    == IF r = "ok" THEN FilasDe(tabla, obj[w].X_PROY) ELSE {}
       IN /\ Cuenta(r)
          /\ \/ /\ r = "io" /\ Excepcion(w) /\ UNCHANGED <<obj, lazo>>
             \/ /\ r # "io" /\ lazo[w].i < Len(OrdenFoto)
                /\ \E g \in Guardable(tabla, fs) :
                     lazo' = [lazo EXCEPT ![w].i = @ + 1, ![w].filas = @ \cup g]
                /\ UNCHANGED <<pc, obj, retorno, fin>>
             \/ /\ r # "io" /\ lazo[w].i = Len(OrdenFoto)
                /\ \E g \in Guardable(tabla, fs) :
                     obj' = [obj EXCEPT ![w].ROLLBACK = lazo[w].filas \cup g,
                                        ![w].hayRollback = TRUE]
                /\ Sigue(w, "proyecto") /\ UNCHANGED lazo
  /\ UNCHANGED <<externo, peticion, n, antes, registradas, cotas>>

(* The case file comes from the old project's row; getJSONObject(0) throws *)
(* a JSONException, which set only prints, when there is none.             *)
ProyectoAntiguo(w) == FilasDe("PROY", obj[w].X_PROY)

LeeProyecto(w) ==
  /\ pc[w] = "proyecto"
  /\ \E r \in Salidas(FallaFind) :
       LET fs == IF r = "ok" THEN ProyectoAntiguo(w) ELSE {}
       IN /\ Cuenta(r)
          /\ \/ r = "io" /\ Excepcion(w) /\ UNCHANGED <<obj, lazo>>
             \/ r # "io" /\ fs = {} /\ Silencio(w) /\ UNCHANGED <<obj, lazo>>
             \/ \E f \in fs :
                  /\ obj' = [obj EXCEPT ![w].EXPETREWA = f.dato]
                  /\ lazo' = [lazo EXCEPT ![w].i = 1]
                  /\ Sigue(w, "borra")
  /\ UNCHANGED <<externo, peticion, n, antes, registradas, cotas>>

(* One table of delFromGeo: a delete that fails answers false, which nobody *)
(* looks at. After the last table X_PROY is null and the caller goes on.    *)
MismaTabla(w) == UNCHANGED lazo                                 \* mutant: the index stays
OtraTabla(w)  == lazo' = [lazo EXCEPT ![w].i = @ + 1]

delFromGeo(w, sigue, fallo) ==
  \E r \in Salidas(FallaDelete) :
    /\ Cuenta(r)
    /\ db' = IF r = "ok" THEN db \ FilasDe(OrdenBorrado[lazo[w].i], obj[w].X_PROY) ELSE db
    /\ \/ r = "io" /\ fallo /\ UNCHANGED <<obj, lazo>>
       \/ /\ r # "io" /\ lazo[w].i < Len(OrdenBorrado)
          /\ OtraTabla(w)
          /\ UNCHANGED <<pc, retorno, fin, obj>>
       \/ r # "io" /\ lazo[w].i = Len(OrdenBorrado) /\ sigue

(* The old project goes; then the next one the line had, or the new code.  *)
Borra(w) ==
  /\ pc[w] = "borra"
  /\ delFromGeo(w,
       \/ Fotografia(w, lazo[w].antiguos)
       \/ /\ lazo[w].antiguos = {} /\ Sigue(w, "genera")
          /\ obj' = [obj EXCEPT ![w].X_PROY = Nulo]
          /\ UNCHANGED lazo,
       Excepcion(w))
  /\ UNCHANGED <<duenoProy, duenoExpe, peticion, n, antes, registradas, cotas>>

(* A line not seen before: Trew@ opens a case file, or TrewaUtil answers -1.*)
CreaExpediente(w) ==
  /\ pc[w] = "creaExp"
  /\ \E r \in Salidas({"trewa"}) :
       /\ Cuenta(r)
       /\ IF r = "ok"
            THEN /\ duenoExpe' = Append(duenoExpe, Form(w).clave)
                 /\ obj' = [obj EXCEPT ![w].EXPETREWA = Len(duenoExpe) + 1]
            ELSE /\ obj' = [obj EXCEPT ![w].EXPETREWA = Error]
                 /\ UNCHANGED duenoExpe
  /\ Sigue(w, "asigna")
  /\ UNCHANGED <<db, duenoProy, peticion, n, lazo, antes, registradas, cotas>>

AsignaServicio(w) ==
  /\ pc[w] = "asigna"
  /\ \E r \in Salidas({"bandeja"}) :
       /\ Cuenta(r)
       /\ IF r = "ok" THEN Sigue(w, "genera") ELSE Excepcion(w)
  /\ UNCHANGED <<externo, peticion, n, obj, lazo, antes, registradas, cotas>>

GENERATE_X_PROYImpresa(w) ==      \* mutant: the exception of the draw is only printed
  /\ pc[w] = "genera"
  /\ \E r \in Salidas(FallaSeq) :
       /\ Cuenta(r)
       /\ duenoProy' = IF r = "ok" THEN Append(duenoProy, Form(w).clave) ELSE duenoProy
       /\ obj' = [obj EXCEPT ![w].X_PROY = CASE r = "ok"  -> Len(duenoProy) + 1
                                             [] r = "seq" -> Error
                                             [] r = "io"  -> @]
  /\ IF Form(w).spatial = "ausente" THEN Silencio(w) ELSE Sigue(w, "INPROYECTO")
  /\ UNCHANGED <<db, duenoExpe, peticion, n, lazo, antes, registradas, cotas>>

(* The next project code, then setSPATIAL, whose JSONException is printed. *)
GENERATE_X_PROY(w) ==
  /\ pc[w] = "genera"
  /\ \E r \in Salidas(FallaSeq) :
       /\ Cuenta(r)
       /\ duenoProy' = IF r = "ok" THEN Append(duenoProy, Form(w).clave) ELSE duenoProy
       /\ obj' = [obj EXCEPT ![w].X_PROY = CASE r = "ok"  -> Len(duenoProy) + 1
                                             [] r = "seq" -> Error
                                             [] r = "io"  -> @]
       /\ \/ r = "io" /\ Excepcion(w)
          \/ r # "io" /\ Form(w).spatial = "ausente" /\ Silencio(w)
          \/ r # "io" /\ Form(w).spatial # "ausente" /\ Sigue(w, "INPROYECTO")
  /\ UNCHANGED <<db, duenoExpe, peticion, n, lazo, antes, registradas, cotas>>

-----------------------------------------------------------------------------
(* The IN... calls of set, each the draw of an id for its row and an insert *)
(* that commits. A refused insert is rechazo; a lost connection is a        *)
(* NullPointerException, which set only prints.                             *)

Alta(w, fila, exito, rechazo) ==
  \E r \in Salidas(FallaInsert) :
    /\ Cuenta(r)
    /\ db' = IF r = "ok" THEN db \cup {fila} ELSE db
    /\ \/ r = "ok"    /\ exito
       \/ r = "false" /\ rechazo
       \/ r = "npe"   /\ Silencio(w)
       \/ r = "io"    /\ Excepcion(w)

FilaNueva(w, tabla, dato) == [tabla |-> tabla, X_PROY |-> obj[w].X_PROY, dato |-> dato]

INPROYECTO(w) ==
  /\ pc[w] = "INPROYECTO"
  /\ Alta(w, FilaNueva(w, "PROY", obj[w].EXPETREWA), Sigue(w, "INBIP"), Silencio(w))
  /\ UNCHANGED <<duenoProy, duenoExpe, peticion, n, obj, lazo, antes, registradas, cotas>>

INBIP(w) ==
  /\ pc[w] = "INBIP"
  /\ IF Form(w).bip
       THEN Alta(w, FilaNueva(w, "BIP", 0), Sigue(w, "ININI"), Sigue(w, "ININI"))
       ELSE Sigue(w, "ININI") /\ UNCHANGED <<db, fallas>>
  /\ UNCHANGED <<duenoProy, duenoExpe, peticion, n, obj, lazo, antes, registradas, cotas>>

ININI(w) ==
  /\ pc[w] = "ININI"
  /\ IF Form(w).ini
       THEN Alta(w, FilaNueva(w, "INI", 0), Sigue(w, "INCODMERCADOPUB"),
                 Sigue(w, "INCODMERCADOPUB"))
       ELSE Sigue(w, "INCODMERCADOPUB") /\ UNCHANGED <<db, fallas>>
  /\ UNCHANGED <<duenoProy, duenoExpe, peticion, n, obj, lazo, antes, registradas, cotas>>

INCODMERCADOPUB(w) ==
  /\ pc[w] = "INCODMERCADOPUB"
  /\ Alta(w, FilaNueva(w, "IDMU", Form(w).clave), Sigue(w, "INUBICATION"), Silencio(w))
  /\ lazo' = [lazo EXCEPT ![w].i = 1]
  /\ UNCHANGED <<duenoProy, duenoExpe, peticion, n, obj, antes, registradas, cotas>>

(* One comuna per step. A code the comuna table does not have has no row 0. *)
INUBICATION(w) ==
  LET cs   == Form(w).comunas
      otra == UNCHANGED <<pc, retorno, fin>>
  IN /\ pc[w] = "INUBICATION"
     /\ \/ /\ cs = <<>> /\ Silencio(w)
           /\ UNCHANGED <<db, lazo, fallas>>
        \/ /\ cs # <<>> /\ lazo[w].i > Len(cs) /\ Sigue(w, "INTOMARAZON")
           /\ UNCHANGED <<db, lazo, fallas>>
        \/ /\ lazo[w].i <= Len(cs)
           /\ \/ /\ cs[lazo[w].i] \notin ComunaConocida /\ Excepcion(w)
                 /\ UNCHANGED <<db, lazo, fallas>>
              \/ /\ cs[lazo[w].i] \in ComunaConocida
                 /\ \E r \in Salidas(FallaFind) \ {"ok"} : Cuenta(r)
                 /\ Excepcion(w) /\ UNCHANGED <<db, lazo>>
              \/ /\ cs[lazo[w].i] \in ComunaConocida
                 /\ Alta(w, FilaNueva(w, "UBIC", cs[lazo[w].i]), otra, otra)
                 /\ lazo' = [lazo EXCEPT ![w].i = IF pc' = pc THEN @ + 1 ELSE @]
     /\ UNCHANGED <<duenoProy, duenoExpe, peticion, n, obj, antes, registradas, cotas>>

INTOMARAZON(w) ==
  /\ pc[w] = "INTOMARAZON"
  /\ Alta(w, FilaNueva(w, "TORA", 0), Sigue(w, "SAVEOC"), Silencio(w))
  /\ UNCHANGED <<duenoProy, duenoExpe, peticion, n, obj, lazo, antes, registradas, cotas>>

SAVEOC(w) ==
  /\ pc[w] = "SAVEOC"
  /\ IF peticion[w].oc
       THEN Alta(w, FilaNueva(w, "OC", 0), Sigue(w, "INADJUDICACION"),
                 Sigue(w, "INADJUDICACION"))
       ELSE Sigue(w, "INADJUDICACION") /\ UNCHANGED <<db, fallas>>
  /\ UNCHANGED <<duenoProy, duenoExpe, peticion, n, obj, lazo, antes, registradas, cotas>>

INADJUDICACION(w) ==
  /\ pc[w] = "INADJUDICACION"
  /\ Alta(w, FilaNueva(w, "ADJU", 0), Sigue(w, "INSPATIAL"), Silencio(w))
  /\ UNCHANGED <<duenoProy, duenoExpe, peticion, n, obj, lazo, antes, registradas, cotas>>

INSPATIAL(w) ==
  /\ pc[w] = "INSPATIAL"
  /\ IF Form(w).spatial = "bien"
       THEN Alta(w, FilaNueva(w, "SPATIAL", 1), Termina(w, "OK", "OK"), Silencio(w))
       ELSE Excepcion(w) /\ UNCHANGED <<db, fallas>>
  /\ registradas' = IF fin'[w] = "OK" THEN registradas \cup {Form(w).clave} ELSE registradas
  /\ UNCHANGED <<duenoProy, duenoExpe, peticion, n, obj, lazo, antes, cotas>>

-----------------------------------------------------------------------------
(* rollback: what set does about an exception it catches. A form that had  *)
(* no project before has no RollbackMP: NullPointerException in the catch. *)

Rollback(w) ==
  /\ pc[w] = "excepcion"
  /\ \/ ~obj[w].hayRollback /\ Escapa(w) /\ UNCHANGED lazo
     \/ /\ obj[w].hayRollback /\ obj[w].X_PROY = Nulo
        /\ Termina(w, "DATA ERROR COMPLETE", "sinRevertir") /\ UNCHANGED lazo
     \/ /\ obj[w].hayRollback /\ obj[w].X_PROY # Nulo
        /\ Sigue(w, "rborra") /\ lazo' = [lazo EXCEPT ![w].i = 1]
  /\ UNCHANGED <<externo, peticion, n, obj, antes, registradas, fallas, cotas>>

FalloRollback(w) == Termina(w, "FORM LOAD ERROR", "sinRevertir")

RollbackBorra(w) ==
  /\ pc[w] = "rborra"
  /\ delFromGeo(w,
       /\ Sigue(w, "restaura")
       /\ obj' = [obj EXCEPT ![w].X_PROY = Nulo]
       /\ lazo' = [lazo EXCEPT ![w].filas = obj[w].ROLLBACK],
       FalloRollback(w))
  /\ UNCHANGED <<duenoProy, duenoExpe, peticion, n, antes, registradas, cotas>>

(* The saved rows go back table by table, whatever insert answers.         *)
Lugar(f)      == CHOOSE k \in DOMAIN OrdenRestaura : OrdenRestaura[k] = f.tabla
Primeras(fs)  == {f \in fs : \A g \in fs : Lugar(f) <= Lugar(g)}

Restaura(w) ==
  /\ pc[w] = "restaura"
  /\ \/ /\ lazo[w].filas = {} /\ Termina(w, "DATA ERROR COMPLETE", "revertido")
        /\ UNCHANGED <<db, lazo, fallas>>
     \/ \E f \in Primeras(lazo[w].filas) : \E r \in Salidas(FallaInsert) :
          /\ Cuenta(r)
          /\ db' = IF r = "ok" THEN db \cup {f} ELSE db
          /\ lazo' = [lazo EXCEPT ![w].filas = @ \ {f}]
          /\ \/ r \in {"ok", "false"} /\ UNCHANGED <<pc, retorno, fin>>
             \/ r = "npe" /\ Escapa(w)
             \/ r = "io"  /\ FalloRollback(w)
  /\ UNCHANGED <<duenoProy, duenoExpe, peticion, n, obj, antes, registradas, cotas>>

-----------------------------------------------------------------------------
(* The application server restarts: the workers lose what they were doing, *)
(* the database and Trew@ keep what was committed.                         *)
Caida ==
  /\ caidas < MaxCaidas /\ \E w \in Hilo : pc[w] # "libre"
  /\ pc' = [w \in Hilo |-> "libre"]
  /\ retorno' = [w \in Hilo |-> ""]
  /\ obj' = [w \in Hilo |-> ObjVacio]
  /\ lazo' = [w \in Hilo |-> LazoVacio]
  /\ fin' = [w \in Hilo |-> "caida"]
  /\ caidas' = caidas + 1
  /\ UNCHANGED <<externo, peticion, n, antes, registradas, fallas, recibidas>>

Paso(w) ==
  \/ LeeMercado(w) \/ Responde(w) \/ Avanza(w) \/ CreaFormulario(w)
  \/ BuscaAntiguos(w) \/ LeeFoto(w) \/ LeeProyecto(w) \/ Borra(w)
  \/ CreaExpediente(w) \/ AsignaServicio(w) \/ GENERATE_X_PROY(w)
  \/ INPROYECTO(w) \/ INBIP(w) \/ ININI(w) \/ INCODMERCADOPUB(w)
  \/ INUBICATION(w) \/ INTOMARAZON(w) \/ SAVEOC(w) \/ INADJUDICACION(w)
  \/ INSPATIAL(w) \/ Rollback(w) \/ RollbackBorra(w) \/ Restaura(w)

Next == Caida \/ \E w \in Hilo : Recibe(w) \/ Paso(w)

Spec == Init /\ [][Next]_vars

(* The pool keeps every worker running and the calls it waits for return.  *)
FairSpec == Spec /\ \A w \in Hilo : WF_vars(Paso(w))

-----------------------------------------------------------------------------
(* Properties. Which failures, restarts and shared lines a property stands  *)
(* is said by the constants of the runs that check it.                      *)

Proyectos(k) == {r.X_PROY : r \in {f \in db : f.tabla = "IDMU" /\ f.dato = k}}
Entero(x)    == \A t \in {"PROY", "IDMU", "TORA", "ADJU"} : FilasDe(t, x) # {}
EnMapa(x)    == \E f \in FilasDe("SPATIAL", x) : f.dato = 1
Ocupada(k)   == \E w \in Hilo : /\ pc[w] \notin {"libre", "datos"}
                                /\ n[w] <= Len(peticion[w].formularios)
                                /\ Form(w).clave = k

(* A reply OK is backed: some form handled so far has its project with all  *)
(* its checked rows and its geometry. STATUS survives from form to form, so *)
(* neither a later form that ends in silence nor one that is rolled back    *)
(* may take away what the OK stood for.                                     *)
OkRespaldado ==
  \A w \in Hilo : retorno[w] = "OK" =>
    \E k \in 1..n[w] :
      /\ k <= Len(peticion[w].formularios)
      /\ \E x \in Proyectos(peticion[w].formularios[k].clave) : Entero(x) /\ EnMapa(x)

(* The projects of two tender lines never hang from one Trew@ case file:    *)
(* getTrewaaExp reads the case file from the row of a project it found by   *)
(* the line, many calls before INPROYECTO writes it again.                  *)
ExpedienteExclusivo ==
  \A f, g \in {r \in db : r.tabla = "PROY"} :
    f.dato = g.dato /\ f.dato # Error => duenoProy[f.X_PROY] = duenoProy[g.X_PROY]

(* Each row of fs is of the line of some worker that is in delFromGeo.      *)
DeQuienBorra(fs) ==
  \A f \in fs : \E w \in Hilo : /\ pc[w] \in {"borra", "rborra"}
                                /\ duenoProy[f.X_PROY] = Form(w).clave

(* A row goes away only while some worker that handles its line is in       *)
(* delFromGeo: registering a line never deletes anything of another line.   *)
SoloBorraLoSuyo == [][DeQuienBorra(db \ db')]_vars

(* When rollback ends well the line has again exactly the rows it had when  *)
(* its form looked it up, without the geometry, which the snapshot cannot   *)
(* read.                                                                    *)
DeLaLinea(w) == {f \in db : f.X_PROY \in Proyectos(Form(w).clave) /\ f.tabla # "OC"}
ReversionFiel ==
  \A w \in Hilo : fin[w] = "revertido" => DeLaLinea(w) = {Legible(f) : f \in antes[w]}

(* Every row but the purchase orders, which nothing deletes, hangs from a   *)
(* project that exists, at every moment and after a restart.                *)
SinHuerfanas == \A f \in db : f.tabla # "OC" => FilasDe("PROY", f.X_PROY) # {}

(* A tender line has at most one project: set deletes the earlier ones.     *)
UnicoPorClave == \A k \in Clave : Cardinality(Proyectos(k)) <= 1

(* A line some form registered keeps a project with all its checked rows    *)
(* whatever later forms for the line bring, once they are dealt with.       *)
SinPerdida == \A k \in registradas : Ocupada(k) \/ \E x \in Proyectos(k) : Entero(x)

(* Trew@ gets one case file per line, however often the line is registered. *)
UnExpedientePorClave ==
  \A k \in Clave : Cardinality({e \in DOMAIN duenoExpe : duenoExpe[e] = k}) <= 1

(* Every request is served to its end: the loops over the forms, the old    *)
(* projects and the rows to restore end, also when a form is rolled back.   *)
Atendida == \A w \in Hilo : pc[w] = "datos" ~> pc[w] = "libre"

(* What comments and callers of the code say, and it does not do.           *)

(* RollbackMP knows new registrations (NEWREG) and Formulario.rollback has  *)
(* a branch to delete them: one that ends by an exception leaves no rows.   *)
AltaFallidaSinRastro ==
  \A w \in Hilo : fin[w] = "escapa" /\ antes[w] = {} /\ obj[w].X_PROY # Nulo =>
    {f \in db : f.X_PROY = obj[w].X_PROY} = {}

(* The front end reports a whole tender as registered when STATUS is OK.    *)
OkDeTodos ==
  \A w \in Hilo : pc[w] = "libre" /\ retorno[w] = "OK" =>
    \A k \in DOMAIN peticion[w].formularios :
      \E x \in Proyectos(peticion[w].formularios[k].clave) : Entero(x)
=============================================================================
