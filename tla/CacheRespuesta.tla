---------------------------- MODULE CacheRespuesta ----------------------------
(***************************************************************************)
(* The response cache of the gateway: the table of gea.framework.Cache, the *)
(* workers that look a request up in it and fill it (Controller, Response), *)
(* the daemon CacheControl and the HTTP threads that empty it.              *)
(*                                                                         *)
(* Nothing synchronizes them. The table is a HashMap behind a plain field   *)
(* that Clean sets to null and then to a new table, so each access of       *)
(* verifyCache, verifyCacheType, getACache, getOCache and setCache is a     *)
(* step that may find the field null, and an access or a put that overlaps  *)
(* the put of another worker may miss or lose entries.                      *)
(*                                                                         *)
(* A request is its hash; what an action answers is the version its data   *)
(* have in the database when its query runs.                               *)
(***************************************************************************)
EXTENDS Integers, FiniteSets

CONSTANTS
  Hilo,        \* worker threads of the websocket server
  Hash,        \* requests, as the SHA-1 the cache knows them by
  Tipo,        \* what the action answers: "A"rray, "O"bject; "N": there is no such action
  Limpiador,   \* HTTP threads that serve CLEANCACHE and Adjudicacion
  Periodo,     \* rounds of the daemon between two cleanings: 14400
  MaxVersion,  \* bound: changes of the data behind a request
  MaxFallas    \* bound: queries that fail

ASSUME CacheAssumption ==
  /\ Tipo \in [Hash -> {"A", "O", "N"}]
  /\ Periodo \in Nat \ {0} /\ MaxVersion \in Nat /\ MaxFallas \in Nat
  /\ Hash # {} /\ "cleanup" \notin Limpiador

Daemon  == "cleanup"       \* the thread of CacheControl
Limpian == Limpiador \cup {Daemon}
Vacio   == -1              \* the empty answer of a query that failed
Dato    == -1..MaxVersion

VARIABLES
  tabla,      \* entries of the table, a function from hashes to data
  nula,       \* the field table holds null
  base,       \* version of the data behind each request
  fallas,     \* queries that have failed
  pc,         \* where each worker is
  res,        \* the Request and Response in its hands
  fin,        \* what it sent last
  cruce,      \* its put overlaps another one
  pisado,     \* a Clean or the put of another worker overlapped its request
  limpia,     \* where each cleaner is
  cuenta      \* counter of the daemon

vars == <<tabla, nula, base, fallas, pc, res, fin, cruce, pisado, limpia, cuenta>>

(* letra, visto: the letter verifyCacheType, getACache or getOCache tests  *)
(* and how many accesses it has done; dato: what is to be stored.          *)
Respuesta ==
  [peticion: Hash, ruta: {"propia", "DEFAULT"}, letra: {"O", "A"}, visto: 0..2, dato: Dato]

RespuestaDe(h) ==
  [peticion |-> h, ruta |-> IF Tipo[h] = "N" THEN "DEFAULT" ELSE "propia",
   letra |-> "O", visto |-> 0, dato |-> Vacio]
SinRespuesta == RespuestaDe(CHOOSE h \in Hash : TRUE)   \* of an idle worker: any

Punto == {"libre", "verifica", "tipo1", "tipo2", "rescate", "accion", "guarda", "pone"}

(* Every error packet is lost in PacketBase.send; the one of a query that  *)
(* failed has a value of its own.                                          *)
Final == {"ninguno", "datos", "sinDatos", "error", "errorConsulta"}

TypeOK ==
  /\ \E S \in SUBSET Hash : tabla \in [S -> Dato]
  /\ nula \in BOOLEAN /\ base \in [Hash -> 0..MaxVersion] /\ fallas \in 0..MaxFallas
  /\ pc \in [Hilo -> Punto] /\ res \in [Hilo -> Respuesta] /\ fin \in [Hilo -> Final]
  /\ cruce \in [Hilo -> BOOLEAN] /\ pisado \in [Hilo -> BOOLEAN]
  /\ limpia \in [Limpian -> {"libre", "largo", "anula", "crea", "muerto"}]
  /\ cuenta \in 0..Periodo

TablaIgual == tabla                                    \* mutant: the entries stay
TablaNueva == [h \in {} |-> Vacio]                     \* new JSONObject()

Init ==
  /\ tabla = [h \in {} |-> Vacio] /\ nula = FALSE
  /\ base = [h \in Hash |-> 0] /\ fallas = 0
  /\ pc = [w \in Hilo |-> "libre"]
  /\ res = [w \in Hilo |-> SinRespuesta]
  /\ fin = [w \in Hilo |-> "ninguno"]
  /\ cruce = [w \in Hilo |-> FALSE] /\ pisado = [w \in Hilo |-> FALSE]
  /\ limpia = [l \in Limpian |-> "libre"] /\ cuenta = 0

Hallada(w)  == res[w].peticion \in DOMAIN tabla
Poniendo(w) == \E v \in Hilo \ {w} : pc[v] = "pone"

(* What table.has or table.get finds for the request of w: nothing while   *)
(* the field is null, possibly not the entry while another worker puts.    *)
Acceso(w) ==
  CASE nula -> {"npe"}
    [] ~nula /\ ~Hallada(w) -> {"falta"}
    [] ~nula /\ Hallada(w) -> IF Poniendo(w) THEN {"esta", "falta"} ELSE {"esta"}

Ir(w, punto) == pc' = [pc EXCEPT ![w] = punto]

(* The request of w is over, with this packet.                             *)
Termina(w, como) ==
  /\ Ir(w, "libre")
  /\ fin' = [fin EXCEPT ![w] = como]
  /\ res' = [res EXCEPT ![w] = SinRespuesta]
  /\ pisado' = [pisado EXCEPT ![w] = FALSE]

(* On with the same request.                                               *)
Sigue(w, punto, r) ==
  /\ Ir(w, punto)
  /\ res' = [res EXCEPT ![w] = r]
  /\ UNCHANGED <<fin, pisado>>

(* Test letter l, with no access done.                                     *)
Prueba(w, punto, l) == Sigue(w, punto, [res[w] EXCEPT !.letra = l, !.visto = 0])

(* An unchecked exception out of policie: Controller catches it and routes *)
(* the request to DEFAULT; out of DEFAULT it reaches onMessage.            *)
LanzaSiempre(w) == Sigue(w, "verifica", [res[w] EXCEPT !.ruta = "DEFAULT"])  \* mutant: no end
Lanza(w) ==
  IF res[w].ruta = "propia"
    THEN Sigue(w, "verifica", [res[w] EXCEPT !.ruta = "DEFAULT"])
    ELSE Termina(w, "error")

-----------------------------------------------------------------------------
(* A request arrives. One that names no action fails over to DEFAULT.      *)
Recibe(w) ==
  /\ pc[w] = "libre"
  /\ Ir(w, "verifica")
  /\ \E h \in Hash : res' = [res EXCEPT ![w] = RespuestaDe(h)]
  /\ fin' = [fin EXCEPT ![w] = "ninguno"]
  /\ pisado' = [pisado EXCEPT ![w] = nula \/ Poniendo(w)]
  /\ UNCHANGED <<tabla, nula, base, fallas, cruce, limpia, cuenta>>

(* policie of a route with cache: verifyCache, then sendCache or the action.*)
policie(w) ==
  /\ pc[w] = "verifica"
  /\ \E r \in Acceso(w) :
       \/ r = "esta" /\ Prueba(w, "tipo1", "O")
       \/ r = "falta" /\ Sigue(w, "accion", res[w])
       \/ r = "npe" /\ Lanza(w)
  /\ UNCHANGED <<tabla, nula, base, fallas, cruce, limpia, cuenta>>

(* What sendCache does with the answer of its two verifyCacheType, which   *)
(* ask for A and for O; with neither the packet goes without "response".   *)
ConTipoA(w, t) ==                                      \* mutant: both ask for A
  IF t = "A" THEN Prueba(w, "rescate", "A")
  ELSE IF pc[w] = "tipo1" THEN Prueba(w, "tipo2", "O") ELSE Termina(w, "sinDatos")
ConTipo(w, t) ==
  CASE pc[w] = "tipo1" /\ t = "A" -> Prueba(w, "rescate", "A")
    [] pc[w] = "tipo1" /\ t # "A" -> Prueba(w, "tipo2", "O")
    [] pc[w] = "tipo2" /\ t = "O" -> Prueba(w, "rescate", "O")
    [] pc[w] = "tipo2" /\ t # "O" -> Termina(w, "sinDatos")

OtraVista(w) == Sigue(w, pc[w], [res[w] EXCEPT !.visto = @ + 1])

(* One access of verifyCacheType: has, and then the type, for O and for A. *)
verifyCacheType(w) ==
  LET es   == Tipo[res[w].peticion] = res[w].letra
      otra == IF res[w].letra = "O" THEN Prueba(w, pc[w], "A") ELSE ConTipo(w, "N")
  IN /\ pc[w] \in {"tipo1", "tipo2"}
     /\ \E r \in Acceso(w) :
          \/ res[w].visto = 0 /\ r = "esta"  /\ OtraVista(w)
          \/ res[w].visto = 0 /\ r = "falta" /\ otra
          \/ res[w].visto > 0 /\ r = "esta"  /\ es  /\ ConTipo(w, res[w].letra)
          \/ res[w].visto > 0 /\ r = "esta"  /\ ~es /\ otra
          \/ res[w].visto > 0 /\ r = "falta" /\ Lanza(w)
          \/ r = "npe" /\ Lanza(w)
     /\ UNCHANGED <<tabla, nula, base, fallas, cruce, limpia, cuenta>>

(* One access of getACache or getOCache: has, the type, the data.          *)
getCache(w) ==
  /\ pc[w] = "rescate"
  /\ \E r \in Acceso(w) :
       \/ res[w].visto < 2 /\ r = "esta"  /\ OtraVista(w)
       \/ res[w].visto = 2 /\ r = "esta"  /\ Termina(w, "datos")
       \/ res[w].visto = 0 /\ r = "falta" /\ Termina(w, "sinDatos")
       \/ res[w].visto > 0 /\ r = "falta" /\ Lanza(w)
       \/ r = "npe" /\ Lanza(w)
  /\ UNCHANGED <<tabla, nula, base, fallas, cruce, limpia, cuenta>>

(* The action queries the database. A failed query is an empty answer, or  *)
(* an exception that ends in er403; the action of DEFAULT answers er404.   *)
accion(w) ==
  /\ pc[w] = "accion"
  /\ \/ res[w].ruta = "DEFAULT" /\ Termina(w, "error") /\ UNCHANGED fallas
     \/ /\ res[w].ruta = "propia"
        /\ Sigue(w, "guarda", [res[w] EXCEPT !.dato = base[res[w].peticion]])
        /\ UNCHANGED fallas
     \/ /\ res[w].ruta = "propia" /\ fallas < MaxFallas
        /\ \/ Sigue(w, "guarda", [res[w] EXCEPT !.dato = Vacio])
           \/ Termina(w, "errorConsulta")
        /\ fallas' = fallas + 1
  /\ UNCHANGED <<tabla, nula, base, cruce, limpia, cuenta>>

(* w begins or ends a put: all the others at work are overlapped.          *)
Pisa(w) == [v \in Hilo |-> pisado[v] \/ (v # w /\ pc[v] # "libre")]

(* SendCallback: setCache asks whether the entry is there, then the reply. *)
setCache(w) ==
  /\ pc[w] = "guarda"
  /\ \E r \in Acceso(w) :
       \/ r = "esta" /\ Termina(w, "datos") /\ UNCHANGED cruce
       \/ /\ r = "falta" /\ Ir(w, "pone")
          /\ cruce' = [v \in Hilo |-> IF v = w THEN Poniendo(w) ELSE cruce[v] \/ pc[v] = "pone"]
          /\ pisado' = Pisa(w)
          /\ UNCHANGED <<res, fin>>
       \/ r = "npe" /\ Termina(w, "error") /\ UNCHANGED cruce
  /\ UNCHANGED <<tabla, nula, base, fallas, limpia, cuenta>>

(* The put itself, which may lose entries when it overlaps another one.    *)
Con(h, d)  == [k \in DOMAIN tabla \cup {h} |-> IF k = h THEN d ELSE tabla[k]]
Solo(f, S) == [k \in S |-> f[k]]
pone(w) ==
  /\ pc[w] = "pone"
  /\ \/ nula /\ fin' = [fin EXCEPT ![w] = "error"] /\ UNCHANGED tabla
     \/ /\ ~nula /\ fin' = [fin EXCEPT ![w] = "datos"]
        /\ LET llena == Con(res[w].peticion, res[w].dato)
           IN \/ tabla' = llena
              \/ cruce[w] /\ \E S \in SUBSET DOMAIN llena : tabla' = Solo(llena, S)
  /\ Ir(w, "libre")
  /\ res' = [res EXCEPT ![w] = SinRespuesta]
  /\ cruce' = [cruce EXCEPT ![w] = FALSE]
  /\ pisado' = [Pisa(w) EXCEPT ![w] = FALSE]
  /\ UNCHANGED <<nula, base, fallas, limpia, cuenta>>

-----------------------------------------------------------------------------
(* Clean: it reports how many entries there are, which a null table does   *)
(* not know, sets the field to null and then to a new table.               *)

trabajo == <<base, fallas, pc, res, fin, cruce>>

(* A request for CLEANCACHE, or an adjudication all of whose orders passed.*)
CleanCache(l) ==
  /\ l \in Limpiador /\ limpia[l] = "libre"
  /\ limpia' = [limpia EXCEPT ![l] = "largo"]
  /\ UNCHANGED <<tabla, nula, pisado, cuenta, trabajo>>

(* A round of the daemon.                                                  *)
cleanup ==
  /\ limpia[Daemon] = "libre"
  /\ IF cuenta = Periodo
       THEN limpia' = [limpia EXCEPT ![Daemon] = "largo"] /\ UNCHANGED cuenta
       ELSE cuenta' = cuenta + 1 /\ UNCHANGED limpia
  /\ UNCHANGED <<tabla, nula, pisado, trabajo>>

(* The exception ends the HTTP call with er500, and the daemon for good.   *)
CleanLargo(l) ==
  /\ limpia[l] = "largo"
  /\ limpia' = [limpia EXCEPT ![l] = IF ~nula THEN "anula"
                                     ELSE IF l = Daemon THEN "muerto" ELSE "libre"]
  /\ UNCHANGED <<tabla, nula, pisado, cuenta, trabajo>>

CleanAnula(l) ==
  /\ limpia[l] = "anula"
  /\ limpia' = [limpia EXCEPT ![l] = "crea"]
  /\ nula' = TRUE
  /\ pisado' = [w \in Hilo |-> pc[w] # "libre"]
  /\ UNCHANGED <<tabla, cuenta, trabajo>>

CleanCreaNada(l) ==                                    \* mutant: no new table
  /\ limpia[l] = "crea"
  /\ limpia' = [limpia EXCEPT ![l] = "libre"]
  /\ cuenta' = IF l = Daemon THEN 1 ELSE cuenta
  /\ UNCHANGED <<tabla, nula, pisado, trabajo>>

(* counter = 0 after the call and counter++ after the pause.               *)
SinReinicio == cuenta + 1                              \* mutant: the reset is missing
Reinicio    == 1
CleanCrea(l) ==
  /\ limpia[l] = "crea"
  /\ limpia' = [limpia EXCEPT ![l] = "libre"]
  /\ tabla' = TablaNueva /\ nula' = FALSE
  /\ pisado' = [w \in Hilo |-> pc[w] # "libre"]
  /\ cuenta' = IF l = Daemon THEN Reinicio ELSE cuenta
  /\ UNCHANGED trabajo

(* Other systems write the tables the actions read.                        *)
CambiaDatos(h) ==
  /\ base[h] < MaxVersion
  /\ base' = [base EXCEPT ![h] = @ + 1]
  /\ UNCHANGED <<tabla, nula, fallas, pc, res, fin, cruce, pisado, limpia, cuenta>>

Paso(w) == policie(w) \/ verifyCacheType(w) \/ getCache(w) \/ accion(w) \/ setCache(w) \/ pone(w)
Clean(l) == CleanLargo(l) \/ CleanAnula(l) \/ CleanCrea(l)

Next ==
  \/ \E w \in Hilo : Recibe(w) \/ Paso(w)
  \/ \E l \in Limpian : CleanCache(l) \/ Clean(l)
  \/ cleanup
  \/ \E h \in Hash : CambiaDatos(h)

Spec == Init /\ [][Next]_vars

(* Threads run; nobody has to send requests, clean or change data.         *)
FairSpec == /\ Spec
            /\ \A w \in Hilo : WF_vars(Paso(w))
            /\ \A l \in Limpian : WF_vars(Clean(l))
            /\ WF_vars(cleanup)

-----------------------------------------------------------------------------
(* A request with an action ends without its data only when its own query  *)
(* failed, or when a Clean or the put of another worker overlapped it: the *)
(* seven accesses of verifyCache and sendCache agree with one another as   *)
(* long as nobody else touches the table.                                  *)
ErrorSoloPorCruce ==
  [][\A w \in Hilo : pc[w] # "libre" /\ fin'[w] \in {"sinDatos", "error"}
                       /\ Tipo[res[w].peticion] # "N" => pisado[w]]_vars

(* A change of the data reaches every client for good: once the data stay  *)
(* as they are the entries end up agreeing with them, those stored late    *)
(* and those of failed queries included.                                   *)
CambioVisible == <>[](nula \/ \A h \in DOMAIN tabla : tabla[h] = base[h])

(* Every request ends, whatever cleanings and other workers do to it.      *)
Atendida == \A w \in Hilo : pc[w] # "libre" ~> pc[w] = "libre"

(* The daemon cleans as long as the server runs.                           *)
DaemonVive == limpia[Daemon] # "muerto"
=============================================================================
