-------------------------------- MODULE Trazado --------------------------------
(***************************************************************************)
(* The geometry of the lines of a tender while it is drawn: SPATIAL         *)
(* (spatial.js), one per line, with its undo stack; the tools of the map    *)
(* (geomap.js); the button Sin Ubicacion (panel.js); the KML file           *)
(* (chilecompra.js); and the lock "DRAW" of $.SYNC that is to keep the      *)
(* three ways of giving a location apart.                                   *)
(*                                                                         *)
(* The page is one thread: each action is one event of it, run to its end   *)
(* or to the exception it throws. Arrays are sequences; postack counts from *)
(* 0 and is -1 when nothing is done, as in the code.                        *)
(***************************************************************************)
EXTENDS Integers, Sequences, SequencesExt

CONSTANTS
  N,           \* lines of the tender, 1..N
  MaxFiguras,  \* bound: figures made in all
  Archivos     \* KML files of the tender: the line of each placemark, 0 is none of it

ASSUME TrazadoAssumption ==
  /\ N \in Nat \ {0} /\ MaxFiguras \in Nat
  /\ \A a \in Archivos : a \in Seq(0..N) /\ a # <<>>

Lineas  == 1..N
Tipos   == {"punto", "linea"}
Origen  == {"mano", "kml", "comuna", "previa"}
Figura  == [id : 1..MaxFiguras, tipo : Tipos, de : Origen]

(* What the arrays hold: the figure, or the record of the stack it is in.   *)
Entrada == [ele : Figura, registro : BOOLEAN]
Suelta(f)   == [ele |-> f, registro |-> FALSE]
Registro(f) == [ele |-> f, registro |-> TRUE]

VARIABLES
  spatial,       \* settings of the SPATIAL of each line
  actual,        \* line on the map
  lista,         \* line whose figures are listed
  ID_BUSY,       \* owner of the lock: 1 Sin Ubicacion, 2 KML, 3 drawing, -1 nobody
  tool,          \* spatial_tool, the same in every line
  noubication,   \* Sin Ubicacion is on
  BLOCK_SPATIAL,
  clic,          \* what a click on the map does
  trazo,         \* settings.drawline: 1 with two points or more, 0 with fewer, -1 if null
  cerca,         \* zoom of 17 or more
  barra,         \* buttons shown: the tools, undo, redo
  kml,           \* line of the last placemark of the file attached, 0 without one
  leyendo,       \* a file is being read
  popup,         \* figure whose box is open, with its line, or nothing
  comunas,       \* points of comunas, with the line of their form
  ids,           \* figures made
  otra, ajena    \* history: a removal missed its figure; a lock in use was freed

mapa == <<clic, trazo, cerca>>
vars == <<spatial, actual, lista, ID_BUSY, tool, noubication, BLOCK_SPATIAL, mapa,
          barra, kml, leyendo, popup, comunas, ids, otra, ajena>>

Vacia == [punto |-> <<>>, linea |-> <<>>, stack |-> <<>>, postack |-> -1, type |-> 1]
Oculta == [tools |-> FALSE, undo |-> FALSE, redo |-> FALSE]

TypeOK ==
  /\ spatial \in [Lineas -> [punto : Seq(Entrada), linea : Seq(Entrada),
                             stack : Seq(Figura), postack : Int, type : {1, 2}]]
  /\ \A l \in Lineas : spatial[l].postack \in -2..Len(spatial[l].stack) - 1
  /\ actual \in Lineas /\ lista \in Lineas
  /\ ID_BUSY \in {-1, 1, 2, 3} /\ tool \in 1..3
  /\ noubication \in BOOLEAN /\ BLOCK_SPATIAL \in BOOLEAN
  /\ clic \in {"nada", "punto", "linea", "regla"} /\ trazo \in -1..1
  /\ cerca \in BOOLEAN /\ barra \in [tools : BOOLEAN, undo : BOOLEAN, redo : BOOLEAN]
  /\ kml \in 0..N /\ leyendo \in BOOLEAN
  /\ popup \in (Lineas \X Figura) \cup {<<>>}
  /\ comunas \subseteq Lineas \X Figura
  /\ ids \in 0..MaxFiguras
  /\ otra \in [Lineas -> BOOLEAN] /\ ajena \in BOOLEAN

-------------------------------------------------------------------------------
(* One SPATIAL.                                                            *)
Hechas(s)   == SubSeq(s.stack, 1, s.postack + 1)
ConGeom(s)  == s.punto # <<>> \/ s.linea # <<>>
Rota(s)     == \E a \in {s.punto, s.linea} : \E k \in DOMAIN a : a[k].registro

(* set_point, set_line: what could be redone is forgotten.                 *)
Pone(s, f) ==
  [s EXCEPT ![f.tipo] = Append(@, Suelta(f)),
            !.stack = IF s.postack = -2 THEN <<>> ELSE Append(Hechas(s), f),
            !.postack = @ + 1]

(* splice(indexOf(f), 1): without f, index -1 takes the last one away. Here  *)
(* indices are from 1, and indexOf is 0 when there is none.                 *)
indexOf(a, e) == SelectInSeq(a, LAMBDA x : x = e)
Donde(a, f)   == LET k == indexOf(a, Suelta(f)) IN IF k = 0 THEN Len(a) ELSE k
Saca(a, f)    == IF a = <<>> THEN a ELSE RemoveAt(a, Donde(a, f))
Acierta(a, f) == a # <<>> /\ \A j \in DOMAIN a : a[j].ele = f <=> j = Donde(a, f)

ApartaSinVuelta(s, f) ==              \* mutant: only the first splice
  LET k == indexOf(s.stack, f) IN
  IF k = 0 THEN s ELSE [s EXCEPT !.stack = RemoveAt(s.stack, k)]
(* The loop of trash and tremove: f goes to where it can be redone.        *)
Aparta(s, f) ==
  LET k == indexOf(s.stack, f)
      r == RemoveAt(s.stack, k)
      p == IF s.postack >= 0 THEN s.postack
           ELSE IF r = <<>> THEN 0 ELSE Len(r) - 1
  IN IF k = 0 THEN s
     ELSE [s EXCEPT !.stack = InsertAt(r, p + 1, f), !.postack = @ - 1]
Borra(s, f) == Aparta([s EXCEPT ![f.tipo] = Saca(@, f)], f)

undoPrimera(s) ==                     \* mutant: splice(0, 1)
  LET f == s.stack[s.postack + 1] IN
  IF s.postack < 0 THEN s
  ELSE [s EXCEPT ![f.tipo] = Tail(@), !.postack = @ - 1]
undo(s) ==
  LET f == s.stack[s.postack + 1] IN
  IF s.postack < 0 THEN s
  ELSE [s EXCEPT ![f.tipo] = Front(@), !.postack = @ - 1]

(* forward pushes the record of the stack, not its figure; below -1 it     *)
(* throws once postack is counted.                                         *)
forward(s) ==
  LET f == s.stack[s.postack + 2] IN
  IF s.postack >= Len(s.stack) - 1 THEN s
  ELSE IF s.postack = -2 THEN [s EXCEPT !.postack = -1]
  ELSE [s EXCEPT ![f.tipo] = Append(@, Registro(f)), !.postack = @ + 1]

more_undo(s)    == s.postack >= 0
more_forward(s) == s.postack < Len(s.stack) - 1

(* verify_geom: an empty line frees the lock unless it is Sin Ubicacion's.  *)
Libera(s, llave) == IF ConGeom(s) \/ llave = 1 THEN llave ELSE -1
verify_draw(b)   == IF cerca THEN b ELSE Oculta
verify_geom(s)   ==
  /\ ID_BUSY' = Libera(s, ID_BUSY)
  /\ barra' = IF ConGeom(s) THEN barra ELSE verify_draw(barra)

draw_list(l) == lista' = IF noubication THEN lista ELSE l

SYNCSinDuenio(id) == TRUE             \* mutant: whoever asks gets it
SYNC(id) == ID_BUSY \in {-1, id}
Toma(id) == SYNC(id) /\ ID_BUSY' = id

Nueva(tipo, de) == [id |-> ids + 1, tipo |-> tipo, de |-> de]

-------------------------------------------------------------------------------
(* A tender nobody has registered, or one whose lines come back drawn.      *)
Previa(l) == [id |-> l, tipo |-> "punto", de |-> "previa"]
load_data(antes) ==
  /\ spatial = [l \in Lineas |-> IF antes THEN Pone(Vacia, Previa(l)) ELSE Vacia]
  /\ ids = (IF antes THEN N ELSE 0)
  /\ ID_BUSY = (IF antes THEN 3 ELSE -1)

Init ==
  /\ \E antes \in BOOLEAN : (antes => N <= MaxFiguras) /\ load_data(antes)
  /\ actual = 1 /\ lista = 1 /\ tool = 1
  /\ noubication = FALSE /\ BLOCK_SPATIAL = FALSE
  /\ clic = "nada" /\ trazo = -1 /\ cerca = FALSE /\ barra = Oculta
  /\ kml = 0 /\ leyendo = FALSE /\ popup = <<>> /\ comunas = {}
  /\ otra = [l \in Lineas |-> FALSE] /\ ajena = FALSE

locales == <<tool, noubication, BLOCK_SPATIAL, kml, leyendo, comunas>>

-------------------------------------------------------------------------------
(* The map and its tools.                                                  *)

(* stop_line: the line begun is kept, on the line of now, if it is one.     *)
ConTrazo ==
  IF trazo < 1 THEN spatial
  ELSE [spatial EXCEPT ![actual] = Pone(@, Nueva("linea", "mano"))]
stop_line ==
  /\ trazo = 1 => ids < MaxFiguras
  /\ ids' = IF trazo = 1 THEN ids + 1 ELSE ids
SinTrazo == IF trazo # -1 \/ clic = "regla" THEN "nada" ELSE clic
Lista(cambia) == IF cambia \/ trazo = 1 THEN draw_list(actual) ELSE UNCHANGED lista

Permitido == cerca /\ ~BLOCK_SPATIAL

addMarker ==
  /\ barra.tools /\ clic # "punto" /\ Toma(3)
  /\ stop_line /\ spatial' = ConTrazo /\ Lista(FALSE)
  /\ clic' = IF Permitido THEN "punto" ELSE SinTrazo
  /\ trazo' = -1
  /\ UNCHANGED <<actual, locales, cerca, barra, popup, otra>>

addLinea ==
  /\ barra.tools /\ clic # "linea" /\ Toma(3)
  /\ stop_line /\ spatial' = ConTrazo /\ Lista(FALSE)
  /\ clic' = IF Permitido THEN "linea" ELSE SinTrazo
  /\ trazo' = IF Permitido THEN 0 ELSE -1
  /\ barra' = IF Permitido THEN [barra EXCEPT !.redo = FALSE] ELSE barra
  /\ UNCHANGED <<actual, locales, cerca, popup, otra>>

(* With a line begun the rule is null: it throws once it has the lock.      *)
regla ==
  /\ barra.tools /\ clic # "regla" /\ Toma(3)
  /\ clic' = IF trazo = -1 /\ Permitido THEN "regla" ELSE clic
  /\ UNCHANGED <<spatial, actual, lista, locales, trazo, cerca, barra, popup, ids, otra>>

pan ==
  /\ barra.tools /\ clic' = "nada"
  /\ UNCHANGED <<spatial, actual, lista, ID_BUSY, locales, trazo, cerca, barra, popup, ids, otra>>

(* The listeners of the map: they ask for no lock.                         *)
clicPunto ==
  /\ clic = "punto" /\ ids < MaxFiguras
  /\ LET s == [Pone(spatial[actual], Nueva("punto", "mano")) EXCEPT !.type = 1] IN
     /\ spatial' = [spatial EXCEPT ![actual] = s]
     /\ barra' = [barra EXCEPT !.undo = s.stack # <<>>, !.redo = FALSE]
  /\ ids' = ids + 1 /\ draw_list(actual)
  /\ UNCHANGED <<actual, ID_BUSY, locales, mapa, popup, otra>>

(* A first click leaves the line with one point: nothing to tell apart.     *)
clicLinea ==
  /\ clic = "linea" /\ trazo = 0 /\ trazo' = 1
  /\ UNCHANGED <<spatial, actual, lista, ID_BUSY, locales, clic, cerca, barra, popup, ids, otra>>

dblclick ==
  /\ trazo = 1 /\ stop_line /\ spatial' = ConTrazo /\ draw_list(actual)
  /\ trazo' = -1 /\ clic' = "nada"
  /\ UNCHANGED <<actual, ID_BUSY, locales, cerca, barra, popup, otra>>

Botones(s) == [barra EXCEPT !.undo = more_undo(s), !.redo = more_forward(s)]

undoNodes ==
  /\ barra.undo /\ SYNC(3) /\ stop_line
  /\ LET antes == ConTrazo[actual]
         s     == undo(antes)
     IN IF cerca
        THEN /\ spatial' = [spatial EXCEPT ![actual] = s]
             /\ ID_BUSY' = IF more_undo(antes) THEN Libera(s, 3) ELSE 3
             /\ barra' = Botones(s) /\ Lista(more_undo(antes))
        ELSE /\ spatial' = ConTrazo /\ ID_BUSY' = 3 /\ UNCHANGED barra /\ Lista(FALSE)
  /\ clic' = SinTrazo /\ trazo' = -1
  /\ UNCHANGED <<actual, locales, cerca, popup, otra>>

redoNodes ==
  /\ barra.redo /\ Toma(3) /\ stop_line
  /\ LET antes == ConTrazo[actual]
         s     == forward(antes)
     IN IF cerca
        THEN /\ spatial' = [spatial EXCEPT ![actual] = s]
             /\ barra' = IF antes.postack = -2 THEN barra ELSE Botones(s)
             /\ Lista(more_forward(antes) /\ antes.postack # -2)
        ELSE spatial' = ConTrazo /\ UNCHANGED barra /\ Lista(FALSE)
  /\ clic' = SinTrazo /\ trazo' = -1
  /\ UNCHANGED <<actual, locales, cerca, popup, otra>>

(* zoom_changed and verify_timeline.                                       *)
zoom_changed(c) ==
  /\ cerca' = c
  /\ LET s == spatial[actual]
         d == s.stack # <<>> /\ ID_BUSY = 3
     IN barra' = [tools |-> c /\ ~BLOCK_SPATIAL,
                  undo  |-> d /\ (barra.undo \/ more_undo(s)),
                  redo  |-> d /\ (barra.redo \/ more_forward(s))]
  /\ UNCHANGED <<spatial, actual, lista, ID_BUSY, locales, clic, trazo, popup, ids, otra>>

-------------------------------------------------------------------------------
(* The list, the boxes of the figures, the lines.                          *)

(* actual_geom: print throws at the first record it finds.                 *)
actual_geom(l) ==
  /\ actual' = l
  /\ IF Rota(spatial[l]) THEN UNCHANGED <<ID_BUSY, barra, lista>>
     ELSE verify_geom(spatial[l]) /\ draw_list(l)
  /\ UNCHANGED <<spatial, locales, mapa, popup, ids, otra>>

Listada(l, f) == \E k \in DOMAIN Hechas(spatial[l]) : Hechas(spatial[l])[k] = f
Falla(l, f)   == otra' = [otra EXCEPT ![l] = @ \/ ~Acierta(spatial[l][f.tipo], f)]

trash(f) ==
  /\ Listada(lista, f) /\ spatial[lista].type = 1 /\ ~BLOCK_SPATIAL /\ ~noubication
  /\ LET s == Borra(spatial[lista], f) IN
     /\ spatial' = [spatial EXCEPT ![lista] = s]
     /\ ID_BUSY' = Libera(s, ID_BUSY)
     /\ barra' = LET b == [barra EXCEPT !.redo = TRUE]
                 IN IF ConGeom(s) THEN b ELSE verify_draw(b)
  /\ Falla(lista, f) /\ popup' = <<>>
  /\ UNCHANGED <<actual, lista, locales, mapa, ids>>

abre(f) ==
  /\ Listada(lista, f) /\ spatial[lista].type = 1 /\ ~noubication
  /\ popup' = <<lista, f>>
  /\ UNCHANGED <<spatial, actual, lista, ID_BUSY, locales, mapa, barra, ids, otra>>

(* The box outlives its figure: undo closes none. One removal of a figure   *)
(* that is no longer listed is let through in each line (bound).           *)
tremove ==
  /\ popup # <<>> /\ ~BLOCK_SPATIAL
  /\ LET l == popup[1]
         f == popup[2]
     IN /\ Listada(l, f) \/ ~otra[l]
        /\ spatial' = [spatial EXCEPT ![l] = Borra(@, f)]
        /\ Falla(l, f) /\ draw_list(l)
  /\ barra' = [barra EXCEPT !.redo = TRUE] /\ popup' = <<>>
  /\ UNCHANGED <<actual, ID_BUSY, locales, mapa, ids>>

-------------------------------------------------------------------------------
(* Sin Ubicacion.                                                          *)
clear_check(s) == [s EXCEPT !.punto = <<>>, !.linea = <<>>, !.stack = <<>>, !.postack = -1]
set_spatial_null(v) ==
  /\ noubication' = v /\ BLOCK_SPATIAL' = v
  /\ spatial' = [l \in Lineas |-> clear_check(spatial[l])]
  /\ otra' = [l \in Lineas |-> FALSE]

activa ==
  /\ ~noubication /\ Toma(1) /\ set_spatial_null(TRUE) /\ tool' = 3
  /\ barra' = Oculta
  /\ UNCHANGED <<actual, lista, mapa, kml, leyendo, popup, comunas, ids>>

desactiva ==
  /\ noubication /\ SYNC(1) /\ ID_BUSY' = -1 /\ set_spatial_null(FALSE) /\ tool' = 1
  /\ barra' = verify_draw(barra) /\ lista' = N
  /\ UNCHANGED <<actual, mapa, kml, leyendo, popup, comunas, ids>>

(* The form of a line takes a comuna: its centroid is the location.         *)
add_comuna(l) ==
  /\ noubication /\ ids < MaxFiguras
  /\ LET f == Nueva("punto", "comuna") IN
     /\ spatial' = [spatial EXCEPT ![l] = Pone(@, f)]
     /\ comunas' = comunas \cup {<<l, f>>}
  /\ ids' = ids + 1
  /\ UNCHANGED <<actual, lista, ID_BUSY, tool, noubication, BLOCK_SPATIAL, mapa, barra,
                 kml, leyendo, popup, otra>>

remove_point(l, f) ==
  /\ <<l, f>> \in comunas /\ comunas' = comunas \ {<<l, f>>}
  /\ LET s == [spatial[l] EXCEPT !.punto = Saca(@, f)] IN
     /\ spatial' = [spatial EXCEPT ![l] = s] /\ verify_geom(s)
  /\ otra' = [otra EXCEPT ![l] = @ \/ (spatial[l].punto # <<>> /\ ~Acierta(spatial[l].punto, f))]
  /\ draw_list(l)
  /\ UNCHANGED <<actual, tool, noubication, BLOCK_SPATIAL, mapa, kml, leyendo, popup, ids>>

-------------------------------------------------------------------------------
(* The KML file.                                                           *)

(* The change of the input stops the clicks on the map before it asks.      *)
adjunta(respuesta) ==
  /\ kml = 0 /\ ~leyendo /\ SYNC(2) /\ clic' = "nada"
  /\ ID_BUSY' = IF respuesta = "cancela" THEN ID_BUSY ELSE 2
  /\ leyendo' = (respuesta = "lee")
  /\ UNCHANGED <<spatial, actual, lista, tool, noubication, BLOCK_SPATIAL, trazo, cerca,
                 barra, kml, popup, comunas, ids, otra>>

(* A placemark goes to the line it names, which clear() then takes off the  *)
(* map: it throws without the line, or with a record in it.                *)
Placemark(c, l) ==
  IF c.fallo \/ l = 0 THEN [c EXCEPT !.fallo = TRUE]
  ELSE LET f == [id |-> c.ids + 1, tipo |-> "punto", de |-> "kml"]
           s == [Pone(c.spatial[l], f) EXCEPT !.type = 2]
       IN [spatial |-> [c.spatial EXCEPT ![l] = s], ids |-> f.id,
           lista |-> IF noubication THEN lista ELSE l, fallo |-> Rota(s)]
Carga(a) ==
  LET c[k \in 0..Len(a)] ==
        IF k = 0 THEN [spatial |-> spatial, ids |-> ids, lista |-> lista, fallo |-> FALSE]
        ELSE Placemark(c[k - 1], a[k])
  IN c[Len(a)]

onload(a) ==
  /\ leyendo /\ leyendo' = FALSE /\ tool' = 2 /\ ids + Len(a) <= MaxFiguras
  /\ LET c == Carga(a)
         s == c.spatial[1]
     IN /\ spatial' = c.spatial /\ ids' = c.ids
        /\ actual' = IF c.fallo THEN actual ELSE 1
        /\ IF c.fallo \/ Rota(s)
           THEN lista' = c.lista /\ UNCHANGED <<ID_BUSY, kml, BLOCK_SPATIAL, barra>>
           ELSE /\ draw_list(1) /\ ID_BUSY' = Libera(s, ID_BUSY)
                /\ kml' = Last(a) /\ BLOCK_SPATIAL' = TRUE /\ barra' = Oculta
  /\ UNCHANGED <<noubication, mapa, popup, comunas, otra>>

(* The name in the file is not the code of the tender.                     *)
onloadOtro ==
  /\ leyendo /\ leyendo' = FALSE /\ tool' = 1
  /\ UNCHANGED <<spatial, actual, lista, ID_BUSY, noubication, BLOCK_SPATIAL, mapa, barra,
                 kml, popup, comunas, ids, otra>>

(* The trash of the file clears the line of its last placemark only, and    *)
(* frees the lock whoever has it.                                          *)
borraKml ==
  /\ kml # 0 /\ kml' = 0 /\ tool' = 1 /\ popup' = <<>>
  /\ spatial' = [spatial EXCEPT ![kml] = clear_check(@)]
  /\ otra' = [otra EXCEPT ![kml] = FALSE]
  /\ barra' = verify_draw(barra) /\ ID_BUSY' = -1 /\ BLOCK_SPATIAL' = FALSE
  /\ draw_list(kml)
  /\ UNCHANGED <<actual, noubication, mapa, leyendo, comunas, ids>>

(* finish asks verify_geom of every line before it sends them.             *)
verify_all_info ==
  /\ \E l \in Lineas : ~ConGeom(spatial[l])
  /\ ID_BUSY' = (IF ID_BUSY = 1 THEN 1 ELSE -1) /\ barra' = verify_draw(barra)
  /\ UNCHANGED <<spatial, actual, lista, locales, mapa, popup, ids, otra>>

-------------------------------------------------------------------------------
EnUso ==
  \/ noubication \/ kml # 0 \/ leyendo
  \/ clic \in {"punto", "linea"} \/ trazo # -1
  \/ \E l \in Lineas : ConGeom(spatial[l])

Listadas == {Hechas(spatial[lista])[k] : k \in DOMAIN Hechas(spatial[lista])}

Herramienta == addMarker \/ addLinea \/ regla \/ pan \/ undoNodes \/ redoNodes
Mapa == clicPunto \/ clicLinea \/ dblclick \/ \E c \in BOOLEAN : zoom_changed(c)
Panel ==
  \/ \E l \in Lineas : actual_geom(l) \/ add_comuna(l)
  \/ \E f \in Listadas : trash(f) \/ abre(f)
  \/ tremove \/ activa \/ desactiva \/ verify_all_info
  \/ \E c \in comunas : remove_point(c[1], c[2])
Kml ==
  \/ \E r \in {"cancela", "otro tipo", "lee"} : adjunta(r)
  \/ \E a \in Archivos : onload(a)
  \/ onloadOtro \/ borraKml

Next ==
  /\ Herramienta \/ Mapa \/ Panel \/ Kml
  /\ ajena' = (ajena \/ (ID_BUSY # -1 /\ ID_BUSY' = -1 /\ EnUso'))

Spec == Init /\ [][Next]_vars

-------------------------------------------------------------------------------
(* What is sent of a line (its arrays) is what its list shows (its stack up *)
(* to postack), class by class and in the same order, through any drawing,  *)
(* undo, redo and removal, but for a removal that did not find its figure   *)
(* (spatial.js:58, a splice of -1): each entry of the array has its place in *)
(* the list, places grow with the entries, and no figure of the class lacks  *)
(* an entry.                                                               *)
Refleja(a, h, t) ==
  \E pos \in [DOMAIN a -> DOMAIN h] :
    /\ \A j, k \in DOMAIN a : j < k => pos[j] < pos[k]
    /\ \A k \in DOMAIN a : a[k].ele = h[pos[k]] /\ h[pos[k]].tipo = t
    /\ \A i \in DOMAIN h : h[i].tipo = t => \E k \in DOMAIN a : pos[k] = i
EnviaLoListado ==
  \A l \in Lineas : noubication \/ otra[l] \/
    \A t \in Tipos : Refleja(spatial[l][t], Hechas(spatial[l]), t)

(* The lock does keep the three ways of locating apart, on all the lines at *)
(* once, as long as nobody frees it while something it guards is there      *)
(* (verify_geom, spatial.js:466, does so for one empty line; the trash of   *)
(* the KML, chilecompra.js:948, whoever has it). What a file left when it   *)
(* could not be read to its end is redone as a drawing.                    *)
Duenio == [mano |-> {3}, previa |-> {3}, kml |-> {2, 3}, comuna |-> {1}]
Exclusion ==
  ~ajena =>
    /\ noubication <=> ID_BUSY = 1
    /\ noubication => tool = 3
    /\ \A l \in Lineas : \A t \in Tipos : \A k \in DOMAIN spatial[l][t] :
         ID_BUSY \in Duenio[spatial[l][t][k].ele.de]
===============================================================================
