--------------------------- MODULE RegistroReversion ---------------------------
(* When no two workers register the same line and what fails throws, a line  *)
(* has at most one project, no row is left without its project, and the      *)
(* rollback of a registration puts back what there was, through every        *)
(* exception, lost connection and restart. The invariant says, for each      *)
(* point of getTrewaaExp, of the inserts and of the rollback, what the       *)
(* worker knows of the rows of its line. When besides no call fails but      *)
(* those of Mercado Publico and Trew@ and the server does not restart, a     *)
(* registered line keeps its project and its one case file.                  *)
EXTENDS RegistroAislamiento, FiniteSetTheorems

(* No two workers register the same line; a client may repeat its own.       *)
LineasSeparadas ==
  \A v, w \in Hilo : \A p \in Peticiones[v], q \in Peticiones[w] :
    \A j \in DOMAIN p.formularios, k \in DOMAIN q.formularios :
      p.formularios[j].clave = q.formularios[k].clave => v = w

(* No query fails in silence, no statement is refused, no code is -1.        *)
SoloExcepciones == Fallas \cap {"vacio", "false", "seq"} = {}

(* The rows of the projects drawn for line k.                                *)
DeLinea(D, d, k) == {r \in D : De(d, k, r.X_PROY)}

(* At most one project of the line names it, no row hangs loose, and only    *)
(* the comunas of a project take more than one row.                          *)
Cuadra(R) ==
  /\ \A r, s \in R : r.tabla = "IDMU" /\ s.tabla = "IDMU" => r.X_PROY = s.X_PROY
  /\ \A r \in R : r.tabla # "OC" => Hay(R, "PROY", r.X_PROY)
  /\ \A r, s \in R : r.tabla = s.tabla /\ r.tabla # "UBIC" /\ r.X_PROY = s.X_PROY => r = s

(* What was there of one whole project; r is what the snapshot has of it.    *)
Entera(A) ==
  /\ \A r, s \in A : /\ r.X_PROY = s.X_PROY
                     /\ r.tabla = s.tabla /\ r.tabla # "UBIC" => r = s
  /\ \A r \in A : r.tabla # "OC"
  /\ \E r \in A : r.tabla = "IDMU"
  /\ \E r \in A : r.tabla = "PROY"
Salvada(A, r) == \E s \in A : r = Legible(s)

(* Of project x the old rows are at hand: j tables of them are read.         *)
Leida(R, A, x, fs, i) ==
  /\ i \in 1..8
  /\ \A r : r \in A <=> r \in R /\ r.X_PROY = x /\ r.tabla # "OC"
  /\ \E r \in A : r.tabla = "IDMU"
  /\ \A r : r \in fs <=> \E s \in A : /\ r = Legible(s)
                                      /\ \E j \in 1..8 : j < i /\ s.tabla = OrdenFoto[j]

(* Of project x the tables before i are deleted.                             *)
Vacias(R, x, i) == \A j \in 1..8 : j < i => ~Hay(R, OrdenBorrado[j], x)

(* Part of the snapshot S is back, fs is still to come.                      *)
Vuelve(R, S, fs) ==
  /\ fs \subseteq S
  /\ \A r \in S : r \in fs \/ r \in R
  /\ \A r \in R : r.tabla # "OC" /\ (\E s \in S : s.X_PROY = r.X_PROY) => r \in S
  /\ \A r \in R : r.tabla = "IDMU" => \E s \in S : s.X_PROY = r.X_PROY

Repuesta(R, A) ==
  \A r : (r \in R /\ r.tabla # "OC" /\ \E s \in R : s.tabla = "IDMU" /\ s.X_PROY = r.X_PROY)
           <=> Salvada(A, r)

SinObra  == {"busca", "creaExp", "asigna", "genera"}
SinClave == {"creaExp", "asigna", "genera", "INPROYECTO", "INBIP", "ININI", "INCODMERCADOPUB"}

(* What a worker at p with fields o, locals l and the rows A it found knows  *)
(* of the rows R of its line.                                                *)
Sabe(R, o, l, p, A) ==
  /\ p \in SinClave => \A r \in R : r.tabla # "IDMU"
  /\ p \in ConProyecto \cup {"excepcion"} /\ o.X_PROY # Nulo =>
       \A r \in R : r.tabla = "IDMU" => r.X_PROY = o.X_PROY
  /\ p \in ConAntiguos => l.antiguos = {}
  /\ p = "INPROYECTO" => \A r \in R : r.X_PROY # o.X_PROY
  /\ p \in TrasPROY => Hay(R, "PROY", o.X_PROY) /\ ~Hay(R, "SPATIAL", o.X_PROY)
  /\ p \in {"borra", "rborra"} =>
       l.i \in 1..8 /\ Vacias(R, o.X_PROY, l.i)
  /\ p = "foto" => Leida(R, A, o.X_PROY, l.filas, l.i)
  /\ p \in SinObra => o.X_PROY = Nulo
  /\ p \in {"busca", "foto"} => ~o.hayRollback
  /\ o.hayRollback =>
       /\ Entera(o.ROLLBACK) /\ \A r : r \in o.ROLLBACK <=> Salvada(A, r)
       /\ p \in Dentro \ {"restaura"} =>
            \A r \in R, s \in o.ROLLBACK :
              r.tabla # "OC" /\ r.X_PROY = s.X_PROY => r.X_PROY = o.X_PROY
  /\ p \in {"rborra", "restaura"} => o.hayRollback
  /\ p = "restaura" => Vuelve(R, o.ROLLBACK, l.filas)

Activo   == Dentro \cup {"siguiente"}
Filas(w) == DeLinea(db, duenoProy, Form(w).clave)

InvCuadra == \A k \in Clave : Cuadra(DeLinea(db, duenoProy, k))
InvSabe   == \A w \in Hilo : pc[w] \in Activo => Sabe(Filas(w), obj[w], lazo[w], pc[w], antes[w])
InvFin    == \A w \in Hilo : fin[w] = "revertido" =>
                               pc[w] = "siguiente" /\ Repuesta(Filas(w), antes[w])
VInv      == IInv /\ InvPedido /\ InvCuadra /\ InvSabe /\ InvFin
-----------------------------------------------------------------------------
(* Rows and the tables they are of.                                          *)

TablasProyecto == {"PROY", "IDMU", "UBIC", "SPATIAL", "BIP", "INI", "TORA", "ADJU"}

LEMMA FilaTabla ==
  ASSUME NEW f \in Fila
  PROVE  /\ f.tabla # "OC" => f.tabla \in TablasProyecto
         /\ f.tabla \in Simple => f.dato = 0
BY DEF Fila, Simple, TablasProyecto

LEMMA FilaIgual ==
  ASSUME NEW f \in Fila, NEW g \in Fila,
         f.tabla = g.tabla, f.X_PROY = g.X_PROY, f.dato = g.dato
  PROVE  f = g
<1>1. \A r \in Fila : r = [tabla |-> r.tabla, X_PROY |-> r.X_PROY, dato |-> r.dato]
  BY DEF Fila
<1> QED BY <1>1

LEMMA Ordenes ==
  /\ \A t \in TablasProyecto : /\ \E j \in 1..8 : OrdenBorrado[j] = t
                               /\ \E j \in 1..8 : OrdenFoto[j] = t
  /\ \A j \in 1..8 : /\ OrdenBorrado[j] \in TablasProyecto /\ OrdenFoto[j] \in TablasProyecto
                     /\ OrdenBorrado[j] = "PROY" => j = 8
  /\ Len(OrdenBorrado) = 8 /\ Len(OrdenFoto) = 8 /\ OrdenBorrado[8] = "PROY"
<1>1. \A j \in 1..8 : j \in {1, 2, 3, 4, 5, 6, 7, 8}
  OBVIOUS
<1>2. \A t \in TablasProyecto : /\ \E j \in {1, 2, 3, 4, 5, 6, 7, 8} : OrdenBorrado[j] = t
                                /\ \E j \in {1, 2, 3, 4, 5, 6, 7, 8} : OrdenFoto[j] = t
  BY DEF OrdenBorrado, OrdenFoto, TablasProyecto
<1>3. \A j \in {1, 2, 3, 4, 5, 6, 7, 8} :
        /\ OrdenBorrado[j] \in TablasProyecto /\ OrdenFoto[j] \in TablasProyecto
        /\ OrdenBorrado[j] = "PROY" => j = 8
  BY DEF OrdenBorrado, OrdenFoto, TablasProyecto
<1>4. Len(OrdenBorrado) = 8 /\ Len(OrdenFoto) = 8 /\ OrdenBorrado[8] = "PROY"
  BY DEF OrdenBorrado, OrdenFoto
<1>5. \A j \in {1, 2, 3, 4, 5, 6, 7, 8} : j \in 1..8
  OBVIOUS
<1> QED BY <1>1, <1>2, <1>3, <1>4, <1>5

LEMMA LugarProy ==
  ASSUME NEW f, f.tabla \in TablasProyecto, NEW g, g.tabla = "PROY", Lugar(f) <= Lugar(g)
  PROVE  f.tabla = "PROY"
<1>1. DOMAIN OrdenRestaura = 1..8
  BY DEF OrdenRestaura
<1>2. /\ OrdenRestaura[1] = "PROY" /\ OrdenRestaura[2] = "BIP" /\ OrdenRestaura[3] = "INI"
      /\ OrdenRestaura[4] = "IDMU" /\ OrdenRestaura[5] = "UBIC" /\ OrdenRestaura[6] = "TORA"
      /\ OrdenRestaura[7] = "ADJU" /\ OrdenRestaura[8] = "SPATIAL"
  BY DEF OrdenRestaura
<1>3. ASSUME NEW h, h.tabla \in TablasProyecto
      PROVE  Lugar(h) \in 1..8 /\ OrdenRestaura[Lugar(h)] = h.tabla
  <2>1. \E k \in 1..8 : OrdenRestaura[k] = h.tabla
    BY <1>2, <1>3 DEF TablasProyecto
  <2> QED BY <1>1, <2>1 DEF Lugar
<1>4. Lugar(g) = 1
  <2>1. Lugar(g) \in 1..8 /\ OrdenRestaura[Lugar(g)] = "PROY"
    BY <1>3 DEF TablasProyecto
  <2> QED BY <1>2, <2>1
<1>5. Lugar(f) \in 1..8 /\ OrdenRestaura[Lugar(f)] = f.tabla
  BY <1>3
<1> QED BY <1>2, <1>4, <1>5

-----------------------------------------------------------------------------
(* What happens to the rows of a line when one is added or a table deleted.  *)

LEMMA CuadraAlta ==
  ASSUME NEW R \in SUBSET Fila, Cuadra(R), NEW f \in Fila, NEW S,
         \A r : r \in S <=> r \in R \/ r = f,
         f.tabla = "IDMU" => \A r \in R : r.tabla = "IDMU" => r.X_PROY = f.X_PROY,
         f.tabla # "OC" => Hay(S, "PROY", f.X_PROY),
         f.tabla # "UBIC" => \A r \in R : r.tabla = f.tabla /\ r.X_PROY = f.X_PROY => r = f
  PROVE  Cuadra(S)
<1>1. \A r, s \in S : r.tabla = "IDMU" /\ s.tabla = "IDMU" => r.X_PROY = s.X_PROY
  BY DEF Cuadra
<1>2. \A r \in S : r.tabla # "OC" => Hay(S, "PROY", r.X_PROY)
  BY DEF Cuadra, Hay
<1>3. \A r, s \in S : r.tabla = s.tabla /\ r.tabla # "UBIC" /\ r.X_PROY = s.X_PROY => r = s
  BY DEF Cuadra
<1> QED BY <1>1, <1>2, <1>3 DEF Cuadra

Quita(S, R, t, x) == \A r : r \in S <=> r \in R /\ ~(r.tabla = t /\ r.X_PROY = x)
Ida(S, x)         == \A r \in S : r.X_PROY = x => r.tabla = "OC"

LEMMA CuadraBaja ==
  ASSUME NEW R \in SUBSET Fila, Cuadra(R), NEW x, NEW i \in 1..8, NEW S,
         Vacias(R, x, i), Quita(S, R, OrdenBorrado[i], x)
  PROVE  Cuadra(S) /\ Vacias(S, x, i + 1) /\ (i = 8 => Ida(S, x))
<1>0. \A r : r \in S <=> r \in R /\ ~(r.tabla = OrdenBorrado[i] /\ r.X_PROY = x)
  BY DEF Quita
<1>1. \A j \in 1..8 : j <= i => ~Hay(S, OrdenBorrado[j], x)
  <2> SUFFICES ASSUME NEW j \in 1..8, j <= i, NEW r \in S,
                      r.tabla = OrdenBorrado[j], r.X_PROY = x
               PROVE  FALSE
    BY DEF Hay
  <2>1. r \in R /\ j # i
    BY <1>0
  <2>2. j < i
    BY <2>1
  <2> QED BY <2>1, <2>2 DEF Hay, Vacias
<1>2. i = 8 => \A r \in S : r.X_PROY = x => r.tabla = "OC"
  <2> SUFFICES ASSUME i = 8, NEW r \in S, r.X_PROY = x, r.tabla # "OC" PROVE FALSE
    OBVIOUS
  <2>1. PICK j \in 1..8 : OrdenBorrado[j] = r.tabla
    BY <1>0, FilaTabla, Ordenes
  <2> QED BY <1>1, <2>1 DEF Hay
<1>3. ASSUME NEW r \in S, r.tabla # "OC" PROVE Hay(S, "PROY", r.X_PROY)
  <2>1. PICK s \in R : s.tabla = "PROY" /\ s.X_PROY = r.X_PROY
    BY <1>0, <1>3 DEF Cuadra, Hay
  <2>2. CASE s \in S
    BY <2>1, <2>2 DEF Hay
  <2>3. CASE s \notin S
    <3>1. OrdenBorrado[i] = "PROY" /\ r.X_PROY = x
      BY <1>0, <2>1, <2>3
    <3> QED BY <1>2, <1>3, <3>1, Ordenes
  <2> QED BY <2>2, <2>3
<1>4. Vacias(S, x, i + 1)
  BY <1>1 DEF Vacias
<1> QED BY <1>0, <1>2, <1>3, <1>4 DEF Cuadra, Ida
-----------------------------------------------------------------------------
(* What a step of w has to leave behind of the rows of its line.             *)

Nuevas(w) == DeLinea(db', duenoProy, Form(w).clave)

Queda(w) ==
  /\ pc[w] \in Dentro => Cuadra(Nuevas(w))
  /\ pc'[w] \in Activo => Sabe(Nuevas(w), obj'[w], lazo'[w], pc'[w], antes'[w])

(* From p to q nothing new has to be known.                                  *)
Cede(p, q) ==
  /\ q \in SinObra => p \in SinObra
  /\ q \in SinClave => p \in SinClave
  /\ q \in ConProyecto \cup {"excepcion"} => p \in ConProyecto \cup SinClave \cup {"excepcion"}
  /\ q \in ConAntiguos => p \in ConAntiguos
  /\ q \in Dentro => p \in Dentro \ {"restaura"}
  /\ q \notin {"INPROYECTO", "borra", "rborra", "foto", "busca", "restaura"}

LEMMA SabeAlta ==
  ASSUME NEW R, NEW o, NEW l, NEW p, NEW A, Sabe(R, o, l, p, A),
         NEW q, Cede(p, q), NEW m, m.antiguos = l.antiguos,
         NEW S, R \subseteq S,
         \A r \in S : \/ r \in R
                      \/ /\ r.X_PROY = o.X_PROY
                         /\ q \in SinClave => r.tabla # "IDMU"
                         /\ q \in TrasPROY => r.tabla # "SPATIAL",
         q \in TrasPROY => p \in TrasPROY \/ (p = "INPROYECTO" /\ Hay(S, "PROY", o.X_PROY))
  PROVE  Sabe(S, o, m, q, A)
<1>1. q \in SinClave => \A r \in S : r.tabla # "IDMU"
  BY DEF Sabe, Cede
<1>2. q \in ConProyecto \cup {"excepcion"} /\ o.X_PROY # Nulo =>
        \A r \in S : r.tabla = "IDMU" => r.X_PROY = o.X_PROY
  BY DEF Sabe, Cede
<1>3. q \in ConAntiguos => m.antiguos = {}
  BY DEF Sabe, Cede
<1>4. q \in TrasPROY => Hay(S, "PROY", o.X_PROY) /\ ~Hay(S, "SPATIAL", o.X_PROY)
  <2>1. \A t : Hay(R, t, o.X_PROY) => Hay(S, t, o.X_PROY)
    BY DEF Hay
  <2>2. q \in TrasPROY => ~Hay(R, "SPATIAL", o.X_PROY)
    BY DEF Sabe, Hay
  <2>3. q \in TrasPROY => Hay(S, "PROY", o.X_PROY)
    BY <2>1 DEF Sabe
  <2> QED BY <2>2, <2>3 DEF Hay
<1>5. o.hayRollback =>
        /\ Entera(o.ROLLBACK) /\ \A r : r \in o.ROLLBACK <=> Salvada(A, r)
        /\ q \in Dentro \ {"restaura"} =>
             \A r \in S, s \in o.ROLLBACK :
               r.tabla # "OC" /\ r.X_PROY = s.X_PROY => r.X_PROY = o.X_PROY
  BY DEF Sabe, Cede
<1>6. /\ q \notin {"INPROYECTO", "borra", "rborra", "foto", "busca", "restaura"}
      /\ q \in SinObra => o.X_PROY = Nulo
  BY DEF Sabe, Cede
<1> QED BY <1>1, <1>2, <1>3, <1>4, <1>5, <1>6 DEF Sabe

LEMMA Contexto ==
  ASSUME VInv, NEW w \in Hilo, pc[w] \in Activo
  PROVE  /\ Form(w).clave \in Clave
         /\ Filas(w) \in SUBSET Fila /\ Cuadra(Filas(w))
         /\ Sabe(Filas(w), obj[w], lazo[w], pc[w], antes[w])
         /\ \A r \in Filas(w) : r.tabla = "IDMU" => r.dato = Form(w).clave
         /\ \A r \in db : r.tabla = "IDMU" /\ r.dato = Form(w).clave => r \in Filas(w)
<1>1. Form(w).clave \in Clave
  BY FormTipo DEF VInv, IInv, Activo, Dentro, ConProyecto, ConExpediente, ConFilas, Formulario
<1>2. Filas(w) \in SUBSET Fila
  BY DEF VInv, IInv, TInv, TypeOK, Filas, DeLinea
<1>3. Cuadra(Filas(w))
  BY <1>1 DEF VInv, InvCuadra, Filas
<1>4. \A r \in db : r.tabla = "IDMU" => r.X_PROY \in DOMAIN duenoProy /\ r.dato = duenoProy[r.X_PROY]
  BY DEF VInv, IInv, InvDb, FilaBien
<1> QED BY <1>1, <1>2, <1>3, <1>4 DEF VInv, InvSabe, Filas, DeLinea, De

(* A step that leaves the rows and the object as they are.                   *)
LEMMA QuietoQueda ==
  ASSUME VInv, NEW w \in Hilo, pc[w] \in Activo,
         NEW q, pc' = [pc EXCEPT ![w] = q], q \in Activo => Cede(pc[w], q),
         q \in TrasPROY => pc[w] \in TrasPROY,
         UNCHANGED <<db, duenoProy, obj, antes>>, lazo'[w].antiguos = lazo[w].antiguos
  PROVE  Queda(w)
<1>1. Nuevas(w) = Filas(w)
  BY DEF Nuevas, Filas
<1>2. pc'[w] = q
  BY DEF VInv, IInv, TInv, TypeOK
<1>3. Cuadra(Filas(w)) /\ Sabe(Filas(w), obj[w], lazo[w], pc[w], antes[w])
  BY Contexto
<1>4. q \in Activo => Sabe(Filas(w), obj[w], lazo'[w], q, antes[w])
  BY <1>3, SabeAlta
<1> QED BY <1>1, <1>2, <1>3, <1>4 DEF Queda

(* The inserts of set: f is the row, which may also not come in.             *)
LEMMA AltaQueda ==
  ASSUME VInv, NEW w \in Hilo, pc[w] \in ConProyecto,
         NEW q, pc' = [pc EXCEPT ![w] = q], q \in Activo => Cede(pc[w], q),
         UNCHANGED <<duenoProy, obj, antes>>, lazo'[w].antiguos = lazo[w].antiguos,
         NEW f \in Fila, db' = db \/ db' = db \cup {f}, f.X_PROY = obj[w].X_PROY,
         f.tabla = "PROY" => pc[w] = "INPROYECTO",
         f.tabla # "PROY" => pc[w] \in TrasPROY,
         q \in TrasPROY /\ pc[w] = "INPROYECTO" => f.tabla = "PROY" /\ f \in db',
         q \in TrasPROY => pc[w] \in TrasPROY \cup {"INPROYECTO"},
         f.tabla = "SPATIAL" => q \notin TrasPROY,
         f.tabla = "IDMU" => pc[w] \in SinClave /\ q \notin SinClave,
         f.tabla \in {"IDMU", "PROY", "UBIC", "SPATIAL"} \cup Simple
  PROVE  Queda(w)
<1> DEFINE R == Filas(w)
           S == Nuevas(w)
           x == obj[w].X_PROY
<1>0. pc[w] \in Dentro /\ pc[w] \in Activo /\ pc'[w] = q
  BY DEF VInv, IInv, TInv, TypeOK, Dentro, Activo
<1>1. /\ R \in SUBSET Fila /\ Cuadra(R) /\ Sabe(R, obj[w], lazo[w], pc[w], antes[w])
  BY <1>0, Contexto
<1>2. De(duenoProy, Form(w).clave, x)
  BY <1>0 DEF VInv, IInv, InvHilo, SanoEn, Sano
<1>3. \/ S = R /\ db' = db
      \/ /\ \A r : r \in S <=> r \in R \/ r = f
         /\ f \in db'
  BY <1>2 DEF Nuevas, Filas, DeLinea
<1> HIDE DEF R, S
<1>4. pc[w] = "INPROYECTO" => \A r \in R : r.X_PROY # x
  BY <1>1 DEF Sabe
<1>5. pc[w] \in TrasPROY => Hay(R, "PROY", x) /\ ~Hay(R, "SPATIAL", x)
  BY <1>1 DEF Sabe
<1>6. pc[w] \in SinClave => \A r \in R : r.tabla # "IDMU"
  BY <1>1 DEF Sabe
<1>7. Cuadra(S)
  <2>1. CASE S = R
    BY <1>1, <2>1
  <2>2. CASE \A r : r \in S <=> r \in R \/ r = f
    <3>1. f.tabla = "IDMU" => \A r \in R : r.tabla = "IDMU" => r.X_PROY = f.X_PROY
      BY <1>6
    <3>2. f.tabla # "OC" => Hay(S, "PROY", f.X_PROY)
      <4>1. f.tabla = "PROY" => Hay(S, "PROY", f.X_PROY)
        BY <2>2 DEF Hay
      <4>2. f.tabla # "PROY" => Hay(S, "PROY", f.X_PROY)
        BY <1>5, <2>2 DEF Hay
      <4> QED BY <4>1, <4>2
    <3>3. f.tabla # "UBIC" => \A r \in R : r.tabla = f.tabla /\ r.X_PROY = f.X_PROY => r = f
      <4>1. f.tabla = "PROY" => \A r \in R : r.X_PROY # f.X_PROY
        BY <1>4
      <4>2. f.tabla = "SPATIAL" => \A r \in R : r.tabla = f.tabla => r.X_PROY # f.X_PROY
        BY <1>5 DEF Hay
      <4>3. f.tabla = "IDMU" => \A r \in R : r.tabla # f.tabla
        BY <1>6
      <4>4. ASSUME f.tabla \in Simple, NEW r \in R, r.tabla = f.tabla, r.X_PROY = f.X_PROY
            PROVE  r = f
        <5>1. r \in Fila /\ r.dato = f.dato
          BY <1>1, <4>4, FilaTabla
        <5> QED BY <4>4, <5>1, FilaIgual
      <4> QED BY <4>1, <4>2, <4>3, <4>4
    <3> QED BY <1>1, <2>2, <3>1, <3>2, <3>3, CuadraAlta
  <2> QED BY <1>3, <2>1, <2>2
<1>8. ASSUME q \in Activo PROVE Sabe(S, obj[w], lazo'[w], q, antes[w])
  <2>1. R \subseteq S
    BY <1>3
  <2>2. q \in TrasPROY => pc[w] \in TrasPROY \/ (pc[w] = "INPROYECTO" /\ Hay(S, "PROY", x))
    <3>1. ASSUME q \in TrasPROY, pc[w] = "INPROYECTO" PROVE Hay(S, "PROY", x)
      <4>1. f \in S
        <5>1. f \in db'
          BY <3>1
        <5> QED BY <5>1, <1>2 DEF S, Nuevas, DeLinea
      <4> QED BY <3>1, <4>1 DEF Hay
    <3> QED BY <3>1
  <2>3. \A r \in S : \/ r \in R
                     \/ /\ r.X_PROY = x
                        /\ q \in SinClave => r.tabla # "IDMU"
                        /\ q \in TrasPROY => r.tabla # "SPATIAL"
    BY <1>3
  <2> QED BY <1>1, <1>8, <2>1, <2>2, <2>3, SabeAlta
<1> QED BY <1>0, <1>7, <1>8 DEF Queda, S
-----------------------------------------------------------------------------
(* The inserts.                                                              *)

LEMMA CedeSale ==
  ASSUME NEW p \in Dentro \ {"restaura"}
  PROVE  /\ p \in ConProyecto \cup SinClave => Cede(p, "excepcion")
         /\ Cede(p, "siguiente")
         /\ "libre" \notin Activo /\ "formulario" \notin Activo /\ "datos" \notin Activo
         /\ "excepcion" \notin TrasPROY /\ "siguiente" \notin TrasPROY
         /\ "excepcion" \notin SinClave /\ "siguiente" \notin SinClave
BY DEF Cede, SinObra, SinClave, ConProyecto, ConAntiguos, ConExpediente, ConFilas, Dentro, TrasPROY,
   TrasIDMU, TrasTORA, TrasADJU, Activo

LEMMA INQueda ==
  ASSUME VInv, NEW w \in Hilo, NEW a, NEW q, pc[w] = a, a \in ConProyecto \ {"foto"},
         UNCHANGED <<duenoProy, obj, antes>>, lazo'[w].antiguos = lazo[w].antiguos,
         NEW f \in Fila, f.X_PROY = obj[w].X_PROY,
         \/ pc' = [pc EXCEPT ![w] = q] /\ a # "INPROYECTO" /\ (db' = db \/ db' = db \cup {f})
         \/ pc' = [pc EXCEPT ![w] = q] /\ db' = db \cup {f}
         \/ pc' = [pc EXCEPT ![w] = "siguiente"] /\ (db' = db \/ db' = db \cup {f})
         \/ pc' = [pc EXCEPT ![w] = "excepcion"] /\ (db' = db \/ db' = db \cup {f}),
         q \in Activo => Cede(a, q),
         f.tabla = "PROY" <=> a = "INPROYECTO",
         a \in TrasPROY \cup {"INPROYECTO"},
         f.tabla = "SPATIAL" => q \notin TrasPROY,
         f.tabla = "IDMU" => a \in SinClave /\ q \notin SinClave,
         f.tabla \in {"IDMU", "PROY", "UBIC", "SPATIAL"} \cup Simple
  PROVE  Queda(w)
<1>1. a \in Dentro \ {"restaura"}
  BY DEF Dentro, ConProyecto
<1>2. /\ a \in ConProyecto \cup SinClave => Cede(a, "excepcion")
      /\ Cede(a, "siguiente")
      /\ "excepcion" \notin TrasPROY /\ "siguiente" \notin TrasPROY
      /\ "excepcion" \notin SinClave /\ "siguiente" \notin SinClave
  BY <1>1, CedeSale
<1>3. f.tabla # "PROY" => a \in TrasPROY
  OBVIOUS
<1>4. CASE pc' = [pc EXCEPT ![w] = "siguiente"] /\ (db' = db \/ db' = db \cup {f})
  BY <1>2, <1>3, <1>4, AltaQueda
<1>5. CASE pc' = [pc EXCEPT ![w] = "excepcion"] /\ (db' = db \/ db' = db \cup {f})
  BY <1>2, <1>3, <1>5, AltaQueda
<1>6. CASE pc' = [pc EXCEPT ![w] = q] /\ a # "INPROYECTO" /\ (db' = db \/ db' = db \cup {f})
  BY <1>3, <1>6, AltaQueda
<1>7. CASE pc' = [pc EXCEPT ![w] = q] /\ db' = db \cup {f}
  <2>1. f \in db'
    BY <1>7
  <2> QED BY <1>3, <1>7, <2>1, AltaQueda
<1> QED BY <1>4, <1>5, <1>6, <1>7

(* What an insert and the branches of an action come to.                     *)
LEMMA AltaSalidas ==
  ASSUME NEW w \in Hilo, NEW f, NEW q, NEW a,
         \/ Sigue(w, q) /\ db' = db /\ a # "INPROYECTO"
         \/ Alta(w, f, Sigue(w, q), Silencio(w))
         \/ Alta(w, f, Sigue(w, q), Sigue(w, q)) /\ a # "INPROYECTO"
  PROVE  \/ pc' = [pc EXCEPT ![w] = q] /\ a # "INPROYECTO" /\ (db' = db \/ db' = db \cup {f})
         \/ pc' = [pc EXCEPT ![w] = q] /\ db' = db \cup {f}
         \/ pc' = [pc EXCEPT ![w] = "siguiente"] /\ (db' = db \/ db' = db \cup {f})
         \/ pc' = [pc EXCEPT ![w] = "excepcion"] /\ (db' = db \/ db' = db \cup {f})
BY DEF Alta, Sigue, Silencio, Termina, Excepcion, Ir

LEMMA Camino ==
  /\ Cede("INPROYECTO", "INBIP") /\ Cede("INBIP", "ININI") /\ Cede("ININI", "INCODMERCADOPUB")
  /\ Cede("INCODMERCADOPUB", "INUBICATION") /\ Cede("INUBICATION", "INTOMARAZON")
  /\ Cede("INUBICATION", "INUBICATION")
  /\ Cede("INTOMARAZON", "SAVEOC") /\ Cede("SAVEOC", "INADJUDICACION")
  /\ Cede("INADJUDICACION", "INSPATIAL")
  /\ {"INBIP", "ININI", "INCODMERCADOPUB", "INUBICATION", "INTOMARAZON", "SAVEOC",
      "INADJUDICACION", "INSPATIAL"} \subseteq TrasPROY
  /\ TrasPROY \cup {"INPROYECTO"} \subseteq ConProyecto \ {"foto"}
  /\ "INUBICATION" \notin SinClave /\ "INCODMERCADOPUB" \in SinClave
BY DEF Cede, SinObra, SinClave, ConProyecto, ConAntiguos, ConExpediente, ConFilas, Dentro, TrasPROY,
   TrasIDMU, TrasTORA, TrasADJU

LEMMA INPasosQuedan ==
  ASSUME VInv, NEW w \in Hilo,
         \/ INPROYECTO(w) \/ INBIP(w) \/ ININI(w) \/ INTOMARAZON(w) \/ SAVEOC(w)
         \/ INADJUDICACION(w)
  PROVE  Queda(w)
<1>0. TInv /\ {"INPROYECTO"} \cup TrasPROY \subseteq PuntoAlta
  BY DEF VInv, IInv, PuntoAlta, TrasPROY, TrasIDMU, TrasTORA, TrasADJU
<1>1. CASE INPROYECTO(w)
  <2> DEFINE f == FilaNueva(w, "PROY", obj[w].EXPETREWA)
  <2>1. /\ f \in Fila /\ f.X_PROY = obj[w].X_PROY /\ f.tabla = "PROY"
    BY <1>0, <1>1, FilaNuevaTipo DEF FilaNueva, INPROYECTO
  <2>2. /\ pc[w] = "INPROYECTO" /\ UNCHANGED <<duenoProy, obj, antes, lazo>>
        /\ Alta(w, f, Sigue(w, "INBIP"), Silencio(w))
    BY <1>1 DEF INPROYECTO
  <2> HIDE DEF f
  <2>3. \/ pc' = [pc EXCEPT ![w] = "INBIP"] /\ db' = db \cup {f}
        \/ pc' = [pc EXCEPT ![w] = "siguiente"] /\ (db' = db \/ db' = db \cup {f})
        \/ pc' = [pc EXCEPT ![w] = "excepcion"] /\ (db' = db \/ db' = db \cup {f})
    BY <2>2, AltaSalidas
  <2> QED BY <2>1, <2>2, <2>3, Camino, INQueda
<1>2. ASSUME NEW a, NEW q, NEW t \in Simple, pc[w] = a,
             UNCHANGED <<duenoProy, obj, antes, lazo>>,
             \/ Sigue(w, q) /\ db' = db
             \/ Alta(w, FilaNueva(w, t, 0), Sigue(w, q), Silencio(w))
             \/ Alta(w, FilaNueva(w, t, 0), Sigue(w, q), Sigue(w, q)),
             a \in TrasPROY, a # "INPROYECTO", Cede(a, q)
      PROVE  Queda(w)
  <2> DEFINE f == FilaNueva(w, t, 0)
  <2>1. f \in Fila /\ f.X_PROY = obj[w].X_PROY /\ f.tabla = t /\ t \in Simple
    BY <1>0, <1>2, FilaNuevaTipo DEF FilaNueva
  <2>2. t \notin {"PROY", "SPATIAL", "IDMU"}
    BY DEF Simple
  <2> HIDE DEF f
  <2>3. \/ pc' = [pc EXCEPT ![w] = q] /\ a # "INPROYECTO" /\ (db' = db \/ db' = db \cup {f})
        \/ pc' = [pc EXCEPT ![w] = q] /\ db' = db \cup {f}
        \/ pc' = [pc EXCEPT ![w] = "siguiente"] /\ (db' = db \/ db' = db \cup {f})
        \/ pc' = [pc EXCEPT ![w] = "excepcion"] /\ (db' = db \/ db' = db \cup {f})
    <3>1. \/ Sigue(w, q) /\ db' = db /\ a # "INPROYECTO"
          \/ Alta(w, f, Sigue(w, q), Silencio(w))
          \/ Alta(w, f, Sigue(w, q), Sigue(w, q)) /\ a # "INPROYECTO"
      BY <1>2 DEF f
    <3> QED BY <3>1, AltaSalidas
  <2> QED BY <1>2, <2>1, <2>2, <2>3, Camino, INQueda
<1>3. CASE INBIP(w)
  BY <1>2, <1>3, Camino DEF INBIP, Simple
<1>4. CASE ININI(w)
  BY <1>2, <1>4, Camino DEF ININI, Simple
<1>5. CASE INTOMARAZON(w)
  BY <1>2, <1>5, Camino DEF INTOMARAZON, Simple
<1>6. CASE SAVEOC(w)
  BY <1>2, <1>6, Camino DEF SAVEOC, Simple
<1>7. CASE INADJUDICACION(w)
  BY <1>2, <1>7, Camino DEF INADJUDICACION, Simple
<1> QED BY <1>1, <1>3, <1>4, <1>5, <1>6, <1>7

LEMMA INCODMERCADOPUBQueda ==
  ASSUME VInv, NEW w \in Hilo, INCODMERCADOPUB(w)
  PROVE  Queda(w)
<1> DEFINE f == FilaNueva(w, "IDMU", Form(w).clave)
<1>1. /\ pc[w] = "INCODMERCADOPUB" /\ UNCHANGED <<duenoProy, obj, antes>>
      /\ lazo' = [lazo EXCEPT ![w].i = 1]
      /\ Alta(w, f, Sigue(w, "INUBICATION"), Silencio(w))
  BY DEF INCODMERCADOPUB
<1>2. Form(w).clave \in Clave
  BY <1>1, FormTipo DEF VInv, IInv, Formulario
<1>3. f \in Fila /\ f.X_PROY = obj[w].X_PROY /\ f.tabla = "IDMU"
  BY <1>1, <1>2, FilaNuevaTipo DEF FilaNueva, VInv, IInv, PuntoAlta
<1> HIDE DEF f
<1>4. lazo'[w].antiguos = lazo[w].antiguos
  BY <1>1, LazoCampos DEF VInv, IInv, TInv, TypeOK
<1>5. \/ pc' = [pc EXCEPT ![w] = "INUBICATION"] /\ db' = db \cup {f}
      \/ pc' = [pc EXCEPT ![w] = "INUBICATION"] /\ (db' = db \/ db' = db \cup {f})
      \/ pc' = [pc EXCEPT ![w] = "siguiente"] /\ (db' = db \/ db' = db \cup {f})
      \/ pc' = [pc EXCEPT ![w] = "excepcion"] /\ (db' = db \/ db' = db \cup {f})
  BY <1>1, AltaSalidas
<1>6. "INUBICATION" \notin SinClave /\ "INCODMERCADOPUB" \in SinClave
  BY Camino
<1> QED BY <1>1, <1>3, <1>4, <1>5, <1>6, Camino, INQueda

LEMMA INUBICATIONQueda ==
  ASSUME VInv, NEW w \in Hilo, INUBICATION(w)
  PROVE  Queda(w)
<1> DEFINE c == Form(w).comunas[lazo[w].i]
           f == FilaNueva(w, "UBIC", c)
<1>0. pc \in [Hilo -> Punto] /\ lazo \in [Hilo -> Lazo] /\ TInv
  BY DEF VInv, IInv, TInv, TypeOK
<1>1. pc[w] = "INUBICATION" /\ UNCHANGED <<duenoProy, obj, antes>>
  BY DEF INUBICATION
<1>2. UNCHANGED lazo \/ \E j : lazo' = [lazo EXCEPT ![w].i = j]
  BY DEF INUBICATION
<1>3. lazo'[w].antiguos = lazo[w].antiguos
  <2>1. ASSUME NEW j, lazo' = [lazo EXCEPT ![w].i = j]
        PROVE  lazo'[w].antiguos = lazo[w].antiguos
    BY <1>0, <2>1, LazoCampos
  <2> QED BY <1>2, <2>1
<1>4. \/ db' = db
      \/ db' = db \cup {f} /\ c \in ComunaConocida
  BY DEF INUBICATION, Alta
<1>5. \/ UNCHANGED pc
      \/ \E s \in {"INTOMARAZON", "siguiente", "excepcion"} : pc' = [pc EXCEPT ![w] = s]
  BY ZenonT(40) DEF INUBICATION, Alta, Sigue, Silencio, Termina, Excepcion, Ir
<1>6. \E s \in {"INUBICATION", "INTOMARAZON", "siguiente", "excepcion"} :
        pc' = [pc EXCEPT ![w] = s]
  BY <1>0, <1>1, <1>5
<1> HIDE DEF f, c
<1>7. PICK s \in {"INUBICATION", "INTOMARAZON", "siguiente", "excepcion"} :
        pc' = [pc EXCEPT ![w] = s]
  BY <1>6
<1>8. "INUBICATION" \in Dentro \ {"restaura"} /\ "INUBICATION" \in Activo
  BY DEF Dentro, ConProyecto, Activo
<1>9. Cede("INUBICATION", s) /\ "INUBICATION" \in TrasPROY /\ "INUBICATION" \in ConProyecto \ {"foto"}
  BY <1>8, Camino, CedeSale
<1>10. CASE db' = db
  BY <1>1, <1>3, <1>7, <1>8, <1>9, <1>10, QuietoQueda
<1>11. CASE db' = db \cup {f} /\ c \in ComunaConocida
  <2>1. f \in Fila /\ f.X_PROY = obj[w].X_PROY /\ f.tabla = "UBIC"
    <3>1. c \in Comuna
      BY <1>11, RegistroAssumption
    <3> QED BY <1>0, <1>1, <3>1, FilaNuevaTipo DEF FilaNueva, PuntoAlta, f
  <2> QED BY <1>1, <1>3, <1>7, <1>9, <1>11, <2>1, Camino, INQueda
<1> QED BY <1>4, <1>10, <1>11

LEMMA INSPATIALQueda ==
  ASSUME VInv, NEW w \in Hilo, INSPATIAL(w)
  PROVE  Queda(w)
<1> DEFINE f == FilaNueva(w, "SPATIAL", 1)
<1>1. pc[w] = "INSPATIAL" /\ UNCHANGED <<duenoProy, obj, antes, lazo>>
  BY DEF INSPATIAL
<1>2. db' = db \/ db' = db \cup {f}
  BY DEF INSPATIAL, Alta
<1>3. \E s \in {"siguiente", "excepcion"} : pc' = [pc EXCEPT ![w] = s]
  BY Zenon DEF INSPATIAL, Alta, Sigue, Silencio, Termina, Excepcion, Ir
<1>4. f \in Fila /\ f.X_PROY = obj[w].X_PROY /\ f.tabla = "SPATIAL"
  BY <1>1, FilaNuevaTipo DEF FilaNueva, VInv, IInv, PuntoAlta
<1> HIDE DEF f
<1>5. "INSPATIAL" \in TrasPROY /\ "INSPATIAL" \in Dentro \ {"restaura"}
  BY Camino DEF Dentro
<1>6. Cede("INSPATIAL", "siguiente") /\ "siguiente" \notin TrasPROY
  BY <1>5, CedeSale
<1> QED BY <1>1, <1>2, <1>3, <1>4, <1>5, <1>6, Camino, INQueda
-----------------------------------------------------------------------------
(* The search for the projects the line has, and the snapshot.               *)

(* A worker at foto took up the only project the line has.                   *)
LEMMA BuscaAntiguosQueda ==
  ASSUME SoloExcepciones, VInv, NEW w \in Hilo, BuscaAntiguos(w)
  PROVE  Queda(w)
<1> DEFINE R == Filas(w)
           k == Form(w).clave
           los == {f.X_PROY : f \in {g \in db : g.tabla = "IDMU" /\ g.dato = k}}
<1>1. /\ pc[w] = "busca" /\ UNCHANGED <<db, duenoProy, duenoExpe, peticion, n>>
  BY DEF BuscaAntiguos, externo
<1>2. \/ Excepcion(w) /\ UNCHANGED <<obj, lazo>>
      \/ los = {} /\ Sigue(w, "creaExp") /\ UNCHANGED <<obj, lazo>>
      \/ /\ Fotografia(w, los)
         /\ antes' = [antes EXCEPT ![w] = {f \in db : f.X_PROY \in los /\ f.tabla # "OC"}]
  <2>1. PICK r \in Salidas(FallaFind) :
          LET xs == IF r # "ok" THEN {} ELSE los
          IN /\ antes' = [antes EXCEPT ![w] = {f \in db : f.X_PROY \in xs /\ f.tabla # "OC"}]
             /\ \/ r = "io" /\ Excepcion(w) /\ UNCHANGED <<obj, lazo>>
                \/ r # "io" /\ xs = {} /\ Sigue(w, "creaExp") /\ UNCHANGED <<obj, lazo>>
                \/ Fotografia(w, xs)
    BY Zenon DEF BuscaAntiguos
  <2>2. r \in {"ok", "io"}
    BY DEF Salidas, FallaFind, SoloExcepciones
  <2>3. ~Fotografia(w, {})
    BY DEF Fotografia
  <2> HIDE DEF los
  <2> QED BY <2>1, <2>2, <2>3
<1>3. pc[w] \in Activo /\ pc[w] \in Dentro
  BY <1>1 DEF Activo, Dentro
<1>4. /\ R \in SUBSET Fila /\ Cuadra(R) /\ Sabe(R, obj[w], lazo[w], "busca", antes[w])
      /\ \A r \in R : r.tabla = "IDMU" => r.dato = k
      /\ \A r \in db : r.tabla = "IDMU" /\ r.dato = k => r \in R
  BY <1>1, <1>3, Contexto
<1>5. /\ pc \in [Hilo -> Punto] /\ obj \in [Hilo -> Objeto] /\ lazo \in [Hilo -> Lazo]
      /\ antes \in [Hilo -> SUBSET Fila]
  BY DEF VInv, IInv, TInv, TypeOK
<1>6. Nuevas(w) = R
  BY <1>1 DEF Nuevas, Filas
<1>7. \A r : r \in R <=> r \in db /\ De(duenoProy, k, r.X_PROY)
  BY DEF Filas, DeLinea
<1>8. \A x : x \in los <=> \E r \in R : r.tabla = "IDMU" /\ r.X_PROY = x
  BY <1>4, <1>7
<1> HIDE DEF los, R
<1>9. obj[w].X_PROY = Nulo /\ ~obj[w].hayRollback
  BY <1>4 DEF Sabe, SinObra
<1>10. CASE Excepcion(w) /\ UNCHANGED <<obj, lazo>>
  <2>1. pc'[w] = "excepcion"
    BY <1>5, <1>10 DEF Excepcion, Sigue, Ir
  <2>2. Sabe(R, obj[w], lazo[w], "excepcion", antes'[w])
    BY <1>9 DEF Sabe, SinObra, SinClave, ConAntiguos, TrasPROY, TrasIDMU, TrasTORA, TrasADJU
  <2> QED BY <1>4, <1>6, <1>10, <2>1, <2>2 DEF Queda
<1>11. CASE los = {} /\ Sigue(w, "creaExp") /\ UNCHANGED <<obj, lazo>>
  <2>1. pc'[w] = "creaExp"
    BY <1>5, <1>11 DEF Sigue, Ir
  <2>2. \A r \in R : r.tabla # "IDMU"
    BY <1>8, <1>11
  <2>3. Sabe(R, obj[w], lazo[w], "creaExp", antes'[w])
    BY <1>9, <2>2 DEF Sabe, SinObra, ConAntiguos, TrasPROY, TrasIDMU, TrasTORA, TrasADJU
  <2> QED BY <1>4, <1>6, <1>11, <2>1, <2>3 DEF Queda
<1>12. CASE /\ Fotografia(w, los)
            /\ antes' = [antes EXCEPT ![w] = {f \in db : f.X_PROY \in los /\ f.tabla # "OC"}]
  <2>1. PICK x \in los :
          /\ pc' = [pc EXCEPT ![w] = "foto"]
          /\ obj' = [obj EXCEPT ![w].X_PROY = x]
          /\ lazo' = [lazo EXCEPT ![w] = [i |-> 1, antiguos |-> los \ {x}, filas |-> {}]]
    BY <1>12 DEF Fotografia, Sigue, Ir
  <2>2. /\ pc'[w] = "foto" /\ lazo'[w] = [i |-> 1, antiguos |-> los \ {x}, filas |-> {}]
        /\ obj'[w].X_PROY = x /\ obj'[w].hayRollback = obj[w].hayRollback
    BY <1>5, <2>1 DEF Objeto
  <2>3. \A r \in R : r.tabla = "IDMU" => r.X_PROY = x
    BY <1>4, <1>8 DEF Cuadra
  <2>4. \A y \in los : y = x
    BY <1>8, <2>3
  <2>5. De(duenoProy, k, x)
    BY <1>7, <1>8
  <2>6. antes'[w] = {f \in db : f.X_PROY \in los /\ f.tabla # "OC"}
    BY <1>5, <1>12
  <2>7. \A r : r \in antes'[w] <=> r \in R /\ r.X_PROY = x /\ r.tabla # "OC"
    BY <1>7, <2>4, <2>5, <2>6
  <2>8. \E r \in antes'[w] : r.tabla = "IDMU"
    BY <1>8, <2>7
  <2>9. Leida(R, antes'[w], x, {}, 1)
    BY <2>7, <2>8 DEF Leida
  <2>10. Sabe(R, obj'[w], lazo'[w], "foto", antes'[w])
    BY <1>9, <2>2, <2>3, <2>4, <2>9 DEF Sabe, SinObra, SinClave, TrasPROY, TrasIDMU, TrasTORA, TrasADJU
  <2> QED BY <1>4, <1>6, <2>2, <2>10 DEF Queda
<1> QED BY <1>2, <1>10, <1>11, <1>12

(* F is what the table t has of project x, g what the snapshot takes of it.  *)
Contiene(F, R, t, x) == \A r : r \in F <=> r \in R /\ r.tabla = t /\ r.X_PROY = x
Toma(g, A, t)        == \A r : r \in g <=> \E s \in A : r = Legible(s) /\ s.tabla = t

(* The snapshot takes every row: where toJSON keeps the first, it is alone.  *)
LEMMA GuardaTabla ==
  ASSUME NEW R \in SUBSET Fila, Cuadra(R), NEW x, NEW A, NEW fs, NEW i, Leida(R, A, x, fs, i),
         NEW F, Contiene(F, R, OrdenFoto[i], x), NEW g \in Guardable(OrdenFoto[i], F)
  PROVE  Toma(g, A, OrdenFoto[i])
<1> DEFINE t == OrdenFoto[i]
<1>1. t \in TablasProyecto /\ t # "OC"
  BY Ordenes DEF Leida, TablasProyecto
<1>2. \A r : r \in F <=> r \in A /\ r.tabla = t
  BY <1>1 DEF Leida, Contiene
<1>3. \A r \in F : r \in R /\ r.tabla = t /\ r.X_PROY = x
  BY DEF Contiene
<1> HIDE DEF t
<1>4. CASE F = {}
  <2>1. g = {}
    BY <1>4 DEF Guardable, t
  <2> QED BY <1>2, <1>4, <2>1 DEF t, Toma
<1>5. CASE t = "UBIC"
  <2>1. g = F
    BY <1>5 DEF Guardable, t
  <2>2. \A r \in F : Legible(r) = r
    BY <1>2, <1>5 DEF Legible
  <2> QED BY <1>2, <2>1, <2>2 DEF t, Toma
<1>6. CASE F # {} /\ t # "UBIC"
  <2>1. PICK f \in F : g = {Legible(f)}
    BY <1>6 DEF Guardable, t
  <2>2. \A r \in F : r = f
    BY <1>3, <1>6 DEF Cuadra
  <2> QED BY <1>2, <2>1, <2>2 DEF t, Toma
<1> QED BY <1>4, <1>5, <1>6
-----------------------------------------------------------------------------

LEMMA LeidaSigue ==
  ASSUME NEW R, NEW A, NEW x, NEW fs, NEW i, Leida(R, A, x, fs, i), i < 8,
         NEW g, Toma(g, A, OrdenFoto[i])
  PROVE  Leida(R, A, x, fs \cup g, i + 1)
<1>1. i \in 1..8 /\ i + 1 \in 1..8 /\ \A j \in 1..8 : j < i + 1 <=> j < i \/ j = i
  BY DEF Leida
<1>2. \A r : r \in fs <=> \E s \in A : r = Legible(s) /\ \E j \in 1..8 : j < i /\ s.tabla = OrdenFoto[j]
  BY DEF Leida
<1>3. ASSUME NEW r PROVE r \in fs \cup g <=>
        \E s \in A : r = Legible(s) /\ \E j \in 1..8 : j < i + 1 /\ s.tabla = OrdenFoto[j]
  BY <1>1, <1>2 DEF Toma
<1> QED BY <1>1, <1>3 DEF Leida

(* S is a whole snapshot of what A was, all of it of project x.              *)
Saca(S, A, x) ==
  Entera(S) /\ (\A r : r \in S <=> Salvada(A, r)) /\ \A r \in S : r.X_PROY = x

(* The last table: everything there was of the project is saved.             *)
LEMMA LeidaTermina ==
  ASSUME NEW R \in SUBSET Fila, Cuadra(R), NEW A, NEW x, NEW fs, Leida(R, A, x, fs, 8),
         NEW g, Toma(g, A, OrdenFoto[8])
  PROVE  Saca(fs \cup g, A, x)
<1> DEFINE S == fs \cup g
<1>1. \A r : r \in A <=> r \in R /\ r.X_PROY = x /\ r.tabla # "OC"
  BY DEF Leida
<1>2. \A s \in A : s \in Fila /\ \E j \in 1..8 : s.tabla = OrdenFoto[j]
  BY <1>1, FilaTabla, Ordenes
<1>3. \A r : r \in S <=> Salvada(A, r)
  <2>1. \A r : r \in fs <=>
          \E s \in A : r = Legible(s) /\ \E j \in 1..8 : j < 8 /\ s.tabla = OrdenFoto[j]
    BY DEF Leida
  <2>2. \A j \in 1..8 : j < 8 \/ j = 8
    OBVIOUS
  <2> QED BY <1>2, <2>1, <2>2 DEF Salvada, Toma
<1> HIDE DEF S
<1>4. \A s \in A : Legible(s).X_PROY = s.X_PROY /\ Legible(s).tabla = s.tabla
  BY <1>2, LegibleTipo
<1>5. \A r \in S : r.X_PROY = x /\ r.tabla # "OC"
  BY <1>1, <1>3, <1>4 DEF Salvada
<1>6. \A r, s \in S : r.tabla = s.tabla /\ r.tabla # "UBIC" => r = s
  <2> SUFFICES ASSUME NEW r \in S, NEW s \in S, r.tabla = s.tabla, r.tabla # "UBIC"
               PROVE  r = s
    OBVIOUS
  <2>1. PICK a \in A : r = Legible(a)
    BY <1>3 DEF Salvada
  <2>2. PICK b \in A : s = Legible(b)
    BY <1>3 DEF Salvada
  <2>3. a.tabla = b.tabla /\ a.tabla # "UBIC" /\ a \in R /\ b \in R /\ a.X_PROY = b.X_PROY
    BY <1>1, <1>4, <2>1, <2>2
  <2>4. a = b
    BY <2>3 DEF Cuadra
  <2> QED BY <2>1, <2>2, <2>4
<1>7. \E r \in S : r.tabla = "IDMU"
  <2>1. PICK s \in A : s.tabla = "IDMU"
    BY DEF Leida
  <2>2. Legible(s) \in S /\ Legible(s).tabla = "IDMU"
    BY <1>3, <1>4, <2>1 DEF Salvada
  <2> QED BY <2>2
<1>8. \E r \in S : r.tabla = "PROY"
  <2>1. PICK s \in A : s.tabla = "IDMU"
    BY DEF Leida
  <2>2. PICK p \in R : p.tabla = "PROY" /\ p.X_PROY = x
    BY <1>1, <2>1 DEF Cuadra, Hay
  <2>3. p \in A
    BY <1>1, <2>2
  <2>4. Legible(p) \in S /\ Legible(p).tabla = "PROY"
    BY <1>3, <1>4, <2>2, <2>3 DEF Salvada
  <2> QED BY <2>4
<1>9. Saca(S, A, x)
  BY <1>3, <1>5, <1>6, <1>7, <1>8 DEF Entera, Saca
<1> QED BY <1>9 DEF S

LEMMA LeeFotoQueda ==
  ASSUME SoloExcepciones, VInv, NEW w \in Hilo, LeeFoto(w)
  PROVE  Queda(w)
<1> DEFINE R == Filas(w)
           i == lazo[w].i
           x == obj[w].X_PROY
           A == antes[w]
           fs == lazo[w].filas
           F == FilasDe(OrdenFoto[i], x)
<1>1. /\ pc[w] = "foto" /\ UNCHANGED <<db, duenoProy, antes>>
      /\ \/ Excepcion(w) /\ UNCHANGED <<obj, lazo>>
         \/ \E g \in Guardable(OrdenFoto[i], F) :
              \/ /\ i < 8 /\ lazo' = [lazo EXCEPT ![w].i = @ + 1, ![w].filas = @ \cup g]
                 /\ UNCHANGED <<pc, obj>>
              \/ /\ i = 8
                 /\ obj' = [obj EXCEPT ![w].ROLLBACK = fs \cup g, ![w].hayRollback = TRUE]
                 /\ Sigue(w, "proyecto") /\ UNCHANGED lazo
  <2>1. PICK r \in Salidas(FallaFind) :
          LET G == IF r = "ok" THEN F ELSE {}
          IN \/ /\ r = "io" /\ Excepcion(w) /\ UNCHANGED <<obj, lazo>>
             \/ /\ r # "io" /\ lazo[w].i < Len(OrdenFoto)
                /\ \E g \in Guardable(OrdenFoto[i], G) :
                     lazo' = [lazo EXCEPT ![w].i = @ + 1, ![w].filas = @ \cup g]
                /\ UNCHANGED <<pc, obj, retorno, fin>>
             \/ /\ r # "io" /\ lazo[w].i = Len(OrdenFoto)
                /\ \E g \in Guardable(OrdenFoto[i], G) :
                     obj' = [obj EXCEPT ![w].ROLLBACK = lazo[w].filas \cup g,
                                        ![w].hayRollback = TRUE]
                /\ Sigue(w, "proyecto") /\ UNCHANGED lazo
    BY Zenon DEF LeeFoto
  <2>2. r \in {"ok", "io"}
    BY DEF Salidas, FallaFind, SoloExcepciones
  <2>3. pc[w] = "foto" /\ UNCHANGED <<db, duenoProy, antes>>
    BY DEF LeeFoto, externo
  <2> HIDE DEF F
  <2> QED BY <2>1, <2>2, <2>3, Ordenes
<1>2. pc[w] \in Activo /\ pc[w] \in Dentro
  BY <1>1 DEF Activo, Dentro, ConFilas
<1>3. R \in SUBSET Fila /\ Cuadra(R) /\ Sabe(R, obj[w], lazo[w], "foto", A)
  BY <1>1, <1>2, Contexto
<1>4. /\ pc \in [Hilo -> Punto] /\ obj \in [Hilo -> Objeto] /\ lazo \in [Hilo -> Lazo]
  BY DEF VInv, IInv, TInv, TypeOK
<1>5. Nuevas(w) = R
  BY <1>1 DEF Nuevas, Filas
<1>6. De(duenoProy, Form(w).clave, x)
  BY <1>1, <1>2 DEF VInv, IInv, InvHilo, SanoEn, Sano, ConProyecto
<1>7. Contiene(F, R, OrdenFoto[i], x)
  BY <1>6 DEF Filas, DeLinea, FilasDe, Contiene
<1> HIDE DEF R, F, x, A, fs, i
<1>8. Leida(R, A, x, fs, i) /\ ~obj[w].hayRollback
  BY <1>3 DEF Sabe, x, fs, i
<1>9. CASE Excepcion(w) /\ UNCHANGED <<obj, lazo>>
  <2>1. pc' = [pc EXCEPT ![w] = "excepcion"]
    BY <1>9 DEF Excepcion, Sigue, Ir
  <2>2. "foto" \in Dentro \ {"restaura"} /\ "foto" \in ConProyecto
    BY DEF Dentro, ConProyecto
  <2> QED BY <1>1, <1>2, <1>9, <2>1, <2>2, CedeSale, QuietoQueda
<1>10. ASSUME NEW g \in Guardable(OrdenFoto[i], F), i < 8,
              lazo' = [lazo EXCEPT ![w].i = @ + 1, ![w].filas = @ \cup g], UNCHANGED <<pc, obj>>
       PROVE  Queda(w)
  <2>1. Toma(g, A, OrdenFoto[i])
    BY <1>3, <1>7, <1>8, GuardaTabla
  <2>2. Leida(R, A, x, fs \cup g, i + 1)
    BY <1>8, <1>10, <2>1, LeidaSigue
  <2>3. /\ lazo'[w].i = i + 1 /\ lazo'[w].filas = fs \cup g
        /\ lazo'[w].antiguos = lazo[w].antiguos
    BY <1>4, <1>10 DEF Lazo, i, fs
  <2>4. Sabe(R, obj[w], lazo'[w], "foto", A)
    BY <1>3, <2>2, <2>3 DEF Sabe, x, SinObra, SinClave, TrasPROY, TrasIDMU, TrasTORA, TrasADJU
  <2> QED BY <1>1, <1>3, <1>5, <1>10, <2>4 DEF Queda, A
<1>11. ASSUME NEW g \in Guardable(OrdenFoto[i], F), i = 8,
              obj' = [obj EXCEPT ![w].ROLLBACK = fs \cup g, ![w].hayRollback = TRUE],
              Sigue(w, "proyecto"), UNCHANGED lazo
       PROVE  Queda(w)
  <2>1. Toma(g, A, OrdenFoto[i])
    BY <1>3, <1>7, <1>8, GuardaTabla
  <2>2. Saca(fs \cup g, A, x)
    BY <1>3, <1>8, <1>11, <2>1, LeidaTermina
  <2>3. obj'[w].ROLLBACK = fs \cup g /\ obj'[w].X_PROY = x
    BY <1>4, <1>11, ObjCampos DEF x
  <2>4. pc'[w] = "proyecto"
    BY <1>4, <1>11 DEF Sigue, Ir
  <2>5. \A r \in R : r.tabla = "IDMU" => r.X_PROY = x
    <3>1. obj[w].X_PROY # Nulo
      <4>1. duenoProy \in Seq(Clave)
        BY DEF VInv, IInv, TInv, TypeOK
      <4> QED BY <1>6, <4>1, DeNoNulo DEF x
    <3> QED BY <1>3, <3>1 DEF Sabe, x, ConProyecto
  <2>6. lazo[w].antiguos = {}
    BY <1>3 DEF Sabe, SinObra, ConAntiguos
  <2>7. Sabe(R, obj'[w], lazo[w], "proyecto", A)
    BY <2>2, <2>3, <2>5, <2>6 DEF Saca, Sabe, SinObra, SinClave, TrasPROY, TrasIDMU, TrasTORA, TrasADJU
  <2> QED BY <1>1, <1>3, <1>5, <1>11, <2>4, <2>7 DEF Queda, A
<1> QED BY <1>1, <1>9, <1>10, <1>11
-----------------------------------------------------------------------------
(* From the snapshot to the insert of the project.                           *)

LEMMA ObjSalvo ==
  ASSUME NEW o \in [Hilo -> Objeto], NEW w \in Hilo, NEW x
  PROVE  /\ LET q == [o EXCEPT ![w].X_PROY = x][w]
            IN q.X_PROY = x /\ q.ROLLBACK = o[w].ROLLBACK /\ q.hayRollback = o[w].hayRollback
         /\ LET q == [o EXCEPT ![w].EXPETREWA = x][w]
            IN q.X_PROY = o[w].X_PROY /\ q.ROLLBACK = o[w].ROLLBACK
               /\ q.hayRollback = o[w].hayRollback
BY DEF Objeto

(* EXPETREWA does not matter.                                                *)
LEMMA SabeObjeto ==
  ASSUME NEW R, NEW o, NEW l, NEW p, NEW A, Sabe(R, o, l, p, A),
         NEW u, u.X_PROY = o.X_PROY, u.ROLLBACK = o.ROLLBACK, u.hayRollback = o.hayRollback
  PROVE  Sabe(R, u, l, p, A)
BY DEF Sabe

LEMMA LeeProyectoQueda ==
  ASSUME VInv, NEW w \in Hilo, LeeProyecto(w)
  PROVE  Queda(w)
<1> DEFINE R == Filas(w)
<1>1. /\ pc[w] = "proyecto" /\ UNCHANGED <<db, duenoProy, antes>>
      /\ \/ (Excepcion(w) \/ Silencio(w)) /\ UNCHANGED <<obj, lazo>>
         \/ \E f : /\ obj' = [obj EXCEPT ![w].EXPETREWA = f]
                   /\ lazo' = [lazo EXCEPT ![w].i = 1] /\ Sigue(w, "borra")
  BY Zenon DEF LeeProyecto, externo
<1>2. /\ pc \in [Hilo -> Punto] /\ obj \in [Hilo -> Objeto] /\ lazo \in [Hilo -> Lazo]
  BY DEF VInv, IInv, TInv, TypeOK
<1>3. /\ "proyecto" \in Activo /\ "proyecto" \in Dentro \ {"restaura"}
      /\ "proyecto" \in ConProyecto
  BY DEF Activo, Dentro, ConProyecto
<1>4. Cuadra(R) /\ Sabe(R, obj[w], lazo[w], "proyecto", antes[w]) /\ Nuevas(w) = R
  BY <1>1, <1>3, Contexto DEF Nuevas, Filas
<1>5. CASE (Excepcion(w) \/ Silencio(w)) /\ UNCHANGED <<obj, lazo>>
  <2>1. \E s \in {"excepcion", "siguiente"} : pc' = [pc EXCEPT ![w] = s]
    BY <1>5 DEF Excepcion, Sigue, Silencio, Termina, Ir
  <2> QED BY <1>1, <1>3, <1>5, <2>1, CedeSale, QuietoQueda
<1>6. ASSUME NEW f, obj' = [obj EXCEPT ![w].EXPETREWA = f],
             lazo' = [lazo EXCEPT ![w].i = 1], Sigue(w, "borra")
      PROVE  Queda(w)
  <2>1. pc'[w] = "borra" /\ lazo'[w].i = 1 /\ lazo'[w].antiguos = lazo[w].antiguos
    BY <1>2, <1>6, LazoCampos DEF Sigue, Ir, Lazo
  <2>2. Sabe(R, obj[w], lazo'[w], "borra", antes[w])
    BY <1>4, <2>1 DEF Sabe, Vacias, SinObra, SinClave, ConProyecto, ConAntiguos, Dentro, TrasPROY, TrasIDMU,
       TrasTORA, TrasADJU
  <2>3. Sabe(R, obj'[w], lazo'[w], "borra", antes[w])
    <3>1. /\ obj'[w].X_PROY = obj[w].X_PROY /\ obj'[w].ROLLBACK = obj[w].ROLLBACK
          /\ obj'[w].hayRollback = obj[w].hayRollback
      BY <1>2, <1>6, ObjSalvo
    <3> QED BY <3>1, <2>2, SabeObjeto
  <2> QED BY <1>1, <1>4, <2>1, <2>3 DEF Queda
<1> QED BY <1>1, <1>5, <1>6

LEMMA CreaExpedienteQueda ==
  ASSUME VInv, NEW w \in Hilo, CreaExpediente(w)
  PROVE  Queda(w)
<1> DEFINE R == Filas(w)
<1>1. /\ pc[w] = "creaExp" /\ UNCHANGED <<db, duenoProy, antes, lazo>>
      /\ pc' = [pc EXCEPT ![w] = "asigna"]
      /\ \E x : obj' = [obj EXCEPT ![w].EXPETREWA = x]
  BY DEF CreaExpediente, Sigue, Ir
<1>2. pc \in [Hilo -> Punto] /\ obj \in [Hilo -> Objeto] /\ pc'[w] = "asigna"
  BY <1>1 DEF VInv, IInv, TInv, TypeOK
<1>3. "creaExp" \in Activo
  BY DEF Activo, Dentro
<1>4. Cuadra(R) /\ Sabe(R, obj[w], lazo[w], "creaExp", antes[w]) /\ Nuevas(w) = R
  BY <1>1, <1>3, Contexto DEF Nuevas, Filas
<1>5. Sabe(R, obj[w], lazo[w], "asigna", antes[w])
  BY <1>4 DEF Sabe, SinObra, SinClave, ConProyecto, ConAntiguos, Dentro, TrasPROY, TrasIDMU,
     TrasTORA, TrasADJU
<1>6. Sabe(R, obj'[w], lazo[w], "asigna", antes[w])
  <2>1. /\ obj'[w].X_PROY = obj[w].X_PROY /\ obj'[w].ROLLBACK = obj[w].ROLLBACK
        /\ obj'[w].hayRollback = obj[w].hayRollback
    BY <1>1, <1>2, ObjSalvo
  <2> QED BY <2>1, <1>5, SabeObjeto
<1> QED BY <1>1, <1>2, <1>4, <1>6 DEF Queda

LEMMA AsignaServicioQueda ==
  ASSUME VInv, NEW w \in Hilo, AsignaServicio(w)
  PROVE  Queda(w)
<1>1. /\ pc[w] = "asigna" /\ UNCHANGED <<db, duenoProy, obj, lazo, antes>>
      /\ \E s \in {"genera", "excepcion"} : pc' = [pc EXCEPT ![w] = s]
  BY DEF AsignaServicio, Sigue, Excepcion, Ir, externo
<1>2. /\ "asigna" \in Activo /\ "genera" \notin TrasPROY /\ "excepcion" \notin TrasPROY
      /\ Cede("asigna", "genera") /\ Cede("asigna", "excepcion")
  BY DEF Cede, SinObra, Activo, Dentro, SinClave, ConProyecto, ConExpediente, ConAntiguos, ConFilas,
     TrasPROY, TrasIDMU, TrasTORA, TrasADJU
<1> QED BY <1>1, <1>2, QuietoQueda

(* The code drawn is that of no row yet.                                     *)
LEMMA GENERATE_X_PROYQueda ==
  ASSUME SoloExcepciones, VInv, NEW w \in Hilo, GENERATE_X_PROY(w)
  PROVE  Queda(w)
<1> DEFINE R == Filas(w)
           x == Len(duenoProy) + 1
<1>1. /\ pc[w] = "genera" /\ UNCHANGED <<db, lazo, antes>>
      /\ \/ Excepcion(w) /\ obj' = [obj EXCEPT ![w].X_PROY = obj[w].X_PROY]
         \/ /\ Silencio(w) \/ Sigue(w, "INPROYECTO")
            /\ obj' = [obj EXCEPT ![w].X_PROY = x]
  <2>1. PICK r \in Salidas(FallaSeq) :
          /\ obj' = [obj EXCEPT ![w].X_PROY = CASE r = "ok"  -> Len(duenoProy) + 1
                                                [] r = "seq" -> Error
                                                [] r = "io"  -> @]
          /\ \/ r = "io" /\ Excepcion(w)
             \/ r # "io" /\ Form(w).spatial = "ausente" /\ Silencio(w)
             \/ r # "io" /\ Form(w).spatial # "ausente" /\ Sigue(w, "INPROYECTO")
    BY Zenon DEF GENERATE_X_PROY
  <2>2. r \in {"ok", "io"}
    BY DEF Salidas, FallaSeq, SoloExcepciones
  <2>3. pc[w] = "genera" /\ UNCHANGED <<db, lazo, antes>>
    BY DEF GENERATE_X_PROY
  <2> QED BY <2>1, <2>2, <2>3
<1>2. /\ pc \in [Hilo -> Punto] /\ obj \in [Hilo -> Objeto] /\ duenoProy \in Seq(Clave)
  BY DEF VInv, IInv, TInv, TypeOK
<1>3. "genera" \in Activo /\ "genera" \in Dentro \ {"restaura"} /\ "genera" \in SinClave
  BY DEF Activo, Dentro, ConExpediente, SinClave
<1>4. Cuadra(R) /\ Sabe(R, obj[w], lazo[w], "genera", antes[w]) /\ Nuevas(w) = R
  BY <1>1, <1>3, Contexto DEF Nuevas, Filas
<1>5. \A r \in R : r.X_PROY # x
  BY <1>2 DEF Filas, DeLinea, De
<1>6. \A r \in R : r.X_PROY # Nulo
  BY <1>2, DeNoNulo DEF Filas, DeLinea
<1> HIDE DEF R, x
<1>7. CASE Excepcion(w) /\ obj' = [obj EXCEPT ![w].X_PROY = obj[w].X_PROY]
  <2>1. pc'[w] = "excepcion"
    BY <1>2, <1>7 DEF Excepcion, Sigue, Ir
  <2>2. Sabe(R, obj[w], lazo[w], "excepcion", antes[w])
    BY <1>3, <1>4, CedeSale, SabeAlta
  <2>3. Sabe(R, obj'[w], lazo[w], "excepcion", antes[w])
    <3>1. /\ obj'[w].X_PROY = obj[w].X_PROY /\ obj'[w].ROLLBACK = obj[w].ROLLBACK
          /\ obj'[w].hayRollback = obj[w].hayRollback
      BY <1>2, <1>7, ObjSalvo
    <3> QED BY <3>1, <2>2, SabeObjeto
  <2> QED BY <1>1, <1>4, <2>1, <2>3 DEF Queda
<1>8. CASE /\ Silencio(w) \/ Sigue(w, "INPROYECTO")
           /\ obj' = [obj EXCEPT ![w].X_PROY = x]
  <2>1. pc'[w] \in {"siguiente", "INPROYECTO"}
    BY <1>2, <1>8 DEF Silencio, Termina, Sigue, Ir
  <2>2. /\ obj'[w].X_PROY = x /\ obj'[w].ROLLBACK = obj[w].ROLLBACK
        /\ obj'[w].hayRollback = obj[w].hayRollback
    BY <1>2, <1>8, ObjSalvo
  <2>3. obj[w].X_PROY = Nulo /\ \A r \in R : r.tabla # "IDMU"
    BY <1>3, <1>4 DEF Sabe, SinObra
  <2>4. obj[w].hayRollback =>
          \A r \in R, s \in obj[w].ROLLBACK : ~(r.tabla # "OC" /\ r.X_PROY = s.X_PROY)
    BY <1>3, <1>4, <1>6, <2>3 DEF Sabe
  <2>5. Sabe(R, obj'[w], lazo[w], pc'[w], antes[w])
    BY <1>4, <1>5, <2>1, <2>2, <2>3, <2>4 DEF Sabe, SinObra, ConAntiguos, ConProyecto, TrasPROY,
       TrasIDMU, TrasTORA, TrasADJU
  <2> QED BY <1>1, <1>4, <2>1, <2>5 DEF Queda
<1> QED BY <1>1, <1>7, <1>8
-----------------------------------------------------------------------------
(* delFromGeo, from getTrewaaExp and from the rollback.                      *)

LEMMA BajaQueda ==
  ASSUME VInv, NEW w \in Hilo, pc[w] \in {"borra", "rborra"}, UNCHANGED duenoProy,
         db' = db \ FilasDe(OrdenBorrado[lazo[w].i], obj[w].X_PROY)
  PROVE  /\ Cuadra(Nuevas(w)) /\ Nuevas(w) \subseteq Filas(w)
         /\ Vacias(Nuevas(w), obj[w].X_PROY, lazo[w].i + 1)
         /\ lazo[w].i = 8 => Ida(Nuevas(w), obj[w].X_PROY)
<1> DEFINE R == Filas(w)
           x == obj[w].X_PROY
           i == lazo[w].i
<1>1. pc[w] \in Activo /\ pc[w] \in Dentro
  BY DEF Activo, Dentro, ConProyecto
<1>2. R \in SUBSET Fila /\ Cuadra(R) /\ Sabe(R, obj[w], lazo[w], pc[w], antes[w])
  BY <1>1, Contexto
<1>3. i \in 1..8 /\ Vacias(R, x, i)
  BY <1>2 DEF Sabe
<1>4. Quita(Nuevas(w), R, OrdenBorrado[i], x)
  BY DEF Nuevas, Filas, DeLinea, FilasDe, Quita
<1>5. Nuevas(w) \subseteq R
  BY <1>4 DEF Quita
<1> HIDE DEF R, x, i
<1>6. Cuadra(Nuevas(w)) /\ Vacias(Nuevas(w), x, i + 1) /\ (i = 8 => Ida(Nuevas(w), x))
  BY <1>2, <1>3, <1>4, CuadraBaja
<1> QED BY <1>5, <1>6 DEF R, x, i

LEMMA BorraQueda ==
  ASSUME SoloExcepciones, VInv, NEW w \in Hilo, Borra(w)
  PROVE  Queda(w)
<1> DEFINE R == Filas(w)
           S == Nuevas(w)
           i == lazo[w].i
           menos == db \ FilasDe(OrdenBorrado[i], obj[w].X_PROY)
<1>1. pc[w] = "borra" /\ UNCHANGED <<duenoProy, antes>>
  BY DEF Borra
<1>2. \/ UNCHANGED db /\ Excepcion(w) /\ UNCHANGED <<obj, lazo>>
      \/ db' = menos /\ i < 8 /\ OtraTabla(w) /\ UNCHANGED <<pc, obj>>
      \/ /\ db' = menos /\ i = 8
         /\ \/ Fotografia(w, lazo[w].antiguos)
            \/ /\ Sigue(w, "genera") /\ obj' = [obj EXCEPT ![w].X_PROY = Nulo]
               /\ UNCHANGED lazo
  <2>1. PICK r \in Salidas(FallaDelete) :
          /\ db' = IF r = "ok" THEN menos ELSE db
          /\ \/ r = "io" /\ Excepcion(w) /\ UNCHANGED <<obj, lazo>>
             \/ /\ r # "io" /\ i < Len(OrdenBorrado) /\ OtraTabla(w)
                /\ UNCHANGED <<pc, retorno, fin, obj>>
             \/ /\ r # "io" /\ i = Len(OrdenBorrado)
                /\ \/ Fotografia(w, lazo[w].antiguos)
                   \/ /\ lazo[w].antiguos = {} /\ Sigue(w, "genera")
                      /\ obj' = [obj EXCEPT ![w].X_PROY = Nulo]
                      /\ UNCHANGED lazo
    BY Zenon DEF Borra, delFromGeo
  <2>2. r \in {"ok", "io"}
    BY DEF Salidas, FallaDelete, SoloExcepciones
  <2> HIDE DEF menos, i
  <2> QED BY <2>1, <2>2, Ordenes
<1>3. /\ pc \in [Hilo -> Punto] /\ obj \in [Hilo -> Objeto] /\ lazo \in [Hilo -> Lazo]
      /\ duenoProy \in Seq(Clave)
  BY DEF VInv, IInv, TInv, TypeOK
<1>4. /\ "borra" \in Activo /\ "borra" \in Dentro \ {"restaura"} /\ "borra" \in ConProyecto
      /\ "borra" \in ConAntiguos
  BY DEF Activo, Dentro, ConProyecto, ConAntiguos
<1>5. Sabe(R, obj[w], lazo[w], "borra", antes[w])
  BY <1>1, <1>4, Contexto
<1>6. lazo[w].antiguos = {} /\ i \in 1..8
  BY <1>4, <1>5 DEF Sabe
<1>7. CASE UNCHANGED db /\ Excepcion(w) /\ UNCHANGED <<obj, lazo>>
  <2>1. pc' = [pc EXCEPT ![w] = "excepcion"]
    BY <1>7 DEF Excepcion, Sigue, Ir
  <2> QED BY <1>1, <1>4, <1>7, <2>1, CedeSale, QuietoQueda
<1>8. ASSUME db' = menos
      PROVE  /\ Cuadra(S) /\ S \subseteq R /\ Vacias(S, obj[w].X_PROY, i + 1)
             /\ i = 8 => Ida(S, obj[w].X_PROY)
  BY <1>1, <1>8, BajaQueda
<1>9. \A r \in S : r.X_PROY # Nulo
  BY <1>3, DeNoNulo DEF Nuevas, DeLinea
<1>10. De(duenoProy, Form(w).clave, obj[w].X_PROY) /\ obj[w].X_PROY # Nulo
  <2>1. De(duenoProy, Form(w).clave, obj[w].X_PROY)
    BY <1>1, <1>4 DEF VInv, IInv, InvHilo, SanoEn, Sano
  <2> QED BY <1>3, <2>1, DeNoNulo
<1> HIDE DEF R, S, menos, i
<1>11. CASE db' = menos /\ i < 8 /\ OtraTabla(w) /\ UNCHANGED <<pc, obj>>
  <2>1. lazo'[w].i = i + 1 /\ lazo'[w].antiguos = lazo[w].antiguos
    BY <1>3, <1>11 DEF OtraTabla, Lazo, i
  <2>2. Sabe(S, obj[w], lazo'[w], "borra", antes[w])
    BY <1>5, <1>6, <1>8, <1>11, <2>1 DEF Sabe, SinObra, SinClave, TrasPROY, TrasIDMU, TrasTORA,
       TrasADJU
  <2> QED BY <1>1, <1>8, <1>11, <2>2 DEF Queda, S
<1>12. CASE /\ db' = menos /\ i = 8
            /\ Sigue(w, "genera") /\ obj' = [obj EXCEPT ![w].X_PROY = Nulo] /\ UNCHANGED lazo
  <2>1. pc'[w] = "genera"
    BY <1>3, <1>12 DEF Sigue, Ir
  <2>2. /\ obj'[w].X_PROY = Nulo /\ obj'[w].ROLLBACK = obj[w].ROLLBACK
        /\ obj'[w].hayRollback = obj[w].hayRollback
    BY <1>3, <1>12, ObjSalvo
  <2>3. Ida(S, obj[w].X_PROY) /\ S \subseteq R
    BY <1>8, <1>12
  <2>4. \A r \in S : r.tabla # "IDMU"
    BY <1>4, <1>5, <1>10, <2>3 DEF Sabe, Ida
  <2>5. obj[w].hayRollback =>
          \A r \in S, s \in obj[w].ROLLBACK : ~(r.tabla # "OC" /\ r.X_PROY = s.X_PROY)
    BY <1>4, <1>5, <2>3 DEF Sabe, Ida
  <2>6. Sabe(S, obj'[w], lazo[w], "genera", antes[w])
    BY <1>5, <2>2, <2>4, <2>5 DEF Sabe, ConAntiguos, ConProyecto, TrasPROY, TrasIDMU, TrasTORA,
       TrasADJU
  <2> QED BY <1>1, <1>8, <1>12, <2>1, <2>6 DEF Queda, S
<1>13. ~Fotografia(w, lazo[w].antiguos)
  BY <1>6 DEF Fotografia
<1> QED BY <1>2, <1>7, <1>11, <1>12, <1>13

(* The rollback has the new project out of the way before it restores.       *)
LEMMA RollbackBorraQueda ==
  ASSUME SoloExcepciones, VInv, NEW w \in Hilo, RollbackBorra(w)
  PROVE  Queda(w)
<1> DEFINE R == Filas(w)
           S == Nuevas(w)
           i == lazo[w].i
           menos == db \ FilasDe(OrdenBorrado[i], obj[w].X_PROY)
<1>1. pc[w] = "rborra" /\ UNCHANGED <<duenoProy, antes>>
  BY DEF RollbackBorra
<1>2. \/ UNCHANGED db /\ FalloRollback(w) /\ UNCHANGED <<obj, lazo>>
      \/ db' = menos /\ i < 8 /\ OtraTabla(w) /\ UNCHANGED <<pc, obj>>
      \/ /\ db' = menos /\ i = 8
         /\ Sigue(w, "restaura") /\ obj' = [obj EXCEPT ![w].X_PROY = Nulo]
         /\ lazo' = [lazo EXCEPT ![w].filas = obj[w].ROLLBACK]
  <2>1. PICK r \in Salidas(FallaDelete) :
          /\ db' = IF r = "ok" THEN menos ELSE db
          /\ \/ r = "io" /\ FalloRollback(w) /\ UNCHANGED <<obj, lazo>>
             \/ /\ r # "io" /\ i < Len(OrdenBorrado) /\ OtraTabla(w)
                /\ UNCHANGED <<pc, retorno, fin, obj>>
             \/ /\ r # "io" /\ i = Len(OrdenBorrado)
                /\ Sigue(w, "restaura") /\ obj' = [obj EXCEPT ![w].X_PROY = Nulo]
                /\ lazo' = [lazo EXCEPT ![w].filas = obj[w].ROLLBACK]
    BY Zenon DEF RollbackBorra, delFromGeo
  <2>2. r \in {"ok", "io"}
    BY DEF Salidas, FallaDelete, SoloExcepciones
  <2> HIDE DEF menos, i
  <2> QED BY <2>1, <2>2, Ordenes
<1>3. /\ pc \in [Hilo -> Punto] /\ obj \in [Hilo -> Objeto] /\ lazo \in [Hilo -> Lazo]
      /\ duenoProy \in Seq(Clave)
  BY DEF VInv, IInv, TInv, TypeOK
<1>4. "rborra" \in Activo /\ "rborra" \in Dentro \ {"restaura"} /\ "rborra" \in ConProyecto
  BY DEF Activo, Dentro, ConProyecto
<1>5. Sabe(R, obj[w], lazo[w], "rborra", antes[w])
  BY <1>1, <1>4, Contexto
<1>6. i \in 1..8
  BY <1>5 DEF Sabe
<1>7. CASE UNCHANGED db /\ FalloRollback(w) /\ UNCHANGED <<obj, lazo>>
  <2>1. pc' = [pc EXCEPT ![w] = "siguiente"]
    BY <1>7 DEF FalloRollback, Termina, Ir
  <2> QED BY <1>1, <1>4, <1>7, <2>1, CedeSale, QuietoQueda
<1>8. ASSUME db' = menos
      PROVE  /\ Cuadra(S) /\ S \subseteq R /\ Vacias(S, obj[w].X_PROY, i + 1)
             /\ i = 8 => Ida(S, obj[w].X_PROY)
  BY <1>1, <1>8, BajaQueda
<1>10. obj[w].X_PROY # Nulo
  <2>1. De(duenoProy, Form(w).clave, obj[w].X_PROY)
    BY <1>1, <1>4 DEF VInv, IInv, InvHilo, SanoEn, Sano
  <2> QED BY <1>3, <2>1, DeNoNulo
<1> HIDE DEF R, S, menos, i
<1>11. CASE db' = menos /\ i < 8 /\ OtraTabla(w) /\ UNCHANGED <<pc, obj>>
  <2>1. lazo'[w].i = i + 1 /\ lazo'[w].antiguos = lazo[w].antiguos
    BY <1>3, <1>11 DEF OtraTabla, Lazo, i
  <2>2. Sabe(S, obj[w], lazo'[w], "rborra", antes[w])
    BY <1>5, <1>6, <1>8, <1>11, <2>1 DEF Sabe, SinObra, SinClave, ConAntiguos, TrasPROY,
       TrasIDMU, TrasTORA, TrasADJU
  <2> QED BY <1>1, <1>8, <1>11, <2>2 DEF Queda, S
<1>12. CASE /\ db' = menos /\ i = 8
            /\ Sigue(w, "restaura") /\ obj' = [obj EXCEPT ![w].X_PROY = Nulo]
            /\ lazo' = [lazo EXCEPT ![w].filas = obj[w].ROLLBACK]
  <2> DEFINE b == obj[w].ROLLBACK
  <2>1. pc'[w] = "restaura" /\ lazo'[w].filas = b
    BY <1>3, <1>12 DEF Sigue, Ir, Lazo
  <2>2. /\ obj'[w].X_PROY = Nulo /\ obj'[w].ROLLBACK = b
        /\ obj'[w].hayRollback = obj[w].hayRollback
    BY <1>3, <1>12, ObjSalvo
  <2>3. Ida(S, obj[w].X_PROY) /\ S \subseteq R
    BY <1>8, <1>12
  <2>4. \A r \in S : r.tabla # "IDMU"
    BY <1>4, <1>5, <1>10, <2>3 DEF Sabe, Ida
  <2>5. /\ obj[w].hayRollback
        /\ \A r \in S, s \in b : ~(r.tabla # "OC" /\ r.X_PROY = s.X_PROY)
    BY <1>4, <1>5, <2>3 DEF Sabe, Ida
  <2>6. Vuelve(S, b, b)
    BY <2>4, <2>5 DEF Vuelve
  <2>7. Sabe(S, obj'[w], lazo'[w], "restaura", antes[w])
    BY <1>5, <2>1, <2>2, <2>5, <2>6 DEF Sabe, SinObra, SinClave, ConAntiguos, ConProyecto,
       TrasPROY, TrasIDMU, TrasTORA, TrasADJU
  <2> QED BY <1>1, <1>8, <1>12, <2>1, <2>7 DEF Queda, S
<1> QED BY <1>2, <1>7, <1>11, <1>12
-----------------------------------------------------------------------------
(* The rollback, and what it restores.                                       *)

LEMMA RollbackQueda ==
  ASSUME VInv, NEW w \in Hilo, Rollback(w)
  PROVE  Queda(w)
<1>1. /\ pc[w] = "excepcion" /\ UNCHANGED <<db, duenoProy, obj, antes>>
      /\ \/ \E s \in {"libre", "siguiente"} : pc' = [pc EXCEPT ![w] = s] /\ UNCHANGED lazo
         \/ /\ obj[w].hayRollback /\ obj[w].X_PROY # Nulo
            /\ pc' = [pc EXCEPT ![w] = "rborra"] /\ lazo' = [lazo EXCEPT ![w].i = 1]
  BY DEF Rollback, Escapa, Termina, Sigue, Ir, externo
<1>2. /\ pc \in [Hilo -> Punto] /\ lazo \in [Hilo -> Lazo]
  BY DEF VInv, IInv, TInv, TypeOK
<1>3. "excepcion" \in Activo /\ "excepcion" \in Dentro \ {"restaura"}
  BY DEF Activo, Dentro
<1>4. CASE \E s \in {"libre", "siguiente"} : pc' = [pc EXCEPT ![w] = s] /\ UNCHANGED lazo
  BY <1>1, <1>3, <1>4, CedeSale, QuietoQueda DEF TrasPROY, TrasIDMU, TrasTORA, TrasADJU
<1>5. CASE /\ obj[w].hayRollback /\ obj[w].X_PROY # Nulo
           /\ pc' = [pc EXCEPT ![w] = "rborra"] /\ lazo' = [lazo EXCEPT ![w].i = 1]
  <2> DEFINE R == Filas(w)
  <2>1. pc'[w] = "rborra" /\ lazo'[w].i = 1
    BY <1>2, <1>5 DEF Lazo
  <2>2. Cuadra(R) /\ Sabe(R, obj[w], lazo[w], "excepcion", antes[w]) /\ Nuevas(w) = R
    BY <1>1, <1>3, Contexto DEF Nuevas, Filas
  <2>3. Sabe(R, obj[w], lazo'[w], "rborra", antes[w])
    BY <1>5, <2>1, <2>2 DEF Sabe, Vacias, SinObra, SinClave, ConAntiguos, Dentro, ConProyecto,
       TrasPROY, TrasIDMU, TrasTORA, TrasADJU
  <2> QED BY <1>1, <2>1, <2>2, <2>3 DEF Queda
<1> QED BY <1>1, <1>4, <1>5

(* A restored row fits with what is there: its project came first.           *)
LEMMA VuelveFila ==
  ASSUME NEW R \in SUBSET Fila, Cuadra(R), NEW B \in SUBSET Fila, Entera(B), NEW fs, Vuelve(R, B, fs),
         NEW f \in Primeras(fs), NEW S, \A r : r \in S <=> r \in R \/ r = f
  PROVE  Cuadra(S) /\ Vuelve(S, B, fs \ {f})
<1>1. f \in B /\ f \in Fila /\ \A g \in fs : Lugar(f) <= Lugar(g)
  BY DEF Primeras, Vuelve
<1>2. f.tabla # "OC" /\ \A s \in B : s.X_PROY = f.X_PROY
  BY <1>1 DEF Entera
<1>3. f.tabla = "IDMU" => \A r \in R : r.tabla = "IDMU" => r.X_PROY = f.X_PROY
  BY <1>2 DEF Vuelve
<1>4. Hay(S, "PROY", f.X_PROY)
  <2>1. PICK p \in B : p.tabla = "PROY"
    BY DEF Entera
  <2>2. CASE p \in R
    BY <1>2, <2>1, <2>2 DEF Hay
  <2>3. CASE p \in fs
    <3>1. f.tabla = "PROY"
      BY <1>1, <1>2, <2>1, <2>3, FilaTabla, LugarProy
    <3> QED BY <3>1 DEF Hay
  <2> QED BY <2>1, <2>2, <2>3 DEF Vuelve
<1>5. f.tabla # "UBIC" => \A r \in R : r.tabla = f.tabla /\ r.X_PROY = f.X_PROY => r = f
  <2> SUFFICES ASSUME f.tabla # "UBIC", NEW r \in R, r.tabla = f.tabla, r.X_PROY = f.X_PROY
               PROVE  r = f
    OBVIOUS
  <2>1. r \in B
    BY <1>1, <1>2 DEF Vuelve
  <2> QED BY <1>1, <2>1 DEF Entera
<1>6. Cuadra(S)
  BY <1>1, <1>2, <1>3, <1>4, <1>5, CuadraAlta
<1>7. Vuelve(S, B, fs \ {f})
  <2>1. \A r \in B : r \in fs \ {f} \/ r \in S
    BY DEF Vuelve
  <2>2. \A r \in S : r.tabla # "OC" /\ (\E s \in B : s.X_PROY = r.X_PROY) => r \in B
    BY <1>1 DEF Vuelve
  <2>3. \A r \in S : r.tabla = "IDMU" => \E s \in B : s.X_PROY = r.X_PROY
    BY <1>1 DEF Vuelve
  <2>4. fs \ {f} \subseteq B
    BY DEF Vuelve
  <2> QED BY <2>1, <2>2, <2>3, <2>4 DEF Vuelve
<1> QED BY <1>6, <1>7

LEMMA VuelveTodo ==
  ASSUME NEW R, NEW B, Entera(B), Vuelve(R, B, {}), NEW A, \A r : r \in B <=> Salvada(A, r)
  PROVE  Repuesta(R, A)
<1> SUFFICES ASSUME NEW r
             PROVE  (/\ r \in R /\ r.tabla # "OC"
                     /\ \E s \in R : s.tabla = "IDMU" /\ s.X_PROY = r.X_PROY) <=> r \in B
  BY DEF Repuesta
<1>1. ASSUME r \in R, r.tabla # "OC", NEW s \in R, s.tabla = "IDMU", s.X_PROY = r.X_PROY
      PROVE  r \in B
  BY <1>1 DEF Vuelve
<1>2. ASSUME r \in B
      PROVE  /\ r \in R /\ r.tabla # "OC"
             /\ \E s \in R : s.tabla = "IDMU" /\ s.X_PROY = r.X_PROY
  <2>1. r \in R /\ r.tabla # "OC"
    BY <1>2 DEF Vuelve, Entera
  <2>2. PICK s \in B : s.tabla = "IDMU"
    BY DEF Entera
  <2>3. s \in R /\ s.X_PROY = r.X_PROY
    BY <1>2, <2>2 DEF Vuelve, Entera
  <2> QED BY <2>1, <2>2, <2>3
<1> QED BY <1>1, <1>2

LEMMA RestauraQueda ==
  ASSUME SoloExcepciones, VInv, NEW w \in Hilo, Restaura(w)
  PROVE  /\ Queda(w)
         /\ fin'[w] = "revertido" => Repuesta(Nuevas(w), antes'[w])
<1> DEFINE R == Filas(w)
           S == Nuevas(w)
           b == obj[w].ROLLBACK
           fs == lazo[w].filas
<1>1. pc[w] = "restaura" /\ UNCHANGED <<duenoProy, obj, antes>>
  BY DEF Restaura
<1>2. \/ /\ fs = {} /\ Termina(w, "DATA ERROR COMPLETE", "revertido") /\ UNCHANGED <<db, lazo>>
      \/ \E f \in Primeras(fs) :
           /\ db' = db \cup {f} /\ lazo' = [lazo EXCEPT ![w].filas = @ \ {f}]
           /\ UNCHANGED <<pc, fin>>
      \/ UNCHANGED db /\ (Escapa(w) \/ FalloRollback(w))
  <2>1. CASE /\ fs = {} /\ Termina(w, "DATA ERROR COMPLETE", "revertido")
             /\ UNCHANGED <<db, lazo, fallas>>
    BY <2>1
  <2>2. ASSUME NEW f \in Primeras(fs), NEW r \in Salidas(FallaInsert),
               db' = IF r = "ok" THEN db \cup {f} ELSE db,
               lazo' = [lazo EXCEPT ![w].filas = @ \ {f}],
               \/ r \in {"ok", "false"} /\ UNCHANGED <<pc, retorno, fin>>
               \/ r = "npe" /\ Escapa(w)
               \/ r = "io"  /\ FalloRollback(w)
        PROVE  \/ /\ db' = db \cup {f} /\ lazo' = [lazo EXCEPT ![w].filas = @ \ {f}]
                  /\ UNCHANGED <<pc, fin>>
               \/ UNCHANGED db /\ (Escapa(w) \/ FalloRollback(w))
    <3>1. r # "false"
      BY DEF Salidas, FallaInsert, SoloExcepciones
    <3> QED BY <2>2, <3>1
  <2> QED BY <2>1, <2>2, Zenon DEF Restaura
<1>3. /\ pc \in [Hilo -> Punto] /\ lazo \in [Hilo -> Lazo] /\ obj \in [Hilo -> Objeto]
      /\ fin \in [Hilo -> Final]
  BY DEF VInv, IInv, TInv, TypeOK
<1>4. "restaura" \in Activo /\ "restaura" \in Dentro
  BY DEF Activo, Dentro, ConFilas
<1>5. R \in SUBSET Fila /\ Cuadra(R) /\ Sabe(R, obj[w], lazo[w], "restaura", antes[w])
  BY <1>1, <1>4, Contexto
<1>6. /\ b \in SUBSET Fila /\ Entera(b) /\ (\A r : r \in b <=> Salvada(antes[w], r))
      /\ obj[w].hayRollback /\ Vuelve(R, b, fs)
  <2>1. b \in SUBSET Fila
    BY <1>3, ObjetoPone
  <2> QED BY <1>5, <2>1 DEF Sabe
<1>7. db' = db => S = R
  BY <1>1 DEF Nuevas, Filas
<1>8. fin[w] # "revertido"
  BY <1>1 DEF VInv, InvFin
<1>9. \A l : Sabe(R, obj[w], l, "siguiente", antes[w])
  BY <1>6 DEF Sabe, SinObra, SinClave, ConAntiguos, Dentro, ConProyecto, ConExpediente,
     ConFilas, TrasPROY, TrasIDMU, TrasTORA, TrasADJU
<1>10. CASE /\ fs = {} /\ Termina(w, "DATA ERROR COMPLETE", "revertido") /\ UNCHANGED <<db, lazo>>
  <2>1. pc'[w] = "siguiente"
    BY <1>3, <1>10 DEF Termina, Ir
  <2>2. Repuesta(S, antes[w])
    BY <1>6, <1>7, <1>10, VuelveTodo
  <2> QED BY <1>1, <1>5, <1>7, <1>9, <1>10, <2>1, <2>2 DEF Queda
<1>11. CASE UNCHANGED db /\ (Escapa(w) \/ FalloRollback(w))
  <2>1. pc'[w] \in {"siguiente", "libre"} /\ fin'[w] # "revertido"
    BY <1>3, <1>11 DEF Escapa, FalloRollback, Termina, Ir
  <2>2. "libre" \notin Activo
    BY DEF Activo, Dentro, ConProyecto, ConExpediente, ConFilas
  <2> QED BY <1>1, <1>5, <1>7, <1>9, <1>11, <2>1, <2>2 DEF Queda
<1>12. ASSUME NEW f \in Primeras(fs), db' = db \cup {f},
              lazo' = [lazo EXCEPT ![w].filas = @ \ {f}], UNCHANGED <<pc, fin>>
       PROVE  Queda(w)
  <2>1. lazo'[w].filas = fs \ {f}
    BY <1>3, <1>12 DEF Lazo
  <2>2. De(duenoProy, Form(w).clave, f.X_PROY)
    BY <1>1, <1>4 DEF VInv, IInv, InvHilo, SanoEn, Sano, ConFilas, FilaDe, Primeras
  <2>3. \A r : r \in S <=> r \in R \/ r = f
    BY <1>12, <2>2 DEF Nuevas, Filas, DeLinea
  <2>4. Cuadra(S) /\ Vuelve(S, b, fs \ {f})
    BY <1>5, <1>6, <2>3, VuelveFila
  <2> HIDE DEF S, R, b, fs
  <2>5. Sabe(S, obj[w], lazo'[w], "restaura", antes[w])
    BY <1>6, <2>1, <2>4 DEF Sabe, SinObra, SinClave, ConAntiguos, ConProyecto, TrasPROY,
       TrasIDMU, TrasTORA, TrasADJU, b
  <2> QED BY <1>1, <1>12, <2>4, <2>5 DEF Queda, S
<1> QED BY <1>2, <1>8, <1>10, <1>11, <1>12

-----------------------------------------------------------------------------
(* The loop over the forms.                                                  *)

LEMMA CreaFormularioQueda ==
  ASSUME VInv, NEW w \in Hilo, CreaFormulario(w)
  PROVE  Queda(w)
<1>1. \E s \in {"busca", "siguiente", "libre"} : pc' = [pc EXCEPT ![w] = s]
  BY Zenon DEF CreaFormulario, Termina, Escapa, Ir
<1>2. pc[w] = "formulario" /\ obj' = [obj EXCEPT ![w] = ObjVacio]
  BY DEF CreaFormulario
<1>3. pc'[w] \in {"busca", "siguiente", "libre"} /\ obj'[w] = ObjVacio
  BY <1>1, <1>2 DEF VInv, IInv, TInv, TypeOK
<1>4. "formulario" \notin Dentro /\ "libre" \notin Activo
  BY DEF Activo, Dentro, ConProyecto, ConExpediente, ConFilas
<1>5. \A R, l, A : \A p \in {"busca", "siguiente"} : Sabe(R, ObjVacio, l, p, A)
  BY DEF Sabe, ObjVacio, SinObra, SinClave, ConAntiguos, ConProyecto, TrasPROY, TrasIDMU,
     TrasTORA, TrasADJU
<1> QED BY <1>2, <1>3, <1>4, <1>5 DEF Queda

LEMMA FueraQueda ==
  ASSUME VInv, NEW w \in Hilo, Recibe(w) \/ LeeMercado(w) \/ Responde(w) \/ Avanza(w)
  PROVE  Queda(w)
<1>1. /\ \E s \in {"datos", "formulario", "libre"} : pc' = [pc EXCEPT ![w] = s]
      /\ pc[w] \in {"libre", "datos", "formulario", "siguiente"}
  BY DEF Recibe, LeeMercado, Responde, Avanza, Escapa, Ir
<1>2. pc'[w] \in {"datos", "formulario", "libre"}
  BY <1>1 DEF VInv, IInv, TInv, TypeOK
<1>3. {"libre", "datos", "formulario"} \cap Activo = {} /\ "siguiente" \notin Dentro
  BY DEF Activo, Dentro, ConProyecto, ConExpediente, ConFilas
<1> QED BY <1>1, <1>2, <1>3 DEF Queda, Activo
-----------------------------------------------------------------------------
(* One step of a worker, for itself and for the others.                      *)

LEMMA PasoQueda ==
  ASSUME SoloExcepciones, VInv, NEW w \in Hilo, Recibe(w) \/ Paso(w)
  PROVE  Queda(w)
<1>1. CASE Recibe(w) \/ LeeMercado(w) \/ Responde(w) \/ Avanza(w) \/ CreaFormulario(w)
  BY <1>1, FueraQueda, CreaFormularioQueda
<1>2. CASE BuscaAntiguos(w) \/ LeeFoto(w) \/ LeeProyecto(w) \/ Borra(w)
  BY <1>2, BuscaAntiguosQueda, LeeFotoQueda, LeeProyectoQueda, BorraQueda
<1>3. CASE CreaExpediente(w) \/ AsignaServicio(w) \/ GENERATE_X_PROY(w)
  BY <1>3, CreaExpedienteQueda, AsignaServicioQueda, GENERATE_X_PROYQueda
<1>4. CASE \/ INPROYECTO(w) \/ INBIP(w) \/ ININI(w) \/ INTOMARAZON(w) \/ SAVEOC(w)
           \/ INADJUDICACION(w)
  BY <1>4, INPasosQuedan
<1>5. CASE INCODMERCADOPUB(w) \/ INUBICATION(w) \/ INSPATIAL(w)
  BY <1>5, INCODMERCADOPUBQueda, INUBICATIONQueda, INSPATIALQueda
<1>6. CASE Rollback(w) \/ RollbackBorra(w) \/ Restaura(w)
  BY <1>6, RollbackQueda, RollbackBorraQueda, RestauraQueda
<1> QED BY <1>1, <1>2, <1>3, <1>4, <1>5, <1>6 DEF Paso

(* A row comes and goes only on the line of the form its worker handles.     *)
LEMMA Toca ==
  ASSUME IInv, NEW w \in Hilo, Recibe(w) \/ Paso(w), NEW r, (r \in db /\ r \notin db') \/ (r \in db' /\ r \notin db)
  PROVE  pc[w] \in Dentro /\ De(duenoProy, Form(w).clave, r.X_PROY)
<1>1. pc[w] \in ConProyecto => pc[w] \in Dentro /\ De(duenoProy, Form(w).clave, obj[w].X_PROY)
  BY DEF IInv, InvHilo, SanoEn, Sano, Dentro
<1>2. CASE \/ Recibe(w) \/ LeeMercado(w) \/ Responde(w) \/ Avanza(w) \/ CreaFormulario(w)
           \/ BuscaAntiguos(w) \/ LeeFoto(w) \/ LeeProyecto(w) \/ CreaExpediente(w)
           \/ AsignaServicio(w) \/ GENERATE_X_PROY(w) \/ Rollback(w)
  BY <1>2 DEF Recibe, LeeMercado, Responde, Avanza, CreaFormulario, BuscaAntiguos,
     LeeFoto, LeeProyecto, CreaExpediente, AsignaServicio, GENERATE_X_PROY, Rollback, externo
<1>3. CASE \/ INPROYECTO(w) \/ INBIP(w) \/ ININI(w) \/ INCODMERCADOPUB(w)
           \/ INUBICATION(w) \/ INTOMARAZON(w) \/ SAVEOC(w) \/ INADJUDICACION(w)
           \/ INSPATIAL(w)
  <2>1. pc[w] \in ConProyecto
    BY <1>3 DEF INPROYECTO, INBIP, ININI, INCODMERCADOPUB, INUBICATION, INTOMARAZON, SAVEOC,
       INADJUDICACION, INSPATIAL, ConProyecto
  <2>2. r.X_PROY = obj[w].X_PROY
    BY <1>3 DEF INPROYECTO, INBIP, ININI, INCODMERCADOPUB, INUBICATION, INTOMARAZON, SAVEOC,
       INADJUDICACION, INSPATIAL, Alta, FilaNueva
  <2> QED BY <1>1, <2>1, <2>2
<1>4. CASE Borra(w) \/ RollbackBorra(w)
  <2>1. pc[w] \in ConProyecto /\ r.X_PROY = obj[w].X_PROY
    BY <1>4 DEF Borra, RollbackBorra, delFromGeo, FilasDe, ConProyecto
  <2> QED BY <1>1, <2>1
<1>5. CASE Restaura(w)
  <2>1. pc[w] = "restaura" /\ r \in lazo[w].filas
    BY <1>5 DEF Restaura, Primeras
  <2>2. pc[w] \in Dentro /\ pc[w] \in ConFilas
    BY <2>1 DEF Dentro, ConFilas
  <2> QED BY <2>1, <2>2 DEF IInv, InvHilo, SanoEn, Sano, FilaDe
<1> QED BY <1>2, <1>3, <1>4, <1>5 DEF Paso

LEMMA PasoLineas ==
  ASSUME "seq" \notin Fallas, IInv, NEW w \in Hilo, Recibe(w) \/ Paso(w), NEW k
  PROVE  /\ DeLinea(db', duenoProy', k) = DeLinea(db', duenoProy, k)
         /\ pc[w] \notin Dentro \/ k # Form(w).clave =>
              DeLinea(db', duenoProy', k) = DeLinea(db, duenoProy, k)
<1>1. Extiende(duenoProy, duenoProy')
  BY PasoResultado DEF Resultado
<1>2. \A r \in db' : r.X_PROY \in DOMAIN duenoProy
  <2> SUFFICES ASSUME NEW r \in db' PROVE r.X_PROY \in DOMAIN duenoProy
    OBVIOUS
  <2>1. CASE r \in db
    BY <2>1 DEF IInv, InvDb, FilaBien
  <2>2. CASE r \notin db
    BY <2>2, Toca DEF De
  <2> QED BY <2>1, <2>2
<1>3. DeLinea(db', duenoProy', k) = DeLinea(db', duenoProy, k)
  BY <1>1, <1>2 DEF DeLinea, De, Extiende
<1>4. ASSUME pc[w] \notin Dentro \/ k # Form(w).clave
      PROVE  DeLinea(db', duenoProy, k) = DeLinea(db, duenoProy, k)
  <2>1. ASSUME NEW r, De(duenoProy, k, r.X_PROY) PROVE r \in db <=> r \in db'
    <3> SUFFICES ASSUME (r \in db /\ r \notin db') \/ (r \in db' /\ r \notin db) PROVE FALSE
      OBVIOUS
    <3>1. pc[w] \in Dentro /\ De(duenoProy, Form(w).clave, r.X_PROY)
      BY Toca
    <3> QED BY <1>4, <2>1, <3>1 DEF De
  <2> QED BY <2>1 DEF DeLinea
<1> QED BY <1>3, <1>4

LEMMA OtraLinea ==
  ASSUME LineasSeparadas, TInv, InvPedido, NEW v \in Hilo, NEW w \in Hilo, v # w,
         pc[v] \in Activo, pc[w] \in Activo
  PROVE  Form(v).clave # Form(w).clave
<1>1. /\ n[v] \in DOMAIN peticion[v].formularios
      /\ n[w] \in DOMAIN peticion[w].formularios
  BY DEF TInv, ConFormulario, Activo, Dentro, ConProyecto, ConExpediente, ConFilas
<1>2. peticion[v] \in Peticiones[v] /\ peticion[w] \in Peticiones[w]
  <2>1. DOMAIN <<>> = {}
    OBVIOUS
  <2> QED BY <1>1, <2>1 DEF InvPedido, Suya
<1> QED BY <1>1, <1>2 DEF LineasSeparadas, Form

(* The history a step writes is that of its own worker.                      *)
LEMMA PasoHistoria ==
  ASSUME TInv, NEW w \in Hilo, Recibe(w) \/ Paso(w)
  PROVE  \A v \in Hilo \ {w} : fin'[v] = fin[v] /\ antes'[v] = antes[v]
<1> USE DEF TInv, TypeOK
<1>1. CASE \/ Recibe(w) \/ LeeMercado(w) \/ Responde(w) \/ Avanza(w) \/ CreaFormulario(w)
           \/ LeeProyecto(w) \/ CreaExpediente(w) \/ AsignaServicio(w) \/ GENERATE_X_PROY(w)
  BY <1>1 DEF Recibe, LeeMercado, Responde, Avanza, CreaFormulario, LeeProyecto,
     CreaExpediente, AsignaServicio, GENERATE_X_PROY, Termina, Escapa, Excepcion, Silencio,
     Sigue, historia
<1>2. CASE BuscaAntiguos(w) \/ LeeFoto(w) \/ Borra(w)
  BY <1>2 DEF BuscaAntiguos, LeeFoto, Borra, Fotografia, delFromGeo, OtraTabla,
     Excepcion, Sigue
<1>3. CASE \/ INPROYECTO(w) \/ INBIP(w) \/ ININI(w) \/ INCODMERCADOPUB(w)
           \/ INTOMARAZON(w) \/ SAVEOC(w) \/ INADJUDICACION(w) \/ INSPATIAL(w)
  BY <1>3 DEF INPROYECTO, INBIP, ININI, INCODMERCADOPUB, INTOMARAZON, SAVEOC,
     INADJUDICACION, INSPATIAL, Alta, Termina, Excepcion, Silencio, Sigue
<1>4. CASE INUBICATION(w)
  BY <1>4 DEF INUBICATION, Alta, Termina, Excepcion, Silencio, Sigue
<1>5. CASE Rollback(w) \/ RollbackBorra(w) \/ Restaura(w)
  BY <1>5 DEF Rollback, RollbackBorra, Restaura, delFromGeo, OtraTabla,
     FalloRollback, Termina, Escapa, Sigue
<1> QED BY <1>1, <1>2, <1>3, <1>4, <1>5 DEF Paso

(* Only the last step of the restoration ends a form with "revertido".       *)
LEMMA PasoFin ==
  ASSUME VInv, NEW w \in Hilo, Recibe(w) \/ Paso(w), fin'[w] = "revertido"
  PROVE  Restaura(w) /\ pc'[w] = "siguiente"
<1>1. /\ pc \in [Hilo -> Punto] /\ fin \in [Hilo -> Final]
      /\ pc[w] # "siguiente" => fin[w] # "revertido"
  BY DEF VInv, IInv, TInv, TypeOK, InvFin
<1>2. CASE \/ Recibe(w) \/ LeeMercado(w) \/ Responde(w) \/ Avanza(w) \/ CreaFormulario(w)
           \/ LeeProyecto(w) \/ CreaExpediente(w) \/ AsignaServicio(w) \/ GENERATE_X_PROY(w)
  BY <1>1, <1>2 DEF Recibe, LeeMercado, Responde, Avanza, CreaFormulario, LeeProyecto,
     CreaExpediente, AsignaServicio, GENERATE_X_PROY, Termina, Escapa, Excepcion, Silencio,
     Sigue, historia
<1>3. CASE BuscaAntiguos(w) \/ LeeFoto(w) \/ Borra(w)
  BY <1>1, <1>3 DEF BuscaAntiguos, LeeFoto, Borra, Fotografia, delFromGeo, OtraTabla,
     Excepcion, Sigue
<1>4. CASE \/ INPROYECTO(w) \/ INBIP(w) \/ ININI(w) \/ INCODMERCADOPUB(w)
           \/ INTOMARAZON(w) \/ SAVEOC(w) \/ INADJUDICACION(w) \/ INSPATIAL(w)
  BY <1>1, <1>4 DEF INPROYECTO, INBIP, ININI, INCODMERCADOPUB, INTOMARAZON, SAVEOC,
     INADJUDICACION, INSPATIAL, Alta, Termina, Excepcion, Silencio, Sigue
<1>5. CASE INUBICATION(w)
  BY <1>1, <1>5 DEF INUBICATION, Alta, Termina, Excepcion, Silencio, Sigue
<1>6. CASE Rollback(w) \/ RollbackBorra(w)
  BY <1>1, <1>6 DEF Rollback, RollbackBorra, delFromGeo, OtraTabla,
     FalloRollback, Termina, Escapa, Sigue
<1>7. CASE Restaura(w)
  BY <1>1, <1>7 DEF Restaura, FalloRollback, Termina, Escapa, Ir
<1> QED BY <1>2, <1>3, <1>4, <1>5, <1>6, <1>7 DEF Paso

(* The form stays the same where it is looked at.                            *)
LEMMA PasoForm ==
  ASSUME TInv, NEW w \in Hilo, Recibe(w) \/ Paso(w), pc'[w] \in Activo
  PROVE  Form(w)' = Form(w)
<1>1. "datos" \notin Activo /\ "formulario" \notin Activo
  BY DEF Activo, Dentro, ConProyecto, ConExpediente, ConFilas
<1>2. CASE Recibe(w) \/ Avanza(w)
  BY <1>1, <1>2 DEF Recibe, Avanza, Ir, TInv, TypeOK
<1>3. ASSUME ~(Recibe(w) \/ Avanza(w)) PROVE UNCHANGED <<peticion, n>>
  BY <1>3 DEF Paso, LeeMercado, Responde, CreaFormulario, BuscaAntiguos, LeeFoto,
     LeeProyecto, Borra, CreaExpediente, AsignaServicio, GENERATE_X_PROY, INPROYECTO,
     INBIP, ININI, INCODMERCADOPUB, INUBICATION, INTOMARAZON, SAVEOC, INADJUDICACION,
     INSPATIAL, Rollback, RollbackBorra, Restaura
<1> QED BY <1>2, <1>3 DEF Form
-----------------------------------------------------------------------------
LEMMA PasoCuadra ==
  ASSUME SoloExcepciones, VInv, NEW w \in Hilo, Recibe(w) \/ Paso(w)
  PROVE  InvCuadra'
<1>1. "seq" \notin Fallas /\ IInv /\ Queda(w)
  BY PasoQueda DEF SoloExcepciones, VInv
<1>2. ASSUME NEW k \in Clave PROVE Cuadra(DeLinea(db', duenoProy', k))
  <2>1. CASE pc[w] \in Dentro /\ k = Form(w).clave
    <3>1. DeLinea(db', duenoProy', k) = Nuevas(w)
      BY <1>1, <2>1, PasoLineas DEF Nuevas
    <3> QED BY <1>1, <2>1, <3>1 DEF Queda
  <2>2. CASE pc[w] \notin Dentro \/ k # Form(w).clave
    <3>1. DeLinea(db', duenoProy', k) = DeLinea(db, duenoProy, k)
      BY <1>1, <2>2, PasoLineas
    <3> QED BY <3>1 DEF VInv, InvCuadra
  <2> QED BY <2>1, <2>2
<1> QED BY <1>2 DEF InvCuadra

(* The rows of a form's line, seen by the worker that moves and the others.  *)
LEMMA FilasSuyas ==
  ASSUME "seq" \notin Fallas, IInv, NEW w \in Hilo, Recibe(w) \/ Paso(w), pc'[w] \in Activo
  PROVE  Filas(w)' = Nuevas(w)
<1>1. Form(w)' = Form(w)
  BY PasoForm DEF IInv
<1>2. DeLinea(db', duenoProy', Form(w).clave) = Nuevas(w)
  BY PasoLineas DEF Nuevas
<1>3. Filas(w)' = DeLinea(db', duenoProy', Form(w)'.clave)
  BY DEF Filas, DeLinea
<1> QED BY <1>1, <1>2, <1>3

LEMMA FilasAjenas ==
  ASSUME LineasSeparadas, "seq" \notin Fallas, IInv, InvPedido, NEW w \in Hilo,
         Recibe(w) \/ Paso(w), NEW v \in Hilo \ {w}, pc[v] \in Activo
  PROVE  Filas(v)' = Filas(v)
<1>1. Form(v)' = Form(v)
  BY PasoOtros DEF IInv, Otros, Form
<1>2. pc[w] \notin Dentro \/ Form(v).clave # Form(w).clave
  BY OtraLinea DEF IInv, Activo
<1>3. DeLinea(db', duenoProy', Form(v).clave) = DeLinea(db, duenoProy, Form(v).clave)
  BY <1>2, PasoLineas
<1>4. Filas(v)' = DeLinea(db', duenoProy', Form(v)'.clave)
  BY DEF Filas, DeLinea
<1> QED BY <1>1, <1>3, <1>4 DEF Filas

LEMMA PasoSabe ==
  ASSUME LineasSeparadas, SoloExcepciones, VInv, NEW w \in Hilo, Recibe(w) \/ Paso(w)
  PROVE  InvSabe'
<1>1. "seq" \notin Fallas /\ IInv /\ TInv /\ InvPedido /\ Queda(w)
  BY PasoQueda DEF SoloExcepciones, VInv, IInv
<1>2. ASSUME NEW v \in Hilo \ {w}, pc'[v] \in Activo
      PROVE  Sabe(Filas(v)', obj'[v], lazo'[v], pc'[v], antes'[v])
  <2>1. pc'[v] = pc[v] /\ obj'[v] = obj[v] /\ lazo'[v] = lazo[v] /\ antes'[v] = antes[v]
    BY <1>1, PasoOtros, PasoHistoria DEF Otros
  <2>2. Filas(v)' = Filas(v)
    BY <1>1, <1>2, <2>1, FilasAjenas
  <2>3. Sabe(Filas(v), obj[v], lazo[v], pc[v], antes[v])
    BY <1>2, <2>1 DEF VInv, InvSabe
  <2> QED BY <2>1, <2>2, <2>3
<1>3. ASSUME pc'[w] \in Activo PROVE Sabe(Filas(w)', obj'[w], lazo'[w], pc'[w], antes'[w])
  BY <1>1, <1>3, FilasSuyas DEF Queda
<1> QED BY <1>2, <1>3 DEF InvSabe

LEMMA PasoInvFin ==
  ASSUME LineasSeparadas, SoloExcepciones, VInv, NEW w \in Hilo, Recibe(w) \/ Paso(w)
  PROVE  InvFin'
<1>1. "seq" \notin Fallas /\ IInv /\ TInv /\ InvPedido
  BY DEF SoloExcepciones, VInv, IInv
<1>2. ASSUME NEW v \in Hilo \ {w}, fin'[v] = "revertido"
      PROVE  pc'[v] = "siguiente" /\ Repuesta(Filas(v)', antes'[v])
  <2>1. pc'[v] = pc[v] /\ fin'[v] = fin[v] /\ antes'[v] = antes[v]
    BY <1>1, PasoOtros, PasoHistoria DEF Otros
  <2>2. pc[v] = "siguiente" /\ Repuesta(Filas(v), antes[v])
    BY <1>2, <2>1 DEF VInv, InvFin
  <2>3. Filas(v)' = Filas(v)
    BY <1>1, <2>2, FilasAjenas DEF Activo
  <2> QED BY <2>1, <2>2, <2>3
<1>3. ASSUME fin'[w] = "revertido"
      PROVE  pc'[w] = "siguiente" /\ Repuesta(Filas(w)', antes'[w])
  <2>1. Restaura(w) /\ pc'[w] = "siguiente"
    BY <1>3, PasoFin
  <2>2. Repuesta(Nuevas(w), antes'[w])
    BY <1>3, <2>1, RestauraQueda
  <2>3. Filas(w)' = Nuevas(w)
    BY <1>1, <2>1, FilasSuyas DEF Activo
  <2> QED BY <2>1, <2>2, <2>3
<1> QED BY <1>2, <1>3 DEF InvFin

LEMMA InitVInv == Init => VInv
<1> SUFFICES ASSUME Init PROVE VInv
  OBVIOUS
<1>1. IInv /\ InvPedido
  BY InitIInv DEF Init, InvPedido, Suya
<1>2. InvSabe /\ InvFin
  BY DEF Init, InvSabe, InvFin, Activo, Dentro, ConProyecto, ConExpediente, ConFilas
<1>3. InvCuadra
  BY DEF Init, InvCuadra, Cuadra, DeLinea
<1> QED BY <1>1, <1>2, <1>3 DEF VInv

LEMMA PasoVInv ==
  ASSUME LineasSeparadas, SoloExcepciones, VInv, [Next]_vars
  PROVE  VInv'
<1>1. IInv' /\ IInv /\ TInv
  BY PasoIInv DEF VInv, SoloExcepciones, IInv
<1>2. CASE \E w \in Hilo : Recibe(w) \/ Paso(w)
  BY <1>1, <1>2, PasoPedido, PasoCuadra, PasoSabe, PasoInvFin DEF VInv
<1>3. CASE Caida
  <2>1. InvPedido'
    BY <1>3 DEF Caida, InvPedido, Suya, VInv
  <2>2. InvCuadra'
    BY <1>3 DEF Caida, externo, InvCuadra, DeLinea, VInv
  <2>3. InvSabe' /\ InvFin'
    BY <1>3 DEF Caida, InvSabe, InvFin, Activo, Dentro, ConProyecto, ConExpediente, ConFilas
  <2> QED BY <1>1, <2>1, <2>2, <2>3 DEF VInv
<1>4. CASE UNCHANGED vars
  <2>1. InvPedido'
    BY <1>4 DEF vars, local, InvPedido, Suya, VInv
  <2>2. InvCuadra'
    BY <1>4 DEF vars, externo, InvCuadra, DeLinea, VInv
  <2>3. InvSabe'
    BY <1>4 DEF vars, externo, local, historia, InvSabe, Filas, DeLinea, Form, VInv
  <2>4. InvFin'
    BY <1>4 DEF vars, externo, local, historia, InvFin, Filas, DeLinea, Form, VInv
  <2> QED BY <1>1, <2>1, <2>2, <2>3, <2>4 DEF VInv
<1> QED BY <1>2, <1>3, <1>4 DEF Next
-----------------------------------------------------------------------------
LEMMA Unico == VInv => UnicoPorClave
<1> SUFFICES ASSUME VInv, NEW k \in Clave PROVE Cardinality(Proyectos(k)) <= 1
  BY DEF UnicoPorClave
<1>1. ASSUME NEW f \in db, f.tabla = "IDMU", f.dato = k PROVE f \in DeLinea(db, duenoProy, k)
  BY <1>1 DEF VInv, IInv, InvDb, FilaBien, DeLinea, De
<1>2. \A x, y \in Proyectos(k) : x = y
  <2> SUFFICES ASSUME NEW f \in db, f.tabla = "IDMU", f.dato = k,
                      NEW g \in db, g.tabla = "IDMU", g.dato = k
               PROVE  f.X_PROY = g.X_PROY
    BY DEF Proyectos
  <2> QED BY <1>1 DEF VInv, InvCuadra, Cuadra
<1>3. CASE Proyectos(k) = {}
  BY <1>3, FS_EmptySet
<1>4. CASE Proyectos(k) # {}
  <2>1. PICK x : Proyectos(k) = {x}
    BY <1>2, <1>4
  <2> QED BY <2>1, FS_Singleton
<1> QED BY <1>3, <1>4

LEMMA Huerfanas == VInv => SinHuerfanas
<1> SUFFICES ASSUME VInv, NEW f \in db, f.tabla # "OC" PROVE FilasDe("PROY", f.X_PROY) # {}
  BY DEF SinHuerfanas
<1> DEFINE k == duenoProy[f.X_PROY]
<1>1. f.X_PROY \in DOMAIN duenoProy /\ duenoProy \in Seq(Clave)
  BY DEF VInv, IInv, TInv, TypeOK, InvDb, FilaBien
<1>2. k \in Clave
  BY <1>1
<1>3. f \in DeLinea(db, duenoProy, k)
  BY <1>1 DEF DeLinea, De
<1>4. Hay(DeLinea(db, duenoProy, k), "PROY", f.X_PROY)
  BY <1>2, <1>3 DEF VInv, InvCuadra, Cuadra
<1> QED BY <1>4 DEF Hay, DeLinea, FilasDe

LEMMA Reversion == VInv => ReversionFiel
<1> SUFFICES ASSUME VInv, NEW w \in Hilo, fin[w] = "revertido"
             PROVE  DeLaLinea(w) = {Legible(f) : f \in antes[w]}
  BY DEF ReversionFiel
<1>1. pc[w] \in Activo /\ Repuesta(Filas(w), antes[w])
  BY DEF VInv, InvFin, Activo
<1>2. /\ \A r \in Filas(w) : r.tabla = "IDMU" => r.dato = Form(w).clave
      /\ \A r \in db : r.tabla = "IDMU" /\ r.dato = Form(w).clave => r \in Filas(w)
  BY <1>1, Contexto
<1>3. ASSUME NEW r PROVE r \in DeLaLinea(w) <=>
                (/\ r \in Filas(w) /\ r.tabla # "OC"
                 /\ \E s \in Filas(w) : s.tabla = "IDMU" /\ s.X_PROY = r.X_PROY)
  BY <1>2 DEF DeLaLinea, Proyectos, Filas, DeLinea
<1>4. \A r : r \in DeLaLinea(w) <=> Salvada(antes[w], r)
  BY <1>1, <1>3 DEF Repuesta
<1> QED BY <1>4 DEF Salvada

(* A tender line has at most one project at every moment: set has deleted    *)
(* the earlier one before INCODMERCADOPUB or the rollback names another,     *)
(* whichever call threw, when no two workers register the line.              *)
THEOREM UnicoSiempre == LineasSeparadas /\ SoloExcepciones => (Spec => []UnicoPorClave)
<1> SUFFICES ASSUME LineasSeparadas, SoloExcepciones PROVE Spec => []UnicoPorClave
  OBVIOUS
<1>1. VInv /\ [Next]_vars => VInv'
  BY PasoVInv
<1> QED BY InitVInv, <1>1, Unico, PTL DEF Spec

(* No row but a purchase order is ever without its SISGEOB_PROYECTO row:     *)
(* delFromGeo deletes that row last, set inserts it first and the rollback   *)
(* restores it first, so that no exception or restart leaves one hanging.    *)
THEOREM SinHuerfanasSiempre == LineasSeparadas /\ SoloExcepciones => (Spec => []SinHuerfanas)
<1> SUFFICES ASSUME LineasSeparadas, SoloExcepciones PROVE Spec => []SinHuerfanas
  OBVIOUS
<1>1. VInv /\ [Next]_vars => VInv'
  BY PasoVInv
<1> QED BY InitVInv, <1>1, Huerfanas, PTL DEF Spec

(* A rollback that ends well leaves the line with exactly the rows it had    *)
(* when its form looked it up, without the geometry, wherever the exception  *)
(* came: what the interrupted registration had inserted is gone.             *)
THEOREM ReversionSiempre == LineasSeparadas /\ SoloExcepciones => (Spec => []ReversionFiel)
<1> SUFFICES ASSUME LineasSeparadas, SoloExcepciones PROVE Spec => []ReversionFiel
  OBVIOUS
<1>1. VInv /\ [Next]_vars => VInv'
  BY PasoVInv
<1> QED BY InitVInv, <1>1, Reversion, PTL DEF Spec
-----------------------------------------------------------------------------
(* What is not lost. No call fails but those of Mercado Publico and Trew@,   *)
(* and the server does not restart; what a form must bring is apart.         *)

SinCortes   == Fallas \subseteq {"mp", "trewa", "bandeja"} /\ MaxCaidas = 0
ConMapa    == \A w \in Hilo : \A p \in Peticiones[w] : \A k \in DOMAIN p.formularios :
                p.formularios[k].spatial # "ausente"
ConComunas == \A w \in Hilo : \A p \in Peticiones[w] : \A k \in DOMAIN p.formularios :
                p.formularios[k].comunas # <<>>

(* Where the rows of the line are being replaced, or made for the first time.*)
Obra      == Dentro \ {"busca", "foto", "proyecto"}
EnObra(k) == \E w \in Hilo : pc[w] \in Obra /\ Form(w).clave = k

(* The rows have a project with those of the checked inserts, or its key.    *)
Completo(R) == \E x : Hay(R, "PROY", x) /\ Hay(R, "IDMU", x) /\ Hay(R, "TORA", x) /\ Hay(R, "ADJU", x)
ConFicha(R) == \E r \in R : r.tabla = "IDMU"

(* What has to be at hand at p for a line that was registered once.          *)
Guarda(A, o, p) ==
  /\ p \notin {"creaExp", "asigna"}
  /\ p # "busca" => Completo(A)
  /\ p \notin {"busca", "foto"} => o.hayRollback
  /\ p = "excepcion" => o.X_PROY # Nulo

InvRegistradas == \A k \in registradas : EnObra(k) \/ Completo(DeLinea(db, duenoProy, k))
InvGuarda == \A w \in Hilo : pc[w] \in Dentro /\ Form(w).clave \in registradas =>
                               Guarda(antes[w], obj[w], pc[w])
InvEnCurso == \A w \in Hilo : pc[w] \in Dentro => fin[w] = "ninguno"
BInv == VInv /\ InvAltas /\ InvEnCurso
PInv == BInv /\ InvRegistradas /\ InvGuarda

(* A case file has a key that leads to it, or a worker that will write it.   *)
Abierto(k)   == \E e \in DOMAIN duenoExpe : duenoExpe[e] = k
InvUno       == \A e, f \in DOMAIN duenoExpe : duenoExpe[e] = duenoExpe[f] => e = f
InvAbiertos  == \A k \in Clave : Abierto(k) => EnObra(k) \/ ConFicha(DeLinea(db, duenoProy, k))
InvFicha     == \A w \in Hilo : /\ pc[w] = "creaExp" => ~Abierto(Form(w).clave)
                                /\ pc[w] = "excepcion" => ConFicha(Filas(w))
EInv == BInv /\ InvUno /\ InvAbiertos /\ InvFicha
-----------------------------------------------------------------------------
(* The road of a form when no call fails.                                    *)

LEMMA SinFallos ==
  ASSUME SinCortes
  PROVE  /\ SoloExcepciones /\ "seq" \notin Fallas
         /\ Salidas(FallaFind) = {"ok"} /\ Salidas(FallaDelete) = {"ok"}
         /\ Salidas(FallaInsert) = {"ok"} /\ Salidas(FallaSeq) = {"ok"}
BY DEF SinCortes, SoloExcepciones, Salidas, FallaFind, FallaDelete, FallaInsert, FallaSeq

LEMMA FormPedida ==
  ASSUME TInv, InvPedido, NEW w \in Hilo, pc[w] \in Activo
  PROVE  /\ ConMapa => Form(w).spatial # "ausente"
         /\ ConComunas => Form(w).comunas # <<>>
<1>1. n[w] \in DOMAIN peticion[w].formularios
  BY DEF TInv, ConFormulario, Activo, Dentro, ConProyecto, ConExpediente, ConFilas
<1>2. peticion[w] \in Peticiones[w]
  <2>1. DOMAIN <<>> = {}
    OBVIOUS
  <2> QED BY <1>1, <2>1 DEF InvPedido, Suya
<1> QED BY <1>1, <1>2 DEF ConMapa, ConComunas, Form

Altas == {"INPROYECTO"} \cup TrasPROY

Callado(w) == antes'[w] = antes[w] /\ UNCHANGED <<duenoExpe, registradas>>
Guardado(w) == obj'[w].hayRollback = obj[w].hayRollback

Camina(w) ==
  \/ /\ Callado(w) /\ Guardado(w)
     /\ \/ pc[w] = "proyecto" /\ pc'[w] \in {"siguiente", "borra"} /\ UNCHANGED db
        \/ pc[w] = "borra" /\ pc'[w] \in {"borra", "genera"}
        \/ pc[w] = "asigna" /\ pc'[w] = "genera"
        \/ pc[w] = "genera" /\ pc'[w] = "INPROYECTO"
        \/ pc[w] \in Altas /\ pc'[w] \in Altas
        \/ pc[w] = "excepcion" /\ pc'[w] = "rborra"
        \/ pc[w] \in {"rborra", "restaura"} /\ pc'[w] \in {"rborra", "restaura"}
  \/ /\ Callado(w) /\ UNCHANGED db /\ pc[w] = "foto"
     /\ pc'[w] = "foto" \/ (pc'[w] = "proyecto" /\ obj'[w].hayRollback)
  \/ /\ Callado(w) /\ UNCHANGED <<db, obj>>
     /\ \/ pc[w] = "INUBICATION" /\ pc'[w] = "siguiente" /\ Form(w).comunas = <<>>
        \/ pc[w] \in {"INUBICATION", "INSPATIAL"} /\ pc'[w] = "excepcion"
        \/ pc[w] = "asigna" /\ pc'[w] = "excepcion" /\ "bandeja" \in Fallas
        \/ /\ pc[w] = "excepcion" /\ pc'[w] \in {"siguiente", "libre"}
           /\ ~obj[w].hayRollback \/ obj[w].X_PROY = Nulo
  \/ /\ Callado(w) /\ UNCHANGED <<db, obj>> /\ pc[w] = "restaura" /\ pc'[w] = "siguiente"
     /\ Repuesta(Nuevas(w), antes[w])

Parte(w) ==
  \/ /\ pc[w] = "busca" /\ UNCHANGED <<db, duenoExpe, registradas>>
     /\ \/ pc'[w] = "creaExp" /\ ~ConFicha(Filas(w))
        \/ pc'[w] = "foto" /\ (Completo(Filas(w)) => Completo(antes'[w]))
  \/ /\ pc[w] = "creaExp" /\ pc'[w] = "asigna" /\ UNCHANGED <<db, registradas>>
     /\ UNCHANGED duenoExpe \/ duenoExpe' = Append(duenoExpe, Form(w).clave)
  \/ /\ pc[w] = "INSPATIAL" /\ pc'[w] = "siguiente" /\ db \subseteq db' /\ UNCHANGED duenoExpe
     /\ registradas' = registradas \cup {Form(w).clave}

LEMMA BuscaParte ==
  ASSUME SinCortes, VInv, NEW w \in Hilo, BuscaAntiguos(w)
  PROVE  Parte(w)
<1> DEFINE xs == {f.X_PROY : f \in {g \in db : g.tabla = "IDMU" /\ g.dato = Form(w).clave}}
           A == {f \in db : f.X_PROY \in xs /\ f.tabla # "OC"}
<1>1. /\ pc[w] = "busca" /\ UNCHANGED <<db, duenoProy, duenoExpe, registradas>>
      /\ antes' = [antes EXCEPT ![w] = A]
      /\ \/ xs = {} /\ pc' = [pc EXCEPT ![w] = "creaExp"]
         \/ pc' = [pc EXCEPT ![w] = "foto"]
  BY SinFallos DEF BuscaAntiguos, Fotografia, Sigue, Ir, Excepcion, externo
<1>2. pc \in [Hilo -> Punto] /\ antes \in [Hilo -> SUBSET Fila]
  BY DEF VInv, IInv, TInv, TypeOK
<1>3. \A r \in Filas(w) : r.tabla = "IDMU" => r.dato = Form(w).clave
  BY <1>1, Contexto DEF Activo, Dentro
<1>4. xs = {} => ~ConFicha(Filas(w))
  BY <1>3 DEF ConFicha, Filas, DeLinea
<1>5. ASSUME Completo(Filas(w)) PROVE Completo(A)
  <2>1. PICK x : /\ Hay(Filas(w), "PROY", x) /\ Hay(Filas(w), "IDMU", x)
                 /\ Hay(Filas(w), "TORA", x) /\ Hay(Filas(w), "ADJU", x)
    BY <1>5 DEF Completo
  <2>2. x \in xs
    BY <1>3, <2>1 DEF Hay, Filas, DeLinea
  <2>3. \A t : t # "OC" /\ Hay(Filas(w), t, x) => Hay(A, t, x)
    BY <2>2 DEF Hay, Filas, DeLinea
  <2> QED BY <2>1, <2>3 DEF Completo
<1> QED BY <1>1, <1>2, <1>4, <1>5 DEF Parte

LEMMA CreaExpedienteParte ==
  ASSUME VInv, NEW w \in Hilo, CreaExpediente(w)
  PROVE  Parte(w)
BY DEF VInv, IInv, TInv, TypeOK, CreaExpediente, Sigue, Ir, Parte

LEMMA PasoEnCurso ==
  ASSUME TInv, InvEnCurso, NEW w \in Hilo, Recibe(w) \/ Paso(w)
  PROVE  InvEnCurso'
<1>1. ASSUME NEW v \in Hilo \ {w}, pc'[v] \in Dentro PROVE fin'[v] = "ninguno"
  BY <1>1, PasoOtros, PasoHistoria DEF Otros, InvEnCurso
<1>2. ASSUME pc'[w] \in Dentro PROVE fin'[w] = "ninguno"
  <2> USE DEF TInv, TypeOK
  <2>1. /\ pc \in [Hilo -> Punto] /\ fin \in [Hilo -> Final]
        /\ pc[w] \in Dentro => fin[w] = "ninguno"
    BY DEF InvEnCurso
  <2>2. {"libre", "datos", "formulario", "siguiente"} \cap Dentro = {}
    BY DEF Dentro, ConProyecto, ConExpediente, ConFilas
  <2>3. CASE Recibe(w) \/ LeeMercado(w) \/ Responde(w) \/ Avanza(w) \/ CreaFormulario(w)
    BY <1>2, <2>1, <2>2, <2>3 DEF Recibe, LeeMercado, Responde, Avanza, CreaFormulario,
       Termina, Escapa, Ir
  <2>4. ASSUME ~(Recibe(w) \/ LeeMercado(w) \/ Responde(w) \/ Avanza(w) \/ CreaFormulario(w))
        PROVE  fin'[w] = fin[w] /\ pc[w] \in Dentro
    <3>1. pc[w] \in Dentro
      BY <2>4 DEF Paso, LeeProyecto, CreaExpediente, AsignaServicio, GENERATE_X_PROY,
         BuscaAntiguos, LeeFoto, Borra, INPROYECTO, INBIP, ININI, INCODMERCADOPUB,
         INUBICATION, INTOMARAZON, SAVEOC, INADJUDICACION, INSPATIAL, Rollback, RollbackBorra,
         Restaura, Dentro, ConProyecto, ConExpediente, ConFilas
    <3>2. CASE LeeProyecto(w) \/ CreaExpediente(w) \/ AsignaServicio(w) \/ GENERATE_X_PROY(w)
      BY <1>2, <2>1, <2>2, <3>1, <3>2 DEF LeeProyecto, CreaExpediente, AsignaServicio,
         GENERATE_X_PROY, Termina, Excepcion, Silencio, Sigue, Ir
    <3>3. CASE BuscaAntiguos(w) \/ LeeFoto(w) \/ Borra(w)
      BY <3>1, <3>3 DEF BuscaAntiguos, LeeFoto, Borra, Fotografia, delFromGeo, OtraTabla,
         Excepcion, Sigue
    <3>4. CASE \/ INPROYECTO(w) \/ INBIP(w) \/ ININI(w) \/ INCODMERCADOPUB(w)
               \/ INTOMARAZON(w) \/ SAVEOC(w) \/ INADJUDICACION(w) \/ INSPATIAL(w)
      BY <1>2, <2>1, <2>2, <3>1, <3>4 DEF INPROYECTO, INBIP, ININI, INCODMERCADOPUB, INTOMARAZON,
         SAVEOC, INADJUDICACION, INSPATIAL, Alta, Termina, Excepcion, Silencio, Sigue, Ir
    <3>5. CASE INUBICATION(w)
      BY <1>2, <2>1, <2>2, <3>1, <3>5 DEF INUBICATION, Alta, Termina, Excepcion, Silencio, Sigue, Ir
    <3>6. CASE Rollback(w) \/ RollbackBorra(w) \/ Restaura(w)
      BY <1>2, <2>1, <2>2, <3>1, <3>6 DEF Rollback, RollbackBorra, Restaura, delFromGeo, OtraTabla,
         FalloRollback, Termina, Escapa, Sigue, Ir
    <3> QED BY <2>4, <3>1, <3>2, <3>3, <3>4, <3>5, <3>6 DEF Paso
  <2> QED BY <2>1, <2>3, <2>4
<1> QED BY <1>1, <1>2 DEF InvEnCurso

LEMMA INSPATIALVa ==
  ASSUME SinCortes, BInv, NEW w \in Hilo, INSPATIAL(w)
  PROVE  Parte(w) \/ Camina(w)
<1>1. pc \in [Hilo -> Punto] /\ fin \in [Hilo -> Final] /\ fin[w] # "OK"
  BY DEF BInv, VInv, IInv, TInv, TypeOK, InvEnCurso, INSPATIAL, Dentro, ConProyecto
<1> QED BY <1>1, SinFallos DEF INSPATIAL, Alta, Termina, Excepcion, Sigue, Ir, Parte, Camina, Callado

LEMMA INCamina ==
  ASSUME SinCortes, VInv, NEW w \in Hilo,
         \/ INPROYECTO(w) \/ INBIP(w) \/ ININI(w) \/ INCODMERCADOPUB(w) \/ INTOMARAZON(w)
         \/ SAVEOC(w) \/ INADJUDICACION(w)
  PROVE  Camina(w)
<1>1. pc \in [Hilo -> Punto]
  BY DEF VInv, IInv, TInv, TypeOK
<1>2. UNCHANGED <<obj, antes, duenoExpe, registradas>>
  BY DEF INPROYECTO, INBIP, ININI, INCODMERCADOPUB, INTOMARAZON, SAVEOC, INADJUDICACION
<1>3. pc[w] \in Altas
  BY DEF INPROYECTO, INBIP, ININI, INCODMERCADOPUB, INTOMARAZON, SAVEOC, INADJUDICACION,
     Altas, TrasPROY, TrasIDMU, TrasTORA, TrasADJU
<1>4. pc'[w] \in {"INBIP", "ININI", "INCODMERCADOPUB", "INUBICATION", "SAVEOC", "INADJUDICACION",
                  "INSPATIAL"}
  BY <1>1, SinFallos DEF INPROYECTO, INBIP, ININI, INCODMERCADOPUB, INTOMARAZON, SAVEOC,
     INADJUDICACION, Alta, Sigue, Ir
<1>5. pc'[w] \in Altas
  BY <1>4 DEF Altas, TrasPROY, TrasIDMU, TrasTORA, TrasADJU
<1> QED BY <1>2, <1>3, <1>5 DEF Camina, Callado, Guardado

LEMMA INUBICATIONCamina ==
  ASSUME SinCortes, VInv, NEW w \in Hilo, INUBICATION(w)
  PROVE  Camina(w)
<1>1. pc \in [Hilo -> Punto]
  BY DEF VInv, IInv, TInv, TypeOK
<1>2. UNCHANGED <<obj, antes, duenoExpe, registradas>> /\ pc[w] = "INUBICATION"
  BY DEF INUBICATION
<1>3. \/ pc'[w] = "siguiente" /\ Form(w).comunas = <<>> /\ UNCHANGED db
      \/ pc'[w] \in {"INUBICATION", "INTOMARAZON"}
      \/ pc'[w] = "excepcion" /\ UNCHANGED db
  BY <1>1, SinFallos DEF INUBICATION, Alta, Termina, Silencio, Excepcion, Sigue, Ir
<1>4. {"INUBICATION", "INTOMARAZON"} \subseteq Altas
  BY DEF Altas, TrasPROY, TrasIDMU, TrasTORA, TrasADJU
<1> QED BY <1>2, <1>3, <1>4 DEF Camina, Callado, Guardado

LEMMA LeeFotoCamina ==
  ASSUME SinCortes, VInv, NEW w \in Hilo, LeeFoto(w)
  PROVE  Camina(w)
<1>1. pc \in [Hilo -> Punto] /\ obj \in [Hilo -> Objeto]
  BY DEF VInv, IInv, TInv, TypeOK
<1>2. UNCHANGED <<db, antes, duenoExpe, registradas>> /\ pc[w] = "foto"
  BY DEF LeeFoto, externo
<1>3. \/ UNCHANGED pc
      \/ /\ pc' = [pc EXCEPT ![w] = "proyecto"]
         /\ \E g : obj' = [obj EXCEPT ![w].ROLLBACK = g, ![w].hayRollback = TRUE]
  BY SinFallos DEF LeeFoto, Sigue, Ir
<1>4. \A g : [obj EXCEPT ![w].ROLLBACK = g, ![w].hayRollback = TRUE][w].hayRollback
  BY <1>1 DEF Objeto
<1> QED BY <1>1, <1>2, <1>3, <1>4 DEF Camina, Callado

LEMMA LeeProyectoCamina ==
  ASSUME SinCortes, VInv, NEW w \in Hilo, LeeProyecto(w)
  PROVE  Camina(w)
<1>1. pc \in [Hilo -> Punto] /\ obj \in [Hilo -> Objeto]
  BY DEF VInv, IInv, TInv, TypeOK
<1>2. UNCHANGED <<db, antes, duenoExpe, registradas>> /\ pc[w] = "proyecto"
  BY DEF LeeProyecto, externo
<1>3. \/ pc' = [pc EXCEPT ![w] = "siguiente"] /\ UNCHANGED obj
      \/ /\ pc' = [pc EXCEPT ![w] = "borra"]
         /\ \E x : obj' = [obj EXCEPT ![w].EXPETREWA = x]
  BY SinFallos DEF LeeProyecto, Silencio, Termina, Sigue, Ir
<1>4. (\E x : obj' = [obj EXCEPT ![w].EXPETREWA = x]) => Guardado(w)
  BY <1>1, ObjSalvo DEF Guardado
<1> QED BY <1>1, <1>2, <1>3, <1>4 DEF Camina, Callado, Guardado

LEMMA BorraCamina ==
  ASSUME SinCortes, VInv, NEW w \in Hilo, Borra(w)
  PROVE  Camina(w)
<1>1. pc \in [Hilo -> Punto] /\ obj \in [Hilo -> Objeto]
  BY DEF VInv, IInv, TInv, TypeOK
<1>2. UNCHANGED <<antes, duenoExpe, registradas>> /\ pc[w] = "borra"
  BY DEF Borra
<1>3. lazo[w].antiguos = {}
  BY <1>2, Contexto DEF Activo, Dentro, ConProyecto, Sabe, ConAntiguos
<1>4. \/ UNCHANGED <<pc, obj>>
      \/ /\ pc' = [pc EXCEPT ![w] = "genera"] /\ obj' = [obj EXCEPT ![w].X_PROY = Nulo]
  BY <1>3, SinFallos DEF Borra, delFromGeo, Fotografia, Sigue, Ir
<1>5. obj' = [obj EXCEPT ![w].X_PROY = Nulo] => Guardado(w)
  BY <1>1, ObjSalvo DEF Guardado
<1> QED BY <1>1, <1>2, <1>4, <1>5 DEF Camina, Callado, Guardado

LEMMA GeneraCamina ==
  ASSUME SinCortes, ConMapa, VInv, NEW w \in Hilo, AsignaServicio(w) \/ GENERATE_X_PROY(w)
  PROVE  Camina(w)
<1>1. pc \in [Hilo -> Punto] /\ obj \in [Hilo -> Objeto]
  BY DEF VInv, IInv, TInv, TypeOK
<1>2. UNCHANGED <<db, antes, duenoExpe, registradas>>
  BY DEF AsignaServicio, GENERATE_X_PROY, externo
<1>3. CASE AsignaServicio(w)
  <2>1. /\ pc[w] = "asigna" /\ UNCHANGED obj
        /\ \/ pc'[w] = "genera"
           \/ pc'[w] = "excepcion" /\ "bandeja" \in Fallas
    BY <1>1, <1>3 DEF AsignaServicio, Excepcion, Sigue, Ir, Salidas
  <2> QED BY <1>2, <2>1 DEF Camina, Callado, Guardado
<1>4. CASE GENERATE_X_PROY(w)
  <2>1. pc[w] = "genera" /\ Form(w).spatial # "ausente"
    BY <1>4, FormPedida DEF GENERATE_X_PROY, VInv, IInv, Activo, Dentro, ConExpediente
  <2>2. pc'[w] = "INPROYECTO" /\ \E x : obj' = [obj EXCEPT ![w].X_PROY = x]
    BY <1>1, <1>4, <2>1, SinFallos DEF GENERATE_X_PROY, Sigue, Ir
  <2> QED BY <1>1, <1>2, <2>1, <2>2, ObjSalvo DEF Camina, Callado, Guardado
<1> QED BY <1>3, <1>4

LEMMA RollbackCamina ==
  ASSUME SinCortes, VInv, NEW w \in Hilo, Rollback(w) \/ RollbackBorra(w) \/ Restaura(w)
  PROVE  Camina(w)
<1>1. pc \in [Hilo -> Punto] /\ obj \in [Hilo -> Objeto] /\ fin \in [Hilo -> Final]
  BY DEF VInv, IInv, TInv, TypeOK
<1>2. UNCHANGED <<antes, duenoExpe, registradas>>
  BY DEF Rollback, RollbackBorra, Restaura, externo
<1>3. CASE Rollback(w)
  <2>1. /\ pc[w] = "excepcion" /\ UNCHANGED <<db, obj>>
        /\ \/ pc'[w] = "rborra"
           \/ pc'[w] \in {"siguiente", "libre"} /\ (~obj[w].hayRollback \/ obj[w].X_PROY = Nulo)
    BY <1>1, <1>3 DEF Rollback, Escapa, Termina, Sigue, Ir, externo
  <2> QED BY <1>2, <2>1 DEF Camina, Callado, Guardado
<1>4. CASE RollbackBorra(w)
  <2>1. /\ pc[w] = "rborra" /\ pc'[w] \in {"rborra", "restaura"}
        /\ UNCHANGED obj \/ \E x : obj' = [obj EXCEPT ![w].X_PROY = x]
    BY <1>1, <1>4, SinFallos DEF RollbackBorra, delFromGeo, OtraTabla, Sigue, Ir
  <2>2. (\E x : obj' = [obj EXCEPT ![w].X_PROY = x]) => Guardado(w)
    BY <1>1, ObjSalvo DEF Guardado
  <2> QED BY <1>1, <1>2, <2>1, <2>2 DEF Camina, Callado, Guardado
<1>5. CASE Restaura(w)
  <2>1. pc[w] = "restaura" /\ UNCHANGED obj
    BY <1>5 DEF Restaura
  <2>2. \/ pc'[w] = "restaura"
        \/ pc'[w] = "siguiente" /\ fin'[w] = "revertido" /\ UNCHANGED db
    BY <1>1, <1>5, <2>1, SinFallos DEF Restaura, Termina, Ir
  <2>3. fin'[w] = "revertido" => Repuesta(Nuevas(w), antes[w])
    BY <1>2, <1>5, SinFallos, RestauraQueda
  <2> QED BY <1>2, <2>1, <2>2, <2>3 DEF Camina, Callado, Guardado
<1> QED BY <1>3, <1>4, <1>5

LEMMA PasoVa ==
  ASSUME SinCortes, ConMapa, BInv, NEW w \in Hilo, Recibe(w) \/ Paso(w), pc[w] \in Dentro
  PROVE  Camina(w) \/ Parte(w)
<1>1. VInv
  BY DEF BInv
<1>2. CASE Recibe(w) \/ LeeMercado(w) \/ Responde(w) \/ Avanza(w) \/ CreaFormulario(w)
  BY <1>2 DEF Recibe, LeeMercado, Responde, Avanza, CreaFormulario, Dentro, ConProyecto,
     ConExpediente, ConFilas
<1>3. CASE BuscaAntiguos(w) \/ LeeFoto(w) \/ LeeProyecto(w) \/ Borra(w)
  BY <1>1, <1>3, BuscaParte, LeeFotoCamina, LeeProyectoCamina, BorraCamina
<1>4. CASE CreaExpediente(w) \/ AsignaServicio(w) \/ GENERATE_X_PROY(w)
  BY <1>1, <1>4, CreaExpedienteParte, GeneraCamina
<1>5. CASE \/ INPROYECTO(w) \/ INBIP(w) \/ ININI(w) \/ INTOMARAZON(w) \/ SAVEOC(w)
           \/ INADJUDICACION(w) \/ INCODMERCADOPUB(w)
  BY <1>1, <1>5, INCamina
<1>6. CASE INUBICATION(w) \/ INSPATIAL(w)
  BY <1>1, <1>6, INUBICATIONCamina, INSPATIALVa
<1>7. CASE Rollback(w) \/ RollbackBorra(w) \/ Restaura(w)
  BY <1>1, <1>7, RollbackCamina
<1> QED BY <1>2, <1>3, <1>4, <1>5, <1>6, <1>7 DEF Paso
-----------------------------------------------------------------------------
(* The checked rows as far as the inserts have come, line by line.           *)

LEMMA AltasLinea ==
  ASSUME NEW D, NEW d, NEW k, NEW x, De(d, k, x), NEW p
  PROVE  Insertadas(D, p, x) <=> Insertadas(DeLinea(D, d, k), p, x)
<1>1. \A t : Hay(D, t, x) <=> Hay(DeLinea(D, d, k), t, x)
  BY DEF Hay, DeLinea
<1> QED BY <1>1 DEF Insertadas

LEMMA PasoBInv ==
  ASSUME LineasSeparadas, SinCortes, BInv, [Next]_vars
  PROVE  BInv'
<1>1. VInv' /\ VInv /\ IInv /\ TInv /\ InvPedido /\ "seq" \notin Fallas
  BY SinFallos, PasoVInv DEF BInv, VInv, IInv
<1>2. CASE \E w \in Hilo : Recibe(w) \/ Paso(w)
  <2>1. PICK w \in Hilo : Recibe(w) \/ Paso(w)
    BY <1>2
  <2>2. ASSUME NEW v \in Hilo \ {w} PROVE Insertadas(db, pc[v], obj[v].X_PROY)'
    <3>1. pc'[v] = pc[v] /\ obj'[v] = obj[v] /\ Form(v)' = Form(v)
      BY <1>1, <2>1, PasoOtros DEF Otros, Form
    <3>2. CASE pc[v] \notin TrasPROY
      BY <3>1, <3>2, FueraDeAltas
    <3>3. CASE pc[v] \in TrasPROY
      <4>1. pc[v] \in ConProyecto /\ pc[v] \in Dentro /\ pc[v] \in Activo
        BY <3>3 DEF TrasPROY, TrasIDMU, TrasTORA, TrasADJU, ConProyecto, Dentro, Activo
      <4>2. De(duenoProy, Form(v).clave, obj[v].X_PROY)
        BY <1>1, <4>1 DEF IInv, InvHilo, SanoEn, Sano
      <4>3. De(duenoProy', Form(v).clave, obj[v].X_PROY)
        BY <1>1, <2>1, <4>2, DeCrece, PasoResultado DEF Resultado
      <4>4. Filas(v)' = Filas(v)
        BY <1>1, <2>1, <4>1, FilasAjenas
      <4>5. Filas(v)' = DeLinea(db', duenoProy', Form(v).clave)
        BY <3>1 DEF Filas, DeLinea
      <4>6. Insertadas(Filas(v), pc[v], obj[v].X_PROY)
        BY <4>2, AltasLinea DEF BInv, InvAltas, Filas
      <4>7. Insertadas(db', pc[v], obj[v].X_PROY)
        BY <4>3, <4>4, <4>5, <4>6, AltasLinea
      <4> QED BY <3>1, <4>7
    <3> QED BY <3>2, <3>3
  <2>3. InvAltas'
    BY <1>1, <2>1, <2>2, AltasSuyas DEF BInv, InvAltas
  <2> QED BY <1>1, <2>1, <2>3, PasoEnCurso DEF BInv
<1>3. CASE Caida
  <2>1. caidas \in 0..MaxCaidas /\ MaxCaidas = 0
    BY <1>1 DEF SinCortes, TInv, TypeOK
  <2>2. caidas < MaxCaidas
    BY <1>3 DEF Caida
  <2> QED BY <2>1, <2>2
<1>4. CASE UNCHANGED vars
  BY <1>1, <1>4 DEF vars, externo, local, historia, BInv, InvAltas, InvEnCurso
<1> QED BY <1>2, <1>3, <1>4 DEF Next

LEMMA InitBInv == Init => BInv
<1>1. Init => InvAltas /\ InvEnCurso
  BY DEF Init, InvAltas, Insertadas, InvEnCurso, TrasPROY, TrasIDMU, TrasTORA, TrasADJU, Dentro,
     ConProyecto, ConExpediente, ConFilas
<1> QED BY <1>1, InitVInv DEF BInv

(* Nobody else works on the line of a form, and where the rows are.          *)
LEMMA Solo ==
  ASSUME LineasSeparadas, VInv, NEW w \in Hilo, pc[w] \in Activo, pc[w] \notin Obra
  PROVE  ~EnObra(Form(w).clave)
<1> SUFFICES ASSUME NEW v \in Hilo, pc[v] \in Obra, Form(v).clave = Form(w).clave PROVE FALSE
  BY DEF EnObra
<1>1. pc[v] \in Activo /\ v # w
  BY DEF Obra, Activo
<1> QED BY <1>1, OtraLinea DEF VInv, IInv

LEMMA Puntos ==
  /\ "busca" \in Dentro /\ "foto" \in Dentro /\ "proyecto" \in Dentro
  /\ {"borra", "creaExp", "asigna", "genera", "INPROYECTO", "excepcion", "rborra",
      "restaura"} \subseteq Obra
  /\ Altas \subseteq Obra /\ "INUBICATION" \in Obra /\ "INSPATIAL" \in Obra
  /\ {"busca", "foto", "proyecto", "excepcion", "creaExp", "asigna"} \cap Altas = {}
  /\ {"busca", "foto", "proyecto", "siguiente", "libre", "datos", "formulario"} \cap Obra = {}
  /\ {"siguiente", "libre", "datos", "formulario"} \cap Dentro = {}
  /\ Obra \subseteq Dentro
BY DEF Obra, Altas, Dentro, ConProyecto, ConExpediente, ConFilas, TrasPROY, TrasIDMU, TrasTORA,
   TrasADJU

LEMMA Quieta == ASSUME NEW w, UNCHANGED db PROVE Nuevas(w) = Filas(w)
BY DEF Nuevas, Filas

(* Out of the body of the loop: what a step may do.                          *)
LEMMA PasoFuera ==
  ASSUME TInv, NEW w \in Hilo, Recibe(w) \/ Paso(w), pc[w] \notin Dentro
  PROVE  /\ UNCHANGED <<db, duenoProy, duenoExpe, registradas>>
         /\ pc'[w] \in {"libre", "datos", "formulario", "siguiente", "busca"}
<1>1. CASE Recibe(w) \/ LeeMercado(w) \/ Responde(w) \/ Avanza(w) \/ CreaFormulario(w)
  BY <1>1 DEF TInv, TypeOK, Recibe, LeeMercado, Responde, Avanza, CreaFormulario, Termina,
     Escapa, Ir, externo, historia
<1>2. ASSUME ~(Recibe(w) \/ LeeMercado(w) \/ Responde(w) \/ Avanza(w) \/ CreaFormulario(w))
      PROVE  pc[w] \in Dentro
  BY <1>2 DEF Paso, LeeProyecto, CreaExpediente, AsignaServicio, GENERATE_X_PROY,
     BuscaAntiguos, LeeFoto, Borra, INPROYECTO, INBIP, ININI, INCODMERCADOPUB,
     INUBICATION, INTOMARAZON, SAVEOC, INADJUDICACION, INSPATIAL, Rollback, RollbackBorra,
     Restaura, Dentro, ConProyecto, ConExpediente, ConFilas
<1> QED BY <1>1, <1>2

LEMMA ObraSigue ==
  ASSUME TInv, NEW w \in Hilo, Recibe(w) \/ Paso(w), NEW k, EnObra(k),
         pc[w] \notin Dentro \/ k # Form(w).clave
  PROVE  EnObra(k)'
<1>1. PICK v \in Hilo : pc[v] \in Obra /\ Form(v).clave = k
  BY DEF EnObra
<1>2. v # w
  BY <1>1 DEF Obra
<1>3. pc'[v] = pc[v] /\ Form(v)' = Form(v)
  BY <1>2, PasoOtros DEF Otros, Form
<1> QED BY <1>1, <1>3 DEF EnObra

LEMMA ObraPropia ==
  ASSUME TInv, NEW w \in Hilo, Recibe(w) \/ Paso(w), pc'[w] \in Obra,
         NEW k, k = Form(w).clave
  PROVE  EnObra(k)'
<1>1. Form(w)' = Form(w)
  BY PasoForm DEF Obra, Activo
<1> QED BY <1>1 DEF EnObra
-----------------------------------------------------------------------------
(* A registered line keeps a whole project.                                  *)

LEMMA Repone ==
  ASSUME NEW R \in SUBSET Fila, NEW A \in SUBSET Fila, Repuesta(R, A), Completo(A)
  PROVE  Completo(R)
<1>1. PICK x : Hay(A, "PROY", x) /\ Hay(A, "IDMU", x) /\ Hay(A, "TORA", x) /\ Hay(A, "ADJU", x)
  BY DEF Completo
<1>2. ASSUME NEW t, Hay(A, t, x) PROVE Hay(R, t, x)
  <2>1. PICK s \in A : s.tabla = t /\ s.X_PROY = x
    BY <1>2 DEF Hay
  <2>2. Legible(s).tabla = t /\ Legible(s).X_PROY = x
    BY <2>1, LegibleTipo
  <2>3. Legible(s) \in R
    BY DEF Salvada, Repuesta
  <2> QED BY <2>2, <2>3 DEF Hay
<1> QED BY <1>1, <1>2 DEF Completo

LEMMA InsertadaCompleto ==
  ASSUME NEW R, NEW x, Insertadas(R, "INSPATIAL", x)
  PROVE  Completo(R)
BY DEF Insertadas, Completo, TrasPROY, TrasIDMU, TrasTORA, TrasADJU

(* What the step of w leaves behind of its line.                             *)
LEMMA Guardando ==
  ASSUME LineasSeparadas, SinCortes, ConMapa, ConComunas, PInv, NEW w \in Hilo,
         Recibe(w) \/ Paso(w), pc[w] \in Dentro
  PROVE  /\ Form(w).clave \in registradas' =>
              /\ pc'[w] \in Dentro => Guarda(antes'[w], obj'[w], pc'[w])
              /\ pc'[w] \notin Obra => Completo(Nuevas(w))
         /\ \/ registradas' = registradas
            \/ registradas' = registradas \cup {Form(w).clave}
<1> DEFINE k == Form(w).clave
<1>1. BInv /\ VInv /\ IInv /\ TInv /\ InvPedido
  BY DEF PInv, BInv, VInv, IInv
<1>2. pc[w] \in Activo
  BY DEF Activo
<1>3. k \in registradas => Guarda(antes[w], obj[w], pc[w])
  BY DEF PInv, InvGuarda
<1>4. k \in registradas /\ pc[w] \notin Obra => Completo(Filas(w))
  BY <1>1, <1>2, Solo DEF PInv, InvRegistradas, Filas
<1>5. Form(w).comunas # <<>>
  BY <1>1, <1>2, FormPedida
<1>6. pc[w] \in ConProyecto => De(duenoProy, k, obj[w].X_PROY) /\ obj[w].X_PROY # Nulo
  <2>1. pc[w] \in ConProyecto => De(duenoProy, k, obj[w].X_PROY)
    BY <1>1 DEF IInv, InvHilo, SanoEn, Sano
  <2> QED BY <1>1, <2>1, DeNoNulo DEF TInv, TypeOK
<1>7. UNCHANGED db => Nuevas(w) = Filas(w)
  BY Quieta
<1>8. CASE Parte(w)
  <2>1. CASE /\ pc[w] = "busca" /\ UNCHANGED <<db, duenoExpe, registradas>>
             /\ \/ pc'[w] = "creaExp" /\ ~ConFicha(Filas(w))
                \/ pc'[w] = "foto" /\ (Completo(Filas(w)) => Completo(antes'[w]))
    <3>1. Completo(Filas(w)) => ConFicha(Filas(w))
      BY DEF Completo, ConFicha, Hay
    <3> QED BY <1>4, <1>7, <2>1, <3>1, Puntos DEF Guarda
  <2>2. CASE /\ pc[w] = "creaExp" /\ pc'[w] = "asigna" /\ UNCHANGED <<db, registradas>>
    BY <1>3, <2>2 DEF Guarda
  <2>3. CASE /\ pc[w] = "INSPATIAL" /\ pc'[w] = "siguiente" /\ db \subseteq db'
             /\ registradas' = registradas \cup {Form(w).clave}
    <3>1. Insertadas(db, "INSPATIAL", obj[w].X_PROY)
      BY <2>3 DEF PInv, BInv, InvAltas
    <3>2. Insertadas(db', "INSPATIAL", obj[w].X_PROY)
      BY <2>3, <3>1 DEF Insertadas, Hay
    <3>3. Insertadas(Nuevas(w), "INSPATIAL", obj[w].X_PROY)
      BY <1>6, <2>3, <3>2, AltasLinea DEF Nuevas, ConProyecto
    <3> QED BY <2>3, <3>3, InsertadaCompleto, Puntos
  <2> QED BY <1>8, <2>1, <2>2, <2>3 DEF Parte
<1>9. CASE Camina(w)
  <2>0. registradas' = registradas /\ antes'[w] = antes[w]
    BY <1>9 DEF Camina, Callado
  <2>1. CASE /\ Callado(w) /\ Guardado(w)
             /\ \/ pc[w] = "proyecto" /\ pc'[w] \in {"siguiente", "borra"} /\ UNCHANGED db
                \/ pc[w] = "borra" /\ pc'[w] \in {"borra", "genera"}
                \/ pc[w] = "asigna" /\ pc'[w] = "genera"
                \/ pc[w] = "genera" /\ pc'[w] = "INPROYECTO"
                \/ pc[w] \in Altas /\ pc'[w] \in Altas
                \/ pc[w] = "excepcion" /\ pc'[w] = "rborra"
                \/ pc[w] \in {"rborra", "restaura"} /\ pc'[w] \in {"rborra", "restaura"}
    <3>1. k \in registradas => obj'[w].hayRollback /\ Completo(antes'[w])
      BY <1>3, <2>0, <2>1, Puntos DEF Guarda, Guardado
    <3>2. /\ pc'[w] \notin {"creaExp", "asigna", "excepcion"}
          /\ pc'[w] \notin Obra => pc'[w] = "siguiente" /\ UNCHANGED db /\ pc[w] \notin Obra
      BY <2>1, Puntos
    <3> QED BY <1>4, <1>7, <2>0, <3>1, <3>2 DEF Guarda
  <2>2. CASE /\ Callado(w) /\ UNCHANGED db /\ pc[w] = "foto"
             /\ pc'[w] = "foto" \/ (pc'[w] = "proyecto" /\ obj'[w].hayRollback)
    BY <1>3, <1>4, <1>7, <2>0, <2>2, Puntos DEF Guarda
  <2>3. CASE /\ Callado(w) /\ UNCHANGED <<db, obj>>
             /\ \/ pc[w] = "INUBICATION" /\ pc'[w] = "siguiente" /\ Form(w).comunas = <<>>
                \/ pc[w] \in {"INUBICATION", "INSPATIAL"} /\ pc'[w] = "excepcion"
                \/ pc[w] = "asigna" /\ pc'[w] = "excepcion" /\ "bandeja" \in Fallas
                \/ /\ pc[w] = "excepcion" /\ pc'[w] \in {"siguiente", "libre"}
                   /\ ~obj[w].hayRollback \/ obj[w].X_PROY = Nulo
    <3>1. CASE pc[w] \in {"INUBICATION", "INSPATIAL"} /\ pc'[w] = "excepcion"
      <4>1. obj'[w].X_PROY # Nulo
        BY <1>6, <2>3, <3>1 DEF ConProyecto
      <4> QED BY <1>3, <2>0, <2>3, <3>1, <4>1, Puntos DEF Guarda
    <3>2. CASE pc[w] \in {"asigna", "excepcion"} /\ pc'[w] \in {"siguiente", "libre", "excepcion"}
      BY <1>3, <2>0, <2>3, <3>2, Puntos DEF Guarda
    <3> QED BY <1>5, <2>3, <3>1, <3>2
  <2>4. CASE /\ Callado(w) /\ UNCHANGED <<db, obj>> /\ pc[w] = "restaura" /\ pc'[w] = "siguiente"
             /\ Repuesta(Nuevas(w), antes[w])
    <3>1. Nuevas(w) \in SUBSET Fila /\ antes[w] \in SUBSET Fila
      BY <1>1, <1>2, <1>7, <2>4, Contexto DEF TInv, TypeOK
    <3> QED BY <1>3, <2>0, <2>4, <3>1, Repone, Puntos DEF Guarda
  <2> QED BY <1>9, <2>1, <2>2, <2>3, <2>4 DEF Camina
<1> QED BY <1>1, <1>8, <1>9, PasoVa

LEMMA PasoRegistradas ==
  ASSUME LineasSeparadas, SinCortes, ConMapa, ConComunas, PInv, NEW w \in Hilo,
         Recibe(w) \/ Paso(w)
  PROVE  InvRegistradas' /\ InvGuarda'
<1>1. BInv /\ VInv /\ IInv /\ TInv /\ InvPedido /\ "seq" \notin Fallas
  BY SinFallos DEF PInv, BInv, VInv, IInv
<1>2. ASSUME NEW k \in registradas' PROVE EnObra(k)' \/ Completo(DeLinea(db', duenoProy', k))
  <2>1. CASE pc[w] \in Dentro /\ k = Form(w).clave
    <3>1. CASE pc'[w] \in Obra
      BY <1>1, <2>1, <3>1, ObraPropia
    <3>2. CASE pc'[w] \notin Obra
      <4>1. Completo(Nuevas(w))
        BY <1>2, <2>1, <3>2, Guardando
      <4>2. DeLinea(db', duenoProy', k) = Nuevas(w)
        BY <1>1, <2>1, PasoLineas DEF Nuevas
      <4> QED BY <4>1, <4>2
    <3> QED BY <3>1, <3>2
  <2>2. CASE pc[w] \notin Dentro \/ k # Form(w).clave
    <3>1. k \in registradas
      BY <1>1, <1>2, <2>2, Guardando, PasoFuera
    <3>2. DeLinea(db', duenoProy', k) = DeLinea(db, duenoProy, k)
      BY <1>1, <2>2, PasoLineas
    <3>3. EnObra(k) => EnObra(k)'
      BY <1>1, <2>2, ObraSigue
    <3> QED BY <3>1, <3>2, <3>3 DEF PInv, InvRegistradas
  <2> QED BY <2>1, <2>2
<1>3. ASSUME NEW v \in Hilo, pc'[v] \in Dentro, Form(v)'.clave \in registradas'
      PROVE  Guarda(antes'[v], obj'[v], pc'[v])
  <2>1. CASE v = w
    <3>1. Form(w)' = Form(w)
      BY <1>1, <1>3, <2>1, PasoForm DEF Activo
    <3>2. CASE pc[w] \in Dentro
      BY <1>3, <2>1, <3>1, <3>2, Guardando
    <3>3. CASE pc[w] \notin Dentro
      <4>1. pc'[w] = "busca"
        BY <1>1, <1>3, <2>1, <3>3, PasoFuera, Puntos
      <4> QED BY <2>1, <4>1 DEF Guarda
    <3> QED BY <3>2, <3>3
  <2>2. CASE v # w
    <3>1. /\ pc'[v] = pc[v] /\ obj'[v] = obj[v] /\ antes'[v] = antes[v] /\ Form(v)' = Form(v)
      BY <1>1, <2>2, PasoOtros, PasoHistoria DEF Otros, Form
    <3>2. Form(v).clave \in registradas
      <4>1. CASE pc[w] \in Dentro
        <5>1. Form(v).clave # Form(w).clave
          BY <1>1, <1>3, <2>2, <3>1, <4>1, OtraLinea DEF Activo
        <5> QED BY <1>3, <3>1, <4>1, <5>1, Guardando
      <4>2. CASE pc[w] \notin Dentro
        BY <1>1, <1>3, <3>1, <4>2, PasoFuera
      <4> QED BY <4>1, <4>2
    <3> QED BY <1>3, <3>1, <3>2 DEF PInv, InvGuarda
  <2> QED BY <2>1, <2>2
<1>4. InvGuarda'
  BY <1>3 DEF InvGuarda
<1> QED BY <1>2, <1>4 DEF InvRegistradas

LEMMA PasoPInv ==
  ASSUME LineasSeparadas, SinCortes, ConMapa, ConComunas, PInv, [Next]_vars
  PROVE  PInv'
<1>1. BInv' /\ TInv
  BY PasoBInv DEF PInv, BInv, VInv, IInv
<1>2. CASE \E w \in Hilo : Recibe(w) \/ Paso(w)
  BY <1>1, <1>2, PasoRegistradas DEF PInv
<1>3. CASE Caida
  <2>1. caidas \in 0..MaxCaidas /\ MaxCaidas = 0
    BY <1>1 DEF SinCortes, TInv, TypeOK
  <2>2. caidas < MaxCaidas
    BY <1>3 DEF Caida
  <2> QED BY <2>1, <2>2
<1>4. CASE UNCHANGED vars
  <2>1. InvRegistradas'
    BY <1>4 DEF vars, externo, local, historia, PInv, InvRegistradas, EnObra, DeLinea, Form
  <2>2. InvGuarda'
    BY <1>4 DEF vars, externo, local, historia, PInv, InvGuarda, Form
  <2> QED BY <1>1, <2>1, <2>2 DEF PInv
<1> QED BY <1>2, <1>3, <1>4 DEF Next

LEMMA InitPInv == Init => PInv
<1>1. Init => InvRegistradas /\ InvGuarda
  BY DEF Init, InvRegistradas, InvGuarda, Dentro, ConProyecto, ConExpediente, ConFilas
<1> QED BY <1>1, InitBInv DEF PInv

LEMMA Perdida == PInv => SinPerdida
<1> SUFFICES ASSUME PInv, NEW k \in registradas PROVE Ocupada(k) \/ \E x \in Proyectos(k) : Entero(x)
  BY DEF SinPerdida
<1>1. /\ InvDb /\ TInv /\ InvRegistradas
  BY DEF PInv, BInv, VInv, IInv
<1>2. CASE EnObra(k)
  <2>1. PICK w \in Hilo : pc[w] \in Obra /\ Form(w).clave = k
    BY <1>2 DEF EnObra
  <2>2. pc[w] \notin {"libre", "datos", "formulario"}
    BY <2>1, Puntos
  <2>3. n[w] \in DOMAIN peticion[w].formularios /\ peticion[w].formularios \in Seq(Formulario)
    BY <1>1, <2>2 DEF TInv, TypeOK, ConFormulario, Peticion
  <2>4. n[w] <= Len(peticion[w].formularios)
    BY <2>3
  <2> QED BY <2>1, <2>2, <2>4 DEF Ocupada
<1>3. CASE Completo(DeLinea(db, duenoProy, k))
  <2>1. PICK x : /\ Hay(DeLinea(db, duenoProy, k), "PROY", x) /\ Hay(DeLinea(db, duenoProy, k), "IDMU", x)
                 /\ Hay(DeLinea(db, duenoProy, k), "TORA", x) /\ Hay(DeLinea(db, duenoProy, k), "ADJU", x)
    BY <1>3 DEF Completo
  <2>2. x \in Proyectos(k)
    BY <1>1, <2>1 DEF Hay, DeLinea, De, InvDb, FilaBien, Proyectos
  <2>3. Entero(x)
    BY <2>1 DEF Hay, DeLinea, Entero, FilasDe
  <2> QED BY <2>2, <2>3
<1> QED BY <1>1, <1>2, <1>3 DEF InvRegistradas
-----------------------------------------------------------------------------
(* A line has one case file.                                                 *)

LEMMA Fichando ==
  ASSUME LineasSeparadas, SinCortes, "bandeja" \notin Fallas, ConMapa, EInv, NEW w \in Hilo,
         Recibe(w) \/ Paso(w), pc[w] \in Dentro, NEW k, k = Form(w).clave
  PROVE  /\ pc'[w] = "creaExp" => ~Abierto(k)'
         /\ pc'[w] = "excepcion" => ConFicha(Nuevas(w))
         /\ Abierto(k)' /\ pc'[w] \notin Obra => ConFicha(Nuevas(w))
         /\ \/ UNCHANGED duenoExpe
            \/ pc[w] = "creaExp" /\ duenoExpe' = Append(duenoExpe, k)
<1>1. BInv /\ VInv /\ IInv /\ TInv /\ InvPedido
  BY DEF EInv, BInv, VInv, IInv
<1>2. pc[w] \in Activo
  BY DEF Activo
<1>3. pc[w] = "creaExp" => ~Abierto(k)
  BY DEF EInv, InvFicha
<1>4. Abierto(k) /\ pc[w] \notin Obra => ConFicha(Filas(w))
  BY <1>1, <1>2, Solo, Contexto DEF EInv, InvAbiertos, Filas
<1>5. pc[w] = "excepcion" => ConFicha(Filas(w))
  BY DEF EInv, InvFicha
<1>6. ASSUME pc[w] \in {"INUBICATION", "INSPATIAL"} PROVE ConFicha(Filas(w))
  <2>1. De(duenoProy, k, obj[w].X_PROY)
    BY <1>1, <1>6 DEF IInv, InvHilo, SanoEn, Sano, ConProyecto
  <2>2. Insertadas(Filas(w), pc[w], obj[w].X_PROY)
    BY <2>1, AltasLinea DEF EInv, BInv, InvAltas, Filas
  <2> QED BY <1>6, <2>2 DEF Insertadas, TrasPROY, TrasIDMU, TrasTORA, TrasADJU, Hay, ConFicha
<1>7. UNCHANGED db => Nuevas(w) = Filas(w)
  BY Quieta
<1>8. UNCHANGED duenoExpe => (Abierto(k)' <=> Abierto(k))
  BY DEF Abierto
<1>9. CASE Parte(w)
  <2>1. CASE /\ pc[w] = "busca" /\ UNCHANGED <<db, duenoExpe, registradas>>
             /\ \/ pc'[w] = "creaExp" /\ ~ConFicha(Filas(w))
                \/ pc'[w] = "foto" /\ (Completo(Filas(w)) => Completo(antes'[w]))
    BY <1>4, <1>7, <1>8, <2>1, Puntos
  <2>2. CASE /\ pc[w] = "creaExp" /\ pc'[w] = "asigna" /\ UNCHANGED <<db, registradas>>
             /\ UNCHANGED duenoExpe \/ duenoExpe' = Append(duenoExpe, Form(w).clave)
    BY <2>2, Puntos
  <2>3. CASE /\ pc[w] = "INSPATIAL" /\ pc'[w] = "siguiente" /\ db \subseteq db'
             /\ UNCHANGED duenoExpe
    BY <1>6, <2>3 DEF ConFicha, Filas, Nuevas, DeLinea
  <2> QED BY <1>9, <2>1, <2>2, <2>3 DEF Parte
<1>10. CASE Camina(w)
  <2>0. UNCHANGED duenoExpe
    BY <1>10 DEF Camina, Callado
  <2>1. CASE \/ pc[w] = "proyecto" /\ pc'[w] \in {"siguiente", "borra"} /\ UNCHANGED db
             \/ pc[w] = "borra" /\ pc'[w] \in {"borra", "genera"}
             \/ pc[w] = "asigna" /\ pc'[w] = "genera"
             \/ pc[w] = "genera" /\ pc'[w] = "INPROYECTO"
             \/ pc[w] \in Altas /\ pc'[w] \in Altas
             \/ pc[w] = "excepcion" /\ pc'[w] = "rborra"
             \/ pc[w] \in {"rborra", "restaura"} /\ pc'[w] \in {"rborra", "restaura"}
    BY <1>4, <1>7, <1>8, <2>0, <2>1, Puntos
  <2>2. CASE /\ UNCHANGED db /\ pc[w] = "foto" /\ pc'[w] \in {"foto", "proyecto"}
    BY <1>4, <1>7, <1>8, <2>0, <2>2, Puntos
  <2>3. CASE /\ UNCHANGED db /\ pc[w] \in {"INUBICATION", "INSPATIAL", "excepcion"}
             /\ pc'[w] \in {"siguiente", "excepcion", "libre"}
    BY <1>5, <1>6, <1>7, <2>0, <2>3
  <2>4. CASE /\ UNCHANGED db /\ pc[w] = "restaura" /\ pc'[w] = "siguiente"
             /\ Repuesta(Nuevas(w), antes[w])
    <3>1. Sabe(Filas(w), obj[w], lazo[w], "restaura", antes[w])
      BY <1>1, <1>2, <2>4, Contexto
    <3>2. Entera(obj[w].ROLLBACK) /\ \A r : r \in obj[w].ROLLBACK <=> Salvada(antes[w], r)
      BY <3>1 DEF Sabe
    <3>3. PICK r : r \in obj[w].ROLLBACK /\ r.tabla = "IDMU"
      BY <3>2 DEF Entera
    <3>4. r \in Nuevas(w)
      BY <2>4, <3>2, <3>3 DEF Repuesta
    <3> QED BY <2>0, <2>4, <3>3, <3>4 DEF ConFicha
  <2> QED BY <1>10, <2>1, <2>2, <2>3, <2>4 DEF Camina
<1> QED BY <1>1, <1>9, <1>10, PasoVa

(* Only Trew@'s answer to a line without a key makes a new one.              *)
LEMMA PasoAbiertos ==
  ASSUME LineasSeparadas, SinCortes, "bandeja" \notin Fallas, ConMapa, EInv, NEW w \in Hilo,
         Recibe(w) \/ Paso(w)
  PROVE  InvUno' /\ InvAbiertos' /\ InvFicha'
<1>1. BInv /\ VInv /\ IInv /\ TInv /\ InvPedido /\ "seq" \notin Fallas
  BY SinFallos DEF EInv, BInv, VInv, IInv
<1>2. \/ UNCHANGED duenoExpe
      \/ /\ pc[w] = "creaExp" /\ pc[w] \in Dentro /\ ~Abierto(Form(w).clave)
         /\ duenoExpe' = Append(duenoExpe, Form(w).clave)
  <2>1. CASE pc[w] \in Dentro
    BY <2>1, Fichando DEF EInv, InvFicha
  <2>2. CASE pc[w] \notin Dentro
    BY <1>1, <2>2, PasoFuera
  <2> QED BY <2>1, <2>2
<1>3. duenoExpe \in Seq(Clave) /\ (pc[w] \in Dentro => Form(w).clave \in Clave)
  BY <1>1, Contexto DEF TInv, TypeOK, Activo
<1>4. \A k : k # Form(w).clave \/ pc[w] \notin Dentro => (Abierto(k)' => Abierto(k))
  <2> SUFFICES ASSUME NEW k, k # Form(w).clave \/ pc[w] \notin Dentro,
                      NEW e \in DOMAIN duenoExpe', duenoExpe'[e] = k
               PROVE  \E f \in DOMAIN duenoExpe : duenoExpe[f] = k
    BY DEF Abierto
  <2>1. CASE UNCHANGED duenoExpe
    BY <2>1
  <2>2. CASE duenoExpe' = Append(duenoExpe, Form(w).clave) /\ pc[w] \in Dentro
    <3>1. e # Len(duenoExpe) + 1
      BY <1>3, <2>2, AppendProperties
    <3> QED BY <1>3, <2>2, <3>1, AppendProperties
  <2> QED BY <1>2, <2>1, <2>2
<1>5. InvUno'
  <2> SUFFICES ASSUME NEW e \in DOMAIN duenoExpe', NEW f \in DOMAIN duenoExpe',
                      duenoExpe'[e] = duenoExpe'[f]
               PROVE  e = f
    BY DEF InvUno
  <2>1. CASE UNCHANGED duenoExpe
    BY <2>1 DEF EInv, InvUno
  <2>2. CASE /\ pc[w] \in Dentro /\ ~Abierto(Form(w).clave)
             /\ duenoExpe' = Append(duenoExpe, Form(w).clave)
    <3>1. DOMAIN duenoExpe' = DOMAIN duenoExpe \cup {Len(duenoExpe) + 1}
      BY <1>3, <2>2, AppendProperties
    <3>2. \A g \in DOMAIN duenoExpe : duenoExpe'[g] = duenoExpe[g] /\ duenoExpe'[g] # Form(w).clave
      BY <1>3, <2>2, AppendProperties DEF Abierto
    <3>3. duenoExpe'[Len(duenoExpe) + 1] = Form(w).clave
      BY <1>3, <2>2, AppendProperties
    <3> QED BY <3>1, <3>2, <3>3 DEF EInv, InvUno
  <2> QED BY <1>2, <2>1, <2>2
<1>6. ASSUME NEW k \in Clave, Abierto(k)'
      PROVE  EnObra(k)' \/ ConFicha(DeLinea(db', duenoProy', k))
  <2>1. CASE pc[w] \in Dentro /\ k = Form(w).clave
    <3>1. CASE pc'[w] \in Obra
      BY <1>1, <2>1, <3>1, ObraPropia
    <3>2. CASE pc'[w] \notin Obra
      <4>1. ConFicha(Nuevas(w))
        BY <1>6, <2>1, <3>2, Fichando
      <4>2. DeLinea(db', duenoProy', k) = Nuevas(w)
        BY <1>1, <2>1, PasoLineas DEF Nuevas
      <4> QED BY <4>1, <4>2
    <3> QED BY <3>1, <3>2
  <2>2. CASE pc[w] \notin Dentro \/ k # Form(w).clave
    <3>1. Abierto(k)
      BY <1>4, <1>6, <2>2
    <3>2. DeLinea(db', duenoProy', k) = DeLinea(db, duenoProy, k)
      BY <1>1, <2>2, PasoLineas
    <3>3. EnObra(k) => EnObra(k)'
      BY <1>1, <2>2, ObraSigue
    <3> QED BY <3>1, <3>2, <3>3 DEF EInv, InvAbiertos
  <2> QED BY <2>1, <2>2
<1>7. ASSUME NEW v \in Hilo, NEW k, k = Form(v)'.clave, pc'[v] \in {"creaExp", "excepcion"}
      PROVE  /\ pc'[v] = "creaExp" => ~Abierto(k)'
             /\ pc'[v] = "excepcion" => ConFicha(Filas(v)')
  <2>0. pc'[v] \in Activo /\ pc'[v] \in Dentro
    BY <1>7, Puntos DEF Activo
  <2>1. CASE v = w
    <3>1. Form(w)' = Form(w)
      BY <1>1, <2>0, <2>1, PasoForm
    <3>2. pc[w] \in Dentro
      BY <1>1, <1>7, <2>1, PasoFuera
    <3>3. Filas(w)' = Nuevas(w)
      BY <1>1, <2>0, <2>1, FilasSuyas
    <3> QED BY <1>7, <2>1, <3>1, <3>2, <3>3, Fichando
  <2>2. CASE v # w
    <3>1. /\ pc'[v] = pc[v] /\ Form(v)' = Form(v)
      BY <1>1, <2>2, PasoOtros DEF Otros, Form
    <3>2. pc[w] \notin Dentro \/ k # Form(w).clave
      BY <1>1, <1>7, <2>0, <2>2, <3>1, OtraLinea DEF Activo
    <3>3. Filas(v)' = Filas(v)
      BY <1>1, <2>0, <2>2, <3>1, FilasAjenas
    <3> QED BY <1>4, <1>7, <3>1, <3>2, <3>3 DEF EInv, InvFicha
  <2> QED BY <2>1, <2>2
<1>8. InvFicha'
  BY <1>7 DEF InvFicha
<1> QED BY <1>5, <1>6, <1>8 DEF InvAbiertos

LEMMA PasoEInv ==
  ASSUME LineasSeparadas, SinCortes, "bandeja" \notin Fallas, ConMapa, EInv, [Next]_vars
  PROVE  EInv'
<1>1. BInv' /\ TInv
  BY PasoBInv DEF EInv, BInv, VInv, IInv
<1>2. CASE \E w \in Hilo : Recibe(w) \/ Paso(w)
  BY <1>1, <1>2, PasoAbiertos DEF EInv
<1>3. CASE Caida
  <2>1. caidas \in 0..MaxCaidas /\ MaxCaidas = 0
    BY <1>1 DEF SinCortes, TInv, TypeOK
  <2>2. caidas < MaxCaidas
    BY <1>3 DEF Caida
  <2> QED BY <2>1, <2>2
<1>4. CASE UNCHANGED vars
  <2>1. InvUno' /\ InvAbiertos'
    BY <1>4 DEF vars, externo, local, EInv, InvUno, InvAbiertos, Abierto, EnObra, DeLinea, Form
  <2>2. InvFicha'
    BY <1>4 DEF vars, externo, local, EInv, InvFicha, Abierto, Filas, DeLinea, Form
  <2> QED BY <1>1, <2>1, <2>2 DEF EInv
<1> QED BY <1>2, <1>3, <1>4 DEF Next

LEMMA InitEInv == Init => EInv
<1> SUFFICES ASSUME Init PROVE EInv
  OBVIOUS
<1>1. DOMAIN duenoExpe = {}
  <2>1. duenoExpe = <<>>
    BY DEF Init
  <2>2. DOMAIN <<>> = {}
    OBVIOUS
  <2> QED BY <2>1, <2>2
<1>2. InvUno /\ InvAbiertos
  BY <1>1 DEF InvUno, InvAbiertos, Abierto
<1>3. InvFicha
  BY DEF Init, InvFicha
<1> QED BY <1>2, <1>3, InitBInv DEF EInv

LEMMA UnExpediente == EInv => UnExpedientePorClave
<1> SUFFICES ASSUME EInv, NEW k \in Clave
             PROVE  Cardinality({e \in DOMAIN duenoExpe : duenoExpe[e] = k}) <= 1
  BY DEF UnExpedientePorClave
<1> DEFINE E == {e \in DOMAIN duenoExpe : duenoExpe[e] = k}
<1>1. \A e, f \in E : e = f
  BY DEF EInv, InvUno
<1>2. CASE E = {}
  BY <1>2, FS_EmptySet
<1>3. CASE E # {}
  <2>1. PICK e : E = {e}
    BY <1>1, <1>3
  <2> QED BY <2>1, FS_Singleton
<1> QED BY <1>2, <1>3

(* A line some form registered keeps a project with all its checked rows, or *)
(* has a worker at it: a later form for it that throws is rolled back to     *)
(* that project. Only failures of Mercado Publico and Trew@ may happen, and  *)
(* every form brings comunas and a geometry: the other failures and the      *)
(* other forms lose the project, see the README.                             *)
THEOREM SinPerdidaSiempre ==
  LineasSeparadas /\ SinCortes /\ ConMapa /\ ConComunas => (Spec => []SinPerdida)
<1> SUFFICES ASSUME LineasSeparadas, SinCortes, ConMapa, ConComunas PROVE Spec => []SinPerdida
  OBVIOUS
<1>1. PInv /\ [Next]_vars => PInv'
  BY PasoPInv
<1> QED BY InitPInv, <1>1, Perdida, PTL DEF Spec

(* Trew@ is asked for one case file per line, however often it is registered *)
(* and by whatever forms with a geometry: the project that carries the case  *)
(* file's number is found by the line's key whenever nobody is at the line.  *)
THEOREM UnExpedienteSiempre ==
  LineasSeparadas /\ SinCortes /\ "bandeja" \notin Fallas /\ ConMapa =>
    (Spec => []UnExpedientePorClave)
<1> SUFFICES ASSUME LineasSeparadas, SinCortes, "bandeja" \notin Fallas, ConMapa
             PROVE  Spec => []UnExpedientePorClave
  OBVIOUS
<1>1. EInv /\ [Next]_vars => EInv'
  BY PasoEInv
<1> QED BY InitEInv, <1>1, UnExpediente, PTL DEF Spec
=============================================================================
