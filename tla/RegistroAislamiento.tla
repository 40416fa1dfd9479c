-------------------------- MODULE RegistroAislamiento --------------------------
(* As long as getNextVal does not answer -1, registering a tender line       *)
(* touches neither the rows nor the case file of another line, whatever the  *)
(* workers, the lines they share, the failures and the restarts. When no     *)
(* line is registered twice at a time, a reply OK is backed besides.         *)
EXTENDS RegistroProofs

(* Number x of sequence d was drawn for line k.                              *)
De(d, k, x) == x \in DOMAIN d /\ d[x] = k

(* A row hangs from a project that was drawn; the line it names, or the case *)
(* file it carries, belongs to the line the project was drawn for.           *)
FilaBien(dp, de, r) ==
  /\ r.X_PROY \in DOMAIN dp
  /\ r.tabla = "IDMU" => r.dato = dp[r.X_PROY]
  /\ r.tabla = "PROY" => r.dato = Error \/ De(de, dp[r.X_PROY], r.dato)

FilaDe(dp, de, k, r) == FilaBien(dp, de, r) /\ De(dp, k, r.X_PROY)

(* Where a worker has a project, a case file, projects left, rows at hand.   *)
ConProyecto   == {"foto", "proyecto", "borra", "rborra", "INPROYECTO", "INBIP", "ININI",
                  "INCODMERCADOPUB", "INUBICATION", "INTOMARAZON", "SAVEOC",
                  "INADJUDICACION", "INSPATIAL"}
ConExpediente == {"borra", "asigna", "genera", "INPROYECTO"}
ConAntiguos   == {"foto", "proyecto", "borra"}
ConFilas      == {"foto", "restaura"}
Dentro == ConProyecto \cup ConExpediente \cup ConFilas \cup {"busca", "creaExp", "excepcion"}

(* What a worker at p, with a form of line k, fields o and locals l, holds   *)
(* belongs to k. The parameters make it a formula without variables.         *)
Sano(dp, de, k, o, l, p) ==
  /\ o.X_PROY = Nulo \/ De(dp, k, o.X_PROY)
  /\ o.EXPETREWA \in {Nulo, Error} \/ De(de, k, o.EXPETREWA)
  /\ \A r \in o.ROLLBACK : FilaDe(dp, de, k, r)
  /\ p \in ConProyecto => De(dp, k, o.X_PROY)
  /\ p \in ConExpediente => o.EXPETREWA # Nulo
  /\ p \in ConAntiguos => \A x \in l.antiguos : De(dp, k, x)
  /\ p \in ConFilas => \A r \in l.filas : FilaDe(dp, de, k, r)

InvDb   == \A r \in db : FilaBien(duenoProy, duenoExpe, r)
SanoEn(w) == Sano(duenoProy, duenoExpe, Form(w).clave, obj[w], lazo[w], pc[w])
InvHilo == \A w \in Hilo : pc[w] \in Dentro => SanoEn(w)
IInv    == TInv /\ InvDb /\ InvHilo

-----------------------------------------------------------------------------
(* Sequences only grow.                                                      *)

Extiende(d, e) == \A x \in DOMAIN d : x \in DOMAIN e /\ e[x] = d[x]

LEMMA ExtiendeAppend ==
  ASSUME NEW S, NEW d \in Seq(S), NEW k \in S
  PROVE  Extiende(d, Append(d, k)) /\ De(Append(d, k), k, Len(d) + 1)
BY AppendProperties DEF Extiende, De

LEMMA ExtiendeIgual == \A d : Extiende(d, d)
BY DEF Extiende

LEMMA DeCrece ==
  ASSUME NEW d, NEW e, Extiende(d, e), NEW k, NEW x, De(d, k, x)
  PROVE  De(e, k, x)
BY DEF Extiende, De

LEMMA FilaCrece ==
  ASSUME NEW dp, NEW de, NEW ep, NEW ee, Extiende(dp, ep), Extiende(de, ee),
         NEW r, FilaBien(dp, de, r)
  PROVE  FilaBien(ep, ee, r)
BY DEF Extiende, De, FilaBien

LEMMA SanoCrece ==
  ASSUME NEW dp, NEW de, NEW ep, NEW ee, Extiende(dp, ep), Extiende(de, ee),
         NEW k, NEW o, NEW l, NEW p, Sano(dp, de, k, o, l, p)
  PROVE  Sano(ep, ee, k, o, l, p)
<1>1. \A x : De(dp, k, x) => De(ep, k, x)
  BY DeCrece
<1>2. \A x : De(de, k, x) => De(ee, k, x)
  BY DeCrece
<1>3. \A r : FilaDe(dp, de, k, r) => FilaDe(ep, ee, k, r)
  BY <1>1, FilaCrece DEF FilaDe
<1> QED BY <1>1, <1>2, <1>3 DEF Sano

(* From p to q nothing more has to be known.                                 *)
Baja(p, q) ==
  /\ q \in ConProyecto => p \in ConProyecto
  /\ q \in ConExpediente => p \in ConExpediente
  /\ q \in ConAntiguos => p \in ConAntiguos
  /\ q \in ConFilas => p \in ConFilas

LEMMA SanoBaja ==
  ASSUME NEW dp, NEW de, NEW k, NEW o, NEW l, NEW m, NEW p, NEW q,
         Sano(dp, de, k, o, l, p), Baja(p, q),
         m.antiguos = l.antiguos, m.filas = l.filas
  PROVE  Sano(dp, de, k, o, m, q)
BY DEF Sano, Baja

(* Sequences start at 1 and the saved rows keep their line.                  *)
LEMMA DeNoNulo ==
  ASSUME NEW S, NEW d \in Seq(S), NEW k, NEW x, De(d, k, x)
  PROVE  x # Nulo /\ x # Error
BY DEF De, Nulo, Error

LEMMA LegibleBien ==
  ASSUME NEW dp, NEW de, NEW k, NEW f \in Fila, FilaDe(dp, de, k, f)
  PROVE  FilaDe(dp, de, k, Legible(f))
<1>1. /\ Legible(f).X_PROY = f.X_PROY /\ Legible(f).tabla = f.tabla
      /\ f.tabla # "SPATIAL" => Legible(f) = f
  BY LegibleTipo
<1> QED BY <1>1 DEF FilaDe, FilaBien

LEMMA GuardableBien ==
  ASSUME NEW dp, NEW de, NEW k, NEW fs \in SUBSET Fila, NEW t, NEW g \in Guardable(t, fs),
         \A f \in fs : FilaDe(dp, de, k, f)
  PROVE  \A r \in g : FilaDe(dp, de, k, r)
BY LegibleBien DEF Guardable
-----------------------------------------------------------------------------
(* What a step of w has to leave behind.                                     *)

Otros(w) == \A v \in Hilo \ {w} : /\ pc'[v] = pc[v] /\ obj'[v] = obj[v] /\ lazo'[v] = lazo[v]
                                  /\ n'[v] = n[v] /\ peticion'[v] = peticion[v]

Resultado(w) == /\ Extiende(duenoProy, duenoProy') /\ Extiende(duenoExpe, duenoExpe')
                /\ InvDb'
                /\ pc'[w] \in Dentro => SanoEn(w)'

LEMMA Junta ==
  ASSUME IInv, NEW w \in Hilo, Otros(w), Resultado(w)
  PROVE  InvDb' /\ InvHilo'
<1>1. ASSUME NEW v \in Hilo \ {w}, pc'[v] \in Dentro PROVE SanoEn(v)'
  <2>1. /\ pc'[v] = pc[v] /\ obj'[v] = obj[v] /\ lazo'[v] = lazo[v]
        /\ n'[v] = n[v] /\ peticion'[v] = peticion[v]
    BY DEF Otros
  <2>2. Sano(duenoProy, duenoExpe, Form(v).clave, obj[v], lazo[v], pc[v])
    BY <1>1, <2>1 DEF IInv, InvHilo, SanoEn
  <2>3. Sano(duenoProy', duenoExpe', Form(v).clave, obj[v], lazo[v], pc[v])
    BY <2>2, SanoCrece DEF Resultado
  <2>4. Form(v)' = Form(v)
    BY <2>1 DEF Form
  <2> QED BY <2>1, <2>3, <2>4 DEF SanoEn
<1> QED BY <1>1 DEF Resultado, InvHilo

LEMMA DbBien ==
  ASSUME InvDb, Extiende(duenoProy, duenoProy'), Extiende(duenoExpe, duenoExpe'),
         \A r \in db' : r \in db \/ FilaBien(duenoProy, duenoExpe, r)
  PROVE  InvDb'
BY FilaCrece DEF InvDb

(* Steps out of the body of the loop.                                        *)
LEMMA FueraBien ==
  ASSUME IInv, NEW w \in Hilo, NEW q, pc' = [pc EXCEPT ![w] = q], q \notin Dentro,
         UNCHANGED externo
  PROVE  Resultado(w)
<1>1. pc'[w] = q
  BY DEF IInv, TInv, TypeOK
<1> QED BY <1>1, ExtiendeIgual DEF Resultado, externo, IInv, InvDb

(* Steps that add at most one row of the worker's project, or take rows      *)
(* away, and need not know more afterwards.                                  *)
LEMMA EnForma ==
  ASSUME IInv, NEW w \in Hilo, pc[w] \in Dentro,
         NEW q, pc' = [pc EXCEPT ![w] = q], q \in Dentro => Baja(pc[w], q),
         UNCHANGED <<duenoProy, duenoExpe, obj, peticion, n>>,
         lazo'[w].antiguos = lazo[w].antiguos, lazo'[w].filas = lazo[w].filas,
         \A r \in db' : \/ r \in db
                        \/ FilaBien(duenoProy, duenoExpe, r)
  PROVE  Resultado(w)
<1>1. pc'[w] = q
  BY DEF IInv, TInv, TypeOK
<1>2. SanoEn(w)
  BY DEF IInv, InvHilo
<1>3. Form(w)' = Form(w)
  BY DEF Form
<1>4. q \in Dentro => SanoEn(w)'
  BY <1>1, <1>2, <1>3, SanoBaja DEF SanoEn
<1>5. Extiende(duenoProy, duenoProy') /\ Extiende(duenoExpe, duenoExpe')
  BY ExtiendeIgual
<1>6. InvDb'
  BY <1>5, DbBien DEF IInv
<1> QED BY <1>1, <1>4, <1>5, <1>6 DEF Resultado

LEMMA FilaNuevaBien ==
  ASSUME IInv, NEW w \in Hilo, pc[w] \in ConProyecto, NEW t, NEW d,
         t = "IDMU" => d = Form(w).clave,
         t = "PROY" => d = obj[w].EXPETREWA /\ pc[w] \in ConExpediente
  PROVE  FilaBien(duenoProy, duenoExpe, FilaNueva(w, t, d))
<1>1. SanoEn(w)
  BY DEF IInv, InvHilo, Dentro
<1>2. De(duenoProy, Form(w).clave, obj[w].X_PROY)
  BY <1>1 DEF SanoEn, Sano
<1>3. t = "PROY" => d = Error \/ De(duenoExpe, Form(w).clave, d)
  BY <1>1 DEF SanoEn, Sano
<1> QED BY <1>2, <1>3 DEF FilaNueva, FilaBien, De

(* The nine inserts: where they go on and the row they add.                  *)
LEMMA AltaBien ==
  ASSUME IInv, NEW w \in Hilo, pc[w] \in ConProyecto, NEW q, q \in Dentro => Baja(pc[w], q),
         pc' = [pc EXCEPT ![w] = q],
         UNCHANGED <<duenoProy, duenoExpe, obj, peticion, n>>,
         lazo'[w].antiguos = lazo[w].antiguos, lazo'[w].filas = lazo[w].filas,
         NEW t, NEW d, \A r \in db' : r \in db \/ r = FilaNueva(w, t, d),
         t = "IDMU" => d = Form(w).clave,
         t = "PROY" => d = obj[w].EXPETREWA /\ pc[w] \in ConExpediente
  PROVE  Resultado(w)
<1>1. FilaBien(duenoProy, duenoExpe, FilaNueva(w, t, d))
  BY FilaNuevaBien
<1>2. pc[w] \in Dentro
  BY DEF Dentro
<1> QED BY <1>1, <1>2, EnForma

LEMMA AltaPaso ==
  ASSUME IInv, NEW w \in Hilo, NEW a, NEW q, UNCHANGED <<duenoProy, duenoExpe, obj, peticion, n, lazo>>,
         pc[w] = a, a \in ConProyecto, Baja(a, q), Baja(a, "excepcion"),
         NEW t, NEW d,
         \/ Sigue(w, q) /\ db' = db
         \/ Alta(w, FilaNueva(w, t, d), Sigue(w, q), Silencio(w))
         \/ Alta(w, FilaNueva(w, t, d), Sigue(w, q), Sigue(w, q)),
         t = "IDMU" => d = Form(w).clave,
         t = "PROY" => d = obj[w].EXPETREWA /\ a \in ConExpediente
  PROVE  Resultado(w)
<1>1. \E s \in {q, "siguiente", "excepcion"} : pc' = [pc EXCEPT ![w] = s]
  BY Zenon DEF Alta, Sigue, Silencio, Termina, Excepcion, Ir
<1>2. \A r \in db' : r \in db \/ r = FilaNueva(w, t, d)
  BY DEF Alta
<1>3. "siguiente" \notin Dentro
  BY DEF Dentro, ConProyecto, ConExpediente, ConFilas
<1> QED BY <1>1, <1>2, <1>3, AltaBien

LEMMA INPasos ==
  ASSUME IInv, NEW w \in Hilo,
         \/ INPROYECTO(w) \/ INBIP(w) \/ ININI(w) \/ INTOMARAZON(w) \/ SAVEOC(w)
         \/ INADJUDICACION(w)
  PROVE  Resultado(w)
<1> USE DEF Baja, ConProyecto, ConExpediente, ConAntiguos, ConFilas
<1>1. CASE INPROYECTO(w)
  BY <1>1, AltaPaso DEF INPROYECTO
<1>2. CASE INBIP(w)
  BY <1>2, AltaPaso DEF INBIP
<1>3. CASE ININI(w)
  BY <1>3, AltaPaso DEF ININI
<1>4. CASE INTOMARAZON(w)
  BY <1>4, AltaPaso DEF INTOMARAZON
<1>5. CASE SAVEOC(w)
  BY <1>5, AltaPaso DEF SAVEOC
<1>6. CASE INADJUDICACION(w)
  BY <1>6, AltaPaso DEF INADJUDICACION
<1> QED BY <1>1, <1>2, <1>3, <1>4, <1>5, <1>6

LEMMA LazoCampos ==
  ASSUME NEW l \in [Hilo -> Lazo], NEW w \in Hilo, NEW j
  PROVE  LET m == [l EXCEPT ![w].i = j][w]
         IN m.antiguos = l[w].antiguos /\ m.filas = l[w].filas
BY DEF Lazo

LEMMA INCODMERCADOPUBBien ==
  ASSUME IInv, NEW w \in Hilo, INCODMERCADOPUB(w)
  PROVE  Resultado(w)
<1>1. \E s \in {"INUBICATION", "siguiente", "excepcion"} : pc' = [pc EXCEPT ![w] = s]
  BY Zenon DEF INCODMERCADOPUB, Alta, Sigue, Silencio, Termina, Excepcion, Ir
<1>2. \A r \in db' : r \in db \/ r = FilaNueva(w, "IDMU", Form(w).clave)
  BY DEF INCODMERCADOPUB, Alta
<1>3. /\ pc[w] = "INCODMERCADOPUB" /\ lazo' = [lazo EXCEPT ![w].i = 1]
      /\ UNCHANGED <<duenoProy, duenoExpe, obj, peticion, n>>
  BY DEF INCODMERCADOPUB
<1>4. lazo'[w].antiguos = lazo[w].antiguos /\ lazo'[w].filas = lazo[w].filas
  BY <1>3, LazoCampos DEF IInv, TInv, TypeOK
<1>5. /\ "siguiente" \notin Dentro /\ "INCODMERCADOPUB" \in ConProyecto
      /\ \A s \in {"INUBICATION", "excepcion"} : Baja("INCODMERCADOPUB", s)
  BY DEF Dentro, Baja, ConProyecto, ConExpediente, ConAntiguos, ConFilas
<1> QED BY <1>1, <1>2, <1>3, <1>4, <1>5, AltaBien

LEMMA INUBICATIONBien ==
  ASSUME IInv, NEW w \in Hilo, INUBICATION(w)
  PROVE  Resultado(w)
<1> DEFINE c == Form(w).comunas[lazo[w].i]
<1>1. \/ UNCHANGED pc
      \/ \E s \in {"INTOMARAZON", "siguiente", "excepcion"} : pc' = [pc EXCEPT ![w] = s]
  BY ZenonT(40) DEF INUBICATION, Alta, Sigue, Silencio, Termina, Excepcion, Ir
<1>2. \A r \in db' : r \in db \/ r = FilaNueva(w, "UBIC", c)
  BY DEF INUBICATION, Alta
<1>3. /\ pc[w] = "INUBICATION" /\ UNCHANGED <<duenoProy, duenoExpe, obj, peticion, n>>
      /\ UNCHANGED lazo \/ \E j : lazo' = [lazo EXCEPT ![w].i = j]
  BY DEF INUBICATION
<1>4. lazo'[w].antiguos = lazo[w].antiguos /\ lazo'[w].filas = lazo[w].filas
  <2>1. lazo \in [Hilo -> Lazo]
    BY DEF IInv, TInv, TypeOK
  <2>2. ASSUME NEW j, lazo' = [lazo EXCEPT ![w].i = j]
        PROVE  lazo'[w].antiguos = lazo[w].antiguos /\ lazo'[w].filas = lazo[w].filas
    BY <2>1, <2>2, LazoCampos
  <2> QED BY <1>3, <2>2
<1>5. /\ "siguiente" \notin Dentro /\ "INUBICATION" \in ConProyecto
      /\ \A s \in {"INUBICATION", "INTOMARAZON", "excepcion"} : Baja("INUBICATION", s)
  BY DEF Dentro, Baja, ConProyecto, ConExpediente, ConAntiguos, ConFilas
<1>6. \E s \in {"INUBICATION", "INTOMARAZON", "siguiente", "excepcion"} :
        pc' = [pc EXCEPT ![w] = s]
  BY <1>1, <1>3 DEF IInv, TInv, TypeOK
<1> HIDE DEF c
<1> QED BY <1>2, <1>3, <1>4, <1>5, <1>6, AltaBien

LEMMA INSPATIALBien ==
  ASSUME IInv, NEW w \in Hilo, INSPATIAL(w)
  PROVE  Resultado(w)
<1>1. \E s \in {"siguiente", "excepcion"} : pc' = [pc EXCEPT ![w] = s]
  BY Zenon DEF INSPATIAL, Alta, Sigue, Silencio, Termina, Excepcion, Ir
<1>2. \A r \in db' : r \in db \/ r = FilaNueva(w, "SPATIAL", 1)
  BY DEF INSPATIAL, Alta
<1>3. pc[w] = "INSPATIAL" /\ UNCHANGED <<duenoProy, duenoExpe, obj, peticion, n, lazo>>
  BY DEF INSPATIAL
<1>4. /\ "siguiente" \notin Dentro /\ "INSPATIAL" \in ConProyecto
      /\ Baja("INSPATIAL", "excepcion")
  BY DEF Dentro, Baja, ConProyecto, ConExpediente, ConAntiguos, ConFilas
<1> QED BY <1>1, <1>2, <1>3, <1>4, AltaBien

-----------------------------------------------------------------------------
(* The other steps of the form.                                              *)

LEMMA CreaFormularioBien ==
  ASSUME IInv, NEW w \in Hilo, CreaFormulario(w)
  PROVE  Resultado(w)
<1>1. \E s \in {"busca", "siguiente", "libre"} : pc' = [pc EXCEPT ![w] = s]
  BY Zenon DEF CreaFormulario, Termina, Escapa, Ir
<1>2. PICK s \in {"busca", "siguiente", "libre"} : pc' = [pc EXCEPT ![w] = s]
  BY <1>1
<1>3. pc'[w] = s /\ obj'[w] = ObjVacio /\ UNCHANGED externo
  BY <1>2 DEF CreaFormulario, IInv, TInv, TypeOK
<1>4. CASE s = "busca"
  <2>1. \A k, l : Sano(duenoProy', duenoExpe', k, ObjVacio, l, "busca")
    BY DEF Sano, ObjVacio, ConProyecto, ConExpediente, ConAntiguos, ConFilas
  <2>2. SanoEn(w)'
    BY <1>3, <1>4, <2>1 DEF SanoEn
  <2> QED BY <1>3, <2>2, ExtiendeIgual DEF Resultado, externo, IInv, InvDb
<1>5. CASE s # "busca"
  <2>1. s \notin Dentro
    BY <1>2, <1>5 DEF Dentro, ConProyecto, ConExpediente, ConFilas
  <2> QED BY <1>2, <1>3, <2>1, FueraBien
<1> QED BY <1>4, <1>5

(* To take up project x of xs, all of them of the line.                      *)
LEMMA FotografiaBien ==
  ASSUME IInv, NEW w \in Hilo, pc[w] \in Dentro, NEW xs, Fotografia(w, xs),
         \A x \in xs : De(duenoProy, Form(w).clave, x),
         UNCHANGED <<duenoProy, duenoExpe, peticion, n>>, db' \subseteq db
  PROVE  Resultado(w)
<1>1. PICK x \in xs :
        /\ pc' = [pc EXCEPT ![w] = "foto"]
        /\ obj' = [obj EXCEPT ![w].X_PROY = x]
        /\ lazo' = [lazo EXCEPT ![w] = [i |-> 1, antiguos |-> xs \ {x}, filas |-> {}]]
  BY DEF Fotografia, Sigue, Ir
<1>2. /\ obj'[w].X_PROY = x /\ obj'[w].EXPETREWA = obj[w].EXPETREWA
      /\ obj'[w].ROLLBACK = obj[w].ROLLBACK
  BY <1>1, ObjCampos DEF IInv, TInv, TypeOK
<1>3. /\ pc'[w] = "foto" /\ lazo'[w] = [i |-> 1, antiguos |-> xs \ {x}, filas |-> {}]
  BY <1>1 DEF IInv, TInv, TypeOK
<1>4. Sano(duenoProy, duenoExpe, Form(w).clave, obj[w], lazo[w], pc[w])
  BY DEF IInv, InvHilo, SanoEn
<1>5. Sano(duenoProy, duenoExpe, Form(w).clave, obj'[w], lazo'[w], "foto")
  BY <1>2, <1>3, <1>4 DEF Sano, ConExpediente
<1>6. Form(w)' = Form(w)
  BY DEF Form
<1>7. SanoEn(w)'
  BY <1>3, <1>5, <1>6 DEF SanoEn
<1>8. Extiende(duenoProy, duenoProy') /\ Extiende(duenoExpe, duenoExpe') /\ InvDb'
  BY ExtiendeIgual DEF IInv, InvDb
<1> QED BY <1>7, <1>8 DEF Resultado

LEMMA BuscaAntiguosBien ==
  ASSUME IInv, NEW w \in Hilo, BuscaAntiguos(w)
  PROVE  Resultado(w)
<1> DEFINE los == {f.X_PROY : f \in {g \in db : g.tabla = "IDMU" /\ g.dato = Form(w).clave}}
<1>1. /\ pc[w] = "busca" /\ UNCHANGED <<db, duenoProy, duenoExpe, peticion, n>>
      /\ \/ Excepcion(w) /\ UNCHANGED <<obj, lazo>>
         \/ Sigue(w, "creaExp") /\ UNCHANGED <<obj, lazo>>
         \/ Fotografia(w, {}) \/ Fotografia(w, los)
  BY Zenon DEF BuscaAntiguos, externo
<1>2. \A x \in los : De(duenoProy, Form(w).clave, x)
  BY DEF IInv, InvDb, FilaBien, De
<1> HIDE DEF los
<1>3. "busca" \in Dentro /\ \A s \in {"excepcion", "creaExp"} : Baja("busca", s)
  BY DEF Dentro, Baja, ConProyecto, ConExpediente, ConAntiguos, ConFilas
<1>4. CASE Fotografia(w, {}) \/ Fotografia(w, los)
  BY <1>1, <1>2, <1>3, <1>4, FotografiaBien
<1>5. CASE (Excepcion(w) \/ Sigue(w, "creaExp")) /\ UNCHANGED <<obj, lazo>>
  <2>1. \E s \in {"excepcion", "creaExp"} : pc' = [pc EXCEPT ![w] = s]
    BY <1>5 DEF Excepcion, Sigue, Ir
  <2> QED BY <1>1, <1>3, <1>5, <2>1, EnForma
<1> QED BY <1>1, <1>4, <1>5
LEMMA LeeFotoBien ==
  ASSUME IInv, NEW w \in Hilo, LeeFoto(w)
  PROVE  Resultado(w)
<1> DEFINE k == Form(w).clave
           t == OrdenFoto[lazo[w].i]
<1>1. /\ pc[w] = "foto" /\ UNCHANGED <<db, duenoProy, duenoExpe, peticion, n>>
      /\ \E fs \in {{}, FilasDe(t, obj[w].X_PROY)} :
           \/ Excepcion(w) /\ UNCHANGED <<obj, lazo>>
           \/ \E g \in Guardable(t, fs) :
                \/ /\ lazo' = [lazo EXCEPT ![w].i = @ + 1, ![w].filas = @ \cup g]
                   /\ UNCHANGED <<pc, obj>>
                \/ /\ obj' = [obj EXCEPT ![w].ROLLBACK = lazo[w].filas \cup g,
                                         ![w].hayRollback = TRUE]
                   /\ Sigue(w, "proyecto") /\ UNCHANGED lazo
  BY Zenon DEF LeeFoto, externo
<1>2. Sano(duenoProy, duenoExpe, k, obj[w], lazo[w], "foto")
  BY <1>1 DEF IInv, InvHilo, SanoEn, Dentro, ConFilas
<1>3. \A f \in FilasDe(t, obj[w].X_PROY) : f \in Fila /\ FilaDe(duenoProy, duenoExpe, k, f)
  <2>1. De(duenoProy, k, obj[w].X_PROY)
    BY <1>2 DEF Sano, ConProyecto
  <2>2. \A f \in db : f \in Fila /\ FilaBien(duenoProy, duenoExpe, f)
    BY DEF IInv, TInv, TypeOK, InvDb
  <2> QED BY <2>1, <2>2 DEF FilasDe, FilaDe
<1>4. \A r \in lazo[w].filas : FilaDe(duenoProy, duenoExpe, k, r)
  BY <1>2 DEF Sano, ConFilas
<1>5. /\ "foto" \in Dentro /\ Baja("foto", "excepcion")
  BY DEF Dentro, Baja, ConProyecto, ConExpediente, ConAntiguos, ConFilas
<1>6. Form(w)' = Form(w)
  BY <1>1 DEF Form
<1>7. Extiende(duenoProy, duenoProy') /\ Extiende(duenoExpe, duenoExpe') /\ InvDb'
  BY <1>1, ExtiendeIgual DEF IInv, InvDb
<1>8. /\ pc \in [Hilo -> Punto] /\ obj \in [Hilo -> Objeto] /\ lazo \in [Hilo -> Lazo]
  BY DEF IInv, TInv, TypeOK
<1> HIDE DEF k, t
<1>9. CASE Excepcion(w) /\ UNCHANGED <<obj, lazo>>
  <2>1. pc' = [pc EXCEPT ![w] = "excepcion"]
    BY <1>9 DEF Excepcion, Sigue, Ir
  <2> QED BY <1>1, <1>5, <1>9, <2>1, EnForma
<1>10. ASSUME NEW fs \in {{}, FilasDe(t, obj[w].X_PROY)}, NEW g \in Guardable(t, fs)
       PROVE  \A r \in lazo[w].filas \cup g : FilaDe(duenoProy, duenoExpe, k, r)
  <2>1. fs \in SUBSET Fila /\ \A f \in fs : FilaDe(duenoProy, duenoExpe, k, f)
    BY <1>3
  <2> QED BY <1>4, <2>1, GuardableBien
<1>11. ASSUME NEW g, \A r \in lazo[w].filas \cup g : FilaDe(duenoProy, duenoExpe, k, r),
              lazo' = [lazo EXCEPT ![w].i = @ + 1, ![w].filas = @ \cup g],
              UNCHANGED <<pc, obj>>
       PROVE  SanoEn(w)'
  <2>1. lazo'[w].antiguos = lazo[w].antiguos /\ lazo'[w].filas = lazo[w].filas \cup g
    BY <1>8, <1>11 DEF Lazo
  <2>2. Sano(duenoProy, duenoExpe, k, obj[w], lazo'[w], "foto")
    BY <1>2, <1>11, <2>1 DEF Sano
  <2> QED BY <1>1, <1>6, <1>11, <2>2 DEF SanoEn, k
<1>12. ASSUME NEW g, \A r \in lazo[w].filas \cup g : FilaDe(duenoProy, duenoExpe, k, r),
              obj' = [obj EXCEPT ![w].ROLLBACK = lazo[w].filas \cup g, ![w].hayRollback = TRUE],
              Sigue(w, "proyecto"), UNCHANGED lazo
       PROVE  SanoEn(w)'
  <2>1. /\ obj'[w].ROLLBACK = lazo[w].filas \cup g /\ obj'[w].X_PROY = obj[w].X_PROY
        /\ obj'[w].EXPETREWA = obj[w].EXPETREWA
    BY <1>8, <1>12, ObjCampos
  <2>2. Sano(duenoProy, duenoExpe, k, obj'[w], lazo[w], "proyecto")
    BY <1>2, <1>12, <2>1 DEF Sano, ConProyecto, ConExpediente, ConAntiguos, ConFilas
  <2>3. pc'[w] = "proyecto" /\ lazo' = lazo
    BY <1>8, <1>12 DEF Sigue, Ir
  <2> QED BY <1>1, <1>6, <2>2, <2>3 DEF SanoEn, k
<1>13. (Excepcion(w) /\ UNCHANGED <<obj, lazo>>) \/ SanoEn(w)'
  BY <1>1, <1>10, <1>11, <1>12
<1> QED BY <1>7, <1>9, <1>13 DEF Resultado

LEMMA LeeProyectoBien ==
  ASSUME IInv, NEW w \in Hilo, LeeProyecto(w)
  PROVE  Resultado(w)
<1> DEFINE k == Form(w).clave
<1>1. /\ pc[w] = "proyecto" /\ UNCHANGED <<db, duenoProy, duenoExpe, peticion, n>>
      /\ \/ (Excepcion(w) \/ Silencio(w)) /\ UNCHANGED <<obj, lazo>>
         \/ \E f \in ProyectoAntiguo(w) :
              /\ obj' = [obj EXCEPT ![w].EXPETREWA = f.dato]
              /\ lazo' = [lazo EXCEPT ![w].i = 1]
              /\ Sigue(w, "borra")
  BY Zenon DEF LeeProyecto, externo
<1>2. Sano(duenoProy, duenoExpe, k, obj[w], lazo[w], "proyecto")
  BY <1>1 DEF IInv, InvHilo, SanoEn, Dentro, ConProyecto
<1>3. /\ pc \in [Hilo -> Punto] /\ obj \in [Hilo -> Objeto] /\ lazo \in [Hilo -> Lazo]
      /\ duenoExpe \in Seq(Clave)
  BY DEF IInv, TInv, TypeOK
<1>4. CASE (Excepcion(w) \/ Silencio(w)) /\ UNCHANGED <<obj, lazo>>
  <2>1. \E s \in {"excepcion", "siguiente"} : pc' = [pc EXCEPT ![w] = s]
    BY <1>4 DEF Excepcion, Sigue, Silencio, Termina, Ir
  <2>2. "proyecto" \in Dentro /\ "siguiente" \notin Dentro /\ Baja("proyecto", "excepcion")
    BY DEF Dentro, Baja, ConProyecto, ConExpediente, ConAntiguos, ConFilas
  <2> QED BY <1>1, <1>4, <2>1, <2>2, EnForma
<1>5. CASE \E f \in ProyectoAntiguo(w) : /\ obj' = [obj EXCEPT ![w].EXPETREWA = f.dato]
                                         /\ lazo' = [lazo EXCEPT ![w].i = 1]
                                         /\ Sigue(w, "borra")
  <2>1. PICK f \in ProyectoAntiguo(w) : /\ obj' = [obj EXCEPT ![w].EXPETREWA = f.dato]
                                        /\ lazo' = [lazo EXCEPT ![w].i = 1]
                                        /\ Sigue(w, "borra")
    BY <1>5
  <2>2. FilaBien(duenoProy, duenoExpe, f) /\ f.tabla = "PROY" /\ f.X_PROY = obj[w].X_PROY
    BY DEF ProyectoAntiguo, FilasDe, IInv, InvDb
  <2>3. De(duenoProy, k, obj[w].X_PROY)
    BY <1>2 DEF Sano, ConProyecto
  <2>4. f.dato = Error \/ De(duenoExpe, k, f.dato)
    BY <2>2, <2>3 DEF FilaBien, De
  <2>5. f.dato # Nulo
    <3>1. De(duenoExpe, k, f.dato) => f.dato # Nulo
      BY <1>3, DeNoNulo
    <3>2. Error # Nulo
      BY DEF Error, Nulo
    <3> QED BY <2>4, <3>1, <3>2
  <2>6. /\ obj'[w].EXPETREWA = f.dato /\ obj'[w].X_PROY = obj[w].X_PROY
        /\ obj'[w].ROLLBACK = obj[w].ROLLBACK
    BY <1>3, <2>1, ObjCampos
  <2>7. lazo'[w].antiguos = lazo[w].antiguos /\ pc'[w] = "borra"
    BY <1>3, <2>1, LazoCampos DEF Sigue, Ir
  <2>8. Sano(duenoProy, duenoExpe, k, obj'[w], lazo'[w], "borra")
    BY <1>2, <2>4, <2>5, <2>6, <2>7 DEF Sano, ConProyecto, ConAntiguos, ConFilas
  <2>9. Form(w)' = Form(w)
    BY <1>1 DEF Form
  <2>10. SanoEn(w)'
    BY <1>1, <2>7, <2>8, <2>9 DEF SanoEn
  <2> QED BY <1>1, <2>10, ExtiendeIgual DEF Resultado, IInv, InvDb
<1> QED BY <1>1, <1>4, <1>5

LEMMA BorraBien ==
  ASSUME IInv, NEW w \in Hilo, Borra(w)
  PROVE  Resultado(w)
<1> DEFINE k == Form(w).clave
<1>1. /\ pc[w] = "borra" /\ UNCHANGED <<duenoProy, duenoExpe, peticion, n>>
      /\ \/ Excepcion(w) /\ UNCHANGED <<obj, lazo>>
         \/ lazo' = [lazo EXCEPT ![w].i = @ + 1] /\ UNCHANGED <<pc, obj>>
         \/ Fotografia(w, lazo[w].antiguos)
         \/ /\ Sigue(w, "genera") /\ obj' = [obj EXCEPT ![w].X_PROY = Nulo] /\ UNCHANGED lazo
  BY ZenonT(40) DEF Borra, delFromGeo, OtraTabla
<1>2. db' \subseteq db
  BY DEF Borra, delFromGeo
<1>3. Sano(duenoProy, duenoExpe, k, obj[w], lazo[w], "borra")
  BY <1>1 DEF IInv, InvHilo, SanoEn, Dentro, ConProyecto
<1>4. /\ pc \in [Hilo -> Punto] /\ obj \in [Hilo -> Objeto] /\ lazo \in [Hilo -> Lazo]
  BY DEF IInv, TInv, TypeOK
<1>5. "borra" \in Dentro /\ Baja("borra", "borra") /\ Baja("borra", "excepcion")
  BY DEF Dentro, Baja, ConProyecto, ConExpediente, ConAntiguos, ConFilas
<1>6. CASE Excepcion(w) /\ UNCHANGED <<obj, lazo>>
  <2>1. pc' = [pc EXCEPT ![w] = "excepcion"]
    BY <1>6 DEF Excepcion, Sigue, Ir
  <2> QED BY <1>1, <1>2, <1>5, <1>6, <2>1, EnForma
<1>7. CASE lazo' = [lazo EXCEPT ![w].i = @ + 1] /\ UNCHANGED <<pc, obj>>
  <2>1. pc' = [pc EXCEPT ![w] = "borra"]
    BY <1>1, <1>4, <1>7
  <2>2. lazo'[w].antiguos = lazo[w].antiguos /\ lazo'[w].filas = lazo[w].filas
    BY <1>4, <1>7, LazoCampos
  <2> QED BY <1>1, <1>2, <1>5, <1>7, <2>1, <2>2, EnForma
<1>8. CASE Fotografia(w, lazo[w].antiguos)
  <2>1. \A x \in lazo[w].antiguos : De(duenoProy, k, x)
    BY <1>3 DEF Sano, ConAntiguos
  <2> QED BY <1>1, <1>2, <1>5, <1>8, <2>1, FotografiaBien
<1>9. CASE Sigue(w, "genera") /\ obj' = [obj EXCEPT ![w].X_PROY = Nulo] /\ UNCHANGED lazo
  <2>1. /\ obj'[w].EXPETREWA = obj[w].EXPETREWA /\ obj'[w].X_PROY = Nulo
        /\ obj'[w].ROLLBACK = obj[w].ROLLBACK /\ pc'[w] = "genera" /\ lazo'[w] = lazo[w]
    BY <1>4, <1>9, ObjCampos DEF Sigue, Ir
  <2>2. Sano(duenoProy, duenoExpe, k, obj'[w], lazo[w], "genera")
    BY <1>3, <2>1 DEF Sano, ConProyecto, ConExpediente, ConAntiguos, ConFilas
  <2>3. Form(w)' = Form(w)
    BY <1>1 DEF Form
  <2>4. SanoEn(w)'
    BY <1>1, <2>1, <2>2, <2>3 DEF SanoEn
  <2> QED BY <1>1, <1>2, <2>4, ExtiendeIgual DEF Resultado, IInv, InvDb
<1> QED BY <1>1, <1>6, <1>7, <1>8, <1>9

LEMMA CreaExpedienteBien ==
  ASSUME IInv, NEW w \in Hilo, CreaExpediente(w)
  PROVE  Resultado(w)
<1> DEFINE k == Form(w).clave
<1>1. /\ pc[w] = "creaExp" /\ UNCHANGED <<db, duenoProy, peticion, n, lazo>>
      /\ pc' = [pc EXCEPT ![w] = "asigna"]
      /\ \/ /\ duenoExpe' = Append(duenoExpe, k)
            /\ obj' = [obj EXCEPT ![w].EXPETREWA = Len(duenoExpe) + 1]
         \/ obj' = [obj EXCEPT ![w].EXPETREWA = Error] /\ UNCHANGED duenoExpe
  BY DEF CreaExpediente, Sigue, Ir
<1>2. Sano(duenoProy, duenoExpe, k, obj[w], lazo[w], "creaExp")
  BY <1>1 DEF IInv, InvHilo, SanoEn, Dentro
<1>3. /\ pc \in [Hilo -> Punto] /\ obj \in [Hilo -> Objeto] /\ duenoExpe \in Seq(Clave)
  BY DEF IInv, TInv, TypeOK
<1>4. k \in Clave
  BY <1>1, FormTipo DEF IInv, Formulario
<1>5. /\ Extiende(duenoExpe, duenoExpe')
      /\ obj'[w].EXPETREWA = Error \/ De(duenoExpe', k, obj'[w].EXPETREWA)
      /\ obj'[w].EXPETREWA # Nulo
      /\ obj'[w].X_PROY = obj[w].X_PROY /\ obj'[w].ROLLBACK = obj[w].ROLLBACK
  <2>1. CASE /\ duenoExpe' = Append(duenoExpe, k)
             /\ obj' = [obj EXCEPT ![w].EXPETREWA = Len(duenoExpe) + 1]
    <3>1. /\ obj'[w].EXPETREWA = Len(duenoExpe) + 1
          /\ obj'[w].X_PROY = obj[w].X_PROY /\ obj'[w].ROLLBACK = obj[w].ROLLBACK
      BY <1>3, <2>1, ObjCampos
    <3>2. Extiende(duenoExpe, duenoExpe') /\ De(duenoExpe', k, Len(duenoExpe) + 1)
      BY <1>3, <1>4, <2>1, ExtiendeAppend
    <3>3. Len(duenoExpe) + 1 # Nulo
      BY <1>3 DEF Nulo
    <3> QED BY <3>1, <3>2, <3>3
  <2>2. CASE obj' = [obj EXCEPT ![w].EXPETREWA = Error] /\ UNCHANGED duenoExpe
    <3>1. /\ obj'[w].EXPETREWA = Error
          /\ obj'[w].X_PROY = obj[w].X_PROY /\ obj'[w].ROLLBACK = obj[w].ROLLBACK
      BY <1>3, <2>2, ObjCampos
    <3>2. Error # Nulo
      BY DEF Error, Nulo
    <3> QED BY <2>2, <3>1, <3>2, ExtiendeIgual
  <2> QED BY <1>1, <2>1, <2>2
<1>6. Sano(duenoProy, duenoExpe', k, obj[w], lazo[w], "creaExp")
  BY <1>2, <1>5, ExtiendeIgual, SanoCrece
<1>7. Sano(duenoProy, duenoExpe', k, obj'[w], lazo[w], "asigna")
  BY <1>5, <1>6 DEF Sano, ConProyecto, ConAntiguos, ConFilas
<1>8. Form(w)' = Form(w) /\ pc'[w] = "asigna" /\ lazo' = lazo /\ duenoProy' = duenoProy
  BY <1>1, <1>3 DEF Form
<1>9. SanoEn(w)'
  BY <1>7, <1>8 DEF SanoEn
<1>10. Extiende(duenoProy, duenoProy') /\ InvDb'
  BY <1>1, <1>5, <1>8, ExtiendeIgual, DbBien DEF IInv
<1> QED BY <1>5, <1>9, <1>10 DEF Resultado

(* A drawn project code belongs to the line of the form: -1 never comes.     *)
LEMMA GENERATE_X_PROYBien ==
  ASSUME "seq" \notin Fallas, IInv, NEW w \in Hilo, GENERATE_X_PROY(w)
  PROVE  Resultado(w)
<1> DEFINE k == Form(w).clave
<1>1. /\ pc[w] = "genera" /\ UNCHANGED <<db, duenoExpe, peticion, n, lazo>>
      /\ \E s \in {"excepcion", "siguiente", "INPROYECTO"} :
           /\ pc' = [pc EXCEPT ![w] = s]
           /\ \/ /\ duenoProy' = Append(duenoProy, k)
                 /\ obj' = [obj EXCEPT ![w].X_PROY = Len(duenoProy) + 1]
              \/ /\ s = "excepcion" /\ UNCHANGED duenoProy
                 /\ obj' = [obj EXCEPT ![w].X_PROY = obj[w].X_PROY]
  <2>1. PICK r \in Salidas(FallaSeq) :
          /\ duenoProy' = IF r = "ok" THEN Append(duenoProy, k) ELSE duenoProy
          /\ obj' = [obj EXCEPT ![w].X_PROY = CASE r = "ok"  -> Len(duenoProy) + 1
                                                [] r = "seq" -> Error
                                                [] r = "io"  -> @]
          /\ \/ r = "io" /\ Excepcion(w)
             \/ r # "io" /\ Form(w).spatial = "ausente" /\ Silencio(w)
             \/ r # "io" /\ Form(w).spatial # "ausente" /\ Sigue(w, "INPROYECTO")
    BY Zenon DEF GENERATE_X_PROY
  <2>2. r \in {"ok", "io"}
    BY DEF Salidas, FallaSeq
  <2>3. /\ pc[w] = "genera" /\ UNCHANGED <<db, duenoExpe, peticion, n, lazo>>
    BY DEF GENERATE_X_PROY
  <2>4. CASE r = "ok"
    <3>1. \E s \in {"siguiente", "INPROYECTO"} : pc' = [pc EXCEPT ![w] = s]
      BY <2>1, <2>4 DEF Silencio, Termina, Sigue, Ir
    <3> QED BY <2>1, <2>3, <2>4, <3>1
  <2>5. CASE r = "io"
    <3>1. pc' = [pc EXCEPT ![w] = "excepcion"]
      BY <2>1, <2>5 DEF Excepcion, Sigue, Ir
    <3> QED BY <2>1, <2>3, <2>5, <3>1
  <2> QED BY <2>2, <2>4, <2>5
<1>2. Sano(duenoProy, duenoExpe, k, obj[w], lazo[w], "genera")
  BY <1>1 DEF IInv, InvHilo, SanoEn, Dentro, ConExpediente
<1>3. /\ pc \in [Hilo -> Punto] /\ obj \in [Hilo -> Objeto] /\ duenoProy \in Seq(Clave)
  BY DEF IInv, TInv, TypeOK
<1>4. k \in Clave
  BY <1>1, FormTipo DEF IInv, Formulario
<1>5. /\ Extiende(duenoProy, duenoProy')
      /\ obj'[w].EXPETREWA = obj[w].EXPETREWA /\ obj'[w].ROLLBACK = obj[w].ROLLBACK
      /\ \/ De(duenoProy', k, obj'[w].X_PROY)
         \/ pc' = [pc EXCEPT ![w] = "excepcion"] /\ obj'[w].X_PROY = obj[w].X_PROY
  <2>1. CASE /\ duenoProy' = Append(duenoProy, k)
             /\ obj' = [obj EXCEPT ![w].X_PROY = Len(duenoProy) + 1]
    <3>1. /\ obj'[w].X_PROY = Len(duenoProy) + 1
          /\ obj'[w].EXPETREWA = obj[w].EXPETREWA /\ obj'[w].ROLLBACK = obj[w].ROLLBACK
      BY <1>3, <2>1, ObjCampos
    <3>2. Extiende(duenoProy, duenoProy') /\ De(duenoProy', k, Len(duenoProy) + 1)
      BY <1>3, <1>4, <2>1, ExtiendeAppend
    <3> QED BY <3>1, <3>2
  <2>2. CASE /\ pc' = [pc EXCEPT ![w] = "excepcion"] /\ UNCHANGED duenoProy
             /\ obj' = [obj EXCEPT ![w].X_PROY = obj[w].X_PROY]
    <3>1. /\ obj'[w].X_PROY = obj[w].X_PROY
          /\ obj'[w].EXPETREWA = obj[w].EXPETREWA /\ obj'[w].ROLLBACK = obj[w].ROLLBACK
      BY <1>3, <2>2, ObjCampos
    <3> QED BY <2>2, <3>1, ExtiendeIgual
  <2> QED BY <1>1, <2>1, <2>2
<1>6. Sano(duenoProy', duenoExpe, k, obj[w], lazo[w], "genera")
  BY <1>2, <1>5, ExtiendeIgual, SanoCrece
<1>7. PICK s \in {"excepcion", "siguiente", "INPROYECTO"} : pc' = [pc EXCEPT ![w] = s]
  BY <1>1
<1>8. Form(w)' = Form(w) /\ pc'[w] = s /\ lazo' = lazo /\ duenoExpe' = duenoExpe
  BY <1>1, <1>3, <1>7 DEF Form
<1>9. s = "siguiente" \/ Sano(duenoProy', duenoExpe, k, obj'[w], lazo[w], s)
  <2>1. CASE s = "excepcion"
    BY <1>5, <1>6, <2>1 DEF Sano, ConProyecto, ConExpediente, ConAntiguos, ConFilas
  <2>2. CASE s = "INPROYECTO"
    <3>1. De(duenoProy', k, obj'[w].X_PROY)
      BY <1>3, <1>5, <1>8, <2>2
    <3> QED BY <1>5, <1>6, <2>2, <3>1 DEF Sano, ConExpediente, ConAntiguos, ConFilas
  <2> QED BY <1>7, <2>1, <2>2
<1>10. pc'[w] \in Dentro => SanoEn(w)'
  <2>1. "siguiente" \notin Dentro
    BY DEF Dentro, ConProyecto, ConExpediente, ConFilas
  <2> QED BY <1>8, <1>9, <2>1 DEF SanoEn
<1>11. Extiende(duenoExpe, duenoExpe') /\ InvDb'
  BY <1>1, <1>5, <1>8, ExtiendeIgual, DbBien DEF IInv
<1> QED BY <1>5, <1>10, <1>11 DEF Resultado

LEMMA AsignaRollbackBien ==
  ASSUME IInv, NEW w \in Hilo, AsignaServicio(w) \/ Rollback(w)
  PROVE  Resultado(w)
<1>0. lazo \in [Hilo -> Lazo] /\ obj \in [Hilo -> Objeto] /\ pc \in [Hilo -> Punto]
  BY DEF IInv, TInv, TypeOK
<1>1. CASE AsignaServicio(w)
  <2>1. /\ pc[w] = "asigna" /\ UNCHANGED <<db, duenoProy, duenoExpe, peticion, n, obj, lazo>>
        /\ \E s \in {"genera", "excepcion"} : pc' = [pc EXCEPT ![w] = s]
    BY <1>1 DEF AsignaServicio, Sigue, Excepcion, Ir, externo
  <2>2. "asigna" \in Dentro /\ \A s \in {"genera", "excepcion"} : Baja("asigna", s)
    BY DEF Dentro, Baja, ConProyecto, ConExpediente, ConAntiguos, ConFilas
  <2> QED BY <2>1, <2>2, EnForma
<1>2. CASE Rollback(w)
  <2>1. /\ pc[w] = "excepcion" /\ UNCHANGED <<db, duenoProy, duenoExpe, peticion, n, obj>>
        /\ \/ \E s \in {"libre", "siguiente"} : pc' = [pc EXCEPT ![w] = s]
           \/ /\ obj[w].X_PROY # Nulo /\ pc' = [pc EXCEPT ![w] = "rborra"]
              /\ lazo' = [lazo EXCEPT ![w].i = 1]
    BY <1>2 DEF Rollback, Escapa, Termina, Sigue, Ir, externo
  <2>2. CASE \E s \in {"libre", "siguiente"} : pc' = [pc EXCEPT ![w] = s]
    <3>1. \A s \in {"libre", "siguiente"} : s \notin Dentro
      BY DEF Dentro, ConProyecto, ConExpediente, ConFilas
    <3> QED BY <2>1, <2>2, <3>1, FueraBien DEF externo
  <2>3. CASE /\ obj[w].X_PROY # Nulo /\ pc' = [pc EXCEPT ![w] = "rborra"]
             /\ lazo' = [lazo EXCEPT ![w].i = 1]
    <3>1. Sano(duenoProy, duenoExpe, Form(w).clave, obj[w], lazo[w], "excepcion")
      BY <2>1 DEF IInv, InvHilo, SanoEn, Dentro
    <3>2. Sano(duenoProy, duenoExpe, Form(w).clave, obj[w], lazo'[w], "rborra")
      BY <2>3, <3>1 DEF Sano, ConExpediente, ConAntiguos, ConFilas
    <3>3. Form(w)' = Form(w) /\ pc'[w] = "rborra"
      BY <1>0, <2>1, <2>3 DEF Form
    <3>4. SanoEn(w)'
      BY <2>1, <3>2, <3>3 DEF SanoEn
    <3> QED BY <2>1, <3>4, ExtiendeIgual DEF Resultado, IInv, InvDb
  <2> QED BY <2>1, <2>2, <2>3
<1> QED BY <1>1, <1>2

LEMMA RollbackBorraBien ==
  ASSUME IInv, NEW w \in Hilo, RollbackBorra(w)
  PROVE  Resultado(w)
<1> DEFINE k == Form(w).clave
<1>1. /\ pc[w] = "rborra" /\ UNCHANGED <<duenoProy, duenoExpe, peticion, n>>
      /\ \/ FalloRollback(w) /\ UNCHANGED <<obj, lazo>>
         \/ lazo' = [lazo EXCEPT ![w].i = @ + 1] /\ UNCHANGED <<pc, obj>>
         \/ /\ Sigue(w, "restaura") /\ obj' = [obj EXCEPT ![w].X_PROY = Nulo]
            /\ lazo' = [lazo EXCEPT ![w].filas = obj[w].ROLLBACK]
  BY Zenon DEF RollbackBorra, delFromGeo, OtraTabla
<1>2. db' \subseteq db
  BY DEF RollbackBorra, delFromGeo
<1>3. Sano(duenoProy, duenoExpe, k, obj[w], lazo[w], "rborra")
  BY <1>1 DEF IInv, InvHilo, SanoEn, Dentro, ConProyecto
<1>4. /\ pc \in [Hilo -> Punto] /\ obj \in [Hilo -> Objeto] /\ lazo \in [Hilo -> Lazo]
  BY DEF IInv, TInv, TypeOK
<1>5. "rborra" \in Dentro /\ Baja("rborra", "rborra") /\ "siguiente" \notin Dentro
  BY DEF Dentro, Baja, ConProyecto, ConExpediente, ConAntiguos, ConFilas
<1>6. CASE FalloRollback(w) /\ UNCHANGED <<obj, lazo>>
  <2>1. pc' = [pc EXCEPT ![w] = "siguiente"]
    BY <1>6 DEF FalloRollback, Termina, Ir
  <2> QED BY <1>1, <1>2, <1>5, <1>6, <2>1, EnForma
<1>7. CASE lazo' = [lazo EXCEPT ![w].i = @ + 1] /\ UNCHANGED <<pc, obj>>
  <2>1. pc' = [pc EXCEPT ![w] = "rborra"]
    BY <1>1, <1>4, <1>7
  <2>2. lazo'[w].antiguos = lazo[w].antiguos /\ lazo'[w].filas = lazo[w].filas
    BY <1>4, <1>7, LazoCampos
  <2> QED BY <1>1, <1>2, <1>5, <1>7, <2>1, <2>2, EnForma
<1>8. CASE /\ Sigue(w, "restaura") /\ obj' = [obj EXCEPT ![w].X_PROY = Nulo]
           /\ lazo' = [lazo EXCEPT ![w].filas = obj[w].ROLLBACK]
  <2>1. /\ obj'[w].EXPETREWA = obj[w].EXPETREWA /\ obj'[w].X_PROY = Nulo
        /\ obj'[w].ROLLBACK = obj[w].ROLLBACK
    BY <1>4, <1>8, ObjCampos
  <2>2. pc'[w] = "restaura" /\ lazo'[w].filas = obj[w].ROLLBACK
    BY <1>4, <1>8 DEF Sigue, Ir, Lazo
  <2>3. Sano(duenoProy, duenoExpe, k, obj'[w], lazo'[w], "restaura")
    BY <1>3, <2>1, <2>2 DEF Sano, ConProyecto, ConExpediente, ConAntiguos, ConFilas
  <2>4. Form(w)' = Form(w)
    BY <1>1 DEF Form
  <2>5. SanoEn(w)'
    BY <1>1, <2>2, <2>3, <2>4 DEF SanoEn
  <2> QED BY <1>1, <1>2, <2>5, ExtiendeIgual DEF Resultado, IInv, InvDb
<1> QED BY <1>1, <1>6, <1>7, <1>8

LEMMA RestauraBien ==
  ASSUME IInv, NEW w \in Hilo, Restaura(w)
  PROVE  Resultado(w)
<1>1. /\ pc[w] = "restaura" /\ UNCHANGED <<duenoProy, duenoExpe, obj, peticion, n>>
      /\ \/ UNCHANGED pc
         \/ \E s \in {"siguiente", "libre"} : pc' = [pc EXCEPT ![w] = s]
      /\ \/ UNCHANGED <<db, lazo>>
         \/ \E f \in lazo[w].filas : /\ \A r \in db' : r \in db \/ r = f
                                     /\ lazo' = [lazo EXCEPT ![w].filas = @ \ {f}]
  BY DEF Restaura, Termina, Escapa, FalloRollback, Ir, Primeras
<1>2. Sano(duenoProy, duenoExpe, Form(w).clave, obj[w], lazo[w], "restaura")
  BY <1>1 DEF IInv, InvHilo, SanoEn, Dentro, ConFilas
<1>3. /\ pc \in [Hilo -> Punto] /\ lazo \in [Hilo -> Lazo]
  BY DEF IInv, TInv, TypeOK
<1>4. \A r \in db' : r \in db \/ FilaBien(duenoProy, duenoExpe, r)
  BY <1>1, <1>2 DEF Sano, ConFilas, FilaDe
<1>5. lazo'[w].filas \subseteq lazo[w].filas
  BY <1>1, <1>3 DEF Lazo
<1>6. pc'[w] \in {"restaura", "siguiente", "libre"}
  BY <1>1, <1>3
<1>7. Form(w)' = Form(w)
  BY <1>1 DEF Form
<1>8. pc'[w] \in Dentro => SanoEn(w)'
  <2>1. \A s \in {"siguiente", "libre"} : s \notin Dentro
    BY DEF Dentro, ConProyecto, ConExpediente, ConFilas
  <2>2. Sano(duenoProy, duenoExpe, Form(w).clave, obj[w], lazo'[w], "restaura")
    BY <1>2, <1>5 DEF Sano, ConAntiguos, ConFilas
  <2> QED BY <1>1, <1>6, <1>7, <2>1, <2>2 DEF SanoEn
<1> QED BY <1>1, <1>4, <1>8, ExtiendeIgual, DbBien DEF Resultado, IInv
LEMMA FueraPasos ==
  ASSUME IInv, NEW w \in Hilo,
         Recibe(w) \/ LeeMercado(w) \/ Responde(w) \/ Avanza(w)
  PROVE  Resultado(w)
<1>1. /\ \E s \in {"datos", "formulario", "libre"} : pc' = [pc EXCEPT ![w] = s]
      /\ UNCHANGED externo
  BY DEF Recibe, LeeMercado, Responde, Avanza, Escapa, Ir
<1>2. \A s \in {"datos", "formulario", "libre"} : s \notin Dentro
  BY DEF Dentro, ConProyecto, ConExpediente, ConFilas
<1> QED BY <1>1, <1>2, FueraBien

-----------------------------------------------------------------------------
(* A step of w changes nothing of another worker.                            *)

LEMMA PasoOtros ==
  ASSUME TInv, NEW w \in Hilo, Recibe(w) \/ Paso(w)
  PROVE  Otros(w)
<1> USE DEF TInv, TypeOK
<1>1. CASE \/ Recibe(w) \/ LeeMercado(w) \/ Responde(w) \/ Avanza(w) \/ CreaFormulario(w)
           \/ LeeProyecto(w) \/ CreaExpediente(w) \/ AsignaServicio(w) \/ GENERATE_X_PROY(w)
  BY <1>1 DEF Otros, Recibe, LeeMercado, Responde, Avanza, CreaFormulario, LeeProyecto,
     CreaExpediente, AsignaServicio, GENERATE_X_PROY, Termina, Escapa, Excepcion, Silencio,
     Sigue, Ir
<1>2. CASE BuscaAntiguos(w) \/ LeeFoto(w) \/ Borra(w)
  BY <1>2 DEF Otros, BuscaAntiguos, LeeFoto, Borra, Fotografia, delFromGeo, OtraTabla,
     Excepcion, Sigue, Ir
<1>3. CASE \/ INPROYECTO(w) \/ INBIP(w) \/ ININI(w) \/ INCODMERCADOPUB(w)
           \/ INTOMARAZON(w) \/ SAVEOC(w) \/ INADJUDICACION(w) \/ INSPATIAL(w)
  BY <1>3 DEF Otros, INPROYECTO, INBIP, ININI, INCODMERCADOPUB, INTOMARAZON, SAVEOC,
     INADJUDICACION, INSPATIAL, Alta, Termina, Excepcion, Silencio, Sigue, Ir
<1>4. CASE INUBICATION(w)
  BY <1>4 DEF Otros, INUBICATION, Alta, Termina, Excepcion, Silencio, Sigue, Ir
<1>5. CASE Rollback(w) \/ RollbackBorra(w) \/ Restaura(w)
  BY <1>5 DEF Otros, Rollback, RollbackBorra, Restaura, delFromGeo, OtraTabla,
     FalloRollback, Termina, Escapa, Sigue, Ir
<1> QED BY <1>1, <1>2, <1>3, <1>4, <1>5 DEF Paso
-----------------------------------------------------------------------------
LEMMA InitIInv == Init => IInv
<1>1. Init => InvDb /\ InvHilo
  BY DEF Init, InvDb, InvHilo, Dentro, ConProyecto, ConExpediente, ConFilas
<1> QED BY <1>1, InitTipo DEF IInv

LEMMA PasoResultado ==
  ASSUME "seq" \notin Fallas, IInv, NEW w \in Hilo, Recibe(w) \/ Paso(w)
  PROVE  Resultado(w)
<1>1. CASE \/ INPROYECTO(w) \/ INBIP(w) \/ ININI(w) \/ INTOMARAZON(w) \/ SAVEOC(w)
           \/ INADJUDICACION(w) \/ INCODMERCADOPUB(w) \/ INUBICATION(w) \/ INSPATIAL(w)
  BY <1>1, INPasos, INCODMERCADOPUBBien, INUBICATIONBien, INSPATIALBien
<1>2. CASE Recibe(w) \/ LeeMercado(w) \/ Responde(w) \/ Avanza(w) \/ CreaFormulario(w)
  BY <1>2, FueraPasos, CreaFormularioBien
<1>3. CASE BuscaAntiguos(w) \/ LeeFoto(w) \/ LeeProyecto(w) \/ Borra(w)
  BY <1>3, BuscaAntiguosBien, LeeFotoBien, LeeProyectoBien, BorraBien
<1>4. CASE CreaExpediente(w) \/ AsignaServicio(w) \/ GENERATE_X_PROY(w)
  BY <1>4, CreaExpedienteBien, AsignaRollbackBien, GENERATE_X_PROYBien
<1>5. CASE Rollback(w) \/ RollbackBorra(w) \/ Restaura(w)
  BY <1>5, AsignaRollbackBien, RollbackBorraBien, RestauraBien
<1> QED BY <1>1, <1>2, <1>3, <1>4, <1>5 DEF Paso

LEMMA PasoIInv ==
  ASSUME "seq" \notin Fallas, IInv, [Next]_vars
  PROVE  IInv'
<1>1. TInv'
  BY PasoTipo DEF IInv
<1>2. CASE \E w \in Hilo : Recibe(w) \/ Paso(w)
  <2>1. PICK w \in Hilo : Recibe(w) \/ Paso(w)
    BY <1>2
  <2>2. Otros(w) /\ Resultado(w)
    BY <2>1, PasoOtros, PasoResultado DEF IInv
  <2> QED BY <1>1, <2>2, Junta DEF IInv
<1>3. CASE Caida
  <2>1. "libre" \notin Dentro
    BY DEF Dentro, ConProyecto, ConExpediente, ConFilas
  <2>2. \A w \in Hilo : pc'[w] \notin Dentro
    BY <1>3, <2>1 DEF Caida
  <2>3. InvDb'
    BY <1>3 DEF Caida, externo, IInv, InvDb
  <2> QED BY <1>1, <2>2, <2>3 DEF IInv, InvHilo
<1>4. CASE UNCHANGED vars
  <2>1. InvDb'
    BY <1>4 DEF vars, externo, IInv, InvDb
  <2>2. InvHilo'
    BY <1>4 DEF vars, externo, local, IInv, InvHilo, SanoEn, Form
  <2> QED BY <1>1, <2>1, <2>2 DEF IInv
<1> QED BY <1>2, <1>3, <1>4 DEF Next

(* Only delFromGeo takes rows away, those of the worker's own project.       *)
LEMMA SoloBorran ==
  ASSUME TInv, [Next]_vars, NEW f \in db \ db'
  PROVE  \E w \in Hilo : pc[w] \in {"borra", "rborra"} /\ f.X_PROY = obj[w].X_PROY
<1>1. CASE \E w \in Hilo : Borra(w) \/ RollbackBorra(w)
  BY <1>1 DEF Borra, RollbackBorra, delFromGeo, FilasDe
<1>2. ASSUME ~\E w \in Hilo : Borra(w) \/ RollbackBorra(w) PROVE db \subseteq db'
  <2>1. CASE \E w \in Hilo : Recibe(w) \/ Paso(w)
    <3>1. PICK w \in Hilo : Recibe(w) \/ Paso(w)
      BY <2>1
    <3>2. CASE \/ Recibe(w) \/ LeeMercado(w) \/ Responde(w) \/ Avanza(w) \/ CreaFormulario(w)
               \/ BuscaAntiguos(w) \/ LeeFoto(w) \/ LeeProyecto(w) \/ CreaExpediente(w)
               \/ AsignaServicio(w) \/ GENERATE_X_PROY(w) \/ Rollback(w)
      BY <3>2 DEF Recibe, LeeMercado, Responde, Avanza, CreaFormulario, BuscaAntiguos,
         LeeFoto, LeeProyecto, CreaExpediente, AsignaServicio, GENERATE_X_PROY, Rollback,
         externo
    <3>3. CASE \/ INPROYECTO(w) \/ INBIP(w) \/ ININI(w) \/ INCODMERCADOPUB(w)
               \/ INUBICATION(w) \/ INTOMARAZON(w) \/ SAVEOC(w) \/ INADJUDICACION(w)
               \/ INSPATIAL(w) \/ Restaura(w)
      BY <3>3 DEF INPROYECTO, INBIP, ININI, INCODMERCADOPUB, INUBICATION, INTOMARAZON,
         SAVEOC, INADJUDICACION, INSPATIAL, Restaura, Alta
    <3> QED BY <1>2, <3>1, <3>2, <3>3 DEF Paso
  <2>2. CASE Caida \/ UNCHANGED vars
    BY <2>2 DEF Caida, vars, externo
  <2> QED BY <2>1, <2>2 DEF Next
<1> QED BY <1>1, <1>2

(* The projects of two tender lines never hang from one case file, as long   *)
(* as the project codes come from the sequence: the case file getTrewaaExp   *)
(* read from the old project's row is, many calls and deletes later, still   *)
(* that of the line INPROYECTO writes it for, whatever other workers do.     *)
THEOREM ExpedienteSiempre == "seq" \notin Fallas => (Spec => []ExpedienteExclusivo)
<1> SUFFICES ASSUME "seq" \notin Fallas PROVE Spec => []ExpedienteExclusivo
  OBVIOUS
<1>1. IInv /\ [Next]_vars => IInv'
  BY PasoIInv
<1>2. IInv => ExpedienteExclusivo
  BY DEF IInv, InvDb, FilaBien, De, ExpedienteExclusivo
<1> QED BY InitIInv, <1>1, <1>2, PTL DEF Spec

(* A row goes away only while a worker that handles its line deletes, as     *)
(* long as the project codes come from the sequence: delFromGeo and the      *)
(* rollback work on the X_PROY the object holds, and that is never the       *)
(* project of another line.                                                  *)
THEOREM SoloLoSuyoSiempre == "seq" \notin Fallas => (Spec => SoloBorraLoSuyo)
<1> SUFFICES ASSUME "seq" \notin Fallas PROVE Spec => SoloBorraLoSuyo
  OBVIOUS
<1>1. IInv /\ [Next]_vars => IInv'
  BY PasoIInv
<1>2. IInv /\ [Next]_vars =>
        [DeQuienBorra(db \ db')]_vars
  <2> SUFFICES ASSUME IInv, [Next]_vars, NEW f \in db \ db'
               PROVE  \E w \in Hilo : /\ pc[w] \in {"borra", "rborra"}
                                      /\ duenoProy[f.X_PROY] = Form(w).clave
    BY DEF DeQuienBorra
  <2>1. PICK w \in Hilo : pc[w] \in {"borra", "rborra"} /\ f.X_PROY = obj[w].X_PROY
    BY SoloBorran DEF IInv
  <2>2. De(duenoProy, Form(w).clave, obj[w].X_PROY)
    BY <2>1 DEF IInv, InvHilo, SanoEn, Sano, Dentro, ConProyecto
  <2> QED BY <2>1, <2>2 DEF De
<1> QED BY InitIInv, <1>1, <1>2, PTL DEF Spec, SoloBorraLoSuyo
-----------------------------------------------------------------------------
(* When a request names a line once and no line is registered by two workers *)
(* at a time, a reply OK is backed by a complete project on the map until    *)
(* the next request, whatever later forms of the request meet.               *)


(* A request names a line once, and no two workers register the same one.    *)
LineasPropias ==
  \A v, w \in Hilo : \A p \in Peticiones[v], q \in Peticiones[w] :
    \A j \in DOMAIN p.formularios, k \in DOMAIN q.formularios :
      p.formularios[j].clave = q.formularios[k].clave => v = w /\ (p = q => j = k)

(* The parameters of these make them formulas without variables.             *)
Hay(D, t, x) == \E r \in D : r.tabla = t /\ r.X_PROY = x

Respalda(D, d, k, x) ==
  /\ De(d, k, x)
  /\ Hay(D, "PROY", x) /\ Hay(D, "IDMU", x) /\ Hay(D, "TORA", x) /\ Hay(D, "ADJU", x)
  /\ \E r \in D : r.tabla = "SPATIAL" /\ r.X_PROY = x /\ r.dato = 1

(* Where the rows of the checked inserts are already there.                  *)
TrasADJU == {"INSPATIAL"}
TrasTORA == {"SAVEOC", "INADJUDICACION"} \cup TrasADJU
TrasIDMU == {"INUBICATION", "INTOMARAZON"} \cup TrasTORA
TrasPROY == {"INBIP", "ININI", "INCODMERCADOPUB"} \cup TrasIDMU

Insertadas(D, p, x) ==
  /\ p \in TrasPROY => Hay(D, "PROY", x)
  /\ p \in TrasIDMU => Hay(D, "IDMU", x)
  /\ p \in TrasTORA => Hay(D, "TORA", x)
  /\ p \in TrasADJU => Hay(D, "ADJU", x)

Linea(w, k) == peticion[w].formularios[k].clave

(* Form k of w gave the OK: it is over, and its project is whole.            *)
DioOk(w, k) ==
  /\ k \in DOMAIN peticion[w].formularios
  /\ k <= n[w] /\ (k = n[w] => pc[w] = "siguiente")
  /\ \E x : Respalda(db, duenoProy, Linea(w, k), x)

Suya(w)     == peticion[w] \in Peticiones[w] \/ peticion[w].formularios = <<>>
InvPedido   == \A w \in Hilo : Suya(w)
InvAltas    == \A w \in Hilo : Insertadas(db, pc[w], obj[w].X_PROY)
InvRespaldo == \A w \in Hilo : retorno[w] = "OK" => \E k : DioOk(w, k)
RInv        == IInv /\ InvPedido /\ InvAltas /\ InvRespaldo

-----------------------------------------------------------------------------
(* What a step does to the reply and the loop of the worker that takes it.   *)

Mismo(w) == retorno'[w] = retorno[w] /\ peticion'[w] = peticion[w]

Efecto(w) ==
  \/ retorno'[w] # "OK"
  \/ Mismo(w) /\ n'[w] = n[w] /\ pc[w] # "siguiente"
  \/ Mismo(w) /\ n'[w] = n[w] + 1 /\ pc[w] = "siguiente"
  \/ /\ INSPATIAL(w) /\ FilaNueva(w, "SPATIAL", 1) \in db' /\ pc'[w] = "siguiente"
     /\ n'[w] = n[w] /\ peticion'[w] = peticion[w]

LEMMA PasoRetorno ==
  ASSUME TInv, NEW w \in Hilo, Recibe(w) \/ Paso(w)
  PROVE  \A v \in Hilo \ {w} : retorno'[v] = retorno[v]
<1> USE DEF TInv, TypeOK
<1>1. CASE \/ Recibe(w) \/ LeeMercado(w) \/ Responde(w) \/ Avanza(w) \/ CreaFormulario(w)
           \/ LeeProyecto(w) \/ CreaExpediente(w) \/ AsignaServicio(w) \/ GENERATE_X_PROY(w)
  BY <1>1 DEF Recibe, LeeMercado, Responde, Avanza, CreaFormulario, LeeProyecto,
     CreaExpediente, AsignaServicio, GENERATE_X_PROY, Termina, Escapa, Excepcion, Silencio,
     Sigue
<1>2. CASE BuscaAntiguos(w) \/ LeeFoto(w) \/ Borra(w)
  BY <1>2 DEF BuscaAntiguos, LeeFoto, Borra, Fotografia, delFromGeo, OtraTabla,
     Excepcion, Sigue
<1>3. CASE \/ INPROYECTO(w) \/ INBIP(w) \/ ININI(w) \/ INCODMERCADOPUB(w)
           \/ INTOMARAZON(w) \/ SAVEOC(w) \/ INADJUDICACION(w) \/ INSPATIAL(w)
  BY <1>3 DEF INPROYECTO, INBIP, ININI, INCODMERCADOPUB, INTOMARAZON, SAVEOC,
     INADJUDICACION, INSPATIAL, Alta, Termina, Excepcion, Silencio, Sigue
<1>4. CASE INUBICATION(w)
  BY <1>4 DEF INUBICATION, Alta, Termina, Excepcion, Silencio, Sigue
<1>5. CASE Rollback(w) \/ RollbackBorra(w) \/ Restaura(w)
  BY <1>5 DEF Rollback, RollbackBorra, Restaura, delFromGeo, OtraTabla,
     FalloRollback, Termina, Escapa, Sigue
<1> QED BY <1>1, <1>2, <1>3, <1>4, <1>5 DEF Paso

(* Only Recibe and Avanza move the loop, and only INSPATIAL writes OK.       *)
LEMMA PasoEfecto ==
  ASSUME TInv, NEW w \in Hilo, Recibe(w) \/ Paso(w)
  PROVE  Efecto(w)
<1> USE DEF TInv, TypeOK
<1>1. CASE Recibe(w) \/ LeeMercado(w) \/ Responde(w) \/ CreaFormulario(w)
  BY <1>1 DEF Recibe, LeeMercado, Responde, CreaFormulario, Termina, Escapa, Sigue,
     Efecto, Mismo
<1>2. CASE Avanza(w)
  BY <1>2 DEF Avanza, Efecto, Mismo
<1>3. CASE \/ LeeProyecto(w) \/ CreaExpediente(w) \/ AsignaServicio(w) \/ GENERATE_X_PROY(w)
           \/ BuscaAntiguos(w) \/ LeeFoto(w)
  BY <1>3 DEF LeeProyecto, CreaExpediente, AsignaServicio, GENERATE_X_PROY, BuscaAntiguos,
     LeeFoto, Fotografia, Termina, Excepcion, Silencio, Sigue, Efecto, Mismo
<1>4. CASE Borra(w)
  BY <1>4 DEF Borra, Fotografia, delFromGeo, OtraTabla, Excepcion, Sigue, Efecto, Mismo
<1>5. CASE \/ INPROYECTO(w) \/ INBIP(w) \/ ININI(w) \/ INCODMERCADOPUB(w)
           \/ INTOMARAZON(w) \/ SAVEOC(w) \/ INADJUDICACION(w)
  BY <1>5 DEF INPROYECTO, INBIP, ININI, INCODMERCADOPUB, INTOMARAZON, SAVEOC,
     INADJUDICACION, Alta, Termina, Excepcion, Silencio, Sigue, Efecto, Mismo
<1>6. CASE INUBICATION(w)
  BY <1>6 DEF INUBICATION, Alta, Termina, Excepcion, Silencio, Sigue, Efecto, Mismo
<1>7. CASE INSPATIAL(w)
  <2>1. pc[w] = "INSPATIAL" /\ UNCHANGED <<peticion, n>>
    BY <1>7 DEF INSPATIAL
  <2>2. \/ UNCHANGED retorno
        \/ retorno' = [retorno EXCEPT ![w] = retorno[w]]
        \/ FilaNueva(w, "SPATIAL", 1) \in db' /\ pc' = [pc EXCEPT ![w] = "siguiente"]
    BY <1>7 DEF INSPATIAL, Alta, Termina, Excepcion, Silencio, Sigue, Ir
  <2> QED BY <1>7, <2>1, <2>2 DEF Efecto, Mismo
<1>8. CASE Rollback(w) \/ RollbackBorra(w) \/ Restaura(w)
  BY <1>8 DEF Rollback, RollbackBorra, Restaura, delFromGeo, OtraTabla,
     FalloRollback, Termina, Escapa, Sigue, Efecto, Mismo
<1> QED BY <1>1, <1>2, <1>3, <1>4, <1>5, <1>6, <1>7, <1>8 DEF Paso

-----------------------------------------------------------------------------
(* Rows that stay.                                                           *)

Borrando(v) == pc[v] \in {"borra", "rborra"}

(* No worker that is in delFromGeo handles line k.                           *)
Libre(k) == \A v \in Hilo : Borrando(v) => Form(v).clave # k

LEMMA SeQuedan ==
  ASSUME IInv, [Next]_vars, NEW k, Libre(k), NEW x, De(duenoProy, k, x),
         NEW r \in db, r.X_PROY = x
  PROVE  r \in db'
<1> SUFFICES ASSUME r \notin db' PROVE FALSE
  OBVIOUS
<1>1. PICK v \in Hilo : Borrando(v) /\ r.X_PROY = obj[v].X_PROY
  BY SoloBorran DEF IInv, Borrando
<1>2. De(duenoProy, Form(v).clave, obj[v].X_PROY)
  BY <1>1 DEF IInv, InvHilo, SanoEn, Sano, Dentro, ConProyecto, Borrando
<1> QED BY <1>1, <1>2 DEF Libre, De

LEMMA HaySigue ==
  ASSUME IInv, [Next]_vars, NEW k, Libre(k), NEW x, De(duenoProy, k, x)
  PROVE  \A t : Hay(db, t, x) => Hay(db', t, x)
BY SeQuedan DEF Hay

LEMMA RespaldaSigue ==
  ASSUME IInv, [Next]_vars, Extiende(duenoProy, duenoProy'), NEW k, Libre(k), NEW x,
         Respalda(db, duenoProy, k, x)
  PROVE  Respalda(db', duenoProy', k, x)
<1>1. De(duenoProy, k, x)
  BY DEF Respalda
<1>2. \A t : Hay(db, t, x) => Hay(db', t, x)
  BY <1>1, HaySigue
<1>3. \E r \in db' : r.tabla = "SPATIAL" /\ r.X_PROY = x /\ r.dato = 1
  BY <1>1, SeQuedan DEF Respalda
<1>4. De(duenoProy', k, x)
  BY <1>1, DeCrece
<1> QED BY <1>2, <1>3, <1>4 DEF Respalda

(* The line of a form that is not being deleted is deleted by nobody.        *)
LEMMA LineaLibre ==
  ASSUME LineasPropias, TInv, InvPedido, NEW w \in Hilo,
         NEW k \in DOMAIN peticion[w].formularios, k = n[w] => ~Borrando(w)
  PROVE  Libre(Linea(w, k))
<1> SUFFICES ASSUME NEW v \in Hilo, Borrando(v), Form(v).clave = Linea(w, k)
             PROVE  FALSE
  BY DEF Libre
<1>1. n[v] \in DOMAIN peticion[v].formularios
  BY DEF TInv, ConFormulario, Borrando
<1>2. peticion[v] \in Peticiones[v] /\ peticion[w] \in Peticiones[w]
  <2>1. DOMAIN <<>> = {}
    OBVIOUS
  <2> QED BY <1>1, <2>1 DEF InvPedido, Suya
<1>3. v = w /\ n[v] = k
  BY <1>1, <1>2 DEF LineasPropias, Linea, Form
<1> QED BY <1>3

-----------------------------------------------------------------------------
(* The checked rows are there as far as the inserts have come.               *)

(* A step that adds the row of a checked insert, or passes an unchecked one. *)
LEMMA Inserta ==
  ASSUME TInv, NEW w \in Hilo, Insertadas(db, pc[w], obj[w].X_PROY), Paso(w),
         pc'[w] \in TrasPROY
  PROVE  db \subseteq db' /\ UNCHANGED obj /\ Insertadas(db', pc'[w], obj[w].X_PROY)
<1> USE DEF TrasPROY, TrasIDMU, TrasTORA, TrasADJU
<1> DEFINE x == obj[w].X_PROY
<1>0. pc \in [Hilo -> Punto]
  BY DEF TInv, TypeOK
<1>1. \A t, d : FilaNueva(w, t, d) \in db' => Hay(db', t, x)
  BY DEF FilaNueva, Hay
<1>2. \A t : db \subseteq db' /\ Hay(db, t, x) => Hay(db', t, x)
  BY DEF Hay
<1>3. CASE INPROYECTO(w)
  <2>1. pc'[w] = "INBIP" /\ FilaNueva(w, "PROY", obj[w].EXPETREWA) \in db' /\ db \subseteq db'
        /\ UNCHANGED obj
    BY <1>0, <1>3 DEF INPROYECTO, Alta, Termina, Excepcion, Silencio, Sigue, Ir
  <2> QED BY <1>1, <2>1 DEF Insertadas
<1>4. CASE INBIP(w) \/ ININI(w) \/ SAVEOC(w)
  <2>1. /\ \/ pc[w] = "INBIP" /\ pc'[w] = "ININI"
           \/ pc[w] = "ININI" /\ pc'[w] = "INCODMERCADOPUB"
           \/ pc[w] = "SAVEOC" /\ pc'[w] = "INADJUDICACION"
        /\ db \subseteq db' /\ UNCHANGED obj
    BY <1>0, <1>4 DEF INBIP, ININI, SAVEOC, Alta, Termina, Excepcion, Silencio, Sigue, Ir
  <2> QED BY <1>2, <2>1 DEF Insertadas
<1>5. CASE INCODMERCADOPUB(w)
  <2>1. /\ pc[w] = "INCODMERCADOPUB" /\ pc'[w] = "INUBICATION"
        /\ FilaNueva(w, "IDMU", Form(w).clave) \in db' /\ db \subseteq db' /\ UNCHANGED obj
    BY <1>0, <1>5 DEF INCODMERCADOPUB, Alta, Termina, Excepcion, Silencio, Sigue, Ir
  <2> QED BY <1>1, <1>2, <2>1 DEF Insertadas
<1>6. CASE INUBICATION(w)
  <2>1. /\ pc[w] = "INUBICATION" /\ pc'[w] \in {"INUBICATION", "INTOMARAZON"}
        /\ db \subseteq db' /\ UNCHANGED obj
    BY <1>0, <1>6 DEF INUBICATION, Alta, Termina, Excepcion, Silencio, Sigue, Ir
  <2> QED BY <1>2, <2>1 DEF Insertadas
<1>7. CASE INTOMARAZON(w)
  <2>1. /\ pc[w] = "INTOMARAZON" /\ pc'[w] = "SAVEOC"
        /\ FilaNueva(w, "TORA", 0) \in db' /\ db \subseteq db' /\ UNCHANGED obj
    BY <1>0, <1>7 DEF INTOMARAZON, Alta, Termina, Excepcion, Silencio, Sigue, Ir
  <2> QED BY <1>1, <1>2, <2>1 DEF Insertadas
<1>8. CASE INADJUDICACION(w)
  <2>1. /\ pc[w] = "INADJUDICACION" /\ pc'[w] = "INSPATIAL"
        /\ FilaNueva(w, "ADJU", 0) \in db' /\ db \subseteq db' /\ UNCHANGED obj
    BY <1>0, <1>8 DEF INADJUDICACION, Alta, Termina, Excepcion, Silencio, Sigue, Ir
  <2> QED BY <1>1, <1>2, <2>1 DEF Insertadas
<1>9. ASSUME ~(\/ INPROYECTO(w) \/ INBIP(w) \/ ININI(w) \/ SAVEOC(w) \/ INCODMERCADOPUB(w)
               \/ INUBICATION(w) \/ INTOMARAZON(w) \/ INADJUDICACION(w))
      PROVE  FALSE
  <2>1. CASE LeeMercado(w) \/ Responde(w) \/ Avanza(w) \/ CreaFormulario(w) \/ INSPATIAL(w)
    BY <1>0, <2>1 DEF LeeMercado, Responde, Avanza, CreaFormulario, INSPATIAL, Alta, Termina,
       Escapa, Excepcion, Silencio, Sigue, Ir
  <2>2. CASE BuscaAntiguos(w) \/ LeeFoto(w) \/ LeeProyecto(w) \/ Borra(w)
    BY <1>0, <2>2 DEF BuscaAntiguos, LeeFoto, LeeProyecto, Borra, Fotografia, delFromGeo,
       Termina, Excepcion, Silencio, Sigue, Ir
  <2>3. CASE CreaExpediente(w) \/ AsignaServicio(w) \/ GENERATE_X_PROY(w)
    BY <1>0, <2>3 DEF CreaExpediente, AsignaServicio, GENERATE_X_PROY, Termina, Excepcion,
       Silencio, Sigue, Ir
  <2>4. CASE Rollback(w) \/ RollbackBorra(w) \/ Restaura(w)
    BY <1>0, <2>4 DEF Rollback, RollbackBorra, Restaura, delFromGeo, FalloRollback, Termina,
       Escapa, Sigue, Ir
  <2> QED BY <1>9, <2>1, <2>2, <2>3, <2>4 DEF Paso
<1> QED BY <1>3, <1>4, <1>5, <1>6, <1>7, <1>8, <1>9

LEMMA FueraDeAltas ==
  ASSUME NEW D, NEW p, NEW x, p \notin TrasPROY
  PROVE  Insertadas(D, p, x)
BY DEF Insertadas, TrasPROY, TrasIDMU, TrasTORA, TrasADJU

(* The rows of another worker's project: nobody deletes on its line.         *)
LEMMA InsertadasOtros ==
  ASSUME LineasPropias, IInv, InvPedido, InvAltas, [Next]_vars, NEW w \in Hilo
  PROVE  Insertadas(db', pc[w], obj[w].X_PROY)
<1>1. CASE pc[w] \in TrasPROY
  <2> USE DEF TrasPROY, TrasIDMU, TrasTORA, TrasADJU
  <2>1. pc[w] \in ConProyecto /\ ~Borrando(w) /\ n[w] \in DOMAIN peticion[w].formularios
    BY <1>1 DEF IInv, TInv, ConFormulario, ConProyecto, Borrando
  <2>2. Libre(Linea(w, n[w]))
    BY <2>1, LineaLibre DEF IInv
  <2>3. De(duenoProy, Linea(w, n[w]), obj[w].X_PROY)
    BY <2>1 DEF IInv, InvHilo, SanoEn, Sano, Dentro, Linea, Form
  <2>4. \A t : Hay(db, t, obj[w].X_PROY) => Hay(db', t, obj[w].X_PROY)
    BY <2>2, <2>3, HaySigue
  <2> QED BY <2>4 DEF InvAltas, Insertadas
<1> QED BY <1>1, FueraDeAltas

LEMMA AltasSuyas ==
  ASSUME TInv, InvAltas, NEW w \in Hilo, Recibe(w) \/ Paso(w)
  PROVE  Insertadas(db, pc[w], obj[w].X_PROY)'
<1>1. CASE pc'[w] \notin TrasPROY
  BY <1>1, FueraDeAltas
<1>2. CASE pc'[w] \in TrasPROY /\ Paso(w)
  <2>1. UNCHANGED obj /\ Insertadas(db', pc'[w], obj[w].X_PROY)
    BY <1>2, Inserta DEF InvAltas
  <2> QED BY <2>1
<1>3. CASE Recibe(w)
  <2>1. pc'[w] = "datos"
    BY <1>3 DEF Recibe, Ir, TInv, TypeOK
  <2> QED BY <2>1, FueraDeAltas DEF TrasPROY, TrasIDMU, TrasTORA, TrasADJU
<1> QED BY <1>1, <1>2, <1>3

LEMMA PasoAltas ==
  ASSUME LineasPropias, IInv, InvPedido, InvAltas, NEW w \in Hilo, Recibe(w) \/ Paso(w)
  PROVE  InvAltas'
<1>1. [Next]_vars
  BY DEF Next
<1>2. ASSUME NEW v \in Hilo \ {w} PROVE Insertadas(db, pc[v], obj[v].X_PROY)'
  <2>1. pc'[v] = pc[v] /\ obj'[v] = obj[v]
    BY PasoOtros DEF IInv, Otros
  <2> QED BY <1>1, <2>1, InsertadasOtros
<1> QED BY <1>2, AltasSuyas DEF InvAltas, IInv

-----------------------------------------------------------------------------
(* The requests are those of the client, and the OK stays backed.            *)

LEMMA PasoPedido ==
  ASSUME TInv, InvPedido, NEW w \in Hilo, Recibe(w) \/ Paso(w)
  PROVE  InvPedido'
<1>1. \A v \in Hilo \ {w} : peticion'[v] = peticion[v]
  BY PasoOtros DEF Otros
<1>2. peticion'[w] = peticion[w] \/ peticion'[w] \in Peticiones[w]
  <2>1. CASE Recibe(w)
    BY <2>1 DEF Recibe, TInv, TypeOK
  <2>2. CASE Paso(w)
    <3>1. UNCHANGED peticion
      BY <2>2 DEF Paso, LeeMercado, Responde, Avanza, CreaFormulario, BuscaAntiguos, LeeFoto,
         LeeProyecto, Borra, CreaExpediente, AsignaServicio, GENERATE_X_PROY, INPROYECTO,
         INBIP, ININI, INCODMERCADOPUB, INUBICATION, INTOMARAZON, SAVEOC, INADJUDICACION,
         INSPATIAL, Rollback, RollbackBorra, Restaura
    <3> QED BY <3>1
  <2> QED BY <2>1, <2>2
<1> QED BY <1>1, <1>2 DEF InvPedido, Suya

(* A form that gave the OK keeps what backs it while the loop goes on.       *)
LEMMA SigueOk ==
  ASSUME LineasPropias, IInv, InvPedido, [Next]_vars, Extiende(duenoProy, duenoProy'),
         NEW w \in Hilo, NEW k, DioOk(w, k), Mismo(w),
         k <= n'[w] /\ (k = n'[w] => pc'[w] = "siguiente")
  PROVE  DioOk(w, k)'
<1>1. k \in DOMAIN peticion[w].formularios /\ k = n[w] => ~Borrando(w)
  BY DEF DioOk, Borrando
<1>2. Libre(Linea(w, k))
  BY <1>1, LineaLibre DEF IInv, DioOk
<1>3. \E x : Respalda(db', duenoProy', Linea(w, k), x)
  BY <1>2, RespaldaSigue DEF DioOk
<1>4. Linea(w, k)' = Linea(w, k)
  BY DEF Mismo, Linea
<1> QED BY <1>3, <1>4 DEF DioOk, Mismo

(* INSPATIAL adds the last row of a whole project.                           *)
LEMMA NuevoOk ==
  ASSUME IInv, InvAltas, NEW w \in Hilo, INSPATIAL(w), FilaNueva(w, "SPATIAL", 1) \in db',
         pc'[w] = "siguiente", n'[w] = n[w], peticion'[w] = peticion[w]
  PROVE  DioOk(w, n[w])'
<1> DEFINE x == obj[w].X_PROY
<1>1. pc[w] = "INSPATIAL" /\ UNCHANGED duenoProy /\ db \subseteq db'
  BY DEF INSPATIAL, Alta
<1>2. n[w] \in DOMAIN peticion[w].formularios /\ n[w] \in Nat
  BY <1>1 DEF IInv, TInv, TypeOK, ConFormulario
<1>3. De(duenoProy, Form(w).clave, x)
  BY <1>1 DEF IInv, InvHilo, SanoEn, Sano, Dentro, ConProyecto
<1>4. Insertadas(db, "INSPATIAL", x)
  BY <1>1 DEF InvAltas
<1>5. Hay(db', "PROY", x) /\ Hay(db', "IDMU", x) /\ Hay(db', "TORA", x) /\ Hay(db', "ADJU", x)
  BY <1>1, <1>4 DEF Insertadas, Hay, TrasPROY, TrasIDMU, TrasTORA, TrasADJU
<1>6. \E r \in db' : r.tabla = "SPATIAL" /\ r.X_PROY = x /\ r.dato = 1
  BY DEF FilaNueva
<1>7. Respalda(db', duenoProy', Form(w).clave, x)
  BY <1>1, <1>3, <1>5, <1>6 DEF Respalda
<1>8. Linea(w, n[w])' = Form(w).clave
  BY DEF Linea, Form
<1> QED BY <1>2, <1>7, <1>8 DEF DioOk

LEMMA PasoRespaldo ==
  ASSUME LineasPropias, "seq" \notin Fallas, RInv, NEW w \in Hilo, Recibe(w) \/ Paso(w)
  PROVE  InvRespaldo'
<1>1. [Next]_vars /\ IInv /\ TInv
  BY DEF Next, RInv, IInv
<1>2. Extiende(duenoProy, duenoProy')
  BY PasoResultado DEF RInv, Resultado
<1>3. ASSUME NEW v \in Hilo \ {w}, retorno'[v] = "OK" PROVE \E k : DioOk(v, k)'
  <2>1. /\ pc'[v] = pc[v] /\ n'[v] = n[v] /\ Mismo(v)
    BY <1>1, PasoOtros, PasoRetorno DEF Otros, Mismo
  <2>2. PICK k : DioOk(v, k)
    BY <1>3, <2>1 DEF RInv, InvRespaldo, Mismo
  <2>3. k <= n'[v] /\ (k = n'[v] => pc'[v] = "siguiente")
    BY <2>1, <2>2 DEF DioOk
  <2> QED BY <1>1, <1>2, <2>1, <2>2, <2>3, SigueOk DEF RInv
<1>4. ASSUME retorno'[w] = "OK" PROVE \E k : DioOk(w, k)'
  <2>1. Efecto(w)
    BY <1>1, PasoEfecto
  <2>2. CASE /\ Mismo(w)
             /\ \/ n'[w] = n[w] /\ pc[w] # "siguiente"
                \/ n'[w] = n[w] + 1 /\ pc[w] = "siguiente"
    <3>1. PICK k : DioOk(w, k)
      BY <1>4, <2>2 DEF RInv, InvRespaldo, Mismo
    <3>2. n[w] \in Nat /\ k \in Nat
      BY <1>1, <3>1 DEF TInv, TypeOK, DioOk, Peticion
    <3>3. k <= n'[w] /\ (k = n'[w] => pc'[w] = "siguiente")
      BY <2>2, <3>1, <3>2 DEF DioOk
    <3> QED BY <1>1, <1>2, <2>2, <3>1, <3>3, SigueOk DEF RInv
  <2>3. CASE /\ INSPATIAL(w) /\ FilaNueva(w, "SPATIAL", 1) \in db' /\ pc'[w] = "siguiente"
             /\ n'[w] = n[w] /\ peticion'[w] = peticion[w]
    BY <1>1, <2>3, NuevoOk DEF RInv
  <2> QED BY <1>4, <2>1, <2>2, <2>3 DEF Efecto
<1> QED BY <1>3, <1>4 DEF InvRespaldo

-----------------------------------------------------------------------------
LEMMA InitRInv == Init => RInv
<1>1. ASSUME Init PROVE InvPedido /\ InvAltas /\ InvRespaldo
  BY <1>1 DEF Init, InvPedido, Suya, InvAltas, Insertadas, InvRespaldo, TrasPROY, TrasIDMU,
     TrasTORA, TrasADJU
<1> QED BY <1>1, InitIInv DEF RInv

LEMMA PasoRInv ==
  ASSUME LineasPropias, "seq" \notin Fallas, RInv, [Next]_vars
  PROVE  RInv'
<1>1. IInv'
  BY PasoIInv DEF RInv
<1>2. CASE \E w \in Hilo : Recibe(w) \/ Paso(w)
  BY <1>1, <1>2, PasoPedido, PasoAltas, PasoRespaldo DEF RInv, IInv
<1>3. CASE Caida
  <2>1. InvAltas'
    BY <1>3 DEF Caida, InvAltas, Insertadas, TrasPROY, TrasIDMU, TrasTORA, TrasADJU
  <2>2. InvPedido' /\ InvRespaldo'
    BY <1>3 DEF Caida, InvPedido, Suya, InvRespaldo, RInv
  <2> QED BY <1>1, <2>1, <2>2 DEF RInv
<1>4. CASE UNCHANGED vars
  <2>1. InvAltas' /\ InvPedido'
    BY <1>4 DEF vars, externo, local, RInv, InvAltas, InvPedido, Suya
  <2>2. InvRespaldo'
    BY <1>4 DEF vars, externo, local, RInv, InvRespaldo, DioOk, Linea
  <2> QED BY <1>1, <2>1, <2>2 DEF RInv
<1> QED BY <1>2, <1>3, <1>4 DEF Next

LEMMA RespaldoBasta == RInv => OkRespaldado
<1> SUFFICES ASSUME RInv, NEW w \in Hilo, retorno[w] = "OK"
             PROVE  \E k \in 1..n[w] :
                      /\ k <= Len(peticion[w].formularios)
                      /\ \E x \in Proyectos(peticion[w].formularios[k].clave) :
                           Entero(x) /\ EnMapa(x)
  BY DEF OkRespaldado
<1>1. PICK k : DioOk(w, k)
  BY DEF RInv, InvRespaldo
<1>2. k \in 1..n[w] /\ k <= Len(peticion[w].formularios)
  BY <1>1 DEF RInv, IInv, TInv, TypeOK, DioOk, Peticion
<1>3. PICK x : Respalda(db, duenoProy, Linea(w, k), x)
  BY <1>1 DEF DioOk
<1>4. PICK r \in db : r.tabla = "IDMU" /\ r.X_PROY = x
  BY <1>3 DEF Respalda, Hay
<1>5. r.dato = Linea(w, k)
  BY <1>3, <1>4 DEF RInv, IInv, InvDb, FilaBien, Respalda, De
<1>6. x \in Proyectos(Linea(w, k))
  BY <1>4, <1>5 DEF Proyectos
<1>7. Entero(x) /\ EnMapa(x)
  BY <1>3 DEF Respalda, Hay, Entero, EnMapa, FilasDe
<1> QED BY <1>2, <1>6, <1>7 DEF Linea

(* A reply OK of a registration is backed by a whole project with its        *)
(* geometry, through every failure and restart, whatever later forms of the  *)
(* request meet and other workers register, when no line is registered twice *)
(* at a time and the sequence never answers -1.                              *)
THEOREM OkRespaldadoSiempre ==
  LineasPropias /\ "seq" \notin Fallas => (Spec => []OkRespaldado)
<1> SUFFICES ASSUME LineasPropias, "seq" \notin Fallas PROVE Spec => []OkRespaldado
  OBVIOUS
<1>1. RInv /\ [Next]_vars => RInv'
  BY PasoRInv
<1> QED BY InitRInv, <1>1, RespaldoBasta, PTL DEF Spec
=============================================================================
