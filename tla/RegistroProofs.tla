---------------------------- MODULE RegistroProofs ----------------------------
(* Type correctness of Registro for every value of the constants, with the   *)
(* lemmas about its records that RegistroAislamiento builds on.              *)
EXTENDS Registro, SequenceTheorems, TLAPS

USE RegistroAssumption

(* A worker inside the body of the loop over the forms has a form.           *)
ConFormulario ==
  \A w \in Hilo : pc[w] \notin {"libre", "datos", "formulario"} =>
                    n[w] \in DOMAIN peticion[w].formularios

(* A worker has a project code where it inserts, and a case file from where  *)
(* it read or created it to where it writes it into the row of the project.  *)
PuntoAlta       == {"INPROYECTO", "INBIP", "ININI", "INCODMERCADOPUB", "INUBICATION",
                    "INTOMARAZON", "SAVEOC", "INADJUDICACION", "INSPATIAL"}
PuntoExpediente == {"borra", "asigna", "genera", "INPROYECTO"}
Provisto(p, o) ==
  /\ p \in PuntoAlta => o.X_PROY # Nulo
  /\ p \in PuntoExpediente => o.EXPETREWA # Nulo
ConCodigo == \A w \in Hilo : Provisto(pc[w], obj[w])

TInv == TypeOK /\ ConFormulario /\ ConCodigo

-----------------------------------------------------------------------------
(* What the records and their updates are.                                   *)

LEMMA FormTipo ==
  ASSUME TInv, NEW w \in Hilo, pc[w] \notin {"libre", "datos", "formulario"}
  PROVE  Form(w) \in Formulario
BY DEF TInv, TypeOK, ConFormulario, Form, Peticion

LEMMA FilaTipo ==
  ASSUME NEW f \in Fila
  PROVE  /\ f.X_PROY \in Int
         /\ f.tabla = "PROY" => f.dato \in Int /\ f.dato # Nulo
BY DEF Fila, Simple, Codigo

LEMMA LegibleTipo ==
  ASSUME NEW f \in Fila
  PROVE  /\ Legible(f) \in Fila
         /\ Legible(f).X_PROY = f.X_PROY /\ Legible(f).tabla = f.tabla
         /\ f.tabla # "SPATIAL" => Legible(f) = f
<1>1. CASE f.tabla # "SPATIAL"
  BY <1>1 DEF Legible
<1>2. CASE f.tabla = "SPATIAL"
  <2>1. f \in [tabla: {"SPATIAL"}, X_PROY: Codigo, dato: {0, 1}]
    BY <1>2 DEF Fila, Simple
  <2>2. Legible(f) = [f EXCEPT !.dato = 0]
    BY <1>2 DEF Legible
  <2>3. /\ Legible(f) \in [tabla: {"SPATIAL"}, X_PROY: Codigo, dato: {0, 1}]
        /\ Legible(f).X_PROY = f.X_PROY /\ Legible(f).tabla = f.tabla
    BY <2>1, <2>2
  <2> QED BY <2>3, <1>2 DEF Fila
<1> QED BY <1>1, <1>2

LEMMA GuardableTipo ==
  ASSUME NEW fs \in SUBSET Fila, NEW t, NEW g \in Guardable(t, fs)
  PROVE  g \in SUBSET Fila
BY LegibleTipo DEF Guardable

LEMMA FilaNuevaTipo ==
  ASSUME TInv, NEW w \in Hilo, pc[w] \in PuntoAlta
  PROVE  /\ \A t \in Simple : FilaNueva(w, t, 0) \in Fila
         /\ pc[w] = "INPROYECTO" => FilaNueva(w, "PROY", obj[w].EXPETREWA) \in Fila
         /\ \A k \in Clave : FilaNueva(w, "IDMU", k) \in Fila
         /\ \A c \in Comuna : FilaNueva(w, "UBIC", c) \in Fila
         /\ FilaNueva(w, "SPATIAL", 1) \in Fila
<1>1. obj[w].X_PROY \in Int /\ obj[w].EXPETREWA \in Int
  BY DEF TInv, TypeOK, Objeto
<1>2. /\ obj[w].X_PROY # Nulo
      /\ pc[w] = "INPROYECTO" => obj[w].EXPETREWA # Nulo
  BY DEF TInv, ConCodigo, Provisto, PuntoExpediente
<1>3. /\ obj[w].X_PROY \in Codigo
      /\ pc[w] = "INPROYECTO" => obj[w].EXPETREWA \in Codigo
  BY <1>1, <1>2 DEF Codigo
<1>4. \A t \in Simple : FilaNueva(w, t, 0) \in Fila
  BY <1>3 DEF FilaNueva, Fila
<1>5. pc[w] = "INPROYECTO" => FilaNueva(w, "PROY", obj[w].EXPETREWA) \in Fila
  BY <1>3 DEF FilaNueva, Fila
<1>6. \A k \in Clave : FilaNueva(w, "IDMU", k) \in Fila
  BY <1>3 DEF FilaNueva, Fila
<1>7. \A c \in Comuna : FilaNueva(w, "UBIC", c) \in Fila
  BY <1>3 DEF FilaNueva, Fila
<1>8. FilaNueva(w, "SPATIAL", 1) \in Fila
  BY <1>3 DEF FilaNueva, Fila
<1> QED BY <1>4, <1>5, <1>6, <1>7, <1>8

LEMMA ObjetoPone ==
  ASSUME NEW o \in [Hilo -> Objeto], NEW w \in Hilo
  PROVE  /\ \A x \in Int : [o EXCEPT ![w].X_PROY = x] \in [Hilo -> Objeto]
         /\ \A x \in Int : [o EXCEPT ![w].EXPETREWA = x] \in [Hilo -> Objeto]
         /\ \A g \in SUBSET Fila :
              [o EXCEPT ![w].ROLLBACK = g, ![w].hayRollback = TRUE] \in [Hilo -> Objeto]
         /\ o[w].X_PROY \in Int /\ o[w].EXPETREWA \in Int /\ o[w].ROLLBACK \in SUBSET Fila
BY DEF Objeto

LEMMA LazoPone ==
  ASSUME NEW l \in [Hilo -> Lazo], NEW w \in Hilo
  PROVE  /\ \A i \in Nat : [l EXCEPT ![w].i = i] \in [Hilo -> Lazo]
         /\ \A g \in SUBSET Fila : [l EXCEPT ![w].filas = g] \in [Hilo -> Lazo]
         /\ \A g \in SUBSET Fila :
              [l EXCEPT ![w].i = @ + 1, ![w].filas = @ \cup g] \in [Hilo -> Lazo]
         /\ \A a \in SUBSET Int :
              [l EXCEPT ![w] = [i |-> 1, antiguos |-> a, filas |-> {}]] \in [Hilo -> Lazo]
         /\ l[w].i \in Nat /\ l[w].i + 1 \in Nat
         /\ l[w].antiguos \in SUBSET Int /\ l[w].filas \in SUBSET Fila
<1>1. \A i \in Nat : [l EXCEPT ![w].i = i] \in [Hilo -> Lazo]
  BY DEF Lazo
<1>2. \A g \in SUBSET Fila : [l EXCEPT ![w].filas = g] \in [Hilo -> Lazo]
  BY DEF Lazo
<1>3. ASSUME NEW g \in SUBSET Fila
      PROVE  [l EXCEPT ![w].i = @ + 1, ![w].filas = @ \cup g] \in [Hilo -> Lazo]
  <2> DEFINE m == [l EXCEPT ![w].i = @ + 1]
  <2>1. m \in [Hilo -> Lazo] /\ m[w].filas \in SUBSET Fila
    BY DEF Lazo
  <2>2. [m EXCEPT ![w].filas = @ \cup g] \in [Hilo -> Lazo]
    <3> HIDE DEF m
    <3> QED BY <2>1 DEF Lazo
  <2> QED BY <2>2
<1>4. \A a \in SUBSET Int :
        [l EXCEPT ![w] = [i |-> 1, antiguos |-> a, filas |-> {}]] \in [Hilo -> Lazo]
  BY DEF Lazo
<1>5. /\ l[w].i \in Nat /\ l[w].i + 1 \in Nat
      /\ l[w].antiguos \in SUBSET Int /\ l[w].filas \in SUBSET Fila
  BY DEF Lazo
<1> QED BY <1>1, <1>2, <1>3, <1>4, <1>5

LEMMA FotografiaTipo ==
  ASSUME obj \in [Hilo -> Objeto], lazo \in [Hilo -> Lazo], NEW w \in Hilo,
         NEW xs \in SUBSET Int, Fotografia(w, xs)
  PROVE  obj' \in [Hilo -> Objeto] /\ lazo' \in [Hilo -> Lazo]
<1>1. PICK x \in xs :
        /\ obj' = [obj EXCEPT ![w].X_PROY = x]
        /\ lazo' = [lazo EXCEPT ![w] = [i |-> 1, antiguos |-> xs \ {x}, filas |-> {}]]
  BY DEF Fotografia
<1>2. x \in Int /\ xs \ {x} \in SUBSET Int
  OBVIOUS
<1> QED BY <1>1, <1>2, ObjetoPone, LazoPone

LEMMA Vacios ==
  /\ ObjVacio \in Objeto
  /\ LazoVacio \in Lazo
<1>1. FALSE \in BOOLEAN /\ 0 \in Int /\ 1 \in Nat /\ {} \in SUBSET Fila /\ {} \in SUBSET Int
  OBVIOUS
<1>2. ObjVacio \in Objeto
  BY <1>1, Zenon DEF ObjVacio, Objeto, Nulo
<1>3. LazoVacio \in Lazo
  BY <1>1, Zenon DEF LazoVacio, Lazo
<1> QED BY <1>2, <1>3

LEMMA CuentaTipo ==
  ASSUME TypeOK, NEW ks, NEW r \in Salidas(ks), Cuenta(r)
  PROVE  fallas' \in 0..MaxFallas
<1>1. fallas \in 0..MaxFallas
  BY DEF TypeOK
<1> QED BY <1>1 DEF Salidas, Cuenta

-----------------------------------------------------------------------------
LEMMA InitTipo == Init => TInv
<1> SUFFICES ASSUME Init PROVE TInv
  OBVIOUS
<1>1. <<>> \in Seq(Clave) /\ <<>> \in Seq(Formulario)
  BY EmptySeq
<1>2. [oc |-> FALSE, formularios |-> <<>>] \in Peticion
  <2>1. FALSE \in BOOLEAN
    OBVIOUS
  <2> QED BY <2>1, <1>1, Zenon DEF Peticion
<1>3. db \subseteq Fila /\ duenoProy \in Seq(Clave) /\ duenoExpe \in Seq(Clave)
  <2>1. db = {} /\ duenoProy = <<>> /\ duenoExpe = <<>>
    BY Zenon DEF Init
  <2> QED BY <2>1, <1>1
<1>4. peticion \in [Hilo -> Peticion] /\ obj \in [Hilo -> Objeto] /\ lazo \in [Hilo -> Lazo]
  BY <1>2, Vacios DEF Init
<1>5. ConFormulario
  BY DEF Init, ConFormulario
<1>6. fallas \in 0..MaxFallas /\ recibidas \in 0..MaxPeticiones /\ caidas \in 0..MaxCaidas
  <2>1. fallas = 0 /\ recibidas = 0 /\ caidas = 0
    BY Zenon DEF Init
  <2> QED BY <2>1
<1>7. n \in [Hilo -> Nat \ {0}]
  <2>1. n = [w \in Hilo |-> 1]
    BY Zenon DEF Init
  <2> QED BY <2>1
<1>8. pc \in [Hilo -> Punto] /\ retorno \in [Hilo -> Status] /\ fin \in [Hilo -> Final]
  <2>1. /\ pc = [w \in Hilo |-> "libre"] /\ retorno = [w \in Hilo |-> ""]
        /\ fin = [w \in Hilo |-> "ninguno"]
    BY Zenon DEF Init
  <2> QED BY <2>1 DEF Punto, Status, Final
<1>9. antes \in [Hilo -> SUBSET Fila] /\ registradas \subseteq Clave
  BY Zenon DEF Init
<1>10. ConCodigo
  BY DEF Init, ConCodigo, Provisto, PuntoAlta, PuntoExpediente
<1>11. EnRango
  <2>1. ASSUME NEW w \in Hilo PROVE n[w] = 1 /\ Len(peticion[w].formularios) = 0
    BY <1>1, EmptySeq DEF Init
  <2> QED BY <2>1 DEF EnRango
<1> QED BY <1>3, <1>4, <1>5, <1>6, <1>7, <1>8, <1>9, <1>10, <1>11 DEF TInv, TypeOK

-----------------------------------------------------------------------------
(* What is there where it is needed: the form, the code, the case file.      *)

LEMMA ObjCampos ==
  ASSUME NEW o \in [Hilo -> Objeto], NEW w \in Hilo, NEW x
  PROVE  /\ LET q == [o EXCEPT ![w].X_PROY = x][w]
            IN q.X_PROY = x /\ q.EXPETREWA = o[w].EXPETREWA /\ q.ROLLBACK = o[w].ROLLBACK
         /\ LET q == [o EXCEPT ![w].EXPETREWA = x][w]
            IN q.EXPETREWA = x /\ q.X_PROY = o[w].X_PROY /\ q.ROLLBACK = o[w].ROLLBACK
         /\ LET q == [o EXCEPT ![w].ROLLBACK = x, ![w].hayRollback = TRUE][w]
            IN q.ROLLBACK = x /\ q.X_PROY = o[w].X_PROY /\ q.EXPETREWA = o[w].EXPETREWA
BY DEF Objeto

(* Nobody but the worker that moves changes what ConCodigo speaks of.        *)
LEMMA Provee ==
  ASSUME TInv, NEW w \in Hilo, NEW p, pc' = [pc EXCEPT ![w] = p],
         \A v \in Hilo \ {w} : obj'[v] = obj[v], Provisto(p, obj'[w])
  PROVE  ConCodigo'
<1>1. pc \in [Hilo -> Punto]
  BY DEF TInv, TypeOK
<1>2. \A v \in Hilo \ {w} : pc'[v] = pc[v] /\ Provisto(pc[v], obj[v])
  BY <1>1 DEF TInv, ConCodigo
<1>3. pc'[w] = p
  BY <1>1
<1>4. \A v \in Hilo : Provisto(pc'[v], obj'[v])
  <2>1. ASSUME NEW v \in Hilo, v # w PROVE Provisto(pc'[v], obj'[v])
    BY <1>2, <2>1
  <2> QED BY <1>3, <2>1
<1> QED BY <1>4 DEF ConCodigo

(* The points at which nothing is asked of the worker.                       *)
LEMMA Libres ==
  ASSUME NEW p, NEW o
  PROVE  /\ p \notin PuntoAlta \cup PuntoExpediente => Provisto(p, o)
         /\ {"libre", "datos", "formulario", "siguiente", "busca", "foto", "proyecto", "creaExp",
             "excepcion", "rborra", "restaura"} \cap (PuntoAlta \cup PuntoExpediente) = {}
BY DEF Provisto, PuntoAlta, PuntoExpediente

(* A step to one of those points, whatever becomes of the form.              *)
LEMMA Sale ==
  ASSUME TInv, NEW w \in Hilo, \A v \in Hilo \ {w} : obj'[v] = obj[v],
         \E p \in {"libre", "datos", "formulario", "siguiente", "busca", "foto", "proyecto",
                   "creaExp", "excepcion", "rborra", "restaura"} : pc' = [pc EXCEPT ![w] = p]
  PROVE  ConCodigo'
BY Libres, Provee

LEMMA AltaCodigo ==
  ASSUME TInv, NEW w \in Hilo, pc[w] \in PuntoAlta, UNCHANGED obj,
         \E p \in (PuntoAlta \ {"INPROYECTO"}) \cup {"siguiente", "excepcion"} :
           pc' = [pc EXCEPT ![w] = p]
  PROVE  ConCodigo'
<1>1. PICK p \in (PuntoAlta \ {"INPROYECTO"}) \cup {"siguiente", "excepcion"} :
        pc' = [pc EXCEPT ![w] = p]
  OBVIOUS
<1>2. obj[w].X_PROY # Nulo
  BY DEF TInv, ConCodigo, Provisto
<1>3. Provisto(p, obj'[w])
  BY <1>1, <1>2 DEF Provisto, PuntoAlta, PuntoExpediente
<1> QED BY <1>1, <1>3, Provee

LEMMA CodigoPaso ==
  ASSUME TInv, NEW w \in Hilo, Recibe(w) \/ Paso(w)
  PROVE  ConCodigo'
<1>0. obj \in [Hilo -> Objeto] /\ pc \in [Hilo -> Punto] /\ db \subseteq Fila
  BY DEF TInv, TypeOK
<1>1. CASE Recibe(w) \/ LeeMercado(w) \/ Responde(w) \/ Avanza(w) \/ Rollback(w)
  <2>1. UNCHANGED obj
    BY <1>1 DEF Recibe, LeeMercado, Responde, Avanza, Rollback
  <2>2. \E p \in {"libre", "datos", "formulario", "siguiente", "rborra"} : pc' = [pc EXCEPT ![w] = p]
    BY <1>1, Zenon DEF Recibe, LeeMercado, Responde, Avanza, Rollback, Escapa, Termina, Sigue, Ir
  <2> QED BY <2>1, <2>2, Sale
<1>2. CASE CreaFormulario(w)
  <2>1. obj' = [obj EXCEPT ![w] = ObjVacio]
    BY <1>2 DEF CreaFormulario
  <2>2. \E p \in {"libre", "siguiente", "busca"} : pc' = [pc EXCEPT ![w] = p]
    BY <1>2, Zenon DEF CreaFormulario, Escapa, Termina, Ir
  <2> QED BY <1>0, <2>1, <2>2, Sale
<1>3. CASE BuscaAntiguos(w) \/ LeeFoto(w)
  <2>1. \A v \in Hilo \ {w} : obj'[v] = obj[v]
    BY <1>0, <1>3 DEF BuscaAntiguos, LeeFoto, Fotografia
  <2>2. pc[w] \in {"busca", "foto"}
    BY <1>3 DEF BuscaAntiguos, LeeFoto
  <2>3. \/ UNCHANGED pc
        \/ \E p \in {"excepcion", "creaExp", "foto", "proyecto"} : pc' = [pc EXCEPT ![w] = p]
    BY <1>3, Zenon DEF BuscaAntiguos, LeeFoto, Fotografia, Excepcion, Sigue, Ir
  <2>4. \E p \in {"excepcion", "creaExp", "foto", "proyecto", "busca"} : pc' = [pc EXCEPT ![w] = p]
    BY <1>0, <2>2, <2>3
  <2> QED BY <2>1, <2>4, Sale
<1>4. CASE LeeProyecto(w)
  <2>1. CASE UNCHANGED obj /\ \E p \in {"excepcion", "siguiente"} : pc' = [pc EXCEPT ![w] = p]
    BY <2>1, Sale
  <2>2. ASSUME NEW f \in FilasDe("PROY", obj[w].X_PROY),
               obj' = [obj EXCEPT ![w].EXPETREWA = f.dato], pc' = [pc EXCEPT ![w] = "borra"]
        PROVE  ConCodigo'
    <3>1. f.dato # Nulo
      BY <1>0, FilaTipo DEF FilasDe
    <3>2. obj'[w].EXPETREWA = f.dato /\ \A v \in Hilo \ {w} : obj'[v] = obj[v]
      BY <1>0, <2>2, ObjCampos
    <3>3. Provisto("borra", obj'[w])
      BY <3>1, <3>2 DEF Provisto, PuntoAlta
    <3> QED BY <2>2, <3>2, <3>3, Provee
  <2> QED BY <1>4, <2>1, <2>2 DEF LeeProyecto, ProyectoAntiguo, Excepcion, Silencio, Termina, Sigue, Ir
<1>5. CASE Borra(w)
  <2>1. pc[w] = "borra" /\ obj[w].EXPETREWA # Nulo
    BY <1>5 DEF Borra, TInv, ConCodigo, Provisto, PuntoExpediente
  <2>2. \/ UNCHANGED <<pc, obj>>
        \/ pc' = [pc EXCEPT ![w] = "excepcion"] /\ UNCHANGED obj
        \/ Fotografia(w, lazo[w].antiguos)
        \/ pc' = [pc EXCEPT ![w] = "genera"] /\ obj' = [obj EXCEPT ![w].X_PROY = Nulo]
    BY <1>5, Zenon DEF Borra, delFromGeo, Excepcion, Sigue, Ir
  <2>3. CASE UNCHANGED <<pc, obj>>
    BY <2>3 DEF TInv, ConCodigo
  <2>4. CASE pc' = [pc EXCEPT ![w] = "excepcion"] /\ UNCHANGED obj
    BY <2>4, Sale
  <2>5. CASE Fotografia(w, lazo[w].antiguos)
    <3>1. pc' = [pc EXCEPT ![w] = "foto"] /\ \A v \in Hilo \ {w} : obj'[v] = obj[v]
      BY <1>0, <2>5 DEF Fotografia, Sigue, Ir
    <3> QED BY <3>1, Sale
  <2>6. CASE pc' = [pc EXCEPT ![w] = "genera"] /\ obj' = [obj EXCEPT ![w].X_PROY = Nulo]
    <3>1. obj'[w].EXPETREWA = obj[w].EXPETREWA /\ \A v \in Hilo \ {w} : obj'[v] = obj[v]
      BY <1>0, <2>6, ObjCampos
    <3>2. Provisto("genera", obj'[w])
      BY <2>1, <3>1 DEF Provisto, PuntoAlta
    <3> QED BY <2>6, <3>1, <3>2, Provee
  <2> QED BY <2>2, <2>3, <2>4, <2>5, <2>6
<1>6. CASE CreaExpediente(w)
  <2>1. PICK e \in {Error, Len(duenoExpe) + 1} : obj' = [obj EXCEPT ![w].EXPETREWA = e]
    BY <1>6 DEF CreaExpediente
  <2>2. Error # Nulo /\ Len(duenoExpe) + 1 # Nulo
    BY LenProperties DEF Error, Nulo, TInv, TypeOK
  <2>3. obj'[w].EXPETREWA = e /\ \A v \in Hilo \ {w} : obj'[v] = obj[v]
    BY <1>0, <2>1, ObjCampos
  <2>4. Provisto("asigna", obj'[w])
    BY <2>1, <2>2, <2>3 DEF Provisto, PuntoAlta
  <2> QED BY <1>6, <2>3, <2>4, Provee DEF CreaExpediente, Sigue, Ir
<1>7. CASE AsignaServicio(w)
  <2>1. obj[w].EXPETREWA # Nulo /\ UNCHANGED obj
    BY <1>7 DEF AsignaServicio, TInv, ConCodigo, Provisto, PuntoExpediente
  <2>2. \E p \in {"genera", "excepcion"} : pc' = [pc EXCEPT ![w] = p]
    BY <1>7, Zenon DEF AsignaServicio, Excepcion, Sigue, Ir
  <2>3. Provisto("genera", obj'[w])
    BY <2>1 DEF Provisto, PuntoAlta
  <2> QED BY <2>1, <2>2, <2>3, Provee, Sale
<1>8. CASE GENERATE_X_PROY(w)
  <2>1. obj[w].EXPETREWA # Nulo
    BY <1>8 DEF GENERATE_X_PROY, TInv, ConCodigo, Provisto, PuntoExpediente
  <2>2. PICK x \in {Error, Len(duenoProy) + 1, obj[w].X_PROY} :
          /\ obj' = [obj EXCEPT ![w].X_PROY = x]
          /\ \/ \E p \in {"excepcion", "siguiente"} : pc' = [pc EXCEPT ![w] = p]
             \/ pc' = [pc EXCEPT ![w] = "INPROYECTO"] /\ x \in {Error, Len(duenoProy) + 1}
    BY <1>8 DEF GENERATE_X_PROY, Salidas, FallaSeq, Excepcion, Silencio, Termina, Sigue, Ir
  <2>3. Error # Nulo /\ Len(duenoProy) + 1 # Nulo
    BY LenProperties DEF Error, Nulo, TInv, TypeOK
  <2>4. /\ obj'[w].X_PROY = x /\ obj'[w].EXPETREWA = obj[w].EXPETREWA
        /\ \A v \in Hilo \ {w} : obj'[v] = obj[v]
    BY <1>0, <2>2, ObjCampos
  <2>5. CASE pc' = [pc EXCEPT ![w] = "INPROYECTO"] /\ x \in {Error, Len(duenoProy) + 1}
    <3>1. Provisto("INPROYECTO", obj'[w])
      BY <2>1, <2>3, <2>4, <2>5 DEF Provisto
    <3> QED BY <2>4, <2>5, <3>1, Provee
  <2> QED BY <2>2, <2>4, <2>5, Sale
<1>9. CASE \/ INPROYECTO(w) \/ INBIP(w) \/ ININI(w) \/ INCODMERCADOPUB(w) \/ INTOMARAZON(w)
           \/ SAVEOC(w) \/ INADJUDICACION(w) \/ INSPATIAL(w)
  <2>1. pc[w] \in PuntoAlta /\ UNCHANGED obj
    BY <1>9 DEF INPROYECTO, INBIP, ININI, INCODMERCADOPUB, INTOMARAZON, SAVEOC, INADJUDICACION,
       INSPATIAL, PuntoAlta
  <2>2. \E p \in {"INBIP", "ININI", "INCODMERCADOPUB", "INUBICATION", "SAVEOC", "INADJUDICACION",
                  "INSPATIAL", "siguiente", "excepcion"} : pc' = [pc EXCEPT ![w] = p]
    BY <1>9, Zenon DEF INPROYECTO, INBIP, ININI, INCODMERCADOPUB, INTOMARAZON, SAVEOC,
       INADJUDICACION, INSPATIAL, Alta, Excepcion, Silencio, Termina, Sigue, Ir
  <2> QED BY <2>1, <2>2, AltaCodigo DEF PuntoAlta
<1>10. CASE INUBICATION(w)
  <2>1. pc[w] = "INUBICATION" /\ UNCHANGED obj
    BY <1>10 DEF INUBICATION
  <2>2. \/ UNCHANGED pc
        \/ \E p \in {"INTOMARAZON", "siguiente", "excepcion"} : pc' = [pc EXCEPT ![w] = p]
    BY <1>10, ZenonT(40) DEF INUBICATION, Alta, Sigue, Silencio, Termina, Excepcion, Ir
  <2>3. \E p \in {"INUBICATION", "INTOMARAZON", "siguiente", "excepcion"} : pc' = [pc EXCEPT ![w] = p]
    BY <1>0, <2>1, <2>2
  <2> QED BY <2>1, <2>3, AltaCodigo DEF PuntoAlta
<1>11. CASE RollbackBorra(w) \/ Restaura(w)
  <2>1. \A v \in Hilo \ {w} : obj'[v] = obj[v]
    BY <1>0, <1>11 DEF RollbackBorra, Restaura, delFromGeo
  <2>2. pc[w] \in {"rborra", "restaura"}
    BY <1>11 DEF RollbackBorra, Restaura
  <2>3. \/ UNCHANGED pc
        \/ \E p \in {"restaura", "siguiente", "libre"} : pc' = [pc EXCEPT ![w] = p]
    BY <1>11, Zenon DEF RollbackBorra, Restaura, delFromGeo, FalloRollback, Escapa, Termina,
       Sigue, Ir
  <2>4. \E p \in {"rborra", "restaura", "siguiente", "libre"} : pc' = [pc EXCEPT ![w] = p]
    BY <1>0, <2>2, <2>3
  <2> QED BY <2>1, <2>4, Sale
<1> QED
  BY <1>1, <1>2, <1>3, <1>4, <1>5, <1>6, <1>7, <1>8, <1>9, <1>10, <1>11, Zenon DEF Paso

LEMMA PasoCodigo == TInv /\ [Next]_vars => ConCodigo'
<1> SUFFICES ASSUME TInv, [Next]_vars PROVE ConCodigo'
  OBVIOUS
<1>1. ASSUME NEW w \in Hilo, Recibe(w) \/ Paso(w) PROVE ConCodigo'
  BY <1>1, CodigoPaso
<1>2. CASE Caida
  <2>1. \A w \in Hilo : pc'[w] = "libre"
    BY <1>2, Zenon DEF Caida
  <2> QED BY <2>1, Libres DEF ConCodigo
<1>3. CASE UNCHANGED vars
  BY <1>3 DEF vars, local, TInv, ConCodigo
<1> QED BY <1>1, <1>2, <1>3, Zenon DEF Next

(* Only Recibe and Avanza move a worker among the forms.                     *)
LEMMA PasoRango == TInv /\ [Next]_vars => EnRango'
<1> SUFFICES ASSUME TInv, [Next]_vars PROVE EnRango'
  OBVIOUS
<1> USE DEF externo, local, historia, cotas
<1>0. n \in [Hilo -> Nat \ {0}] /\ peticion \in [Hilo -> Peticion] /\ EnRango
  BY DEF TInv, TypeOK
<1>1. ASSUME NEW w \in Hilo, Recibe(w) PROVE EnRango'
  <2>1. PICK p \in Peticiones[w] : peticion' = [peticion EXCEPT ![w] = p]
    BY <1>1 DEF Recibe
  <2>2. p.formularios \in Seq(Formulario)
    BY RegistroAssumption DEF Peticion
  <2>3. Len(p.formularios) \in Nat
    BY <2>2, LenProperties
  <2>4. n' = [n EXCEPT ![w] = 1]
    BY <1>1 DEF Recibe
  <2> QED BY <1>0, <2>1, <2>3, <2>4 DEF EnRango
<1>2. ASSUME NEW w \in Hilo, Avanza(w) PROVE EnRango'
  <2>1. n[w] \in DOMAIN peticion[w].formularios
    BY <1>2 DEF Avanza, TInv, ConFormulario
  <2>2. peticion[w].formularios \in Seq(Formulario)
    BY <1>0 DEF Peticion
  <2>3. n[w] + 1 \in 1..Len(peticion[w].formularios) + 1
    BY <2>1, <2>2, LenProperties
  <2>4. n' = [n EXCEPT ![w] = n[w] + 1] /\ peticion' = peticion
    BY <1>2 DEF Avanza
  <2> QED BY <1>0, <2>3, <2>4 DEF EnRango
<1>3. ASSUME NEW w \in Hilo, Paso(w), ~Avanza(w) PROVE UNCHANGED <<n, peticion>>
  BY <1>3, Zenon DEF Paso, LeeMercado, Responde, CreaFormulario, BuscaAntiguos, LeeFoto,
     LeeProyecto, Borra, CreaExpediente, AsignaServicio, GENERATE_X_PROY, INPROYECTO, INBIP,
     ININI, INCODMERCADOPUB, INUBICATION, INTOMARAZON, SAVEOC, INADJUDICACION, INSPATIAL,
     Rollback, RollbackBorra, Restaura
<1>4. CASE Caida \/ UNCHANGED vars
  <2>1. UNCHANGED <<n, peticion>>
    BY <1>4 DEF Caida, vars
  <2> QED BY <1>0, <2>1 DEF EnRango
<1>5. CASE UNCHANGED <<n, peticion>>
  BY <1>0, <1>5 DEF EnRango
<1> QED BY <1>1, <1>2, <1>3, <1>4, <1>5, Zenon DEF Next


LEMMA PasoTipo == TInv /\ [Next]_vars => TInv'
<1> SUFFICES ASSUME TInv, [Next]_vars PROVE TInv'
  OBVIOUS
<1>0. ConCodigo' /\ EnRango'
  BY PasoCodigo, PasoRango
<1> USE DEF TInv, TypeOK, externo, local, historia, cotas
<1>1. ASSUME NEW w \in Hilo, Recibe(w) PROVE TInv'
  <2>1. db' \subseteq Fila /\ duenoProy' \in Seq(Clave) /\ duenoExpe' \in Seq(Clave)
    BY <1>1 DEF Recibe, Ir, Simple
  <2>2. pc' \in [Hilo -> Punto] /\ retorno' \in [Hilo -> Status] /\ fin' \in [Hilo -> Final]
    BY <1>1 DEF Recibe, Ir, Punto, Status, Final
  <2>3. peticion' \in [Hilo -> Peticion] /\ n' \in [Hilo -> Nat \ {0}]
    <3>1. PICK p \in Peticiones[w] : peticion' = [peticion EXCEPT ![w] = p]
      BY <1>1 DEF Recibe
    <3>2. p \in Peticion
      BY <3>1
    <3>3. peticion' \in [Hilo -> Peticion]
      BY <3>1, <3>2
    <3>4. n' = [n EXCEPT ![w] = 1]
      BY <1>1 DEF Recibe
    <3>5. n' \in [Hilo -> Nat \ {0}]
      BY <3>4
    <3> QED BY <3>3, <3>5
  <2>4. obj' \in [Hilo -> Objeto] /\ lazo' \in [Hilo -> Lazo]
    BY <1>1, ObjetoPone, LazoPone, Vacios DEF Recibe, Ir
  <2>5. antes' \in [Hilo -> SUBSET Fila] /\ registradas' \subseteq Clave
    BY <1>1, FormTipo DEF Recibe, Ir
  <2>6. fallas' \in 0..MaxFallas /\ recibidas' \in 0..MaxPeticiones /\ caidas' \in 0..MaxCaidas
    <3>1. fallas' = fallas /\ caidas' = caidas /\ recibidas < MaxPeticiones /\ recibidas' = recibidas + 1
      BY <1>1 DEF Recibe
    <3> QED BY <3>1
  <2>7. ConFormulario'
    BY <1>1 DEF Recibe, Ir, ConFormulario, Punto
  <2> QED BY <1>0, <2>1, <2>2, <2>3, <2>4, <2>5, <2>6, <2>7
<1>2. ASSUME NEW w \in Hilo, LeeMercado(w) PROVE TInv'
  <2>1. db' \subseteq Fila /\ duenoProy' \in Seq(Clave) /\ duenoExpe' \in Seq(Clave)
    BY <1>2 DEF LeeMercado, Ir, Escapa, Simple
  <2>2. pc' \in [Hilo -> Punto] /\ retorno' \in [Hilo -> Status] /\ fin' \in [Hilo -> Final]
    BY <1>2 DEF LeeMercado, Ir, Escapa, Punto, Status, Final
  <2>3. peticion' \in [Hilo -> Peticion] /\ n' \in [Hilo -> Nat \ {0}]
    BY <1>2 DEF LeeMercado, Ir, Escapa
  <2>4. obj' \in [Hilo -> Objeto] /\ lazo' \in [Hilo -> Lazo]
    BY <1>2, ObjetoPone, LazoPone, Vacios DEF LeeMercado, Ir, Escapa
  <2>5. antes' \in [Hilo -> SUBSET Fila] /\ registradas' \subseteq Clave
    BY <1>2, FormTipo DEF LeeMercado, Ir, Escapa
  <2>6. fallas' \in 0..MaxFallas /\ recibidas' \in 0..MaxPeticiones /\ caidas' \in 0..MaxCaidas
    BY <1>2, CuentaTipo DEF LeeMercado, Ir, Escapa
  <2>7. ConFormulario'
    BY <1>2 DEF LeeMercado, Ir, Escapa, ConFormulario, Punto
  <2> QED BY <1>0, <2>1, <2>2, <2>3, <2>4, <2>5, <2>6, <2>7
<1>3. ASSUME NEW w \in Hilo, Responde(w) PROVE TInv'
  <2>1. db' \subseteq Fila /\ duenoProy' \in Seq(Clave) /\ duenoExpe' \in Seq(Clave)
    BY <1>3 DEF Responde, Ir, Simple
  <2>2. pc' \in [Hilo -> Punto] /\ retorno' \in [Hilo -> Status] /\ fin' \in [Hilo -> Final]
    BY <1>3 DEF Responde, Ir, Punto, Status, Final
  <2>3. peticion' \in [Hilo -> Peticion] /\ n' \in [Hilo -> Nat \ {0}]
    BY <1>3 DEF Responde, Ir
  <2>4. obj' \in [Hilo -> Objeto] /\ lazo' \in [Hilo -> Lazo]
    BY <1>3, ObjetoPone, LazoPone, Vacios DEF Responde, Ir
  <2>5. antes' \in [Hilo -> SUBSET Fila] /\ registradas' \subseteq Clave
    BY <1>3, FormTipo DEF Responde, Ir
  <2>6. fallas' \in 0..MaxFallas /\ recibidas' \in 0..MaxPeticiones /\ caidas' \in 0..MaxCaidas
    BY <1>3, CuentaTipo DEF Responde, Ir
  <2>7. ConFormulario'
    BY <1>3 DEF Responde, Ir, ConFormulario, Punto
  <2> QED BY <1>0, <2>1, <2>2, <2>3, <2>4, <2>5, <2>6, <2>7
<1>4. ASSUME NEW w \in Hilo, Avanza(w) PROVE TInv'
  <2>1. db' \subseteq Fila /\ duenoProy' \in Seq(Clave) /\ duenoExpe' \in Seq(Clave)
    BY <1>4 DEF Avanza, Ir, Simple
  <2>2. pc' \in [Hilo -> Punto] /\ retorno' \in [Hilo -> Status] /\ fin' \in [Hilo -> Final]
    BY <1>4 DEF Avanza, Ir, Punto, Status, Final
  <2>3. peticion' \in [Hilo -> Peticion] /\ n' \in [Hilo -> Nat \ {0}]
    BY <1>4 DEF Avanza, Ir
  <2>4. obj' \in [Hilo -> Objeto] /\ lazo' \in [Hilo -> Lazo]
    BY <1>4, ObjetoPone, LazoPone, Vacios DEF Avanza, Ir
  <2>5. antes' \in [Hilo -> SUBSET Fila] /\ registradas' \subseteq Clave
    BY <1>4, FormTipo DEF Avanza, Ir
  <2>6. fallas' \in 0..MaxFallas /\ recibidas' \in 0..MaxPeticiones /\ caidas' \in 0..MaxCaidas
    BY <1>4, CuentaTipo DEF Avanza, Ir
  <2>7. ConFormulario'
    BY <1>4 DEF Avanza, Ir, ConFormulario, Punto
  <2> QED BY <1>0, <2>1, <2>2, <2>3, <2>4, <2>5, <2>6, <2>7
<1>5. ASSUME NEW w \in Hilo, CreaFormulario(w) PROVE TInv'
  <2>1. db' \subseteq Fila /\ duenoProy' \in Seq(Clave) /\ duenoExpe' \in Seq(Clave)
    BY <1>5 DEF CreaFormulario, Ir, Termina, Escapa, Simple
  <2>2. pc' \in [Hilo -> Punto] /\ retorno' \in [Hilo -> Status] /\ fin' \in [Hilo -> Final]
    BY <1>5 DEF CreaFormulario, Ir, Termina, Escapa, Punto, Status, Final
  <2>3. peticion' \in [Hilo -> Peticion] /\ n' \in [Hilo -> Nat \ {0}]
    BY <1>5 DEF CreaFormulario, Ir, Termina, Escapa
  <2>4. obj' \in [Hilo -> Objeto] /\ lazo' \in [Hilo -> Lazo]
    BY <1>5, ObjetoPone, LazoPone, Vacios DEF CreaFormulario, Ir, Termina, Escapa
  <2>5. antes' \in [Hilo -> SUBSET Fila] /\ registradas' \subseteq Clave
    BY <1>5, FormTipo DEF CreaFormulario, Ir, Termina, Escapa
  <2>6. fallas' \in 0..MaxFallas /\ recibidas' \in 0..MaxPeticiones /\ caidas' \in 0..MaxCaidas
    BY <1>5, CuentaTipo DEF CreaFormulario, Ir, Termina, Escapa
  <2>7. ConFormulario'
    <3>1. n' = n /\ peticion' = peticion /\ \E p : pc' = [pc EXCEPT ![w] = p]
      BY <1>5 DEF CreaFormulario, Ir, Termina, Escapa
    <3>2. n[w] \in DOMAIN peticion[w].formularios
      <4>1. peticion[w].formularios \in Seq(Formulario) /\ n[w] \in Nat \ {0}
        BY DEF Peticion
      <4>2. n[w] <= Len(peticion[w].formularios)
        BY <1>5 DEF CreaFormulario
      <4> QED BY <4>1, <4>2
    <3> QED BY <3>1, <3>2 DEF ConFormulario
  <2> QED BY <1>0, <2>1, <2>2, <2>3, <2>4, <2>5, <2>6, <2>7
<1>6. ASSUME NEW w \in Hilo, BuscaAntiguos(w) PROVE TInv'
  <2>1. db' \subseteq Fila /\ duenoProy' \in Seq(Clave) /\ duenoExpe' \in Seq(Clave)
    BY <1>6 DEF BuscaAntiguos, Fotografia, Excepcion, Sigue, Ir, Simple
  <2>2. pc' \in [Hilo -> Punto] /\ retorno' \in [Hilo -> Status] /\ fin' \in [Hilo -> Final]
    <3>1. pc' \in [Hilo -> Punto]
      BY <1>6, ZenonT(40) DEF BuscaAntiguos, Fotografia, Excepcion, Sigue, Ir, Punto
    <3>2. retorno' \in [Hilo -> Status]
      BY <1>6 DEF BuscaAntiguos, Fotografia, Excepcion, Sigue, Ir, Status
    <3>3. fin' \in [Hilo -> Final]
      BY <1>6 DEF BuscaAntiguos, Fotografia, Excepcion, Sigue, Ir, Final
    <3> QED BY <3>1, <3>2, <3>3
  <2>3. peticion' \in [Hilo -> Peticion] /\ n' \in [Hilo -> Nat \ {0}]
    BY <1>6 DEF BuscaAntiguos, Fotografia, Excepcion, Sigue, Ir
  <2>4. obj' \in [Hilo -> Objeto] /\ lazo' \in [Hilo -> Lazo]
    <3>0. obj \in [Hilo -> Objeto] /\ lazo \in [Hilo -> Lazo] /\ db \subseteq Fila
      OBVIOUS
    <3>1. PICK xs : /\ xs = {} \/ xs = {f.X_PROY : f \in {g \in db : g.tabla = "IDMU" /\ g.dato = Form(w).clave}}
                    /\ \/ UNCHANGED <<obj, lazo>>
                       \/ Fotografia(w, xs)
      BY <1>6, Zenon DEF BuscaAntiguos
    <3>2. \A x \in xs : x \in Int
      <4>1. \A f \in db : f.X_PROY \in Int
        BY <3>0, FilaTipo
      <4>2. \A x \in xs : \E f \in db : x = f.X_PROY
        BY <3>1, Zenon
      <4> QED BY <4>1, <4>2, Zenon
    <3>3. CASE Fotografia(w, xs)
      BY <3>0, <3>2, <3>3, FotografiaTipo, Zenon
    <3> QED BY <3>0, <3>1, <3>3, Zenon
  <2>5. antes' \in [Hilo -> SUBSET Fila] /\ registradas' \subseteq Clave
    BY <1>6, FormTipo DEF BuscaAntiguos, Fotografia, Excepcion, Sigue, Ir
  <2>6. fallas' \in 0..MaxFallas /\ recibidas' \in 0..MaxPeticiones /\ caidas' \in 0..MaxCaidas
    BY <1>6, CuentaTipo DEF BuscaAntiguos, Fotografia, Excepcion, Sigue, Ir
  <2>7. ConFormulario'
    BY <1>6, ZenonT(40) DEF BuscaAntiguos, Fotografia, Excepcion, Sigue, Ir, ConFormulario, Punto
  <2> QED BY <1>0, <2>1, <2>2, <2>3, <2>4, <2>5, <2>6, <2>7
<1>7. ASSUME NEW w \in Hilo, LeeFoto(w) PROVE TInv'
  <2>1. db' \subseteq Fila /\ duenoProy' \in Seq(Clave) /\ duenoExpe' \in Seq(Clave)
    BY <1>7 DEF LeeFoto, Excepcion, Sigue, Ir, Simple
  <2>2. pc' \in [Hilo -> Punto] /\ retorno' \in [Hilo -> Status] /\ fin' \in [Hilo -> Final]
    BY <1>7 DEF LeeFoto, Excepcion, Sigue, Ir, Punto, Status, Final
  <2>3. peticion' \in [Hilo -> Peticion] /\ n' \in [Hilo -> Nat \ {0}]
    BY <1>7 DEF LeeFoto, Excepcion, Sigue, Ir
  <2>4. obj' \in [Hilo -> Objeto] /\ lazo' \in [Hilo -> Lazo]
    <3>0. obj \in [Hilo -> Objeto] /\ lazo \in [Hilo -> Lazo] /\ db \subseteq Fila
      OBVIOUS
    <3>1. PICK r \in Salidas(FallaFind) :
            LET tabla == OrdenFoto[lazo[w].i]
                fs    == IF r = "ok" THEN FilasDe(tabla, obj[w].X_PROY) ELSE {}
            IN \/ UNCHANGED <<obj, lazo>>
               \/ /\ \E g \in Guardable(tabla, fs) :
                       lazo' = [lazo EXCEPT ![w].i = @ + 1, ![w].filas = @ \cup g]
                  /\ UNCHANGED obj
               \/ /\ \E g \in Guardable(tabla, fs) :
                       obj' = [obj EXCEPT ![w].ROLLBACK = lazo[w].filas \cup g,
                                          ![w].hayRollback = TRUE]
                  /\ UNCHANGED lazo
      BY <1>7, Zenon DEF LeeFoto
    <3> DEFINE tabla == OrdenFoto[lazo[w].i]
               fs    == IF r = "ok" THEN FilasDe(tabla, obj[w].X_PROY) ELSE {}
    <3>2. fs \in SUBSET Fila
      BY <3>0 DEF FilasDe
    <3> HIDE DEF fs, tabla
    <3>3. ASSUME NEW g \in Guardable(tabla, fs),
                 lazo' = [lazo EXCEPT ![w].i = @ + 1, ![w].filas = @ \cup g], obj' = obj
          PROVE  obj' \in [Hilo -> Objeto] /\ lazo' \in [Hilo -> Lazo]
      BY <3>0, <3>2, <3>3, GuardableTipo, LazoPone
    <3>4. ASSUME NEW g \in Guardable(tabla, fs), lazo' = lazo,
                 obj' = [obj EXCEPT ![w].ROLLBACK = lazo[w].filas \cup g, ![w].hayRollback = TRUE]
          PROVE  obj' \in [Hilo -> Objeto] /\ lazo' \in [Hilo -> Lazo]
      <4>1. lazo[w].filas \cup g \in SUBSET Fila
        BY <3>0, <3>2, GuardableTipo, LazoPone
      <4> QED BY <3>0, <3>4, <4>1, ObjetoPone
    <3> QED BY <3>0, <3>1, <3>3, <3>4 DEF fs, tabla
  <2>5. antes' \in [Hilo -> SUBSET Fila] /\ registradas' \subseteq Clave
    BY <1>7, FormTipo DEF LeeFoto, Excepcion, Sigue, Ir
  <2>6. fallas' \in 0..MaxFallas /\ recibidas' \in 0..MaxPeticiones /\ caidas' \in 0..MaxCaidas
    BY <1>7, CuentaTipo DEF LeeFoto, Excepcion, Sigue, Ir
  <2>7. ConFormulario'
    BY <1>7 DEF LeeFoto, Excepcion, Sigue, Ir, ConFormulario, Punto
  <2> QED BY <1>0, <2>1, <2>2, <2>3, <2>4, <2>5, <2>6, <2>7
<1>8. ASSUME NEW w \in Hilo, LeeProyecto(w) PROVE TInv'
  <2>1. db' \subseteq Fila /\ duenoProy' \in Seq(Clave) /\ duenoExpe' \in Seq(Clave)
    BY <1>8 DEF LeeProyecto, Excepcion, Silencio, Termina, Sigue, Ir, Simple
  <2>2. pc' \in [Hilo -> Punto] /\ retorno' \in [Hilo -> Status] /\ fin' \in [Hilo -> Final]
    BY <1>8 DEF LeeProyecto, Excepcion, Silencio, Termina, Sigue, Ir, Punto, Status, Final
  <2>3. peticion' \in [Hilo -> Peticion] /\ n' \in [Hilo -> Nat \ {0}]
    BY <1>8 DEF LeeProyecto, Excepcion, Silencio, Termina, Sigue, Ir
  <2>4. obj' \in [Hilo -> Objeto] /\ lazo' \in [Hilo -> Lazo]
    <3>0. obj \in [Hilo -> Objeto] /\ lazo \in [Hilo -> Lazo] /\ db \subseteq Fila
      OBVIOUS
    <3>1. \/ UNCHANGED <<obj, lazo>>
          \/ \E f \in FilasDe("PROY", obj[w].X_PROY) :
               /\ obj' = [obj EXCEPT ![w].EXPETREWA = f.dato]
               /\ lazo' = [lazo EXCEPT ![w].i = 1]
      BY <1>8 DEF LeeProyecto, ProyectoAntiguo
    <3>2. \A f \in FilasDe("PROY", obj[w].X_PROY) : f.dato \in Int
      BY <3>0, FilaTipo DEF FilasDe
    <3>3. \A x \in Int : [obj EXCEPT ![w].EXPETREWA = x] \in [Hilo -> Objeto]
      BY <3>0, ObjetoPone
    <3>4. [lazo EXCEPT ![w].i = 1] \in [Hilo -> Lazo]
      BY <3>0, LazoPone
    <3>5. ASSUME NEW f \in FilasDe("PROY", obj[w].X_PROY),
                 obj' = [obj EXCEPT ![w].EXPETREWA = f.dato], lazo' = [lazo EXCEPT ![w].i = 1]
          PROVE  obj' \in [Hilo -> Objeto] /\ lazo' \in [Hilo -> Lazo]
      <4>1. [obj EXCEPT ![w].EXPETREWA = f.dato] \in [Hilo -> Objeto]
        BY <3>2, <3>3
      <4> QED BY <3>4, <3>5, <4>1
    <3> QED BY <3>0, <3>1, <3>5
  <2>5. antes' \in [Hilo -> SUBSET Fila] /\ registradas' \subseteq Clave
    BY <1>8, FormTipo DEF LeeProyecto, Excepcion, Silencio, Termina, Sigue, Ir
  <2>6. fallas' \in 0..MaxFallas /\ recibidas' \in 0..MaxPeticiones /\ caidas' \in 0..MaxCaidas
    BY <1>8, CuentaTipo DEF LeeProyecto, Excepcion, Silencio, Termina, Sigue, Ir
  <2>7. ConFormulario'
    BY <1>8 DEF LeeProyecto, Excepcion, Silencio, Termina, Sigue, Ir, ConFormulario, Punto
  <2> QED BY <1>0, <2>1, <2>2, <2>3, <2>4, <2>5, <2>6, <2>7
<1>9. ASSUME NEW w \in Hilo, Borra(w) PROVE TInv'
  <2>1. db' \subseteq Fila /\ duenoProy' \in Seq(Clave) /\ duenoExpe' \in Seq(Clave)
    BY <1>9 DEF Borra, delFromGeo, OtraTabla, Fotografia, Excepcion, Sigue, Ir, Simple
  <2>2. pc' \in [Hilo -> Punto] /\ retorno' \in [Hilo -> Status] /\ fin' \in [Hilo -> Final]
    BY <1>9 DEF Borra, delFromGeo, OtraTabla, Fotografia, Excepcion, Sigue, Ir, Punto, Status, Final
  <2>3. peticion' \in [Hilo -> Peticion] /\ n' \in [Hilo -> Nat \ {0}]
    BY <1>9 DEF Borra, delFromGeo, OtraTabla, Fotografia, Excepcion, Sigue, Ir
  <2>4. obj' \in [Hilo -> Objeto] /\ lazo' \in [Hilo -> Lazo]
    <3>0. obj \in [Hilo -> Objeto] /\ lazo \in [Hilo -> Lazo] /\ db \subseteq Fila
      OBVIOUS
    <3>1. \/ UNCHANGED <<obj, lazo>>
          \/ UNCHANGED obj /\ lazo' = [lazo EXCEPT ![w].i = @ + 1]
          \/ Fotografia(w, lazo[w].antiguos)
          \/ UNCHANGED lazo /\ obj' = [obj EXCEPT ![w].X_PROY = Nulo]
      BY <1>9, Zenon DEF Borra, delFromGeo, OtraTabla
    <3>2. CASE Fotografia(w, lazo[w].antiguos)
      BY <3>0, <3>2, LazoPone, FotografiaTipo
    <3>3. CASE UNCHANGED obj /\ lazo' = [lazo EXCEPT ![w].i = @ + 1]
      BY <3>0, <3>3, LazoPone
    <3>4. CASE UNCHANGED lazo /\ obj' = [obj EXCEPT ![w].X_PROY = Nulo]
      <4>1. Nulo \in Int
        BY DEF Nulo
      <4>2. \A x \in Int : [obj EXCEPT ![w].X_PROY = x] \in [Hilo -> Objeto]
        BY <3>0, ObjetoPone
      <4>3. [obj EXCEPT ![w].X_PROY = Nulo] \in [Hilo -> Objeto]
        BY <4>1, <4>2
      <4> QED BY <3>0, <3>4, <4>3
    <3> QED BY <3>0, <3>1, <3>2, <3>3, <3>4
  <2>5. antes' \in [Hilo -> SUBSET Fila] /\ registradas' \subseteq Clave
    BY <1>9, FormTipo DEF Borra, delFromGeo, OtraTabla, Fotografia, Excepcion, Sigue, Ir
  <2>6. fallas' \in 0..MaxFallas /\ recibidas' \in 0..MaxPeticiones /\ caidas' \in 0..MaxCaidas
    BY <1>9, CuentaTipo DEF Borra, delFromGeo, OtraTabla, Fotografia, Excepcion, Sigue, Ir
  <2>7. ConFormulario'
    BY <1>9 DEF Borra, delFromGeo, OtraTabla, Fotografia, Excepcion, Sigue, Ir, ConFormulario, Punto
  <2> QED BY <1>0, <2>1, <2>2, <2>3, <2>4, <2>5, <2>6, <2>7
<1>10. ASSUME NEW w \in Hilo, CreaExpediente(w) PROVE TInv'
  <2>1. db' \subseteq Fila /\ duenoProy' \in Seq(Clave) /\ duenoExpe' \in Seq(Clave)
    <3>0. db \subseteq Fila /\ duenoProy \in Seq(Clave) /\ duenoExpe \in Seq(Clave)
      OBVIOUS
    <3>1. Form(w).clave \in Clave
      BY <1>10, FormTipo DEF CreaExpediente, Formulario
    <3>2. duenoExpe' \in {duenoExpe, Append(duenoExpe, Form(w).clave)} /\ UNCHANGED <<db, duenoProy>>
      BY <1>10 DEF CreaExpediente
    <3>3. /\ Append(duenoProy, Form(w).clave) \in Seq(Clave)
          /\ Append(duenoExpe, Form(w).clave) \in Seq(Clave)
      BY <3>0, <3>1, AppendProperties
    <3> QED BY <3>0, <3>2, <3>3
  <2>2. pc' \in [Hilo -> Punto] /\ retorno' \in [Hilo -> Status] /\ fin' \in [Hilo -> Final]
    BY <1>10 DEF CreaExpediente, Sigue, Ir, Punto, Status, Final
  <2>3. peticion' \in [Hilo -> Peticion] /\ n' \in [Hilo -> Nat \ {0}]
    BY <1>10 DEF CreaExpediente, Sigue, Ir
  <2>4. obj' \in [Hilo -> Objeto] /\ lazo' \in [Hilo -> Lazo]
    <3>0. obj \in [Hilo -> Objeto] /\ lazo \in [Hilo -> Lazo] /\ db \subseteq Fila
      OBVIOUS
    <3>1. PICK e \in {Error, Len(duenoExpe) + 1} :
            obj' = [obj EXCEPT ![w].EXPETREWA = e] /\ lazo' = lazo
      BY <1>10 DEF CreaExpediente
    <3>2. Error \in Int /\ Len(duenoExpe) + 1 \in Int
      BY LenProperties DEF Error
    <3>3. \A x \in Int : [obj EXCEPT ![w].EXPETREWA = x] \in [Hilo -> Objeto]
      BY <3>0, ObjetoPone
    <3>4. [obj EXCEPT ![w].EXPETREWA = e] \in [Hilo -> Objeto]
      BY <3>2, <3>3
    <3> QED BY <3>0, <3>1, <3>4
  <2>5. antes' \in [Hilo -> SUBSET Fila] /\ registradas' \subseteq Clave
    BY <1>10, FormTipo DEF CreaExpediente, Sigue, Ir
  <2>6. fallas' \in 0..MaxFallas /\ recibidas' \in 0..MaxPeticiones /\ caidas' \in 0..MaxCaidas
    BY <1>10, CuentaTipo DEF CreaExpediente, Sigue, Ir
  <2>7. ConFormulario'
    BY <1>10 DEF CreaExpediente, Sigue, Ir, ConFormulario, Punto
  <2> QED BY <1>0, <2>1, <2>2, <2>3, <2>4, <2>5, <2>6, <2>7
<1>11. ASSUME NEW w \in Hilo, AsignaServicio(w) PROVE TInv'
  <2>1. db' \subseteq Fila /\ duenoProy' \in Seq(Clave) /\ duenoExpe' \in Seq(Clave)
    BY <1>11 DEF AsignaServicio, Excepcion, Sigue, Ir, Simple
  <2>2. pc' \in [Hilo -> Punto] /\ retorno' \in [Hilo -> Status] /\ fin' \in [Hilo -> Final]
    BY <1>11 DEF AsignaServicio, Excepcion, Sigue, Ir, Punto, Status, Final
  <2>3. peticion' \in [Hilo -> Peticion] /\ n' \in [Hilo -> Nat \ {0}]
    BY <1>11 DEF AsignaServicio, Excepcion, Sigue, Ir
  <2>4. obj' \in [Hilo -> Objeto] /\ lazo' \in [Hilo -> Lazo]
    BY <1>11, ObjetoPone, LazoPone, Vacios DEF AsignaServicio, Excepcion, Sigue, Ir
  <2>5. antes' \in [Hilo -> SUBSET Fila] /\ registradas' \subseteq Clave
    BY <1>11, FormTipo DEF AsignaServicio, Excepcion, Sigue, Ir
  <2>6. fallas' \in 0..MaxFallas /\ recibidas' \in 0..MaxPeticiones /\ caidas' \in 0..MaxCaidas
    BY <1>11, CuentaTipo DEF AsignaServicio, Excepcion, Sigue, Ir
  <2>7. ConFormulario'
    BY <1>11 DEF AsignaServicio, Excepcion, Sigue, Ir, ConFormulario, Punto
  <2> QED BY <1>0, <2>1, <2>2, <2>3, <2>4, <2>5, <2>6, <2>7
<1>12. ASSUME NEW w \in Hilo, GENERATE_X_PROY(w) PROVE TInv'
  <2>1. db' \subseteq Fila /\ duenoProy' \in Seq(Clave) /\ duenoExpe' \in Seq(Clave)
    <3>0. db \subseteq Fila /\ duenoProy \in Seq(Clave) /\ duenoExpe \in Seq(Clave)
      OBVIOUS
    <3>1. Form(w).clave \in Clave
      BY <1>12, FormTipo DEF GENERATE_X_PROY, Formulario
    <3>2. duenoProy' \in {duenoProy, Append(duenoProy, Form(w).clave)} /\ UNCHANGED <<db, duenoExpe>>
      BY <1>12 DEF GENERATE_X_PROY
    <3>3. /\ Append(duenoProy, Form(w).clave) \in Seq(Clave)
          /\ Append(duenoExpe, Form(w).clave) \in Seq(Clave)
      BY <3>0, <3>1, AppendProperties
    <3> QED BY <3>0, <3>2, <3>3
  <2>2. pc' \in [Hilo -> Punto] /\ retorno' \in [Hilo -> Status] /\ fin' \in [Hilo -> Final]
    BY <1>12 DEF GENERATE_X_PROY, Excepcion, Silencio, Termina, Sigue, Ir, Punto, Status, Final
  <2>3. peticion' \in [Hilo -> Peticion] /\ n' \in [Hilo -> Nat \ {0}]
    BY <1>12 DEF GENERATE_X_PROY, Excepcion, Silencio, Termina, Sigue, Ir
  <2>4. obj' \in [Hilo -> Objeto] /\ lazo' \in [Hilo -> Lazo]
    <3>0. obj \in [Hilo -> Objeto] /\ lazo \in [Hilo -> Lazo] /\ db \subseteq Fila
      OBVIOUS
    <3>1. PICK x \in {Error, Len(duenoProy) + 1, obj[w].X_PROY} :
            obj' = [obj EXCEPT ![w].X_PROY = x] /\ lazo' = lazo
      BY <1>12 DEF GENERATE_X_PROY, Salidas, FallaSeq
    <3>2. Error \in Int /\ Len(duenoProy) + 1 \in Int
      BY LenProperties DEF Error
    <3>3. \A y \in Int : [obj EXCEPT ![w].X_PROY = y] \in [Hilo -> Objeto]
      BY <3>0, ObjetoPone
    <3>4. obj[w].X_PROY \in Int
      BY <3>0, ObjetoPone
    <3>5. [obj EXCEPT ![w].X_PROY = x] \in [Hilo -> Objeto]
      BY <3>2, <3>3, <3>4
    <3> QED BY <3>0, <3>1, <3>5
  <2>5. antes' \in [Hilo -> SUBSET Fila] /\ registradas' \subseteq Clave
    BY <1>12, FormTipo DEF GENERATE_X_PROY, Excepcion, Silencio, Termina, Sigue, Ir
  <2>6. fallas' \in 0..MaxFallas /\ recibidas' \in 0..MaxPeticiones /\ caidas' \in 0..MaxCaidas
    BY <1>12, CuentaTipo DEF GENERATE_X_PROY, Excepcion, Silencio, Termina, Sigue, Ir
  <2>7. ConFormulario'
    BY <1>12 DEF GENERATE_X_PROY, Excepcion, Silencio, Termina, Sigue, Ir, ConFormulario, Punto
  <2> QED BY <1>0, <2>1, <2>2, <2>3, <2>4, <2>5, <2>6, <2>7
<1>13. ASSUME NEW w \in Hilo, INPROYECTO(w) PROVE TInv'
  <2>1. db' \subseteq Fila /\ duenoProy' \in Seq(Clave) /\ duenoExpe' \in Seq(Clave)
    BY <1>13, FilaNuevaTipo, AppendProperties DEF INPROYECTO, PuntoAlta, Alta, Excepcion, Silencio, Termina, Sigue, Ir, Simple
  <2>2. pc' \in [Hilo -> Punto] /\ retorno' \in [Hilo -> Status] /\ fin' \in [Hilo -> Final]
    BY <1>13 DEF INPROYECTO, Alta, Excepcion, Silencio, Termina, Sigue, Ir, Punto, Status, Final
  <2>3. peticion' \in [Hilo -> Peticion] /\ n' \in [Hilo -> Nat \ {0}]
    BY <1>13 DEF INPROYECTO, Alta, Excepcion, Silencio, Termina, Sigue, Ir
  <2>4. obj' \in [Hilo -> Objeto] /\ lazo' \in [Hilo -> Lazo]
    BY <1>13, ObjetoPone, LazoPone, Vacios DEF INPROYECTO, Alta, Excepcion, Silencio, Termina, Sigue, Ir
  <2>5. antes' \in [Hilo -> SUBSET Fila] /\ registradas' \subseteq Clave
    BY <1>13, FormTipo DEF INPROYECTO, Alta, Excepcion, Silencio, Termina, Sigue, Ir
  <2>6. fallas' \in 0..MaxFallas /\ recibidas' \in 0..MaxPeticiones /\ caidas' \in 0..MaxCaidas
    BY <1>13, CuentaTipo DEF INPROYECTO, Alta, Excepcion, Silencio, Termina, Sigue, Ir
  <2>7. ConFormulario'
    BY <1>13 DEF INPROYECTO, Alta, Excepcion, Silencio, Termina, Sigue, Ir, ConFormulario, Punto
  <2> QED BY <1>0, <2>1, <2>2, <2>3, <2>4, <2>5, <2>6, <2>7
<1>14. ASSUME NEW w \in Hilo, INBIP(w) PROVE TInv'
  <2>1. db' \subseteq Fila /\ duenoProy' \in Seq(Clave) /\ duenoExpe' \in Seq(Clave)
    BY <1>14, FilaNuevaTipo, AppendProperties DEF INBIP, PuntoAlta, Alta, Excepcion, Silencio, Termina, Sigue, Ir, Simple
  <2>2. pc' \in [Hilo -> Punto] /\ retorno' \in [Hilo -> Status] /\ fin' \in [Hilo -> Final]
    <3>1. pc' \in [Hilo -> Punto]
      BY <1>14, ZenonT(40) DEF INBIP, Alta, Excepcion, Silencio, Termina, Sigue, Ir, Punto
    <3>2. retorno' \in [Hilo -> Status]
      BY <1>14 DEF INBIP, Alta, Excepcion, Silencio, Termina, Sigue, Ir, Status
    <3>3. fin' \in [Hilo -> Final]
      BY <1>14 DEF INBIP, Alta, Excepcion, Silencio, Termina, Sigue, Ir, Final
    <3> QED BY <3>1, <3>2, <3>3
  <2>3. peticion' \in [Hilo -> Peticion] /\ n' \in [Hilo -> Nat \ {0}]
    BY <1>14 DEF INBIP, Alta, Excepcion, Silencio, Termina, Sigue, Ir
  <2>4. obj' \in [Hilo -> Objeto] /\ lazo' \in [Hilo -> Lazo]
    BY <1>14, ObjetoPone, LazoPone, Vacios DEF INBIP, Alta, Excepcion, Silencio, Termina, Sigue, Ir
  <2>5. antes' \in [Hilo -> SUBSET Fila] /\ registradas' \subseteq Clave
    BY <1>14, FormTipo DEF INBIP, Alta, Excepcion, Silencio, Termina, Sigue, Ir
  <2>6. fallas' \in 0..MaxFallas /\ recibidas' \in 0..MaxPeticiones /\ caidas' \in 0..MaxCaidas
    BY <1>14, CuentaTipo DEF INBIP, Alta, Excepcion, Silencio, Termina, Sigue, Ir
  <2>7. ConFormulario'
    BY <1>14 DEF INBIP, Alta, Excepcion, Silencio, Termina, Sigue, Ir, ConFormulario, Punto
  <2> QED BY <1>0, <2>1, <2>2, <2>3, <2>4, <2>5, <2>6, <2>7
<1>15. ASSUME NEW w \in Hilo, ININI(w) PROVE TInv'
  <2>1. db' \subseteq Fila /\ duenoProy' \in Seq(Clave) /\ duenoExpe' \in Seq(Clave)
    BY <1>15, FilaNuevaTipo, AppendProperties DEF ININI, PuntoAlta, Alta, Excepcion, Silencio, Termina, Sigue, Ir, Simple
  <2>2. pc' \in [Hilo -> Punto] /\ retorno' \in [Hilo -> Status] /\ fin' \in [Hilo -> Final]
    BY <1>15 DEF ININI, Alta, Excepcion, Silencio, Termina, Sigue, Ir, Punto, Status, Final
  <2>3. peticion' \in [Hilo -> Peticion] /\ n' \in [Hilo -> Nat \ {0}]
    BY <1>15 DEF ININI, Alta, Excepcion, Silencio, Termina, Sigue, Ir
  <2>4. obj' \in [Hilo -> Objeto] /\ lazo' \in [Hilo -> Lazo]
    BY <1>15, ObjetoPone, LazoPone, Vacios DEF ININI, Alta, Excepcion, Silencio, Termina, Sigue, Ir
  <2>5. antes' \in [Hilo -> SUBSET Fila] /\ registradas' \subseteq Clave
    BY <1>15, FormTipo DEF ININI, Alta, Excepcion, Silencio, Termina, Sigue, Ir
  <2>6. fallas' \in 0..MaxFallas /\ recibidas' \in 0..MaxPeticiones /\ caidas' \in 0..MaxCaidas
    BY <1>15, CuentaTipo DEF ININI, Alta, Excepcion, Silencio, Termina, Sigue, Ir
  <2>7. ConFormulario'
    BY <1>15 DEF ININI, Alta, Excepcion, Silencio, Termina, Sigue, Ir, ConFormulario, Punto
  <2> QED BY <1>0, <2>1, <2>2, <2>3, <2>4, <2>5, <2>6, <2>7
<1>16. ASSUME NEW w \in Hilo, INCODMERCADOPUB(w) PROVE TInv'
  <2>1. db' \subseteq Fila /\ duenoProy' \in Seq(Clave) /\ duenoExpe' \in Seq(Clave)
    <3>1. Form(w).clave \in Clave
      BY <1>16, FormTipo DEF INCODMERCADOPUB, Formulario
    <3>2. /\ db' \in {db, db \cup {FilaNueva(w, "IDMU", Form(w).clave)}}
          /\ UNCHANGED <<duenoProy, duenoExpe>>
      BY <1>16 DEF INCODMERCADOPUB, Alta
    <3> QED BY <1>16, <3>1, <3>2, FilaNuevaTipo DEF INCODMERCADOPUB, PuntoAlta
  <2>2. pc' \in [Hilo -> Punto] /\ retorno' \in [Hilo -> Status] /\ fin' \in [Hilo -> Final]
    BY <1>16 DEF INCODMERCADOPUB, Alta, Excepcion, Silencio, Termina, Sigue, Ir, Punto, Status, Final
  <2>3. peticion' \in [Hilo -> Peticion] /\ n' \in [Hilo -> Nat \ {0}]
    BY <1>16 DEF INCODMERCADOPUB, Alta, Excepcion, Silencio, Termina, Sigue, Ir
  <2>4. obj' \in [Hilo -> Objeto] /\ lazo' \in [Hilo -> Lazo]
    BY <1>16, ObjetoPone, LazoPone, Vacios DEF INCODMERCADOPUB, Alta, Excepcion, Silencio, Termina, Sigue, Ir
  <2>5. antes' \in [Hilo -> SUBSET Fila] /\ registradas' \subseteq Clave
    BY <1>16, FormTipo DEF INCODMERCADOPUB, Alta, Excepcion, Silencio, Termina, Sigue, Ir
  <2>6. fallas' \in 0..MaxFallas /\ recibidas' \in 0..MaxPeticiones /\ caidas' \in 0..MaxCaidas
    BY <1>16, CuentaTipo DEF INCODMERCADOPUB, Alta, Excepcion, Silencio, Termina, Sigue, Ir
  <2>7. ConFormulario'
    BY <1>16 DEF INCODMERCADOPUB, Alta, Excepcion, Silencio, Termina, Sigue, Ir, ConFormulario, Punto
  <2> QED BY <1>0, <2>1, <2>2, <2>3, <2>4, <2>5, <2>6, <2>7
<1>17. ASSUME NEW w \in Hilo, INUBICATION(w) PROVE TInv'
  <2>1. db' \subseteq Fila /\ duenoProy' \in Seq(Clave) /\ duenoExpe' \in Seq(Clave)
    BY <1>17, FilaNuevaTipo, FormTipo, AppendProperties DEF INUBICATION, PuntoAlta, Alta, Excepcion, Silencio, Termina, Sigue, Ir, Simple
  <2>2. pc' \in [Hilo -> Punto] /\ retorno' \in [Hilo -> Status] /\ fin' \in [Hilo -> Final]
    <3>1. pc' \in [Hilo -> Punto]
      BY <1>17 DEF INUBICATION, Alta, Excepcion, Silencio, Termina, Sigue, Ir, Punto
    <3>2. retorno' \in [Hilo -> Status]
      BY <1>17 DEF INUBICATION, Alta, Excepcion, Silencio, Termina, Sigue, Ir, Status
    <3>3. fin' \in [Hilo -> Final]
      BY <1>17 DEF INUBICATION, Alta, Excepcion, Silencio, Termina, Sigue, Ir, Final
    <3> QED BY <3>1, <3>2, <3>3
  <2>3. peticion' \in [Hilo -> Peticion] /\ n' \in [Hilo -> Nat \ {0}]
    BY <1>17 DEF INUBICATION, Alta, Excepcion, Silencio, Termina, Sigue, Ir
  <2>4. obj' \in [Hilo -> Objeto] /\ lazo' \in [Hilo -> Lazo]
    <3>0. obj \in [Hilo -> Objeto] /\ lazo \in [Hilo -> Lazo] /\ db \subseteq Fila
      OBVIOUS
    <3>1. UNCHANGED obj /\ (UNCHANGED lazo \/ \E i \in {lazo[w].i, lazo[w].i + 1} : lazo' = [lazo EXCEPT ![w].i = i])
      BY <1>17 DEF INUBICATION
    <3>2. \A i \in Nat : [lazo EXCEPT ![w].i = i] \in [Hilo -> Lazo]
      BY <3>0, LazoPone
    <3>3. lazo[w].i \in Nat /\ lazo[w].i + 1 \in Nat
      BY <3>0, LazoPone
    <3>4. /\ [lazo EXCEPT ![w].i = lazo[w].i] \in [Hilo -> Lazo]
          /\ [lazo EXCEPT ![w].i = lazo[w].i + 1] \in [Hilo -> Lazo]
      BY <3>2, <3>3
    <3> QED BY <3>0, <3>1, <3>4
  <2>5. antes' \in [Hilo -> SUBSET Fila] /\ registradas' \subseteq Clave
    BY <1>17, FormTipo DEF INUBICATION, Alta, Excepcion, Silencio, Termina, Sigue, Ir
  <2>6. fallas' \in 0..MaxFallas /\ recibidas' \in 0..MaxPeticiones /\ caidas' \in 0..MaxCaidas
    BY <1>17, CuentaTipo DEF INUBICATION, Alta, Excepcion, Silencio, Termina, Sigue, Ir
  <2>7. ConFormulario'
    BY <1>17 DEF INUBICATION, Alta, Excepcion, Silencio, Termina, Sigue, Ir, ConFormulario, Punto
  <2> QED BY <1>0, <2>1, <2>2, <2>3, <2>4, <2>5, <2>6, <2>7
<1>18. ASSUME NEW w \in Hilo, INTOMARAZON(w) PROVE TInv'
  <2>1. db' \subseteq Fila /\ duenoProy' \in Seq(Clave) /\ duenoExpe' \in Seq(Clave)
    BY <1>18, FilaNuevaTipo, AppendProperties DEF INTOMARAZON, PuntoAlta, Alta, Excepcion, Silencio, Termina, Sigue, Ir, Simple
  <2>2. pc' \in [Hilo -> Punto] /\ retorno' \in [Hilo -> Status] /\ fin' \in [Hilo -> Final]
    BY <1>18 DEF INTOMARAZON, Alta, Excepcion, Silencio, Termina, Sigue, Ir, Punto, Status, Final
  <2>3. peticion' \in [Hilo -> Peticion] /\ n' \in [Hilo -> Nat \ {0}]
    BY <1>18 DEF INTOMARAZON, Alta, Excepcion, Silencio, Termina, Sigue, Ir
  <2>4. obj' \in [Hilo -> Objeto] /\ lazo' \in [Hilo -> Lazo]
    BY <1>18, ObjetoPone, LazoPone, Vacios DEF INTOMARAZON, Alta, Excepcion, Silencio, Termina, Sigue, Ir
  <2>5. antes' \in [Hilo -> SUBSET Fila] /\ registradas' \subseteq Clave
    BY <1>18, FormTipo DEF INTOMARAZON, Alta, Excepcion, Silencio, Termina, Sigue, Ir
  <2>6. fallas' \in 0..MaxFallas /\ recibidas' \in 0..MaxPeticiones /\ caidas' \in 0..MaxCaidas
    BY <1>18, CuentaTipo DEF INTOMARAZON, Alta, Excepcion, Silencio, Termina, Sigue, Ir
  <2>7. ConFormulario'
    BY <1>18 DEF INTOMARAZON, Alta, Excepcion, Silencio, Termina, Sigue, Ir, ConFormulario, Punto
  <2> QED BY <1>0, <2>1, <2>2, <2>3, <2>4, <2>5, <2>6, <2>7
<1>19. ASSUME NEW w \in Hilo, SAVEOC(w) PROVE TInv'
  <2>1. db' \subseteq Fila /\ duenoProy' \in Seq(Clave) /\ duenoExpe' \in Seq(Clave)
    BY <1>19, FilaNuevaTipo, AppendProperties DEF SAVEOC, PuntoAlta, Alta, Excepcion, Silencio, Termina, Sigue, Ir, Simple
  <2>2. pc' \in [Hilo -> Punto] /\ retorno' \in [Hilo -> Status] /\ fin' \in [Hilo -> Final]
    BY <1>19, ZenonT(40) DEF SAVEOC, Alta, Excepcion, Silencio, Termina, Sigue, Ir, Punto, Status, Final
  <2>3. peticion' \in [Hilo -> Peticion] /\ n' \in [Hilo -> Nat \ {0}]
    BY <1>19 DEF SAVEOC, Alta, Excepcion, Silencio, Termina, Sigue, Ir
  <2>4. obj' \in [Hilo -> Objeto] /\ lazo' \in [Hilo -> Lazo]
    BY <1>19, ObjetoPone, LazoPone, Vacios DEF SAVEOC, Alta, Excepcion, Silencio, Termina, Sigue, Ir
  <2>5. antes' \in [Hilo -> SUBSET Fila] /\ registradas' \subseteq Clave
    BY <1>19, FormTipo DEF SAVEOC, Alta, Excepcion, Silencio, Termina, Sigue, Ir
  <2>6. fallas' \in 0..MaxFallas /\ recibidas' \in 0..MaxPeticiones /\ caidas' \in 0..MaxCaidas
    BY <1>19, CuentaTipo DEF SAVEOC, Alta, Excepcion, Silencio, Termina, Sigue, Ir
  <2>7. ConFormulario'
    BY <1>19 DEF SAVEOC, Alta, Excepcion, Silencio, Termina, Sigue, Ir, ConFormulario, Punto
  <2> QED BY <1>0, <2>1, <2>2, <2>3, <2>4, <2>5, <2>6, <2>7
<1>20. ASSUME NEW w \in Hilo, INADJUDICACION(w) PROVE TInv'
  <2>1. db' \subseteq Fila /\ duenoProy' \in Seq(Clave) /\ duenoExpe' \in Seq(Clave)
    BY <1>20, FilaNuevaTipo, AppendProperties DEF INADJUDICACION, PuntoAlta, Alta, Excepcion, Silencio, Termina, Sigue, Ir, Simple
  <2>2. pc' \in [Hilo -> Punto] /\ retorno' \in [Hilo -> Status] /\ fin' \in [Hilo -> Final]
    BY <1>20 DEF INADJUDICACION, Alta, Excepcion, Silencio, Termina, Sigue, Ir, Punto, Status, Final
  <2>3. peticion' \in [Hilo -> Peticion] /\ n' \in [Hilo -> Nat \ {0}]
    BY <1>20 DEF INADJUDICACION, Alta, Excepcion, Silencio, Termina, Sigue, Ir
  <2>4. obj' \in [Hilo -> Objeto] /\ lazo' \in [Hilo -> Lazo]
    BY <1>20, ObjetoPone, LazoPone, Vacios DEF INADJUDICACION, Alta, Excepcion, Silencio, Termina, Sigue, Ir
  <2>5. antes' \in [Hilo -> SUBSET Fila] /\ registradas' \subseteq Clave
    BY <1>20, FormTipo DEF INADJUDICACION, Alta, Excepcion, Silencio, Termina, Sigue, Ir
  <2>6. fallas' \in 0..MaxFallas /\ recibidas' \in 0..MaxPeticiones /\ caidas' \in 0..MaxCaidas
    BY <1>20, CuentaTipo DEF INADJUDICACION, Alta, Excepcion, Silencio, Termina, Sigue, Ir
  <2>7. ConFormulario'
    BY <1>20 DEF INADJUDICACION, Alta, Excepcion, Silencio, Termina, Sigue, Ir, ConFormulario, Punto
  <2> QED BY <1>0, <2>1, <2>2, <2>3, <2>4, <2>5, <2>6, <2>7
<1>21. ASSUME NEW w \in Hilo, INSPATIAL(w) PROVE TInv'
  <2>1. db' \subseteq Fila /\ duenoProy' \in Seq(Clave) /\ duenoExpe' \in Seq(Clave)
    BY <1>21, FilaNuevaTipo, FormTipo, AppendProperties DEF INSPATIAL, PuntoAlta, Alta, Excepcion, Silencio, Termina, Sigue, Ir, Simple
  <2>2. pc' \in [Hilo -> Punto] /\ retorno' \in [Hilo -> Status] /\ fin' \in [Hilo -> Final]
    BY <1>21, ZenonT(40) DEF INSPATIAL, Alta, Excepcion, Silencio, Termina, Sigue, Ir, Punto, Status, Final
  <2>3. peticion' \in [Hilo -> Peticion] /\ n' \in [Hilo -> Nat \ {0}]
    BY <1>21 DEF INSPATIAL, Alta, Excepcion, Silencio, Termina, Sigue, Ir
  <2>4. obj' \in [Hilo -> Objeto] /\ lazo' \in [Hilo -> Lazo]
    BY <1>21, ObjetoPone, LazoPone, Vacios DEF INSPATIAL, Alta, Excepcion, Silencio, Termina, Sigue, Ir
  <2>5. antes' \in [Hilo -> SUBSET Fila] /\ registradas' \subseteq Clave
    <3>1. Form(w).clave \in Clave
      BY <1>21, FormTipo DEF INSPATIAL, Formulario
    <3>2. antes' = antes /\ registradas' \in {registradas, registradas \cup {Form(w).clave}}
      BY <1>21 DEF INSPATIAL
    <3> QED BY <3>1, <3>2
  <2>6. fallas' \in 0..MaxFallas /\ recibidas' \in 0..MaxPeticiones /\ caidas' \in 0..MaxCaidas
    BY <1>21, CuentaTipo DEF INSPATIAL, Alta, Excepcion, Silencio, Termina, Sigue, Ir
  <2>7. ConFormulario'
    BY <1>21 DEF INSPATIAL, Alta, Excepcion, Silencio, Termina, Sigue, Ir, ConFormulario, Punto
  <2> QED BY <1>0, <2>1, <2>2, <2>3, <2>4, <2>5, <2>6, <2>7
<1>22. ASSUME NEW w \in Hilo, Rollback(w) PROVE TInv'
  <2>1. db' \subseteq Fila /\ duenoProy' \in Seq(Clave) /\ duenoExpe' \in Seq(Clave)
    BY <1>22 DEF Rollback, Escapa, Termina, Sigue, Ir, Simple
  <2>2. pc' \in [Hilo -> Punto] /\ retorno' \in [Hilo -> Status] /\ fin' \in [Hilo -> Final]
    BY <1>22 DEF Rollback, Escapa, Termina, Sigue, Ir, Punto, Status, Final
  <2>3. peticion' \in [Hilo -> Peticion] /\ n' \in [Hilo -> Nat \ {0}]
    BY <1>22 DEF Rollback, Escapa, Termina, Sigue, Ir
  <2>4. obj' \in [Hilo -> Objeto] /\ lazo' \in [Hilo -> Lazo]
    <3>0. obj \in [Hilo -> Objeto] /\ lazo \in [Hilo -> Lazo] /\ db \subseteq Fila
      OBVIOUS
    <3>1. UNCHANGED obj /\ (UNCHANGED lazo \/ lazo' = [lazo EXCEPT ![w].i = 1])
      BY <1>22 DEF Rollback
    <3>2. [lazo EXCEPT ![w].i = 1] \in [Hilo -> Lazo]
      BY <3>0, LazoPone
    <3> QED BY <3>0, <3>1, <3>2
  <2>5. antes' \in [Hilo -> SUBSET Fila] /\ registradas' \subseteq Clave
    BY <1>22, FormTipo DEF Rollback, Escapa, Termina, Sigue, Ir
  <2>6. fallas' \in 0..MaxFallas /\ recibidas' \in 0..MaxPeticiones /\ caidas' \in 0..MaxCaidas
    BY <1>22, CuentaTipo DEF Rollback, Escapa, Termina, Sigue, Ir
  <2>7. ConFormulario'
    BY <1>22 DEF Rollback, Escapa, Termina, Sigue, Ir, ConFormulario, Punto
  <2> QED BY <1>0, <2>1, <2>2, <2>3, <2>4, <2>5, <2>6, <2>7
<1>23. ASSUME NEW w \in Hilo, RollbackBorra(w) PROVE TInv'
  <2>1. db' \subseteq Fila /\ duenoProy' \in Seq(Clave) /\ duenoExpe' \in Seq(Clave)
    BY <1>23 DEF RollbackBorra, FalloRollback, delFromGeo, OtraTabla, Termina, Sigue, Ir, Simple
  <2>2. pc' \in [Hilo -> Punto] /\ retorno' \in [Hilo -> Status] /\ fin' \in [Hilo -> Final]
    BY <1>23 DEF RollbackBorra, FalloRollback, delFromGeo, OtraTabla, Termina, Sigue, Ir, Punto, Status, Final
  <2>3. peticion' \in [Hilo -> Peticion] /\ n' \in [Hilo -> Nat \ {0}]
    BY <1>23 DEF RollbackBorra, FalloRollback, delFromGeo, OtraTabla, Termina, Sigue, Ir
  <2>4. obj' \in [Hilo -> Objeto] /\ lazo' \in [Hilo -> Lazo]
    <3>0. obj \in [Hilo -> Objeto] /\ lazo \in [Hilo -> Lazo] /\ db \subseteq Fila
      OBVIOUS
    <3>1. \/ UNCHANGED <<obj, lazo>>
          \/ UNCHANGED obj /\ lazo' = [lazo EXCEPT ![w].i = @ + 1]
          \/ /\ obj' = [obj EXCEPT ![w].X_PROY = Nulo]
             /\ lazo' = [lazo EXCEPT ![w].filas = obj[w].ROLLBACK]
      BY <1>23, Zenon DEF RollbackBorra, delFromGeo, OtraTabla
    <3>2. CASE UNCHANGED obj /\ lazo' = [lazo EXCEPT ![w].i = @ + 1]
      BY <3>0, <3>2, LazoPone
    <3>3. CASE /\ obj' = [obj EXCEPT ![w].X_PROY = Nulo]
               /\ lazo' = [lazo EXCEPT ![w].filas = obj[w].ROLLBACK]
      <4>1. Nulo \in Int /\ obj[w].ROLLBACK \in SUBSET Fila
        <5>1. obj[w].ROLLBACK \in SUBSET Fila
          BY <3>0, ObjetoPone
        <5> QED BY <5>1 DEF Nulo
      <4>2. \A x \in Int : [obj EXCEPT ![w].X_PROY = x] \in [Hilo -> Objeto]
        BY <3>0, ObjetoPone
      <4>3. \A g \in SUBSET Fila : [lazo EXCEPT ![w].filas = g] \in [Hilo -> Lazo]
        BY <3>0, LazoPone
      <4>4. /\ [obj EXCEPT ![w].X_PROY = Nulo] \in [Hilo -> Objeto]
            /\ [lazo EXCEPT ![w].filas = obj[w].ROLLBACK] \in [Hilo -> Lazo]
        BY <4>1, <4>2, <4>3
      <4> QED BY <3>3, <4>4
    <3> QED BY <3>0, <3>1, <3>2, <3>3
  <2>5. antes' \in [Hilo -> SUBSET Fila] /\ registradas' \subseteq Clave
    BY <1>23, FormTipo DEF RollbackBorra, FalloRollback, delFromGeo, OtraTabla, Termina, Sigue, Ir
  <2>6. fallas' \in 0..MaxFallas /\ recibidas' \in 0..MaxPeticiones /\ caidas' \in 0..MaxCaidas
    BY <1>23, CuentaTipo DEF RollbackBorra, FalloRollback, delFromGeo, OtraTabla, Termina, Sigue, Ir
  <2>7. ConFormulario'
    BY <1>23 DEF RollbackBorra, FalloRollback, delFromGeo, OtraTabla, Termina, Sigue, Ir, ConFormulario, Punto
  <2> QED BY <1>0, <2>1, <2>2, <2>3, <2>4, <2>5, <2>6, <2>7
<1>24. ASSUME NEW w \in Hilo, Restaura(w) PROVE TInv'
  <2>1. db' \subseteq Fila /\ duenoProy' \in Seq(Clave) /\ duenoExpe' \in Seq(Clave)
    <3>1. /\ db' = db \/ \E f \in lazo[w].filas : db' = db \cup {f}
          /\ UNCHANGED <<duenoProy, duenoExpe>>
      BY <1>24 DEF Restaura, Primeras
    <3>2. db \subseteq Fila /\ lazo[w].filas \in SUBSET Fila
      BY LazoPone
    <3> QED BY <3>1, <3>2
  <2>2. pc' \in [Hilo -> Punto] /\ retorno' \in [Hilo -> Status] /\ fin' \in [Hilo -> Final]
    BY <1>24 DEF Restaura, FalloRollback, Termina, Escapa, Sigue, Ir, Punto, Status, Final
  <2>3. peticion' \in [Hilo -> Peticion] /\ n' \in [Hilo -> Nat \ {0}]
    BY <1>24 DEF Restaura, FalloRollback, Termina, Escapa, Sigue, Ir
  <2>4. obj' \in [Hilo -> Objeto] /\ lazo' \in [Hilo -> Lazo]
    <3>0. obj \in [Hilo -> Objeto] /\ lazo \in [Hilo -> Lazo] /\ db \subseteq Fila
      OBVIOUS
    <3>1. UNCHANGED obj /\ (UNCHANGED lazo \/ \E f : lazo' = [lazo EXCEPT ![w].filas = @ \ {f}])
      BY <1>24 DEF Restaura
    <3>2. \A f : lazo[w].filas \ {f} \in SUBSET Fila
      BY <3>0, LazoPone
    <3>3. \A g \in SUBSET Fila : [lazo EXCEPT ![w].filas = g] \in [Hilo -> Lazo]
      BY <3>0, LazoPone
    <3>4. ASSUME NEW f, lazo' = [lazo EXCEPT ![w].filas = @ \ {f}]
          PROVE  lazo' \in [Hilo -> Lazo]
      <4>1. [lazo EXCEPT ![w].filas = lazo[w].filas \ {f}] \in [Hilo -> Lazo]
        BY <3>2, <3>3
      <4> QED BY <3>4, <4>1
    <3> QED BY <3>0, <3>1, <3>4
  <2>5. antes' \in [Hilo -> SUBSET Fila] /\ registradas' \subseteq Clave
    BY <1>24, FormTipo DEF Restaura, FalloRollback, Termina, Escapa, Sigue, Ir
  <2>6. fallas' \in 0..MaxFallas /\ recibidas' \in 0..MaxPeticiones /\ caidas' \in 0..MaxCaidas
    BY <1>24, CuentaTipo DEF Restaura, FalloRollback, Termina, Escapa, Sigue, Ir
  <2>7. ConFormulario'
    BY <1>24 DEF Restaura, FalloRollback, Termina, Escapa, Sigue, Ir, ConFormulario, Punto
  <2> QED BY <1>0, <2>1, <2>2, <2>3, <2>4, <2>5, <2>6, <2>7
<1>25. CASE Caida
  <2>1. pc' \in [Hilo -> Punto] /\ retorno' \in [Hilo -> Status] /\ fin' \in [Hilo -> Final]
    BY <1>25 DEF Caida, Punto, Status, Final
  <2>2. obj' \in [Hilo -> Objeto] /\ lazo' \in [Hilo -> Lazo]
    BY <1>25, Vacios DEF Caida
  <2>3. caidas' \in 0..MaxCaidas
    <3>1. caidas < MaxCaidas /\ caidas' = caidas + 1
      BY <1>25, Zenon DEF Caida
    <3> QED BY <3>1
  <2>4. ConFormulario'
    BY <1>25 DEF Caida, ConFormulario
  <2> QED BY <1>0, <1>25, <2>1, <2>2, <2>3, <2>4 DEF Caida
<1>26. CASE UNCHANGED vars
  BY <1>0, <1>26 DEF vars, ConFormulario, Form
<1> QED
  BY <1>1, <1>2, <1>3, <1>4, <1>5, <1>6, <1>7, <1>8, <1>9, <1>10, <1>11, <1>12, <1>13,
     <1>14, <1>15, <1>16, <1>17, <1>18, <1>19, <1>20, <1>21, <1>22, <1>23, <1>24, <1>25,
     <1>26, Zenon DEF Next, Paso

(* Every variable keeps its type in every behaviour: no worker runs past    *)
(* the forms of its request, and no row is written, saved or put back with  *)
(* a null project code, nor a project without its case file.                *)
THEOREM TipoCorrecto == Spec => []TypeOK
<1>1. TInv => TypeOK
  BY DEF TInv
<1> QED BY InitTipo, PasoTipo, <1>1, PTL DEF Spec

(* ConFormulario with it: a worker past the head of the loop has its form.   *)
THEOREM TInvSiempre == Spec => []TInv
  BY InitTipo, PasoTipo, PTL DEF Spec
=============================================================================
