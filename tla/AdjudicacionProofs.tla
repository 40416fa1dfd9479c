-------------------------- MODULE AdjudicacionProofs --------------------------
(* Type correctness of the adjudication, and that whatever the threads, the  *)
(* orders, the failures and the registrations, a row is only written for the *)
(* line of its project and with the contractor of that line.                 *)
EXTENDS Adjudicacion, SequenceTheorems, TLAPS

(* Number x of the sequence d was drawn for k; an id of contractor is none   *)
(* or was drawn for the RUT.                                                 *)
De(d, k, x) == x \in DOMAIN d /\ d[x] = k
ProvBien(n, c, rut) == c > 0 /\ c # Desierto => De(n, rut, c)

EnOrdenes    == Punto \ {"libre", "orden", "responde"}
EnPersonas   == {"contratista", "numero", "alta"}
EnAlta       == {"numero", "alta"}
EnProyectos  == {"proyecto", "respTora", "respAdju", "updTora", "updAdju", "oc", "vuelta"}
EnLineas     == EnProyectos \cup {"linea"}
Estado       == {"", "OK", "IMPACT", "FAIL", "500"}

(* What a thread at p with locals r holds is its own: indices within their   *)
(* lists, a contractor for each line passed, projects of its line.           *)
Lista(r) == LineasDe[r.ordenes[r.i].orden]

Bien(d, n, p, r) ==
  /\ r.i >= 1
  /\ p \in EnOrdenes => r.i \in DOMAIN r.ordenes
  /\ p \in EnPersonas => Len(r.prov) < Len(Lista(r)) /\ r.l = 1
  /\ p \in EnLineas => r.l \in DOMAIN Lista(r) /\ Len(r.prov) = Len(Lista(r))
  /\ p \in EnPersonas \cup EnLineas =>
       \A k \in DOMAIN r.prov : ProvBien(n, r.prov[k], RutDe[Lista(r)[k]])
  /\ p \in EnAlta => RutDe[Lista(r)[Len(r.prov) + 1]] \in Rut
  /\ p = "alta" => ProvBien(n, r.X_CONT, RutDe[Lista(r)[Len(r.prov) + 1]])
  /\ p \in EnProyectos => /\ De(d, Lista(r)[r.l], r.X_PROY)
                          /\ \A y \in r.porVer : De(d, Lista(r)[r.l], y)

Hilos ==
  /\ pc \in [Hilo -> Punto] /\ loc \in [Hilo -> Locales] /\ respuesta \in [Hilo -> Estado]
  /\ \A h \in Hilo : Bien(duenio, numero, pc[h], loc[h])

Registros == [linea : Linea, paso : 0..8, X_PROY : 0..MaxProy, viejos : SUBSET X_PROYs]

(* A row says the line its project was drawn for, a contractor of it its RUT. *)
Tablas ==
  /\ proy \subseteq X_PROYs /\ idmu \subseteq X_PROYs \X Linea
  /\ tora \in [X_PROYs -> Nat \cup {Sin}] /\ adju \in [X_PROYs -> Adju]
  /\ duenio \in Seq(Linea) /\ reg \in Registros /\ sucesos \in 0..MaxSucesos
  /\ Len(duenio) + (IF reg.paso \in 1..4 THEN 1 ELSE 0) <= Len(Previas) + sucesos
  /\ reg.paso \in 1..8 => reg.X_PROY \in X_PROYs
  /\ reg.paso \in 5..8 => De(duenio, reg.linea, reg.X_PROY)
  /\ \A f \in idmu : De(duenio, f[2], f[1])

Personas ==
  /\ contratistas \subseteq Int \X Rut /\ numero \in Seq(Rut)
  /\ \A c \in contratistas : ProvBien(numero, c[1], c[2])
  /\ \A y \in X_PROYs : adju[y].cont > 0 /\ adju[y].cont # Desierto =>
       y \in DOMAIN duenio /\ ProvBien(numero, adju[y].cont, RutDe[duenio[y]])

Historia ==
  /\ otravez \in [Hilo -> BOOLEAN] /\ solo \in [Hilo -> BOOLEAN]
  /\ ajenas \in [Hilo -> SUBSET Linea] /\ roto \subseteq X_PROYs
  /\ despachos \in Nat /\ llamadas \in 0..MaxLlamadas

IInv == Hilos /\ Tablas /\ Personas /\ Historia

LEMMA TipoDeInv == IInv => TypeOK
<1> SUFFICES ASSUME IInv PROVE TypeOK
  OBVIOUS
<1>1. Len(duenio) <= MaxProy
  BY AdjudicacionAssumption DEF IInv, Tablas, MaxProy, Registros
<1> QED BY <1>1 DEF IInv, Hilos, Tablas, Personas, Historia, TypeOK, Estado, Registros

-----------------------------------------------------------------------------
(* Sequences only grow.                                                      *)
Extiende(d, e) == \A x \in DOMAIN d : x \in DOMAIN e /\ e[x] = d[x]

LEMMA Anexo ==
  ASSUME NEW S, NEW s \in Seq(S), NEW e \in S
  PROVE  /\ Append(s, e) \in Seq(S)
         /\ Len(Append(s, e)) = Len(s) + 1
         /\ DOMAIN Append(s, e) = DOMAIN s \cup {Len(s) + 1}
         /\ Append(s, e)[Len(s) + 1] = e
         /\ Extiende(s, Append(s, e)) /\ De(Append(s, e), e, Len(s) + 1)
BY AppendProperties DEF Extiende, De

LEMMA Igual == \A d : Extiende(d, d)
BY DEF Extiende

LEMMA DeCrece ==
  ASSUME NEW d, NEW e, Extiende(d, e)
  PROVE  /\ \A k, x : De(d, k, x) => De(e, k, x)
         /\ \A c, rut : ProvBien(d, c, rut) => ProvBien(e, c, rut)
BY DEF Extiende, De, ProvBien

LEMMA BienCrece ==
  ASSUME NEW d, NEW e, NEW n, NEW m, Extiende(d, e), Extiende(n, m),
         NEW p, NEW r, Bien(d, n, p, r)
  PROVE  Bien(e, m, p, r)
BY DeCrece DEF Bien

(* What a step of thread h, alone, has to leave of it.                       *)
Hace(h) ==
  /\ pc' \in [Hilo -> Punto] /\ loc' \in [Hilo -> Locales] /\ respuesta' \in [Hilo -> Estado]
  /\ \A g \in Hilo \ {h} : pc'[g] = pc[g] /\ loc'[g] = loc[g]
  /\ Bien(duenio', numero', pc'[h], loc'[h])

LEMMA Turno ==
  ASSUME Hilos, NEW h \in Hilo, Hace(h), Extiende(duenio, duenio'), Extiende(numero, numero')
  PROVE  Hilos'
<1>1. ASSUME NEW g \in Hilo \ {h} PROVE Bien(duenio', numero', pc'[g], loc'[g])
  BY <1>1, BienCrece DEF Hilos, Hace
<1> QED BY <1>1 DEF Hilos, Hace

-----------------------------------------------------------------------------
(* The helpers of the loops.                                                 *)
LEMMA Puntos ==
  /\ EnPersonas \subseteq EnOrdenes /\ EnLineas \subseteq EnOrdenes
  /\ EnPersonas \cap EnLineas = {} /\ EnProyectos \subseteq EnLineas
  /\ EnOrdenes \subseteq Punto /\ EnAlta \subseteq EnPersonas /\ "alta" \in EnAlta
BY DEF EnPersonas, EnLineas, EnOrdenes, EnProyectos, EnAlta, Punto

LEMMA Orden_iTipo ==
  ASSUME Hilos, NEW h \in Hilo, pc[h] \in EnOrdenes
  PROVE  /\ Orden_i(h) \in Orden /\ Items(h) = Lista(loc[h]) /\ Items(h) \in Seq(Linea)
         /\ loc[h].i \in DOMAIN loc[h].ordenes
<1>1. loc[h] \in Locales /\ Bien(duenio, numero, pc[h], loc[h])
  BY DEF Hilos
<1>2. loc[h].i \in DOMAIN loc[h].ordenes /\ loc[h].ordenes \in Seq(Elemento)
  BY <1>1 DEF Bien, Locales
<1>3. loc[h].ordenes[loc[h].i] \in Elemento
  BY <1>2
<1> QED BY <1>2, <1>3, AdjudicacionAssumption DEF Orden_i, Items, Lista, Elemento

LEMMA SigueBien ==
  ASSUME Hilos, NEW h \in Hilo, NEW q \in Punto, Sigue(h, q), UNCHANGED <<duenio, numero>>,
         Bien(duenio, numero, q, loc[h])
  PROVE  Hace(h)
BY DEF Hilos, Sigue, Ir, Hace

LEMMA MaxProyTipo == MaxProy \in Nat /\ Len(Previas) \in Nat
BY AdjudicacionAssumption DEF MaxProy

LEMMA VacioTipo == Vacio \in Locales
BY AdjudicacionAssumption DEF Vacio, Locales, MaxProy

LEMMA ContestaBien ==
  ASSUME Hilos, NEW h \in Hilo, NEW s \in Estado, Contesta(h, s), UNCHANGED <<duenio, numero>>
  PROVE  Hace(h)
<1> DEFINE r == [Vacio EXCEPT !.ordenes = loc[h].ordenes, !.despacho = loc[h].despacho]
<1>1. loc[h] \in Locales
  BY DEF Hilos
<1>2. r \in Locales /\ r.i = 1
  BY <1>1, VacioTipo DEF Locales, Vacio
<1>3. "libre" \in Punto \ (EnOrdenes \cup EnPersonas \cup EnLineas \cup EnProyectos)
  BY DEF Punto, EnOrdenes, EnPersonas, EnLineas, EnProyectos
<1>4. Bien(duenio, numero, "libre", r)
  BY <1>2, <1>3, Puntos DEF Bien
<1> QED BY <1>2, <1>3, <1>4 DEF Contesta, Ir, Hace, Hilos

LEMMA AnotaTipo ==
  ASSUME NEW r \in Locales, NEW o \in Orden, NEW e \in {"OK", "ERROR"}
  PROVE  /\ Anota(r, o, e) \in Locales
         /\ Anota(r, o, e).ordenes = r.ordenes /\ Anota(r, o, e).i = r.i
         /\ Anota(r, o, e).l = r.l /\ Anota(r, o, e).prov = r.prov
         /\ Anota(r, o, e).porVer = r.porVer /\ Anota(r, o, e).X_PROY = r.X_PROY
<1>1. r.ordes_back \cup {<<o, e>>} \in SUBSET (Orden \X {"OK", "ERROR"})
  BY DEF Locales
<1> DEFINE b == r.ordes_back \cup {<<o, e>>}
           s == IF e = "OK" THEN r.status ELSE 2
<1>2. Anota(r, o, e) = [r EXCEPT !.ordes_back = b, !.status = s]
  BY DEF Anota, Locales
<1>3. s \in {1, 2}
  BY DEF Locales
<1> HIDE DEF b, s
<1>4. [r EXCEPT !.ordes_back = b, !.status = s] \in Locales
  BY <1>1, <1>3 DEF Locales, b
<1> QED BY <1>2, <1>4 DEF Locales

LEMMA FallaOrdenBien ==
  ASSUME Hilos, NEW h \in Hilo, loc[h].i \in DOMAIN loc[h].ordenes, Orden_i(h) \in Orden,
         FallaOrden(h), UNCHANGED <<duenio, numero>>
  PROVE  Hace(h)
<1> DEFINE r == Anota(loc[h], Orden_i(h), "ERROR")
<1>1. r \in Locales /\ r.ordenes = loc[h].ordenes /\ r.i = loc[h].i
  BY AnotaTipo DEF Hilos
<1>2. "trans" \in Punto \ (EnPersonas \cup EnLineas \cup EnProyectos)
  BY DEF Punto, EnPersonas, EnLineas, EnProyectos
<1>3. Bien(duenio, numero, "trans", r)
  BY <1>1, <1>2, Puntos DEF Bien, Hilos
<1> QED BY <1>1, <1>2, <1>3 DEF FallaOrden, Ir, Hace, Hilos

LEMMA SiguienteLineaBien ==
  ASSUME Hilos, NEW h \in Hilo, pc[h] \in EnLineas, NEW r \in Locales,
         r.ordenes = loc[h].ordenes, r.i = loc[h].i, r.l = loc[h].l, r.prov = loc[h].prov,
         SiguienteLinea(h, r), UNCHANGED <<duenio, numero>>
  PROVE  Hace(h)
<1> DEFINE s == [r EXCEPT !.l = @ + 1, !.porVer = {}, !.X_PROY = 0, !.resp = 0]
           p == IF loc[h].l < Len(Items(h)) THEN "linea" ELSE "trans"
<1>1. /\ s \in Locales /\ s.ordenes = loc[h].ordenes /\ s.i = loc[h].i
      /\ s.l = loc[h].l + 1 /\ s.prov = loc[h].prov
  <2>1. /\ r.l + 1 \in Nat /\ {} \in SUBSET X_PROYs /\ 0 \in 0..MaxProy /\ 0 \in Nat
        /\ r.l = loc[h].l
    BY MaxProyTipo DEF Locales
  <2> QED BY <2>1 DEF Locales
<1>2. Bien(duenio, numero, pc[h], loc[h]) /\ pc[h] \in EnOrdenes
  BY Puntos DEF Hilos
<1>3. Items(h) \in Seq(Linea) /\ Items(h) = Lista(loc[h]) /\ Lista(s) = Lista(loc[h])
  BY <1>1, <1>2, Orden_iTipo DEF Lista
<1>4. {"linea", "trans"} \cap (EnPersonas \cup EnProyectos) = {} /\ "trans" \notin EnLineas
  BY DEF EnPersonas, EnProyectos, EnLineas
<1>5. loc[h].l \in Nat
  BY DEF Hilos, Locales
<1>6. p = "linea" => s.l \in DOMAIN Lista(s)
  BY <1>1, <1>3, <1>5
<1>7. Bien(duenio, numero, p, s)
  BY <1>1, <1>2, <1>3, <1>4, <1>6, Puntos DEF Bien
<1>8. p \in Punto
  BY DEF Punto
<1> QED BY <1>1, <1>7, <1>8 DEF SiguienteLinea, Ir, Hace, Hilos

LEMMA FallaLineaBien ==
  ASSUME Hilos, NEW h \in Hilo, pc[h] \in EnLineas, FallaLinea(h), UNCHANGED <<duenio, numero>>
  PROVE  Hace(h)
<1>1. loc[h] \in Locales /\ Orden_i(h) \in Orden
  BY Puntos, Orden_iTipo DEF Hilos
<1> QED BY <1>1, AnotaTipo, SiguienteLineaBien DEF FallaLinea

LEMMA SiguienteProyectoBien ==
  ASSUME Hilos, NEW h \in Hilo, pc[h] \in EnLineas, NEW r \in Locales,
         r.ordenes = loc[h].ordenes, r.i = loc[h].i, r.l = loc[h].l, r.prov = loc[h].prov,
         \A y \in r.porVer : De(duenio, Linea_l(h), y),
         SiguienteProyecto(h, r), UNCHANGED <<duenio, numero>>
  PROVE  Hace(h)
<1>1. CASE r.porVer = {} /\ SiguienteLinea(h, r)
  BY <1>1, SiguienteLineaBien
<1>2. ASSUME NEW y \in r.porVer, Ir(h, "proyecto"), UNCHANGED respuesta,
             loc' = [loc EXCEPT ![h] = [r EXCEPT !.X_PROY = y, !.porVer = Resto(@, y)]]
      PROVE  Hace(h)
  <2> DEFINE s == [r EXCEPT !.X_PROY = y, !.porVer = Resto(@, y)]
  <2>1. /\ s \in Locales /\ s.ordenes = loc[h].ordenes /\ s.i = loc[h].i
        /\ s.l = loc[h].l /\ s.prov = loc[h].prov /\ s.X_PROY = y
        /\ s.porVer \subseteq r.porVer
    <3>1. y \in X_PROYs /\ Resto(r.porVer, y) \in SUBSET r.porVer
      BY <1>2 DEF Locales, Resto
    <3>2. y \in 0..MaxProy /\ Resto(r.porVer, y) \in SUBSET X_PROYs
      BY <3>1, MaxProyTipo DEF Locales, X_PROYs
    <3> QED BY <3>1, <3>2 DEF Locales
  <2>2. Bien(duenio, numero, pc[h], loc[h]) /\ pc[h] \in EnOrdenes
    BY Puntos DEF Hilos
  <2>3. Items(h) = Lista(loc[h]) /\ Lista(s) = Lista(loc[h])
    BY <2>1, <2>2, Orden_iTipo DEF Lista
  <2>4. "proyecto" \in Punto \ EnPersonas
    BY DEF Punto, EnPersonas
  <2>5. \A z \in s.porVer \cup {y} : De(duenio, Lista(s)[s.l], z)
    BY <2>1, <2>3 DEF Linea_l
  <2>6. Bien(duenio, numero, "proyecto", s)
    BY <2>1, <2>2, <2>3, <2>4, <2>5, Puntos DEF Bien
  <2> QED BY <1>2, <2>1, <2>4, <2>6 DEF Ir, Hace, Hilos
<1> QED BY <1>1, <1>2 DEF SiguienteProyecto

LEMMA PoneProv ==
  ASSUME NEW r \in Locales, NEW v \in Seq(Int), NEW x \in Int
  PROVE  [r EXCEPT !.prov = v, !.X_CONT = x] \in Locales
BY DEF Locales

LEMMA SinProv ==
  ASSUME NEW r \in Locales
  PROVE  [r EXCEPT !.prov = <<>>, !.l = 1] \in Locales
<1>1. <<>> \in Seq(Int) /\ 1 \in Nat
  OBVIOUS
<1> QED BY <1>1 DEF Locales

LEMMA ProveedorBien ==
  ASSUME Hilos, NEW h \in Hilo, pc[h] \in EnPersonas, NEW id \in Int,
         ProvBien(numero, id, Rut_j(h)), Proveedor(h, id), UNCHANGED <<duenio, numero>>
  PROVE  Hace(h)
<1> DEFINE r == loc[h]
           s == [r EXCEPT !.prov = Append(@, id), !.X_CONT = 0]
           p == IF Len(r.prov) + 1 < Len(Items(h)) THEN "contratista" ELSE "linea"
<1>1. r \in Locales /\ Bien(duenio, numero, pc[h], r) /\ pc[h] \in EnOrdenes
  BY Puntos DEF Hilos
<1>2. r.prov \in Seq(Int)
  BY <1>1 DEF Locales
<1>3. /\ Append(r.prov, id) \in Seq(Int) /\ Len(Append(r.prov, id)) = Len(r.prov) + 1
      /\ DOMAIN Append(r.prov, id) = DOMAIN r.prov \cup {Len(r.prov) + 1}
      /\ Append(r.prov, id)[Len(r.prov) + 1] = id
      /\ Extiende(r.prov, Append(r.prov, id))
  BY <1>2, Anexo
<1>4. /\ s \in Locales /\ s.ordenes = r.ordenes /\ s.i = r.i /\ s.l = r.l
      /\ s.prov = Append(r.prov, id)
  <2>1. PICK v \in Seq(Int) : v = Append(r.prov, id)
    BY <1>3
  <2>2. [r EXCEPT !.prov = v, !.X_CONT = 0] \in Locales
    <3>1. r \in Locales /\ 0 \in Int
      BY <1>1
    <3> HIDE DEF r
    <3> QED BY <3>1, PoneProv
  <2>3. s = [r EXCEPT !.prov = v, !.X_CONT = 0]
    BY <2>1
  <2> QED BY <1>1, <2>2, <2>3 DEF Locales
<1>5. /\ Items(h) \in Seq(Linea) /\ Items(h) = Lista(r) /\ Lista(s) = Lista(r)
      /\ Rut_j(h) = RutDe[Lista(r)[Len(r.prov) + 1]]
  BY <1>1, <1>4, Orden_iTipo DEF Lista, Rut_j
<1>6. \A k \in DOMAIN s.prov : ProvBien(numero, s.prov[k], RutDe[Lista(s)[k]])
  BY <1>1, <1>3, <1>4, <1>5 DEF Bien, Extiende
<1>7. Len(r.prov) < Len(Lista(r)) /\ r.l = 1 /\ r.i >= 1 /\ r.i \in DOMAIN r.ordenes
  BY <1>1 DEF Bien
<1>8. p = "linea" => s.l \in DOMAIN Lista(s) /\ Len(s.prov) = Len(Lista(s))
  BY <1>2, <1>3, <1>4, <1>5, <1>7
<1>9. p = "contratista" => Len(s.prov) < Len(Lista(s)) /\ s.l = 1
  BY <1>2, <1>3, <1>4, <1>5, <1>7
<1>10. /\ "contratista" \in EnPersonas \ (EnLineas \cup EnProyectos \cup EnAlta)
       /\ "linea" \in EnLineas \ (EnPersonas \cup EnProyectos \cup EnAlta)
  BY DEF EnPersonas, EnLineas, EnProyectos, EnAlta
<1>11. Bien(duenio, numero, p, s)
  BY <1>4, <1>6, <1>7, <1>8, <1>9, <1>10, Puntos DEF Bien
<1>12. p \in Punto
  BY DEF Punto
<1> QED BY <1>4, <1>11, <1>12 DEF Proveedor, Ir, Hace, Hilos

-----------------------------------------------------------------------------
(* What most steps leave alone.                                              *)
Quietas == UNCHANGED <<filas, reg>>

LEMMA CuentaTipo ==
  ASSUME Tablas, NEW r, Cuenta(r)
  PROVE  sucesos' \in 0..MaxSucesos /\ sucesos' >= sucesos
BY AdjudicacionAssumption DEF Tablas, Cuenta, Suceso

LEMMA TablasIgual ==
  ASSUME Tablas, Quietas, sucesos' \in 0..MaxSucesos, sucesos' >= sucesos
  PROVE  Tablas'
<1>1. UNCHANGED <<proy, idmu, tora, adju, duenio, reg>>
  BY DEF Quietas, filas
<1>2. Len(duenio) \in Nat /\ Len(Previas) \in Nat /\ sucesos \in Nat /\ sucesos' \in Nat
  BY MaxProyTipo DEF Tablas
<1>3. Len(duenio') + (IF reg'.paso \in 1..4 THEN 1 ELSE 0) <= Len(Previas) + sucesos'
  BY <1>1, <1>2 DEF Tablas
<1> QED BY <1>1, <1>3 DEF Tablas

LEMMA PersonasIgual ==
  ASSUME Personas, UNCHANGED <<filas, personas>>
  PROVE  Personas'
BY DEF Personas, filas, personas

LEMMA HistoriaIgual ==
  ASSUME Historia, UNCHANGED <<otravez, historia, cotas>>
  PROVE  Historia'
BY DEF Historia, historia, cotas

(* A step of a thread that touches no table: it only has to leave the thread *)
(* well.                                                                     *)
LEMMA SoloHilo ==
  ASSUME IInv, NEW h \in Hilo, Hace(h), UNCHANGED <<filas, personas, reg>>,
         sucesos' \in 0..MaxSucesos, sucesos' >= sucesos, Historia'
  PROVE  IInv'
<1>1. Quietas /\ UNCHANGED <<duenio, numero>>
  BY DEF Quietas, filas, personas
<1>2. Hilos'
  BY <1>1, Igual, Turno DEF IInv
<1> QED BY <1>1, <1>2, TablasIgual, PersonasIgual DEF IInv

LEMMA SoloUno ==
  ASSUME IInv, NEW h \in Hilo, Hace(h), NEW r, Cuenta(r),
         UNCHANGED <<filas, personas, otravez, reg, historia, cotas>>
  PROVE  IInv'
<1>1. Historia' /\ UNCHANGED <<filas, personas, reg>>
  BY HistoriaIgual DEF IInv
<1> QED BY <1>1, SoloHilo, CuentaTipo DEF IInv
-----------------------------------------------------------------------------
(* The calls and the loop over the orders.                                   *)
LEMMA DespachaBien ==
  ASSUME IInv, NEW h \in Hilo, NEW os \in Seq(Elemento), Despacha(h, os),
         otravez' \in [Hilo -> BOOLEAN], llamadas' \in 0..MaxLlamadas
  PROVE  IInv'
<1> DEFINE r == [Vacio EXCEPT !.ordenes = os, !.despacho = despachos + 1]
<1>1. despachos + 1 \in Nat /\ despachos' = despachos + 1
  <2>1. despachos' = despachos + 1
    BY Zenon DEF Despacha
  <2> QED BY <2>1 DEF IInv, Historia
<1>2. r \in Locales /\ r.i = 1
  BY <1>1, VacioTipo DEF Locales, Vacio
<1>3. "orden" \in Punto \ (EnOrdenes \cup EnPersonas \cup EnLineas \cup EnProyectos)
  BY DEF Punto, EnOrdenes, EnPersonas, EnLineas, EnProyectos
<1>4. Bien(duenio, numero, "orden", r)
  BY <1>2, <1>3, Puntos DEF Bien
<1>5. UNCHANGED <<filas, personas, reg, solo, roto, sucesos>> /\ UNCHANGED <<duenio, numero>>
  BY DEF Despacha, filas, personas
<1>6. Hace(h)
  BY <1>2, <1>3, <1>4, <1>5 DEF Despacha, Ir, Hace, Hilos, IInv, Estado
<1>7. LineasEn(os) \subseteq Linea
  BY DEF LineasEn
<1>8. ajenas' \in [Hilo -> SUBSET Linea]
  BY <1>7 DEF Despacha, IInv, Historia
<1>9. Historia'
  BY <1>1, <1>5, <1>8 DEF IInv, Historia
<1>10. sucesos' \in 0..MaxSucesos /\ sucesos' >= sucesos
  BY <1>5 DEF IInv, Tablas
<1> QED BY <1>5, <1>6, <1>9, <1>10, SoloHilo

LEMMA processBien == ASSUME IInv, NEW h \in Hilo, process(h) PROVE IInv'
<1>1. PICK p \in Pedidos[h] : Despacha(h, p.ordenes) /\ otravez' = [otravez EXCEPT ![h] = p.wsp]
  BY DEF process
<1>2. p.wsp \in BOOLEAN /\ p.ordenes \in Seq(Elemento)
  BY AdjudicacionAssumption DEF Pedido
<1>3. otravez' \in [Hilo -> BOOLEAN]
  BY <1>1, <1>2 DEF IInv, Historia
<1>4. llamadas' \in 0..MaxLlamadas
  BY AdjudicacionAssumption DEF process, IInv, Historia
<1> QED BY <1>1, <1>2, <1>3, <1>4, DespachaBien

LEMMA processwspBien == ASSUME IInv, NEW h \in Hilo, processwsp(h) PROVE IInv'
<1>1. loc[h].ordenes \in Seq(Elemento)
  BY DEF IInv, Hilos, Locales
<1>2. otravez' \in [Hilo -> BOOLEAN] /\ llamadas' \in 0..MaxLlamadas
  BY DEF processwsp, IInv, Historia
<1> QED BY <1>1, <1>2, DespachaBien DEF processwsp

(* From p to q nothing more has to be known.                                 *)
Baja(p, q) ==
  /\ q \in EnOrdenes => p \in EnOrdenes
  /\ q \in EnPersonas => p \in EnPersonas
  /\ q \in EnLineas => p \in EnLineas
  /\ q \in EnProyectos => p \in EnProyectos
  /\ q \notin EnAlta

LEMMA BienBaja ==
  ASSUME NEW d, NEW n, NEW r, NEW p, NEW q, Bien(d, n, p, r), Baja(p, q)
  PROVE  Bien(d, n, q, r)
BY Puntos DEF Bien, Baja

LEMMA EmpiezaOrdenBien == ASSUME IInv, NEW h \in Hilo, EmpiezaOrden(h) PROVE IInv'
<1>1. UNCHANGED <<duenio, numero>> /\ Hilos /\ pc[h] = "orden"
  BY DEF EmpiezaOrden, filas, personas, IInv
<1>2. Bien(duenio, numero, "orden", loc[h]) /\ loc[h] \in Locales
  BY <1>1 DEF Hilos
<1>3. ASSUME Sigue(h, "responde") PROVE Hace(h)
  <2>1. Baja("orden", "responde") /\ "responde" \in Punto
    BY DEF Baja, EnOrdenes, EnPersonas, EnLineas, EnProyectos, EnAlta, Punto
  <2>2. Bien(duenio, numero, "responde", loc[h])
    BY <1>2, <2>1, BienBaja
  <2> QED BY <1>1, <1>3, <2>1, <2>2, SigueBien
<1>4. ASSUME loc[h].i <= Len(loc[h].ordenes), Sigue(h, "llave") \/ FallaOrden(h)
      PROVE  Hace(h)
  <2>1. loc[h].i \in DOMAIN loc[h].ordenes /\ loc[h].ordenes[loc[h].i] \in Elemento
    BY <1>2, <1>4 DEF Bien, Locales
  <2>2. Orden_i(h) \in Orden
    BY <2>1 DEF Orden_i, Elemento
  <2>3. "llave" \in Punto \ (EnPersonas \cup EnLineas \cup EnProyectos)
    BY DEF Punto, EnPersonas, EnLineas, EnProyectos
  <2>4. Bien(duenio, numero, "llave", loc[h])
    BY <1>2, <2>1, <2>3, Puntos DEF Bien
  <2> QED BY <1>1, <1>4, <2>1, <2>2, <2>3, <2>4, SigueBien, FallaOrdenBien
<1>5. ASSUME Contesta(h, "FAIL") PROVE Hace(h)
  BY <1>1, <1>5, ContestaBien DEF Estado
<1>6. Hace(h)
  BY <1>3, <1>4, <1>5 DEF EmpiezaOrden
<1>7. Cuenta("ok")
  BY DEF EmpiezaOrden, Cuenta
<1> QED BY <1>6, <1>7, SoloUno DEF EmpiezaOrden

LEMMA BuscaLlaveBien == ASSUME IInv, NEW h \in Hilo, BuscaLlave(h) PROVE IInv'
<1>1. PICK r \in Salidas(FallaFind) :
        /\ Cuenta(r)
        /\ \/ r = "ok" /\ Sigue(h, "mercado")
           \/ r = "vacio" /\ FallaOrden(h)
           \/ r = "io" /\ Escapa(h)
  BY DEF BuscaLlave
<1>2. UNCHANGED <<duenio, numero>> /\ Hilos /\ pc[h] = "llave"
  BY DEF BuscaLlave, filas, personas, IInv
<1>3. "llave" \in EnOrdenes /\ Baja("llave", "mercado") /\ "mercado" \in Punto
  BY DEF EnOrdenes, Punto, Baja, EnPersonas, EnLineas, EnProyectos, EnAlta
<1>4. Hace(h)
  BY <1>1, <1>2, <1>3, BienBaja, SigueBien, FallaOrdenBien, Orden_iTipo, ContestaBien
     DEF Escapa, Estado, Hilos
<1> QED BY <1>1, <1>4, SoloUno DEF BuscaLlave

LEMMA getMercadoBien == ASSUME IInv, NEW h \in Hilo, getMercado(h) PROVE IInv'
<1> DEFINE q == IF Items(h) = <<>> THEN "trans" ELSE "contratista"
           s == [loc[h] EXCEPT !.prov = <<>>, !.l = 1]
<1>1. PICK r \in Salidas(FallaMP) :
        /\ Cuenta(r)
        /\ \/ /\ r = "ok" /\ Ir(h, q)
              /\ loc' = [loc EXCEPT ![h].prov = <<>>, ![h].l = 1] /\ UNCHANGED respuesta
           \/ r = "json" /\ FallaOrden(h)
           \/ r = "fecha" /\ Contesta(h, "FAIL")
           \/ r = "io" /\ Escapa(h)
  BY DEF getMercado
<1>2. UNCHANGED <<duenio, numero>> /\ Hilos /\ pc[h] = "mercado" /\ pc[h] \in EnOrdenes
  BY DEF getMercado, filas, personas, IInv, EnOrdenes, Punto
<1>3. ASSUME r = "ok" PROVE Hace(h)
  <2>1. loc[h] \in Locales /\ Bien(duenio, numero, pc[h], loc[h])
    BY <1>2 DEF Hilos
  <2>2. /\ s \in Locales /\ s.ordenes = loc[h].ordenes /\ s.i = loc[h].i
        /\ s.prov = <<>> /\ s.l = 1
    <3>1. s \in Locales
      BY <2>1, SinProv
    <3> QED BY <2>1, <3>1 DEF Locales
  <2>3. Lista(s) = Items(h) /\ Items(h) \in Seq(Linea) /\ loc[h].i \in DOMAIN loc[h].ordenes
    BY <1>2, <2>2, Orden_iTipo DEF Lista
  <2>4. q = "contratista" => Len(s.prov) < Len(Lista(s))
    BY <2>2, <2>3
  <2>5. q \in Punto \ (EnLineas \cup EnProyectos \cup EnAlta) /\ "trans" \notin EnPersonas
    BY DEF Punto, EnLineas, EnProyectos, EnAlta, EnPersonas
  <2>6. Bien(duenio, numero, q, s)
    BY <2>1, <2>2, <2>3, <2>4, <2>5, Puntos DEF Bien
  <2>7. loc' = [loc EXCEPT ![h] = s] /\ Ir(h, q) /\ UNCHANGED respuesta
    BY <1>1, <1>2, <1>3 DEF Hilos
  <2> QED BY <1>2, <2>2, <2>5, <2>6, <2>7 DEF Ir, Hace, Hilos
<1>4. ASSUME r # "ok" PROVE Hace(h)
  BY <1>1, <1>2, <1>4, FallaOrdenBien, Orden_iTipo, ContestaBien DEF Escapa, Estado
<1>5. Hace(h)
  BY <1>3, <1>4
<1> QED BY <1>1, <1>5, SoloUno DEF getMercado
-----------------------------------------------------------------------------
(* The contractors.                                                          *)
LEMMA Rut_jTipo ==
  ASSUME Hilos, NEW h \in Hilo, pc[h] \in EnPersonas
  PROVE  /\ Rut_j(h) \in Rut \cup {SinRut}
         /\ Rut_j(h) = RutDe[Lista(loc[h])[Len(loc[h].prov) + 1]]
<1>1. loc[h] \in Locales /\ Bien(duenio, numero, pc[h], loc[h]) /\ pc[h] \in EnOrdenes
  BY Puntos DEF Hilos
<1>2. Items(h) \in Seq(Linea) /\ Items(h) = Lista(loc[h])
  BY <1>1, Orden_iTipo
<1>3. Len(loc[h].prov) \in Nat /\ Len(loc[h].prov) < Len(Items(h))
  BY <1>1, <1>2 DEF Bien, Locales
<1>4. Items(h)[Len(loc[h].prov) + 1] \in Linea
  BY <1>2, <1>3
<1> QED BY <1>2, <1>4, AdjudicacionAssumption DEF Rut_j

LEMMA BuscaContratistaBien == ASSUME IInv, NEW h \in Hilo, BuscaContratista(h) PROVE IInv'
<1>1. UNCHANGED <<duenio, numero>> /\ Hilos /\ pc[h] = "contratista" /\ pc[h] \in EnPersonas
  BY DEF BuscaContratista, filas, personas, IInv, EnPersonas
<1>2. ProvBien(numero, Desierto, Rut_j(h)) /\ Desierto \in Int
  BY DEF ProvBien, Desierto
<1>3. ProvBien(numero, 0, Rut_j(h)) /\ 0 \in Int
  BY DEF ProvBien
<1>4. ASSUME NEW id \in Conocidos(Rut_j(h)) PROVE ProvBien(numero, id, Rut_j(h)) /\ id \in Int
  BY DEF Conocidos, IInv, Personas
<1>5. ASSUME Sigue(h, "numero"), Rut_j(h) # SinRut PROVE Hace(h)
  <2>1. "numero" \in Punto \ EnLineas /\ "numero" \in EnPersonas /\ "numero" # "alta"
    BY DEF EnPersonas, EnLineas, EnProyectos, Punto
  <2>2. RutDe[Lista(loc[h])[Len(loc[h].prov) + 1]] \in Rut
    BY <1>1, <1>5, Rut_jTipo
  <2>3. Bien(duenio, numero, "numero", loc[h])
    BY <1>1, <2>1, <2>2, Puntos DEF Bien, Hilos
  <2> QED BY <1>1, <1>5, <2>1, <2>3, SigueBien
<1>6. CASE Rut_j(h) = SinRut /\ Proveedor(h, Desierto) /\ UNCHANGED sucesos
  <2>1. Hace(h) /\ Cuenta("ok")
    BY <1>1, <1>2, <1>6, ProveedorBien DEF Cuenta
  <2> QED BY <2>1, SoloUno DEF BuscaContratista
<1>7. CASE Rut_j(h) # SinRut
  <2>1. PICK r \in Salidas(FallaFind) :
          LET ids == IF r = "ok" THEN Conocidos(Rut_j(h)) ELSE {} IN
          /\ Cuenta(r)
          /\ \/ r = "io" /\ Proveedor(h, 0)
             \/ r # "io" /\ ids = {} /\ Sigue(h, "numero")
             \/ \E id \in ids : Proveedor(h, id)
    BY <1>7 DEF BuscaContratista
  <2>2. CASE \E id \in Conocidos(Rut_j(h)) : Proveedor(h, id)
    <3>1. Hace(h)
      BY <1>1, <1>4, <2>2, ProveedorBien
    <3> QED BY <2>1, <3>1, SoloUno DEF BuscaContratista
  <2>3. CASE Proveedor(h, 0) \/ Sigue(h, "numero")
    <3>1. Hace(h)
      BY <1>1, <1>3, <1>5, <1>7, <2>3, ProveedorBien
    <3> QED BY <2>1, <3>1, SoloUno DEF BuscaContratista
  <2> QED BY <2>1, <2>2, <2>3
<1> QED BY <1>6, <1>7 DEF BuscaContratista

LEMMA NumeroContratistaBien == ASSUME IInv, NEW h \in Hilo, NumeroContratista(h) PROVE IInv'
<1>1. PICK r \in Salidas({"seq", "io"}) :
       /\ Cuenta(r)
       /\ numero' = IF r = "ok" THEN Append(numero, Rut_j(h)) ELSE numero
       /\ \/ r = "io" /\ Proveedor(h, 0)
          \/ /\ r # "io" /\ Ir(h, "alta") /\ UNCHANGED respuesta
             /\ loc' = [loc EXCEPT ![h].X_CONT = IF r = "ok" THEN Len(numero) + 1 ELSE -1]
  BY DEF NumeroContratista
<1>2. /\ UNCHANGED <<filas, contratistas, otravez, reg, historia, cotas>> /\ pc[h] = "numero"
      /\ UNCHANGED duenio /\ UNCHANGED adju
  BY DEF NumeroContratista, filas
<1>3. /\ Hilos /\ pc[h] \in EnPersonas /\ numero \in Seq(Rut) /\ loc[h] \in Locales
      /\ Bien(duenio, numero, pc[h], loc[h])
  BY <1>2 DEF IInv, Hilos, Personas, EnPersonas
<1>4. Rut_j(h) \in Rut /\ Rut_j(h) = RutDe[Lista(loc[h])[Len(loc[h].prov) + 1]]
  BY <1>2, <1>3, Rut_jTipo DEF Bien, EnAlta
<1>5. sucesos' \in 0..MaxSucesos /\ sucesos' >= sucesos
  BY <1>1, CuentaTipo DEF IInv
<1>6. Extiende(numero, numero') /\ numero' \in Seq(Rut) /\ Extiende(duenio, duenio')
  BY <1>1, <1>2, <1>3, <1>4, Anexo, Igual
<1>7. ASSUME r = "io" PROVE Hace(h)
  <2>1. ProvBien(numero, 0, Rut_j(h)) /\ 0 \in Int /\ UNCHANGED <<duenio, numero>>
    BY <1>1, <1>2, <1>7 DEF ProvBien
  <2> QED BY <1>1, <1>3, <1>7, <2>1, ProveedorBien
<1>8. ASSUME r # "io" PROVE Hace(h)
  <2>1. PICK x \in Int : x = (IF r = "ok" THEN Len(numero) + 1 ELSE -1)
    BY <1>3
  <2>2. PICK s : s = [loc[h] EXCEPT !.X_CONT = x]
    OBVIOUS
  <2>3. /\ s \in Locales /\ s.ordenes = loc[h].ordenes /\ s.i = loc[h].i /\ s.l = loc[h].l
        /\ s.prov = loc[h].prov /\ s.X_CONT = x
    BY <1>3, <2>2 DEF Locales
  <2>4. loc' = [loc EXCEPT ![h] = s] /\ Ir(h, "alta") /\ UNCHANGED respuesta
    BY <1>1, <1>3, <1>8, <2>1, <2>2 DEF Hilos
  <2>5. ProvBien(numero', x, Rut_j(h))
    BY <1>1, <1>3, <1>4, <2>1, Anexo DEF ProvBien
  <2>6. "alta" \in Punto \ EnLineas /\ "alta" \in EnPersonas \cap EnAlta
    BY DEF Punto, EnLineas, EnProyectos, EnPersonas, EnAlta
  <2>7. Bien(duenio', numero', pc[h], loc[h])
    BY <1>3, <1>6, BienCrece
  <2>8. Lista(s) = Lista(loc[h])
    BY <2>3 DEF Lista
  <2>9. Bien(duenio', numero', "alta", s)
    BY <1>3, <1>4, <2>3, <2>5, <2>6, <2>7, <2>8, Puntos DEF Bien
  <2> QED BY <1>3, <2>3, <2>4, <2>6, <2>9 DEF Ir, Hace, Hilos
<1>9. Hilos'
  BY <1>3, <1>6, <1>7, <1>8, Turno
<1>10. Tablas'
  BY <1>2, <1>5, TablasIgual DEF Quietas, IInv
<1>11. Personas'
  BY <1>2, <1>6, DeCrece DEF IInv, Personas
<1>12. Historia'
  BY <1>2, HistoriaIgual DEF IInv
<1> QED BY <1>9, <1>10, <1>11, <1>12 DEF IInv

LEMMA AltaContratistaBien == ASSUME IInv, NEW h \in Hilo, AltaContratista(h) PROVE IInv'
<1> DEFINE id(r) == CASE r = "io" -> 0 [] r = "npe" -> Desierto [] OTHER -> loc[h].X_CONT
<1>1. PICK r \in Salidas(FallaInsert) :
       /\ Cuenta(r)
       /\ contratistas' = IF r = "ok" THEN contratistas \cup {<<loc[h].X_CONT, Rut_j(h)>>}
                          ELSE contratistas
       /\ Proveedor(h, id(r))
  BY DEF AltaContratista
<1>2. /\ UNCHANGED <<filas, numero, otravez, reg, historia, cotas>> /\ pc[h] = "alta"
      /\ UNCHANGED <<duenio, numero>> /\ UNCHANGED adju
  BY DEF AltaContratista, filas
<1>3. /\ Hilos /\ pc[h] \in EnPersonas /\ loc[h] \in Locales /\ pc[h] \in EnAlta
      /\ Bien(duenio, numero, pc[h], loc[h])
  BY <1>2 DEF IInv, Hilos, EnPersonas, EnAlta
<1>4. Rut_j(h) \in Rut /\ ProvBien(numero, loc[h].X_CONT, Rut_j(h)) /\ loc[h].X_CONT \in Int
  BY <1>2, <1>3, Rut_jTipo DEF Bien, Locales
<1>5. ProvBien(numero, id(r), Rut_j(h)) /\ id(r) \in Int
  BY <1>4 DEF ProvBien, Desierto
<1>6. Hace(h)
  BY <1>1, <1>2, <1>3, <1>5, ProveedorBien
<1>7. Hilos'
  BY <1>2, <1>3, <1>6, Igual, Turno
<1>8. Tablas'
  BY <1>1, <1>2, CuentaTipo, TablasIgual DEF Quietas, IInv
<1>9. Personas'
  BY <1>1, <1>2, <1>4 DEF IInv, Personas
<1>10. Historia'
  BY <1>2, HistoriaIgual DEF IInv
<1> QED BY <1>7, <1>8, <1>9, <1>10 DEF IInv

-----------------------------------------------------------------------------
(* The lines and their projects.                                             *)
LEMMA BuscaLineaBien == ASSUME IInv, NEW h \in Hilo, BuscaLinea(h) PROVE IInv'
<1>1. PICK r \in Salidas(FallaFind) :
       LET ys == IF r = "ok" THEN ProyectosDe(h) ELSE {} IN
       /\ Cuenta(r)
       /\ \/ r = "io" /\ Escapa(h)
          \/ r # "io" /\ ys = {} /\ FallaLinea(h)
          \/ ys # {} /\ SiguienteProyecto(h, [loc[h] EXCEPT !.porVer = ys])
  BY DEF BuscaLinea
<1>2. UNCHANGED <<duenio, numero>> /\ Hilos /\ pc[h] \in EnLineas /\ loc[h] \in Locales
  BY DEF BuscaLinea, filas, personas, IInv, EnLineas, Hilos
<1>3. ASSUME SiguienteProyecto(h, [loc[h] EXCEPT !.porVer = ProyectosDe(h)]) PROVE Hace(h)
  <2>1. /\ ProyectosDe(h) \in SUBSET X_PROYs
        /\ \A y \in ProyectosDe(h) : De(duenio, Linea_l(h), y)
    BY DEF ProyectosDe, IInv, Tablas
  <2>2. PICK s : s = [loc[h] EXCEPT !.porVer = ProyectosDe(h)]
    OBVIOUS
  <2>3. /\ s \in Locales /\ s.ordenes = loc[h].ordenes /\ s.i = loc[h].i /\ s.l = loc[h].l
        /\ s.prov = loc[h].prov /\ s.porVer = ProyectosDe(h)
    BY <1>2, <2>1, <2>2 DEF Locales
  <2>4. SiguienteProyecto(h, s)
    BY <1>3, <2>2
  <2>5. \A y \in s.porVer : De(duenio, Linea_l(h), y)
    BY <2>1, <2>3
  <2> QED BY <1>2, <2>3, <2>4, <2>5, SiguienteProyectoBien
<1>4. Hace(h)
  BY <1>1, <1>2, <1>3, FallaLineaBien, ContestaBien DEF Escapa, Estado
<1> QED BY <1>1, <1>4, SoloUno DEF BuscaLinea

(* A thread at a project: it is one of its line.                             *)
LEMMA EnProyecto ==
  ASSUME IInv, NEW h \in Hilo, pc[h] \in EnProyectos
  PROVE  /\ Hilos /\ pc[h] \in EnLineas /\ loc[h] \in Locales
         /\ Bien(duenio, numero, pc[h], loc[h])
         /\ loc[h].X_PROY \in X_PROYs /\ De(duenio, Linea_l(h), loc[h].X_PROY)
         /\ Linea_l(h) = Lista(loc[h])[loc[h].l] /\ loc[h].X_PROY \in DOMAIN duenio
         /\ Linea_l(h) \in Linea
<1>1. /\ Hilos /\ pc[h] \in EnLineas /\ loc[h] \in Locales /\ pc[h] \in EnOrdenes
      /\ Bien(duenio, numero, pc[h], loc[h])
  BY Puntos DEF IInv, Hilos
<1>2. Items(h) = Lista(loc[h])
  BY <1>1, Orden_iTipo
<1>3. De(duenio, Linea_l(h), loc[h].X_PROY)
  BY <1>1, <1>2 DEF Bien, Linea_l
<1>4. loc[h].X_PROY \in DOMAIN duenio /\ duenio \in Seq(Linea)
  BY <1>3 DEF De, IInv, Tablas
<1>5. Len(duenio) <= MaxProy
  BY MaxProyTipo, AdjudicacionAssumption DEF IInv, Tablas, MaxProy, Registros
<1>6. loc[h].X_PROY \in X_PROYs
  BY <1>4, <1>5, MaxProyTipo DEF X_PROYs
<1>7. Linea_l(h) \in Linea
  BY <1>3, <1>4 DEF De
<1> QED BY <1>1, <1>2, <1>3, <1>4, <1>6, <1>7 DEF Linea_l

LEMMA SigueProyecto ==
  ASSUME IInv, NEW h \in Hilo, pc[h] \in EnProyectos, NEW q \in EnProyectos, Sigue(h, q),
         UNCHANGED <<duenio, numero>>
  PROVE  Hace(h)
<1>1. q \in Punto /\ q \in EnOrdenes /\ q \in EnLineas /\ q \notin EnPersonas
  BY Puntos
<1>2. Baja(pc[h], q)
  BY <1>1, Puntos DEF Baja
<1>3. Bien(duenio, numero, q, loc[h])
  BY <1>2, EnProyecto, BienBaja
<1> QED BY <1>1, <1>3, SigueBien DEF IInv

LEMMA LeeProyectoBien == ASSUME IInv, NEW h \in Hilo, LeeProyecto(h) PROVE IInv'
<1>1. PICK r \in Salidas(FallaFind) :
       /\ Cuenta(r)
       /\ \/ r = "io" /\ Escapa(h)
          \/ r = "ok" /\ loc[h].X_PROY \in proy /\ Sigue(h, "respTora")
          \/ r # "io" /\ (r = "vacio" \/ loc[h].X_PROY \notin proy) /\ FallaLinea(h)
  BY DEF LeeProyecto
<1>2. UNCHANGED <<duenio, numero>> /\ pc[h] \in EnProyectos /\ "respTora" \in EnProyectos
  BY DEF LeeProyecto, filas, personas, EnProyectos
<1>3. Hace(h)
  BY <1>1, <1>2, EnProyecto, SigueProyecto, FallaLineaBien, ContestaBien DEF Escapa, Estado
<1> QED BY <1>1, <1>3, SoloUno DEF LeeProyecto

LEMMA PorOtrosTipo ==
  ASSUME IInv, NEW gs, NEW l \in Linea, PorOtros(gs, l)
  PROVE  ajenas' \in [Hilo -> SUBSET Linea]
BY DEF PorOtros, IInv, Historia

LEMMA RespaldaToraBien == ASSUME IInv, NEW h \in Hilo, RespaldaTora(h) PROVE IInv'
<1> DEFINE y == loc[h].X_PROY
<1>1. PICK r \in Salidas(FallaFind) :
       /\ Cuenta(r)
       /\ \/ r = "io" /\ Escapa(h)
          \/ /\ r = "ok" /\ HayTora(y)
             /\ Ir(h, "respAdju") /\ loc' = [loc EXCEPT ![h].resp = tora[y]]
             /\ UNCHANGED respuesta
          \/ r # "io" /\ (r = "vacio" \/ ~HayTora(y)) /\ FallaLinea(h)
  BY DEF RespaldaTora
<1>2. /\ UNCHANGED <<filas, personas, otravez, reg, roto, cotas>> /\ pc[h] \in EnProyectos
      /\ UNCHANGED <<duenio, numero>>
  BY DEF RespaldaTora, filas, personas, EnProyectos
<1>3. ASSUME HayTora(y), Ir(h, "respAdju"), loc' = [loc EXCEPT ![h].resp = tora[y]],
             UNCHANGED respuesta
      PROVE  Hace(h)
  <2>1. tora[y] \in Nat
    BY <1>2, <1>3, EnProyecto DEF HayTora, IInv, Tablas
  <2>2. PICK v \in Nat : v = tora[y]
    BY <2>1
  <2>3. PICK s : s = [loc[h] EXCEPT !.resp = v]
    OBVIOUS
  <2>4. /\ s \in Locales /\ s.ordenes = loc[h].ordenes /\ s.i = loc[h].i /\ s.l = loc[h].l
        /\ s.prov = loc[h].prov /\ s.porVer = loc[h].porVer /\ s.X_PROY = loc[h].X_PROY
    BY <1>2, <2>3, EnProyecto DEF Locales
  <2>5. loc' = [loc EXCEPT ![h] = s]
    BY <1>2, <1>3, <2>2, <2>3, EnProyecto DEF Hilos
  <2>6. "respAdju" \in EnProyectos
    BY DEF EnProyectos
  <2>7. Bien(duenio, numero, "respAdju", s)
    <3>1. Lista(s) = Lista(loc[h])
      BY <2>4 DEF Lista
    <3> QED BY <1>2, <2>4, <2>6, <3>1, EnProyecto, Puntos DEF Bien
  <2> QED BY <1>2, <1>3, <2>4, <2>5, <2>6, <2>7, EnProyecto, Puntos DEF Ir, Hace, Hilos
<1>4. Hace(h)
  BY <1>1, <1>2, <1>3, EnProyecto, FallaLineaBien, ContestaBien DEF Escapa, Estado
<1>5. ajenas' \in [Hilo -> SUBSET Linea]
  <2>1. duenio[y] \in Linea
    BY <1>2, EnProyecto DEF De
  <2> QED BY <2>1, PorOtrosTipo DEF RespaldaTora
<1>6. solo' \in [Hilo -> BOOLEAN]
  <2>1. solo' = [g \in Hilo |-> IF g = h THEN ~\E k \in Hilo \ {h} : EnMano(k, y)
                                ELSE solo[g] /\ ~EnMano(g, y)]
    BY DEF RespaldaTora
  <2>2. \A g \in Hilo : (IF g = h THEN ~\E k \in Hilo \ {h} : EnMano(k, y)
                         ELSE solo[g] /\ ~EnMano(g, y)) \in BOOLEAN
    BY DEF IInv, Historia
  <2> QED BY <2>1, <2>2
<1>7. Historia'
  BY <1>2, <1>5, <1>6 DEF IInv, Historia, cotas
<1> QED BY <1>1, <1>2, <1>4, <1>7, CuentaTipo, SoloHilo DEF IInv

LEMMA RespaldaAdjuBien == ASSUME IInv, NEW h \in Hilo, RespaldaAdju(h) PROVE IInv'
<1>1. PICK r \in Salidas(FallaFind) :
       /\ Cuenta(r)
       /\ \/ r = "io" /\ Escapa(h)
          \/ r = "ok" /\ HayAdju(loc[h].X_PROY) /\ Sigue(h, "updTora")
          \/ r # "io" /\ (r = "vacio" \/ ~HayAdju(loc[h].X_PROY)) /\ FallaLinea(h)
  BY DEF RespaldaAdju
<1>2. UNCHANGED <<duenio, numero>> /\ pc[h] \in EnProyectos /\ "updTora" \in EnProyectos
  BY DEF RespaldaAdju, filas, personas, EnProyectos
<1>3. Hace(h)
  BY <1>1, <1>2, EnProyecto, SigueProyecto, FallaLineaBien, ContestaBien DEF Escapa, Estado
<1> QED BY <1>1, <1>3, SoloUno DEF RespaldaAdju

(* A step of a thread that writes one of the two rows of its project.        *)
LEMMA HiloEscribe ==
  ASSUME IInv, NEW h \in Hilo, Hace(h), NEW r, Cuenta(r),
         UNCHANGED <<proy, idmu, duenio, personas, otravez, reg, ajenas, cotas>>,
         tora' \in [X_PROYs -> Nat \cup {Sin}], adju' \in [X_PROYs -> Adju],
         \A y \in X_PROYs : adju'[y] = adju[y]
           \/ (y \in DOMAIN duenio /\ ProvBien(numero, adju'[y].cont, RutDe[duenio[y]])),
         solo' \in [Hilo -> BOOLEAN], roto' \subseteq X_PROYs
  PROVE  IInv'
<1>1. UNCHANGED <<contratistas, numero>> /\ sucesos' \in 0..MaxSucesos /\ sucesos' >= sucesos
  BY CuentaTipo DEF personas, IInv
<1>2. Hilos'
  BY <1>1, Igual, Turno DEF IInv
<1>3. Tablas'
  <2>1. Len(duenio) \in Nat /\ Len(Previas) \in Nat /\ sucesos \in Nat /\ sucesos' \in Nat
    BY <1>1, MaxProyTipo DEF IInv, Tablas
  <2>2. Len(duenio') + (IF reg'.paso \in 1..4 THEN 1 ELSE 0) <= Len(Previas) + sucesos'
    BY <1>1, <2>1 DEF IInv, Tablas
  <2> QED BY <1>1, <2>2 DEF IInv, Tablas
<1>4. Personas'
  BY <1>1 DEF IInv, Personas
<1>5. Historia'
  BY DEF IInv, Historia, cotas
<1> QED BY <1>2, <1>3, <1>4, <1>5 DEF IInv

LEMMA EscribeToraTipo ==
  ASSUME IInv, NEW y \in X_PROYs, NEW v \in Nat, EscribeTora(y, v)
  PROVE  tora' \in [X_PROYs -> Nat \cup {Sin}] /\ \A z \in X_PROYs \ {y} : tora'[z] = tora[z]
BY DEF EscribeTora, IInv, Tablas

LEMMA ActualizaToraBien == ASSUME IInv, NEW h \in Hilo, ActualizaTora(h) PROVE IInv'
<1> DEFINE y == loc[h].X_PROY
<1>1. PICK r \in Salidas(FallaUpdate) :
       /\ Cuenta(r)
       /\ \/ /\ r = "ok" /\ EscribeTora(y, loc[h].despacho) /\ Sigue(h, "updAdju")
             /\ roto' = IF solo[h] THEN roto ELSE roto \cup {y}
          \/ r = "false" /\ FallaLinea(h) /\ UNCHANGED <<tora, roto>>
          \/ r = "io" /\ Escapa(h) /\ UNCHANGED <<tora, roto>>
  BY DEF ActualizaTora
<1>2. /\ UNCHANGED <<proy, idmu, adju, duenio, personas, otravez, reg, solo, ajenas, cotas>>
      /\ UNCHANGED <<duenio, numero>> /\ pc[h] \in EnProyectos /\ "updAdju" \in EnProyectos
  BY DEF ActualizaTora, personas, EnProyectos
<1>3. y \in X_PROYs /\ loc[h].despacho \in Nat /\ Hilos /\ pc[h] \in EnLineas
  BY <1>2, EnProyecto DEF Locales
<1>4. Hace(h)
  BY <1>1, <1>2, <1>3, SigueProyecto, FallaLineaBien, ContestaBien DEF Escapa, Estado
<1>5. tora' \in [X_PROYs -> Nat \cup {Sin}]
  BY <1>1, <1>3, EscribeToraTipo DEF IInv, Tablas
<1>6. roto' \subseteq X_PROYs
  BY <1>1, <1>3 DEF IInv, Historia
<1>7. adju' \in [X_PROYs -> Adju] /\ solo' \in [Hilo -> BOOLEAN]
  BY <1>2 DEF IInv, Tablas, Historia
<1>8. \A z \in X_PROYs : adju'[z] = adju[z]
        \/ (z \in DOMAIN duenio /\ ProvBien(numero, adju'[z].cont, RutDe[duenio[z]]))
  BY <1>2
<1> QED BY <1>1, <1>2, <1>4, <1>5, <1>6, <1>7, <1>8, HiloEscribe

LEMMA ActualizaAdjuBien == ASSUME IInv, NEW h \in Hilo, ActualizaAdju(h) PROVE IInv'
<1> DEFINE y == loc[h].X_PROY
           f == [de |-> loc[h].despacho, cont |-> loc[h].prov[loc[h].l]]
<1>1. PICK r \in Salidas(FallaUpdate) :
       /\ Cuenta(r)
       /\ \/ /\ r = "ok" /\ Sigue(h, "oc")
             /\ adju' = IF adju[y].de = Sin THEN adju ELSE [adju EXCEPT ![y] = f]
             /\ roto' = IF solo[h] THEN roto \ {y} ELSE roto
          \/ r = "false" /\ FallaConVuelta(h) /\ UNCHANGED <<adju, roto>>
          \/ r = "io" /\ Escapa(h) /\ roto' = roto \cup {y} /\ UNCHANGED adju
  BY DEF ActualizaAdju
<1>2. /\ UNCHANGED <<proy, idmu, tora, duenio, personas, otravez, reg, ajenas, cotas>>
      /\ UNCHANGED <<duenio, numero>> /\ pc[h] \in EnProyectos
      /\ "oc" \in EnProyectos /\ "vuelta" \in EnProyectos
      /\ solo' = [solo EXCEPT ![h] = TRUE]
  BY DEF ActualizaAdju, personas, EnProyectos
<1>3. /\ y \in X_PROYs /\ loc[h] \in Locales /\ Hilos /\ pc[h] \in EnLineas
      /\ Bien(duenio, numero, pc[h], loc[h]) /\ De(duenio, Linea_l(h), y)
      /\ Linea_l(h) = Lista(loc[h])[loc[h].l] /\ pc[h] \in EnOrdenes
  BY <1>2, EnProyecto, Puntos
<1>4. Hace(h)
  BY <1>1, <1>2, <1>3, SigueProyecto, ContestaBien DEF FallaConVuelta, Escapa, Estado
<1>5. /\ f \in Adju /\ y \in DOMAIN duenio
      /\ ProvBien(numero, f.cont, RutDe[duenio[y]])
  <2>1. loc[h].l \in DOMAIN Lista(loc[h]) /\ Len(loc[h].prov) = Len(Lista(loc[h]))
    BY <1>3 DEF Bien
  <2>2. loc[h].prov \in Seq(Int) /\ Lista(loc[h]) \in Seq(Linea) /\ loc[h].despacho \in Nat
    BY <1>3, Orden_iTipo DEF Locales
  <2>3. loc[h].l \in DOMAIN loc[h].prov
    BY <2>1, <2>2
  <2>4. ProvBien(numero, loc[h].prov[loc[h].l], RutDe[Lista(loc[h])[loc[h].l]])
    BY <1>3, <2>3 DEF Bien
  <2>5. loc[h].prov[loc[h].l] \in Int
    BY <2>2, <2>3
  <2> QED BY <1>3, <2>2, <2>4, <2>5 DEF De, Adju
<1>6. /\ adju' \in [X_PROYs -> Adju]
      /\ \A z \in X_PROYs : adju'[z] = adju[z] \/ (z = y /\ adju'[z] = f)
  BY <1>1, <1>3, <1>5 DEF IInv, Tablas
<1>7. \A z \in X_PROYs : adju'[z] = adju[z]
        \/ (z \in DOMAIN duenio /\ ProvBien(numero, adju'[z].cont, RutDe[duenio[z]]))
  <2> SUFFICES ASSUME NEW z \in X_PROYs, adju'[z] # adju[z]
               PROVE  z \in DOMAIN duenio /\ ProvBien(numero, adju'[z].cont, RutDe[duenio[z]])
    OBVIOUS
  <2>1. z = y /\ adju'[z].cont = f.cont
    BY <1>6
  <2> QED BY <1>5, <2>1
<1>8. roto' \subseteq X_PROYs
  BY <1>1, <1>3 DEF IInv, Historia
<1>9. tora' \in [X_PROYs -> Nat \cup {Sin}] /\ solo' \in [Hilo -> BOOLEAN]
  BY <1>2 DEF IInv, Tablas, Historia
<1> QED BY <1>1, <1>2, <1>4, <1>6, <1>7, <1>8, <1>9, HiloEscribe

LEMMA UPDATEOCBien == ASSUME IInv, NEW h \in Hilo, UPDATEOC(h) PROVE IInv'
<1>1. PICK r \in Salidas(IF Orden_i(h) \in OC THEN {"io"} ELSE {}) :
        /\ Cuenta(r)
        /\ IF r = "ok" THEN SiguienteProyecto(h, Anota(loc[h], Orden_i(h), "OK"))
           ELSE FallaLinea(h)
  BY DEF UPDATEOC
<1>2. UNCHANGED <<duenio, numero>> /\ pc[h] \in EnProyectos
  BY DEF UPDATEOC, filas, personas, EnProyectos
<1>3. /\ loc[h] \in Locales /\ Hilos /\ pc[h] \in EnLineas
      /\ Bien(duenio, numero, pc[h], loc[h])
      /\ Linea_l(h) = Lista(loc[h])[loc[h].l] /\ Orden_i(h) \in Orden
  BY <1>2, EnProyecto, Puntos, Orden_iTipo
<1>4. \A y \in loc[h].porVer : De(duenio, Linea_l(h), y)
  BY <1>2, <1>3 DEF Bien
<1>5. PICK s : s = Anota(loc[h], Orden_i(h), "OK")
  OBVIOUS
<1>6. /\ s \in Locales /\ s.ordenes = loc[h].ordenes /\ s.i = loc[h].i /\ s.l = loc[h].l
      /\ s.prov = loc[h].prov /\ s.porVer = loc[h].porVer
  BY <1>3, <1>5, AnotaTipo
<1>7. ASSUME SiguienteProyecto(h, s) PROVE Hace(h)
  BY <1>2, <1>3, <1>4, <1>6, <1>7, SiguienteProyectoBien
<1>8. Hace(h)
  BY <1>1, <1>2, <1>3, <1>5, <1>7, FallaLineaBien
<1> QED BY <1>1, <1>8, SoloUno DEF UPDATEOC

LEMMA DeshaceBien == ASSUME IInv, NEW h \in Hilo, Deshace(h) PROVE IInv'
<1> DEFINE y == loc[h].X_PROY
<1>1. /\ UNCHANGED <<proy, idmu, adju, duenio, personas, otravez, reg, solo, ajenas, cotas>>
      /\ UNCHANGED <<duenio, numero>> /\ pc[h] \in EnProyectos
  BY DEF Deshace, personas, EnProyectos
<1>2. y \in X_PROYs /\ loc[h].resp \in Nat /\ Hilos /\ pc[h] \in EnLineas
  BY <1>1, EnProyecto DEF Locales
<1>3. FallaLinea(h) \/ Escapa(h)
  BY DEF Deshace
<1>4. Hace(h)
  BY <1>1, <1>2, <1>3, FallaLineaBien, ContestaBien DEF Escapa, Estado
<1>5. \E r : Cuenta(r)
  BY DEF Deshace, Cuenta
<1>6. tora' \in [X_PROYs -> Nat \cup {Sin}] /\ roto' \subseteq X_PROYs
  BY <1>2, EscribeToraTipo DEF Deshace, IInv, Tablas, Historia
<1>7. adju' \in [X_PROYs -> Adju] /\ solo' \in [Hilo -> BOOLEAN]
  BY <1>1 DEF IInv, Tablas, Historia
<1>8. \A z \in X_PROYs : adju'[z] = adju[z]
        \/ (z \in DOMAIN duenio /\ ProvBien(numero, adju'[z].cont, RutDe[duenio[z]]))
  BY <1>1
<1> QED BY <1>1, <1>4, <1>5, <1>6, <1>7, <1>8, HiloEscribe

LEMMA INTRANSBien == ASSUME IInv, NEW h \in Hilo, INTRANS(h) PROVE IInv'
<1>1. PICK r \in Salidas(FallaInsert) :
       /\ Cuenta(r)
       /\ \/ /\ r \in {"ok", "false"} /\ Ir(h, "orden") /\ UNCHANGED respuesta
             /\ loc' = [loc EXCEPT ![h].i = @ + 1, ![h].l = 1, ![h].prov = <<>>]
          \/ r \in {"npe", "io"} /\ Escapa(h)
  BY DEF INTRANS
<1>2. UNCHANGED <<duenio, numero>> /\ Hilos /\ loc[h] \in Locales
  BY DEF INTRANS, filas, personas, IInv, Hilos
<1>3. ASSUME Ir(h, "orden"), UNCHANGED respuesta,
             loc' = [loc EXCEPT ![h].i = @ + 1, ![h].l = 1, ![h].prov = <<>>]
      PROVE  Hace(h)
  <2>1. PICK k \in Nat : k = loc[h].i + 1 /\ k >= 1
    BY <1>2 DEF Locales
  <2>2. PICK s : s = [loc[h] EXCEPT !.i = k, !.l = 1, !.prov = <<>>]
    OBVIOUS
  <2>3. s \in Locales /\ s.i = k
    <3>1. <<>> \in Seq(Int) /\ 1 \in Nat
      OBVIOUS
    <3> QED BY <1>2, <2>2, <3>1 DEF Locales
  <2>4. loc' = [loc EXCEPT ![h] = s]
    BY <1>2, <1>3, <2>1, <2>2 DEF Hilos
  <2>5. "orden" \in Punto \ (EnOrdenes \cup EnPersonas \cup EnLineas \cup EnProyectos)
    BY DEF Punto, EnOrdenes, EnPersonas, EnLineas, EnProyectos
  <2>6. Bien(duenio, numero, "orden", s)
    BY <2>1, <2>3, <2>5, Puntos DEF Bien
  <2> QED BY <1>2, <1>3, <2>3, <2>4, <2>5, <2>6 DEF Ir, Hace, Hilos
<1>4. Hace(h)
  BY <1>1, <1>2, <1>3, ContestaBien DEF Escapa, Estado
<1> QED BY <1>1, <1>4, SoloUno DEF INTRANS

LEMMA responseBien == ASSUME IInv, NEW h \in Hilo, response(h) PROVE IInv'
<1>1. PICK s \in Estado : Contesta(h, s)
  BY DEF response, Estado
<1>2. UNCHANGED <<duenio, numero>> /\ Hilos /\ Cuenta("ok")
  BY DEF response, filas, personas, IInv, Cuenta
<1> QED BY <1>1, <1>2, ContestaBien, SoloUno DEF response
-----------------------------------------------------------------------------
(* The registration of a line, and the restart.                              *)
LEMMA HilosIgual ==
  ASSUME Hilos, UNCHANGED <<pc, loc, respuesta, numero>>, Extiende(duenio, duenio')
  PROVE  Hilos'
<1>1. Extiende(numero, numero')
  BY Igual
<1> QED BY <1>1, BienCrece DEF Hilos

LEMMA QuietaTipo == Quieta \in Registros /\ Quieta.paso = 0
BY AdjudicacionAssumption, MaxProyTipo DEF Quieta, Registros

(* The next project to delete, or the number of the new one.                 *)
LEMMA SiguienteViejaBien ==
  ASSUME IInv, NEW l \in Linea, NEW ys \in SUBSET X_PROYs, SiguienteVieja(l, ys),
         sucesos' \in 0..MaxSucesos,
         Len(duenio) + 1 <= Len(Previas) + sucesos'
  PROVE  /\ duenio' \in Seq(Linea) /\ Extiende(duenio, duenio')
         /\ reg' \in Registros /\ reg'.X_PROY \in X_PROYs
         /\ reg'.paso \in 5..8 => De(duenio', reg'.linea, reg'.X_PROY)
         /\ Len(duenio') + (IF reg'.paso \in 1..4 THEN 1 ELSE 0) <= Len(Previas) + sucesos'
<1>1. duenio \in Seq(Linea) /\ Len(duenio) \in Nat
  BY DEF IInv, Tablas
<1>2. CASE ys = {}
  <2>1. /\ duenio' = Append(duenio, l)
        /\ reg' = [linea |-> l, paso |-> 5, X_PROY |-> Len(duenio) + 1, viejos |-> {}]
    BY <1>2 DEF SiguienteVieja, Nueva
  <2>2. Len(duenio) + 1 \in X_PROYs /\ Len(duenio) + 1 \in 0..MaxProy
    BY <1>1, MaxProyTipo, AdjudicacionAssumption DEF X_PROYs, MaxProy
  <2> QED BY <1>1, <2>1, <2>2, Anexo DEF Registros
<1>3. CASE ys # {}
  <2>1. PICK y \in ys : reg' = [linea |-> l, paso |-> 1, X_PROY |-> y, viejos |-> ys \ {y}]
    BY <1>3 DEF SiguienteVieja, Vieja
  <2>2. UNCHANGED duenio
    BY <1>3 DEF SiguienteVieja, Vieja
  <2>3. y \in X_PROYs /\ y \in 0..MaxProy
    BY <2>1, MaxProyTipo DEF X_PROYs
  <2> QED BY <1>1, <2>1, <2>2, <2>3, Igual DEF Registros
<1> QED BY <1>2, <1>3

(* The threads and the contractors do not notice.                            *)
LEMMA RegistroAjeno ==
  ASSUME IInv, UNCHANGED <<personas, pc, loc, respuesta>>,
         Extiende(duenio, duenio'), \A z \in X_PROYs : adju'[z] = adju[z] \/ adju'[z].cont = 0
  PROVE  Hilos' /\ Personas'
<1>1. UNCHANGED <<contratistas, numero>>
  BY DEF personas
<1>2. Hilos'
  BY <1>1, HilosIgual DEF IInv
<1>3. Personas'
  BY <1>1 DEF IInv, Personas, Extiende
<1> QED BY <1>2, <1>3

LEMMA RegistradaTipo ==
  ASSUME NEW d \in Nat \cup {Sin}
  PROVE  Registrada(d) \in Adju /\ Registrada(d).cont = 0
BY DEF Registrada, Adju

LEMMA RegistraBien == ASSUME IInv, NEW l \in Registrables, Registra(l) PROVE IInv'
<1> DEFINE ys == {f[1] : f \in {g \in idmu : g[2] = l}}
<1>1. /\ reg.paso = 0 /\ Suceso /\ SiguienteVieja(l, ys) /\ PorOtros({}, l)
      /\ UNCHANGED <<proy, idmu, tora, adju, personas, pc, loc, respuesta, otravez, solo,
                     roto, cotas>>
  BY DEF Registra
<1>2. l \in Linea /\ ys \in SUBSET X_PROYs
  BY AdjudicacionAssumption DEF IInv, Tablas
<1>3. sucesos' = sucesos + 1 /\ sucesos' \in 0..MaxSucesos
  BY <1>1, AdjudicacionAssumption DEF Suceso, IInv, Tablas
<1>4. Len(duenio) + 1 <= Len(Previas) + sucesos'
  <2>1. Len(duenio) \in Nat /\ Len(Previas) \in Nat /\ sucesos \in Nat
    BY MaxProyTipo DEF IInv, Tablas
  <2> QED BY <1>1, <1>3, <2>1 DEF IInv, Tablas
<1>5. /\ duenio' \in Seq(Linea) /\ Extiende(duenio, duenio')
      /\ reg' \in Registros /\ reg'.X_PROY \in X_PROYs
      /\ reg'.paso \in 5..8 => De(duenio', reg'.linea, reg'.X_PROY)
      /\ Len(duenio') + (IF reg'.paso \in 1..4 THEN 1 ELSE 0) <= Len(Previas) + sucesos'
  <2> HIDE DEF ys
  <2> QED BY <1>1, <1>2, <1>3, <1>4, SiguienteViejaBien
<1>6. Hilos' /\ Personas'
  BY <1>1, <1>5, RegistroAjeno
<1>7. Tablas'
  <2>1. \A f \in idmu : De(duenio', f[2], f[1])
    BY <1>5, DeCrece DEF IInv, Tablas
  <2> QED BY <1>1, <1>3, <1>5, <2>1 DEF IInv, Tablas
<1>8. Historia'
  BY <1>1, <1>2, PorOtrosTipo DEF IInv, Historia, cotas
<1> QED BY <1>6, <1>7, <1>8 DEF IInv

LEMMA delFromGeoBien == ASSUME IInv, delFromGeo PROVE IInv'
<1> DEFINE y == reg.X_PROY
<1>1. /\ reg.paso \in 1..4
      /\ idmu' = IF reg.paso = 1 THEN {f \in idmu : f[1] # y} ELSE idmu
      /\ adju' = IF reg.paso = 2 THEN [adju EXCEPT ![y] = Registrada(Sin)] ELSE adju
      /\ tora' = IF reg.paso = 3 THEN [tora EXCEPT ![y] = Sin] ELSE tora
      /\ proy' = IF reg.paso = 4 THEN proy \ {y} ELSE proy
      /\ IF reg.paso = 4 THEN SiguienteVieja(reg.linea, reg.viejos)
         ELSE reg' = [reg EXCEPT !.paso = @ + 1] /\ UNCHANGED duenio
      /\ UNCHANGED <<personas, pc, loc, respuesta, otravez, historia, cotas, sucesos>>
  BY DEF delFromGeo
<1>2. /\ y \in X_PROYs /\ reg \in Registros /\ sucesos' \in 0..MaxSucesos /\ duenio \in Seq(Linea)
      /\ Len(duenio) + 1 <= Len(Previas) + sucesos'
      /\ reg.linea \in Linea /\ reg.viejos \in SUBSET X_PROYs
  BY <1>1 DEF IInv, Tablas, Registros
<1>3. /\ duenio' \in Seq(Linea) /\ Extiende(duenio, duenio')
      /\ reg' \in Registros /\ reg'.X_PROY \in X_PROYs
      /\ reg'.paso \in 5..8 => De(duenio', reg'.linea, reg'.X_PROY)
      /\ Len(duenio') + (IF reg'.paso \in 1..4 THEN 1 ELSE 0) <= Len(Previas) + sucesos'
  <2>1. CASE reg.paso = 4
    BY <1>1, <1>2, <2>1, SiguienteViejaBien
  <2>2. CASE reg.paso # 4
    <3>1. reg' = [reg EXCEPT !.paso = @ + 1] /\ UNCHANGED duenio /\ reg.paso \in 1..3
      BY <1>1, <2>2
    <3>2. /\ reg' \in Registros /\ reg'.paso = reg.paso + 1 /\ reg'.X_PROY = y
      BY <1>2, <3>1 DEF Registros
    <3> QED BY <1>2, <3>1, <3>2, Igual
  <2> QED BY <2>1, <2>2
<1>4. /\ adju' \in [X_PROYs -> Adju]
      /\ \A z \in X_PROYs : adju'[z] = adju[z] \/ adju'[z].cont = 0
  BY <1>1, <1>2, RegistradaTipo DEF IInv, Tablas
<1>5. tora' \in [X_PROYs -> Nat \cup {Sin}] /\ proy' \subseteq X_PROYs /\ idmu' \subseteq idmu
  BY <1>1, <1>2 DEF IInv, Tablas
<1>6. Hilos' /\ Personas'
  BY <1>1, <1>3, <1>4, RegistroAjeno
<1>7. Tablas'
  <2>1. \A f \in idmu' : De(duenio', f[2], f[1])
    BY <1>3, <1>5, DeCrece DEF IInv, Tablas
  <2> QED BY <1>2, <1>3, <1>4, <1>5, <2>1 DEF IInv, Tablas
<1>8. Historia'
  BY <1>1, HistoriaIgual DEF IInv
<1> QED BY <1>6, <1>7, <1>8 DEF IInv

LEMMA INFilasBien == ASSUME IInv, INFilas PROVE IInv'
<1> DEFINE y == reg.X_PROY
<1>1. /\ reg.paso \in 5..8
      /\ proy' = IF reg.paso = 5 THEN proy \cup {y} ELSE proy
      /\ idmu' = IF reg.paso = 6 THEN idmu \cup {<<y, reg.linea>>} ELSE idmu
      /\ tora' = IF reg.paso = 7 THEN [tora EXCEPT ![y] = 0] ELSE tora
      /\ adju' = IF reg.paso = 8 THEN [adju EXCEPT ![y] = Registrada(0)] ELSE adju
      /\ reg' = IF reg.paso = 8 THEN Quieta ELSE [reg EXCEPT !.paso = @ + 1]
      /\ UNCHANGED <<duenio, personas, pc, loc, respuesta, otravez, historia, cotas, sucesos>>
  BY DEF INFilas
<1>2. /\ y \in X_PROYs /\ reg \in Registros /\ De(duenio, reg.linea, y) /\ reg.linea \in Linea
      /\ Len(duenio) \in Nat /\ Len(Previas) \in Nat /\ sucesos \in Nat
      /\ Len(duenio) <= Len(Previas) + sucesos
  BY <1>1, MaxProyTipo DEF IInv, Tablas, Registros
<1>3. reg' \in Registros /\ (reg'.paso = 0 \/ (reg'.paso \in 6..8 /\ reg'.X_PROY = y
                                                /\ reg'.linea = reg.linea))
  BY <1>1, <1>2, QuietaTipo DEF Registros
<1>4. /\ adju' \in [X_PROYs -> Adju]
      /\ \A z \in X_PROYs : adju'[z] = adju[z] \/ adju'[z].cont = 0
  BY <1>1, <1>2, RegistradaTipo DEF IInv, Tablas
<1>5. /\ tora' \in [X_PROYs -> Nat \cup {Sin}] /\ proy' \subseteq X_PROYs
      /\ idmu' \subseteq idmu \cup {<<y, reg.linea>>} /\ idmu' \subseteq X_PROYs \X Linea
  BY <1>1, <1>2 DEF IInv, Tablas
<1>6. Hilos' /\ Personas'
  BY <1>1, <1>4, Igual, RegistroAjeno
<1>7. Tablas'
  <2>1. \A f \in idmu' : De(duenio', f[2], f[1])
    BY <1>1, <1>2, <1>5 DEF IInv, Tablas
  <2>2. Len(duenio') + (IF reg'.paso \in 1..4 THEN 1 ELSE 0) <= Len(Previas) + sucesos'
    BY <1>1, <1>2, <1>3
  <2> QED BY <1>1, <1>2, <1>3, <1>4, <1>5, <2>1, <2>2 DEF IInv, Tablas
<1>8. Historia'
  BY <1>1, HistoriaIgual DEF IInv
<1> QED BY <1>6, <1>7, <1>8 DEF IInv

LEMMA CaidaBien == ASSUME IInv, Caida PROVE IInv'
<1>1. /\ pc' = [h \in Hilo |-> "libre"] /\ loc' = [h \in Hilo |-> Vacio]
      /\ respuesta' = [h \in Hilo |-> ""] /\ otravez' = [h \in Hilo |-> FALSE]
      /\ reg' = Quieta /\ Suceso /\ UNCHANGED <<filas, personas, solo, ajenas, cotas>>
      /\ UNCHANGED <<proy, idmu, tora, adju, duenio, numero, contratistas>>
  BY DEF Caida, filas, personas
<1>2. Suceso /\ reg' = Quieta /\ UNCHANGED <<proy, idmu, tora, adju, duenio>>
  BY <1>1
<1>3. Hilos'
  <2>1. "libre" \in Punto \ (EnOrdenes \cup EnPersonas \cup EnLineas \cup EnProyectos)
    BY DEF Punto, EnOrdenes, EnPersonas, EnLineas, EnProyectos
  <2>2. Vacio.i = 1
    BY DEF Vacio
  <2>3. Bien(duenio', numero', "libre", Vacio)
    BY <2>1, <2>2, Puntos DEF Bien
  <2>4. "" \in Estado
    BY DEF Estado
  <2> QED BY <1>1, <2>1, <2>3, <2>4, VacioTipo DEF Hilos
<1>4. Tablas'
  <2>1. sucesos' = sucesos + 1 /\ sucesos' \in 0..MaxSucesos
    BY <1>2, AdjudicacionAssumption DEF Suceso, IInv, Tablas
  <2>2. Len(duenio) \in Nat /\ Len(Previas) \in Nat /\ sucesos \in Nat
    BY MaxProyTipo DEF IInv, Tablas
  <2>3. Len(duenio') + (IF reg'.paso \in 1..4 THEN 1 ELSE 0) <= Len(Previas) + sucesos'
    BY <1>2, <2>1, <2>2, QuietaTipo DEF IInv, Tablas
  <2>4. reg' \in Registros /\ reg'.paso \notin 1..8
    BY <1>2, QuietaTipo
  <2> QED BY <1>2, <2>1, <2>3, <2>4 DEF IInv, Tablas
<1>5. Personas'
  BY <1>1 DEF IInv, Personas
<1>6. Historia'
  <2>1. \A g \in Hilo : pc[g] \in {"updAdju", "vuelta"} => loc[g].X_PROY \in X_PROYs
    BY EnProyecto DEF EnProyectos
  <2>2. roto' = roto \cup {loc[h].X_PROY : h \in {g \in Hilo : pc[g] \in {"updAdju", "vuelta"}}}
    BY DEF Caida
  <2>3. roto' \subseteq X_PROYs
    BY <2>1, <2>2 DEF IInv, Historia
  <2> QED BY <1>1, <2>3 DEF IInv, Historia, cotas
<1> QED BY <1>3, <1>4, <1>5, <1>6 DEF IInv
-----------------------------------------------------------------------------
LEMMA Inicial == Init => IInv
<1> SUFFICES ASSUME Init PROVE IInv
  OBVIOUS
<1>1. Len(Previas) \in Nat /\ Len(Previas) <= MaxProy /\ MaxProy \in Nat
  BY AdjudicacionAssumption DEF MaxProy
<1>2. Hilos
  <2>1. "libre" \in Punto \ (EnOrdenes \cup EnPersonas \cup EnLineas \cup EnProyectos)
    BY DEF Punto, EnOrdenes, EnPersonas, EnLineas, EnProyectos
  <2>2. Vacio.i = 1
    BY DEF Vacio
  <2>3. Bien(duenio, numero, "libre", Vacio)
    BY <2>1, <2>2, Puntos DEF Bien
  <2> QED BY <2>1, <2>3, VacioTipo DEF Init, Hilos, Estado
<1>3. \A y \in X_PROYs : adju[y] \in Adju /\ adju[y].cont = 0
  BY RegistradaTipo DEF Init
<1>4. Tablas
  <2>1. 1..Len(Previas) \subseteq X_PROYs /\ DOMAIN Previas = 1..Len(Previas)
    BY <1>1, AdjudicacionAssumption DEF X_PROYs
  <2>2. idmu \subseteq X_PROYs \X Linea /\ \A f \in idmu : De(duenio, f[2], f[1])
    <3>1. idmu = {<<y, Previas[y]>> : y \in 1..Len(Previas)} /\ duenio = Previas
      BY DEF Init
    <3>2. \A y \in 1..Len(Previas) : Previas[y] \in Linea
      BY <2>1, AdjudicacionAssumption
    <3> QED BY <2>1, <3>1, <3>2 DEF De
  <2>3. /\ tora \in [X_PROYs -> Nat \cup {Sin}] /\ adju \in [X_PROYs -> Adju]
        /\ proy \subseteq X_PROYs /\ duenio \in Seq(Linea)
    BY <1>3, <2>1, AdjudicacionAssumption DEF Init
  <2>4. reg \in Registros /\ reg.paso = 0 /\ sucesos = 0 /\ duenio = Previas
    BY QuietaTipo DEF Init
  <2> QED BY <1>1, <2>2, <2>3, <2>4, AdjudicacionAssumption DEF Tablas
<1>5. Personas
  <2>1. contratistas = {} /\ numero = <<>>
    BY DEF Init
  <2> QED BY <1>3, <2>1 DEF Personas
<1>6. Historia
  <2>1. /\ otravez = [h \in Hilo |-> FALSE] /\ solo = [h \in Hilo |-> TRUE]
        /\ ajenas = [h \in Hilo |-> {}] /\ roto = {} /\ despachos = 0 /\ llamadas = 0
    BY DEF Init
  <2> QED BY <2>1, AdjudicacionAssumption DEF Historia
<1> QED BY <1>2, <1>4, <1>5, <1>6 DEF IInv

LEMMA PasoBien == ASSUME IInv, NEW h \in Hilo, Paso(h) PROVE IInv'
BY processwspBien, EmpiezaOrdenBien, BuscaLlaveBien, getMercadoBien, BuscaContratistaBien,
   NumeroContratistaBien, AltaContratistaBien, BuscaLineaBien, LeeProyectoBien,
   RespaldaToraBien, RespaldaAdjuBien, ActualizaToraBien, ActualizaAdjuBien, UPDATEOCBien,
   DeshaceBien, INTRANSBien, responseBien DEF Paso

LEMMA Siguiente == IInv /\ [Next]_vars => IInv'
<1> SUFFICES ASSUME IInv, [Next]_vars PROVE IInv'
  OBVIOUS
<1>1. ASSUME NEW h \in Hilo, process(h) \/ Paso(h) PROVE IInv'
  BY <1>1, processBien, PasoBien
<1>2. CASE Registro
  BY <1>2, RegistraBien, delFromGeoBien, INFilasBien DEF Registro
<1>3. CASE Caida
  BY <1>3, CaidaBien
<1>4. CASE UNCHANGED vars
  <2>1. UNCHANGED <<proy, idmu, tora, adju, duenio, contratistas, numero>>
    BY <1>4 DEF vars, filas, personas
  <2>2. UNCHANGED <<pc, loc, respuesta, otravez, reg, solo, ajenas, roto, despachos, llamadas,
                    sucesos>>
    BY <1>4 DEF vars, historia, cotas
  <2> QED BY <2>1, <2>2 DEF IInv, Hilos, Tablas, Personas, Historia
<1> QED BY <1>1, <1>2, <1>3, <1>4 DEF Next

LEMMA InvSiempre == Spec => []IInv
BY Inicial, Siguiente, PTL DEF Spec

(* Type correctness of the web service, its threads and the tables it meets  *)
(* (AdjudicacionWs.java:88-330): no index leaves its list, no contractor is   *)
(* missing for a line (its loop fills them first), no project is unknown.     *)
THEOREM AdjudicacionTipos == Spec => []TypeOK
BY InvSiempre, TipoDeInv, PTL

(* The contractor written for a project is the one Mercado Publico gave for   *)
(* its line (AdjudicacionWs.java:419-470), whoever else inserts contractors,  *)
(* registers the line or fails meanwhile.                                     *)
THEOREM AdjudicacionContratistas == Spec => []ContratistaFiel
<1>1. IInv => ContratistaFiel
  BY DEF IInv, Personas, ContratistaFiel, ProvBien, De
<1> QED BY <1>1, InvSiempre, PTL

(* A row is only written by a thread that is at the line of its project:     *)
(* what it holds from the query of the line is the line's for ever.          *)
EscribeLoSuyo ==
  \A y \in X_PROYs : reg' = reg /\ (tora'[y] # tora[y] \/ adju'[y] # adju[y]) =>
    \E h \in Hilo : EnMano(h, y) /\ duenio[y] = Linea_l(h)

LEMMA EscribeEnMano ==
  ASSUME IInv, NEW h \in Hilo, pc[h] \in {"updTora", "updAdju", "vuelta"},
         \A y \in X_PROYs : y # loc[h].X_PROY => tora'[y] = tora[y] /\ adju'[y] = adju[y]
  PROVE  EscribeLoSuyo
<1>1. duenio[loc[h].X_PROY] = Linea_l(h)
  BY EnProyecto DEF EnProyectos, De
<1>2. EnMano(h, loc[h].X_PROY)
  BY DEF EnMano
<1> QED BY <1>1, <1>2 DEF EscribeLoSuyo

LEMMA PasoSuyo == IInv /\ [Next]_vars => EscribeLoSuyo
<1> SUFFICES ASSUME IInv, [Next]_vars PROVE EscribeLoSuyo
  OBVIOUS
<1>1. ASSUME UNCHANGED <<tora, adju>> \/ reg' # reg PROVE EscribeLoSuyo
  BY <1>1 DEF EscribeLoSuyo
<1>2. ASSUME NEW h \in Hilo, ActualizaTora(h) PROVE EscribeLoSuyo
  <2>1. pc[h] = "updTora" /\ UNCHANGED adju
    BY <1>2 DEF ActualizaTora
  <2>2. \A y \in X_PROYs : y # loc[h].X_PROY => tora'[y] = tora[y]
    BY <1>2 DEF ActualizaTora, EscribeTora, IInv, Tablas
  <2> QED BY <2>1, <2>2, EscribeEnMano
<1>3. ASSUME NEW h \in Hilo, ActualizaAdju(h) PROVE EscribeLoSuyo
  <2>1. pc[h] = "updAdju" /\ UNCHANGED tora
    BY <1>3 DEF ActualizaAdju
  <2>2. \A y \in X_PROYs : y # loc[h].X_PROY => adju'[y] = adju[y]
    BY <1>3 DEF ActualizaAdju, IInv, Tablas
  <2> QED BY <2>1, <2>2, EscribeEnMano
<1>4. ASSUME NEW h \in Hilo, Deshace(h) PROVE EscribeLoSuyo
  <2>1. pc[h] = "vuelta" /\ UNCHANGED adju
    BY <1>4 DEF Deshace
  <2>2. \A y \in X_PROYs : y # loc[h].X_PROY => tora'[y] = tora[y]
    BY <1>4 DEF Deshace, EscribeTora, IInv, Tablas
  <2> QED BY <2>1, <2>2, EscribeEnMano
<1>5. ASSUME NEW h \in Hilo, process(h) \/ processwsp(h) PROVE EscribeLoSuyo
  BY <1>1, <1>5 DEF process, processwsp, Despacha, filas
<1>6. ASSUME NEW h \in Hilo,
             \/ EmpiezaOrden(h) \/ BuscaLlave(h) \/ getMercado(h)
             \/ BuscaContratista(h) \/ NumeroContratista(h) \/ AltaContratista(h)
             \/ BuscaLinea(h) \/ LeeProyecto(h) \/ RespaldaTora(h) \/ RespaldaAdju(h)
             \/ UPDATEOC(h) \/ INTRANS(h) \/ response(h)
      PROVE  EscribeLoSuyo
  <2>1. UNCHANGED filas
    BY <1>6 DEF EmpiezaOrden, BuscaLlave, getMercado, BuscaContratista, NumeroContratista,
                AltaContratista, BuscaLinea, LeeProyecto, RespaldaTora, RespaldaAdju,
                UPDATEOC, INTRANS, response
  <2> QED BY <1>1, <2>1 DEF filas
<1>7. CASE Registro
  <2>1. reg' # reg
    <3>1. ASSUME NEW l \in Registrables, Registra(l) PROVE reg'.paso # reg.paso
      BY <3>1 DEF Registra, SiguienteVieja, Vieja, Nueva
    <3>2. ASSUME delFromGeo PROVE reg'.paso # reg.paso
      BY <3>2 DEF delFromGeo, SiguienteVieja, Vieja, Nueva, IInv, Tablas, Registros
    <3>3. ASSUME INFilas PROVE reg'.paso # reg.paso
      BY <3>3, QuietaTipo DEF INFilas, IInv, Tablas, Registros
    <3> QED BY <1>7, <3>1, <3>2, <3>3 DEF Registro
  <2> QED BY <1>1, <2>1
<1>8. CASE Caida \/ UNCHANGED vars
  BY <1>1, <1>8 DEF Caida, vars, filas
<1> QED BY <1>2, <1>3, <1>4, <1>5, <1>6, <1>7, <1>8 DEF Next, Paso

(* The rows of a project are only written for its own line (AdjudicacionWs.java *)
(* :132-215), however the projects of the lines are replaced meanwhile.        *)
THEOREM AdjudicacionLinea == Spec => SoloSuLinea
<1>1. [EscribeLoSuyo]_vars =>
        [\A y \in X_PROYs : reg' = reg /\ (tora'[y] # tora[y] \/ adju'[y] # adju[y]) =>
           \E h \in Hilo : EnMano(h, y) /\ duenio[y] = Linea_l(h)]_vars
  BY DEF EscribeLoSuyo
<1>2. IInv /\ [Next]_vars => [EscribeLoSuyo]_vars
  BY PasoSuyo
<1> QED BY <1>1, <1>2, InvSiempre, PTL DEF Spec, SoloSuLinea
===============================================================================
