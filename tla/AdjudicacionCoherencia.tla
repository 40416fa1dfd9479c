------------------------ MODULE AdjudicacionCoherencia ------------------------
(* The two rows of a project tell of one dispatch, and an answer OK of rows   *)
(* that were written: for any threads, orders, failures, restarts and         *)
(* registrations, not only those TLC went through.                            *)
EXTENDS AdjudicacionProofs

EnManos      == {"respAdju", "updTora", "updAdju", "oc", "vuelta"}
Leidas       == {"respAdju", "updTora"}
Escribiendo  == {"updAdju", "vuelta"}
En(h, ps, y) == pc[h] \in ps /\ loc[h].X_PROY = y

(* Who believes to be alone with a project is.                               *)
InvSolo ==
  \A h \in Hilo : \A k \in Hilo \ {h} :
    pc[h] \in Leidas \cup {"updAdju"} /\ En(k, EnManos, loc[h].X_PROY) => ~solo[h]

(* The rows come in one order and go in the other, and of a project that is   *)
(* being inserted nobody has read a row that is not there yet.                *)
InvOrden ==
  /\ \A y \in X_PROYs : adju[y].de # Sin => tora[y] # Sin
  /\ \A y \in X_PROYs : y \notin DOMAIN duenio => tora[y] = Sin
  /\ reg.paso = 3 => adju[reg.X_PROY].de = Sin
  /\ reg.paso \in 5..7 => tora[reg.X_PROY] = Sin
  /\ reg.paso = 8 => tora[reg.X_PROY] = 0 /\ adju[reg.X_PROY].de = Sin
  /\ reg.paso \in 5..7 => \A h \in Hilo : ~En(h, EnManos, reg.X_PROY)
  /\ reg.paso = 8 => \A h \in Hilo : ~En(h, EnManos \ {"respAdju"}, reg.X_PROY)

(* What a thread alone has read or written is still there, or gone; and when  *)
(* nothing was cut short, the only thread between the two rows of a project    *)
(* can bring them together, forwards or backwards.                            *)
Par(h) ==
  LET y == loc[h].X_PROY IN
  /\ pc[h] \in Leidas /\ solo[h] => tora[y] \in {loc[h].resp, Sin}
  /\ pc[h] = "updAdju" /\ solo[h] => tora[y] \in {loc[h].despacho, Sin}
  /\ pc[h] \in Escribiendo /\ y \notin roto =>
       /\ tora[y] \in {loc[h].despacho, Sin} /\ adju[y].de \in {loc[h].resp, Sin}
       /\ \A k \in Hilo \ {h} : ~En(k, Escribiendo, y)

InvPar == \A h \in Hilo : Par(h)

InvCoherente ==
  \A y \in X_PROYs \ roto :
    tora[y] # Sin /\ adju[y].de # Sin /\ (\A h \in Hilo : ~En(h, Escribiendo, y))
      => tora[y] = adju[y].de

CInv == InvSolo /\ InvOrden /\ InvPar /\ InvCoherente

-----------------------------------------------------------------------------
(* A thread that had not written a row of the pair lets go of its project, or *)
(* was at none.                                                              *)
OtrosQuietos(h) == \A g \in Hilo \ {h} : pc'[g] = pc[g] /\ loc'[g] = loc[g]
Lejos(h) == pc'[h] \notin EnManos /\ OtrosQuietos(h)

LEMMA LejosBien ==
  ASSUME IInv, CInv, NEW h \in Hilo, Lejos(h), pc[h] \notin Escribiendo,
         UNCHANGED <<tora, adju, duenio, reg, roto>>,
         \A g \in Hilo \ {h} : solo'[g] => solo[g]
  PROVE  CInv'
<1>1. Leidas \subseteq EnManos /\ Escribiendo \subseteq EnManos /\ "updAdju" \in EnManos
  BY DEF Leidas, EnManos, Escribiendo
<1>2. InvSolo'
  BY <1>1 DEF CInv, InvSolo, Lejos, OtrosQuietos, En
<1>3. InvOrden'
  BY DEF CInv, InvOrden, Lejos, OtrosQuietos, En
<1>4. InvPar'
  BY <1>1 DEF CInv, InvPar, Par, Lejos, OtrosQuietos, En
<1>5. InvCoherente'
  BY DEF CInv, InvCoherente, Lejos, OtrosQuietos, En
<1> QED BY <1>2, <1>3, <1>4, <1>5 DEF CInv

LEMMA ContestaLejos ==
  ASSUME IInv, NEW h \in Hilo, NEW s, Contesta(h, s)
  PROVE  Lejos(h)
BY DEF Contesta, Ir, Lejos, OtrosQuietos, EnManos, IInv, Hilos

LEMMA SigueLejos ==
  ASSUME IInv, NEW h \in Hilo, NEW q, q \notin EnManos, Sigue(h, q)
  PROVE  Lejos(h)
BY DEF Sigue, Ir, Lejos, OtrosQuietos, IInv, Hilos

LEMMA FallaOrdenLejos == ASSUME IInv, NEW h \in Hilo, FallaOrden(h) PROVE Lejos(h)
BY DEF FallaOrden, Ir, Lejos, OtrosQuietos, EnManos, IInv, Hilos

LEMMA SiguienteLineaLejos ==
  ASSUME IInv, NEW h \in Hilo, NEW r, SiguienteLinea(h, r)
  PROVE  Lejos(h)
BY DEF SiguienteLinea, Ir, Lejos, OtrosQuietos, EnManos, IInv, Hilos

LEMMA FallaLineaLejos == ASSUME IInv, NEW h \in Hilo, FallaLinea(h) PROVE Lejos(h)
BY SiguienteLineaLejos DEF FallaLinea

LEMMA SiguienteProyectoLejos ==
  ASSUME IInv, NEW h \in Hilo, NEW r, SiguienteProyecto(h, r)
  PROVE  Lejos(h)
<1>1. CASE r.porVer = {} /\ SiguienteLinea(h, r)
  BY <1>1, SiguienteLineaLejos
<1>2. ASSUME NEW y \in r.porVer, Ir(h, "proyecto"),
             loc' = [loc EXCEPT ![h] = [r EXCEPT !.X_PROY = y, !.porVer = Resto(@, y)]]
      PROVE  Lejos(h)
  BY <1>2 DEF Ir, Lejos, OtrosQuietos, EnManos, IInv, Hilos
<1> QED BY <1>1, <1>2 DEF SiguienteProyecto

LEMMA ProveedorLejos ==
  ASSUME IInv, NEW h \in Hilo, NEW id, Proveedor(h, id)
  PROVE  Lejos(h)
BY DEF Proveedor, Ir, Lejos, OtrosQuietos, EnManos, IInv, Hilos

(* The steps that neither read nor write a row of a pair.                    *)
Aparte(h) ==
  \/ process(h) \/ processwsp(h) \/ EmpiezaOrden(h) \/ BuscaLlave(h) \/ getMercado(h)
  \/ BuscaContratista(h) \/ NumeroContratista(h) \/ AltaContratista(h)
  \/ BuscaLinea(h) \/ LeeProyecto(h) \/ UPDATEOC(h) \/ INTRANS(h) \/ response(h)

LEMMA AparteLejos == ASSUME IInv, NEW h \in Hilo, Aparte(h) PROVE Lejos(h)
<1>1. ASSUME process(h) \/ processwsp(h) PROVE Lejos(h)
  <2>1. PICK os : Despacha(h, os)
    BY <1>1 DEF process, processwsp
  <2>2. /\ Ir(h, "orden")
        /\ \E r : loc' = [loc EXCEPT ![h] = r]
    BY <2>1 DEF Despacha
  <2> QED BY <2>2 DEF Ir, Lejos, OtrosQuietos, EnManos, IInv, Hilos
<1>2. ASSUME EmpiezaOrden(h) PROVE Lejos(h)
  BY <1>2, SigueLejos, FallaOrdenLejos, ContestaLejos DEF EmpiezaOrden, EnManos
<1>3. ASSUME BuscaLlave(h) PROVE Lejos(h)
  BY <1>3, SigueLejos, FallaOrdenLejos, ContestaLejos DEF BuscaLlave, Escapa, EnManos
<1>4. ASSUME getMercado(h) PROVE Lejos(h)
  <2>1. ASSUME Ir(h, IF Items(h) = <<>> THEN "trans" ELSE "contratista"),
               loc' = [loc EXCEPT ![h].prov = <<>>, ![h].l = 1]
        PROVE  Lejos(h)
    BY <2>1 DEF Ir, Lejos, OtrosQuietos, EnManos, IInv, Hilos
  <2> QED BY <1>4, <2>1, FallaOrdenLejos, ContestaLejos DEF getMercado, Escapa
<1>5. ASSUME BuscaContratista(h) PROVE Lejos(h)
  <2>1. (\E id : Proveedor(h, id)) \/ Sigue(h, "numero")
    BY <1>5 DEF BuscaContratista
  <2> QED BY <2>1, ProveedorLejos, SigueLejos DEF EnManos
<1>6. ASSUME NumeroContratista(h) PROVE Lejos(h)
  <2>1. ASSUME NEW x, Ir(h, "alta"), loc' = [loc EXCEPT ![h].X_CONT = x] PROVE Lejos(h)
    BY <2>1 DEF Ir, Lejos, OtrosQuietos, EnManos, IInv, Hilos
  <2> QED BY <1>6, <2>1, ProveedorLejos DEF NumeroContratista
<1>7. ASSUME AltaContratista(h) PROVE Lejos(h)
  BY <1>7, ProveedorLejos DEF AltaContratista
<1>8. ASSUME BuscaLinea(h) PROVE Lejos(h)
  <2>1. (\E r : SiguienteProyecto(h, r)) \/ FallaLinea(h) \/ Escapa(h)
    BY <1>8 DEF BuscaLinea
  <2> QED BY <2>1, SiguienteProyectoLejos, FallaLineaLejos, ContestaLejos DEF Escapa
<1>9. ASSUME LeeProyecto(h) PROVE Lejos(h)
  <2>1. Sigue(h, "respTora") \/ FallaLinea(h) \/ Escapa(h)
    BY <1>9 DEF LeeProyecto
  <2> QED BY <2>1, SigueLejos, FallaLineaLejos, ContestaLejos DEF Escapa, EnManos
<1>10. ASSUME UPDATEOC(h) PROVE Lejos(h)
  <2>1. (\E r : SiguienteProyecto(h, r)) \/ FallaLinea(h)
    BY <1>10 DEF UPDATEOC
  <2> QED BY <2>1, SiguienteProyectoLejos, FallaLineaLejos
<1>11. ASSUME INTRANS(h) PROVE Lejos(h)
  <2>1. ASSUME Ir(h, "orden"), loc' = [loc EXCEPT ![h].i = @ + 1, ![h].l = 1, ![h].prov = <<>>]
        PROVE  Lejos(h)
    BY <2>1 DEF Ir, Lejos, OtrosQuietos, EnManos, IInv, Hilos
  <2> QED BY <1>11, <2>1, ContestaLejos DEF INTRANS, Escapa
<1>12. ASSUME response(h) PROVE Lejos(h)
  BY <1>12, ContestaLejos DEF response
<1> QED BY <1>1, <1>2, <1>3, <1>4, <1>5, <1>6, <1>7, <1>8, <1>9, <1>10, <1>11, <1>12 DEF Aparte

LEMMA ApartePc == ASSUME NEW h \in Hilo, Aparte(h) PROVE pc[h] \notin Escribiendo
BY DEF Aparte, process, processwsp, EmpiezaOrden, BuscaLlave, getMercado, BuscaContratista,
       NumeroContratista, AltaContratista, BuscaLinea, LeeProyecto, UPDATEOC, INTRANS, response,
       Escribiendo

LEMMA AparteTablas ==
  ASSUME NEW h \in Hilo, Aparte(h)
  PROVE  UNCHANGED <<tora, adju, duenio, reg, roto, solo>>
<1>1. ASSUME process(h) \/ processwsp(h) PROVE UNCHANGED <<filas, reg, roto, solo>>
  BY <1>1 DEF process, processwsp, Despacha
<1>2. ASSUME ~(process(h) \/ processwsp(h)) PROVE UNCHANGED <<filas, reg, historia>>
  BY <1>2 DEF Aparte, EmpiezaOrden, BuscaLlave, getMercado, BuscaContratista,
       NumeroContratista, AltaContratista, BuscaLinea, LeeProyecto, UPDATEOC, INTRANS, response
<1> QED BY <1>1, <1>2 DEF filas, historia

LEMMA AparteCoherente == ASSUME IInv, CInv, NEW h \in Hilo, Aparte(h) PROVE CInv'
BY AparteLejos, ApartePc, AparteTablas, LejosBien

-----------------------------------------------------------------------------
(* The steps of the pair.                                                    *)
LEMMA RespaldaToraCoherente == ASSUME IInv, CInv, NEW h \in Hilo, RespaldaTora(h) PROVE CInv'
<1> DEFINE y == loc[h].X_PROY
<1>1. /\ pc[h] = "respTora" /\ UNCHANGED <<filas, reg, roto>>
      /\ UNCHANGED <<tora, adju, duenio, reg, roto>>
      /\ solo' = [g \in Hilo |-> IF g = h THEN ~\E k \in Hilo \ {h} : EnMano(k, y)
                                 ELSE solo[g] /\ ~EnMano(g, y)]
  BY DEF RespaldaTora, filas
<1>2. \A g \in Hilo \ {h} : solo'[g] => solo[g] /\ ~En(g, EnManos, y)
  BY <1>1 DEF EnMano, En, EnManos
<1>3. solo'[h] => \A k \in Hilo \ {h} : ~En(k, EnManos, y)
  BY <1>1 DEF EnMano, En, EnManos
<1>4. ASSUME FallaLinea(h) \/ Escapa(h) PROVE CInv'
  <2>1. Lejos(h) /\ pc[h] \notin Escribiendo
    BY <1>1, <1>4, FallaLineaLejos, ContestaLejos DEF Escapa, Escribiendo
  <2> QED BY <1>1, <1>2, <2>1, LejosBien
<1>5. ASSUME HayTora(y), Ir(h, "respAdju"), loc' = [loc EXCEPT ![h].resp = tora[y]]
      PROVE  CInv'
  <2>1. /\ pc'[h] = "respAdju" /\ loc'[h].X_PROY = y /\ loc'[h].resp = tora[y]
        /\ OtrosQuietos(h) /\ tora[y] # Sin
    BY <1>5 DEF Ir, OtrosQuietos, IInv, Hilos, Locales, HayTora
  <2>2. /\ "respAdju" \in EnManos \ Escribiendo /\ "respAdju" \in Leidas /\ "respTora" \notin EnManos
        /\ Escribiendo \subseteq EnManos /\ Leidas \cup {"updAdju"} \subseteq EnManos
        /\ "updAdju" # "respAdju"
    BY DEF EnManos, Escribiendo, Leidas
  <2>3. InvSolo'
    <3> SUFFICES ASSUME NEW a \in Hilo, NEW k \in Hilo \ {a},
                        (pc[a] \in Leidas \cup {"updAdju"})', En(k, EnManos, loc[a].X_PROY)'
                 PROVE  ~solo'[a]
      BY DEF InvSolo
    <3>1. CASE a = h
      BY <1>3, <2>1, <3>1 DEF OtrosQuietos, En
    <3>2. CASE a # h /\ k = h
      BY <1>2, <2>1, <2>2, <3>2 DEF OtrosQuietos, En
    <3>3. CASE a # h /\ k # h
      BY <1>2, <2>1, <3>3 DEF OtrosQuietos, En, CInv, InvSolo
    <3> QED BY <3>1, <3>2, <3>3
  <2>4. InvOrden'
    <3>1. reg.paso \in 5..7 => reg.X_PROY # y
      BY <2>1 DEF CInv, InvOrden
    <3>2. reg.paso \in 5..7 => \A g \in Hilo : ~En(g, EnManos, reg.X_PROY)'
      BY <1>1, <2>1, <3>1 DEF CInv, InvOrden, OtrosQuietos, En
    <3>3. reg.paso = 8 => \A g \in Hilo : ~En(g, EnManos \ {"respAdju"}, reg.X_PROY)'
      BY <1>1, <2>1 DEF CInv, InvOrden, OtrosQuietos, En
    <3> QED BY <1>1, <3>2, <3>3 DEF CInv, InvOrden
  <2>5. InvPar'
    BY <1>1, <1>2, <2>1, <2>2 DEF CInv, InvPar, Par, OtrosQuietos, En
  <2>6. InvCoherente'
    BY <1>1, <2>1, <2>2 DEF CInv, InvCoherente, OtrosQuietos, En
  <2> QED BY <2>3, <2>4, <2>5, <2>6 DEF CInv
<1> QED BY <1>4, <1>5 DEF RespaldaTora

LEMMA RespaldaAdjuCoherente == ASSUME IInv, CInv, NEW h \in Hilo, RespaldaAdju(h) PROVE CInv'
<1> DEFINE y == loc[h].X_PROY
<1>1. /\ pc[h] = "respAdju" /\ UNCHANGED <<tora, adju, duenio, reg, roto, solo>>
  BY DEF RespaldaAdju, filas, historia
<1>2. ASSUME FallaLinea(h) \/ Escapa(h) PROVE CInv'
  <2>1. Lejos(h) /\ pc[h] \notin Escribiendo
    BY <1>1, <1>2, FallaLineaLejos, ContestaLejos DEF Escapa, Escribiendo
  <2> QED BY <1>1, <2>1, LejosBien
<1>3. ASSUME HayAdju(y), Sigue(h, "updTora") PROVE CInv'
  <2>1. /\ pc'[h] = "updTora" /\ UNCHANGED loc /\ OtrosQuietos(h) /\ adju[y].de # Sin
    BY <1>3 DEF Sigue, Ir, OtrosQuietos, IInv, Hilos, HayAdju
  <2>2. {"respAdju", "updTora"} \subseteq (EnManos \cap Leidas) \ Escribiendo
    BY DEF EnManos, Escribiendo, Leidas
  <2>3. InvSolo'
    BY <1>1, <2>1, <2>2 DEF CInv, InvSolo, OtrosQuietos, En
  <2>4. InvOrden'
    <3>1. reg.paso = 8 => reg.X_PROY # y
      BY <2>1 DEF CInv, InvOrden
    <3>2. reg.paso \in 5..7 => \A g \in Hilo : ~En(g, EnManos, reg.X_PROY)'
      BY <1>1, <2>1, <2>2 DEF CInv, InvOrden, OtrosQuietos, En
    <3>3. reg.paso = 8 => \A g \in Hilo : ~En(g, EnManos \ {"respAdju"}, reg.X_PROY)'
      BY <1>1, <2>1, <3>1 DEF CInv, InvOrden, OtrosQuietos, En
    <3> QED BY <1>1, <3>2, <3>3 DEF CInv, InvOrden
  <2>5. InvPar'
    BY <1>1, <2>1, <2>2 DEF CInv, InvPar, Par, OtrosQuietos, En
  <2>6. InvCoherente'
    BY <1>1, <2>1, <2>2 DEF CInv, InvCoherente, OtrosQuietos, En
  <2> QED BY <2>3, <2>4, <2>5, <2>6 DEF CInv
<1> QED BY <1>2, <1>3 DEF RespaldaAdju

LEMMA ActualizaToraCoherente == ASSUME IInv, CInv, NEW h \in Hilo, ActualizaTora(h) PROVE CInv'
<1> DEFINE y == loc[h].X_PROY
<1>1. /\ pc[h] = "updTora" /\ UNCHANGED <<adju, duenio, reg, solo>>
  BY DEF ActualizaTora
<1>2. ASSUME FallaLinea(h) \/ Escapa(h), UNCHANGED <<tora, roto>> PROVE CInv'
  <2>1. Lejos(h) /\ pc[h] \notin Escribiendo
    BY <1>1, <1>2, FallaLineaLejos, ContestaLejos DEF Escapa, Escribiendo
  <2> QED BY <1>1, <1>2, <2>1, LejosBien
<1>3. ASSUME EscribeTora(y, loc[h].despacho), Sigue(h, "updAdju"),
             roto' = IF solo[h] THEN roto ELSE roto \cup {y}
      PROVE  CInv'
  <2>1. /\ pc'[h] = "updAdju" /\ UNCHANGED loc /\ OtrosQuietos(h)
    BY <1>3 DEF Sigue, Ir, OtrosQuietos, IInv, Hilos
  <2>2. /\ "updTora" \in EnManos \ Escribiendo /\ "updTora" \in Leidas
        /\ "updAdju" \in Escribiendo \ Leidas /\ Escribiendo \subseteq EnManos
        /\ "updTora" \in EnManos \ {"respAdju"} /\ "updAdju" \in EnManos \ {"respAdju"}
        /\ Leidas \subseteq EnManos
    BY DEF EnManos, Escribiendo, Leidas
  <2>3. y \in X_PROYs /\ loc[h].despacho \in Nat
    BY <1>1, EnProyecto DEF EnProyectos, Locales
  <2>4. /\ tora[y] = Sin => tora' = tora
        /\ tora[y] # Sin => tora'[y] = loc[h].despacho /\ tora'[y] # Sin
        /\ \A z \in X_PROYs \ {y} : tora'[z] = tora[z]
    BY <1>3, <2>3 DEF EscribeTora, IInv, Tablas, Sin
  <2>5. En(h, EnManos, y) /\ En(h, EnManos \ {"respAdju"}, y)
    BY <1>1, <2>2 DEF En
  <2>6. \A k \in Hilo \ {h} : pc[k] \in Leidas \cup {"updAdju"} /\ loc[k].X_PROY = y => ~solo[k]
    BY <2>5 DEF CInv, InvSolo
  <2>7. solo[h] => \A k \in Hilo \ {h} : ~En(k, EnManos, y)
    BY <1>1, <2>2 DEF CInv, InvSolo
  <2>8. InvSolo'
    BY <1>1, <2>1, <2>2 DEF CInv, InvSolo, OtrosQuietos, En
  <2>9. InvOrden'
    <3>1. reg.paso \in 5..8 => reg.X_PROY # y
      BY <2>5 DEF CInv, InvOrden
    <3>2. reg.paso \in 5..8 => tora'[reg.X_PROY] = tora[reg.X_PROY]
      BY <2>4, <3>1 DEF IInv, Tablas
    <3>3. \A z \in X_PROYs : tora'[z] = Sin <=> tora[z] = Sin
      BY <2>4
    <3>4. reg.paso \in 5..7 => \A g \in Hilo : ~En(g, EnManos, reg.X_PROY)'
      BY <1>1, <2>1, <2>2, <3>1 DEF CInv, InvOrden, OtrosQuietos, En
    <3>5. reg.paso = 8 => \A g \in Hilo : ~En(g, EnManos \ {"respAdju"}, reg.X_PROY)'
      BY <1>1, <2>1, <2>2, <3>1 DEF CInv, InvOrden, OtrosQuietos, En
    <3>6. \A z \in X_PROYs : adju'[z].de # Sin => tora'[z] # Sin
      BY <1>1, <3>3 DEF CInv, InvOrden
    <3>7. \A z \in X_PROYs : z \notin DOMAIN duenio' => tora'[z] = Sin
      BY <1>1, <3>3 DEF CInv, InvOrden
    <3>8. reg'.paso \in 5..7 => tora'[reg'.X_PROY] = Sin
      BY <1>1, <3>2 DEF CInv, InvOrden
    <3>9. /\ reg'.paso = 8 => tora'[reg'.X_PROY] = 0 /\ adju'[reg'.X_PROY].de = Sin
          /\ reg'.paso = 3 => adju'[reg'.X_PROY].de = Sin
      BY <1>1, <3>2 DEF CInv, InvOrden
    <3> QED BY <1>1, <3>4, <3>5, <3>6, <3>7, <3>8, <3>9 DEF InvOrden
  <2>10. ASSUME solo[h], y \notin roto PROVE adju[y].de \in {loc[h].resp, Sin}
    <3>1. \A k \in Hilo : ~En(k, Escribiendo, y)
      BY <1>1, <2>2, <2>7, <2>10 DEF En
    <3>2. tora[y] # Sin /\ adju[y].de # Sin => tora[y] = adju[y].de
      BY <2>3, <2>10, <3>1 DEF CInv, InvCoherente
    <3>3. tora[y] \in {loc[h].resp, Sin}
      BY <1>1, <2>2, <2>10 DEF CInv, InvPar, Par
    <3>4. adju[y].de # Sin => tora[y] # Sin
      BY <2>3 DEF CInv, InvOrden
    <3> QED BY <3>2, <3>3, <3>4
  <2>11. InvPar'
    <3> SUFFICES ASSUME NEW a \in Hilo PROVE Par(a)'
      BY DEF InvPar
    <3>1. CASE a = h
      <4>1. tora'[y] \in {loc[h].despacho, Sin}
        BY <2>4
      <4>2. ASSUME y \notin roto'
            PROVE  adju[y].de \in {loc[h].resp, Sin} /\ \A k \in Hilo \ {h} : ~En(k, Escribiendo, y)'
        BY <1>3, <2>1, <2>2, <2>7, <2>10, <4>2 DEF OtrosQuietos, En
      <4>3. En(h, Escribiendo, y)' /\ loc'[h] = loc[h] /\ pc'[h] \notin Leidas
        BY <2>1, <2>2 DEF En
      <4> QED BY <1>1, <2>1, <3>1, <4>1, <4>2, <4>3 DEF Par
    <3>2. CASE a # h
      <4>1. pc'[a] = pc[a] /\ UNCHANGED loc
        BY <2>1, <3>2 DEF OtrosQuietos
      <4>2. pc[a] \in EnManos => loc[a].X_PROY \in X_PROYs
        BY EnProyecto DEF EnManos, EnProyectos
      <4>3. CASE loc[a].X_PROY = y
        <5>1. pc[a] \in Leidas \cup {"updAdju"} => ~solo[a]
          BY <2>6, <3>2, <4>3
        <5>2. pc[a] \in Escribiendo => y \in roto'
          BY <1>3, <2>2, <2>7, <3>2, <4>3 DEF En
        <5> QED BY <1>1, <4>1, <4>3, <5>1, <5>2 DEF Par
      <4>4. CASE loc[a].X_PROY # y
        <5>1. pc[a] \in EnManos => tora'[loc[a].X_PROY] = tora[loc[a].X_PROY]
          BY <2>4, <4>2, <4>4
        <5>2. \A k \in Hilo : En(k, Escribiendo, loc[a].X_PROY)' => En(k, Escribiendo, loc[a].X_PROY)
          BY <2>1, <4>1, <4>4 DEF OtrosQuietos, En
        <5>3. loc[a].X_PROY \notin roto' => loc[a].X_PROY \notin roto
          BY <1>3
        <5> QED BY <1>1, <2>2, <4>1, <5>1, <5>2, <5>3 DEF CInv, InvPar, Par
      <4> QED BY <4>3, <4>4
    <3> QED BY <3>1, <3>2
  <2>12. InvCoherente'
    <3> SUFFICES ASSUME NEW z \in X_PROYs \ roto', tora'[z] # Sin, adju'[z].de # Sin,
                        \A g \in Hilo : ~En(g, Escribiendo, z)'
                 PROVE  tora'[z] = adju'[z].de
      BY DEF InvCoherente
    <3>1. z # y
      BY <2>1, <2>2 DEF En
    <3>2. tora'[z] = tora[z] /\ z \notin roto
      BY <1>3, <2>4, <3>1
    <3>3. \A g \in Hilo : ~En(g, Escribiendo, z)
      BY <1>1, <2>1, <2>2 DEF OtrosQuietos, En
    <3> QED BY <1>1, <3>2, <3>3 DEF CInv, InvCoherente
  <2> QED BY <2>8, <2>9, <2>11, <2>12 DEF CInv
<1> QED BY <1>2, <1>3 DEF ActualizaTora

(* A thread that had written the first row lets go of the project: the rows   *)
(* agree, or it is on record that they may not.                              *)
LEMMA SueltaBien ==
  ASSUME IInv, CInv, NEW h \in Hilo, NEW y, y = loc[h].X_PROY, pc[h] \in Escribiendo,
         pc'[h] \notin EnManos \/ (pc'[h] = "oc" /\ loc'[h] = loc[h]), OtrosQuietos(h),
         UNCHANGED <<duenio, reg>>, \A g \in Hilo \ {h} : solo'[g] = solo[g],
         \A z \in X_PROYs \ {y} : tora'[z] = tora[z] /\ adju'[z] = adju[z],
         \A z \in X_PROYs \ {y} : z \notin roto' => z \notin roto,
         tora'[y] = Sin <=> tora[y] = Sin, adju'[y].de = Sin <=> adju[y].de = Sin,
         y \notin roto' /\ tora'[y] # Sin /\ adju'[y].de # Sin => tora'[y] = adju'[y].de,
         y \notin roto' /\ y \in roto => pc[h] = "updAdju" /\ solo[h]
  PROVE  CInv'
<1>1. /\ Escribiendo \subseteq EnManos \ {"respAdju", "oc"} /\ Leidas \subseteq EnManos \ {"oc"}
      /\ "updAdju" \in Escribiendo /\ "oc" \in EnManos \ {"respAdju"} /\ "oc" \notin Leidas
      /\ "oc" \notin Escribiendo /\ "oc" # "updAdju"
  BY DEF EnManos, Escribiendo, Leidas
<1>2. En(h, EnManos, y) /\ En(h, EnManos \ {"respAdju"}, y) /\ y \in X_PROYs
  BY <1>1, EnProyecto DEF En, Escribiendo, EnProyectos
<1>3. \A k \in Hilo \ {h} : pc[k] \in Leidas \cup {"updAdju"} /\ loc[k].X_PROY = y => ~solo[k]
  BY <1>2 DEF CInv, InvSolo
<1>4. y \notin roto' => \A k \in Hilo \ {h} : ~En(k, Escribiendo, y)
  <2>1. CASE y \in roto
    <3>1. y \notin roto' => \A k \in Hilo \ {h} : ~En(k, EnManos, y)
      BY <2>1 DEF CInv, InvSolo
    <3> QED BY <1>1, <3>1 DEF En
  <2>2. CASE y \notin roto
    BY <2>2 DEF CInv, InvPar, Par
  <2> QED BY <2>1, <2>2
<1>5. \A g \in Hilo : En(g, EnManos, loc[g].X_PROY)' => En(g, EnManos, loc[g].X_PROY) /\ loc'[g] = loc[g]
  BY <1>2 DEF OtrosQuietos, En
<1>6. InvSolo'
  BY <1>1, <1>2 DEF CInv, InvSolo, OtrosQuietos, En
<1>7. InvOrden'
  <2>1. reg.paso \in 5..8 => reg.X_PROY # y /\ reg.X_PROY \in X_PROYs
    BY <1>2 DEF CInv, InvOrden, IInv, Tablas
  <2>2. reg.paso = 3 => reg.X_PROY \in X_PROYs
    BY DEF IInv, Tablas
  <2>3. reg.paso \in 5..7 => \A g \in Hilo : ~En(g, EnManos, reg.X_PROY)'
    BY <1>2, <2>1 DEF CInv, InvOrden, OtrosQuietos, En
  <2>4. reg.paso = 8 => \A g \in Hilo : ~En(g, EnManos \ {"respAdju"}, reg.X_PROY)'
    BY <1>2, <2>1 DEF CInv, InvOrden, OtrosQuietos, En
  <2>5. \A z \in X_PROYs : (tora'[z] = Sin <=> tora[z] = Sin) /\ (adju'[z].de = Sin <=> adju[z].de = Sin)
    OBVIOUS
  <2>6. /\ \A z \in X_PROYs : adju'[z].de # Sin => tora'[z] # Sin
        /\ \A z \in X_PROYs : z \notin DOMAIN duenio' => tora'[z] = Sin
    BY <2>5 DEF CInv, InvOrden
  <2>7. /\ reg'.paso \in 5..7 => tora'[reg'.X_PROY] = Sin
        /\ reg'.paso = 8 => tora'[reg'.X_PROY] = 0 /\ adju'[reg'.X_PROY].de = Sin
        /\ reg'.paso = 3 => adju'[reg'.X_PROY].de = Sin
    BY <2>1, <2>2, <2>5 DEF CInv, InvOrden
  <2> QED BY <2>3, <2>4, <2>6, <2>7 DEF InvOrden
<1>8. InvPar'
  <2> SUFFICES ASSUME NEW a \in Hilo PROVE Par(a)'
    BY DEF InvPar
  <2>1. CASE a = h
    BY <1>1, <2>1 DEF Par
  <2>2. CASE a # h
    <3>1. pc'[a] = pc[a] /\ loc'[a] = loc[a] /\ solo'[a] = solo[a]
      BY <2>2 DEF OtrosQuietos
    <3>2. pc[a] \in EnManos => loc[a].X_PROY \in X_PROYs
      BY EnProyecto DEF EnManos, EnProyectos
    <3>3. CASE loc[a].X_PROY = y
      <4>1. pc[a] \in Leidas \cup {"updAdju"} => ~solo[a]
        BY <1>3, <2>2, <3>3
      <4>2. pc[a] \in Escribiendo => y \in roto'
        BY <1>4, <2>2, <3>3 DEF En
      <4> QED BY <3>1, <3>3, <4>1, <4>2 DEF Par
    <3>4. CASE loc[a].X_PROY # y
      <4>1. pc[a] \in EnManos => /\ tora'[loc[a].X_PROY] = tora[loc[a].X_PROY]
                                 /\ adju'[loc[a].X_PROY] = adju[loc[a].X_PROY]
        BY <3>2, <3>4
      <4>2. \A k \in Hilo : En(k, Escribiendo, loc[a].X_PROY)' => En(k, Escribiendo, loc[a].X_PROY)
        BY <1>1, <3>1, <3>4 DEF OtrosQuietos, En
      <4>3. pc[a] \in EnManos /\ loc[a].X_PROY \notin roto' => loc[a].X_PROY \notin roto
        BY <3>2, <3>4
      <4>4. Par(a)
        BY DEF CInv, InvPar
      <4> QED BY <1>1, <3>1, <4>1, <4>2, <4>3, <4>4 DEF Par
    <3> QED BY <3>3, <3>4
  <2> QED BY <2>1, <2>2
<1>9. InvCoherente'
  <2> SUFFICES ASSUME NEW z \in X_PROYs \ roto', tora'[z] # Sin, adju'[z].de # Sin,
                      \A g \in Hilo : ~En(g, Escribiendo, z)'
               PROVE  tora'[z] = adju'[z].de
    BY DEF InvCoherente
  <2>1. CASE z # y
    <3>1. tora'[z] = tora[z] /\ adju'[z] = adju[z] /\ z \notin roto
      BY <2>1
    <3>2. \A g \in Hilo : ~En(g, Escribiendo, z)
      BY <2>1 DEF OtrosQuietos, En
    <3> QED BY <3>1, <3>2 DEF CInv, InvCoherente
  <2> QED BY <2>1
<1> QED BY <1>6, <1>7, <1>8, <1>9 DEF CInv

LEMMA ActualizaAdjuCoherente == ASSUME IInv, CInv, NEW h \in Hilo, ActualizaAdju(h) PROVE CInv'
<1> DEFINE y == loc[h].X_PROY
           f == [de |-> loc[h].despacho, cont |-> loc[h].prov[loc[h].l]]
<1>1. /\ pc[h] = "updAdju" /\ UNCHANGED <<tora, duenio, reg>> /\ pc[h] \in Escribiendo
      /\ solo' = [solo EXCEPT ![h] = TRUE]
  BY DEF ActualizaAdju, Escribiendo
<1>2. /\ y \in X_PROYs /\ loc[h].despacho \in Nat
  BY <1>1, EnProyecto DEF EnProyectos, Locales
<1>3. \A g \in Hilo \ {h} : solo'[g] = solo[g]
  BY <1>1 DEF IInv, Historia
<1>4. Par(h)
  BY DEF CInv, InvPar
<1>5. ASSUME Sigue(h, "oc"), roto' = (IF solo[h] THEN roto \ {y} ELSE roto),
             adju' = IF adju[y].de = Sin THEN adju ELSE [adju EXCEPT ![y] = f]
      PROVE  CInv'
  <2>1. pc'[h] = "oc" /\ loc'[h] = loc[h] /\ OtrosQuietos(h)
    BY <1>5 DEF Sigue, Ir, OtrosQuietos, IInv, Hilos
  <2>2. \A z \in X_PROYs \ {y} : adju'[z] = adju[z]
    BY <1>2, <1>5 DEF IInv, Tablas
  <2>3. /\ adju[y].de = Sin => adju'[y].de = Sin
        /\ adju[y].de # Sin => adju'[y].de = loc[h].despacho /\ adju'[y].de # Sin
    BY <1>2, <1>5 DEF IInv, Tablas, Sin
  <2>4. y \notin roto' => tora[y] \in {loc[h].despacho, Sin}
    BY <1>1, <1>4, <1>5 DEF Par
  <2>5. \A z \in X_PROYs \ {y} : z \notin roto' => z \notin roto
    BY <1>5
  <2>6. y \notin roto' /\ y \in roto => solo[h]
    BY <1>5
  <2>7. y \notin roto' /\ tora'[y] # Sin /\ adju'[y].de # Sin => tora'[y] = adju'[y].de
    BY <1>1, <2>3, <2>4
  <2> HIDE DEF y
  <2> QED BY <1>1, <1>3, <2>1, <2>2, <2>3, <2>5, <2>6, <2>7, SueltaBien DEF y
<1>6. ASSUME FallaConVuelta(h), UNCHANGED <<adju, roto>> PROVE CInv'
  <2>1. pc'[h] = "vuelta" /\ UNCHANGED loc /\ OtrosQuietos(h)
    BY <1>6 DEF FallaConVuelta, Sigue, Ir, OtrosQuietos, IInv, Hilos
  <2>2. /\ {"updAdju", "vuelta"} \subseteq EnManos \ {"respAdju"}
        /\ "vuelta" \in Escribiendo \ Leidas /\ "vuelta" # "updAdju"
    BY DEF EnManos, Escribiendo, Leidas
  <2>3. \A g \in Hilo, z \in X_PROYs :
          /\ En(g, EnManos, z)' <=> En(g, EnManos, z)
          /\ En(g, EnManos \ {"respAdju"}, z)' <=> En(g, EnManos \ {"respAdju"}, z)
          /\ En(g, Escribiendo, z)' <=> En(g, Escribiendo, z)
    <3> TAKE g \in Hilo, z \in X_PROYs
    <3>1. CASE g = h
      BY <1>1, <2>1, <2>2, <3>1 DEF En
    <3>2. CASE g # h
      BY <2>1, <3>2 DEF OtrosQuietos, En
    <3> QED BY <3>1, <3>2
  <2>8. reg.paso \in 5..8 => reg.X_PROY \in X_PROYs
    BY DEF IInv, Tablas
  <2>9. \A g \in Hilo : pc[g] \in EnManos => loc[g].X_PROY \in X_PROYs
    BY EnProyecto DEF EnManos, EnProyectos
  <2>4. InvSolo'
    BY <1>1, <1>3, <2>1, <2>2 DEF CInv, InvSolo, OtrosQuietos, En
  <2>5. InvOrden'
    <3>1. reg.paso \in 5..7 => \A g \in Hilo : ~En(g, EnManos, reg.X_PROY)'
      BY <1>1, <2>3, <2>8 DEF CInv, InvOrden
    <3>2. ASSUME reg.paso = 8, NEW g \in Hilo
          PROVE  ~En(g, EnManos \ {"respAdju"}, reg.X_PROY)'
      <4>1. ~En(g, EnManos \ {"respAdju"}, reg.X_PROY) /\ reg.X_PROY \in X_PROYs
        BY <2>8, <3>2 DEF CInv, InvOrden
      <4> QED BY <1>1, <2>3, <4>1
    <3> QED BY <1>1, <1>6, <3>1, <3>2 DEF CInv, InvOrden
  <2>6. InvPar'
    <3> SUFFICES ASSUME NEW a \in Hilo PROVE Par(a)'
      BY DEF InvPar
    <3>1. Par(a) /\ loc'[a] = loc[a]
      BY <2>1 DEF CInv, InvPar
    <3>2. CASE a = h
      BY <1>1, <1>2, <1>6, <2>1, <2>2, <2>3, <3>1, <3>2 DEF Par
    <3>3. CASE a # h
      <4>1. pc'[a] = pc[a] /\ solo'[a] = solo[a]
        BY <1>3, <2>1, <3>3 DEF OtrosQuietos
      <4>2. pc[a] \in Escribiendo => \A k \in Hilo :
              En(k, Escribiendo, loc[a].X_PROY)' <=> En(k, Escribiendo, loc[a].X_PROY)
        BY <2>3, <2>9, <3>1 DEF EnManos, Escribiendo
      <4> QED BY <1>1, <1>6, <3>1, <4>1, <4>2 DEF Par
    <3> QED BY <3>2, <3>3
  <2>7. InvCoherente'
    BY <1>1, <1>6, <2>3 DEF CInv, InvCoherente
  <2> QED BY <2>4, <2>5, <2>6, <2>7 DEF CInv
<1>7. ASSUME Escapa(h), roto' = roto \cup {y}, UNCHANGED adju PROVE CInv'
  <2>1. pc'[h] \notin EnManos /\ OtrosQuietos(h)
    BY <1>7, ContestaLejos DEF Escapa, Lejos
  <2>2. y \in roto' /\ \A z \in X_PROYs \ {y} : z \notin roto' => z \notin roto
    BY <1>7
  <2> HIDE DEF y
  <2> QED BY <1>1, <1>3, <1>7, <2>1, <2>2, SueltaBien DEF y
<1> QED BY <1>5, <1>6, <1>7 DEF ActualizaAdju

LEMMA DeshaceCoherente == ASSUME IInv, CInv, NEW h \in Hilo, Deshace(h) PROVE CInv'
<1> DEFINE y == loc[h].X_PROY
<1>1. /\ pc[h] = "vuelta" /\ UNCHANGED <<adju, duenio, reg, solo>> /\ pc[h] \in Escribiendo
      /\ FallaLinea(h) \/ Escapa(h)
  BY DEF Deshace, Escribiendo
<1>2. /\ y \in X_PROYs /\ loc[h].resp \in Nat
  BY <1>1, EnProyecto DEF EnProyectos, Locales
<1>3. pc'[h] \notin EnManos /\ OtrosQuietos(h)
  BY <1>1, FallaLineaLejos, ContestaLejos DEF Escapa, Lejos
<1>4. Par(h)
  BY DEF CInv, InvPar
<1>5. ASSUME EscribeTora(y, loc[h].resp), UNCHANGED roto PROVE CInv'
  <2>1. /\ tora[y] = Sin => tora' = tora
        /\ tora[y] # Sin => tora'[y] = loc[h].resp /\ tora'[y] # Sin
        /\ \A z \in X_PROYs \ {y} : tora'[z] = tora[z]
    BY <1>2, <1>5 DEF EscribeTora, IInv, Tablas, Sin
  <2>2. y \notin roto' /\ tora'[y] # Sin /\ adju'[y].de # Sin => tora'[y] = adju'[y].de
    BY <1>1, <1>4, <1>5, <2>1 DEF Par
  <2> HIDE DEF y
  <2> QED BY <1>1, <1>3, <1>5, <2>1, <2>2, SueltaBien DEF y
<1>6. ASSUME UNCHANGED tora, roto' = roto \cup {y} PROVE CInv'
  <2>1. y \in roto' /\ \A z \in X_PROYs \ {y} : z \notin roto' => z \notin roto
    BY <1>6
  <2> HIDE DEF y
  <2> QED BY <1>1, <1>3, <1>6, <2>1, SueltaBien DEF y
<1> QED BY <1>5, <1>6 DEF Deshace

-----------------------------------------------------------------------------
(* The registration takes rows away, or puts them where nobody is.           *)
LEMMA RegistroBien ==
  ASSUME IInv, CInv, UNCHANGED <<pc, loc, solo, roto>>,
         \A y \in X_PROYs : tora'[y] \in {tora[y], Sin} \/ \A h \in Hilo : ~En(h, EnManos, y),
         \A y \in X_PROYs : adju'[y].de \in {adju[y].de, Sin} \/ \A h \in Hilo : ~En(h, Escribiendo, y),
         \A y \in X_PROYs : tora'[y] # Sin /\ adju'[y].de # Sin =>
           tora'[y] = adju'[y].de \/ (tora'[y] = tora[y] /\ adju'[y].de = adju[y].de)
  PROVE  InvSolo' /\ InvPar' /\ InvCoherente'
<1>1. /\ Escribiendo \subseteq EnManos /\ Leidas \subseteq EnManos /\ "updAdju" \in EnManos
  BY DEF Escribiendo, Leidas, EnManos
<1>2. \A h \in Hilo : pc[h] \in EnManos => loc[h].X_PROY \in X_PROYs
  BY EnProyecto DEF EnManos, EnProyectos
<1>3. InvSolo'
  BY DEF CInv, InvSolo, En
<1>4. InvPar'
  <2> SUFFICES ASSUME NEW a \in Hilo PROVE Par(a)'
    BY DEF InvPar
  <2>1. Par(a)
    BY DEF CInv, InvPar
  <2>2. pc[a] \in EnManos => tora'[loc[a].X_PROY] \in {tora[loc[a].X_PROY], Sin}
    BY <1>2 DEF En
  <2>3. pc[a] \in Escribiendo => adju'[loc[a].X_PROY].de \in {adju[loc[a].X_PROY].de, Sin}
    BY <1>1, <1>2 DEF En
  <2>4. \A k \in Hilo : En(k, Escribiendo, loc[a].X_PROY)' <=> En(k, Escribiendo, loc[a].X_PROY)
    BY DEF En
  <2> QED BY <1>1, <2>1, <2>2, <2>3, <2>4 DEF Par
<1>5. InvCoherente'
  BY DEF CInv, InvCoherente, En
<1> QED BY <1>3, <1>4, <1>5

(* A project is numbered that nobody can hold yet.                           *)
LEMMA NuevaOrden ==
  ASSUME IInv, IInv', CInv, NEW l, Nueva(l), UNCHANGED <<pc, loc, tora, adju>>
  PROVE  InvOrden'
<1> DEFINE n == Len(duenio) + 1
<1>1. reg'.paso = 5 /\ reg'.X_PROY = n /\ duenio' = Append(duenio, l)
  BY DEF Nueva
<1>2. n \in X_PROYs
  BY <1>1 DEF IInv, Tablas
<1>3. n \notin DOMAIN duenio /\ DOMAIN duenio \subseteq DOMAIN duenio'
  BY <1>1 DEF IInv, Tablas
<1>4. \A h \in Hilo : pc[h] \in EnManos => loc[h].X_PROY \in DOMAIN duenio
  BY EnProyecto DEF EnManos, EnProyectos
<1>5. \A h \in Hilo : ~En(h, EnManos, reg.X_PROY)'
  BY <1>1, <1>3, <1>4 DEF En
<1>6. tora'[n] = Sin
  BY <1>2, <1>3 DEF CInv, InvOrden
<1>7. \A y \in X_PROYs : adju'[y].de # Sin => tora'[y] # Sin
  BY DEF CInv, InvOrden
<1>8. \A y \in X_PROYs : y \notin DOMAIN duenio' => tora'[y] = Sin
  <2>1. \A y \in X_PROYs : y \notin DOMAIN duenio => tora'[y] = Sin
    BY DEF CInv, InvOrden
  <2> QED BY <1>3, <2>1
<1> QED BY <1>1, <1>5, <1>6, <1>7, <1>8 DEF InvOrden

LEMMA SiguienteViejaOrden ==
  ASSUME IInv, IInv', CInv, NEW l, NEW ys, SiguienteVieja(l, ys), UNCHANGED <<pc, loc, tora, adju>>
  PROVE  InvOrden'
<1>1. CASE Nueva(l)
  BY <1>1, NuevaOrden
<1>2. CASE Vieja(l, ys)
  <2>1. reg'.paso = 1 /\ UNCHANGED duenio
    BY <1>2 DEF Vieja
  <2> QED BY <2>1 DEF CInv, InvOrden
<1> QED BY <1>1, <1>2 DEF SiguienteVieja

LEMMA RegistraCoherente ==
  ASSUME IInv, IInv', CInv, NEW l \in Registrables, Registra(l)
  PROVE  CInv'
<1>1. UNCHANGED <<pc, loc, solo, roto, tora, adju>>
  BY DEF Registra
<1>2. PICK ys : SiguienteVieja(l, ys)
  BY DEF Registra
<1>3. InvOrden'
  BY <1>1, <1>2, SiguienteViejaOrden
<1>4. InvSolo' /\ InvPar' /\ InvCoherente'
  BY <1>1, RegistroBien
<1> QED BY <1>3, <1>4 DEF CInv

LEMMA delFromGeoCoherente == ASSUME IInv, IInv', CInv, delFromGeo PROVE CInv'
<1> DEFINE x == reg.X_PROY
<1>1. /\ UNCHANGED <<pc, loc, solo, roto>> /\ reg.paso \in 1..4
      /\ adju' = IF reg.paso = 2 THEN [adju EXCEPT ![x] = Registrada(Sin)] ELSE adju
      /\ tora' = IF reg.paso = 3 THEN [tora EXCEPT ![x] = Sin] ELSE tora
      /\ IF reg.paso = 4 THEN SiguienteVieja(reg.linea, reg.viejos)
         ELSE reg' = [reg EXCEPT !.paso = @ + 1] /\ UNCHANGED duenio
  BY DEF delFromGeo, historia
<1>2. /\ x \in X_PROYs /\ reg \in Registros
      /\ tora \in [X_PROYs -> Nat \cup {Sin}] /\ adju \in [X_PROYs -> Adju]
  BY <1>1 DEF IInv, Tablas
<1>3. Registrada(Sin).de = Sin
  BY DEF Registrada
<1>4. \A y \in X_PROYs : /\ tora'[y] = tora[y] \/ (reg.paso = 3 /\ y = x /\ tora'[y] = Sin)
                         /\ adju'[y].de = adju[y].de \/ (adju'[y].de = Sin /\ tora'[y] = tora[y])
  BY <1>1, <1>2, <1>3
<1>5. InvSolo' /\ InvPar' /\ InvCoherente'
  BY <1>1, <1>4, RegistroBien
<1>6. InvOrden'
  <2>1. CASE reg.paso = 4
    BY <1>1, <2>1, SiguienteViejaOrden
  <2>2. CASE reg.paso \in 1..3
    <3>1. /\ reg'.paso = reg.paso + 1 /\ reg'.paso \in 2..4 /\ reg'.X_PROY = x /\ UNCHANGED duenio
      BY <1>1, <1>2, <2>2 DEF Registros
    <3>2. reg.paso = 3 => adju[x].de = Sin /\ UNCHANGED adju
      BY <1>1 DEF CInv, InvOrden
    <3>3. reg'.paso = 3 => adju'[x].de = Sin
      BY <1>1, <1>2, <1>3, <2>2, <3>1
    <3>4. \A y \in X_PROYs : adju'[y].de # Sin => tora'[y] # Sin
      BY <1>4, <3>2 DEF CInv, InvOrden
    <3>5. \A y \in X_PROYs : y \notin DOMAIN duenio' => tora'[y] = Sin
      BY <1>4, <3>1 DEF CInv, InvOrden
    <3> QED BY <3>1, <3>3, <3>4, <3>5 DEF InvOrden
  <2> QED BY <1>1, <2>1, <2>2
<1> QED BY <1>5, <1>6 DEF CInv

LEMMA INFilasCoherente == ASSUME IInv, CInv, INFilas PROVE CInv'
<1> DEFINE x == reg.X_PROY
<1>1. /\ UNCHANGED <<pc, loc, solo, roto, duenio>> /\ reg.paso \in 5..8
      /\ tora' = IF reg.paso = 7 THEN [tora EXCEPT ![x] = 0] ELSE tora
      /\ adju' = IF reg.paso = 8 THEN [adju EXCEPT ![x] = Registrada(0)] ELSE adju
      /\ reg' = IF reg.paso = 8 THEN Quieta ELSE [reg EXCEPT !.paso = @ + 1]
  BY DEF INFilas, historia
<1>2. /\ x \in X_PROYs /\ x \in DOMAIN duenio /\ reg \in Registros
      /\ tora \in [X_PROYs -> Nat \cup {Sin}] /\ adju \in [X_PROYs -> Adju]
  BY <1>1 DEF IInv, Tablas, De
<1>3. Registrada(0).de = 0 /\ 0 # Sin
  BY DEF Registrada, Sin
<1>4. \A y \in X_PROYs \ {x} : tora'[y] = tora[y] /\ adju'[y] = adju[y]
  BY <1>1, <1>2
<1>5. reg.paso # 7 => UNCHANGED tora
  BY <1>1
<1>6. reg.paso # 8 => UNCHANGED adju
  BY <1>1
<1>7. /\ reg.paso = 7 => tora'[x] = 0 /\ adju[x].de = Sin /\ \A h \in Hilo : ~En(h, EnManos, x)
      /\ reg.paso = 8 => /\ adju'[x].de = 0 /\ tora[x] = 0
                         /\ \A h \in Hilo : ~En(h, EnManos \ {"respAdju"}, x)
  <2>1. reg.paso = 7 => tora'[x] = 0
    BY <1>1, <1>2
  <2>2. reg.paso = 7 => adju[x].de = Sin
    BY <1>2 DEF CInv, InvOrden
  <2>3. reg.paso = 7 => \A h \in Hilo : ~En(h, EnManos, x)
    BY DEF CInv, InvOrden
  <2>4. reg.paso = 8 => adju'[x].de = 0
    BY <1>1, <1>2, <1>3
  <2>5. reg.paso = 8 => tora[x] = 0
    BY DEF CInv, InvOrden
  <2>6. reg.paso = 8 => \A h \in Hilo : ~En(h, EnManos \ {"respAdju"}, x)
    BY DEF CInv, InvOrden
  <2> QED BY <2>1, <2>2, <2>3, <2>4, <2>5, <2>6
<1>8. /\ Escribiendo \subseteq EnManos \ {"respAdju"} /\ EnManos \ {"respAdju"} \subseteq EnManos
  BY DEF Escribiendo, EnManos
<1>9. InvSolo' /\ InvPar' /\ InvCoherente'
  <2>1. \A y \in X_PROYs : tora'[y] \in {tora[y], Sin} \/ \A h \in Hilo : ~En(h, EnManos, y)
    BY <1>4, <1>5, <1>7
  <2>2. \A y \in X_PROYs : adju'[y].de \in {adju[y].de, Sin} \/ \A h \in Hilo : ~En(h, Escribiendo, y)
    BY <1>4, <1>6, <1>7, <1>8 DEF En
  <2>3. \A y \in X_PROYs : tora'[y] # Sin /\ adju'[y].de # Sin =>
          tora'[y] = adju'[y].de \/ (tora'[y] = tora[y] /\ adju'[y].de = adju[y].de)
    <3>1. ASSUME NEW y \in X_PROYs \ {x} PROVE tora'[y] = tora[y] /\ adju'[y].de = adju[y].de
      BY <1>4, <3>1
    <3>2. CASE reg.paso = 7
      BY <1>6, <1>7, <3>1, <3>2
    <3>3. CASE reg.paso = 8
      BY <1>5, <1>7, <3>1, <3>3
    <3>4. CASE reg.paso \notin {7, 8}
      BY <1>5, <1>6, <3>4
    <3> QED BY <3>2, <3>3, <3>4
  <2> QED BY <1>1, <2>1, <2>2, <2>3, RegistroBien
<1>10. InvOrden'
  <2>1. \A y \in X_PROYs : adju'[y].de # Sin => tora'[y] # Sin
    BY <1>3, <1>4, <1>5, <1>6, <1>7 DEF CInv, InvOrden
  <2>2. \A y \in X_PROYs : y \notin DOMAIN duenio' => tora'[y] = Sin
    BY <1>1, <1>2, <1>4 DEF CInv, InvOrden
  <2>3. CASE reg.paso = 8
    BY <1>1, <2>1, <2>2, <2>3, QuietaTipo DEF InvOrden
  <2>4. CASE reg.paso \in 5..7
    <3>1. reg'.paso = reg.paso + 1 /\ reg'.paso \in 6..8 /\ reg'.X_PROY = x
      BY <1>1, <1>2, <2>4 DEF Registros
    <3>2. \A h \in Hilo : ~En(h, EnManos, x)
      BY <2>4 DEF CInv, InvOrden
    <3>3. \A h \in Hilo : ~En(h, EnManos, x)' /\ ~En(h, EnManos \ {"respAdju"}, x)'
      BY <1>1, <1>8, <3>1, <3>2 DEF En
    <3>4. reg'.paso \in 6..7 => tora'[x] = Sin
      BY <1>5, <2>4, <3>1 DEF CInv, InvOrden
    <3>5. reg'.paso = 8 => tora'[x] = 0 /\ adju'[x].de = Sin
      BY <1>1, <1>6, <1>7, <3>1, <2>4
    <3> QED BY <2>1, <2>2, <3>1, <3>3, <3>4, <3>5 DEF InvOrden
  <2> QED BY <1>1, <2>3, <2>4
<1> QED BY <1>9, <1>10 DEF CInv

(* After a restart no thread is left, and the pairs it cut short are known.   *)
LEMMA CaidaCoherente == ASSUME IInv, CInv, Caida PROVE CInv'
<1>1. /\ UNCHANGED <<tora, adju, duenio, solo>> /\ reg' = Quieta
      /\ pc' = [h \in Hilo |-> "libre"]
      /\ roto' = roto \cup {loc[h].X_PROY : h \in {g \in Hilo : pc[g] \in {"updAdju", "vuelta"}}}
  BY DEF Caida, filas
<1>2. \A h \in Hilo : pc'[h] \notin EnManos \cup Leidas \cup Escribiendo
  BY <1>1 DEF EnManos, Leidas, Escribiendo
<1>3. \A y : y \notin roto' => y \notin roto /\ \A h \in Hilo : ~En(h, Escribiendo, y)
  BY <1>1 DEF En, Escribiendo
<1>4. InvSolo' /\ InvPar'
  BY <1>2 DEF InvSolo, InvPar, Par, Escribiendo
<1>5. InvOrden'
  BY <1>1, <1>2, QuietaTipo DEF CInv, InvOrden, En
<1>6. InvCoherente'
  BY <1>1, <1>3 DEF CInv, InvCoherente
<1> QED BY <1>4, <1>5, <1>6 DEF CInv

-----------------------------------------------------------------------------
LEMMA InicialCoherente == ASSUME Init PROVE CInv
<1>1. /\ \A h \in Hilo : pc[h] = "libre"
      /\ duenio = Previas /\ reg = Quieta
      /\ \A y \in X_PROYs : tora[y] = IF y <= Len(Previas) THEN 0 ELSE Sin
      /\ \A y \in X_PROYs : adju[y] = Registrada(IF y <= Len(Previas) THEN 0 ELSE Sin)
  BY DEF Init
<1>2. \A y \in X_PROYs : adju[y].de = tora[y]
  <2>1. \A d : Registrada(d).de = d
    BY DEF Registrada
  <2> QED BY <1>1, <2>1
<1>3. \A h \in Hilo : pc[h] \notin EnManos \cup Leidas \cup Escribiendo
  BY <1>1 DEF EnManos, Leidas, Escribiendo
<1>4. \A y \in X_PROYs : y \notin DOMAIN duenio => tora[y] = Sin
  BY <1>1, MaxProyTipo, AdjudicacionAssumption DEF X_PROYs
<1>5. InvOrden
  BY <1>1, <1>2, <1>4, QuietaTipo DEF InvOrden
<1>6. InvSolo /\ InvPar
  BY <1>3 DEF InvSolo, InvPar, Par, Escribiendo
<1>7. InvCoherente
  BY <1>2 DEF InvCoherente
<1> QED BY <1>5, <1>6, <1>7 DEF CInv

LEMMA SiguienteCoherente == IInv /\ IInv' /\ CInv /\ [Next]_vars => CInv'
<1> SUFFICES ASSUME IInv, IInv', CInv, [Next]_vars PROVE CInv'
  OBVIOUS
<1>1. ASSUME NEW h \in Hilo, process(h) \/ Paso(h) PROVE CInv'
  BY <1>1, AparteCoherente, RespaldaToraCoherente, RespaldaAdjuCoherente,
     ActualizaToraCoherente, ActualizaAdjuCoherente, DeshaceCoherente DEF Paso, Aparte
<1>2. CASE Registro
  BY <1>2, RegistraCoherente, delFromGeoCoherente, INFilasCoherente DEF Registro
<1>3. CASE Caida
  BY <1>3, CaidaCoherente
<1>4. CASE UNCHANGED vars
  <2>1. UNCHANGED <<tora, adju, duenio, pc, loc, reg, solo, roto>>
    BY <1>4 DEF vars, filas, historia
  <2> QED BY <2>1 DEF CInv, InvSolo, InvOrden, InvPar, Par, InvCoherente, En
<1> QED BY <1>1, <1>2, <1>3, <1>4 DEF Next

(* The two rows of a project, which AdjudicacionWs.java:164-180 updates in    *)
(* two commits and takes back by hand, tell of one dispatch, for any number   *)
(* of threads, orders, lines, failures, restarts and registrations; what is   *)
(* excepted is what the code leaves open: crossed threads, a pair cut short   *)
(* by an escaping exception or a restart, a compensation that fails.         *)
THEOREM CoherenteSiempre == Spec => []Coherente
<1>1. Init => CInv
  BY InicialCoherente
<1>2. CInv => Coherente
  BY DEF CInv, InvCoherente, Coherente, En, Escribiendo
<1> QED BY <1>1, <1>2, InvSiempre, SiguienteCoherente, PTL DEF Spec

-----------------------------------------------------------------------------
(* What an answer OK says of line l: it has projects, and both rows of each   *)
(* come from dispatch d. Here m, t and j are the tables IDMU, TORA and ADJU.  *)
Hecho(t, j, d, y)       == t[y] = d /\ j[y].de = d
Cumplida(m, t, j, d, l) ==
  /\ \E y \in X_PROYs : <<y, l>> \in m
  /\ \A y \in X_PROYs : <<y, l>> \in m => Hecho(t, j, d, y)

LineaDe(r, i, k) == LineasDe[r.ordenes[i].orden][k]

(* The orders a thread with locals r has been through, the lines of its order *)
(* and the projects of its line, but for those among the lines a.             *)
OrdenesHechas(m, t, j, r, a) ==
  \A i \in DOMAIN r.ordenes : i < r.i =>
    \A k \in DOMAIN LineasDe[r.ordenes[i].orden] :
      LineaDe(r, i, k) \notin a => Cumplida(m, t, j, r.despacho, LineaDe(r, i, k))

LineasHechas(m, t, j, r, a, n) ==
  \A k \in DOMAIN Lista(r) : k <= n /\ Lista(r)[k] \notin a =>
    Cumplida(m, t, j, r.despacho, Lista(r)[k])

EnCurso(m, t, j, p, r) ==
  LET l == Lista(r)[r.l] IN
  /\ <<r.X_PROY, l>> \in m /\ \A y \in r.porVer : <<y, l>> \in m
  /\ \A y \in X_PROYs \ (r.porVer \cup {r.X_PROY}) : <<y, l>> \in m => Hecho(t, j, r.despacho, y)
  /\ p \in {"respAdju", "updTora", "updAdju"} => t[r.X_PROY] # Sin
  /\ p \in {"updTora", "updAdju"} => j[r.X_PROY].de # Sin
  /\ p = "updAdju" => t[r.X_PROY] = r.despacho
  /\ p = "oc" => Hecho(t, j, r.despacho, r.X_PROY)

Avance(m, t, j, p, r, a) ==
  /\ OrdenesHechas(m, t, j, r, a)
  /\ p = "responde" => r.i > Len(r.ordenes)
  /\ p = "trans" => LineasHechas(m, t, j, r, a, Len(Lista(r)))
  /\ p \in EnLineas => LineasHechas(m, t, j, r, a, r.l - 1)
  /\ p \in EnProyectos /\ Lista(r)[r.l] \notin a => EnCurso(m, t, j, p, r)

TodoHecho(m, t, j, r, a) ==
  \A i \in DOMAIN r.ordenes : \A k \in DOMAIN LineasDe[r.ordenes[i].orden] :
    LineaDe(r, i, k) \notin a => Cumplida(m, t, j, r.despacho, LineaDe(r, i, k))

Promete(m, t, j, p, r, s, a) ==
  /\ p # "libre" /\ r.status = 1 => Avance(m, t, j, p, r, a)
  /\ p = "libre" /\ s = "OK" => TodoHecho(m, t, j, r, a)

InvPromete ==
  \A h \in Hilo : Promete(idmu, tora, adju, pc[h], loc[h], respuesta[h], ajenas[h])

(* Of its lines, only those in ajenas are in the hands of another thread or   *)
(* of the registration.                                                      *)
Activo(h)  == pc[h] # "libre" \/ respuesta[h] = "OK"
Propias(h) == LineasEn(loc[h].ordenes) \ ajenas[h]

InvPropias ==
  \A h \in Hilo : Activo(h) => \A l \in Propias(h) :
    /\ reg.paso # 0 => reg.linea # l
    /\ \A g \in Hilo \ {h} : pc[g] \in EnManos => duenio[loc[g].X_PROY] # l

InvBajas ==
  reg.paso \in 1..4 => \A y \in reg.viejos \cup {reg.X_PROY} : De(duenio, reg.linea, y)

OInv == InvPromete /\ InvPropias /\ InvBajas

-----------------------------------------------------------------------------
(* The lines of a thread.                                                    *)
LEMMA LineaDeTipo ==
  ASSUME NEW r \in Locales, NEW i \in DOMAIN r.ordenes,
         NEW k \in DOMAIN LineasDe[r.ordenes[i].orden]
  PROVE  LineaDe(r, i, k) \in LineasEn(r.ordenes) /\ LineaDe(r, i, k) \in Linea
<1>1. r.ordenes[i].orden \in Orden
  <2>1. r.ordenes \in Seq(Elemento)
    BY DEF Locales
  <2>2. r.ordenes[i] \in Elemento
    BY <2>1
  <2> QED BY <2>2 DEF Elemento
<1>2. LineaDe(r, i, k) \in Linea
  BY <1>1, AdjudicacionAssumption DEF LineaDe
<1> QED BY <1>2 DEF LineasEn, LineaDe

LEMMA ListaTipo ==
  ASSUME NEW r \in Locales, r.i \in DOMAIN r.ordenes, NEW k \in DOMAIN Lista(r)
  PROVE  Lista(r)[k] \in LineasEn(r.ordenes)
BY LineaDeTipo DEF Lista, LineaDe

(* What nobody does to the rows of a line, no promise about it notices.       *)
Intacta(m, t, j, mm, tt, jj, l) ==
  \A y \in X_PROYs : /\ <<y, l>> \in mm <=> <<y, l>> \in m
                     /\ <<y, l>> \in m => tt[y] = t[y] /\ jj[y].de = j[y].de

LEMMA CumplidaIgual ==
  ASSUME NEW m, NEW t, NEW j, NEW mm, NEW tt, NEW jj, NEW d, NEW l,
         Intacta(m, t, j, mm, tt, jj, l), Cumplida(m, t, j, d, l)
  PROVE  Cumplida(mm, tt, jj, d, l)
BY DEF Intacta, Cumplida, Hecho

LEMMA PrometeIgual ==
  ASSUME NEW m, NEW t, NEW j, NEW mm, NEW tt, NEW jj, NEW d, NEW n,
         NEW p, NEW r \in Locales, NEW s, NEW a, NEW b,
         Bien(d, n, p, r), m \subseteq X_PROYs \X Linea, Promete(m, t, j, p, r, s, a), a \subseteq b,
         p # "libre" \/ s = "OK" =>
           \A l \in LineasEn(r.ordenes) \ b : Intacta(m, t, j, mm, tt, jj, l)
  PROVE  Promete(mm, tt, jj, p, r, s, b)
<1>1. ASSUME p # "libre", r.status = 1 PROVE Avance(mm, tt, jj, p, r, b)
  <2>1. Avance(m, t, j, p, r, a)
    BY <1>1 DEF Promete
  <2>2. OrdenesHechas(mm, tt, jj, r, b)
    BY <1>1, <2>1, LineaDeTipo, CumplidaIgual DEF Avance, OrdenesHechas
  <2>3. p \in EnLineas \cup {"trans"} => r.i \in DOMAIN r.ordenes
    BY DEF Bien, EnOrdenes, EnLineas, EnProyectos, Punto
  <2>4. ASSUME NEW x, p \in EnLineas \cup {"trans"}, LineasHechas(m, t, j, r, a, x)
        PROVE  LineasHechas(mm, tt, jj, r, b, x)
    BY <1>1, <2>3, <2>4, ListaTipo, CumplidaIgual DEF LineasHechas
  <2>5. ASSUME p \in EnProyectos, Lista(r)[r.l] \notin b PROVE EnCurso(mm, tt, jj, p, r)
    <3>1. EnCurso(m, t, j, p, r)
      BY <2>1, <2>5 DEF Avance
    <3>2. p \in EnLineas /\ r.l \in DOMAIN Lista(r) /\ r.X_PROY \in 0..MaxProy
          /\ r.porVer \subseteq X_PROYs
      BY <2>5 DEF EnLineas, Bien, Locales
    <3>3. Intacta(m, t, j, mm, tt, jj, Lista(r)[r.l])
      BY <1>1, <2>3, <2>5, <3>2, ListaTipo
    <3>4. r.X_PROY \in X_PROYs
      <4>1. <<r.X_PROY, Lista(r)[r.l]>> \in X_PROYs \X Linea
        BY <3>1 DEF EnCurso
      <4> QED BY <4>1
    <3> QED BY <3>1, <3>2, <3>3, <3>4 DEF EnCurso, Intacta, Hecho
  <2> QED BY <2>1, <2>2, <2>4, <2>5 DEF Avance
<1>2. ASSUME p = "libre", s = "OK" PROVE TodoHecho(mm, tt, jj, r, b)
  BY <1>2, LineaDeTipo, CumplidaIgual DEF Promete, TodoHecho
<1> QED BY <1>1, <1>2 DEF Promete

(* A step of thread h, if it writes at all, writes the rows of its project.   *)
Escribe(h) ==
  \/ UNCHANGED <<tora, adju>>
  \/ /\ pc[h] \in EnManos
     /\ \A y \in X_PROYs \ {loc[h].X_PROY} : tora'[y] = tora[y] /\ adju'[y] = adju[y]

Ajeno(h) ==
  /\ OtrosQuietos(h) /\ Escribe(h) /\ UNCHANGED <<idmu, duenio, reg>>
  /\ \A g \in Hilo \ {h} : respuesta'[g] = respuesta[g]

Prosigue(h) == pc[h] # "libre" /\ Ajeno(h) /\ loc'[h].ordenes = loc[h].ordenes

LEMMA OtrosPrometen ==
  ASSUME IInv, OInv, NEW h \in Hilo, Ajeno(h), NEW g \in Hilo \ {h}, ajenas[g] \subseteq ajenas'[g]
  PROVE  Promete(idmu', tora', adju', pc'[g], loc'[g], respuesta'[g], ajenas'[g])
<1>1. pc'[g] = pc[g] /\ loc'[g] = loc[g] /\ respuesta'[g] = respuesta[g]
  BY DEF Ajeno, OtrosQuietos
<1>2. loc[g] \in Locales /\ Bien(duenio, numero, pc[g], loc[g]) /\ idmu \subseteq X_PROYs \X Linea
      /\ Promete(idmu, tora, adju, pc[g], loc[g], respuesta[g], ajenas[g])
  BY DEF IInv, Hilos, Tablas, OInv, InvPromete
<1>3. ASSUME Activo(g), NEW l \in LineasEn(loc[g].ordenes) \ ajenas'[g]
      PROVE  Intacta(idmu, tora, adju, idmu', tora', adju', l)
  <2>1. pc[h] \in EnManos => duenio[loc[h].X_PROY] # l
    BY <1>3 DEF OInv, InvPropias, Propias
  <2>2. \A y : <<y, l>> \in idmu => duenio[y] = l
    BY DEF IInv, Tablas, De
  <2> QED BY <2>1, <2>2 DEF Ajeno, Escribe, Intacta
<1> QED BY <1>1, <1>2, <1>3, PrometeIgual DEF Activo

LEMMA ProsperaEnMano ==
  ASSUME IInv, OInv, NEW h \in Hilo, Prosigue(h), \A g \in Hilo : ajenas[g] \subseteq ajenas'[g],
         pc'[h] \in EnManos => \A g \in Hilo \ {h} : Activo(g) =>
           duenio[loc'[h].X_PROY] \notin LineasEn(loc[g].ordenes) \ ajenas'[g],
         Promete(idmu', tora', adju', pc'[h], loc'[h], respuesta'[h], ajenas'[h])
  PROVE  OInv'
<1>1. InvPromete'
  BY OtrosPrometen DEF InvPromete, Prosigue
<1>2. InvPropias'
  <2> SUFFICES ASSUME NEW g \in Hilo, Activo(g)', NEW l \in Propias(g)'
               PROVE  /\ reg'.paso # 0 => reg'.linea # l
                      /\ \A k \in Hilo \ {g} : pc'[k] \in EnManos => duenio'[loc'[k].X_PROY] # l
    BY DEF InvPropias
  <2>1. Activo(g) /\ l \in Propias(g) /\ l \in LineasEn(loc[g].ordenes) \ ajenas'[g]
    BY DEF Activo, Propias, Prosigue, Ajeno, OtrosQuietos
  <2>2. /\ reg.paso # 0 => reg.linea # l
        /\ \A k \in Hilo \ {g} : pc[k] \in EnManos => duenio[loc[k].X_PROY] # l
    BY <2>1 DEF OInv, InvPropias
  <2>3. g # h /\ pc'[h] \in EnManos => duenio[loc'[h].X_PROY] # l
    BY <2>1
  <2> QED BY <2>2, <2>3 DEF Prosigue, Ajeno, OtrosQuietos
<1>3. InvBajas'
  BY DEF OInv, InvBajas, Prosigue, Ajeno
<1> QED BY <1>1, <1>2, <1>3 DEF OInv

LEMMA Prospera ==
  ASSUME IInv, OInv, NEW h \in Hilo, Prosigue(h), UNCHANGED ajenas,
         pc'[h] \in EnManos => pc[h] \in EnManos /\ loc'[h].X_PROY = loc[h].X_PROY,
         Promete(idmu', tora', adju', pc'[h], loc'[h], respuesta'[h], ajenas'[h])
  PROVE  OInv'
<1>1. pc'[h] \in EnManos => \A g \in Hilo \ {h} : Activo(g) =>
        duenio[loc'[h].X_PROY] \notin LineasEn(loc[g].ordenes) \ ajenas'[g]
  BY DEF OInv, InvPropias, Propias
<1> QED BY <1>1, ProsperaEnMano

(* A thread that has noted an error, or answered anything but OK, promises     *)
(* nothing.                                                                  *)
LEMMA NadaPromete ==
  ASSUME NEW m, NEW t, NEW j, NEW p, NEW r, NEW s, NEW a,
         \/ p = "libre" /\ s # "OK"
         \/ p # "libre" /\ r.status # 1
  PROVE  Promete(m, t, j, p, r, s, a)
BY DEF Promete

Fracasa(h) ==
  /\ pc'[h] \notin EnManos /\ OtrosQuietos(h) /\ loc'[h].ordenes = loc[h].ordenes
  /\ \A g \in Hilo \ {h} : respuesta'[g] = respuesta[g]
  /\ IF pc'[h] = "libre" THEN respuesta'[h] # "OK" ELSE loc'[h].status # 1

LEMMA FracasaOk ==
  ASSUME IInv, OInv, NEW h \in Hilo, pc[h] # "libre", Fracasa(h), Escribe(h),
         UNCHANGED <<idmu, duenio, reg, ajenas>>
  PROVE  OInv'
<1>1. Prosigue(h)
  BY DEF Fracasa, Prosigue, Ajeno
<1>2. Promete(idmu', tora', adju', pc'[h], loc'[h], respuesta'[h], ajenas'[h])
  BY NadaPromete DEF Fracasa
<1> QED BY <1>1, <1>2, Prospera DEF Fracasa

LEMMA ContestaFracasa ==
  ASSUME IInv, NEW h \in Hilo, NEW s \in Estado \ {"OK"}, Contesta(h, s)
  PROVE  Fracasa(h)
<1>1. Lejos(h)
  BY ContestaLejos
<1>2. loc'[h].ordenes = loc[h].ordenes /\ pc'[h] = "libre" /\ respuesta'[h] = s
      /\ \A g \in Hilo \ {h} : respuesta'[g] = respuesta[g]
  BY VacioTipo DEF Contesta, Ir, IInv, Hilos, Locales
<1> QED BY <1>1, <1>2 DEF Fracasa, Lejos

LEMMA EscapaFracasa == ASSUME IInv, NEW h \in Hilo, Escapa(h) PROVE Fracasa(h)
BY ContestaFracasa DEF Escapa, Estado

LEMMA AnotaError ==
  ASSUME NEW r \in Locales, NEW o
  PROVE  /\ Anota(r, o, "ERROR").status = 2 /\ Anota(r, o, "ERROR").ordenes = r.ordenes
BY DEF Anota, Locales

LEMMA AnotaBien ==
  ASSUME NEW r \in Locales, NEW o
  PROVE  /\ Anota(r, o, "OK").status = r.status /\ Anota(r, o, "OK").despacho = r.despacho
BY DEF Anota, Locales

LEMMA FallaOrdenFracasa == ASSUME IInv, NEW h \in Hilo, FallaOrden(h) PROVE Fracasa(h)
<1>1. loc[h] \in Locales
  BY DEF IInv, Hilos
<1>2. pc'[h] = "trans" /\ loc'[h] = Anota(loc[h], Orden_i(h), "ERROR") /\ UNCHANGED respuesta
  BY DEF FallaOrden, Ir, IInv, Hilos
<1> QED BY <1>1, <1>2, AnotaError, FallaOrdenLejos DEF Fracasa, Lejos

LEMMA FallaLineaFracasa ==
  ASSUME IInv, NEW h \in Hilo, pc[h] \in EnLineas, FallaLinea(h)
  PROVE  Fracasa(h)
<1>1. loc[h] \in Locales /\ Orden_i(h) \in Orden
  BY Puntos, Orden_iTipo DEF IInv, Hilos
<1>2. PICK r \in Locales : r = Anota(loc[h], Orden_i(h), "ERROR")
  BY <1>1, AnotaTipo
<1>3. SiguienteLinea(h, r) /\ r.status = 2 /\ r.ordenes = loc[h].ordenes
  BY <1>1, <1>2, AnotaError DEF FallaLinea
<1>4. /\ loc'[h] = [r EXCEPT !.l = @ + 1, !.porVer = {}, !.X_PROY = 0, !.resp = 0]
      /\ pc'[h] # "libre" /\ UNCHANGED respuesta
  BY <1>3 DEF SiguienteLinea, Ir, IInv, Hilos
<1>5. loc'[h].status = 2 /\ loc'[h].ordenes = r.ordenes
  BY <1>3, <1>4 DEF Locales
<1> QED BY <1>3, <1>4, <1>5, FallaLineaLejos DEF Fracasa, Lejos

(* A step of the thread that goes well, and what it has written so far.        *)
LEMMA AvanzaOk ==
  ASSUME IInv, OInv, NEW h \in Hilo, Prosigue(h), UNCHANGED ajenas, pc'[h] # "libre",
         pc'[h] \in EnManos => pc[h] \in EnManos /\ loc'[h].X_PROY = loc[h].X_PROY,
         loc'[h].status = 1 => loc[h].status = 1,
         loc'[h].status = 1 /\ Avance(idmu, tora, adju, pc[h], loc[h], ajenas[h]) =>
           Avance(idmu', tora', adju', pc'[h], loc'[h], ajenas[h])
  PROVE  OInv'
<1>1. Promete(idmu, tora, adju, pc[h], loc[h], respuesta[h], ajenas[h])
  BY DEF OInv, InvPromete
<1>2. Promete(idmu', tora', adju', pc'[h], loc'[h], respuesta'[h], ajenas'[h])
  BY <1>1 DEF Promete, Prosigue
<1> QED BY <1>2, Prospera

LEMMA SigueOk ==
  ASSUME IInv, OInv, NEW h \in Hilo, pc[h] # "libre", NEW q, Sigue(h, q), q # "libre",
         q \in EnManos => pc[h] \in EnManos,
         UNCHANGED <<idmu, tora, adju, duenio, reg, ajenas>>,
         Avance(idmu, tora, adju, pc[h], loc[h], ajenas[h]) =>
           Avance(idmu, tora, adju, q, loc[h], ajenas[h])
  PROVE  OInv'
<1>1. pc'[h] = q /\ UNCHANGED <<loc, respuesta>> /\ OtrosQuietos(h)
  BY DEF Sigue, Ir, OtrosQuietos, IInv, Hilos
<1>2. Prosigue(h)
  BY <1>1 DEF Prosigue, Ajeno, Escribe
<1> QED BY <1>1, <1>2, AvanzaOk

-----------------------------------------------------------------------------
(* The steps that write nothing.                                             *)
LEMMA SinEscribir ==
  ASSUME UNCHANGED <<filas, reg, historia>>
  PROVE  /\ UNCHANGED <<idmu, tora, adju, duenio, reg, ajenas>>
         /\ \A h \in Hilo : Escribe(h)
BY DEF filas, historia, Escribe

LEMMA FueraDeLineas ==
  /\ {"responde", "llave", "mercado", "numero", "alta", "contratista", "orden"}
       \cap (EnLineas \cup EnManos \cup {"trans"}) = {}
  /\ "trans" \notin EnLineas \cup EnManos
BY DEF EnLineas, EnProyectos, EnManos

LEMMA EmpiezaOrdenOk == ASSUME IInv, OInv, NEW h \in Hilo, EmpiezaOrden(h) PROVE OInv'
<1>1. pc[h] = "orden" /\ UNCHANGED <<filas, reg, historia>>
  BY DEF EmpiezaOrden
<1>2. ASSUME FallaOrden(h) \/ Contesta(h, "FAIL") PROVE OInv'
  BY <1>1, <1>2, SinEscribir, FallaOrdenFracasa, ContestaFracasa, FracasaOk DEF Estado
<1>3. ASSUME loc[h].i > Len(loc[h].ordenes), Sigue(h, "responde") PROVE OInv'
  BY <1>1, <1>3, SinEscribir, FueraDeLineas, Puntos, SigueOk DEF Avance
<1>4. ASSUME Sigue(h, "llave") PROVE OInv'
  BY <1>1, <1>4, SinEscribir, FueraDeLineas, Puntos, SigueOk DEF Avance
<1> QED BY <1>2, <1>3, <1>4 DEF EmpiezaOrden

LEMMA BuscaLlaveOk == ASSUME IInv, OInv, NEW h \in Hilo, BuscaLlave(h) PROVE OInv'
<1>1. pc[h] = "llave" /\ UNCHANGED <<filas, reg, historia>>
  BY DEF BuscaLlave
<1>2. ASSUME FallaOrden(h) \/ Escapa(h) PROVE OInv'
  BY <1>1, <1>2, SinEscribir, FallaOrdenFracasa, EscapaFracasa, FracasaOk
<1>3. ASSUME Sigue(h, "mercado") PROVE OInv'
  BY <1>1, <1>3, SinEscribir, FueraDeLineas, Puntos, SigueOk DEF Avance
<1> QED BY <1>2, <1>3 DEF BuscaLlave

(* What the thread holds besides its orders, the indices, the number of its   *)
(* dispatch and its projects is of no account here.                          *)
LEMMA AvanceLocal ==
  ASSUME IInv, OInv, NEW h \in Hilo, pc[h] # "libre", OtrosQuietos(h),
         UNCHANGED <<respuesta, filas, reg, historia>>,
         pc'[h] \notin EnManos \cup EnProyectos \cup {"libre", "responde"},
         loc'[h].ordenes = loc[h].ordenes, loc'[h].i = loc[h].i, loc'[h].status = loc[h].status,
         loc'[h].despacho = loc[h].despacho,
         pc'[h] \in EnLineas \cup {"trans"} => loc'[h].l = 1,
         pc'[h] = "trans" => Lista(loc[h]) = <<>>,
         pc'[h] = "linea" => Lista(loc[h]) \in Seq(Linea)
  PROVE  OInv'
<1>1. Prosigue(h) /\ UNCHANGED <<idmu, tora, adju, ajenas>>
  BY SinEscribir DEF Prosigue, Ajeno
<1>2. Lista(loc'[h]) = Lista(loc[h])
  BY DEF Lista
<1>3. EnLineas = EnProyectos \cup {"linea"} /\ "trans" \notin EnLineas
  BY DEF EnLineas, EnProyectos
<1>4. ASSUME Avance(idmu, tora, adju, pc[h], loc[h], ajenas[h])
      PROVE  Avance(idmu, tora, adju, pc'[h], loc'[h], ajenas[h])
  <2>1. OrdenesHechas(idmu, tora, adju, loc'[h], ajenas[h])
    BY <1>4 DEF Avance, OrdenesHechas, LineaDe
  <2>2. pc'[h] = "trans" => LineasHechas(idmu, tora, adju, loc'[h], ajenas[h], Len(Lista(loc'[h])))
    BY <1>2 DEF LineasHechas
  <2>3. pc'[h] = "linea" => LineasHechas(idmu, tora, adju, loc'[h], ajenas[h], loc'[h].l - 1)
    BY <1>2, <1>3 DEF LineasHechas
  <2> QED BY <2>1, <2>2, <2>3, <1>3 DEF Avance
<1> QED BY <1>1, <1>4, AvanzaOk

LEMMA getMercadoOk == ASSUME IInv, OInv, NEW h \in Hilo, getMercado(h) PROVE OInv'
<1>1. pc[h] = "mercado" /\ UNCHANGED <<filas, reg, historia>>
  BY DEF getMercado
<1>2. ASSUME FallaOrden(h) \/ Escapa(h) \/ Contesta(h, "FAIL") PROVE OInv'
  BY <1>1, <1>2, SinEscribir, FallaOrdenFracasa, EscapaFracasa, ContestaFracasa, FracasaOk
     DEF Estado
<1>3. ASSUME Ir(h, IF Items(h) = <<>> THEN "trans" ELSE "contratista"), UNCHANGED respuesta,
             loc' = [loc EXCEPT ![h].prov = <<>>, ![h].l = 1]
      PROVE  OInv'
  <2>1. pc'[h] = (IF Items(h) = <<>> THEN "trans" ELSE "contratista") /\ OtrosQuietos(h)
    BY <1>3 DEF Ir, OtrosQuietos, IInv, Hilos
  <2>2. /\ loc'[h].ordenes = loc[h].ordenes /\ loc'[h].i = loc[h].i /\ loc'[h].l = 1
        /\ loc'[h].status = loc[h].status /\ loc'[h].despacho = loc[h].despacho
    BY <1>3 DEF IInv, Hilos, Locales
  <2>3. Items(h) = Lista(loc[h])
    BY <1>1, Orden_iTipo DEF IInv, EnOrdenes, Punto
  <2>4. {"trans", "contratista"} \cap (EnManos \cup EnProyectos \cup {"libre", "responde", "linea"}) = {}
    BY DEF EnManos, EnProyectos
  <2> QED BY <1>1, <1>3, <2>1, <2>2, <2>3, <2>4, AvanceLocal
<1> QED BY <1>2, <1>3 DEF getMercado

LEMMA ProveedorOk ==
  ASSUME IInv, OInv, NEW h \in Hilo, pc[h] \in EnPersonas, NEW id, Proveedor(h, id),
         UNCHANGED <<filas, reg, historia>>
  PROVE  OInv'
<1>1. pc'[h] \in {"contratista", "linea"} /\ OtrosQuietos(h) /\ UNCHANGED respuesta
  BY DEF Proveedor, Ir, OtrosQuietos, IInv, Hilos
<1>2. /\ loc'[h].ordenes = loc[h].ordenes /\ loc'[h].i = loc[h].i /\ loc'[h].l = loc[h].l
      /\ loc'[h].status = loc[h].status /\ loc'[h].despacho = loc[h].despacho
  BY DEF Proveedor, IInv, Hilos, Locales
<1>3. loc[h].l = 1 /\ pc[h] \in EnOrdenes /\ pc[h] # "libre"
  BY Puntos DEF IInv, Hilos, Bien, EnPersonas
<1>4. Lista(loc[h]) \in Seq(Linea)
  BY <1>3, Orden_iTipo DEF IInv
<1>5. /\ {"contratista", "linea"} \cap (EnManos \cup EnProyectos \cup {"libre", "responde", "trans"}) = {}
  BY DEF EnManos, EnProyectos
<1> QED BY <1>1, <1>2, <1>3, <1>4, <1>5, AvanceLocal

LEMMA BuscaContratistaOk == ASSUME IInv, OInv, NEW h \in Hilo, BuscaContratista(h) PROVE OInv'
<1>1. pc[h] = "contratista" /\ UNCHANGED <<filas, reg, historia>> /\ pc[h] \in EnPersonas
  BY DEF BuscaContratista, EnPersonas
<1>2. (\E id : Proveedor(h, id)) \/ Sigue(h, "numero")
  BY DEF BuscaContratista
<1>3. ASSUME Sigue(h, "numero") PROVE OInv'
  BY <1>1, <1>3, SinEscribir, FueraDeLineas, Puntos, SigueOk DEF Avance
<1> QED BY <1>1, <1>2, <1>3, ProveedorOk

LEMMA NumeroContratistaOk == ASSUME IInv, OInv, NEW h \in Hilo, NumeroContratista(h) PROVE OInv'
<1>1. pc[h] = "numero" /\ UNCHANGED <<filas, reg, historia>> /\ pc[h] \in EnPersonas
  BY DEF NumeroContratista, EnPersonas, filas
<1>2. ASSUME NEW x, Ir(h, "alta"), UNCHANGED respuesta, loc' = [loc EXCEPT ![h].X_CONT = x]
      PROVE  OInv'
  <2>1. pc'[h] = "alta" /\ OtrosQuietos(h)
    BY <1>2 DEF Ir, OtrosQuietos, IInv, Hilos
  <2>2. /\ loc'[h].ordenes = loc[h].ordenes /\ loc'[h].i = loc[h].i
        /\ loc'[h].status = loc[h].status /\ loc'[h].despacho = loc[h].despacho
    BY <1>2 DEF IInv, Hilos, Locales
  <2>3. "alta" \notin EnManos \cup EnLineas \cup EnProyectos \cup {"libre", "responde", "trans"}
    BY DEF EnManos, EnLineas, EnProyectos
  <2> QED BY <1>1, <1>2, <2>1, <2>2, <2>3, AvanceLocal
<1> QED BY <1>1, <1>2, ProveedorOk DEF NumeroContratista

LEMMA AltaContratistaOk == ASSUME IInv, OInv, NEW h \in Hilo, AltaContratista(h) PROVE OInv'
<1>1. UNCHANGED <<filas, reg, historia>> /\ pc[h] \in EnPersonas
  BY DEF AltaContratista, EnPersonas
<1> QED BY <1>1, ProveedorOk DEF AltaContratista

(* A line is done when all its projects are; the loop over them goes on.      *)
Pendiente(h, r) ==
  LET l == Linea_l(h) IN
  l \notin ajenas[h] =>
    /\ \E y \in X_PROYs : <<y, l>> \in idmu
    /\ \A y \in r.porVer : <<y, l>> \in idmu
    /\ \A y \in X_PROYs \ r.porVer : <<y, l>> \in idmu => Hecho(tora, adju, loc[h].despacho, y)

LEMMA SiguienteProyectoOk ==
  ASSUME IInv, OInv, NEW h \in Hilo, pc[h] \in EnLineas, NEW r \in Locales,
         r.ordenes = loc[h].ordenes, r.i = loc[h].i, r.l = loc[h].l, r.status = loc[h].status,
         r.despacho = loc[h].despacho,
         Avance(idmu, tora, adju, pc[h], loc[h], ajenas[h]) => Pendiente(h, r),
         SiguienteProyecto(h, r), UNCHANGED <<filas, reg, historia>>
  PROVE  OInv'
<1> DEFINE l == Linea_l(h)
<1>1. /\ Prosigue(h) /\ UNCHANGED <<idmu, tora, adju, ajenas>> /\ pc'[h] \notin EnManos
      /\ pc[h] \in EnOrdenes
  <2>1. UNCHANGED respuesta
    BY DEF SiguienteProyecto, SiguienteLinea
  <2>2. pc[h] # "libre"
    BY DEF EnLineas, EnProyectos
  <2>3. loc'[h].ordenes = loc[h].ordenes
    <3>1. CASE SiguienteLinea(h, r)
      <4>1. loc'[h] = [r EXCEPT !.l = @ + 1, !.porVer = {}, !.X_PROY = 0, !.resp = 0]
        BY <3>1 DEF SiguienteLinea, IInv, Hilos
      <4> QED BY <4>1 DEF Locales
    <3>2. ASSUME NEW y \in r.porVer,
                 loc' = [loc EXCEPT ![h] = [r EXCEPT !.X_PROY = y, !.porVer = Resto(@, y)]]
          PROVE  loc'[h].ordenes = loc[h].ordenes
      <4>1. loc'[h] = [r EXCEPT !.X_PROY = y, !.porVer = Resto(@, y)]
        BY <3>2 DEF IInv, Hilos
      <4> QED BY <4>1 DEF Locales
    <3> QED BY <3>1, <3>2 DEF SiguienteProyecto
  <2> QED BY <2>1, <2>2, <2>3, SinEscribir, SiguienteProyectoLejos, Puntos DEF Prosigue, Ajeno, Lejos
<1>2. /\ Lista(loc[h]) = Items(h) /\ Items(h) \in Seq(Linea) /\ loc[h].l \in DOMAIN Lista(loc[h])
      /\ l = Lista(loc[h])[loc[h].l] /\ loc[h].l \in Nat
  BY <1>1, Orden_iTipo DEF IInv, Hilos, Bien, Linea_l, Locales
<1>3. CASE r.porVer = {} /\ SiguienteLinea(h, r)
  <2>1. /\ loc'[h] = [r EXCEPT !.l = @ + 1, !.porVer = {}, !.X_PROY = 0, !.resp = 0]
        /\ pc'[h] = IF loc[h].l < Len(Items(h)) THEN "linea" ELSE "trans"
    BY <1>3 DEF SiguienteLinea, Ir, IInv, Hilos
  <2>2. /\ loc'[h].ordenes = loc[h].ordenes /\ loc'[h].i = loc[h].i /\ loc'[h].l = loc[h].l + 1
        /\ loc'[h].despacho = loc[h].despacho /\ loc'[h].status = loc[h].status
    BY <2>1 DEF Locales
  <2>3. Lista(loc'[h]) = Lista(loc[h])
    BY <2>2 DEF Lista
  <2>4. ASSUME Avance(idmu, tora, adju, pc[h], loc[h], ajenas[h])
        PROVE  Avance(idmu, tora, adju, pc'[h], loc'[h], ajenas[h])
    <3>1. l \notin ajenas[h] => Cumplida(idmu, tora, adju, loc[h].despacho, l)
      BY <1>3, <2>4 DEF Pendiente, Cumplida
    <3>2. LineasHechas(idmu, tora, adju, loc[h], ajenas[h], loc[h].l - 1)
      BY <2>4 DEF Avance
    <3>3. LineasHechas(idmu, tora, adju, loc'[h], ajenas[h], loc[h].l)
      <4> SUFFICES ASSUME NEW k \in DOMAIN Lista(loc[h]), k <= loc[h].l, Lista(loc[h])[k] \notin ajenas[h]
                   PROVE  Cumplida(idmu, tora, adju, loc[h].despacho, Lista(loc[h])[k])
        BY <2>2, <2>3 DEF LineasHechas
      <4>1. CASE k = loc[h].l
        BY <1>2, <3>1, <4>1
      <4>2. CASE k # loc[h].l
        <5>1. k <= loc[h].l - 1
          BY <1>2, <4>2
        <5> QED BY <3>2, <5>1 DEF LineasHechas
      <4> QED BY <4>1, <4>2
    <3>4. OrdenesHechas(idmu, tora, adju, loc'[h], ajenas[h])
      BY <2>2, <2>4 DEF Avance, OrdenesHechas, LineaDe
    <3>5. pc'[h] = "trans" => LineasHechas(idmu, tora, adju, loc'[h], ajenas[h], Len(Lista(loc'[h])))
      <4>1. pc'[h] = "trans" => \A k \in DOMAIN Lista(loc[h]) : k <= loc[h].l
        BY <1>2, <2>1
      <4> QED BY <2>3, <3>3, <4>1 DEF LineasHechas
    <3>6. loc'[h].l - 1 = loc[h].l
      BY <1>2, <2>2
    <3>7. pc'[h] \in {"linea", "trans"} /\ {"linea", "trans"} \cap EnProyectos = {}
      BY <2>1 DEF EnProyectos
    <3> QED BY <3>3, <3>4, <3>5, <3>6, <3>7 DEF Avance
  <2>5. pc'[h] # "libre"
    BY <2>1
  <2> QED BY <1>1, <2>2, <2>4, <2>5, AvanzaOk
<1>4. ASSUME NEW y \in r.porVer, Ir(h, "proyecto"),
             loc' = [loc EXCEPT ![h] = [r EXCEPT !.X_PROY = y, !.porVer = Resto(@, y)]]
      PROVE  OInv'
  <2>1. /\ loc'[h] = [r EXCEPT !.X_PROY = y, !.porVer = Resto(@, y)] /\ pc'[h] = "proyecto"
    BY <1>4 DEF Ir, IInv, Hilos
  <2>2. /\ loc'[h].ordenes = loc[h].ordenes /\ loc'[h].i = loc[h].i /\ loc'[h].l = loc[h].l
        /\ loc'[h].despacho = loc[h].despacho /\ loc'[h].status = loc[h].status
        /\ loc'[h].X_PROY = y /\ loc'[h].porVer = r.porVer \ {y}
    BY <2>1 DEF Locales, Resto
  <2>3. Lista(loc'[h]) = Lista(loc[h])
    BY <2>2 DEF Lista
  <2>4. ASSUME Avance(idmu, tora, adju, pc[h], loc[h], ajenas[h])
        PROVE  Avance(idmu, tora, adju, pc'[h], loc'[h], ajenas[h])
    <3>1. OrdenesHechas(idmu, tora, adju, loc'[h], ajenas[h])
      BY <2>2, <2>4 DEF Avance, OrdenesHechas, LineaDe
    <3>2. LineasHechas(idmu, tora, adju, loc'[h], ajenas[h], loc'[h].l - 1)
      BY <2>2, <2>3, <2>4 DEF Avance, LineasHechas
    <3>3. ASSUME l \notin ajenas[h] PROVE EnCurso(idmu, tora, adju, "proyecto", loc'[h])
      <4>1. Pendiente(h, r)
        BY <2>4
      <4> QED BY <1>2, <1>4, <2>2, <2>3, <3>3, <4>1 DEF Pendiente, EnCurso
    <3> QED BY <1>2, <2>1, <2>2, <2>3, <3>1, <3>2, <3>3 DEF Avance
  <2>5. pc'[h] # "libre"
    BY <2>1
  <2> QED BY <1>1, <2>2, <2>4, <2>5, AvanzaOk
<1> QED BY <1>3, <1>4 DEF SiguienteProyecto

LEMMA DeLaLinea ==
  ASSUME IInv, NEW l, NEW y
  PROVE  y \in {f[1] : f \in {g \in idmu : g[2] = l}} <=> y \in X_PROYs /\ <<y, l>> \in idmu
<1>1. ASSUME NEW f \in idmu PROVE f = <<f[1], f[2]>> /\ f[1] \in X_PROYs
  BY DEF IInv, Tablas
<1>2. <<y, l>>[1] = y /\ <<y, l>>[2] = l
  OBVIOUS
<1>3. <<y, l>> \in idmu => y \in X_PROYs
  BY <1>1, <1>2
<1> QED BY <1>1, <1>2, <1>3

LEMMA BuscaLineaOk == ASSUME IInv, OInv, NEW h \in Hilo, BuscaLinea(h) PROVE OInv'
<1>1. pc[h] = "linea" /\ UNCHANGED <<filas, reg, historia>> /\ pc[h] \in EnLineas
  BY DEF BuscaLinea, EnLineas
<1>2. ASSUME FallaLinea(h) \/ Escapa(h) PROVE OInv'
  BY <1>1, <1>2, SinEscribir, FallaLineaFracasa, EscapaFracasa, FracasaOk
<1>3. ASSUME ProyectosDe(h) # {}, SiguienteProyecto(h, [loc[h] EXCEPT !.porVer = ProyectosDe(h)])
      PROVE  OInv'
  <2>1. \A y : y \in ProyectosDe(h) <=> y \in X_PROYs /\ <<y, Linea_l(h)>> \in idmu
    BY DeLaLinea DEF ProyectosDe
  <2>2. PICK s : s = [loc[h] EXCEPT !.porVer = ProyectosDe(h)]
    OBVIOUS
  <2>3. /\ s \in Locales /\ s.ordenes = loc[h].ordenes /\ s.i = loc[h].i /\ s.l = loc[h].l
        /\ s.status = loc[h].status /\ s.despacho = loc[h].despacho /\ s.porVer = ProyectosDe(h)
    BY <2>1, <2>2 DEF IInv, Hilos, Locales
  <2>4. SiguienteProyecto(h, s)
    BY <1>3, <2>2
  <2>5. Pendiente(h, s)
    BY <1>3, <2>1, <2>3 DEF Pendiente
  <2> QED BY <1>1, <2>3, <2>4, <2>5, SiguienteProyectoOk
<1> QED BY <1>2, <1>3 DEF BuscaLinea

(* The projects of a line in turn.                                           *)
LEMMA Puestos ==
  ASSUME NEW p \in EnProyectos
  PROVE  p \in EnLineas /\ p \notin {"libre", "responde", "trans"}
BY DEF EnLineas, EnProyectos

LEMMA SigueEnCurso ==
  ASSUME IInv, OInv, NEW h \in Hilo, pc[h] \in EnProyectos, NEW q \in EnProyectos, Sigue(h, q),
         q \in EnManos => pc[h] \in EnManos, UNCHANGED <<filas, reg, historia>>,
         EnCurso(idmu, tora, adju, pc[h], loc[h]) => EnCurso(idmu, tora, adju, q, loc[h])
  PROVE  OInv'
<1>1. Avance(idmu, tora, adju, pc[h], loc[h], ajenas[h]) =>
        Avance(idmu, tora, adju, q, loc[h], ajenas[h])
  BY Puestos DEF Avance
<1> QED BY <1>1, Puestos, SinEscribir, SigueOk

LEMMA LeeProyectoOk == ASSUME IInv, OInv, NEW h \in Hilo, LeeProyecto(h) PROVE OInv'
<1>1. pc[h] = "proyecto" /\ UNCHANGED <<filas, reg, historia>> /\ pc[h] \in EnProyectos \cap EnLineas
  BY DEF LeeProyecto, EnLineas, EnProyectos
<1>2. ASSUME FallaLinea(h) \/ Escapa(h) PROVE OInv'
  BY <1>1, <1>2, SinEscribir, FallaLineaFracasa, EscapaFracasa, FracasaOk
<1>3. ASSUME Sigue(h, "respTora") PROVE OInv'
  <2>1. "respTora" \in EnProyectos \ EnManos
    BY DEF EnProyectos, EnManos
  <2> QED BY <1>1, <1>3, <2>1, SigueEnCurso DEF EnCurso
<1> QED BY <1>2, <1>3 DEF LeeProyecto

(* Who takes a project in hand says so to all others who have its line.       *)
LEMMA RespaldaToraOk == ASSUME IInv, OInv, NEW h \in Hilo, RespaldaTora(h) PROVE OInv'
<1> DEFINE y == loc[h].X_PROY
<1>1. /\ pc[h] = "respTora" /\ UNCHANGED <<filas, reg>> /\ PorOtros({h}, duenio[y])
      /\ UNCHANGED <<idmu, tora, adju, duenio, reg>> /\ pc[h] \in EnProyectos \cap EnLineas
  BY DEF RespaldaTora, filas, EnProyectos, EnLineas
<1>2. y \in X_PROYs /\ duenio[y] \in Linea /\ loc[h] \in Locales
  BY <1>1, EnProyecto DEF De
<1>3. /\ ajenas'[h] = ajenas[h] /\ \A g \in Hilo : ajenas[g] \subseteq ajenas'[g]
      /\ \A g \in Hilo \ {h} : Activo(g) => duenio[y] \notin LineasEn(loc[g].ordenes) \ ajenas'[g]
  BY <1>1 DEF PorOtros, Activo
<1>4. ASSUME Promete(idmu', tora', adju', pc'[h], loc'[h], respuesta'[h], ajenas[h]),
             OtrosQuietos(h), loc'[h].ordenes = loc[h].ordenes,
             \A g \in Hilo \ {h} : respuesta'[g] = respuesta[g],
             pc'[h] \in EnManos => loc'[h].X_PROY = y
      PROVE  OInv'
  <2>1. Prosigue(h)
    BY <1>1, <1>4 DEF Prosigue, Ajeno, Escribe
  <2> QED BY <1>3, <1>4, <2>1, ProsperaEnMano
<1>5. ASSUME FallaLinea(h) \/ Escapa(h) PROVE OInv'
  <2>1. Fracasa(h)
    BY <1>1, <1>5, FallaLineaFracasa, EscapaFracasa
  <2>2. Promete(idmu', tora', adju', pc'[h], loc'[h], respuesta'[h], ajenas[h])
    BY <2>1, NadaPromete DEF Fracasa
  <2> QED BY <1>4, <2>1, <2>2 DEF Fracasa
<1>6. ASSUME HayTora(y), Ir(h, "respAdju"), loc' = [loc EXCEPT ![h].resp = tora[y]],
             UNCHANGED respuesta
      PROVE  OInv'
  <2>1. pc'[h] = "respAdju" /\ OtrosQuietos(h)
    BY <1>6 DEF Ir, OtrosQuietos, IInv, Hilos
  <2>2. /\ loc'[h].ordenes = loc[h].ordenes /\ loc'[h].i = loc[h].i /\ loc'[h].l = loc[h].l
        /\ loc'[h].status = loc[h].status /\ loc'[h].despacho = loc[h].despacho
        /\ loc'[h].X_PROY = y /\ loc'[h].porVer = loc[h].porVer
    BY <1>6 DEF IInv, Hilos, Locales
  <2>3. Lista(loc'[h]) = Lista(loc[h])
    BY <2>2 DEF Lista
  <2>4. "respAdju" \in EnProyectos
    BY DEF EnProyectos
  <2>5. ASSUME Avance(idmu, tora, adju, pc[h], loc[h], ajenas[h])
        PROVE  Avance(idmu, tora, adju, "respAdju", loc'[h], ajenas[h])
    <3>1. EnCurso(idmu, tora, adju, pc[h], loc[h]) => EnCurso(idmu, tora, adju, "respAdju", loc'[h])
      BY <1>6, <2>2, <2>3 DEF EnCurso, HayTora
    <3>2. OrdenesHechas(idmu, tora, adju, loc'[h], ajenas[h])
      BY <2>2, <2>5 DEF Avance, OrdenesHechas, LineaDe
    <3>3. LineasHechas(idmu, tora, adju, loc'[h], ajenas[h], loc'[h].l - 1)
      BY <1>1, <2>2, <2>3, <2>5 DEF Avance, LineasHechas
    <3> QED BY <1>1, <2>2, <2>3, <2>4, <2>5, <3>1, <3>2, <3>3, Puestos DEF Avance
  <2>6. Promete(idmu, tora, adju, pc[h], loc[h], respuesta[h], ajenas[h])
    BY DEF OInv, InvPromete
  <2>7. Promete(idmu', tora', adju', pc'[h], loc'[h], respuesta'[h], ajenas[h])
    BY <1>1, <2>1, <2>2, <2>5, <2>6 DEF Promete
  <2> QED BY <1>4, <1>6, <2>1, <2>2, <2>7
<1> QED BY <1>5, <1>6 DEF RespaldaTora

LEMMA RespaldaAdjuOk == ASSUME IInv, OInv, NEW h \in Hilo, RespaldaAdju(h) PROVE OInv'
<1>1. pc[h] = "respAdju" /\ UNCHANGED <<filas, reg, historia>> /\ pc[h] \in EnProyectos \cap EnLineas
  BY DEF RespaldaAdju, EnLineas, EnProyectos
<1>2. ASSUME FallaLinea(h) \/ Escapa(h) PROVE OInv'
  BY <1>1, <1>2, SinEscribir, FallaLineaFracasa, EscapaFracasa, FracasaOk
<1>3. ASSUME Sigue(h, "updTora"), HayAdju(loc[h].X_PROY) PROVE OInv'
  <2>1. "updTora" \in EnProyectos /\ pc[h] \in EnManos
    BY <1>1 DEF EnProyectos, EnManos
  <2>2. EnCurso(idmu, tora, adju, pc[h], loc[h]) => EnCurso(idmu, tora, adju, "updTora", loc[h])
    BY <1>1, <1>3 DEF EnCurso, HayAdju
  <2> QED BY <1>1, <1>3, <2>1, <2>2, SigueEnCurso
<1> QED BY <1>2, <1>3 DEF RespaldaAdju

(* To write a row for the same dispatch once more takes nothing back.          *)
LEMMA AvanceMejora ==
  ASSUME NEW m, NEW t, NEW j, NEW tt, NEW jj, NEW p, NEW q \in EnProyectos, NEW r, NEW a,
         p \in EnProyectos, Avance(m, t, j, p, r, a),
         \A y \in X_PROYs : Hecho(t, j, r.despacho, y) => Hecho(tt, jj, r.despacho, y),
         EnCurso(m, t, j, p, r) => EnCurso(m, tt, jj, q, r)
  PROVE  Avance(m, tt, jj, q, r, a)
<1>1. \A l : Cumplida(m, t, j, r.despacho, l) => Cumplida(m, tt, jj, r.despacho, l)
  BY DEF Cumplida
<1>2. OrdenesHechas(m, tt, jj, r, a)
  BY <1>1 DEF Avance, OrdenesHechas
<1>3. LineasHechas(m, tt, jj, r, a, r.l - 1)
  BY <1>1, Puestos DEF Avance, LineasHechas
<1> QED BY <1>2, <1>3, Puestos DEF Avance

LEMMA ActualizaToraOk == ASSUME IInv, OInv, NEW h \in Hilo, ActualizaTora(h) PROVE OInv'
<1> DEFINE y == loc[h].X_PROY
           d == loc[h].despacho
<1>1. /\ pc[h] = "updTora" /\ UNCHANGED <<idmu, adju, duenio, reg, ajenas>>
      /\ pc[h] \in EnProyectos \cap EnLineas \cap EnManos /\ y \in X_PROYs /\ d \in Nat
  <2>1. pc[h] = "updTora" /\ UNCHANGED <<idmu, adju, duenio, reg, ajenas>>
    BY DEF ActualizaTora
  <2>2. pc[h] \in EnProyectos \cap EnLineas \cap EnManos
    BY <2>1 DEF EnProyectos, EnLineas, EnManos
  <2> QED BY <2>1, <2>2, EnProyecto DEF Locales
<1>2. ASSUME FallaLinea(h) \/ Escapa(h), UNCHANGED tora PROVE OInv'
  BY <1>1, <1>2, FallaLineaFracasa, EscapaFracasa, FracasaOk DEF Escribe
<1>3. ASSUME EscribeTora(y, d), Sigue(h, "updAdju") PROVE OInv'
  <2>1. /\ tora[y] # Sin => tora'[y] = d
        /\ tora[y] = Sin => UNCHANGED tora
        /\ \A z \in X_PROYs \ {y} : tora'[z] = tora[z]
    BY <1>1, <1>3 DEF EscribeTora, IInv, Tablas
  <2>2. d # Sin /\ "updAdju" \in EnProyectos \cap EnManos
    BY <1>1 DEF Sin, EnProyectos, EnManos
  <2>3. pc'[h] = "updAdju" /\ UNCHANGED <<loc, respuesta>> /\ OtrosQuietos(h)
    BY <1>3 DEF Sigue, Ir, OtrosQuietos, IInv, Hilos
  <2>4. Prosigue(h)
    BY <1>1, <2>1, <2>3 DEF Prosigue, Ajeno, Escribe, EnManos
  <2>5. \A z \in X_PROYs : Hecho(tora, adju, d, z) => Hecho(tora', adju', d, z)
    BY <1>1, <2>1, <2>2 DEF Hecho
  <2>6. EnCurso(idmu, tora, adju, pc[h], loc[h]) => EnCurso(idmu, tora', adju', "updAdju", loc[h])
    BY <1>1, <2>1, <2>2, <2>5 DEF EnCurso
  <2>7. Avance(idmu, tora, adju, pc[h], loc[h], ajenas[h]) =>
          Avance(idmu', tora', adju', pc'[h], loc'[h], ajenas[h])
    <3>1. Avance(idmu, tora, adju, pc[h], loc[h], ajenas[h]) =>
            Avance(idmu, tora', adju', "updAdju", loc[h], ajenas[h])
      BY <1>1, <2>2, <2>5, <2>6, AvanceMejora
    <3> QED BY <1>1, <2>3, <3>1
  <2> QED BY <1>1, <2>3, <2>4, <2>7, AvanzaOk
<1> QED BY <1>2, <1>3 DEF ActualizaTora

LEMMA ActualizaAdjuOk == ASSUME IInv, OInv, NEW h \in Hilo, ActualizaAdju(h) PROVE OInv'
<1> DEFINE y == loc[h].X_PROY
           d == loc[h].despacho
           x == [de |-> d, cont |-> loc[h].prov[loc[h].l]]
<1>1. /\ pc[h] = "updAdju" /\ UNCHANGED <<idmu, tora, duenio, reg, ajenas>>
      /\ pc[h] \in EnProyectos \cap EnLineas \cap EnManos /\ y \in X_PROYs /\ d \in Nat
  <2>1. pc[h] = "updAdju" /\ UNCHANGED <<idmu, tora, duenio, reg, ajenas>>
    BY DEF ActualizaAdju
  <2>2. pc[h] \in EnProyectos \cap EnLineas \cap EnManos
    BY <2>1 DEF EnProyectos, EnLineas, EnManos
  <2> QED BY <2>1, <2>2, EnProyecto DEF Locales
<1>2. ASSUME Escapa(h), UNCHANGED adju PROVE OInv'
  BY <1>1, <1>2, EscapaFracasa, FracasaOk DEF Escribe
<1>3. ASSUME NEW q \in {"oc", "vuelta"}, Sigue(h, q),
             \A z \in X_PROYs \ {y} : adju'[z] = adju[z],
             q = "oc" /\ adju[y].de # Sin => adju'[y].de = d,
             q = "vuelta" \/ adju[y].de = Sin => UNCHANGED adju
      PROVE  OInv'
  <2>1. d # Sin /\ q \in EnProyectos \cap EnManos
    BY <1>1 DEF Sin, EnProyectos, EnManos
  <2>2. pc'[h] = q /\ UNCHANGED <<loc, respuesta>> /\ OtrosQuietos(h)
    BY <1>3 DEF Sigue, Ir, OtrosQuietos, IInv, Hilos
  <2>3. Prosigue(h)
    BY <1>1, <1>3, <2>2 DEF Prosigue, Ajeno, Escribe, EnManos
  <2>4. \A z \in X_PROYs : Hecho(tora, adju, d, z) => Hecho(tora', adju', d, z)
    BY <1>1, <1>3, <2>1 DEF Hecho
  <2>5. EnCurso(idmu, tora, adju, pc[h], loc[h]) => EnCurso(idmu, tora', adju', q, loc[h])
    <3>1. ASSUME EnCurso(idmu, tora, adju, pc[h], loc[h]) PROVE q = "oc" => Hecho(tora', adju', d, y)
      BY <1>1, <1>3, <3>1 DEF EnCurso, Hecho
    <3> QED BY <1>1, <2>4, <3>1 DEF EnCurso
  <2>6. Avance(idmu, tora, adju, pc[h], loc[h], ajenas[h]) =>
          Avance(idmu', tora', adju', pc'[h], loc'[h], ajenas[h])
    <3>1. Avance(idmu, tora, adju, pc[h], loc[h], ajenas[h]) =>
            Avance(idmu, tora', adju', q, loc[h], ajenas[h])
      BY <1>1, <2>1, <2>4, <2>5, AvanceMejora
    <3> QED BY <1>1, <2>2, <3>1
  <2>7. pc'[h] # "libre"
    BY <1>3, <2>2
  <2> QED BY <1>1, <2>1, <2>2, <2>3, <2>6, <2>7, AvanzaOk
<1>4. ASSUME Sigue(h, "oc"), adju' = IF adju[y].de = Sin THEN adju ELSE [adju EXCEPT ![y] = x]
      PROVE  OInv'
  <2>1. /\ adju[y].de = Sin => UNCHANGED adju
        /\ adju[y].de # Sin => adju'[y] = x
        /\ \A z \in X_PROYs \ {y} : adju'[z] = adju[z]
    BY <1>1, <1>4 DEF IInv, Tablas
  <2>2. x.de = d
    OBVIOUS
  <2> HIDE DEF x
  <2> QED BY <1>3, <1>4, <2>1, <2>2
<1>5. ASSUME Sigue(h, "vuelta"), UNCHANGED adju PROVE OInv'
  BY <1>3, <1>5
<1> QED BY <1>2, <1>4, <1>5 DEF ActualizaAdju, FallaConVuelta

LEMMA UPDATEOCOk == ASSUME IInv, OInv, NEW h \in Hilo, UPDATEOC(h) PROVE OInv'
<1>1. /\ pc[h] = "oc" /\ UNCHANGED <<filas, reg, historia>>
      /\ pc[h] \in EnProyectos \cap EnLineas
  BY DEF UPDATEOC, EnProyectos, EnLineas
<1>2. ASSUME FallaLinea(h) PROVE OInv'
  BY <1>1, <1>2, SinEscribir, FallaLineaFracasa, FracasaOk
<1>3. ASSUME SiguienteProyecto(h, Anota(loc[h], Orden_i(h), "OK")) PROVE OInv'
  <2>1. loc[h] \in Locales /\ Orden_i(h) \in Orden /\ Linea_l(h) = Lista(loc[h])[loc[h].l]
    BY <1>1, EnProyecto, Puntos, Orden_iTipo
  <2>2. PICK s \in Locales : s = Anota(loc[h], Orden_i(h), "OK")
    BY <2>1, AnotaTipo
  <2>3. /\ s.ordenes = loc[h].ordenes /\ s.i = loc[h].i /\ s.l = loc[h].l
        /\ s.porVer = loc[h].porVer /\ s.status = loc[h].status /\ s.despacho = loc[h].despacho
    BY <2>1, <2>2, AnotaTipo, AnotaBien
  <2>4. SiguienteProyecto(h, s)
    BY <1>3, <2>2
  <2>5. loc[h].X_PROY \in X_PROYs
    BY <1>1, EnProyecto
  <2>6. ASSUME Avance(idmu, tora, adju, pc[h], loc[h], ajenas[h]) PROVE Pendiente(h, s)
    <3>1. SUFFICES ASSUME Linea_l(h) \notin ajenas[h]
                   PROVE  /\ \E y \in X_PROYs : <<y, Linea_l(h)>> \in idmu
                          /\ \A y \in s.porVer : <<y, Linea_l(h)>> \in idmu
                          /\ \A y \in X_PROYs \ s.porVer : <<y, Linea_l(h)>> \in idmu =>
                               Hecho(tora, adju, loc[h].despacho, y)
      BY DEF Pendiente
    <3>2. EnCurso(idmu, tora, adju, pc[h], loc[h])
      BY <1>1, <2>1, <2>6, <3>1 DEF Avance
    <3> QED BY <1>1, <2>1, <2>3, <2>5, <3>2 DEF EnCurso
  <2> QED BY <1>1, <2>3, <2>4, <2>6, SiguienteProyectoOk
<1> QED BY <1>2, <1>3 DEF UPDATEOC

LEMMA DeshaceOk == ASSUME IInv, OInv, NEW h \in Hilo, Deshace(h) PROVE OInv'
<1>1. /\ pc[h] = "vuelta" /\ UNCHANGED <<idmu, adju, duenio, reg, ajenas>>
      /\ FallaLinea(h) \/ Escapa(h)
      /\ EscribeTora(loc[h].X_PROY, loc[h].resp) \/ UNCHANGED tora
  BY DEF Deshace
<1>2. pc[h] \in EnLineas \cap EnManos
  BY <1>1 DEF EnLineas, EnProyectos, EnManos
<1>3. Escribe(h)
  BY <1>1, <1>2 DEF Escribe, EscribeTora, IInv, Tablas
<1> QED BY <1>1, <1>2, <1>3, FallaLineaFracasa, EscapaFracasa, FracasaOk

LEMMA INTRANSOk == ASSUME IInv, OInv, NEW h \in Hilo, INTRANS(h) PROVE OInv'
<1>1. pc[h] = "trans" /\ UNCHANGED <<filas, reg, historia>>
  BY DEF INTRANS
<1>2. ASSUME Escapa(h) PROVE OInv'
  BY <1>1, <1>2, SinEscribir, EscapaFracasa, FracasaOk
<1>3. ASSUME Ir(h, "orden"), UNCHANGED respuesta,
             loc' = [loc EXCEPT ![h].i = @ + 1, ![h].l = 1, ![h].prov = <<>>]
      PROVE  OInv'
  <2>1. pc'[h] = "orden" /\ OtrosQuietos(h)
    BY <1>3 DEF Ir, OtrosQuietos, IInv, Hilos
  <2>2. /\ loc'[h].ordenes = loc[h].ordenes /\ loc'[h].i = loc[h].i + 1
        /\ loc'[h].status = loc[h].status /\ loc'[h].despacho = loc[h].despacho
    BY <1>3 DEF IInv, Hilos, Locales
  <2>3. Prosigue(h) /\ UNCHANGED <<idmu, tora, adju, ajenas>>
    BY <1>1, <1>3, <2>1, <2>2, SinEscribir DEF Prosigue, Ajeno
  <2>4. ASSUME Avance(idmu, tora, adju, pc[h], loc[h], ajenas[h])
        PROVE  Avance(idmu, tora, adju, "orden", loc'[h], ajenas[h])
    <3>1. /\ LineasHechas(idmu, tora, adju, loc[h], ajenas[h], Len(Lista(loc[h])))
          /\ OrdenesHechas(idmu, tora, adju, loc[h], ajenas[h])
      BY <1>1, <2>4 DEF Avance
    <3>2. Lista(loc[h]) \in Seq(Linea) /\ loc[h].ordenes \in Seq(Elemento) /\ loc[h].i \in Nat
      BY <1>1, Orden_iTipo DEF IInv, EnOrdenes, Punto, Hilos, Locales
    <3>3. \A k \in DOMAIN Lista(loc[h]) : Lista(loc[h])[k] \notin ajenas[h] =>
            Cumplida(idmu, tora, adju, loc[h].despacho, Lista(loc[h])[k])
      BY <3>1, <3>2 DEF LineasHechas
    <3>4. ASSUME NEW i \in DOMAIN loc[h].ordenes, i < loc'[h].i,
                 NEW k \in DOMAIN LineasDe[loc[h].ordenes[i].orden],
                 LineaDe(loc[h], i, k) \notin ajenas[h]
          PROVE  Cumplida(idmu, tora, adju, loc[h].despacho, LineaDe(loc[h], i, k))
      <4>1. CASE i = loc[h].i
        BY <3>3, <3>4, <4>1 DEF LineaDe, Lista
      <4>2. CASE i # loc[h].i
        <5>1. i < loc[h].i
          BY <2>2, <3>2, <3>4, <4>2
        <5> QED BY <3>1, <3>4, <5>1 DEF OrdenesHechas
      <4> QED BY <4>1, <4>2
    <3>5. OrdenesHechas(idmu, tora, adju, loc'[h], ajenas[h])
      BY <2>2, <3>4 DEF OrdenesHechas, LineaDe
    <3> QED BY <3>5, FueraDeLineas, Puntos DEF Avance
  <2>5. "orden" \notin EnManos /\ "orden" # "libre"
    BY FueraDeLineas
  <2> QED BY <2>1, <2>2, <2>3, <2>4, <2>5, AvanzaOk
<1> QED BY <1>2, <1>3 DEF INTRANS

(* All orders, and nothing noted against any of them.                        *)
LEMMA responseOk == ASSUME IInv, OInv, NEW h \in Hilo, response(h) PROVE OInv'
<1>1. /\ pc[h] = "responde" /\ UNCHANGED <<filas, reg, historia>>
      /\ UNCHANGED <<idmu, tora, adju, duenio, reg, ajenas>>
  BY DEF response, filas, historia
<1>2. PICK s \in Estado : Contesta(h, s) /\ (s = "OK" <=> loc[h].status = 1)
  <2> DEFINE s == IF loc[h].status = 1 THEN "OK"
                  ELSE IF \E e \in loc[h].ordes_back : e[2] = "OK" THEN "IMPACT" ELSE "FAIL"
  <2>1. Contesta(h, s)
    BY DEF response
  <2>2. s \in Estado /\ (s = "OK" <=> loc[h].status = 1)
    BY DEF Estado
  <2> HIDE DEF s
  <2> QED BY <2>1, <2>2
<1>3. CASE s # "OK"
  BY <1>1, <1>2, <1>3, SinEscribir, ContestaFracasa, FracasaOk
<1>4. CASE s = "OK"
  <2>1. Lejos(h)
    BY <1>2, ContestaLejos
  <2>2. /\ pc'[h] = "libre" /\ loc'[h].ordenes = loc[h].ordenes /\ loc'[h].despacho = loc[h].despacho
        /\ \A g \in Hilo \ {h} : respuesta'[g] = respuesta[g]
    BY <1>2, VacioTipo DEF Contesta, Ir, IInv, Hilos, Locales
  <2>3. Prosigue(h)
    BY <1>1, <2>1, <2>2, SinEscribir DEF Prosigue, Ajeno, Lejos
  <2>4. Promete(idmu, tora, adju, pc[h], loc[h], respuesta[h], ajenas[h])
    BY DEF OInv, InvPromete
  <2>5. Avance(idmu, tora, adju, pc[h], loc[h], ajenas[h])
    BY <1>1, <1>2, <1>4, <2>4 DEF Promete
  <2>6. \A i \in DOMAIN loc[h].ordenes : i < loc[h].i
    <3>1. loc[h].i > Len(loc[h].ordenes) /\ loc[h].ordenes \in Seq(Elemento) /\ loc[h].i \in Nat
      BY <1>1, <2>5 DEF Avance, IInv, Hilos, Locales
    <3> QED BY <3>1
  <2>7. TodoHecho(idmu, tora, adju, loc'[h], ajenas[h])
    BY <2>2, <2>5, <2>6 DEF Avance, OrdenesHechas, TodoHecho, LineaDe
  <2>8. Promete(idmu', tora', adju', pc'[h], loc'[h], respuesta'[h], ajenas'[h])
    BY <1>1, <2>2, <2>7 DEF Promete
  <2> QED BY <1>1, <2>1, <2>3, <2>8, Prospera DEF Lejos
<1> QED BY <1>3, <1>4

(* A dispatch starts from nothing, and knows whose hands its lines are in.     *)
LEMMA DespachaOk ==
  ASSUME IInv, OInv, NEW h \in Hilo, NEW os \in Seq(Elemento), pc[h] = "libre", Despacha(h, os)
  PROVE  OInv'
<1> DEFINE r == [Vacio EXCEPT !.ordenes = os, !.despacho = despachos + 1]
<1>1. /\ pc'[h] = "orden" /\ loc'[h] = r /\ OtrosQuietos(h)
      /\ \A g \in Hilo \ {h} : respuesta'[g] = respuesta[g] /\ ajenas'[g] = ajenas[g]
      /\ UNCHANGED <<idmu, tora, adju, duenio, reg>>
  BY DEF Despacha, Ir, OtrosQuietos, IInv, Hilos, Historia, filas
<1>2. ajenas'[h] = LineasEn(os) \cap
        ({duenio[y] : y \in {z \in DOMAIN duenio : \E g \in Hilo \ {h} : EnMano(g, z)}}
           \cup (IF reg.paso = 0 THEN {} ELSE {reg.linea}))
  BY DEF Despacha, IInv, Historia
<1>3. r.ordenes = os /\ r.i = 1
  BY DEF Vacio
<1>4. Ajeno(h)
  BY <1>1 DEF Ajeno, Escribe
<1>5. Avance(idmu, tora, adju, "orden", r, ajenas'[h])
  <2>1. OrdenesHechas(idmu, tora, adju, r, ajenas'[h])
    BY <1>3 DEF OrdenesHechas
  <2> QED BY <2>1, FueraDeLineas, Puntos DEF Avance
<1>6. InvPromete'
  <2>1. Promete(idmu', tora', adju', pc'[h], loc'[h], respuesta'[h], ajenas'[h])
    BY <1>1, <1>5 DEF Promete
  <2> QED BY <1>1, <1>4, <2>1, OtrosPrometen DEF InvPromete
<1>7. InvPropias'
  <2> SUFFICES ASSUME NEW g \in Hilo, Activo(g)', NEW l \in Propias(g)'
               PROVE  /\ reg'.paso # 0 => reg'.linea # l
                      /\ \A k \in Hilo \ {g} : pc'[k] \in EnManos => duenio'[loc'[k].X_PROY] # l
    BY DEF InvPropias
  <2>1. CASE g # h
    <3>1. Activo(g) /\ l \in Propias(g)
      BY <1>1, <2>1 DEF Activo, Propias, OtrosQuietos
    <3>2. pc'[h] \notin EnManos
      BY <1>1, FueraDeLineas
    <3> QED BY <1>1, <3>1, <3>2 DEF OInv, InvPropias, OtrosQuietos
  <2>2. CASE g = h
    <3>1. l \in LineasEn(os) /\ l \notin ajenas'[h]
      BY <1>1, <1>3, <2>2 DEF Propias
    <3>2. reg.paso # 0 => reg.linea # l
      BY <1>2, <3>1
    <3>3. ASSUME NEW k \in Hilo \ {h}, pc[k] \in EnManos PROVE duenio[loc[k].X_PROY] # l
      <4>1. loc[k].X_PROY \in DOMAIN duenio
        BY <3>3, EnProyecto DEF EnManos, EnProyectos
      <4>2. EnMano(k, loc[k].X_PROY)
        BY <3>3 DEF EnMano, EnManos
      <4> QED BY <1>2, <3>1, <4>1, <4>2
    <3> QED BY <1>1, <2>2, <3>2, <3>3 DEF OtrosQuietos
  <2> QED BY <2>1, <2>2
<1>8. InvBajas'
  BY <1>1 DEF OInv, InvBajas
<1> QED BY <1>6, <1>7, <1>8 DEF OInv

LEMMA processOk ==
  ASSUME IInv, OInv, NEW h \in Hilo, process(h) \/ processwsp(h)
  PROVE  OInv'
<1>1. CASE process(h)
  <2>1. PICK p \in Pedidos[h] : Despacha(h, p.ordenes)
    BY <1>1 DEF process
  <2>2. p.ordenes \in Seq(Elemento)
    BY AdjudicacionAssumption DEF Pedido
  <2> QED BY <1>1, <2>1, <2>2, DespachaOk DEF process
<1>2. CASE processwsp(h)
  <2>1. loc[h].ordenes \in Seq(Elemento)
    BY DEF IInv, Hilos, Locales
  <2> QED BY <1>2, <2>1, DespachaOk DEF processwsp
<1> QED BY <1>1, <1>2

-----------------------------------------------------------------------------
(* The registration touches the rows of its line alone, which is nobody's.    *)
LEMMA RegistroPromete ==
  ASSUME IInv, OInv, UNCHANGED <<pc, loc, respuesta>>,
         \A g \in Hilo : ajenas[g] \subseteq ajenas'[g],
         \A l \in Linea : (reg.paso # 0 /\ reg.linea = l) \/ Intacta(idmu, tora, adju, idmu', tora', adju', l)
  PROVE  InvPromete'
<1> SUFFICES ASSUME NEW g \in Hilo
             PROVE  Promete(idmu', tora', adju', pc[g], loc[g], respuesta[g], ajenas'[g])
  BY DEF InvPromete
<1>1. loc[g] \in Locales /\ Bien(duenio, numero, pc[g], loc[g]) /\ idmu \subseteq X_PROYs \X Linea
      /\ Promete(idmu, tora, adju, pc[g], loc[g], respuesta[g], ajenas[g])
  BY DEF IInv, Hilos, Tablas, OInv, InvPromete
<1>2. ASSUME Activo(g), NEW l \in LineasEn(loc[g].ordenes) \ ajenas'[g]
      PROVE  Intacta(idmu, tora, adju, idmu', tora', adju', l)
  BY <1>2 DEF OInv, InvPropias, Propias, LineasEn
<1> QED BY <1>1, <1>2, PrometeIgual DEF Activo

LEMMA RegistroPropias ==
  ASSUME IInv, OInv, UNCHANGED <<pc, loc, respuesta>>, Extiende(duenio, duenio'),
         \A g \in Hilo : ajenas[g] \subseteq ajenas'[g],
         reg'.paso # 0 => \A g \in Hilo : Activo(g) => reg'.linea \notin Propias(g)'
  PROVE  InvPropias'
<1> SUFFICES ASSUME NEW g \in Hilo, Activo(g)', NEW l \in Propias(g)'
             PROVE  /\ reg'.paso # 0 => reg'.linea # l
                    /\ \A k \in Hilo \ {g} : pc'[k] \in EnManos => duenio'[loc'[k].X_PROY] # l
  BY DEF InvPropias
<1>1. Activo(g) /\ l \in Propias(g)
  BY DEF Activo, Propias
<1>2. \A k \in Hilo : pc[k] \in EnManos => duenio'[loc[k].X_PROY] = duenio[loc[k].X_PROY]
  BY EnProyecto DEF EnManos, EnProyectos, Extiende
<1> QED BY <1>1, <1>2 DEF OInv, InvPropias

LEMMA SiguienteViejaOk ==
  ASSUME IInv, NEW l \in Linea, NEW ys \in SUBSET X_PROYs, SiguienteVieja(l, ys),
         \A y \in ys : De(duenio, l, y)
  PROVE  InvBajas' /\ reg'.linea = l /\ Extiende(duenio, duenio')
<1>1. CASE ys = {}
  <2>1. /\ duenio' = Append(duenio, l)
        /\ reg' = [linea |-> l, paso |-> 5, X_PROY |-> Len(duenio) + 1, viejos |-> {}]
    BY <1>1 DEF SiguienteVieja, Nueva
  <2> QED BY <2>1, Anexo DEF InvBajas, IInv, Tablas
<1>2. CASE ys # {}
  <2>1. PICK y \in ys : reg' = [linea |-> l, paso |-> 1, X_PROY |-> y, viejos |-> ys \ {y}]
    BY <1>2 DEF SiguienteVieja, Vieja
  <2>2. UNCHANGED duenio
    BY <1>2 DEF SiguienteVieja, Vieja
  <2> QED BY <2>1, <2>2, Igual DEF InvBajas
<1> QED BY <1>1, <1>2

LEMMA RegistraOk ==
  ASSUME IInv, OInv, NEW l \in Registrables, Registra(l)
  PROVE  OInv'
<1> DEFINE ys == {f[1] : f \in {g \in idmu : g[2] = l}}
<1>1. /\ SiguienteVieja(l, ys) /\ PorOtros({}, l)
      /\ UNCHANGED <<idmu, tora, adju, pc, loc, respuesta>>
  BY DEF Registra
<1>2. l \in Linea /\ ys \in SUBSET X_PROYs /\ \A y \in ys : De(duenio, l, y)
  BY AdjudicacionAssumption DEF IInv, Tablas
<1>3. InvBajas' /\ reg'.linea = l /\ Extiende(duenio, duenio')
  <2> HIDE DEF ys
  <2> QED BY <1>1, <1>2, SiguienteViejaOk
<1>4. /\ \A g \in Hilo : ajenas[g] \subseteq ajenas'[g]
      /\ \A g \in Hilo : Activo(g) => l \notin Propias(g)'
  BY <1>1 DEF PorOtros, Activo, Propias
<1>5. InvPromete'
  BY <1>1, <1>4, RegistroPromete DEF Intacta
<1>6. InvPropias'
  BY <1>1, <1>3, <1>4, RegistroPropias
<1> QED BY <1>3, <1>5, <1>6 DEF OInv

LEMMA delFromGeoOk == ASSUME IInv, OInv, delFromGeo PROVE OInv'
<1> DEFINE x == reg.X_PROY
<1>1. /\ UNCHANGED <<pc, loc, respuesta, ajenas>> /\ reg.paso \in 1..4
      /\ idmu' = IF reg.paso = 1 THEN {f \in idmu : f[1] # x} ELSE idmu
      /\ adju' = IF reg.paso = 2 THEN [adju EXCEPT ![x] = Registrada(Sin)] ELSE adju
      /\ tora' = IF reg.paso = 3 THEN [tora EXCEPT ![x] = Sin] ELSE tora
      /\ IF reg.paso = 4 THEN SiguienteVieja(reg.linea, reg.viejos)
         ELSE reg' = [reg EXCEPT !.paso = @ + 1] /\ UNCHANGED duenio
  BY DEF delFromGeo, historia
<1>2. /\ x \in X_PROYs /\ reg \in Registros /\ reg.linea \in Linea /\ reg.viejos \in SUBSET X_PROYs
      /\ tora \in [X_PROYs -> Nat \cup {Sin}] /\ adju \in [X_PROYs -> Adju]
      /\ \A y \in reg.viejos \cup {x} : De(duenio, reg.linea, y)
  BY <1>1 DEF IInv, Tablas, Registros, OInv, InvBajas
<1>3. ASSUME NEW l \in Linea, reg.linea # l PROVE Intacta(idmu, tora, adju, idmu', tora', adju', l)
  <2>1. ASSUME NEW y \in X_PROYs, y # x
        PROVE  (<<y, l>> \in idmu' <=> <<y, l>> \in idmu) /\ tora'[y] = tora[y] /\ adju'[y] = adju[y]
    BY <1>1, <1>2, <2>1
  <2>2. <<x, l>> \notin idmu
    BY <1>2, <1>3 DEF IInv, Tablas, De
  <2>3. <<x, l>> \notin idmu'
    BY <1>1, <2>2
  <2> QED BY <2>1, <2>2, <2>3 DEF Intacta
<1>4. InvBajas' /\ reg'.linea = reg.linea /\ Extiende(duenio, duenio')
  <2>1. CASE reg.paso = 4
    BY <1>1, <1>2, <2>1, SiguienteViejaOk
  <2>2. CASE reg.paso # 4
    <3>1. reg' = [reg EXCEPT !.paso = @ + 1] /\ UNCHANGED duenio
      BY <1>1, <2>2
    <3>2. reg'.linea = reg.linea /\ reg'.X_PROY = x /\ reg'.viejos = reg.viejos
      BY <1>2, <3>1 DEF Registros
    <3> QED BY <1>2, <3>1, <3>2, Igual DEF InvBajas
  <2> QED BY <2>1, <2>2
<1>5. InvPromete'
  <2>1. \A l \in Linea : (reg.paso # 0 /\ reg.linea = l) \/ Intacta(idmu, tora, adju, idmu', tora', adju', l)
    <3>1. reg.paso # 0
      BY <1>1
    <3> QED BY <1>3, <3>1
  <2>2. UNCHANGED <<pc, loc, respuesta>> /\ \A g \in Hilo : ajenas[g] \subseteq ajenas'[g]
    BY <1>1
  <2> QED BY <2>1, <2>2, RegistroPromete
<1>6. \A g \in Hilo : Activo(g) => reg'.linea \notin Propias(g)'
  BY <1>1, <1>4 DEF OInv, InvPropias, Propias
<1>7. InvPropias'
  BY <1>1, <1>4, <1>6, RegistroPropias
<1> QED BY <1>4, <1>5, <1>7 DEF OInv

LEMMA INFilasOk == ASSUME IInv, OInv, INFilas PROVE OInv'
<1> DEFINE x == reg.X_PROY
<1>1. /\ UNCHANGED <<pc, loc, respuesta, ajenas, duenio>> /\ reg.paso \in 5..8
      /\ idmu' = IF reg.paso = 6 THEN idmu \cup {<<x, reg.linea>>} ELSE idmu
      /\ tora' = IF reg.paso = 7 THEN [tora EXCEPT ![x] = 0] ELSE tora
      /\ adju' = IF reg.paso = 8 THEN [adju EXCEPT ![x] = Registrada(0)] ELSE adju
      /\ reg' = IF reg.paso = 8 THEN Quieta ELSE [reg EXCEPT !.paso = @ + 1]
  BY DEF INFilas, historia
<1>2. /\ x \in X_PROYs /\ reg \in Registros /\ De(duenio, reg.linea, x)
      /\ tora \in [X_PROYs -> Nat \cup {Sin}] /\ adju \in [X_PROYs -> Adju]
  BY <1>1 DEF IInv, Tablas
<1>3. ASSUME NEW l \in Linea, reg.linea # l PROVE Intacta(idmu, tora, adju, idmu', tora', adju', l)
  <2>1. ASSUME NEW y \in X_PROYs, y # x PROVE tora'[y] = tora[y] /\ adju'[y] = adju[y]
    BY <1>1, <1>2, <2>1
  <2>2. <<x, l>> \notin idmu
    BY <1>2, <1>3 DEF IInv, Tablas, De
  <2>3. \A y : <<y, l>> \in idmu' <=> <<y, l>> \in idmu
    BY <1>1, <1>3
  <2> QED BY <2>1, <2>2, <2>3 DEF Intacta
<1>4. /\ reg'.paso # 0 => reg.paso # 0 /\ reg'.linea = reg.linea
      /\ reg'.paso \notin 1..4
  BY <1>1, <1>2, QuietaTipo DEF Registros
<1>5. InvPromete'
  <2>1. \A l \in Linea : (reg.paso # 0 /\ reg.linea = l) \/ Intacta(idmu, tora, adju, idmu', tora', adju', l)
    <3>1. reg.paso # 0
      BY <1>1
    <3> QED BY <1>3, <3>1
  <2>2. UNCHANGED <<pc, loc, respuesta>> /\ \A g \in Hilo : ajenas[g] \subseteq ajenas'[g]
    BY <1>1
  <2> QED BY <2>1, <2>2, RegistroPromete
<1>6. reg'.paso # 0 => \A g \in Hilo : Activo(g) => reg'.linea \notin Propias(g)'
  BY <1>1, <1>4 DEF OInv, InvPropias, Propias
<1>7. InvPropias'
  BY <1>1, <1>6, Igual, RegistroPropias
<1> QED BY <1>4, <1>5, <1>7 DEF OInv, InvBajas

(* After a restart nobody has promised anything.                             *)
LEMMA CaidaOk == ASSUME IInv, OInv, Caida PROVE OInv'
<1>1. /\ pc' = [h \in Hilo |-> "libre"] /\ respuesta' = [h \in Hilo |-> ""] /\ reg' = Quieta
  BY DEF Caida
<1>2. InvPromete'
  BY <1>1, NadaPromete DEF InvPromete
<1>3. InvPropias'
  BY <1>1 DEF InvPropias, Activo
<1>4. InvBajas'
  <2>1. reg'.paso = 0
    BY <1>1, QuietaTipo
  <2> QED BY <2>1 DEF InvBajas
<1> QED BY <1>2, <1>3, <1>4 DEF OInv

LEMMA InicialOk == ASSUME Init PROVE OInv
<1>1. /\ pc = [h \in Hilo |-> "libre"] /\ respuesta = [h \in Hilo |-> ""] /\ reg = Quieta
  BY DEF Init
<1>2. InvPromete
  BY <1>1, NadaPromete DEF InvPromete
<1>3. InvPropias
  BY <1>1 DEF InvPropias, Activo
<1>4. InvBajas
  <2>1. reg.paso = 0
    BY <1>1, QuietaTipo
  <2> QED BY <2>1 DEF InvBajas
<1> QED BY <1>2, <1>3, <1>4 DEF OInv

LEMMA SiguienteOk == IInv /\ OInv /\ [Next]_vars => OInv'
<1> SUFFICES ASSUME IInv, OInv, [Next]_vars PROVE OInv'
  OBVIOUS
<1>1. ASSUME NEW h \in Hilo, process(h) \/ Paso(h) PROVE OInv'
  BY <1>1, processOk, EmpiezaOrdenOk, BuscaLlaveOk, getMercadoOk, BuscaContratistaOk,
     NumeroContratistaOk, AltaContratistaOk, BuscaLineaOk, LeeProyectoOk, RespaldaToraOk,
     RespaldaAdjuOk, ActualizaToraOk, ActualizaAdjuOk, UPDATEOCOk, DeshaceOk, INTRANSOk,
     responseOk DEF Paso
<1>2. CASE Registro
  BY <1>2, RegistraOk, delFromGeoOk, INFilasOk DEF Registro
<1>3. CASE Caida
  BY <1>3, CaidaOk
<1>4. CASE UNCHANGED vars
  <2>1. UNCHANGED <<idmu, tora, adju, duenio, pc, loc, respuesta, reg, ajenas>>
    BY <1>4 DEF vars, filas, historia
  <2> QED BY <2>1 DEF OInv, InvPromete, InvPropias, Activo, Propias, InvBajas
<1> QED BY <1>1, <1>2, <1>3, <1>4 DEF Next

LEMMA LoPrometido == ASSUME IInv, OInv PROVE OkEscrito
<1> SUFFICES ASSUME NEW h \in Hilo, pc[h] = "libre", respuesta[h] = "OK",
                    NEW i \in DOMAIN loc[h].ordenes,
                    NEW k \in DOMAIN LineasDe[loc[h].ordenes[i].orden],
                    LineasDe[loc[h].ordenes[i].orden][k] \notin ajenas[h]
             PROVE  LET l  == LineasDe[loc[h].ordenes[i].orden][k]
                        ys == {f[1] : f \in {g \in idmu : g[2] = l}} IN
                    /\ ys # {}
                    /\ \A y \in ys : tora[y] = loc[h].despacho /\ adju[y].de = loc[h].despacho
  BY DEF OkEscrito
<1> DEFINE l  == LineasDe[loc[h].ordenes[i].orden][k]
           ys == {f[1] : f \in {g \in idmu : g[2] = l}}
<1>1. Cumplida(idmu, tora, adju, loc[h].despacho, l)
  BY DEF OInv, InvPromete, Promete, TodoHecho, LineaDe
<1> HIDE DEF l
<1>2. \A y : y \in ys <=> y \in X_PROYs /\ <<y, l>> \in idmu
  BY DeLaLinea
<1> HIDE DEF ys
<1>3. ys # {} /\ \A y \in ys : tora[y] = loc[h].despacho /\ adju[y].de = loc[h].despacho
  BY <1>1, <1>2 DEF Cumplida, Hecho
<1> QED BY <1>3 DEF ys, l

(* STATUS OK is the truth (AdjudicacionWs.java:88-330): for any threads,       *)
(* orders, lines, failures, restarts and registrations, both rows of every    *)
(* project of every line were written by that very call, or somebody else     *)
(* has had the line since the call came.                                     *)
THEOREM OkEscritoSiempre == Spec => []OkEscrito
<1>1. Init => OInv
  BY InicialOk
<1>2. IInv /\ OInv => OkEscrito
  BY LoPrometido
<1> QED BY <1>1, <1>2, InvSiempre, SiguienteOk, PTL DEF Spec
===============================================================================
