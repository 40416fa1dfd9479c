------------------------- MODULE CacheRespuestaProofs -------------------------
(***************************************************************************)
(* For any workers, requests and cleaners: type correctness of the cache,  *)
(* that a request only fails by its own query or by being overlapped, and  *)
(* that the daemon lives as long as it is the only cleaner.                *)
(***************************************************************************)
EXTENDS CacheRespuesta, TLAPS

(* What a worker that nobody has overlapped since its request arrived may  *)
(* rely on: the field is not null, nobody else is in put, it has not been  *)
(* sent to DEFAULT, the entry it has seen is still there, and the letters  *)
(* tested before were not the one of the entry.                            *)
Limpio(w) == pc[w] # "libre" /\ ~pisado[w] /\ Tipo[res[w].peticion] # "N"
Obrero(w) ==
  Limpio(w) =>
    /\ ~nula /\ ~Poniendo(w) /\ res[w].ruta = "propia"
    /\ pc[w] \in {"tipo1", "tipo2", "rescate"} => Hallada(w)
    /\ pc[w] = "tipo1" /\ res[w].letra = "A" => Tipo[res[w].peticion] = "A"
    /\ pc[w] = "tipo2" => res[w].letra = "O" /\ Tipo[res[w].peticion] = "O"
InvTrabajo == \A w \in Hilo : Obrero(w)

(* The daemon is the only one that can have set the field to null.         *)
InvDaemon == (nula => limpia[Daemon] = "crea") /\ DaemonVive

-----------------------------------------------------------------------------
(* Type correctness.                                                       *)

TipoTrabajo ==
  /\ pc \in [Hilo -> Punto] /\ res \in [Hilo -> Respuesta]
  /\ fin \in [Hilo -> Final] /\ pisado \in [Hilo -> BOOLEAN]

LEMMA RespuestaTipo == SinRespuesta \in Respuesta /\ \A h \in Hash : RespuestaDe(h) \in Respuesta
<1>1. \A h \in Hash : RespuestaDe(h) \in Respuesta
  BY CacheAssumption DEF RespuestaDe, Respuesta, Dato, Vacio
<1>2. (CHOOSE h \in Hash : TRUE) \in Hash
  BY CacheAssumption
<1> QED BY <1>1, <1>2 DEF SinRespuesta

LEMMA TerminaTipo ==
  ASSUME TipoTrabajo, NEW w \in Hilo, NEW c \in Final, Termina(w, c)
  PROVE  TipoTrabajo'
BY RespuestaTipo DEF TipoTrabajo, Termina, Ir, Punto

LEMMA SigueTipo ==
  ASSUME TipoTrabajo, NEW w \in Hilo, NEW p \in Punto, NEW r \in Respuesta, Sigue(w, p, r)
  PROVE  TipoTrabajo'
BY DEF TipoTrabajo, Sigue, Ir

LEMMA PruebaTipo ==
  ASSUME TipoTrabajo, NEW w \in Hilo, NEW p \in Punto, NEW l \in {"O", "A"}, Prueba(w, p, l)
  PROVE  TipoTrabajo'
<1>0. res[w] \in Respuesta
  BY DEF TipoTrabajo
<1>1. [res[w] EXCEPT !.letra = l, !.visto = 0] \in Respuesta
  <2>1. [res[w] EXCEPT !.letra = l] \in Respuesta
    BY <1>0 DEF Respuesta
  <2>2. \A r \in Respuesta : [r EXCEPT !.visto = 0] \in Respuesta
    BY DEF Respuesta
  <2>3. [[res[w] EXCEPT !.letra = l] EXCEPT !.visto = 0]
          = [res[w] EXCEPT !.letra = l, !.visto = 0]
    BY <1>0 DEF Respuesta
  <2> QED BY <2>1, <2>2, <2>3
<1> QED BY <1>1, SigueTipo DEF Prueba

LEMMA OtraVistaTipo ==
  ASSUME TipoTrabajo, NEW w \in Hilo, res[w].visto < 2, OtraVista(w)
  PROVE  TipoTrabajo'
<1>1. [res[w] EXCEPT !.visto = @ + 1] \in Respuesta
  BY DEF TipoTrabajo, Respuesta
<1>2. pc[w] \in Punto
  BY DEF TipoTrabajo
<1> QED BY <1>1, <1>2, SigueTipo DEF OtraVista

LEMMA LanzaTipo ==
  ASSUME TipoTrabajo, NEW w \in Hilo, Lanza(w)
  PROVE  TipoTrabajo'
<1>1. [res[w] EXCEPT !.ruta = "DEFAULT"] \in Respuesta
  BY DEF TipoTrabajo, Respuesta
<1>2. "verifica" \in Punto /\ "error" \in Final
  BY DEF Punto, Final
<1> QED BY <1>1, <1>2, SigueTipo, TerminaTipo DEF Lanza

LEMMA ConTipoTipo ==
  ASSUME TipoTrabajo, NEW w \in Hilo, NEW t, pc[w] \in {"tipo1", "tipo2"}, ConTipo(w, t)
  PROVE  TipoTrabajo'
<1>1. "rescate" \in Punto /\ "tipo2" \in Punto /\ "sinDatos" \in Final
  BY DEF Punto, Final
<1>2. \/ Prueba(w, "rescate", "A") \/ Prueba(w, "tipo2", "O")
      \/ Prueba(w, "rescate", "O") \/ Termina(w, "sinDatos")
  BY DEF ConTipo
<1> QED BY <1>1, <1>2, PruebaTipo, TerminaTipo

(* What worker steps do to the type of the other variables.                *)
LEMMA PasoTipo ==
  ASSUME TypeOK, NEW w \in Hilo, Recibe(w) \/ Paso(w)
  PROVE  TipoTrabajo'
<1> TipoTrabajo
  BY DEF TypeOK, TipoTrabajo
<1>1. CASE Recibe(w)
  BY <1>1, RespuestaTipo DEF Recibe, TipoTrabajo, Ir, Punto, Final, TypeOK, Poniendo
<1>2. CASE policie(w)
  <2>1. Prueba(w, "tipo1", "O") \/ Sigue(w, "accion", res[w]) \/ Lanza(w)
    BY <1>2 DEF policie
  <2>2. "tipo1" \in Punto /\ "accion" \in Punto /\ res[w] \in Respuesta
    BY DEF Punto, TipoTrabajo
  <2> QED BY <2>1, <2>2, PruebaTipo, SigueTipo, LanzaTipo
<1>3. CASE verifyCacheType(w)
  <2>1. /\ pc[w] \in {"tipo1", "tipo2"} /\ pc[w] \in Punto
        /\ \/ res[w].visto = 0 /\ OtraVista(w)
           \/ Prueba(w, pc[w], "A") \/ ConTipo(w, "N") \/ ConTipo(w, res[w].letra) \/ Lanza(w)
    BY <1>3 DEF verifyCacheType, TipoTrabajo
  <2> QED BY <2>1, PruebaTipo, ConTipoTipo, LanzaTipo, OtraVistaTipo
<1>4. CASE getCache(w)
  <2>1. \/ res[w].visto < 2 /\ OtraVista(w)
        \/ Termina(w, "datos") \/ Termina(w, "sinDatos") \/ Lanza(w)
    BY <1>4 DEF getCache
  <2>2. "datos" \in Final /\ "sinDatos" \in Final
    BY DEF Final
  <2> QED BY <2>1, <2>2, OtraVistaTipo, TerminaTipo, LanzaTipo
<1>5. CASE accion(w)
  <2>1. \/ Termina(w, "error") \/ Termina(w, "errorConsulta")
        \/ Sigue(w, "guarda", [res[w] EXCEPT !.dato = base[res[w].peticion]])
        \/ Sigue(w, "guarda", [res[w] EXCEPT !.dato = Vacio])
    BY <1>5 DEF accion
  <2>2. /\ [res[w] EXCEPT !.dato = base[res[w].peticion]] \in Respuesta
        /\ [res[w] EXCEPT !.dato = Vacio] \in Respuesta
    <3>1. res[w] \in Respuesta
      BY DEF TipoTrabajo
    <3>2. base[res[w].peticion] \in Dato /\ Vacio \in Dato
      BY <3>1, CacheAssumption DEF TypeOK, Respuesta, Dato, Vacio
    <3>3. \A d \in Dato : [res[w] EXCEPT !.dato = d] \in Respuesta
      BY <3>1 DEF Respuesta
    <3> QED BY <3>2, <3>3
  <2>3. "guarda" \in Punto /\ "error" \in Final /\ "errorConsulta" \in Final
    BY DEF Punto, Final
  <2> QED BY <2>1, <2>2, <2>3, TerminaTipo, SigueTipo
<1>6. CASE setCache(w)
  <2>1. \/ Termina(w, "datos") \/ Termina(w, "error")
        \/ Ir(w, "pone") /\ pisado' = Pisa(w) /\ UNCHANGED <<res, fin>>
    BY <1>6 DEF setCache
  <2>2. CASE Ir(w, "pone") /\ pisado' = Pisa(w) /\ UNCHANGED <<res, fin>>
    BY <2>2 DEF TipoTrabajo, Ir, Pisa, Punto
  <2>3. "datos" \in Final /\ "error" \in Final
    BY DEF Final
  <2> QED BY <2>1, <2>2, <2>3, TerminaTipo
<1>7. CASE pone(w)
  <2>1. /\ pc' = [pc EXCEPT ![w] = "libre"]
        /\ fin' = [fin EXCEPT ![w] = "error"] \/ fin' = [fin EXCEPT ![w] = "datos"]
        /\ res' = [res EXCEPT ![w] = SinRespuesta]
        /\ pisado' = [Pisa(w) EXCEPT ![w] = FALSE]
    BY <1>7 DEF pone, Ir
  <2> QED BY <2>1, RespuestaTipo DEF TipoTrabajo, Pisa, Punto, Final
<1> QED BY <1>1, <1>2, <1>3, <1>4, <1>5, <1>6, <1>7 DEF Paso

LEMMA TablaTipo ==
  ASSUME TypeOK, NEW w \in Hilo, pone(w)
  PROVE  \E S \in SUBSET Hash : tabla' \in [S -> Dato]
<1>1. PICK S \in SUBSET Hash : tabla \in [S -> Dato]
  BY DEF TypeOK
<1>2. res[w].peticion \in Hash /\ res[w].dato \in Dato
  BY DEF TypeOK, Respuesta
<1> DEFINE T == S \cup {res[w].peticion}
           llena == Con(res[w].peticion, res[w].dato)
<1>3. T \in SUBSET Hash /\ llena \in [T -> Dato]
  BY <1>1, <1>2 DEF Con
<1>4. ASSUME NEW R \in SUBSET DOMAIN llena
      PROVE  Solo(llena, R) \in [R -> Dato] /\ R \in SUBSET Hash
  BY <1>3 DEF Solo
<1>5. \/ tabla' = tabla \/ tabla' = llena
      \/ \E R \in SUBSET DOMAIN llena : tabla' = Solo(llena, R)
  BY DEF pone
<1>6. CASE \E R \in SUBSET DOMAIN llena : tabla' = Solo(llena, R)
  <2>1. PICK R \in SUBSET DOMAIN llena : tabla' = Solo(llena, R)
    BY <1>6
  <2>2. Solo(llena, R) \in [R -> Dato] /\ R \in SUBSET Hash
    BY <1>4
  <2> QED BY <2>1, <2>2
<1>7. CASE tabla' = tabla
  BY <1>1, <1>7
<1>8. CASE tabla' = llena
  BY <1>3, <1>8
<1> QED BY <1>5, <1>6, <1>7, <1>8

(* The variables keep their types, whatever the constants: in particular   *)
(* the counter of the daemon never passes its limit, which cleanup tests   *)
(* with ==, and the table only holds answers of requests.                  *)
THEOREM CacheTipos == Spec => []TypeOK
<1>1. Init => TypeOK
  <2> SUFFICES ASSUME Init PROVE TypeOK
    OBVIOUS
  <2>1. tabla \in [{} -> Dato] /\ {} \in SUBSET Hash
    BY DEF Init
  <2>2. base \in [Hash -> 0..MaxVersion] /\ fallas \in 0..MaxFallas /\ cuenta \in 0..Periodo
    BY CacheAssumption DEF Init
  <2>3. pc \in [Hilo -> Punto] /\ res \in [Hilo -> Respuesta] /\ fin \in [Hilo -> Final]
    BY RespuestaTipo DEF Init, Punto, Final
  <2>4. limpia \in [Limpian -> {"libre", "largo", "anula", "crea", "muerto"}]
    BY DEF Init
  <2>5. nula \in BOOLEAN /\ cruce \in [Hilo -> BOOLEAN] /\ pisado \in [Hilo -> BOOLEAN]
    BY DEF Init
  <2> QED BY <2>1, <2>2, <2>3, <2>4, <2>5 DEF TypeOK
<1>2. TypeOK /\ [Next]_vars => TypeOK'
  <2> SUFFICES ASSUME TypeOK, [Next]_vars PROVE TypeOK'
    OBVIOUS
  <2> USE CacheAssumption
  <2>1. CASE \E w \in Hilo : Recibe(w) \/ Paso(w)
    <3>1. PICK w \in Hilo : Recibe(w) \/ Paso(w)
      BY <2>1
    <3>2. TipoTrabajo'
      BY <3>1, PasoTipo
    <3>3. UNCHANGED <<nula, base, limpia, cuenta>>
      BY <3>1 DEF Recibe, Paso, policie, verifyCacheType, getCache, accion, setCache, pone
    <3>4. \E S \in SUBSET Hash : tabla' \in [S -> Dato]
      <4>1. pone(w) \/ UNCHANGED tabla
        BY <3>1 DEF Recibe, Paso, policie, verifyCacheType, getCache, accion, setCache
      <4>2. CASE UNCHANGED tabla
        BY <4>2 DEF TypeOK
      <4> QED BY <4>1, <4>2, TablaTipo
    <3>5. fallas' \in 0..MaxFallas
      <4>1. UNCHANGED fallas \/ (fallas < MaxFallas /\ fallas' = fallas + 1)
        BY <3>1 DEF Recibe, Paso, policie, verifyCacheType, getCache, accion, setCache, pone
      <4> QED BY <4>1 DEF TypeOK
    <3>6. cruce' \in [Hilo -> BOOLEAN]
      <4>1. \/ UNCHANGED cruce \/ cruce' = [cruce EXCEPT ![w] = FALSE]
            \/ cruce' = [v \in Hilo |-> IF v = w THEN Poniendo(w) ELSE cruce[v] \/ pc[v] = "pone"]
        BY <3>1 DEF Recibe, Paso, policie, verifyCacheType, getCache, accion, setCache, pone
      <4> QED BY <4>1 DEF TypeOK, Poniendo
    <3> QED BY <3>2, <3>3, <3>4, <3>5, <3>6 DEF TypeOK, TipoTrabajo
  <2>2. CASE \E l \in Limpian : CleanCache(l) \/ Clean(l)
    <3>1. PICK l \in Limpian : CleanCache(l) \/ Clean(l)
      BY <2>2
    <3>2. UNCHANGED <<base, fallas, pc, res, fin, cruce>>
      BY <3>1 DEF CleanCache, Clean, CleanLargo, CleanAnula, CleanCrea, trabajo
    <3>3. limpia' \in [Limpian -> {"libre", "largo", "anula", "crea", "muerto"}]
      BY <3>1 DEF CleanCache, Clean, CleanLargo, CleanAnula, CleanCrea, TypeOK
    <3>4. cuenta' \in 0..Periodo
      BY <3>1 DEF CleanCache, Clean, CleanLargo, CleanAnula, CleanCrea, TypeOK, Reinicio
    <3>5. nula' \in BOOLEAN /\ pisado' \in [Hilo -> BOOLEAN]
      BY <3>1 DEF CleanCache, Clean, CleanLargo, CleanAnula, CleanCrea, TypeOK
    <3>6. \E S \in SUBSET Hash : tabla' \in [S -> Dato]
      <4>1. UNCHANGED tabla \/ tabla' = TablaNueva
        BY <3>1 DEF CleanCache, Clean, CleanLargo, CleanAnula, CleanCrea
      <4>2. CASE UNCHANGED tabla
        BY <4>2 DEF TypeOK
      <4>3. TablaNueva \in [{} -> Dato] /\ {} \in SUBSET Hash
        BY DEF TablaNueva
      <4> QED BY <4>1, <4>2, <4>3
    <3> QED BY <3>2, <3>3, <3>4, <3>5, <3>6 DEF TypeOK
  <2>3. CASE cleanup
    BY <2>3 DEF cleanup, trabajo, TypeOK
  <2>4. CASE \E h \in Hash : CambiaDatos(h)
    BY <2>4 DEF CambiaDatos, TypeOK
  <2>5. CASE UNCHANGED vars
    BY <2>5 DEF vars, TypeOK
  <2> QED BY <2>1, <2>2, <2>3, <2>4, <2>5 DEF Next
<1> QED BY <1>1, <1>2, PTL DEF Spec

-----------------------------------------------------------------------------
(* A request fails only when it is overlapped.                             *)

(* What InvTrabajo says of a worker survives the steps that touch neither  *)
(* the worker nor the table and bring nobody into put.                     *)
LEMMA ObreroAjeno ==
  ASSUME NEW v \in Hilo, Obrero(v), UNCHANGED <<tabla, nula>>,
         pc'[v] = pc[v], res'[v] = res[v], pisado'[v] = pisado[v],
         \A u \in Hilo : pc'[u] = "pone" => pc[u] = "pone"
  PROVE  Obrero(v)'
BY DEF Obrero, Limpio, Hallada, Poniendo

(* Nothing is said of an overlapped worker, nor of an idle one.            *)
LEMMA ObreroLibre ==
  ASSUME NEW v \in Hilo, pisado'[v] \/ pc'[v] = "libre"
  PROVE  Obrero(v)'
BY DEF Obrero, Limpio

LEMMA ObreroTermina ==
  ASSUME TypeOK, NEW w \in Hilo, NEW c, Termina(w, c)
  PROVE  /\ Obrero(w)'
         /\ \A v \in Hilo \ {w} : pc'[v] = pc[v] /\ res'[v] = res[v] /\ pisado'[v] = pisado[v]
         /\ \A u \in Hilo : pc'[u] = "pone" => pc[u] = "pone"
<1>1. pc'[w] = "libre"
  BY DEF Termina, Ir, TypeOK
<1>2. Obrero(w)'
  BY <1>1, ObreroLibre
<1> QED BY <1>2 DEF Termina, Ir, TypeOK

(* A worker goes on at p with its request in r: what has to be known of it.*)
Sabe(w, p, r) ==
  /\ r.ruta = "propia"
  /\ p \in {"tipo1", "tipo2", "rescate"} => Hallada(w)
  /\ p = "tipo1" /\ r.letra = "A" => Tipo[r.peticion] = "A"
  /\ p = "tipo2" => r.letra = "O" /\ Tipo[r.peticion] = "O"

LEMMA ObreroSigue ==
  ASSUME TypeOK, NEW w \in Hilo, NEW p, NEW r, pc[w] # "libre", p # "pone",
         Obrero(w), Sigue(w, p, r), UNCHANGED <<tabla, nula>>,
         r.peticion = res[w].peticion, Limpio(w) => Sabe(w, p, r)
  PROVE  /\ Obrero(w)'
         /\ \A v \in Hilo \ {w} : pc'[v] = pc[v] /\ res'[v] = res[v] /\ pisado'[v] = pisado[v]
         /\ \A u \in Hilo : pc'[u] = "pone" => pc[u] = "pone"
<1>1. /\ pc'[w] = p /\ res'[w] = r /\ pisado'[w] = pisado[w]
      /\ \A v \in Hilo \ {w} : pc'[v] = pc[v] /\ res'[v] = res[v] /\ pisado'[v] = pisado[v]
  BY DEF Sigue, Ir, TypeOK
<1>2. \A u \in Hilo : pc'[u] = "pone" => pc[u] = "pone"
  BY <1>1
<1>3. ASSUME Limpio(w)'
      PROVE  Limpio(w) /\ ~nula' /\ ~Poniendo(w)'
  <2>1. Limpio(w)
    BY <1>1, <1>3 DEF Limpio
  <2>2. ~nula /\ ~Poniendo(w)
    BY <2>1 DEF Obrero
  <2> QED BY <1>2, <2>1, <2>2 DEF Poniendo
<1>4. Obrero(w)'
  BY <1>1, <1>3 DEF Obrero, Sabe, Hallada
<1> QED BY <1>1, <1>2, <1>4

(* The accesses of a worker that nobody has overlapped find its entry if   *)
(* and only if it is there.                                                *)
LEMMA AccesoCierto ==
  ASSUME NEW w \in Hilo, Obrero(w), Limpio(w), TypeOK
  PROVE  Acceso(w) = IF Hallada(w) THEN {"esta"} ELSE {"falta"}
<1>1. nula = FALSE /\ ~Poniendo(w)
  BY DEF Obrero, TypeOK
<1> QED BY <1>1 DEF Acceso

(* It is never sent to DEFAULT nor answered without data: the steps that   *)
(* read the table.                                                         *)
LEMMA LecturaSinError ==
  ASSUME TypeOK, NEW w \in Hilo, Obrero(w), Limpio(w),
         policie(w) \/ verifyCacheType(w) \/ getCache(w)
  PROVE  \/ \E p \in Punto \ {"pone"}, r \in Respuesta :
              Sigue(w, p, r) /\ r.peticion = res[w].peticion /\ Sabe(w, p, r)
         \/ Termina(w, "datos")
<1>0. res[w] \in Respuesta /\ pc[w] \in Punto
  BY DEF TypeOK
<1>1. Acceso(w) = IF Hallada(w) THEN {"esta"} ELSE {"falta"}
  BY AccesoCierto
<1>2. res[w].ruta = "propia" /\ Tipo[res[w].peticion] \in {"A", "O"}
  BY <1>0, CacheAssumption DEF Obrero, Limpio, Respuesta
<1> DEFINE Va == \E p \in Punto \ {"pone"}, r \in Respuesta :
                   Sigue(w, p, r) /\ r.peticion = res[w].peticion /\ Sabe(w, p, r)
<1>3. ASSUME NEW p \in {"tipo1", "tipo2", "rescate"}, NEW l \in {"O", "A"}, Prueba(w, p, l),
             Hallada(w), p = "tipo1" /\ l = "A" => Tipo[res[w].peticion] = "A",
             p = "tipo2" => l = "O" /\ Tipo[res[w].peticion] = "O"
      PROVE  Va
  <2> DEFINE r == [res[w] EXCEPT !.letra = l, !.visto = 0]
  <2>1. r \in Respuesta
    <3>1. [res[w] EXCEPT !.letra = l] \in Respuesta
      BY <1>0 DEF Respuesta
    <3>2. \A s \in Respuesta : [s EXCEPT !.visto = 0] \in Respuesta
      BY DEF Respuesta
    <3>3. [[res[w] EXCEPT !.letra = l] EXCEPT !.visto = 0] = r
      BY <1>0 DEF Respuesta
    <3> QED BY <3>1, <3>2, <3>3
  <2>2. r.peticion = res[w].peticion /\ r.ruta = "propia" /\ r.letra = l
    BY <1>0, <1>2 DEF Respuesta
  <2>3. Sabe(w, p, r) /\ Sigue(w, p, r) /\ p \in Punto \ {"pone"}
    BY <1>3, <2>2 DEF Sabe, Prueba, Punto
  <2> HIDE DEF r
  <2> QED BY <2>1, <2>2, <2>3
<1>4. ASSUME OtraVista(w), Hallada(w), res[w].visto < 2, pc[w] \in {"tipo1", "tipo2", "rescate"}
      PROVE  Va
  <2> DEFINE r == [res[w] EXCEPT !.visto = @ + 1]
  <2>1. /\ r \in Respuesta /\ r.peticion = res[w].peticion
        /\ r.ruta = res[w].ruta /\ r.letra = res[w].letra
    BY <1>0, <1>4 DEF Respuesta
  <2>2. Sabe(w, pc[w], r) /\ Sigue(w, pc[w], r) /\ pc[w] \in Punto \ {"pone"}
    BY <1>0, <1>2, <1>4, <2>1 DEF Sabe, OtraVista, Obrero
  <2> HIDE DEF r
  <2> QED BY <2>1, <2>2
<1>5. CASE policie(w)
  <2>1. \/ Hallada(w) /\ Prueba(w, "tipo1", "O")
        \/ Sigue(w, "accion", res[w])
    BY <1>1, <1>5 DEF policie
  <2>2. CASE Sigue(w, "accion", res[w])
    <3>1. Sabe(w, "accion", res[w]) /\ "accion" \in Punto \ {"pone"}
      BY <1>2 DEF Sabe, Punto
    <3> QED BY <1>0, <2>2, <3>1
  <2> QED BY <1>3, <2>1, <2>2
<1>6. CASE verifyCacheType(w)
  <2>1. Hallada(w) /\ pc[w] \in {"tipo1", "tipo2"}
    BY <1>6 DEF verifyCacheType, Obrero
  <2>2. /\ pc[w] = "tipo1" /\ res[w].letra = "A" => Tipo[res[w].peticion] = "A"
        /\ pc[w] = "tipo2" => res[w].letra = "O" /\ Tipo[res[w].peticion] = "O"
        /\ res[w].letra \in {"O", "A"}
    BY <1>0 DEF Obrero, Respuesta
  <2>3. \/ res[w].visto = 0 /\ OtraVista(w)
        \/ Tipo[res[w].peticion] = res[w].letra /\ ConTipo(w, res[w].letra)
        \/ /\ Tipo[res[w].peticion] # res[w].letra
           /\ IF res[w].letra = "O" THEN Prueba(w, pc[w], "A") ELSE ConTipo(w, "N")
    BY <1>1, <1>6, <2>1 DEF verifyCacheType
  <2>4. CASE res[w].visto = 0 /\ OtraVista(w)
    BY <1>4, <2>1, <2>4
  <2>5. CASE Tipo[res[w].peticion] = res[w].letra /\ ConTipo(w, res[w].letra)
    <3>1. \/ Prueba(w, "rescate", "A") \/ Prueba(w, "rescate", "O")
          \/ Prueba(w, "tipo2", "O") /\ Tipo[res[w].peticion] = "O"
      BY <2>1, <2>2, <2>5 DEF ConTipo
    <3> QED BY <1>3, <2>1, <3>1
  <2>6. CASE /\ Tipo[res[w].peticion] # res[w].letra
             /\ IF res[w].letra = "O" THEN Prueba(w, pc[w], "A") ELSE ConTipo(w, "N")
    <3>1. pc[w] = "tipo1" /\ Prueba(w, "tipo1", "A") /\ Tipo[res[w].peticion] = "A"
      BY <1>2, <2>1, <2>2, <2>6
    <3> QED BY <1>3, <2>1, <3>1
  <2> QED BY <2>3, <2>4, <2>5, <2>6
<1>7. CASE getCache(w)
  <2>1. Hallada(w) /\ pc[w] = "rescate"
    BY <1>7 DEF getCache, Obrero
  <2>2. (res[w].visto < 2 /\ OtraVista(w)) \/ Termina(w, "datos")
    BY <1>1, <1>7, <2>1 DEF getCache
  <2> QED BY <1>4, <2>1, <2>2
<1> QED BY <1>5, <1>6, <1>7

(* ... and the other steps of a worker on its request.                     *)
LEMMA AccionSinError ==
  ASSUME TypeOK, NEW w \in Hilo, Obrero(w), Limpio(w), accion(w)
  PROVE  \/ \E p \in Punto \ {"pone"}, r \in Respuesta :
              Sigue(w, p, r) /\ r.peticion = res[w].peticion /\ Sabe(w, p, r)
         \/ Termina(w, "errorConsulta")
<1>1. res[w] \in Respuesta /\ base[res[w].peticion] \in Dato /\ Vacio \in Dato
  BY CacheAssumption DEF TypeOK, Respuesta, Dato, Vacio
<1>2. res[w].ruta = "propia"
  BY DEF Obrero
<1>3. \A d \in Dato : LET r == [res[w] EXCEPT !.dato = d]
                      IN r \in Respuesta /\ r.peticion = res[w].peticion /\ r.ruta = "propia"
  BY <1>1, <1>2 DEF Respuesta
<1>4. \/ \E d \in Dato : Sigue(w, "guarda", [res[w] EXCEPT !.dato = d])
      \/ Termina(w, "errorConsulta")
  BY <1>1, <1>2 DEF accion
<1>5. CASE \E d \in Dato : Sigue(w, "guarda", [res[w] EXCEPT !.dato = d])
  <2>1. PICK d \in Dato : Sigue(w, "guarda", [res[w] EXCEPT !.dato = d])
    BY <1>5
  <2> DEFINE r == [res[w] EXCEPT !.dato = d]
  <2>2. r \in Respuesta /\ r.peticion = res[w].peticion /\ r.ruta = "propia"
    BY <1>3
  <2>3. Sigue(w, "guarda", r)
    BY <2>1
  <2> HIDE DEF r
  <2>4. Sabe(w, "guarda", r) /\ "guarda" \in Punto \ {"pone"}
    BY <2>2 DEF Sabe, Punto
  <2> QED BY <2>2, <2>3, <2>4
<1> QED BY <1>4, <1>5

(* The steps of a worker that neither begin nor end a put leave InvTrabajo.*)
LEMMA PasoAjeno ==
  ASSUME TypeOK, InvTrabajo, NEW w \in Hilo,
         policie(w) \/ verifyCacheType(w) \/ getCache(w) \/ accion(w)
  PROVE  InvTrabajo'
<1>1. Obrero(w) /\ pc[w] # "libre" /\ UNCHANGED <<tabla, nula>>
  BY DEF InvTrabajo, policie, verifyCacheType, getCache, accion
<1> DEFINE Fuera == /\ Obrero(w)'
                    /\ \A v \in Hilo \ {w} : /\ pc'[v] = pc[v] /\ res'[v] = res[v]
                                             /\ pisado'[v] = pisado[v]
                    /\ \A u \in Hilo : pc'[u] = "pone" => pc[u] = "pone"
<1>2. ASSUME NEW p, NEW r, Sigue(w, p, r), p # "pone", r.peticion = res[w].peticion,
             Limpio(w) => Sabe(w, p, r)
      PROVE  Fuera
  BY <1>1, <1>2, ObreroSigue
<1>3. ASSUME NEW c, Termina(w, c)
      PROVE  Fuera
  BY <1>3, ObreroTermina
<1> HIDE DEF Fuera
<1>4. ASSUME Limpio(w) PROVE Fuera
  <2>1. \/ \E p \in Punto \ {"pone"}, r \in Respuesta :
             Sigue(w, p, r) /\ r.peticion = res[w].peticion /\ Sabe(w, p, r)
        \/ Termina(w, "datos") \/ Termina(w, "errorConsulta")
    BY <1>1, <1>4, LecturaSinError, AccionSinError
  <2>2. CASE \E p \in Punto \ {"pone"}, r \in Respuesta :
               Sigue(w, p, r) /\ r.peticion = res[w].peticion /\ Sabe(w, p, r)
    <3>1. PICK p \in Punto \ {"pone"}, r \in Respuesta :
            Sigue(w, p, r) /\ r.peticion = res[w].peticion /\ Sabe(w, p, r)
      BY <2>2
    <3> QED BY <1>2, <3>1
  <2> QED BY <1>3, <2>1, <2>2
<1>5. ASSUME ~Limpio(w) PROVE Fuera
  <2>1. res[w] \in Respuesta
    BY DEF TypeOK
  <2>2. ASSUME NEW p, NEW l, Prueba(w, p, l), p # "pone" PROVE Fuera
    <3>1. [res[w] EXCEPT !.letra = l, !.visto = 0].peticion = res[w].peticion
      BY <2>1 DEF Respuesta
    <3> QED BY <1>2, <1>5, <2>2, <3>1 DEF Prueba
  <2>3. ASSUME OtraVista(w), pc[w] # "pone" PROVE Fuera
    <3>1. [res[w] EXCEPT !.visto = @ + 1].peticion = res[w].peticion
      BY <2>1 DEF Respuesta
    <3> QED BY <1>2, <1>5, <2>3, <3>1 DEF OtraVista
  <2>4. ASSUME Lanza(w) PROVE Fuera
    <3>1. [res[w] EXCEPT !.ruta = "DEFAULT"].peticion = res[w].peticion
      BY <2>1 DEF Respuesta
    <3>2. Sigue(w, "verifica", [res[w] EXCEPT !.ruta = "DEFAULT"]) \/ Termina(w, "error")
      BY <2>4 DEF Lanza
    <3> QED BY <1>2, <1>3, <1>5, <3>1, <3>2
  <2>5. ASSUME NEW t, ConTipo(w, t), pc[w] \in {"tipo1", "tipo2"} PROVE Fuera
    <3>1. \/ Prueba(w, "rescate", "A") \/ Prueba(w, "tipo2", "O")
          \/ Prueba(w, "rescate", "O") \/ Termina(w, "sinDatos")
      BY <2>5 DEF ConTipo
    <3> QED BY <1>3, <2>2, <3>1
  <2>6. CASE policie(w)
    <3>1. Prueba(w, "tipo1", "O") \/ Sigue(w, "accion", res[w]) \/ Lanza(w)
      BY <2>6 DEF policie
    <3>2. CASE Sigue(w, "accion", res[w])
      BY <1>2, <1>5, <3>2
    <3> QED BY <2>2, <2>4, <3>1, <3>2
  <2>7. CASE verifyCacheType(w)
    <3>1. /\ pc[w] \in {"tipo1", "tipo2"}
          /\ \/ OtraVista(w) \/ Prueba(w, pc[w], "A") \/ ConTipo(w, "N")
             \/ ConTipo(w, res[w].letra) \/ Lanza(w)
      BY <2>7 DEF verifyCacheType
    <3> QED BY <2>2, <2>3, <2>4, <2>5, <3>1
  <2>8. CASE getCache(w)
    <3>1. /\ pc[w] = "rescate"
          /\ OtraVista(w) \/ Termina(w, "datos") \/ Termina(w, "sinDatos") \/ Lanza(w)
      BY <2>8 DEF getCache
    <3> QED BY <1>3, <2>3, <2>4, <3>1
  <2>9. CASE accion(w)
    <3>1. \/ Termina(w, "error") \/ Termina(w, "errorConsulta")
          \/ \E d : Sigue(w, "guarda", [res[w] EXCEPT !.dato = d])
      BY <2>9 DEF accion
    <3>2. ASSUME NEW d, Sigue(w, "guarda", [res[w] EXCEPT !.dato = d]) PROVE Fuera
      <4>1. [res[w] EXCEPT !.dato = d].peticion = res[w].peticion
        BY <2>1 DEF Respuesta
      <4> QED BY <1>2, <1>5, <3>2, <4>1
    <3> QED BY <1>3, <3>1, <3>2
  <2> QED BY <2>6, <2>7, <2>8, <2>9
<1>6. Fuera
  BY <1>4, <1>5
<1>7. ASSUME NEW v \in Hilo \ {w} PROVE Obrero(v)'
  <2>1. Obrero(v)
    BY DEF InvTrabajo
  <2> QED BY <1>1, <1>6, <2>1, ObreroAjeno DEF Fuera
<1> QED BY <1>6, <1>7 DEF Fuera, InvTrabajo

(* Everybody that is at work while a Clean or a put of another worker      *)
(* begins or ends is overlapped.                                           *)
LEMMA PutTrabajo ==
  ASSUME TypeOK, InvTrabajo, NEW w \in Hilo, setCache(w) \/ pone(w)
  PROVE  InvTrabajo'
<1>1. \/ UNCHANGED <<tabla, nula>> /\ \E c : Termina(w, c)
      \/ /\ UNCHANGED <<tabla, nula, res>>
         /\ pc[w] = "guarda" /\ "falta" \in Acceso(w)
         /\ Ir(w, "pone") /\ pisado' = Pisa(w)
      \/ pc' = [pc EXCEPT ![w] = "libre"] /\ pisado' = [Pisa(w) EXCEPT ![w] = FALSE]
  BY DEF setCache, pone, Ir
<1>2. CASE UNCHANGED <<tabla, nula>> /\ \E c : Termina(w, c)
  <2>1. PICK c : Termina(w, c)
    BY <1>2
  <2>2. /\ Obrero(w)'
        /\ \A v \in Hilo \ {w} : pc'[v] = pc[v] /\ res'[v] = res[v] /\ pisado'[v] = pisado[v]
        /\ \A u \in Hilo : pc'[u] = "pone" => pc[u] = "pone"
    BY <2>1, ObreroTermina
  <2>3. ASSUME NEW v \in Hilo \ {w} PROVE Obrero(v)'
    <3>1. Obrero(v)
      BY DEF InvTrabajo
    <3> QED BY <1>2, <2>2, <3>1, ObreroAjeno
  <2> QED BY <2>2, <2>3 DEF InvTrabajo
<1>3. CASE /\ UNCHANGED <<tabla, nula, res>>
           /\ pc[w] = "guarda" /\ "falta" \in Acceso(w)
           /\ Ir(w, "pone") /\ pisado' = Pisa(w)
  <2>1. /\ pc'[w] = "pone" /\ pisado'[w] = pisado[w]
        /\ \A v \in Hilo \ {w} : pc'[v] = pc[v] /\ (pisado'[v] \/ pc'[v] = "libre")
    BY <1>3 DEF Ir, Pisa, TypeOK
  <2>2. ASSUME NEW v \in Hilo \ {w} PROVE Obrero(v)'
    BY <2>1, ObreroLibre
  <2>3. Obrero(w)'
    <3>1. SUFFICES ASSUME Limpio(w)' PROVE /\ ~nula' /\ ~Poniendo(w)' /\ res'[w].ruta = "propia"
      BY <2>1 DEF Obrero
    <3>2. Limpio(w) /\ Obrero(w)
      BY <1>3, <2>1, <3>1 DEF Limpio, InvTrabajo
    <3>3. ~nula /\ ~Poniendo(w) /\ res[w].ruta = "propia"
      BY <3>2 DEF Obrero
    <3> QED BY <1>3, <2>1, <3>3 DEF Poniendo
  <2> QED BY <2>2, <2>3 DEF InvTrabajo
<1>4. CASE pc' = [pc EXCEPT ![w] = "libre"] /\ pisado' = [Pisa(w) EXCEPT ![w] = FALSE]
  <2>1. ASSUME NEW v \in Hilo PROVE pisado'[v] \/ pc'[v] = "libre"
    BY <1>4 DEF Pisa, TypeOK
  <2> QED BY <2>1, ObreroLibre DEF InvTrabajo
<1> QED BY <1>1, <1>2, <1>3, <1>4

LEMMA RecibeTrabajo ==
  ASSUME TypeOK, InvTrabajo, NEW w \in Hilo, Recibe(w)
  PROVE  InvTrabajo'
<1>1. PICK h \in Hash : res' = [res EXCEPT ![w] = RespuestaDe(h)]
  BY DEF Recibe
<1>2. /\ pc' = [pc EXCEPT ![w] = "verifica"] /\ UNCHANGED <<tabla, nula>>
      /\ pisado' = [pisado EXCEPT ![w] = nula \/ Poniendo(w)]
  BY DEF Recibe, Ir
<1>3. ASSUME NEW v \in Hilo \ {w} PROVE Obrero(v)'
  <2>1. /\ pc'[v] = pc[v] /\ res'[v] = res[v] /\ pisado'[v] = pisado[v]
        /\ \A u \in Hilo : pc'[u] = "pone" => pc[u] = "pone"
    BY <1>1, <1>2 DEF TypeOK
  <2> QED BY <1>2, <2>1, ObreroAjeno DEF InvTrabajo
<1>4. Obrero(w)'
  <2>1. /\ pc'[w] = "verifica" /\ pisado'[w] = (nula \/ Poniendo(w)) /\ res'[w] = RespuestaDe(h)
        /\ \A u \in Hilo : pc'[u] = "pone" => pc[u] = "pone"
    BY <1>1, <1>2 DEF TypeOK
  <2>2. RespuestaDe(h).peticion = h /\ (Tipo[h] # "N" => RespuestaDe(h).ruta = "propia")
    BY DEF RespuestaDe
  <2>3. ASSUME Limpio(w)' PROVE ~nula' /\ ~Poniendo(w)' /\ res'[w].ruta = "propia"
    <3>1. ~pisado'[w] /\ Tipo[res'[w].peticion] # "N"
      BY <2>3 DEF Limpio
    <3>2. ~nula /\ ~Poniendo(w)
      BY <2>1, <3>1
    <3>3. ~Poniendo(w)'
      BY <2>1, <3>2 DEF Poniendo
    <3> QED BY <1>2, <2>1, <2>2, <3>1, <3>2, <3>3
  <2> QED BY <2>1, <2>3 DEF Obrero
<1> QED BY <1>3, <1>4 DEF InvTrabajo

LEMMA CleanTrabajo ==
  ASSUME TypeOK, InvTrabajo, NEW l \in Limpian, CleanCache(l) \/ Clean(l)
  PROVE  InvTrabajo'
<1>1. UNCHANGED <<pc, res>>
  BY DEF CleanCache, Clean, CleanLargo, CleanAnula, CleanCrea, trabajo
<1>2. \/ UNCHANGED <<tabla, nula, pisado>>
      \/ pisado' = [w \in Hilo |-> pc[w] # "libre"]
  BY DEF CleanCache, Clean, CleanLargo, CleanAnula, CleanCrea
<1>3. ASSUME NEW v \in Hilo PROVE Obrero(v)'
  <2>1. Obrero(v)
    BY DEF InvTrabajo
  <2> QED BY <1>1, <1>2, <2>1, ObreroAjeno, ObreroLibre
<1> QED BY <1>3 DEF InvTrabajo

(* A worker at work has sent nothing yet.                                  *)
InvFin == \A w \in Hilo : pc[w] # "libre" => fin[w] = "ninguno"

(* A step of a worker leaves the others where they are, and either ends    *)
(* its request or sends nothing.                                           *)
LEMMA PasoPropio ==
  ASSUME TypeOK, NEW w \in Hilo, Recibe(w) \/ Paso(w)
  PROVE  /\ \A v \in Hilo \ {w} : pc'[v] = pc[v] /\ fin'[v] = fin[v]
         /\ \/ pc'[w] = "libre" \/ fin'[w] = "ninguno"
            \/ pc[w] # "libre" /\ fin'[w] = fin[w]
<1> DEFINE Propio == /\ \A v \in Hilo \ {w} : pc'[v] = pc[v] /\ fin'[v] = fin[v]
                     /\ \/ pc'[w] = "libre" \/ fin'[w] = "ninguno"
                        \/ pc[w] # "libre" /\ fin'[w] = fin[w]
<1> SUFFICES Propio
  OBVIOUS
<1>1. ASSUME NEW c, Termina(w, c) PROVE Propio
  BY <1>1 DEF Termina, Ir, TypeOK
<1>2. ASSUME NEW p, NEW r, Sigue(w, p, r), pc[w] # "libre" PROVE Propio
  BY <1>2 DEF Sigue, Ir, TypeOK
<1>3. CASE Recibe(w)
  BY <1>3 DEF Recibe, Ir, TypeOK
<1>4. CASE pone(w)
  <2>1. /\ pc' = [pc EXCEPT ![w] = "libre"]
        /\ fin' = [fin EXCEPT ![w] = "error"] \/ fin' = [fin EXCEPT ![w] = "datos"]
    BY <1>4 DEF pone, Ir
  <2> QED BY <2>1 DEF TypeOK
<1>5. CASE setCache(w)
  <2>1. \/ \E c : Termina(w, c)
        \/ pc[w] # "libre" /\ pc' = [pc EXCEPT ![w] = "pone"] /\ UNCHANGED fin
    BY <1>5 DEF setCache, Ir
  <2>2. CASE pc[w] # "libre" /\ pc' = [pc EXCEPT ![w] = "pone"] /\ UNCHANGED fin
    BY <2>2 DEF TypeOK
  <2> HIDE DEF Propio
  <2> QED BY <1>1, <2>1, <2>2
<1> HIDE DEF Propio
<1>6. CASE policie(w) \/ verifyCacheType(w) \/ getCache(w) \/ accion(w)
  <2>1. pc[w] # "libre"
    BY <1>6 DEF policie, verifyCacheType, getCache, accion
  <2>2. ASSUME NEW p, NEW l, Prueba(w, p, l) PROVE Propio
    BY <1>2, <2>1, <2>2 DEF Prueba
  <2>3. ASSUME OtraVista(w) PROVE Propio
    BY <1>2, <2>1, <2>3 DEF OtraVista
  <2>4. ASSUME Lanza(w) PROVE Propio
    BY <1>1, <1>2, <2>1, <2>4 DEF Lanza
  <2>5. ASSUME NEW t, ConTipo(w, t), pc[w] \in {"tipo1", "tipo2"} PROVE Propio
    <3>1. \/ Prueba(w, "rescate", "A") \/ Prueba(w, "tipo2", "O")
          \/ Prueba(w, "rescate", "O") \/ Termina(w, "sinDatos")
      BY <2>5 DEF ConTipo
    <3> QED BY <1>1, <2>2, <3>1
  <2>6. CASE policie(w)
    <3>1. Prueba(w, "tipo1", "O") \/ Sigue(w, "accion", res[w]) \/ Lanza(w)
      BY <2>6 DEF policie
    <3> QED BY <1>2, <2>1, <2>2, <2>4, <3>1
  <2>7. CASE verifyCacheType(w)
    <3>1. /\ pc[w] \in {"tipo1", "tipo2"}
          /\ \/ OtraVista(w) \/ Prueba(w, pc[w], "A") \/ ConTipo(w, "N")
             \/ ConTipo(w, res[w].letra) \/ Lanza(w)
      BY <2>7 DEF verifyCacheType
    <3> QED BY <2>2, <2>3, <2>4, <2>5, <3>1
  <2>8. CASE getCache(w)
    <3>1. OtraVista(w) \/ Termina(w, "datos") \/ Termina(w, "sinDatos") \/ Lanza(w)
      BY <2>8 DEF getCache
    <3> QED BY <1>1, <2>3, <2>4, <3>1
  <2>9. CASE accion(w)
    <3>1. (\E c : Termina(w, c)) \/ (\E r : Sigue(w, "guarda", r))
      BY <2>9 DEF accion
    <3> QED BY <1>1, <1>2, <2>1, <3>1
  <2> QED BY <1>6, <2>6, <2>7, <2>8, <2>9
<1> QED BY <1>3, <1>4, <1>5, <1>6 DEF Paso

LEMMA FinTrabajo ==
  ASSUME TypeOK, InvFin, [Next]_vars
  PROVE  InvFin'
<1>1. ASSUME NEW w \in Hilo, Recibe(w) \/ Paso(w) PROVE InvFin'
  <2>1. /\ \A v \in Hilo \ {w} : pc'[v] = pc[v] /\ fin'[v] = fin[v]
        /\ \/ pc'[w] = "libre" \/ fin'[w] = "ninguno"
           \/ pc[w] # "libre" /\ fin'[w] = fin[w]
    BY <1>1, PasoPropio
  <2> QED BY <2>1 DEF InvFin
<1>2. ASSUME UNCHANGED <<pc, fin>> PROVE InvFin'
  BY <1>2 DEF InvFin
<1>3. \/ \E w \in Hilo : Recibe(w) \/ Paso(w)
      \/ UNCHANGED <<pc, fin>>
  BY DEF Next, Clean, CleanCache, CleanLargo, CleanAnula, CleanCrea, cleanup, CambiaDatos,
         trabajo, vars
<1> QED BY <1>1, <1>2, <1>3

(* A worker that nobody has overlapped does not end in an error.           *)
LEMMA PasoSinError ==
  ASSUME TypeOK, InvFin, NEW w \in Hilo, Limpio(w), Obrero(w), Paso(w)
  PROVE  fin'[w] \notin {"sinDatos", "error"}
<1>1. fin[w] = "ninguno" /\ ~nula
  BY DEF InvFin, Limpio, Obrero
<1>2. ASSUME NEW c, Termina(w, c) PROVE fin'[w] = c
  BY <1>2 DEF Termina, TypeOK
<1>3. ASSUME NEW p, NEW r, Sigue(w, p, r) PROVE fin'[w] = "ninguno"
  BY <1>1, <1>3 DEF Sigue
<1>4. CASE policie(w) \/ verifyCacheType(w) \/ getCache(w) \/ accion(w)
  <2>1. (\E p, r : Sigue(w, p, r)) \/ Termina(w, "datos") \/ Termina(w, "errorConsulta")
    BY <1>4, LecturaSinError, AccionSinError
  <2> QED BY <1>2, <1>3, <2>1
<1>5. CASE setCache(w)
  <2>1. "npe" \notin Acceso(w)
    BY AccesoCierto
  <2>2. Termina(w, "datos") \/ UNCHANGED fin
    BY <1>5, <2>1 DEF setCache
  <2> QED BY <1>1, <1>2, <2>2
<1>6. CASE pone(w)
  <2>1. fin' = [fin EXCEPT ![w] = "datos"]
    BY <1>1, <1>6 DEF pone
  <2> QED BY <2>1 DEF TypeOK
<1> QED BY <1>4, <1>5, <1>6 DEF Paso

(* Whatever the number of workers, requests and cleaners, a request with   *)
(* an action ends without its data only if its query failed or it was      *)
(* overlapped by a Clean or by the put of another worker.                  *)
THEOREM CacheErrores == Spec => ErrorSoloPorCruce
<1> DEFINE Bien == \A w \in Hilo :
      pc[w] # "libre" /\ fin'[w] \in {"sinDatos", "error"} /\ Tipo[res[w].peticion] # "N"
        => pisado[w]
<1>1. Init => InvTrabajo
  BY DEF Init, InvTrabajo, Obrero, Limpio
<1>2. TypeOK /\ InvTrabajo /\ [Next]_vars => InvTrabajo'
  <2> SUFFICES ASSUME TypeOK, InvTrabajo, [Next]_vars PROVE InvTrabajo'
    OBVIOUS
  <2>1. ASSUME NEW w \in Hilo, Recibe(w) \/ Paso(w) PROVE InvTrabajo'
    BY <2>1, RecibeTrabajo, PasoAjeno, PutTrabajo DEF Paso
  <2>2. ASSUME NEW l \in Limpian, CleanCache(l) \/ Clean(l) PROVE InvTrabajo'
    BY <2>2, CleanTrabajo
  <2>3. ASSUME UNCHANGED <<tabla, nula, pc, res, pisado>> PROVE InvTrabajo'
    BY <2>3 DEF InvTrabajo, Obrero, Limpio, Hallada, Poniendo
  <2>4. cleanup => UNCHANGED <<tabla, nula, pc, res, pisado>>
    BY DEF cleanup, trabajo
  <2>5. \A h \in Hash : CambiaDatos(h) => UNCHANGED <<tabla, nula, pc, res, pisado>>
    BY DEF CambiaDatos
  <2>6. UNCHANGED vars => UNCHANGED <<tabla, nula, pc, res, pisado>>
    BY DEF vars
  <2> QED BY <2>1, <2>2, <2>3, <2>4, <2>5, <2>6 DEF Next
<1>3. TypeOK /\ InvTrabajo /\ InvFin /\ [Next]_vars => [Bien]_vars
  <2> SUFFICES ASSUME TypeOK, InvTrabajo, InvFin, Next, NEW w \in Hilo,
                      pc[w] # "libre", fin'[w] \in {"sinDatos", "error"},
                      Tipo[res[w].peticion] # "N", ~pisado[w]
               PROVE  FALSE
    OBVIOUS
  <2>1. Limpio(w) /\ Obrero(w) /\ fin[w] = "ninguno"
    BY DEF Limpio, InvTrabajo, InvFin
  <2>2. \/ Paso(w) \/ Recibe(w)
        \/ \E v \in Hilo \ {w} : Recibe(v) \/ Paso(v)
        \/ UNCHANGED fin
    BY DEF Next, Clean, CleanCache, CleanLargo, CleanAnula, CleanCrea, cleanup, CambiaDatos,
           trabajo
  <2>3. CASE Paso(w)
    BY <2>1, <2>3, PasoSinError
  <2>4. CASE Recibe(w)
    BY <2>4 DEF Recibe
  <2>5. CASE \E v \in Hilo \ {w} : Recibe(v) \/ Paso(v)
    <3>1. PICK v \in Hilo \ {w} : Recibe(v) \/ Paso(v)
      BY <2>5
    <3>2. fin'[w] = fin[w]
      BY <3>1, PasoPropio
    <3> QED BY <2>1, <3>2
  <2> QED BY <2>1, <2>2, <2>3, <2>4, <2>5
<1>4. Init => InvFin
  BY DEF Init, InvFin
<1> QED BY <1>1, <1>2, <1>3, <1>4, CacheTipos, FinTrabajo, PTL DEF Spec, ErrorSoloPorCruce

-----------------------------------------------------------------------------
(* While the daemon is the only cleaner nobody sets the table to null      *)
(* under it: without the HTTP cleaners the failure that ends it for good   *)
(* cannot happen, so it is the calls of Clean from the web services, which *)
(* no lock keeps out, that make DaemonVive fail.                           *)
THEOREM CacheDaemon == Limpiador = {} => (Spec => []DaemonVive)
<1> SUFFICES ASSUME Limpiador = {} PROVE Spec => []DaemonVive
  OBVIOUS
<1>1. Limpian = {Daemon}
  BY DEF Limpian
<1>2. Init => InvDaemon
  BY <1>1 DEF Init, InvDaemon, DaemonVive
<1>3. TypeOK /\ InvDaemon /\ [Next]_vars => InvDaemon'
  <2> SUFFICES ASSUME TypeOK, InvDaemon, [Next]_vars PROVE InvDaemon'
    OBVIOUS
  <2>1. limpia \in [{Daemon} -> {"libre", "largo", "anula", "crea", "muerto"}]
    BY <1>1 DEF TypeOK
  <2>2. ASSUME UNCHANGED <<nula, limpia>> PROVE InvDaemon'
    BY <2>2 DEF InvDaemon, DaemonVive
  <2>3. CASE \E w \in Hilo : Recibe(w) \/ Paso(w)
    BY <2>2, <2>3 DEF Recibe, Paso, policie, verifyCacheType, getCache, accion, setCache, pone
  <2>4. CASE \E l \in Limpian : CleanCache(l) \/ Clean(l)
    <3>1. ~CleanCache(Daemon)
      BY DEF CleanCache
    <3>2. CleanLargo(Daemon) \/ CleanAnula(Daemon) \/ CleanCrea(Daemon)
      BY <1>1, <2>4, <3>1 DEF Clean
    <3> QED BY <2>1, <3>2 DEF CleanLargo, CleanAnula, CleanCrea, InvDaemon, DaemonVive
  <2>5. CASE cleanup
    BY <2>1, <2>5 DEF cleanup, InvDaemon, DaemonVive
  <2>6. CASE \E h \in Hash : CambiaDatos(h)
    BY <2>2, <2>6 DEF CambiaDatos
  <2>7. CASE UNCHANGED vars
    BY <2>2, <2>7 DEF vars
  <2> QED BY <2>3, <2>4, <2>5, <2>6, <2>7 DEF Next
<1>4. InvDaemon => DaemonVive
  BY DEF InvDaemon
<1> QED BY <1>2, <1>3, <1>4, CacheTipos, PTL DEF Spec
=============================================================================
