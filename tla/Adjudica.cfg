SPECIFICATION FairSpec
CONSTANTS
  h1 = h1
  h2 = h2
  l1 = l1
  l2 = l2
  l3 = l3
  o1 = o1
  o2 = o2
  r1 = r1
  r2 = r2
  nadie = nadie
  Hilo = {h1, h2}
  Linea = {l1, l2, l3}
  Orden = {o1, o2}
  LineasDe <- ItemsDe
  OC = {o2}
  Rut = {r1, r2}
  RutDe <- Ruts
  SinRut = nadie
  Previas <- Antes
  Pedidos <- Ordenes
  Registrables = {l1}
  Fallas = {"vacio", "false", "npe", "io", "json", "fecha", "seq"}
  MaxLlamadas = 2
  MaxSucesos = 1
INVARIANT TypeOK
INVARIANT Coherente
INVARIANT OkEscrito
INVARIANT ContratistaFiel
PROPERTY SoloSuLinea
PROPERTY Atendida
CHECK_DEADLOCK FALSE
