SPECIFICATION FairSpec
CONSTANTS
  w1 = w1
  w2 = w2
  k1 = k1
  k2 = k2
  c1 = c1
  c2 = c2
  c3 = c3
  Hilo = {w1, w2}
  Clave = {k1, k2}
  Comuna = {c1, c2, c3}
  ComunaConocida = {c1, c2}
  Peticiones <- LineaPropia
  Fallas = {}
  MaxPeticiones = 3
  MaxFallas = 0
  MaxCaidas = 0
INVARIANT SinPerdida
INVARIANT UnExpedientePorClave
PROPERTY Atendida
CHECK_DEADLOCK FALSE
