SPECIFICATION Spec
CONSTANTS
  w1 = w1
  w2 = w2
  k1 = k1
  k2 = k2
  c1 = c1
  c2 = c2
  c3 = c3
  Hilo = {w1}
  Clave = {k1}
  Comuna = {c1, c2, c3}
  ComunaConocida = {c1, c2}
  Peticiones <- UnaLinea
  Fallas = {"io"}
  MaxPeticiones = 3
  MaxFallas = 2
  MaxCaidas = 1
INVARIANT ReversionFiel
INVARIANT SinHuerfanas
INVARIANT UnicoPorClave
CHECK_DEADLOCK FALSE
