SPECIFICATION Spec
CONSTANTS
  w1 = w1
  w2 = w2
  k1 = k1
  k2 = k2
  c1 = c1
  c2 = c2
  c3 = c3
  Hilo = {w1}
  Clave = {k1, k2}
  Comuna = {c1, c2, c3}
  ComunaConocida = {c1, c2}
  Peticiones <- UnCliente
  Fallas = {"false"}
  MaxPeticiones = 1
  MaxFallas = 1
  MaxCaidas = 0
INVARIANT OkDeTodos
CHECK_DEADLOCK FALSE
