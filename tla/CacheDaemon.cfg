SPECIFICATION Spec
CONSTANTS
  w1 = w1
  w2 = w2
  h1 = h1
  h2 = h2
  h3 = h3
  l1 = l1
  Hilo = {w1, w2}
  Hash = {h1, h2}
  Tipo <- TipoDe
  Limpiador = {l1}
  Periodo = 2
  MaxVersion = 0
  MaxFallas = 0
INVARIANT DaemonVive
