SPECIFICATION FairSpec
CONSTANTS
  w1 = w1
  w2 = w2
  h1 = h1
  h2 = h2
  h3 = h3
  l1 = l1
  Hilo = {w1, w2}
  Hash = {h1}
  Tipo <- TipoDe
  Limpiador = {}
  Periodo = 2
  MaxVersion = 1
  MaxFallas = 1
INVARIANT DaemonVive
PROPERTY CambioVisible
PROPERTY Atendida
