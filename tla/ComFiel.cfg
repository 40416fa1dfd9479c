SPECIFICATION FairSpec
CONSTANTS
  p1 = p1
  p2 = p2
  p3 = p3
  p4 = p4
  c1 = c1
  c3 = c3
  c4 = c4
  Nada = Nada
  Pedido = {p1, p2, p3, p4}
  Consulta <- ConsultaDe
  Buffered = {p1, p2}
  Sync = {p3}
  Incompleto = {p4}
CHECK_DEADLOCK FALSE
INVARIANT TypeOK
INVARIANT ClaveDeAcuerdo
INVARIANT EsperaVigilada
INVARIANT CuelgueExplicado
PROPERTY Cumple
PROPERTY Respondidos
