SPECIFICATION Spec
CONSTANTS
  N = 2
  MaxFiguras = 2
  Archivos <- ArchivosMC
INVARIANT TypeOK
INVARIANT EnviaLoListado
INVARIANT Exclusion
