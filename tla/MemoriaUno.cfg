SPECIFICATION SpecJusta
CONSTANTS
  p1 = p1
  p2 = p2
  Nadie = Nadie
  Procesos <- MCProcesos
  Tamanio <- TamanioGrandeYJusto
  Escribibles = {1}
  Valores <- MCValores
  CantidadMarcos = 2
  MARCOS_POR_PROCESO = 2
  TAMANIO_SWAP = 5
  GradoMax = 1
CHECK_DEADLOCK FALSE
INVARIANTS
  MarcosExclusivos
  BitmapExacto
  AccesoSinReemplazo
PROPERTIES
  UnicaCaida
  FaltaAtendida
