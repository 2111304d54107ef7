SPECIFICATION Spec
CONSTANTS
  p1 = p1
  p2 = p2
  Nadie = Nadie
  Procesos <- MCProcesos
  Tamanio <- TamanioGrandeYUno
  Escribibles = {1}
  Valores <- MCValores
  CantidadMarcos = 4
  MARCOS_POR_PROCESO = 2
  TAMANIO_SWAP = 4
  GradoMax = 2
CHECK_DEADLOCK FALSE
INVARIANTS
  MarcosExclusivos
