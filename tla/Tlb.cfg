SPECIFICATION Spec
CONSTANTS
  p1 = p1
  p2 = p2
  Procesos <- MCProcesos
  tamanio_segmento <- MCSegmentos
  tamanio_pagina = 2
  entradas_por_tabla = 2
  Marcos = {0, 1, 2}
  MARCOS_POR_PROCESO = 2
  MaxEntradas = 3
VIEW Vista
CHECK_DEADLOCK FALSE
INVARIANTS
  TypeOK
  TlbCoherente
  MarcoPropio
  ConsultaValida
PROPERTIES
  VictimaJusta
