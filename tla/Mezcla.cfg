SPECIFICATION Spec
CONSTANTS
  p1 = p1
  p2 = p2
  p3 = p3
  Procesos <- MCProcesos3
  Dispositivos <- MCDispositivos
  Programas <- ProgramasMezcla
  GradoMax = 2
  Algoritmo = "FEEDBACK"
  Nadie = Nadie
SYMMETRY Simetria
CHECK_DEADLOCK FALSE
INVARIANTS
  TypeOK
  UnSoloLugar
  GradoRespetado
  CpuExclusiva
  RunningSinCarrera
  SemaforosContados
  DispositivoContado
  PageFaultEnOrden
  FichasRespetadas
PROPERTIES
  UnicasCaidas
  CicloRespetado
