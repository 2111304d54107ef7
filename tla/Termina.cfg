SPECIFICATION SpecJusta
CONSTANTS
  p1 = p1
  p2 = p2
  p3 = p3
  Procesos <- MCProcesos
  Dispositivos <- MCUnDispositivo
  Programas <- ProgramasCiclo
  GradoMax = 2
  Algoritmo = "FEEDBACK"
  Nadie = Nadie
CHECK_DEADLOCK FALSE
PROPERTY
  Terminan
