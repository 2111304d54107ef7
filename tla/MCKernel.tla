------------------------------ MODULE MCKernel ------------------------------
(* Small instances of Kernel for TLC. *)
EXTENDS Kernel, TLC

CONSTANTS p1, p2, p3

MCProcesos == {p1, p2}
MCProcesos3 == {p1, p2, p3}
Simetria == Permutations(Procesos)

MCDispositivos == {"DISCO", "IMPRESORA"}
MCUnDispositivo == {"DISCO"}

\* Each way of leaving the cpu, each way of coming back, two devices.
ProgramasMezcla ==
  {<<"SET", "DISCO", "EXIT">>, <<"MOV", "IMPRESORA", "EXIT">>,
   <<"TECLADO", "MOV_FUERA", "EXIT">>}

\* One device, a page fault, the quantum and a peripheral.
ProgramasCiclo ==
  {<<"MOV", "DISCO", "EXIT">>, <<"PANTALLA", "MOV", "EXIT">>}

\* A process alone: every instruction, the peripherals twice.
ProgramasLargos ==
  {<<"SET", "DISCO", "TECLADO", "MOV", "PANTALLA", "MOV_FUERA", "EXIT">>,
   <<"TECLADO", "PANTALLA", "MOV", "MOV", "EXIT">>}
=============================================================================
