---------------------------- MODULE CicloDeVida ----------------------------
(***************************************************************************)
(* What the kernel promises of its processes, seen from outside: the       *)
(* states of estado_pcb (kernel.h:71-81), the changes of state it logs and *)
(* the rules they obey - one process runs at a time, READY1 goes before    *)
(* READY2, no more processes are admitted than the degree allows.  Kernel  *)
(* implements it: nothing here of threads, queues, semaphores or messages. *)
(***************************************************************************)
EXTENDS Integers, FiniteSets

CONSTANTS Procesos, GradoMax, Algoritmo

VARIABLE estado

Bloqueados == {"BLOQUEADO_IO", "BLOQUEADO_PANTALLA", "BLOQUEADO_TECLADO",
               "BLOQUEADO_PAGE_FAULT"}

\* estado_pcb, before the PCB exists and after it is freed.
Estados == {"SIN_CREAR", "NEW", "READY1", "READY2", "RUNNING", "EXIT_S", "LIBERADO"}
             \cup Bloqueados

EnEstado(e) == {p \in Procesos : estado[p] = e}

\* Processes that count for the degree of multiprogramming.
Activos == {p \in Procesos : estado[p] \notin {"SIN_CREAR", "NEW", "LIBERADO"}}

Pasa(p, desde, hasta) ==
  estado[p] = desde /\ estado' = [estado EXCEPT ![p] = hasta]

Crear(p) == Pasa(p, "SIN_CREAR", "NEW")

Admitir(p) == Cardinality(Activos) < GradoMax /\ Pasa(p, "NEW", "READY1")

Despachar(p) ==
  /\ EnEstado("RUNNING") = {}
  /\ \/ Pasa(p, "READY1", "RUNNING")
     \/ EnEstado("READY1") = {} /\ Pasa(p, "READY2", "RUNNING")

\* End of quantum: FEEDBACK sends the process one queue down.
Desalojar(p) ==
  \/ Algoritmo = "RR" /\ Pasa(p, "RUNNING", "READY1")
  \/ Algoritmo = "FEEDBACK" /\ Pasa(p, "RUNNING", "READY2")

Bloquear(p) == \E b \in Bloqueados : Pasa(p, "RUNNING", b)

\* Whatever it waited for, it comes back to the first queue.
Despertar(p) == \E b \in Bloqueados : Pasa(p, b, "READY1")

Salir(p) == Pasa(p, "RUNNING", "EXIT_S")

Liberar(p) == Pasa(p, "EXIT_S", "LIBERADO")

Init == estado = [p \in Procesos |-> "SIN_CREAR"]

Next == \E p \in Procesos :
          \/ Crear(p) \/ Admitir(p) \/ Despachar(p) \/ Desalojar(p)
          \/ Bloquear(p) \/ Despertar(p) \/ Salir(p) \/ Liberar(p)

Spec == Init /\ [][Next]_estado
=============================================================================
