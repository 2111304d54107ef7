----------------------------- MODULE MCMemoria -----------------------------
(* Small instances of Memoria for TLC. *)
EXTENDS Memoria, TLC

CONSTANTS p1, p2

MCProcesos == {p1, p2}

\* One process whose pages must be replaced, beside a small one.
TamanioGrandeYUno == p1 :> 3 @@ p2 :> 1

\* One whose pages must be replaced, before or after one that fits.
TamanioGrandeYJusto == p1 :> 3 @@ p2 :> 2

MCValores == {1}
=============================================================================
