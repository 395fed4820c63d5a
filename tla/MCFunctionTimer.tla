--------------------------- MODULE MCFunctionTimer ---------------------------
(***************************************************************************)
(* What FunctionTimer_fcyc.cfg cannot write: the measurements of Sampler.  *)
(***************************************************************************)
EXTENDS FunctionTimer

SomeCycles == -30 .. 40

=============================================================================
