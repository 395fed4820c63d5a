------------------------- MODULE ThreadLabRefinement -------------------------
(***************************************************************************)
(* ThreadLab implements Histogram.  The abstract counted set is the items  *)
(* the threads have gone past; a step counts something exactly when it     *)
(* writes the shared histogram.                                            *)
(***************************************************************************)
EXTENDS ThreadLab

AbstractPhase ==
  CASE mainpc = "generate" -> "input"
    [] mainpc = "reset"    -> "idle"
    [] mainpc = "check"    -> "closed"
    [] mainpc = "advance"  -> "judged"
    [] mainpc = "exit"     -> "ended"
    [] mainpc = "crashed"  -> "crashed"
    [] mainpc \in {"create", "join", "hung"} -> "counting"

Abstract == INSTANCE Histogram WITH
  Rounds    <- Routines,
  class     <- [x \in Items |-> data[x] % BUCKET_SIZE],
  phase     <- AbstractPhase,
  round     <- thread_rt_id,
  histogram <- global_histogram,
  counted   <- IF KernelActive THEN AllCounted ELSE {},
  passed    <- {r \in Routines : correctness[r] = 1}

\* Every behaviour of run_threads and its kernels is one of Histogram: each
\* write of global_histogram adds items not counted before, all of its bucket,
\* and the sum check passes a kernel exactly when it counted every item.
RefinesHistogram == Abstract!Spec
=============================================================================
