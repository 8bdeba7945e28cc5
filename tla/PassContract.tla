---------------------------- MODULE PassContract ----------------------------
(***************************************************************************)
(* What every pass over the HIR promises fhe-tool's pipeline: it ends once *)
(* and for all, saying whether it succeeded (signalPassFailure), and what  *)
(* the function returns is at every moment what it returned before.        *)
(***************************************************************************)
VARIABLES status,    \* "running", then "done" or "failed"
          returned   \* the values the function returns

vars == <<status, returned>>

Init == status = "running"

\* The only step the pipeline can tell from no step at all.
End == /\ status = "running"
       /\ status' \in {"done", "failed"}
       /\ UNCHANGED returned

Spec == Init /\ [][End]_vars
=============================================================================
