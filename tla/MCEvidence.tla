----------------------------- MODULE MCEvidence -----------------------------
(* Small instances of the evidence pipeline for model checking.             *)
EXTENDS Evidence

CONSTANTS cli, sweep

\* A behaviour either follows the CLI to its report or has a fault while runs
\* are analyzed: after a fault no session enters the reporting phase.
BeyondAnalysis(a, p, l) ==
  p[a] \in {"forensics", "evaluations", "findings", "finish", "verify", "head", "authorize"}
  \/ l[a].tries > 0

MCNext ==
  /\ Next
  /\ faults' > 0 => \A a \in Analysts :
       ~BeyondAnalysis(a, pc, local) /\ ~BeyondAnalysis(a, pc', local')
MCSpec == Init /\ [][MCNext]_vars
=============================================================================
