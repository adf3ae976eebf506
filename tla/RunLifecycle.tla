---------------------------- MODULE RunLifecycle ----------------------------
(***************************************************************************)
(* What the control plane promises about a run and its ordered steps, with *)
(* no leases, tokens, markers, queues or sweeps: steps start in order,     *)
(* outcomes are final, only a read-only step is ever started over, and a   *)
(* run ends in one step that also ends every step still open.              *)
(***************************************************************************)
EXTENDS Naturals

CONSTANTS Runs, Steps, RunOf, Index, Mutating

VARIABLES phase, run

lifecycle == <<phase, run>>

Finished == {"SUCCEEDED", "FAILED", "CANCELLED"}
Phase == {"waiting", "started"} \cup Finished
RunPhase == {"open", "COMPLETED", "FAILED", "CANCELLED"}

OfRun(r) == {s \in Steps : RunOf[s] = r}

Init ==
  /\ phase = [s \in Steps |-> "waiting"]
  /\ run = [r \in Runs |-> "open"]

Start(s) ==
  /\ run[RunOf[s]] = "open" /\ phase[s] = "waiting"
  /\ \A p \in OfRun(RunOf[s]) : Index[p] < Index[s] => phase[p] = "SUCCEEDED"
  /\ phase' = [phase EXCEPT ![s] = "started"]
  /\ UNCHANGED run

Finish(s, outcome) ==
  /\ run[RunOf[s]] = "open" /\ phase[s] = "started"
  /\ phase' = [phase EXCEPT ![s] = outcome]
  /\ UNCHANGED run

\* A read-only step whose worker vanished is put back.
StartOver(s) ==
  /\ s \notin Mutating
  /\ run[RunOf[s]] = "open" /\ phase[s] = "started"
  /\ phase' = [phase EXCEPT ![s] = "waiting"]
  /\ UNCHANGED run

Complete(r) ==
  /\ run[r] = "open"
  /\ \A s \in OfRun(r) : phase[s] = "SUCCEEDED"
  /\ run' = [run EXCEPT ![r] = "COMPLETED"]
  /\ UNCHANGED phase

\* A step did not succeed: what has not started never will.
Abort(r) ==
  /\ run[r] = "open"
  /\ \E s \in OfRun(r) : phase[s] \in {"FAILED", "CANCELLED"}
  /\ \A s \in OfRun(r) : phase[s] # "started"
  /\ phase' = [s \in Steps |-> IF s \in OfRun(r) /\ phase[s] = "waiting"
                               THEN "CANCELLED" ELSE phase[s]]
  /\ run' = [run EXCEPT ![r] = "FAILED"]

\* The operator cancels: started steps end here too.
Cancel(r) ==
  /\ run[r] = "open"
  /\ phase' = [s \in Steps |-> IF s \in OfRun(r) /\ phase[s] \notin Finished
                               THEN "CANCELLED" ELSE phase[s]]
  /\ run' = [run EXCEPT ![r] = "CANCELLED"]

Next ==
  \/ \E s \in Steps : \/ Start(s) \/ StartOver(s)
                      \/ \E outcome \in Finished : Finish(s, outcome)
  \/ \E r \in Runs : Complete(r) \/ Abort(r) \/ Cancel(r)

Spec == Init /\ [][Next]_lifecycle
=============================================================================
