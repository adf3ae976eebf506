---------------------------- MODULE MCExecution ----------------------------
(* Small instances of the execution engine for model checking.              *)
EXTENDS Execution, TLC

CONSTANTS r1, r2, s1, s2, w1, w2, e1, e2

OneRun  == (s1 :> r1) @@ (s2 :> r1)
TwoRuns == (s1 :> r1) @@ (s2 :> r2)
OneStep == s1 :> r1
First   == s1 :> 0
AllFirst == (s1 :> 0) @@ (s2 :> 0)
InOrder == (s1 :> 0) @@ (s2 :> 1)

\* Two worker processes of one slot each, or one process of two slots.
TwoWorkers == (e1 :> w1) @@ (e2 :> w2)
OneWorker  == (e1 :> w1) @@ (e2 :> w1)
Single     == e1 :> w1

Once(K) == [k \in FaultKind |-> IF k \in K THEN 1 ELSE 0]

\* The faults each question allows, once each.
NoFaults       == Once({})
ExpiryFaults   == Once({"expiry"})
FencingFaults  == Once({"expiry", "stall", "evict", "loss"})
CrashFaults    == Once({"crash"})
RecoveryFaults == Once({"crash", "outage", "apiCrash"})

\* Any of them together, or one of them.
All == {FaultKind}
One == {{k} : k \in FaultKind}

\* What makes a second delivery run beside the first: a job that stalls while its holder
\* lives, whose lease may run out as well; or Redis that loses the job, or forgets it.
SecondDeliveries == {{"expiry", "stall"}, {"loss"}, {"evict"}}

\* Two exceptions, the second in the emergency path or of a sibling.
TruthFaults == [NoFaults EXCEPT !["throw"] = 2]
=============================================================================
