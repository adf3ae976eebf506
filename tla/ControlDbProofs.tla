-------------------------- MODULE ControlDbProofs --------------------------
(***************************************************************************)
(* Proofs that the control-plane transactions keep their promises for any  *)
(* number of runs, steps, workers and sweepers, whatever their callers do. *)
(***************************************************************************)
EXTENDS ControlDb, TLAPS

\* Arithmetic modulo the bound stays within the bound.
LEMMA ModuloBound == ASSUME NEW n \in Nat, NEW m \in Nat \ {0} PROVE n % m \in 0 .. m - 1
  OBVIOUS

\* P stays a number below its modulus when a transaction advances it.
LEMMA AdvancePType ==
  ASSUME DbTypeOK, NEW r \in Runs, AdvanceP(r)
  PROVE  prov' \in [Runs -> 0 .. ProvModulus - 1]
  <1>1. (prov[r] + 1) % ProvModulus \in 0 .. ProvModulus - 1
    BY ModuloBound, ProvAssumption DEF DbTypeOK
  <1> QED
    BY <1>1 DEF DbTypeOK, AdvanceP

\* Every transaction keeps the columns well typed.
LEMMA DbTypeStep == DbTypeOK /\ [DbNext]_dbVars => DbTypeOK'
  <1> SUFFICES ASSUME DbTypeOK, [DbNext]_dbVars PROVE DbTypeOK'
    OBVIOUS
  <1> USE DEF StepState, Active, StepTerminal, RunState, RunTerminal, DispatchState, Lease
  <1>1. ASSUME NEW s \in Steps, DbStepAction(s) PROVE DbTypeOK'
    <2> USE AdvancePType, StepsAssumption
    <2>1. CASE \E to \in {"RECONCILE", "DISPATCHED"} : SetDispatchMarker(s, DispatchState, to)
      BY <2>1 DEF SetDispatchMarker, DbTypeOK, runVars
    <2>2. CASE LeaseExpires(s)
      BY <2>2 DEF LeaseExpires, DbTypeOK, runVars
    <2>3. CASE resolveExpiredLease(s)
      <3>1. prov' \in [Runs -> 0 .. ProvModulus - 1]
        BY <2>3 DEF resolveExpiredLease
      <3>2. CASE s \in Mutating
        BY <2>3, <3>1, <3>2 DEF resolveExpiredLease, DbTypeOK, runVars, Knowledge
      <3>3. CASE s \notin Mutating
        BY <2>3, <3>1, <3>3 DEF resolveExpiredLease, DbTypeOK, runVars
      <3> QED
        BY <3>2, <3>3
    <2>4. CASE \E k \in Knowledge : recordInvocation(s, k)
      BY <2>4 DEF recordInvocation, DbTypeOK, runVars
    <2>5. CASE \E o \in Owners : DbClaim(s, o)
      BY <2>5 DEF DbClaim, claimStep, NextToken, DbTypeOK
    <2>6. ASSUME NEW o \in Owners, NEW t \in Issued(s), heartbeatStep(s, o, t) PROVE DbTypeOK'
      BY <2>6 DEF heartbeatStep, DbTypeOK, runVars
    <2>7. ASSUME NEW o \in Owners, NEW t \in Issued(s), markExecuting(s, o, t) PROVE DbTypeOK'
      BY <2>7 DEF markExecuting, DbTypeOK, runVars
    <2>8. ASSUME NEW o \in Owners, NEW t \in Issued(s), NEW st \in Outcome, NEW k \in Knowledge,
                 writeTerminalState(s, o, t, st, k)
          PROVE DbTypeOK'
      BY <2>8 DEF writeTerminalState, DbTypeOK, runVars, Outcome
    <2> QED
      BY <1>1, <2>1, <2>2, <2>3, <2>4, <2>5, <2>6, <2>7, <2>8 DEF DbStepAction
  <1>2. ASSUME NEW r \in Runs, DbRunAction(r) PROVE DbTypeOK'
    <2> USE AdvancePType
    <2>1. CASE markRunDispatching(r)
      BY <2>1 DEF markRunDispatching, DbTypeOK, stepVars
    <2>2. CASE TouchRun(r)
      BY <2>2 DEF TouchRun, DbTypeOK, stepVars, runVars
    <2>3. CASE settleCancelledRun(r)
      <3>1. prov' \in [Runs -> 0 .. ProvModulus - 1]
        BY <2>3 DEF settleCancelledRun, DbTypeOK
      <3> QED
        BY <2>3, <3>1 DEF settleCancelledRun, DbTypeOK, Knowledge
    <2>4. CASE requestCancel(r)
      BY <2>4 DEF requestCancel, DbTypeOK, stepVars
    <2>5. CASE \E pending \in SUBSET StepsOf(r) : markNothingEnqueued(r, pending)
      BY <2>5 DEF markNothingEnqueued, DbTypeOK, runVars
    <2>6. ASSUME NEW o \in Owners, NEW closeOpen \in BOOLEAN, settleRun(o, r, closeOpen)
          PROVE DbTypeOK'
      <3>1. prov' \in [Runs -> 0 .. ProvModulus - 1]
        BY <2>6 DEF settleRun, DbTypeOK
      <3> QED
        BY <2>6, <3>1 DEF settleRun, DbTypeOK, Knowledge
    <2> QED
      BY <1>2, <2>1, <2>2, <2>3, <2>4, <2>5, <2>6 DEF DbRunAction
  <1>3. ASSUME NEW o \in Owners, discoverSettleable(o) PROVE DbTypeOK'
    <2> DEFINE found == {<<r, HasFailure(r) /\ HasOpen(r)>> : r \in {q \in Runs : Settleable(q)}}
    <2>1. \A r \in Runs : (HasFailure(r) /\ HasOpen(r)) \in BOOLEAN
      BY DEF HasFailure, HasOpen
    <2>2. found \subseteq Runs \X BOOLEAN
      <3> DEFINE flag(r) == HasFailure(r) /\ HasOpen(r)
      <3>1. \A r \in Runs : flag(r) \in BOOLEAN
        BY <2>1
      <3> HIDE DEF flag
      <3>2. {<<r, flag(r)>> : r \in {q \in Runs : Settleable(q)}} \subseteq Runs \X BOOLEAN
        BY <3>1
      <3> QED
        BY <3>2 DEF flag
    <2>3. discovered' = [discovered EXCEPT ![o] = found]
      BY <1>3 DEF discoverSettleable
    <2> HIDE DEF found
    <2> QED
      BY <1>3, <2>2, <2>3 DEF discoverSettleable, DbTypeOK, stepVars, runVars
  <1>4. ASSUME NEW o \in Owners, forgetDiscovered(o) PROVE DbTypeOK'
    BY <1>4 DEF forgetDiscovered, DbTypeOK, stepVars, runVars
  <1>5. CASE UNCHANGED dbVars
    BY <1>5 DEF dbVars, DbTypeOK
  <1> QED
    BY <1>1, <1>2, <1>3, <1>4, <1>5 DEF DbNext

\* The rows a run is created with are well typed.
LEMMA DbTypeInit == DbInit => DbTypeOK
  <1>1. 1 % ProvModulus \in 0 .. ProvModulus - 1
    BY ModuloBound, ProvAssumption
  <1> QED
    BY <1>1, StepsAssumption DEF DbInit, DbTypeOK, StepState, Active, StepTerminal, RunState,
      RunTerminal, DispatchState, Lease, Knowledge

\* The columns are well typed in every state of the open system.
THEOREM DbTypeCorrect == DbSpec => []DbTypeOK
  BY DbTypeInit, DbTypeStep, PTL DEF DbSpec

-----------------------------------------------------------------------------
(***************************************************************************)
(* The safety invariants are inductive only together.  That a discovered   *)
(* run cannot start another step follows from OrderedExecution; that a run *)
(* settles with nothing open follows from DiscoveryStaysTrue; and that no  *)
(* step of a terminal run moves follows from RunTerminalSound.             *)
(***************************************************************************)
Safe == OrderedExecution /\ RunTerminalSound /\ DiscoveryStaysTrue
Inv == DbTypeOK /\ Safe

LEMMA InvInit == DbInit => Safe
  BY StepsAssumption DEF DbInit, Safe, OrderedExecution, RunTerminalSound, DiscoveryStaysTrue,
    HasOpen, HasFailure, EarlierSucceeded, StepsOf, StepTerminal, RunTerminal

\* A transaction that leaves steps, runs and discoveries alone disturbs nothing.
LEMMA InvFrame == Inv /\ UNCHANGED <<state, runState, discovered>> => Safe'
  BY DEF Inv, Safe, OrderedExecution, RunTerminalSound, DiscoveryStaysTrue,
    HasOpen, HasFailure, EarlierSucceeded

\* An active step may move to any state: its run is open and its later steps are pending.
LEMMA ActiveMoves ==
  ASSUME Inv, NEW s \in Steps, state[s] \in Active,
         \A p \in Steps \ {s} : state'[p] = state[p],
         \A r \in Runs : \/ runState'[r] = runState[r]
                         \/ runState[r] = "DISPATCHING" /\ runState'[r] = "RUNNING",
         discovered' = discovered
  PROVE  Safe'
  <1> USE StepsAssumption
  <1>1. /\ HasOpen(RunOf[s])
        /\ runState[RunOf[s]] \notin RunTerminal
        /\ \A p \in Steps : RunOf[p] = RunOf[s] /\ Index[s] < Index[p] => state[p] = "PENDING"
    BY DEF Inv, Safe, OrderedExecution, RunTerminalSound, HasOpen, EarlierSucceeded, StepsOf,
      Active, StepTerminal
  <1>2. \A p \in Steps \ {s} : state'[p] = state[p]
    OBVIOUS
  <1>3. OrderedExecution'
    <2> SUFFICES ASSUME NEW p \in Steps, state'[p] # "PENDING", HasOpen(RunOf[p])'
                 PROVE  EarlierSucceeded(p)'
      BY DEF OrderedExecution
    <2>1. state[p] # "PENDING"
      BY <1>2 DEF Active
    <2>2. HasOpen(RunOf[p])
      BY <1>1, <1>2 DEF HasOpen, StepsOf
    <2>3. EarlierSucceeded(p)
      BY <2>1, <2>2 DEF Inv, Safe, OrderedExecution
    <2> QED
      BY <2>1, <2>3, <1>1, <1>2 DEF EarlierSucceeded, StepsOf
  <1>4. RunTerminalSound'
    BY <1>1, <1>2 DEF Inv, Safe, RunTerminalSound, HasOpen, HasFailure, StepsOf, RunTerminal
  <1>5. DiscoveryStaysTrue'
    BY <1>1, <1>2 DEF Inv, Safe, DiscoveryStaysTrue, HasOpen, HasFailure, StepsOf, RunTerminal
  <1> QED
    BY <1>3, <1>4, <1>5 DEF Safe

\* A pending step starts only when its run has nothing that would keep it from running.
LEMMA PendingStarts ==
  ASSUME Inv, NEW s \in Steps, state[s] = "PENDING", EarlierSucceeded(s),
         runState[RunOf[s]] \notin RunTerminal,
         state'[s] = "CLAIMED", \A p \in Steps \ {s} : state'[p] = state[p],
         \A r \in Runs : \/ runState'[r] = runState[r]
                         \/ runState[r] = "DISPATCHING" /\ runState'[r] = "RUNNING",
         discovered' = discovered
  PROVE  Safe'
  <1> USE StepsAssumption
  <1>1. HasOpen(RunOf[s])
    BY DEF HasOpen, StepsOf, StepTerminal
  <1>2. \A p \in Steps \ {s} : state'[p] = state[p]
    OBVIOUS
  <1>3. \A p \in Steps \ {s} : RunOf[p] = RunOf[s] /\ state[p] # "PENDING"
                                => state[p] = "SUCCEEDED"
    <2> SUFFICES ASSUME NEW p \in Steps \ {s}, RunOf[p] = RunOf[s], state[p] # "PENDING"
                 PROVE  state[p] = "SUCCEEDED"
      OBVIOUS
    <2>1. EarlierSucceeded(p)
      BY <1>1 DEF Inv, Safe, OrderedExecution
    <2>2. ~(Index[s] < Index[p])
      BY <2>1 DEF EarlierSucceeded, StepsOf
    <2> QED
      BY <2>2 DEF EarlierSucceeded, StepsOf
  <1>4. OrderedExecution'
    <2> SUFFICES ASSUME NEW p \in Steps, state'[p] # "PENDING", HasOpen(RunOf[p])'
                 PROVE  EarlierSucceeded(p)'
      BY DEF OrderedExecution
    <2>1. CASE p = s
      BY <2>1, <1>2 DEF EarlierSucceeded, StepsOf
    <2>2. CASE p # s
      <3>1. EarlierSucceeded(p)
        BY <2>2, <1>1, <1>2 DEF Inv, Safe, OrderedExecution, HasOpen, StepsOf
      <3> QED
        BY <2>2, <3>1, <1>2 DEF EarlierSucceeded, StepsOf
    <2> QED
      BY <2>1, <2>2
  <1>5. RunTerminalSound'
    BY <1>1, <1>2 DEF Inv, Safe, RunTerminalSound, HasOpen, HasFailure, StepsOf, RunTerminal
  <1>6. DiscoveryStaysTrue'
    <2>1. ~HasFailure(RunOf[s])
      BY <1>3 DEF HasFailure, StepsOf
    <2> QED
      BY <1>1, <1>2, <2>1 DEF Inv, Safe, DiscoveryStaysTrue, HasOpen, HasFailure, StepsOf,
        RunTerminal
  <1> QED
    BY <1>4, <1>5, <1>6 DEF Safe

\* Settling a discovered run, on the flag read when it was discovered.
LEMMA SettleKeepsSafe ==
  ASSUME Inv, NEW o \in Owners, NEW r \in Runs, NEW closeOpen \in BOOLEAN,
         settleRun(o, r, closeOpen)
  PROVE  Safe'
  <1> USE StepsAssumption
  <1> DEFINE cancelled == {s \in StepsOf(r) : closeOpen /\ state[s] = "PENDING"}
  <1>1. /\ <<r, closeOpen>> \in discovered[o]
        /\ state' = [s \in Steps |-> IF s \in cancelled THEN "CANCELLED" ELSE state[s]]
        /\ runState' = [runState EXCEPT ![r] = IF @ # "RUNNING" THEN @
                          ELSE IF cancelled # {} \/ HasFailure(r) THEN "FAILED" ELSE "COMPLETED"]
        /\ discovered' = [discovered EXCEPT ![o] = @ \ {<<r, closeOpen>>}]
    BY DEF settleRun
  <1>2. \/ runState[r] \in RunTerminal /\ ~HasOpen(r)
        \/ /\ runState[r] = "RUNNING"
           /\ \A s \in StepsOf(r) : state[s] \notin Active
           /\ IF closeOpen THEN HasFailure(r) ELSE ~HasOpen(r)
    BY <1>1 DEF Inv, Safe, DiscoveryStaysTrue, RunTerminalSound
  <1>3. \A s \in Steps : RunOf[s] # r => state'[s] = state[s]
    BY <1>1 DEF StepsOf
  <1>4. \A s \in StepsOf(r) : /\ state'[s] \in StepTerminal
                              /\ state[s] # "PENDING" => state'[s] = state[s]
                              /\ state[s] = "PENDING" => state'[s] = "CANCELLED"
    BY <1>1, <1>2 DEF StepsOf, HasOpen, Inv, DbTypeOK, StepState, StepTerminal
  <1>5. runState'[r] \in RunTerminal
    BY <1>1, <1>2 DEF Inv, DbTypeOK, RunTerminal
  <1>6. \A q \in Runs \ {r} : runState'[q] = runState[q]
    BY <1>1 DEF Inv, DbTypeOK
  <1>7. \A q \in Runs \ {r} : HasOpen(q)' = HasOpen(q) /\ HasFailure(q)' = HasFailure(q)
    BY <1>3 DEF HasOpen, HasFailure, StepsOf
  <1>8. ~HasOpen(r)'
    BY <1>4 DEF HasOpen, StepsOf
  <1>9. OrderedExecution'
    BY <1>3, <1>7, <1>8 DEF Inv, Safe, OrderedExecution, EarlierSucceeded, StepsOf
  <1>10. RunTerminalSound'
    <2>1. /\ runState'[r] = "COMPLETED" => ~HasFailure(r)'
          /\ runState'[r] = "FAILED" => HasFailure(r)'
      <3>1. CASE runState[r] = "RUNNING"
        <4>1. runState'[r] = IF cancelled # {} \/ HasFailure(r) THEN "FAILED" ELSE "COMPLETED"
          BY <1>1, <3>1 DEF Inv, DbTypeOK
        <4>2. HasFailure(r)' <=> (cancelled # {} \/ HasFailure(r))
          BY <1>1, <1>2, <1>4, <3>1 DEF HasFailure, StepsOf, RunTerminal, HasOpen, StepTerminal
        <4> QED
          BY <4>1, <4>2
      <3>2. CASE runState[r] \in RunTerminal
        <4>1. runState'[r] = runState[r]
          BY <1>1, <3>2 DEF Inv, DbTypeOK, RunTerminal
        <4>2. \A s \in StepsOf(r) : state'[s] = state[s]
          BY <1>2, <1>4, <3>2 DEF HasOpen, RunTerminal, StepTerminal
        <4>3. HasFailure(r)' <=> HasFailure(r)
          BY <4>2 DEF HasFailure, StepsOf
        <4> QED
          BY <4>1, <4>3 DEF Inv, Safe, RunTerminalSound
      <3> QED
        BY <1>2, <3>1, <3>2
    <2> QED
      BY <2>1, <1>6, <1>7, <1>8 DEF Inv, Safe, RunTerminalSound
  <1>11. DiscoveryStaysTrue'
    <2> SUFFICES ASSUME NEW w \in Owners, NEW q \in Runs, NEW f \in BOOLEAN,
                        <<q, f>> \in discovered'[w]
                 PROVE  \/ runState'[q] \in RunTerminal
                        \/ /\ runState'[q] = "RUNNING"
                           /\ \A s \in StepsOf(q) : state'[s] \notin Active
                           /\ IF f THEN HasFailure(q)' ELSE ~HasOpen(q)'
      BY DEF DiscoveryStaysTrue, StepsOf
    <2>1. <<q, f>> \in discovered[w]
      BY <1>1 DEF Inv, DbTypeOK
    <2>2. CASE q = r
      BY <2>2, <1>5
    <2>3. CASE q # r
      <3>1. \/ runState[q] \in RunTerminal
            \/ /\ runState[q] = "RUNNING"
               /\ \A s \in StepsOf(q) : state[s] \notin Active
               /\ IF f THEN HasFailure(q) ELSE ~HasOpen(q)
        BY <2>1 DEF Inv, Safe, DiscoveryStaysTrue
      <3> QED
        BY <2>3, <3>1, <1>3, <1>6, <1>7 DEF StepsOf
    <2> QED
      BY <2>2, <2>3
  <1> QED
    BY <1>9, <1>10, <1>11 DEF Safe

\* Settling a cancelled run closes whatever is open, executing steps included.
LEMMA SettleCancelledKeepsSafe ==
  ASSUME Inv, NEW r \in Runs, settleCancelledRun(r)
  PROVE  Safe'
  <1> USE StepsAssumption
  <1>1. /\ \A s \in Steps : RunOf[s] # r => state'[s] = state[s]
        /\ \A s \in StepsOf(r) : /\ state'[s] \in StepTerminal
                                 /\ state[s] \in StepTerminal => state'[s] = state[s]
    BY DEF settleCancelledRun, StepsOf, StepTerminal
  <1>2. /\ \A q \in Runs \ {r} : runState'[q] = runState[q]
        /\ runState'[r] = IF runState[r] \in RunTerminal THEN runState[r] ELSE "CANCELLED"
        /\ discovered' = discovered
    BY DEF settleCancelledRun, Inv, DbTypeOK
  <1>3. \A q \in Runs \ {r} : HasOpen(q)' = HasOpen(q) /\ HasFailure(q)' = HasFailure(q)
    BY <1>1 DEF HasOpen, HasFailure, StepsOf
  <1>4. ~HasOpen(r)'
    BY <1>1 DEF HasOpen, StepsOf
  <1>5. OrderedExecution'
    BY <1>1, <1>3, <1>4 DEF Inv, Safe, OrderedExecution, EarlierSucceeded, StepsOf
  <1>6. RunTerminalSound'
    <2>1. CASE runState[r] \in RunTerminal
      <3>1. \A s \in StepsOf(r) : state'[s] = state[s]
        BY <1>1, <2>1 DEF Inv, Safe, RunTerminalSound, HasOpen
      <3>2. HasFailure(r)' <=> HasFailure(r)
        BY <3>1 DEF HasFailure, StepsOf
      <3> QED
        BY <2>1, <3>2, <1>2, <1>3, <1>4 DEF Inv, Safe, RunTerminalSound
    <2>2. CASE runState[r] \notin RunTerminal
      BY <2>2, <1>2, <1>3, <1>4 DEF Inv, Safe, RunTerminalSound
    <2> QED
      BY <2>1, <2>2
  <1>7. DiscoveryStaysTrue'
    BY <1>1, <1>2, <1>3 DEF Inv, Safe, DiscoveryStaysTrue, StepsOf, RunTerminal
  <1> QED
    BY <1>5, <1>6, <1>7 DEF Safe

\* What the discovery query returns satisfies DiscoveryStaysTrue when it returns it.
LEMMA DiscoverKeepsSafe ==
  ASSUME Inv, NEW o \in Owners, discoverSettleable(o)
  PROVE  Safe'
  <1>1. UNCHANGED <<state, runState>>
    BY DEF discoverSettleable, stepVars, runVars
  <1>2. OrderedExecution' /\ RunTerminalSound'
    BY <1>1 DEF Inv, Safe, OrderedExecution, RunTerminalSound, HasOpen, HasFailure,
      EarlierSucceeded
  <1>3. \A q \in Runs, f \in BOOLEAN : <<q, f>> \in discovered'[o] =>
          Settleable(q) /\ f = (HasFailure(q) /\ HasOpen(q))
    BY DEF discoverSettleable, Inv, DbTypeOK
  <1>4. \A w \in Owners \ {o} : discovered'[w] = discovered[w]
    BY DEF discoverSettleable, Inv, DbTypeOK
  <1>5. ASSUME NEW q \in Runs, Settleable(q)
        PROVE  /\ runState[q] = "RUNNING"
               /\ \A s \in StepsOf(q) : state[s] \notin Active
               /\ HasFailure(q) \/ ~HasOpen(q)
    BY <1>5 DEF Settleable, HasOpen, StepsOf, Inv, DbTypeOK, StepState
  <1>6. DiscoveryStaysTrue'
    <2> SUFFICES ASSUME NEW w \in Owners, NEW q \in Runs, NEW f \in BOOLEAN,
                        <<q, f>> \in discovered'[w]
                 PROVE  \/ runState[q] \in RunTerminal
                        \/ /\ runState[q] = "RUNNING"
                           /\ \A s \in StepsOf(q) : state[s] \notin Active
                           /\ IF f THEN HasFailure(q) ELSE ~HasOpen(q)
      BY <1>1 DEF DiscoveryStaysTrue, HasFailure, HasOpen
    <2>1. CASE w = o
      BY <2>1, <1>3, <1>5
    <2>2. CASE w # o
      BY <2>2, <1>4 DEF Inv, Safe, DiscoveryStaysTrue
    <2> QED
      BY <2>1, <2>2
  <1> QED
    BY <1>2, <1>6 DEF Safe

\* The claim, of a pending step or as a takeover of an expired lease.
LEMMA ClaimKeepsSafe ==
  ASSUME Inv, NEW s \in Steps, NEW o \in Owners, claimStep(s, o)
  PROVE  Safe'
  <1>1. /\ state'[s] = "CLAIMED" /\ \A p \in Steps \ {s} : state'[p] = state[p]
        /\ discovered' = discovered
        /\ \A r \in Runs : \/ runState'[r] = runState[r]
                           \/ runState[r] = "DISPATCHING" /\ runState'[r] = "RUNNING"
    <2>1. runState' = [runState EXCEPT ![RunOf[s]] = IF @ = "DISPATCHING" THEN "RUNNING" ELSE @]
      BY DEF claimStep
    <2> QED
      BY <2>1 DEF claimStep, Inv, DbTypeOK
  <1>2. CASE state[s] = "PENDING"
    BY <1>1, <1>2, PendingStarts DEF claimStep, claimable
  <1>3. CASE state[s] \in Active
    BY <1>1, <1>3, ActiveMoves
  <1> QED
    BY <1>2, <1>3 DEF claimStep, claimable

\* Every step of the open system preserves the safety invariants.
LEMMA NextKeepsSafe == Inv /\ [DbNext]_dbVars => Safe'
  <1> SUFFICES ASSUME Inv, [DbNext]_dbVars PROVE Safe'
    OBVIOUS
  <1> USE InvFrame
  <1>1. ASSUME NEW s \in Steps, DbStepAction(s) PROVE Safe'
    <2>1. CASE \E to \in {"RECONCILE", "DISPATCHED"} : SetDispatchMarker(s, DispatchState, to)
      BY <2>1 DEF SetDispatchMarker, runVars
    <2>2. CASE LeaseExpires(s)
      BY <2>2 DEF LeaseExpires, runVars
    <2>3. CASE resolveExpiredLease(s)
      <3>1. /\ state[s] \in Active /\ \A p \in Steps \ {s} : state'[p] = state[p]
            /\ runState' = runState /\ discovered' = discovered
        BY <2>3 DEF resolveExpiredLease, LeaseExpired, runVars, Inv, DbTypeOK
      <3> QED
        BY <3>1, ActiveMoves
    <2>4. CASE \E k \in Knowledge : recordInvocation(s, k)
      BY <2>4 DEF recordInvocation, runVars
    <2>5. CASE \E o \in Owners : DbClaim(s, o)
      BY <2>5, ClaimKeepsSafe DEF DbClaim
    <2>6. ASSUME NEW o \in Owners, NEW t \in Issued(s), heartbeatStep(s, o, t) PROVE Safe'
      BY <2>6 DEF heartbeatStep, runVars
    <2>7. ASSUME NEW o \in Owners, NEW t \in Issued(s), markExecuting(s, o, t) PROVE Safe'
      <3>1. /\ state[s] \in Active /\ \A p \in Steps \ {s} : state'[p] = state[p]
            /\ runState' = runState /\ discovered' = discovered
        BY <2>7 DEF markExecuting, runVars, Active, Inv, DbTypeOK
      <3> QED
        BY <3>1, ActiveMoves
    <2>8. ASSUME NEW o \in Owners, NEW t \in Issued(s), NEW st \in Outcome, NEW k \in Knowledge,
                 writeTerminalState(s, o, t, st, k)
          PROVE Safe'
      <3>1. /\ state[s] \in Active /\ \A p \in Steps \ {s} : state'[p] = state[p]
            /\ runState' = runState /\ discovered' = discovered
        BY <2>8 DEF writeTerminalState, CanWriteTerminal, runVars, Inv, DbTypeOK
      <3> QED
        BY <3>1, ActiveMoves
    <2> QED
      BY <1>1, <2>1, <2>2, <2>3, <2>4, <2>5, <2>6, <2>7, <2>8 DEF DbStepAction
  <1>2. ASSUME NEW r \in Runs, DbRunAction(r) PROVE Safe'
    <2>1. CASE markRunDispatching(r)
      <3>1. \A q \in Runs : runState'[q] # runState[q]
               => runState[q] = "SNAPSHOT_PINNED" /\ runState'[q] = "DISPATCHING"
        BY <2>1 DEF markRunDispatching, Inv, DbTypeOK
      <3>2. UNCHANGED <<state, discovered>>
        BY <2>1 DEF markRunDispatching, stepVars
      <3>3. OrderedExecution'
        BY <3>2 DEF Inv, Safe, OrderedExecution, HasOpen, EarlierSucceeded
      <3>4. RunTerminalSound'
        BY <3>1, <3>2 DEF Inv, Safe, RunTerminalSound, HasOpen, HasFailure, RunTerminal
      <3>5. DiscoveryStaysTrue'
        BY <3>1, <3>2 DEF Inv, Safe, DiscoveryStaysTrue, HasOpen, HasFailure, RunTerminal
      <3> QED
        BY <3>3, <3>4, <3>5 DEF Safe
    <2>2. CASE TouchRun(r)
      BY <2>2 DEF TouchRun, stepVars, runVars
    <2>3. CASE settleCancelledRun(r)
      BY <2>3, SettleCancelledKeepsSafe
    <2>4. CASE requestCancel(r)
      BY <2>4 DEF requestCancel, stepVars
    <2>5. CASE \E pending \in SUBSET StepsOf(r) : markNothingEnqueued(r, pending)
      BY <2>5 DEF markNothingEnqueued, runVars
    <2>6. CASE \E o \in Owners, closeOpen \in BOOLEAN : settleRun(o, r, closeOpen)
      BY <2>6, SettleKeepsSafe
    <2> QED
      BY <1>2, <2>1, <2>2, <2>3, <2>4, <2>5, <2>6 DEF DbRunAction
  <1>3. ASSUME NEW o \in Owners, discoverSettleable(o) PROVE Safe'
    BY <1>3, DiscoverKeepsSafe
  <1>4. ASSUME NEW o \in Owners, forgetDiscovered(o) PROVE Safe'
    <2>1. /\ UNCHANGED <<state, runState>>
          /\ \A w \in Owners : discovered'[w] \subseteq discovered[w]
      BY <1>4 DEF forgetDiscovered, stepVars, runVars, Inv, DbTypeOK
    <2> QED
      BY <2>1 DEF Inv, Safe, OrderedExecution, RunTerminalSound, DiscoveryStaysTrue, HasOpen,
        HasFailure, EarlierSucceeded
  <1>5. CASE UNCHANGED dbVars
    BY <1>5 DEF dbVars
  <1> QED
    BY <1>1, <1>2, <1>3, <1>4, <1>5 DEF DbNext

\* The inductive invariant holds for every number of runs, steps, workers and sweepers.
THEOREM InvCorrect == DbSpec => []Inv
  <1>1. DbInit => Safe
    BY InvInit
  <1>2. Safe /\ DbTypeOK /\ [DbNext]_dbVars => Safe'
    BY NextKeepsSafe DEF Inv
  <1>3. DbSpec => []DbTypeOK
    BY DbTypeCorrect
  <1>4. DbSpec => []Safe
    BY <1>1, <1>2, <1>3, PTL DEF DbSpec
  <1> QED
    BY <1>3, <1>4, PTL DEF Inv

\* No run executes past an unfinished step while it can still run: claims, takeovers,
\* requeues and settlements, in any order, keep the sequence of a run's steps.
THEOREM OrderedExecutionCorrect == DbSpec => []OrderedExecution
  BY InvCorrect, PTL DEF Inv, Safe

\* A terminal run is finished and its state says truly how, although settleRuns decides
\* on flags it read before its transaction.
THEOREM RunTerminalSoundCorrect == DbSpec => []RunTerminalSound
  BY InvCorrect, PTL DEF Inv, Safe

\* The settlement discovery needs no lock: nothing it read can change under it.
THEOREM DiscoveryCorrect == DbSpec => []DiscoveryStaysTrue
  BY InvCorrect, PTL DEF Inv, Safe

-----------------------------------------------------------------------------
(* Write-once terminals *)

\* No transaction rewrites a terminal step, its knowledge, or a terminal run.
LEMMA TerminalStep ==
  ASSUME DbTypeOK, DbNext
  PROVE  /\ \A s \in Steps : state[s] \in StepTerminal =>
              state'[s] = state[s] /\ sideEffectKnowledge'[s] = sideEffectKnowledge[s]
         /\ \A r \in Runs : runState[r] \in RunTerminal => runState'[r] = runState[r]
  <1> DEFINE Kept ==
        /\ \A s \in Steps : state[s] \in StepTerminal =>
             state'[s] = state[s] /\ sideEffectKnowledge'[s] = sideEffectKnowledge[s]
        /\ \A r \in Runs : runState[r] \in RunTerminal => runState'[r] = runState[r]
  <1> USE StepsAssumption DEF Active, StepTerminal, RunTerminal, stepVars, runVars
  <1>1. ASSUME NEW s \in Steps, DbStepAction(s) PROVE Kept
    <2>1. CASE \E to \in {"RECONCILE", "DISPATCHED"} : SetDispatchMarker(s, DispatchState, to)
      BY <2>1 DEF SetDispatchMarker
    <2>2. CASE LeaseExpires(s)
      BY <2>2 DEF LeaseExpires
    <2>3. CASE resolveExpiredLease(s)
      BY <2>3 DEF resolveExpiredLease, LeaseExpired, DbTypeOK
    <2>4. CASE \E k \in Knowledge : recordInvocation(s, k)
      BY <2>4 DEF recordInvocation
    <2>5. CASE \E o \in Owners : DbClaim(s, o)
      BY <2>5 DEF DbClaim, claimStep, claimable, DbTypeOK
    <2>6. ASSUME NEW o \in Owners, NEW t \in Issued(s), heartbeatStep(s, o, t) PROVE Kept
      BY <2>6 DEF heartbeatStep
    <2>7. ASSUME NEW o \in Owners, NEW t \in Issued(s), markExecuting(s, o, t) PROVE Kept
      BY <2>7 DEF markExecuting, DbTypeOK
    <2>8. ASSUME NEW o \in Owners, NEW t \in Issued(s), NEW st \in Outcome, NEW k \in Knowledge,
                 writeTerminalState(s, o, t, st, k)
          PROVE Kept
      BY <2>8 DEF writeTerminalState, CanWriteTerminal, DbTypeOK
    <2> QED
      BY <1>1, <2>1, <2>2, <2>3, <2>4, <2>5, <2>6, <2>7, <2>8 DEF DbStepAction
  <1>2. ASSUME NEW r \in Runs, DbRunAction(r) PROVE Kept
    <2>1. CASE markRunDispatching(r)
      BY <2>1 DEF markRunDispatching, DbTypeOK
    <2>2. CASE TouchRun(r) \/ requestCancel(r)
      BY <2>2 DEF TouchRun, requestCancel
    <2>3. CASE settleCancelledRun(r)
      BY <2>3 DEF settleCancelledRun, DbTypeOK
    <2>4. CASE \E pending \in SUBSET StepsOf(r) : markNothingEnqueued(r, pending)
      BY <2>4 DEF markNothingEnqueued
    <2>5. CASE \E o \in Owners, closeOpen \in BOOLEAN : settleRun(o, r, closeOpen)
      BY <2>5 DEF settleRun, DbTypeOK
    <2> QED
      BY <1>2, <2>1, <2>2, <2>3, <2>4, <2>5 DEF DbRunAction
  <1>3. ASSUME NEW o \in Owners, discoverSettleable(o) \/ forgetDiscovered(o) PROVE Kept
    BY <1>3 DEF discoverSettleable, forgetDiscovered
  <1> QED
    BY <1>1, <1>2, <1>3 DEF DbNext

\* Terminal states and their knowledge are final, whatever stale generation, sweep or
\* cancellation writes later (ADR-0009).
THEOREM TerminalWriteOnceCorrect == DbSpec => TerminalWriteOnce
  <1>1. DbTypeOK /\ [DbNext]_dbVars =>
          [ /\ \A s \in Steps : state[s] \in StepTerminal =>
                 state'[s] = state[s] /\ sideEffectKnowledge'[s] = sideEffectKnowledge[s]
            /\ \A r \in Runs : runState[r] \in RunTerminal => runState'[r] = runState[r] ]_dbVars
    BY TerminalStep
  <1> QED
    BY <1>1, DbTypeCorrect, PTL DEF DbSpec, TerminalWriteOnce

\* What ProvenanceAdvances says of one step and one run in one transition.
StepCounted(s) ==
  \/ state'[s] # state[s] \/ sideEffectKnowledge'[s] # sideEffectKnowledge[s]
  \/ fencingToken'[s] # fencingToken[s] \/ invocations'[s] # invocations[s]
  \/ dispatchState'[s] # dispatchState[s] \/ executingAt'[s] # executingAt[s]
  \/ leaseOwnerId'[s] # leaseOwnerId[s]
  => prov'[RunOf[s]] = (prov[RunOf[s]] + 1) % ProvModulus

RunCounted(r) ==
  runState'[r] # runState[r] \/ cancelRequested'[r] # cancelRequested[r]
    => prov'[r] = (prov[r] + 1) % ProvModulus

Counted == (\A s \in Steps : StepCounted(s)) /\ (\A r \in Runs : RunCounted(r))

\* A transaction that advances P of one run and writes only its rows is counted.
LEMMA OwnRunCounted ==
  ASSUME DbTypeOK, NEW r \in Runs, AdvanceP(r),
         \A s \in Steps : RunOf[s] # r =>
           UNCHANGED <<state[s], sideEffectKnowledge[s], fencingToken[s], invocations[s],
                       dispatchState[s], executingAt[s], leaseOwnerId[s]>>,
         \A q \in Runs \ {r} : UNCHANGED <<runState[q], cancelRequested[q]>>
  PROVE  Counted
  <1>1. prov'[r] = (prov[r] + 1) % ProvModulus
    BY DEF AdvanceP, DbTypeOK
  <1>2. ASSUME NEW s \in Steps PROVE StepCounted(s)
    <2>1. CASE RunOf[s] = r
      BY <1>1, <2>1 DEF StepCounted
    <2>2. CASE RunOf[s] # r
      BY <2>2 DEF StepCounted
    <2> QED
      BY <2>1, <2>2
  <1>3. ASSUME NEW q \in Runs PROVE RunCounted(q)
    <2>1. CASE q = r
      BY <1>1, <2>1 DEF RunCounted
    <2>2. CASE q # r
      BY <2>2 DEF RunCounted
    <2> QED
      BY <2>1, <2>2
  <1> QED
    BY <1>2, <1>3 DEF Counted

\* A transaction that writes none of the counted columns need not advance P.
LEMMA NothingCounted ==
  ASSUME UNCHANGED <<state, sideEffectKnowledge, fencingToken, invocations, dispatchState,
                     executingAt, leaseOwnerId, runState, cancelRequested>>
  PROVE  Counted
  BY DEF Counted, StepCounted, RunCounted

\* Every transaction of the open system is counted.
LEMMA NextCounted == DbTypeOK /\ [DbNext]_dbVars => Counted
  <1> SUFFICES ASSUME DbTypeOK, [DbNext]_dbVars PROVE Counted
    OBVIOUS
  <1>1. ASSUME NEW s \in Steps, DbStepAction(s) PROVE Counted
    <2>0. RunOf[s] \in Runs
      BY StepsAssumption
    <2> USE <2>0, OwnRunCounted, StepsAssumption
    <2>1. CASE \E to \in {"RECONCILE", "DISPATCHED"} : SetDispatchMarker(s, DispatchState, to)
      BY <2>1 DEF SetDispatchMarker, DbTypeOK, runVars
    <2>2. CASE LeaseExpires(s)
      BY <2>2, NothingCounted DEF LeaseExpires, runVars
    <2>3. CASE resolveExpiredLease(s)
      <3>1. CASE s \in Mutating
        BY <2>3, <3>1 DEF resolveExpiredLease, DbTypeOK, runVars
      <3>2. CASE s \notin Mutating
        BY <2>3, <3>2 DEF resolveExpiredLease, DbTypeOK, runVars
      <3> QED
        BY <3>1, <3>2
    <2>4. CASE \E k \in Knowledge : recordInvocation(s, k)
      BY <2>4 DEF recordInvocation, DbTypeOK, runVars
    <2>5. CASE \E o \in Owners : DbClaim(s, o)
      BY <2>5 DEF DbClaim, claimStep, DbTypeOK
    <2>6. ASSUME NEW o \in Owners, NEW t \in Issued(s), heartbeatStep(s, o, t) PROVE Counted
      BY <2>6 DEF heartbeatStep, DbTypeOK, runVars
    <2>7. ASSUME NEW o \in Owners, NEW t \in Issued(s), markExecuting(s, o, t) PROVE Counted
      BY <2>7 DEF markExecuting, DbTypeOK, runVars
    <2>8. ASSUME NEW o \in Owners, NEW t \in Issued(s), NEW st \in Outcome, NEW k \in Knowledge,
                 writeTerminalState(s, o, t, st, k)
          PROVE Counted
      BY <2>8 DEF writeTerminalState, DbTypeOK, runVars
    <2> QED
      BY <1>1, <2>1, <2>2, <2>3, <2>4, <2>5, <2>6, <2>7, <2>8 DEF DbStepAction
  <1>2. ASSUME NEW r \in Runs, DbRunAction(r) PROVE Counted
    <2> USE OwnRunCounted
    <2>1. CASE markRunDispatching(r)
      BY <2>1 DEF markRunDispatching, DbTypeOK, stepVars
    <2>2. CASE TouchRun(r)
      BY <2>2, NothingCounted DEF TouchRun, stepVars, runVars
    <2>3. CASE settleCancelledRun(r)
      <3> DEFINE open == {s \in StepsOf(r) : state[s] \notin StepTerminal}
      <3>1. CASE open # {} \/ runState[r] \notin RunTerminal
        <4>1. AdvanceP(r)
          BY <2>3, <3>1 DEF settleCancelledRun
        <4> QED
          BY <2>3, <4>1 DEF settleCancelledRun, DbTypeOK, StepsOf
      <3>2. CASE open = {} /\ runState[r] \in RunTerminal
        <4>1. \A s \in Steps : state'[s] = state[s] /\ sideEffectKnowledge'[s] = sideEffectKnowledge[s]
          BY <2>3, <3>2 DEF settleCancelledRun
        <4>2. \A q \in Runs : runState'[q] = runState[q]
          BY <2>3, <3>2 DEF settleCancelledRun, DbTypeOK
        <4> QED
          BY <2>3, <4>1, <4>2 DEF settleCancelledRun, Counted, StepCounted, RunCounted
      <3> QED
        BY <3>1, <3>2
    <2>4. CASE requestCancel(r)
      BY <2>4 DEF requestCancel, DbTypeOK, stepVars
    <2>5. CASE \E pending \in SUBSET StepsOf(r) : markNothingEnqueued(r, pending)
      BY <2>5 DEF markNothingEnqueued, DbTypeOK, runVars, StepsOf
    <2>6. ASSUME NEW o \in Owners, NEW closeOpen \in BOOLEAN, settleRun(o, r, closeOpen)
          PROVE Counted
      <3> DEFINE cancelled == {s \in StepsOf(r) : closeOpen /\ state[s] = "PENDING"}
      <3>1. CASE cancelled # {} \/ runState[r] = "RUNNING"
        <4>1. AdvanceP(r)
          BY <2>6, <3>1 DEF settleRun
        <4> QED
          BY <2>6, <4>1 DEF settleRun, DbTypeOK, StepsOf
      <3>2. CASE cancelled = {} /\ runState[r] # "RUNNING"
        <4>1. \A s \in Steps : state'[s] = state[s] /\ sideEffectKnowledge'[s] = sideEffectKnowledge[s]
          BY <2>6, <3>2 DEF settleRun
        <4>2. \A q \in Runs : runState'[q] = runState[q]
          BY <2>6, <3>2 DEF settleRun, DbTypeOK
        <4> QED
          BY <2>6, <4>1, <4>2 DEF settleRun, Counted, StepCounted, RunCounted
      <3> QED
        BY <3>1, <3>2
    <2> QED
      BY <1>2, <2>1, <2>2, <2>3, <2>4, <2>5, <2>6 DEF DbRunAction
  <1>3. ASSUME NEW o \in Owners, discoverSettleable(o) \/ forgetDiscovered(o) PROVE Counted
    BY <1>3, NothingCounted DEF discoverSettleable, forgetDiscovered, stepVars, runVars
  <1>4. CASE UNCHANGED dbVars
    BY <1>4, NothingCounted DEF dbVars
  <1> QED
    BY <1>1, <1>2, <1>3, <1>4 DEF DbNext

\* Writer protocol (ADR-0026 section 13): whatever changes a counted column of a run
\* or of its steps advances the P of that run, exactly once.
THEOREM ProvenanceAdvancesCorrect == DbSpec => ProvenanceAdvances
  <1>1. DbTypeOK /\ [DbNext]_dbVars =>
          [ /\ \A s \in Steps :
                 \/ state'[s] # state[s] \/ sideEffectKnowledge'[s] # sideEffectKnowledge[s]
                 \/ fencingToken'[s] # fencingToken[s] \/ invocations'[s] # invocations[s]
                 \/ dispatchState'[s] # dispatchState[s] \/ executingAt'[s] # executingAt[s]
                 \/ leaseOwnerId'[s] # leaseOwnerId[s]
                 => prov'[RunOf[s]] = (prov[RunOf[s]] + 1) % ProvModulus
            /\ \A r \in Runs : runState'[r] # runState[r] \/ cancelRequested'[r] # cancelRequested[r]
                 => prov'[r] = (prov[r] + 1) % ProvModulus ]_dbVars
    BY NextCounted DEF Counted, StepCounted, RunCounted
  <1> QED
    BY <1>1, DbTypeCorrect, PTL DEF DbSpec, ProvenanceAdvances

-----------------------------------------------------------------------------
(* The transactions implement the lifecycle *)

\* A transaction that leaves every phase alone is a stutter of the lifecycle.
LEMMA LifecycleStutter ==
  ASSUME DbTypeOK,
         \A s \in Steps : \/ state'[s] = state[s]
                          \/ state[s] \in Active /\ state'[s] \in Active,
         \A r \in Runs : \/ runState'[r] = runState[r]
                         \/ runState[r] \notin RunTerminal /\ runState'[r] \notin RunTerminal
  PROVE  UNCHANGED Lifecycle!lifecycle
  BY DEF Lifecycle!lifecycle, PhaseOf, RunPhaseOf, DbTypeOK, Active

\* A step whose run is open leaves it, and every other step, as they were.
LEMMA OneStepMoves ==
  ASSUME DbTypeOK, NEW s \in Steps, \A p \in Steps \ {s} : state'[p] = state[p],
         \A r \in Runs : \/ runState'[r] = runState[r]
                         \/ runState[r] \notin RunTerminal /\ runState'[r] \notin RunTerminal
  PROVE  /\ PhaseOf' = [PhaseOf EXCEPT ![s] = PhaseOf'[s]]
         /\ UNCHANGED RunPhaseOf
  <1>1. UNCHANGED RunPhaseOf
    BY DEF RunPhaseOf
  <1>2. PhaseOf' = [PhaseOf EXCEPT ![s] = PhaseOf'[s]]
    BY DEF PhaseOf
  <1> QED
    BY <1>1, <1>2

Moves == Lifecycle!Next \/ UNCHANGED Lifecycle!lifecycle

\* A claim starts a pending step, or takes over one that is started already.
LEMMA ClaimMoves ==
  ASSUME Inv, NEW s \in Steps, NEW o \in Owners, claimStep(s, o)
  PROVE  Moves
  <1> USE StepsAssumption DEF Inv
  <1>1. /\ \A p \in Steps \ {s} : state'[p] = state[p]
        /\ state'[s] = "CLAIMED"
        /\ \A r \in Runs : \/ runState'[r] = runState[r]
                           \/ runState[r] \notin RunTerminal /\ runState'[r] \notin RunTerminal
    <2>1. runState' = [runState EXCEPT ![RunOf[s]] = IF @ = "DISPATCHING" THEN "RUNNING" ELSE @]
      BY DEF claimStep
    <2> QED
      BY <2>1 DEF claimStep, DbTypeOK, RunTerminal
  <1>2. CASE state[s] = "PENDING"
    <2>1. PhaseOf' = [PhaseOf EXCEPT ![s] = "started"] /\ UNCHANGED RunPhaseOf
      BY <1>1, OneStepMoves DEF PhaseOf, Active
    <2>2. /\ RunPhaseOf[RunOf[s]] = "open" /\ PhaseOf[s] = "waiting"
          /\ \A p \in Lifecycle!OfRun(RunOf[s]) : Index[p] < Index[s] => PhaseOf[p] = "SUCCEEDED"
      BY <1>2 DEF claimStep, claimable, RunPhaseOf, PhaseOf, Lifecycle!OfRun, EarlierSucceeded,
        StepsOf, Active
    <2>3. Lifecycle!Start(s)
      BY <2>1, <2>2 DEF Lifecycle!Start
    <2> QED
      BY <2>3 DEF Moves, Lifecycle!Next
  <1>3. CASE state[s] \in Active
    <2>1. \A p \in Steps : \/ state'[p] = state[p]
                           \/ state[p] \in Active /\ state'[p] \in Active
      BY <1>1, <1>3 DEF Active
    <2> QED
      BY <1>1, <2>1, LifecycleStutter DEF Moves
  <1> QED
    BY <1>2, <1>3 DEF claimStep, claimable

\* A write of a terminal state, or the resolution of an expired lease, finishes a started
\* step or puts a read-only one back.
LEMMA OutcomeMoves ==
  ASSUME Inv, NEW s \in Steps, state[s] \in Active, \A p \in Steps \ {s} : state'[p] = state[p],
         state'[s] \in StepTerminal \/ (state'[s] = "PENDING" /\ s \notin Mutating),
         runState' = runState
  PROVE  Moves
  <1> USE StepsAssumption DEF Inv
  <1>1. /\ PhaseOf' = [PhaseOf EXCEPT ![s] = PhaseOf'[s]]
        /\ UNCHANGED RunPhaseOf
    BY OneStepMoves
  <1>2. RunPhaseOf[RunOf[s]] = "open" /\ PhaseOf[s] = "started"
    BY DEF Safe, RunTerminalSound, HasOpen, StepsOf, RunPhaseOf, PhaseOf, Active, StepTerminal
  <1>3. CASE state'[s] \in StepTerminal
    <2>1. PhaseOf'[s] \in Lifecycle!Finished
      BY <1>3 DEF PhaseOf, StepTerminal, Active, Lifecycle!Finished
    <2>2. Lifecycle!Finish(s, PhaseOf'[s])
      BY <1>1, <1>2 DEF Lifecycle!Finish
    <2> QED
      BY <2>1, <2>2 DEF Moves, Lifecycle!Next
  <1>4. CASE state'[s] = "PENDING" /\ s \notin Mutating
    <2>1. PhaseOf'[s] = "waiting"
      BY <1>4 DEF PhaseOf
    <2>2. Lifecycle!StartOver(s)
      BY <1>1, <1>2, <1>4, <2>1 DEF Lifecycle!StartOver
    <2> QED
      BY <2>2 DEF Moves, Lifecycle!Next
  <1> QED
    BY <1>3, <1>4

\* A settlement completes or aborts the run, or finds it settled already.
LEMMA SettleMoves ==
  ASSUME Inv, NEW o \in Owners, NEW r \in Runs, NEW closeOpen \in BOOLEAN,
         settleRun(o, r, closeOpen)
  PROVE  Moves
  <1> USE StepsAssumption DEF Inv
  <1> DEFINE cancelled == {s \in StepsOf(r) : closeOpen /\ state[s] = "PENDING"}
  <1>1. /\ <<r, closeOpen>> \in discovered[o]
        /\ state' = [s \in Steps |-> IF s \in cancelled THEN "CANCELLED" ELSE state[s]]
        /\ runState' = [runState EXCEPT ![r] = IF @ # "RUNNING" THEN @
                          ELSE IF cancelled # {} \/ HasFailure(r) THEN "FAILED" ELSE "COMPLETED"]
    BY DEF settleRun
  <1>2. CASE runState[r] \in RunTerminal
    <2>1. cancelled = {}
      BY <1>2 DEF Safe, RunTerminalSound, HasOpen, StepTerminal
    <2>2. \A s \in Steps : state'[s] = state[s]
      BY <1>1, <2>1
    <2>3. \A q \in Runs : runState'[q] = runState[q]
      BY <1>1, <1>2 DEF DbTypeOK, RunTerminal
    <2> QED
      BY <2>2, <2>3, LifecycleStutter DEF Moves
  <1>3. CASE runState[r] \notin RunTerminal
    <2>1. /\ runState[r] = "RUNNING"
          /\ \A s \in StepsOf(r) : state[s] \notin Active
          /\ IF closeOpen THEN HasFailure(r) ELSE ~HasOpen(r)
      BY <1>1, <1>3 DEF Safe, DiscoveryStaysTrue
    <2>2. RunPhaseOf[r] = "open"
      BY <1>3 DEF RunPhaseOf
    <2>3. \A s \in StepsOf(r) : PhaseOf[s] # "started"
      BY <2>1 DEF PhaseOf, StepsOf, DbTypeOK, StepState, StepTerminal
    <2>4. CASE HasFailure(r)
      <3>1. runState' = [runState EXCEPT ![r] = "FAILED"]
        BY <1>1, <2>1, <2>4 DEF DbTypeOK
      <3>2. RunPhaseOf' = [RunPhaseOf EXCEPT ![r] = "FAILED"]
        BY <3>1 DEF RunPhaseOf, RunTerminal, DbTypeOK
      <3>3. \E s \in Lifecycle!OfRun(r) : PhaseOf[s] \in {"FAILED", "CANCELLED"}
        BY <2>4 DEF HasFailure, StepsOf, Lifecycle!OfRun, PhaseOf, Active
      <3>4. \A s \in StepsOf(r) : state[s] = "PENDING" => closeOpen
        BY <2>1 DEF HasOpen, StepTerminal
      <3>5. PhaseOf' = [s \in Steps |-> IF s \in Lifecycle!OfRun(r) /\ PhaseOf[s] = "waiting"
                                        THEN "CANCELLED" ELSE PhaseOf[s]]
        BY <1>1, <3>4 DEF PhaseOf, StepsOf, Lifecycle!OfRun, Active, DbTypeOK, StepState,
          StepTerminal
      <3>6. Lifecycle!Abort(r)
        BY <2>2, <2>3, <3>2, <3>3, <3>5 DEF Lifecycle!Abort, Lifecycle!OfRun, StepsOf
      <3> QED
        BY <3>6 DEF Moves, Lifecycle!Next
    <2>5. CASE ~HasFailure(r)
      <3>1. cancelled = {}
        BY <2>1, <2>5
      <3>2. runState' = [runState EXCEPT ![r] = "COMPLETED"]
        BY <1>1, <2>1, <2>5, <3>1 DEF DbTypeOK
      <3>3. RunPhaseOf' = [RunPhaseOf EXCEPT ![r] = "COMPLETED"]
        BY <3>2 DEF RunPhaseOf, RunTerminal, DbTypeOK
      <3>4. UNCHANGED PhaseOf
        BY <1>1, <3>1 DEF PhaseOf
      <3>5. \A s \in Lifecycle!OfRun(r) : PhaseOf[s] = "SUCCEEDED"
        BY <2>1, <2>5 DEF HasFailure, HasOpen, StepsOf, Lifecycle!OfRun, PhaseOf, Active,
          StepTerminal
      <3>6. Lifecycle!Complete(r)
        BY <2>2, <3>3, <3>4, <3>5 DEF Lifecycle!Complete
      <3> QED
        BY <3>6 DEF Moves, Lifecycle!Next
    <2> QED
      BY <2>4, <2>5
  <1> QED
    BY <1>2, <1>3

\* The settlement of a cancelled run ends the run with everything open.
LEMMA SettleCancelledMoves ==
  ASSUME Inv, NEW r \in Runs, settleCancelledRun(r)
  PROVE  Moves
  <1> USE StepsAssumption DEF Inv
  <1> DEFINE open == {s \in StepsOf(r) : state[s] \notin StepTerminal}
  <1>1. /\ state' = [s \in Steps |-> IF s \in open THEN "CANCELLED" ELSE state[s]]
        /\ runState' = [runState EXCEPT ![r] = IF @ \in RunTerminal THEN @ ELSE "CANCELLED"]
    BY DEF settleCancelledRun
  <1>2. CASE runState[r] \in RunTerminal
    <2>1. open = {}
      BY <1>2 DEF Safe, RunTerminalSound, HasOpen
    <2>2. \A s \in Steps : state'[s] = state[s]
      BY <1>1, <2>1
    <2>3. \A q \in Runs : runState'[q] = runState[q]
      BY <1>1, <1>2 DEF DbTypeOK
    <2> QED
      BY <2>2, <2>3, LifecycleStutter DEF Moves
  <1>3. CASE runState[r] \notin RunTerminal
    <2>1. runState' = [runState EXCEPT ![r] = "CANCELLED"]
      BY <1>1, <1>3 DEF DbTypeOK
    <2>2. RunPhaseOf[r] = "open" /\ RunPhaseOf' = [RunPhaseOf EXCEPT ![r] = "CANCELLED"]
      BY <1>3, <2>1 DEF RunPhaseOf, RunTerminal, DbTypeOK
    <2>3. PhaseOf' = [s \in Steps |-> IF s \in Lifecycle!OfRun(r) /\ PhaseOf[s] \notin Lifecycle!Finished
                                      THEN "CANCELLED" ELSE PhaseOf[s]]
      BY <1>1 DEF PhaseOf, StepsOf, Lifecycle!OfRun, Lifecycle!Finished, Active, DbTypeOK,
        StepState, StepTerminal
    <2>4. Lifecycle!Cancel(r)
      BY <2>2, <2>3 DEF Lifecycle!Cancel
    <2> QED
      BY <2>4 DEF Moves, Lifecycle!Next
  <1> QED
    BY <1>2, <1>3

\* Every transaction is a step of the lifecycle or changes nothing of it.
LEMMA NextMoves == Inv /\ [DbNext]_dbVars => Moves
  <1> SUFFICES ASSUME Inv, [DbNext]_dbVars PROVE Moves
    OBVIOUS
  <1>1. ASSUME state' = state, runState' = runState PROVE Moves
    BY <1>1, LifecycleStutter DEF Moves, Inv
  <1> USE <1>1 DEF stepVars, runVars
  <1>2. ASSUME NEW s \in Steps, DbStepAction(s) PROVE Moves
    <2>1. CASE \E to \in {"RECONCILE", "DISPATCHED"} : SetDispatchMarker(s, DispatchState, to)
      BY <2>1 DEF SetDispatchMarker
    <2>2. CASE LeaseExpires(s)
      BY <2>2 DEF LeaseExpires
    <2>3. CASE resolveExpiredLease(s)
      <3>1. /\ state[s] \in Active /\ \A p \in Steps \ {s} : state'[p] = state[p]
            /\ state'[s] \in StepTerminal \/ (state'[s] = "PENDING" /\ s \notin Mutating)
            /\ runState' = runState
        BY <2>3 DEF resolveExpiredLease, LeaseExpired, Inv, DbTypeOK, StepTerminal
      <3> QED
        BY <3>1, OutcomeMoves
    <2>4. CASE \E k \in Knowledge : recordInvocation(s, k)
      BY <2>4 DEF recordInvocation
    <2>5. CASE \E o \in Owners : DbClaim(s, o)
      BY <2>5, ClaimMoves DEF DbClaim
    <2>6. ASSUME NEW o \in Owners, NEW t \in Issued(s), heartbeatStep(s, o, t) PROVE Moves
      BY <2>6 DEF heartbeatStep
    <2>7. ASSUME NEW o \in Owners, NEW t \in Issued(s), markExecuting(s, o, t) PROVE Moves
      <3>1. /\ \A p \in Steps : \/ state'[p] = state[p]
                                \/ state[p] \in Active /\ state'[p] \in Active
            /\ runState' = runState
        BY <2>7 DEF markExecuting, Active, Inv, DbTypeOK
      <3> QED
        BY <3>1, LifecycleStutter DEF Moves, Inv
    <2>8. ASSUME NEW o \in Owners, NEW t \in Issued(s), NEW st \in Outcome, NEW k \in Knowledge,
                 writeTerminalState(s, o, t, st, k)
          PROVE Moves
      <3>1. /\ state[s] \in Active /\ \A p \in Steps \ {s} : state'[p] = state[p]
            /\ state'[s] \in StepTerminal
            /\ runState' = runState
        BY <2>8 DEF writeTerminalState, CanWriteTerminal, Outcome, Inv, DbTypeOK, StepTerminal
      <3> QED
        BY <3>1, OutcomeMoves
    <2> QED
      BY <1>2, <2>1, <2>2, <2>3, <2>4, <2>5, <2>6, <2>7, <2>8 DEF DbStepAction
  <1>3. ASSUME NEW r \in Runs, DbRunAction(r) PROVE Moves
    <2>1. CASE markRunDispatching(r)
      <3>1. /\ state' = state
            /\ \A q \in Runs : \/ runState'[q] = runState[q]
                               \/ runState[q] \notin RunTerminal /\ runState'[q] \notin RunTerminal
        BY <2>1 DEF markRunDispatching, RunTerminal, Inv, DbTypeOK
      <3> QED
        BY <3>1, LifecycleStutter DEF Moves, Inv
    <2>2. CASE TouchRun(r) \/ requestCancel(r)
      BY <2>2 DEF TouchRun, requestCancel
    <2>3. CASE settleCancelledRun(r)
      BY <2>3, SettleCancelledMoves
    <2>4. CASE \E pending \in SUBSET StepsOf(r) : markNothingEnqueued(r, pending)
      BY <2>4 DEF markNothingEnqueued
    <2>5. CASE \E o \in Owners, closeOpen \in BOOLEAN : settleRun(o, r, closeOpen)
      BY <2>5, SettleMoves
    <2> QED
      BY <1>3, <2>1, <2>2, <2>3, <2>4, <2>5 DEF DbRunAction
  <1>4. ASSUME NEW o \in Owners, discoverSettleable(o) \/ forgetDiscovered(o) PROVE Moves
    BY <1>4 DEF discoverSettleable, forgetDiscovered
  <1>5. CASE UNCHANGED dbVars
    BY <1>5 DEF dbVars
  <1> QED
    BY <1>2, <1>3, <1>4, <1>5 DEF DbNext

\* The control-plane transactions implement the run lifecycle for every number of runs,
\* steps and workers, whatever order their callers issue them in.
THEOREM ImplementsLifecycleCorrect == DbSpec => ImplementsLifecycle
  <1>1. DbInit => Lifecycle!Init
    BY DEF DbInit, Lifecycle!Init, PhaseOf, RunPhaseOf, Active, RunTerminal
  <1>2. Inv /\ [DbNext]_dbVars => Lifecycle!Next \/ UNCHANGED Lifecycle!lifecycle
    BY NextMoves DEF Moves
  <1>3. DbSpec => []Inv
    BY InvCorrect
  <1> QED
    BY <1>1, <1>2, <1>3, PTL DEF DbSpec, ImplementsLifecycle, Lifecycle!Spec

=============================================================================
