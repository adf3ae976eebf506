-------------------------- MODULE ExecutionProofs --------------------------
(***************************************************************************)
(* Proofs about the processes around the control-plane rows, for any       *)
(* number of runs, steps, workers, job slots, lanes and faults.            *)
(***************************************************************************)
EXTENDS Execution, ControlDbProofs, SideEffectsProofs, FiniteSetTheorems

Repairing == {"repair", "repairRows", "repairWrite"}

ControlPoint ==
  {"idle", "claim", "gate", "precheck", "arm", "wave", "inflight", "terminal", "chain",
   "promote", "chainEnqueue", "chainMark", "orphaned"} \cup Repairing

QueueTypeOK ==
  /\ job \in [Steps -> {"none", "waiting", "active", "retained"}]
  /\ holder \in [Steps -> Execs \cup {NoExec}]
  /\ stalled \in [Steps -> BOOLEAN]
  /\ redisUp \in BOOLEAN

ApiTypeOK ==
  /\ dpc \in [Runs -> {"idle", "mark", "query", "enqueue", "marker", "nothing"}]
  /\ dset \in [Runs -> SUBSET Steps]
  /\ cpc \in [Runs -> {"idle", "request", "settle"}]

SlotTypeOK ==
  /\ pc \in [Execs -> ControlPoint]
  /\ estep \in [Execs -> Steps \cup {NoStep}]
  /\ etok \in [Execs -> Nat]
  /\ wave \in [Execs -> Nat]
  /\ agg \in [Execs -> Knowledge]
  /\ ok \in [Execs -> BOOLEAN]
  /\ rtok \in [Execs -> Nat]

WorkerTypeOK ==
  /\ alive \in [Owners -> BOOLEAN]
  /\ hb \in [Owners -> Steps \cup {NoStep}]
  /\ hbtok \in [Owners -> Nat]
  /\ spc \in [Owners -> {"idle", "dispatch", "mark", "settle", "lease"}]
  /\ sset \in [Owners -> SUBSET Steps]
  /\ sstep \in [Owners -> Steps \cup {NoStep}]

LaneTypeOK == slot \in [Execs -> [Lanes -> Lane]]

CountTypeOK == effects \in [Steps -> Nat] /\ faults \in [FaultKind -> Nat]

ExecTypeOK ==
  QueueTypeOK /\ ApiTypeOK /\ SlotTypeOK /\ WorkerTypeOK /\ LaneTypeOK /\ CountTypeOK

-----------------------------------------------------------------------------
(***************************************************************************)
(* Only a dispatched run is worked on: whatever names a step to be         *)
(* enqueued, delivered, claimed or marked names one of a run that is past  *)
(* SNAPSHOT_PINNED.  And a job slot's control point says what it holds: a  *)
(* generation from its claim on, invocations only from a wave on.          *)
(***************************************************************************)
Unpinned(s) == runState[RunOf[s]] # "SNAPSHOT_PINNED"

DispatchedOnly ==
  /\ \A s \in Steps : job[s] # "none" => Unpinned(s)
  /\ \A r \in Runs : /\ dset[r] \subseteq StepsOf(r)
                     /\ dpc[r] \notin {"idle", "mark"} => runState[r] # "SNAPSHOT_PINNED"
  /\ \A o \in Owners : /\ spc[o] \in {"dispatch", "mark"} => \A s \in sset[o] : Unpinned(s)
                       /\ spc[o] = "mark" => sstep[o] \in Steps

NoLane == [i \in Lanes |-> LaneOff]

SlotPoint(e) ==
  /\ pc[e] = "idle" => etok[e] = 0
  /\ pc[e] # "idle" => estep[e] \in Steps /\ Unpinned(estep[e])
  /\ pc[e] = "claim" => etok[e] = 0
  /\ pc[e] \notin {"idle", "claim"} \cup Repairing => etok[e] > 0
  /\ pc[e] \notin {"inflight", "orphaned"} \cup Repairing \/ etok[e] = 0 => slot[e] = NoLane
  /\ pc[e] \in {"idle", "claim", "gate", "precheck", "arm", "orphaned"}
       => wave[e] = 0 /\ agg[e] = "NOT_APPLICABLE" /\ ok[e] /\ rtok[e] = 0
  /\ etok[e] > 0 => alive[OwnerOf[e]]

(***************************************************************************)
(* Fencing.  No slot holds a token newer than the row's, the holder of the *)
(* row's token owns the row while the step is active, and two slots never  *)
(* hold the same token of a step.                                          *)
(***************************************************************************)
SlotToken(e) ==
  /\ etok[e] > 0 => EarlierSucceeded(estep[e]) /\ etok[e] <= fencingToken[estep[e]]
  /\ etok[e] > 0 /\ etok[e] = fencingToken[estep[e]] /\ state[estep[e]] \in Active
       => leaseOwnerId[estep[e]] = OwnerOf[e]
  /\ pc[e] \in {"repairRows", "repairWrite"} => rtok[e] \in 1 .. fencingToken[estep[e]]

TokensDistinct ==
  \A e, f \in Execs :
    e # f /\ etok[e] > 0 /\ etok[f] > 0 /\ estep[f] = estep[e] => etok[f] # etok[e]

RowToken == \A s \in Steps : state[s] \in Active => fencingToken[s] > 0

HeartbeatToken == \A o \in Owners : hb[o] # NoStep => hbtok[o] \in 1 .. fencingToken[hb[o]]

ExecInv ==
  /\ Inv /\ ExecTypeOK
  /\ DispatchedOnly
  /\ \A e \in Execs : SlotPoint(e) /\ SlotToken(e)
  /\ TokensDistinct /\ RowToken /\ HeartbeatToken

\* A run starts with nothing queued, held or counted.
LEMMA ExecInit == Init => ExecInv
  <1> SUFFICES ASSUME Init PROVE ExecInv
    OBVIOUS
  <1>1. Inv
    BY InvInit, DbTypeInit DEF Inv, Init
  <1>2. QueueTypeOK /\ ApiTypeOK /\ WorkerTypeOK /\ CountTypeOK
    BY DEF Init, QueueTypeOK, ApiTypeOK, WorkerTypeOK, CountTypeOK
  <1>3. SlotTypeOK
    BY DEF Init, SlotTypeOK, ControlPoint, Knowledge
  <1>4. LaneTypeOK
    <2>1. LaneOff \in Lane
      BY DEF LaneOff, Lane, LaneState, Knowledge, SAFE_RETRY_MAX_ATTEMPTS
    <2> QED
      BY <2>1 DEF Init, LaneTypeOK
  <1>5. DispatchedOnly
    BY DEF Init, DispatchedOnly
  <1>6. \A e \in Execs : SlotPoint(e) /\ SlotToken(e)
    BY DEF Init, SlotPoint, SlotToken, NoLane
  <1>7. TokensDistinct /\ RowToken /\ HeartbeatToken
    BY DEF Init, DbInit, TokensDistinct, RowToken, HeartbeatToken, Active
  <1> QED
    BY <1>1, <1>2, <1>3, <1>4, <1>5, <1>6, <1>7 DEF ExecInv, ExecTypeOK

-----------------------------------------------------------------------------
(***************************************************************************)
(* What any transaction may do to any row.                                 *)
(***************************************************************************)
RowForward(s) ==
  /\ fencingToken'[s] = fencingToken[s] \/ fencingToken'[s] = fencingToken[s] + 1
  /\ state[s] \in StepTerminal => state'[s] = state[s]
  /\ sideEffectKnowledge'[s] # sideEffectKnowledge[s] => state'[s] \in StepTerminal
  /\ executingAt[s] => executingAt'[s]
  /\ invocations[s] \subseteq invocations'[s]
  /\ state'[s] \in Active /\ fencingToken'[s] = fencingToken[s]
       => state[s] \in Active /\ leaseOwnerId'[s] = leaseOwnerId[s]
  /\ state'[s] = "CLAIMED" /\ fencingToken'[s] = fencingToken[s] => state[s] = "CLAIMED"
  /\ state'[s] = "PENDING" => \/ state[s] = "PENDING" /\ fencingToken'[s] = fencingToken[s]
                              \/ s \notin Mutating

RunForward(r) ==
  /\ runState[r] # "SNAPSHOT_PINNED" => runState'[r] # "SNAPSHOT_PINNED"
  /\ runState[r] = "CANCELLED" => runState'[r] = "CANCELLED"
  /\ cancelRequested[r] => cancelRequested'[r]

\* Tokens never go down, a terminal state or executing mark never disappears, a step becomes
\* active only with a new token, and a mutating one never becomes pending again.
LEMMA Forward ==
  ASSUME DbTypeOK, [DbNext]_dbVars
  PROVE  (\A s \in Steps : RowForward(s)) /\ (\A r \in Runs : RunForward(r))
  <1> DEFINE G == (\A s \in Steps : RowForward(s)) /\ (\A r \in Runs : RunForward(r))
  <1> USE StepsAssumption DEF Active, StepTerminal, RunTerminal, stepVars, runVars, RowForward, RunForward
  <1>1. ASSUME NEW s \in Steps, DbStepAction(s) PROVE G
    <2>1. CASE \E to \in {"RECONCILE", "DISPATCHED"} : SetDispatchMarker(s, DispatchState, to)
      BY <2>1 DEF SetDispatchMarker
    <2>2. CASE LeaseExpires(s)
      BY <2>2 DEF LeaseExpires
    <2>3. CASE resolveExpiredLease(s)
      BY <2>3 DEF resolveExpiredLease, LeaseExpired, DbTypeOK
    <2>4. CASE \E k \in Knowledge : recordInvocation(s, k)
      BY <2>4 DEF recordInvocation, DbTypeOK
    <2>5. ASSUME NEW o \in Owners, DbClaim(s, o) PROVE G
      <3>1. \A p \in Steps : RowForward(p)
        BY <2>5 DEF DbClaim, claimStep, claimable, NextToken, DbTypeOK
      <3>2. \A r \in Runs : RunForward(r)
        BY <2>5 DEF DbClaim, claimStep, DbTypeOK
      <3> QED
        BY <3>1, <3>2
    <2>6. ASSUME NEW o \in Owners, NEW t \in Issued(s), heartbeatStep(s, o, t) PROVE G
      BY <2>6 DEF heartbeatStep
    <2>7. ASSUME NEW o \in Owners, NEW t \in Issued(s), markExecuting(s, o, t) PROVE G
      BY <2>7 DEF markExecuting, DbTypeOK
    <2>8. ASSUME NEW o \in Owners, NEW t \in Issued(s), NEW st \in Outcome, NEW k \in Knowledge,
                 writeTerminalState(s, o, t, st, k)
          PROVE G
      BY <2>8 DEF writeTerminalState, CanWriteTerminal, Outcome, DbTypeOK
    <2> QED
      BY <1>1, <2>1, <2>2, <2>3, <2>4, <2>5, <2>6, <2>7, <2>8 DEF DbStepAction
  <1>2. ASSUME NEW r \in Runs, DbRunAction(r) PROVE G
    <2>1. CASE markRunDispatching(r)
      BY <2>1 DEF markRunDispatching, DbTypeOK
    <2>2. CASE TouchRun(r)
      BY <2>2 DEF TouchRun
    <2>3. CASE settleCancelledRun(r)
      BY <2>3 DEF settleCancelledRun, StepTerminal, RunTerminal, DbTypeOK
    <2>4. CASE requestCancel(r)
      BY <2>4 DEF requestCancel, DbTypeOK
    <2>5. CASE \E pending \in SUBSET StepsOf(r) : markNothingEnqueued(r, pending)
      BY <2>5 DEF markNothingEnqueued
    <2>6. CASE \E o \in Owners, closeOpen \in BOOLEAN : settleRun(o, r, closeOpen)
      BY <2>6 DEF settleRun, DbTypeOK
    <2> QED
      BY <1>2, <2>1, <2>2, <2>3, <2>4, <2>5, <2>6 DEF DbRunAction
  <1>3. ASSUME NEW o \in Owners, discoverSettleable(o) \/ forgetDiscovered(o) PROVE G
    BY <1>3 DEF discoverSettleable, forgetDiscovered
  <1>4. CASE UNCHANGED dbVars
    BY <1>4 DEF dbVars
  <1> QED
    BY <1>1, <1>2, <1>3, <1>4 DEF DbNext

-----------------------------------------------------------------------------
(***************************************************************************)
(* Next, by the process that takes the step.                               *)
(***************************************************************************)
ApiMove(r) ==
  \/ DispatchRequest(r) \/ DispatchStep(r) \/ DispatchDies(r)
  \/ CancelRead(r) \/ CancelWrite(r)

QueueMove ==
  \/ \E s \in Steps : JobStalls(s) \/ JobEvicted(s)
  \/ RedisDown \/ RedisRecovers \/ RedisDataLoss

SlotStep(e) ==
  \/ ExecStep(e) \/ ProcessThrows(e) \/ RepairFails(e)
  \/ \E s \in Steps : Deliver(e, s)
  \/ \E i \in Lanes : LaneStep(e, i) \/ InvocationThrows(e, i)

\* Every step is one of an API endpoint, of the queue, of a sweep, of a heartbeat, of
\* database time, of a job slot, or a crash.
LEMMA NextCases ==
  ASSUME Next
  PROVE  \/ \E r \in Runs : ApiMove(r)
         \/ QueueMove
         \/ \E o \in Owners : SweepStep(o) \/ HeartbeatTick(o) \/ Crash(o)
         \/ \E s \in Steps : LeaseRunsOut(s)
         \/ \E e \in Execs : SlotStep(e)
  BY DEF Next, Disturbance, ApiMove, QueueMove, SlotStep

\* A counted fault stays a number.
LEMMA SpendType ==
  ASSUME faults \in [FaultKind -> Nat], NEW k \in FaultKind, Spend(k)
  PROVE  faults' \in [FaultKind -> Nat]
  BY DEF Spend

\* An enqueued job is a job, and no other step's job is touched.
LEMMA EnqueueFacts ==
  ASSUME QueueTypeOK, NEW s \in Steps, Enqueue(s)
  PROVE  /\ QueueTypeOK'
         /\ \A p \in Steps : job'[p] # "none" => p = s \/ job[p] # "none"
  BY DEF Enqueue, QueueTypeOK

(***************************************************************************)
(* What a step does to the local variables of one job slot.                *)
(***************************************************************************)
SameLocals(e) ==
  /\ estep'[e] = estep[e] /\ etok'[e] = etok[e] /\ wave'[e] = wave[e] /\ agg'[e] = agg[e]
  /\ ok'[e] = ok[e] /\ rtok'[e] = rtok[e] /\ slot'[e] = slot[e]

Stays(e) == pc'[e] = pc[e] /\ SameLocals(e) /\ alive'[OwnerOf[e]] = alive[OwnerOf[e]]

Forgets(e) == wave'[e] = 0 /\ agg'[e] = "NOT_APPLICABLE" /\ ok'[e] = TRUE /\ rtok'[e] = 0

Resets(e) ==
  pc'[e] = "idle" /\ estep'[e] = NoStep /\ etok'[e] = 0 /\ slot'[e] = NoLane /\ Forgets(e)

\* The slot's process dies.
Dies(e) == Resets(e) /\ ~alive'[OwnerOf[e]]

\* The slot ends its step; invocations still running keep it.
Leaves(e) ==
  \/ Resets(e)
  \/ /\ Running(e) /\ pc'[e] = "orphaned" /\ Forgets(e)
     /\ estep'[e] = estep[e] /\ etok'[e] = etok[e] /\ slot'[e] = slot[e]

\* What Leave does to the slot that ends its step, and that it does nothing else.
LEMMA LeaveFacts ==
  ASSUME ExecTypeOK, NEW e \in Execs, estep[e] \in Steps, Leave(e)
  PROVE  /\ QueueTypeOK' /\ SlotTypeOK' /\ LaneTypeOK'
         /\ Leaves(e) /\ (alive' = alive => \A f \in Execs \ {e} : Stays(f))
         /\ \A s \in Steps : job'[s] # "none" => s = estep[e] \/ job[s] # "none"
  <1> USE DEF ExecTypeOK
  <1>1. QueueTypeOK' /\ \A s \in Steps : job'[s] # "none" => s = estep[e] \/ job[s] # "none"
    BY DEF Leave, FinishJob, QueueTypeOK
  <1>2. SlotTypeOK'
    BY DEF Leave, SlotTypeOK, ControlPoint, Knowledge
  <1>3. LaneTypeOK'
    <2>1. LaneOff \in Lane
      BY DEF LaneOff, Lane, LaneState, Knowledge, SAFE_RETRY_MAX_ATTEMPTS
    <2> QED
      BY <2>1 DEF Leave, LaneTypeOK
  <1>4. Leaves(e)
    BY DEF Leave, Leaves, Resets, Forgets, NoLane, SlotTypeOK, LaneTypeOK
  <1>5. alive' = alive => \A f \in Execs \ {e} : Stays(f)
    BY DEF Leave, Stays, SameLocals, SlotTypeOK, LaneTypeOK
  <1> QED
    BY <1>1, <1>2, <1>3, <1>4, <1>5

(***************************************************************************)
(* Who may write what a row says of the target: that the step succeeded,   *)
(* or had no effect, that an attempt was made, or that one may be made.    *)
(***************************************************************************)
Absent(s) == sideEffectKnowledge[s] = "KNOWN_ABSENT"

\* Slot e may write KNOWN_ABSENT for its step.
MayWriteAbsent(e) ==
  \/ /\ Owns(estep[e], OwnerOf[e], etok[e]) /\ etok[e] > 0
     /\ \/ pc[e] \in {"gate", "precheck", "arm"}
        \/ pc[e] = "wave" /\ (wave[e] = 0 \/ estep[e] \notin Mutating)
        \/ pc[e] = "terminal" /\ ~ok[e] /\ agg[e] = "KNOWN_ABSENT"
  \/ /\ Owns(estep[e], OwnerOf[e], rtok[e])
     /\ pc[e] = "repairWrite" /\ agg[e] = "KNOWN_ABSENT"

RowCause(s) ==
  /\ state'[s] = "SUCCEEDED" /\ state[s] # "SUCCEEDED"
       => \E e \in Execs : estep[e] = s /\ pc[e] = "terminal" /\ ok[e]
  /\ Absent(s)' /\ ~Absent(s)
       => \/ runState'[RunOf[s]] = "CANCELLED"
          \/ state[s] = "PENDING"
          \/ \E e \in Execs : /\ estep[e] = s /\ state[s] \in Active
                              /\ MayWriteAbsent(e) /\ Leaves(e)
  /\ invocations'[s] # invocations[s]
       => \E e \in Execs, i \in Lanes : estep[e] = s /\ slot[e][i].at = "record"
  /\ executingAt'[s] # executingAt[s]
       => \E e \in Execs : estep[e] = s /\ pc[e] = "gate" /\ Owns(s, OwnerOf[e], etok[e])

\* No job slot moves and nothing is sent.
Quiet == (\A e \in Execs : Stays(e)) /\ UNCHANGED effects

\* A step no job slot takes: its part in the invariant, and what it leaves alone.
OutsideSlots ==
  /\ ExecTypeOK' /\ [DbNext]_dbVars /\ DispatchedOnly'
  /\ Quiet /\ UNCHANGED hbVars
  /\ \A s \in Steps : RowCause(s)

\* Local variables that are unchanged as a whole are unchanged for every slot.
LEMMA QuietFrame == UNCHANGED <<execVars, slot, alive, effects>> => Quiet
  BY DEF Quiet, Stays, SameLocals, execVars

\* A step that leaves these columns of every row alone needs no cause.
LEMMA NoCause ==
  UNCHANGED <<state, sideEffectKnowledge, executingAt, invocations>> => \A s \in Steps : RowCause(s)
  BY DEF RowCause, Absent

\* BullMQ and Redis.
LEMMA QueueSteps ==
  ASSUME ExecInv, QueueMove
  PROVE  OutsideSlots
  <1> USE DEF ExecInv, ExecTypeOK
  <1> DEFINE G == /\ QueueTypeOK' /\ CountTypeOK'
                  /\ \A s \in Steps : job'[s] # "none" => job[s] # "none"
  <1>1. UNCHANGED <<dbVars, apiVars, alive, execVars, slot, hbVars, sweepVars, effects>>
    BY DEF QueueMove, JobStalls, JobEvicted, RedisDown, RedisRecovers, RedisDataLoss
  <1>2. G
    <2> USE SpendType DEF QueueTypeOK, CountTypeOK, FaultKind
    <2>1. ASSUME NEW s \in Steps, JobStalls(s) PROVE G
      BY <2>1 DEF JobStalls
    <2>2. ASSUME NEW s \in Steps, JobEvicted(s) PROVE G
      BY <2>2 DEF JobEvicted
    <2>3. CASE RedisDown
      BY <2>3 DEF RedisDown
    <2>4. CASE RedisRecovers
      BY <2>4 DEF RedisRecovers
    <2>5. CASE RedisDataLoss
      BY <2>5 DEF RedisDataLoss
    <2> QED
      BY <2>1, <2>2, <2>3, <2>4, <2>5 DEF QueueMove
  <1>3. ExecTypeOK'
    BY <1>1, <1>2 DEF ApiTypeOK, SlotTypeOK, WorkerTypeOK, LaneTypeOK, apiVars, execVars, hbVars,
      sweepVars
  <1>4. DispatchedOnly'
    BY <1>1, <1>2 DEF DispatchedOnly, Unpinned, StepsOf, dbVars, apiVars, sweepVars
  <1>5. \A s \in Steps : RowCause(s)
    BY <1>1, NoCause DEF dbVars
  <1> QED
    BY <1>1, <1>3, <1>4, <1>5, QuietFrame DEF OutsideSlots

\* Database time passes a lease.
LEMMA LeaseSteps ==
  ASSUME ExecInv, NEW s \in Steps, LeaseRunsOut(s)
  PROVE  OutsideSlots
  <1> USE DEF ExecInv, ExecTypeOK
  <1>1. /\ UNCHANGED <<queueVars, apiVars, alive, execVars, slot, hbVars, sweepVars, effects>>
        /\ LeaseExpires(s)
    BY DEF LeaseRunsOut
  <1>2. [DbNext]_dbVars
    BY <1>1 DEF DbNext, DbStepAction
  <1>3. CountTypeOK'
    BY <1>1, SpendType DEF LeaseRunsOut, CountTypeOK, FaultKind
  <1>4. ExecTypeOK'
    BY <1>1, <1>3 DEF QueueTypeOK, ApiTypeOK, SlotTypeOK, WorkerTypeOK, LaneTypeOK, queueVars, apiVars,
      execVars, hbVars, sweepVars
  <1>5. UNCHANGED <<runVars, state, sideEffectKnowledge, executingAt, invocations>>
    BY <1>1 DEF LeaseExpires
  <1>6. DispatchedOnly'
    BY <1>1, <1>5 DEF DispatchedOnly, Unpinned, StepsOf, runVars, queueVars, apiVars, sweepVars
  <1>7. \A p \in Steps : RowCause(p)
    BY <1>5, NoCause
  <1> QED
    BY <1>1, <1>2, <1>4, <1>6, <1>7, QuietFrame DEF OutsideSlots

\* The dispatch and cancel endpoints.
LEMMA ApiSteps ==
  ASSUME ExecInv, NEW r \in Runs, ApiMove(r)
  PROVE  OutsideSlots
  <1> USE StepsAssumption DEF ExecInv, ExecTypeOK
  <1> DEFINE D == [DbNext]_dbVars /\ \A s \in Steps : RowCause(s)
             J == /\ QueueTypeOK' /\ ApiTypeOK' /\ CountTypeOK'
                  /\ \A s \in Steps : job'[s] # "none" =>
                       job[s] # "none" \/ runState[RunOf[s]] # "SNAPSHOT_PINNED"
                  /\ \A q \in Runs \ {r} : dset'[q] = dset[q] /\ dpc'[q] = dpc[q]
                  /\ dset'[r] \subseteq StepsOf(r)
                  /\ dpc'[r] \notin {"idle", "mark"} => runState'[r] # "SNAPSHOT_PINNED"
  <1>1. UNCHANGED <<alive, execVars, slot, hbVars, sweepVars, effects>>
    BY DEF ApiMove, DispatchStep, DispatchRequest, DispatchMark, DispatchQuery, DispatchEnqueue,
      DispatchMarker, DispatchDies, CancelRead, CancelWrite, apiRest
  <1>2. D /\ J
    <2> USE DEF queueVars, apiVars, apiRest, QueueTypeOK, ApiTypeOK, CountTypeOK
    <2>1. CASE DispatchRequest(r)
      <3>1. D
        BY <2>1, NoCause DEF DispatchRequest, dbVars
      <3>2. J
        BY <2>1 DEF DispatchRequest, DispatchedOnly
      <3> QED
        BY <3>1, <3>2
    <2>2. CASE DispatchMark(r)
      <3>1. /\ markRunDispatching(r) \/ UNCHANGED dbVars
            /\ UNCHANGED <<queueVars, dset, cpc, effects, faults>>
            /\ dpc' = [dpc EXCEPT ![r] = "query"]
            /\ runState'[r] # "SNAPSHOT_PINNED"
        BY <2>2 DEF DispatchMark, markRunDispatching, dbVars, Inv, DbTypeOK
      <3>2. D
        BY <3>1, NoCause DEF DbNext, DbRunAction, markRunDispatching, stepVars, dbVars
      <3>3. J
        BY <3>1 DEF DispatchedOnly
      <3> QED
        BY <3>2, <3>3
    <2>3. CASE DispatchQuery(r)
      <3>1. /\ dset' = [dset EXCEPT ![r] = dset'[r]] /\ dset'[r] \subseteq StepsOf(r)
            /\ \E q \in {"enqueue", "idle", "nothing"} : dpc' = [dpc EXCEPT ![r] = q]
            /\ UNCHANGED <<dbVars, queueVars, cpc, effects, faults>> /\ dpc[r] = "query"
        BY <2>3 DEF DispatchQuery, Frontier, StepsOf
      <3>2. D
        BY <3>1, NoCause DEF dbVars
      <3>3. J
        BY <3>1 DEF DispatchedOnly, StepsOf, dbVars
      <3> QED
        BY <3>2, <3>3
    <2>4. CASE DispatchEnqueue(r)
      <3>1. ASSUME NEW s \in dset[r], Enqueue(s), dpc' = [dpc EXCEPT ![r] = "marker"],
                   UNCHANGED <<dbVars, dset, cpc, apiRest>>
            PROVE  D /\ J
        <4>1. D
          BY <3>1, NoCause DEF dbVars
        <4>2. s \in Steps /\ RunOf[s] = r /\ runState[r] # "SNAPSHOT_PINNED"
          BY <2>4 DEF DispatchEnqueue, DispatchedOnly, StepsOf
        <4>3. J
          BY <3>1, <4>2, EnqueueFacts DEF DispatchedOnly, dbVars, StepsOf
        <4> QED
          BY <4>1, <4>3
      <3>2. ASSUME TouchRun(r), dpc' = [dpc EXCEPT ![r] = "idle"], dset' = [dset EXCEPT ![r] = {}],
                   UNCHANGED <<queueVars, cpc, apiRest>>
            PROVE  D /\ J
        <4>1. D
          BY <3>2, NoCause DEF DbNext, DbRunAction, TouchRun, stepVars
        <4>2. J
          BY <3>2
        <4> QED
          BY <4>1, <4>2
      <3> QED
        BY <2>4, <3>1, <3>2 DEF DispatchEnqueue
    <2>5. CASE DispatchMarker(r)
      <3>1. J
        BY <2>5 DEF DispatchMarker
      <3>2. D
        <4>1. CASE markNothingEnqueued(r, dset[r])
          <5>1. dset[r] \in SUBSET StepsOf(r)
            BY DEF DispatchedOnly
          <5> QED
            BY <4>1, <5>1, NoCause DEF DbNext, DbRunAction, markNothingEnqueued
        <4>2. ASSUME NEW s \in dset[r], SetDispatchMarker(s, {"PENDING"}, "DISPATCHED") PROVE D
          <5>1. s \in Steps /\ SetDispatchMarker(s, DispatchState, "DISPATCHED")
            BY <4>2 DEF SetDispatchMarker, DispatchState
          <5> QED
            BY <5>1, NoCause DEF DbNext, DbStepAction, SetDispatchMarker
        <4>3. CASE UNCHANGED dbVars
          BY <4>3, NoCause DEF dbVars
        <4> QED
          BY <2>5, <4>1, <4>2, <4>3 DEF DispatchMarker
      <3> QED
        BY <3>1, <3>2
    <2>6. CASE DispatchDies(r)
      <3>1. D
        BY <2>6, NoCause DEF DispatchDies, dbVars
      <3>2. J
        BY <2>6, SpendType DEF DispatchDies, FaultKind
      <3> QED
        BY <3>1, <3>2
    <2>7. CASE CancelRead(r)
      <3>1. D
        BY <2>7, NoCause DEF CancelRead, dbVars
      <3>2. J
        BY <2>7 DEF CancelRead, DispatchedOnly, dbVars
      <3> QED
        BY <3>1, <3>2
    <2>8. CASE CancelWrite(r)
      <3>1. /\ settleCancelledRun(r) \/ requestCancel(r)
            /\ cpc' = [cpc EXCEPT ![r] = "idle"]
            /\ UNCHANGED <<queueVars, dpc, dset, effects, faults>>
        BY <2>8 DEF CancelWrite
      <3>2. [DbNext]_dbVars
        BY <3>1 DEF DbNext, DbRunAction
      <3>3. runState[r] # "SNAPSHOT_PINNED" => runState'[r] # "SNAPSHOT_PINNED"
        BY <3>2, Forward DEF Inv, RunForward
      <3>4. J
        BY <3>1, <3>3 DEF DispatchedOnly
      <3>5. \A s \in Steps : RowCause(s)
        <4>1. CASE requestCancel(r)
          BY <4>1, NoCause DEF requestCancel, stepVars
        <4>2. CASE settleCancelledRun(r)
          <5>1. \A s \in Steps : \/ RunOf[s] # r \/ state[s] \in StepTerminal
                                 \/ runState'[RunOf[s]] = "CANCELLED" /\ state'[s] = "CANCELLED"
            BY <4>2 DEF settleCancelledRun, StepsOf, Inv, DbTypeOK, Safe, RunTerminalSound, HasOpen
          <5>2. \A s \in Steps : RunOf[s] # r \/ state[s] \in StepTerminal
                   => state'[s] = state[s] /\ sideEffectKnowledge'[s] = sideEffectKnowledge[s]
            BY <4>2 DEF settleCancelledRun, StepsOf
          <5>3. UNCHANGED <<executingAt, invocations>>
            BY <4>2 DEF settleCancelledRun
          <5> QED
            BY <5>1, <5>2, <5>3 DEF RowCause, Absent
        <4> QED
          BY <3>1, <4>1, <4>2
      <3> QED
        BY <3>2, <3>4, <3>5
    <2> QED
      BY <2>1, <2>2, <2>3, <2>4, <2>5, <2>6, <2>7, <2>8 DEF ApiMove, DispatchStep
  <1>3. ExecTypeOK'
    BY <1>1, <1>2 DEF SlotTypeOK, WorkerTypeOK, LaneTypeOK, execVars, hbVars, sweepVars
  <1>4. \A s \in Steps : Unpinned(s) => Unpinned(s)'
    BY <1>2, Forward DEF Inv, RunForward, Unpinned
  <1>5. \A q \in Runs : runState[q] # "SNAPSHOT_PINNED" => runState'[q] # "SNAPSHOT_PINNED"
    BY <1>2, Forward DEF Inv, RunForward
  <1>6. DispatchedOnly'
    <2>1. \A s \in Steps : job'[s] # "none" => Unpinned(s)'
      BY <1>2, <1>4 DEF DispatchedOnly, Unpinned
    <2>2. \A q \in Runs : /\ dset'[q] \subseteq StepsOf(q)
                          /\ dpc'[q] \notin {"idle", "mark"} => runState'[q] # "SNAPSHOT_PINNED"
      BY <1>2, <1>5 DEF DispatchedOnly
    <2>3. UNCHANGED <<spc, sset, sstep>>
      BY <1>1 DEF sweepVars
    <2> HIDE DEF D, J
    <2> QED
      BY <2>1, <2>2, <2>3, <1>4 DEF DispatchedOnly, StepsOf, WorkerTypeOK
  <1> QED
    BY <1>1, <1>2, <1>3, <1>6, QuietFrame DEF OutsideSlots

\* The reconciliation sweep.
LEMMA SweepSteps ==
  ASSUME ExecInv, NEW o \in Owners, SweepStep(o)
  PROVE  OutsideSlots
  <1> USE StepsAssumption DEF ExecInv, ExecTypeOK
  <1> DEFINE D == [DbNext]_dbVars /\ \A s \in Steps : RowCause(s)
             J == /\ QueueTypeOK' /\ WorkerTypeOK'
                  /\ \A s \in Steps : job'[s] # "none" =>
                       job[s] # "none" \/ runState[RunOf[s]] # "SNAPSHOT_PINNED"
                  /\ \A w \in Owners \ {o} :
                       spc'[w] = spc[w] /\ sset'[w] = sset[w] /\ sstep'[w] = sstep[w]
                  /\ spc'[o] \in {"dispatch", "mark"} =>
                       \A s \in sset'[o] : runState[RunOf[s]] # "SNAPSHOT_PINNED"
                  /\ spc'[o] = "mark" => sstep'[o] \in Steps
  <1>1. UNCHANGED <<apiVars, alive, execVars, slot, hbVars, effects, faults>>
    BY DEF SweepStep, SweepBegin, SweepMark, SweepDiscover, SweepSettle, SweepFindExpired, SweepEnd,
      SweepEnqueue, SweepResolve, sweepRest
  <1>2. D /\ J
    <2> USE DEF queueVars, sweepVars, sweepRest, QueueTypeOK, WorkerTypeOK, hbVars
    <2>1. CASE SweepBegin(o)
      <3>1. D
        BY <2>1, NoCause DEF SweepBegin, dbVars
      <3>2. J
        BY <2>1 DEF SweepBegin, Undispatched
      <3> QED
        BY <3>1, <3>2
    <2>2. CASE SweepMark(o)
      <3>1. D
        <4>1. sstep[o] \in Steps
          BY <2>2 DEF SweepMark, DispatchedOnly
        <4>2. CASE SetDispatchMarker(sstep[o], {"PENDING", "RECONCILE"}, "DISPATCHED")
          <5>1. SetDispatchMarker(sstep[o], DispatchState, "DISPATCHED")
            BY <4>2 DEF SetDispatchMarker, DispatchState
          <5> QED
            BY <4>1, <5>1, NoCause DEF DbNext, DbStepAction, SetDispatchMarker
        <4>3. CASE UNCHANGED dbVars
          BY <4>3, NoCause DEF dbVars
        <4> QED
          BY <2>2, <4>2, <4>3 DEF SweepMark
      <3>2. J
        BY <2>2 DEF SweepMark, DispatchedOnly, Unpinned
      <3> QED
        BY <3>1, <3>2
    <2>3. CASE SweepDiscover(o)
      <3>1. D
        BY <2>3, NoCause DEF SweepDiscover, DbNext, discoverSettleable, stepVars
      <3>2. J
        BY <2>3 DEF SweepDiscover
      <3> QED
        BY <3>1, <3>2
    <2>4. CASE SweepSettle(o)
      <3>1. J
        BY <2>4 DEF SweepSettle
      <3>2. PICK r \in Runs, closeOpen \in BOOLEAN : settleRun(o, r, closeOpen)
        BY <2>4 DEF SweepSettle
      <3>3. [DbNext]_dbVars
        BY <3>2 DEF DbNext, DbRunAction
      <3>4. \A s \in Steps : RowCause(s)
        BY <3>2 DEF RowCause, Absent, settleRun, StepsOf
      <3> QED
        BY <3>1, <3>3, <3>4
    <2>5. CASE SweepFindExpired(o)
      <3>1. D
        BY <2>5, NoCause DEF SweepFindExpired, dbVars
      <3>2. J
        BY <2>5 DEF SweepFindExpired
      <3> QED
        BY <3>1, <3>2
    <2>6. CASE SweepEnd(o)
      <3>1. D
        BY <2>6, NoCause DEF SweepEnd, dbVars
      <3>2. J
        BY <2>6 DEF SweepEnd
      <3> QED
        BY <3>1, <3>2
    <2>7. ASSUME NEW s \in Steps, SweepEnqueue(o, s) PROVE D /\ J
      <3>1. spc[o] = "dispatch" /\ s \in sset[o] /\ runState[RunOf[s]] # "SNAPSHOT_PINNED"
        BY <2>7 DEF SweepEnqueue, DispatchedOnly, Unpinned
      <3>2. J
        <4>1. CASE Enqueue(s)
          BY <2>7, <3>1, <4>1, EnqueueFacts DEF SweepEnqueue, DispatchedOnly, Unpinned
        <4>2. CASE UNCHANGED <<queueVars, spc, sstep>>
          BY <2>7, <3>1, <4>2 DEF SweepEnqueue, DispatchedOnly, Unpinned
        <4> QED
          BY <2>7, <4>1, <4>2 DEF SweepEnqueue
      <3>3. D
        <4>1. CASE TouchRun(RunOf[s])
          BY <4>1, NoCause DEF DbNext, DbRunAction, TouchRun, stepVars
        <4>2. CASE UNCHANGED dbVars
          BY <4>2, NoCause DEF dbVars
        <4> QED
          BY <2>7, <4>1, <4>2 DEF SweepEnqueue
      <3> QED
        BY <3>2, <3>3
    <2>8. ASSUME NEW s \in Steps, SweepResolve(o, s) PROVE D /\ J
      <3>1. J
        BY <2>8 DEF SweepResolve
      <3>2. D
        <4>1. CASE resolveExpiredLease(s)
          <5>1. [DbNext]_dbVars
            BY <4>1 DEF DbNext, DbStepAction
          <5>2. \A p \in Steps : RowCause(p)
            BY <4>1 DEF RowCause, Absent, resolveExpiredLease, Inv, DbTypeOK
          <5> QED
            BY <5>1, <5>2
        <4>2. CASE UNCHANGED dbVars
          BY <4>2, NoCause DEF dbVars
        <4> QED
          BY <2>8, <4>1, <4>2 DEF SweepResolve
      <3> QED
        BY <3>1, <3>2
    <2> QED
      BY <2>1, <2>2, <2>3, <2>4, <2>5, <2>6, <2>7, <2>8 DEF SweepStep
  <1>3. ExecTypeOK'
    BY <1>1, <1>2 DEF ApiTypeOK, SlotTypeOK, LaneTypeOK, CountTypeOK, apiVars, execVars
  <1>4. \A q \in Runs : runState[q] # "SNAPSHOT_PINNED" => runState'[q] # "SNAPSHOT_PINNED"
    BY <1>2, Forward DEF Inv, RunForward
  <1>5. DispatchedOnly'
    <2>1. \A s \in Steps : job'[s] # "none" => Unpinned(s)'
      BY <1>2, <1>4 DEF DispatchedOnly, Unpinned
    <2>2. \A w \in Owners : spc'[w] \in {"dispatch", "mark"} => \A s \in sset'[w] : Unpinned(s)'
      BY <1>2, <1>4 DEF DispatchedOnly, Unpinned, WorkerTypeOK
    <2>3. \A w \in Owners : spc'[w] = "mark" => sstep'[w] \in Steps
      BY <1>2 DEF DispatchedOnly
    <2>4. UNCHANGED <<dpc, dset>>
      BY <1>1 DEF apiVars
    <2> HIDE DEF D, J
    <2> QED
      BY <2>1, <2>2, <2>3, <2>4, <1>4 DEF DispatchedOnly, StepsOf
  <1> QED
    BY <1>1, <1>2, <1>3, <1>5, QuietFrame DEF OutsideSlots

-----------------------------------------------------------------------------
(***************************************************************************)
(* The life of a job slot, as the invariants see it.                       *)
(***************************************************************************)
\* The loop renews nothing, what it renewed, or the generation of a slot of its process.
HeartbeatMove(o) ==
  \/ hb'[o] = NoStep
  \/ hb'[o] = hb[o] /\ hbtok'[o] = hbtok[o]
  \/ \E e \in Execs : /\ estep[e] \in Steps /\ etok[e] > 0
                      /\ hb'[o] = estep[e] /\ hbtok'[o] = etok[e]

PicksUp(e) ==
  /\ pc[e] = "idle" /\ pc'[e] = "claim"
  /\ estep'[e] \in Steps /\ Unpinned(estep'[e])
  /\ etok'[e] = etok[e] /\ wave'[e] = wave[e] /\ agg'[e] = agg[e]
  /\ ok'[e] = ok[e] /\ rtok'[e] = rtok[e] /\ slot'[e] = slot[e]

Claims(e) ==
  /\ pc[e] = "claim" /\ pc'[e] = "gate"
  /\ claimStep(estep[e], OwnerOf[e]) /\ etok'[e] = fencingToken[estep[e]] + 1
  /\ alive[OwnerOf[e]]
  /\ estep'[e] = estep[e] /\ wave'[e] = wave[e] /\ agg'[e] = agg[e]
  /\ ok'[e] = ok[e] /\ rtok'[e] = rtok[e] /\ slot'[e] = slot[e]

Begins(e) ==
  /\ pc[e] = "gate" /\ pc'[e] = "precheck" /\ SameLocals(e)
  /\ markExecuting(estep[e], OwnerOf[e], etok[e])

Edge ==
  {<<"precheck", "arm">>, <<"precheck", "wave">>, <<"arm", "wave">>, <<"chain", "promote">>,
   <<"promote", "chainEnqueue">>, <<"chainEnqueue", "chainMark">>}
  \cup ({"claim", "gate", "precheck", "wave", "terminal", "chain", "promote", "chainMark"}
          \X {"repair"})

Proceeds(e) ==
  /\ <<pc[e], pc'[e]>> \in Edge /\ SameLocals(e)
  /\ pc[e] = "precheck" /\ pc'[e] # "repair" => ~cancelRequested[RunOf[estep[e]]]
  /\ pc'[e] = "repair" => Spend("throw")

Succeeds(e) ==
  /\ pc[e] = "terminal" /\ pc'[e] = "chain" /\ SameLocals(e) /\ ok[e]
  /\ state'[estep[e]] = "SUCCEEDED"

\* A slot that owns its step leaves it only when it has finished it.
Vacates(e) ==
  /\ pc[e] \in {"gate", "precheck", "arm", "wave", "terminal"}
  /\ Owns(estep[e], OwnerOf[e], etok[e]) /\ state'[estep[e]] \in Active
  => pc[e] = "gate" /\ state[estep[e]] = "EXECUTING"

Repairs(e) ==
  /\ pc[e] = "repair" /\ pc'[e] = "repairRows"
  /\ state[estep[e]] \in Active
  /\ rtok'[e] = fencingToken[estep[e]] /\ ok'[e] = ~executingAt[estep[e]]
  /\ UNCHANGED dbVars
  /\ estep'[e] = estep[e] /\ etok'[e] = etok[e] /\ wave'[e] = wave[e]
  /\ agg'[e] = agg[e] /\ slot'[e] = slot[e]

SlotMove(e) ==
  /\ alive'[OwnerOf[e]] = alive[OwnerOf[e]]
  /\ effects' = effects \/ \E i \in Lanes : Invoke(e, i)
  /\ \/ PicksUp(e) \/ Claims(e) \/ Begins(e) \/ Proceeds(e) \/ Succeeds(e)
     \/ Leaves(e) /\ Vacates(e) /\ pc[e] \notin {"idle", "inflight"}
     \/ StartWave(e) \/ JoinWave(e) \/ Repairs(e) \/ RepairDerive(e)
     \/ \E i \in Lanes : Invoke(e, i) \/ RecordAttempt(e, i) \/ InvocationThrows(e, i)

SlotShape ==
  \/ UNCHANGED effects /\ \A e \in Execs : Stays(e) \/ Dies(e)
  \/ \E e \in Execs : SlotMove(e) /\ \A f \in Execs \ {e} : Stays(f)

StepFacts ==
  /\ ExecTypeOK' /\ [DbNext]_dbVars /\ DispatchedOnly'
  /\ SlotShape
  /\ \A o \in Owners : HeartbeatMove(o)
  /\ \A s \in Steps : RowCause(s)

\* The steps no slot takes have that shape.
LEMMA OutsideFacts == OutsideSlots => StepFacts
  BY DEF OutsideSlots, StepFacts, SlotShape, Quiet, HeartbeatMove, hbVars

\* One tick of a heartbeat.
LEMMA HeartbeatFacts ==
  ASSUME ExecInv, NEW o \in Owners, HeartbeatTick(o)
  PROVE  StepFacts
  <1> USE DEF ExecInv, ExecTypeOK
  <1>1. UNCHANGED <<queueVars, apiVars, alive, execVars, slot, sweepVars, effects, faults>>
    BY DEF HeartbeatTick
  <1>2. hb[o] \in Steps /\ hbtok[o] \in Issued(hb[o])
    BY DEF HeartbeatTick, WorkerTypeOK, HeartbeatToken, Issued
  <1>3. /\ [DbNext]_dbVars
        /\ UNCHANGED <<runVars, state, sideEffectKnowledge, executingAt, invocations>>
    BY <1>2 DEF HeartbeatTick, DbNext, DbStepAction, heartbeatStep, dbVars, runVars
  <1>4. /\ hb' \in [Owners -> Steps \cup {NoStep}] /\ hbtok' \in [Owners -> Nat]
        /\ \A w \in Owners : HeartbeatMove(w)
    BY DEF HeartbeatTick, StopHeartbeat, hbVars, WorkerTypeOK, HeartbeatMove
  <1>5. ExecTypeOK'
    BY <1>1, <1>4 DEF QueueTypeOK, ApiTypeOK, SlotTypeOK, WorkerTypeOK, LaneTypeOK, CountTypeOK,
      queueVars, apiVars, execVars, sweepVars
  <1>6. DispatchedOnly'
    BY <1>1, <1>3 DEF DispatchedOnly, Unpinned, StepsOf, runVars, queueVars, apiVars, sweepVars
  <1> QED
    BY <1>1, <1>3, <1>4, <1>5, <1>6, QuietFrame, NoCause DEF StepFacts, SlotShape, Quiet

\* A worker dies with its slots, its heartbeat and its sweep.
LEMMA CrashFacts ==
  ASSUME ExecInv, NEW o \in Owners, Crash(o)
  PROVE  StepFacts
  <1> USE DEF ExecInv, ExecTypeOK
  <1>1. UNCHANGED <<queueVars, apiVars, effects>>
    BY DEF Crash
  <1>2. /\ [DbNext]_dbVars
        /\ UNCHANGED <<runVars, state, sideEffectKnowledge, executingAt, invocations>>
    BY DEF Crash, forgetDiscovered, DbNext, stepVars, runVars
  <1>3. WorkerTypeOK' /\ \A w \in Owners : HeartbeatMove(w)
    BY DEF Crash, StopHeartbeat, WorkerTypeOK, HeartbeatMove
  <1>4. SlotTypeOK'
    BY DEF Crash, SlotTypeOK, ControlPoint, Knowledge
  <1>5. LaneTypeOK'
    <2>1. LaneOff \in Lane
      BY DEF LaneOff, Lane, LaneState, Knowledge, SAFE_RETRY_MAX_ATTEMPTS
    <2> QED
      BY <2>1 DEF Crash, LaneTypeOK
  <1>6. CountTypeOK'
    BY <1>1, SpendType DEF Crash, CountTypeOK, FaultKind
  <1>7. ExecTypeOK'
    BY <1>1, <1>3, <1>4, <1>5, <1>6 DEF QueueTypeOK, ApiTypeOK, queueVars, apiVars
  <1>8. DispatchedOnly'
    <2>1. \A w \in Owners : /\ spc'[w] \in {"dispatch", "mark"} => spc'[w] = spc[w] /\ sset'[w] = sset[w]
                            /\ spc'[w] = "mark" => sstep'[w] = sstep[w]
      BY DEF Crash, WorkerTypeOK
    <2> QED
      BY <2>1, <1>1, <1>2 DEF DispatchedOnly, Unpinned, StepsOf, runVars, queueVars, apiVars
  <1>9. \A e \in Execs : Stays(e) \/ Dies(e)
    <2> SUFFICES ASSUME NEW e \in Execs PROVE Stays(e) \/ Dies(e)
      OBVIOUS
    <2>1. CASE OwnerOf[e] = o
      BY <2>1 DEF Crash, Dies, Resets, Forgets, NoLane, WorkerTypeOK
    <2>2. CASE OwnerOf[e] # o
      BY <2>2, ExecutionAssumption DEF Crash, Stays, SameLocals, WorkerTypeOK
    <2> QED
      BY <2>1, <2>2
  <1> QED
    BY <1>1, <1>2, <1>3, <1>7, <1>8, <1>9, NoCause DEF StepFacts, SlotShape

\* A fenced terminal write is a transaction that finishes the step, or only notes that it
\* was refused.
LEMMA FencedFacts ==
  ASSUME ExecInv, NEW e \in Execs, estep[e] \in Steps,
         NEW t \in Nat \ {0}, NEW st \in Outcome, NEW k \in Knowledge,
         FencedTerminal(e, t, st, k)
  PROVE  /\ [DbNext]_dbVars
         /\ UNCHANGED <<runVars, executingAt, invocations>>
         /\ CanWriteTerminal(estep[e], OwnerOf[e], t) =>
              state'[estep[e]] = st /\ sideEffectKnowledge'[estep[e]] = k
         /\ \A p \in Steps : p # estep[e] \/ ~CanWriteTerminal(estep[e], OwnerOf[e], t) =>
              state'[p] = state[p] /\ sideEffectKnowledge'[p] = sideEffectKnowledge[p]
  <1> USE StepsAssumption, ExecutionAssumption DEF ExecInv, Inv, DbTypeOK
  <1>1. CASE writeTerminalState(estep[e], OwnerOf[e], t, st, k)
    <2>1. t \in Issued(estep[e])
      BY <1>1 DEF writeTerminalState, CanWriteTerminal, Owns, Issued
    <2>2. [DbNext]_dbVars
      BY <1>1, <2>1 DEF DbNext, DbStepAction
    <2> QED
      BY <1>1, <2>2 DEF writeTerminalState
  <1>2. CASE ~CanWriteTerminal(estep[e], OwnerOf[e], t) /\ TouchRun(RunOf[estep[e]])
    BY <1>2 DEF DbNext, DbRunAction, TouchRun, stepVars
  <1> QED
    BY <1>1, <1>2 DEF FencedTerminal

\* The heartbeat loop a slot may touch is that of its own process.
HeartbeatTouched(e) ==
  \/ UNCHANGED hbVars
  \/ StopHeartbeat(OwnerOf[e])
  \/ StartHeartbeat(e) /\ estep[e] \in Steps /\ etok[e] > 0

\* A heartbeat loop that is stopped, or started for the step of a slot, keeps its shape.
LEMMA HeartbeatKept ==
  ASSUME WorkerTypeOK, SlotTypeOK, NEW e \in Execs, UNCHANGED <<alive, sweepVars>>,
         HeartbeatTouched(e)
  PROVE  WorkerTypeOK' /\ \A o \in Owners : HeartbeatMove(o)
  BY ExecutionAssumption DEF HeartbeatTouched, StartHeartbeat, StopHeartbeat, WorkerTypeOK,
    SlotTypeOK, HeartbeatMove, hbVars, sweepVars

\* What is dispatched stays dispatched when a slot works on a dispatched step.
LEMMA DispatchedKept ==
  ASSUME ExecInv, UNCHANGED execRest, [DbNext]_dbVars,
         \A s \in Steps : job'[s] # "none" => Unpinned(s) \/ job[s] # "none"
  PROVE  DispatchedOnly'
  <1>1. \A r \in Runs : runState[r] # "SNAPSHOT_PINNED" => runState'[r] # "SNAPSHOT_PINNED"
    BY Forward DEF ExecInv, Inv, RunForward
  <1>2. UNCHANGED <<dpc, dset, spc, sset, sstep>>
    BY DEF execRest, apiVars, sweepVars
  <1>3. \A s \in Steps : Unpinned(s) => Unpinned(s)'
    BY <1>1, StepsAssumption DEF Unpinned
  <1>4. \A s \in Steps : job'[s] # "none" => Unpinned(s)'
    BY <1>3 DEF ExecInv, DispatchedOnly
  <1>5. \A o \in Owners : sset[o] \subseteq Steps
    BY DEF ExecInv, ExecTypeOK, WorkerTypeOK
  <1> QED
    BY <1>1, <1>2, <1>3, <1>4, <1>5 DEF ExecInv, DispatchedOnly, StepsOf

\* A slot that ends its step.
LEMMA LeavingFacts ==
  ASSUME ExecInv, NEW e \in Execs, pc[e] \notin {"idle", "inflight"}, Leave(e), Vacates(e),
         UNCHANGED <<execRest, effects>>, HeartbeatTouched(e), CountTypeOK',
         [DbNext]_dbVars, \A s \in Steps : RowCause(s)
  PROVE  StepFacts
  <1> USE DEF ExecInv, ExecTypeOK
  <1>1. estep[e] \in Steps /\ Unpinned(estep[e])
    BY DEF SlotPoint
  <1>2. UNCHANGED <<apiVars, alive, sweepVars>>
    BY DEF execRest
  <1>3. /\ QueueTypeOK' /\ SlotTypeOK' /\ LaneTypeOK'
        /\ Leaves(e) /\ \A f \in Execs \ {e} : Stays(f)
        /\ \A s \in Steps : job'[s] # "none" => s = estep[e] \/ job[s] # "none"
    BY <1>1, <1>2, LeaveFacts
  <1>4. WorkerTypeOK' /\ \A o \in Owners : HeartbeatMove(o)
    BY <1>2, HeartbeatKept
  <1>5. DispatchedOnly'
    BY <1>1, <1>3, DispatchedKept
  <1>6. ExecTypeOK'
    BY <1>2, <1>3, <1>4 DEF ApiTypeOK, apiVars
  <1>7. SlotMove(e)
    BY <1>2, <1>3 DEF SlotMove
  <1> QED
    BY <1>3, <1>4, <1>5, <1>6, <1>7 DEF StepFacts, SlotShape

\* A slot that goes on with its step.
LEMMA MovingFacts ==
  ASSUME ExecInv, NEW e \in Execs, SlotMove(e), \A f \in Execs \ {e} : Stays(f),
         UNCHANGED execRest, HeartbeatTouched(e),
         QueueTypeOK', SlotTypeOK', LaneTypeOK', CountTypeOK',
         \A s \in Steps : job'[s] # "none" => Unpinned(s) \/ job[s] # "none",
         [DbNext]_dbVars, \A s \in Steps : RowCause(s)
  PROVE  StepFacts
  <1> USE DEF ExecInv, ExecTypeOK
  <1>1. UNCHANGED <<apiVars, alive, sweepVars>>
    BY DEF execRest
  <1>2. WorkerTypeOK' /\ \A o \in Owners : HeartbeatMove(o)
    BY <1>1, HeartbeatKept
  <1>3. DispatchedOnly'
    BY DispatchedKept
  <1>4. ExecTypeOK'
    BY <1>1, <1>2 DEF ApiTypeOK, apiVars
  <1> QED
    BY <1>2, <1>3, <1>4 DEF StepFacts, SlotShape

\* A slot picks up a job.
LEMMA DeliverFacts ==
  ASSUME ExecInv, NEW e \in Execs, NEW s \in Steps, Deliver(e, s)
  PROVE  StepFacts
  <1> USE DEF ExecInv, ExecTypeOK
  <1>1. UNCHANGED <<dbVars, execRest, hbVars, effects, faults>>
    BY DEF Deliver, execRest
  <1>2. QueueTypeOK' /\ \A p \in Steps : job'[p] # "none" => job[p] # "none"
    BY DEF Deliver, QueueTypeOK
  <1>3. SlotTypeOK' /\ LaneTypeOK' /\ CountTypeOK'
    BY DEF Deliver, SlotTypeOK, LaneTypeOK, CountTypeOK, ControlPoint
  <1>4. Unpinned(s)
    BY DEF Deliver, DispatchedOnly
  <1>5. SlotMove(e)
    BY <1>4 DEF SlotMove, PicksUp, Deliver, SlotTypeOK
  <1>6. \A f \in Execs \ {e} : Stays(f)
    BY DEF Stays, SameLocals, Deliver, SlotTypeOK
  <1>7. \A p \in Steps : RowCause(p)
    BY <1>1, NoCause DEF dbVars
  <1> QED
    BY <1>1, <1>2, <1>3, <1>5, <1>6, <1>7, MovingFacts DEF HeartbeatTouched

\* The claim: the slot gets a new generation, or finds nothing to claim.
LEMMA ClaimFacts ==
  ASSUME ExecInv, NEW e \in Execs, Claim(e)
  PROVE  StepFacts
  <1> USE StepsAssumption, ExecutionAssumption DEF ExecInv, ExecTypeOK
  <1>1. UNCHANGED <<execRest, hbVars, effects, faults>> /\ pc[e] = "claim" /\ alive[OwnerOf[e]]
    BY DEF Claim
  <1>2. CountTypeOK' /\ estep[e] \in Steps /\ Unpinned(estep[e])
    BY <1>1 DEF CountTypeOK, SlotPoint
  <1>3. ASSUME claimStep(estep[e], OwnerOf[e]), pc' = [pc EXCEPT ![e] = "gate"],
               etok' = [etok EXCEPT ![e] = NextToken(estep[e])],
               UNCHANGED <<queueVars, estep, wave, agg, ok, rtok, slot>>
        PROVE  StepFacts
    <2>1. [DbNext]_dbVars
      BY <1>2, <1>3 DEF DbNext, DbStepAction, DbClaim, Unpinned
    <2>2. \A s \in Steps : RowCause(s)
      BY <1>3 DEF claimStep, RowCause, Absent, Inv, DbTypeOK
    <2>3. QueueTypeOK' /\ SlotTypeOK' /\ LaneTypeOK'
      BY <1>2, <1>3 DEF QueueTypeOK, SlotTypeOK, LaneTypeOK, ControlPoint, NextToken, queueVars, Inv,
        DbTypeOK
    <2>4. SlotMove(e)
      BY <1>1, <1>3 DEF SlotMove, Claims, NextToken, SlotTypeOK, execRest
    <2>5. \A f \in Execs \ {e} : Stays(f)
      BY <1>1, <1>3 DEF Stays, SameLocals, SlotTypeOK, execRest
    <2> QED
      BY <1>1, <1>2, <1>3, <2>1, <2>2, <2>3, <2>4, <2>5, MovingFacts DEF HeartbeatTouched, queueVars
  <1>4. ASSUME Leave(e), UNCHANGED dbVars PROVE StepFacts
    <2>1. \A s \in Steps : RowCause(s)
      BY <1>4, NoCause DEF dbVars
    <2>2. Vacates(e)
      BY <1>1 DEF Vacates
    <2> QED
      BY <1>1, <1>2, <1>4, <2>1, <2>2, LeavingFacts DEF HeartbeatTouched
  <1> QED
    BY <1>3, <1>4 DEF Claim

\* A fenced write that closes the step, with nothing sent or with what the slot knows.
LEMMA ClosingFacts ==
  ASSUME ExecInv, NEW e \in Execs, NEW t \in Nat \ {0}, NEW st \in {"FAILED", "CANCELLED"},
         NEW k \in Knowledge, FencedTerminal(e, t, st, k), Leave(e),
         pc[e] \in {"gate", "precheck", "arm", "wave", "terminal", "repairWrite"},
         pc[e] # "repairWrite" => t = etok[e],
         k = "KNOWN_ABSENT" /\ Owns(estep[e], OwnerOf[e], t) => MayWriteAbsent(e),
         UNCHANGED <<execRest, effects, faults>>, HeartbeatTouched(e)
  PROVE  StepFacts
  <1> USE DEF ExecInv, ExecTypeOK
  <1>1. estep[e] \in Steps /\ st \in Outcome /\ CountTypeOK'
    BY DEF SlotPoint, CountTypeOK, Outcome
  <1>2. /\ [DbNext]_dbVars
        /\ UNCHANGED <<runVars, executingAt, invocations>>
        /\ CanWriteTerminal(estep[e], OwnerOf[e], t) =>
              state'[estep[e]] = st /\ sideEffectKnowledge'[estep[e]] = k
        /\ \A p \in Steps : p # estep[e] \/ ~CanWriteTerminal(estep[e], OwnerOf[e], t) =>
              state'[p] = state[p] /\ sideEffectKnowledge'[p] = sideEffectKnowledge[p]
    BY <1>1, FencedFacts
  <1>3. \A s \in Steps : RowCause(s)
    <2>1. Leaves(e)
      BY <1>1, LeaveFacts
    <2> QED
      BY <1>2, <2>1 DEF RowCause, Absent, CanWriteTerminal
  <1>4. Vacates(e)
    BY <1>1, <1>2 DEF Vacates, CanWriteTerminal, Active
  <1> QED
    BY <1>1, <1>2, <1>3, <1>4, LeavingFacts

\* The fenced writes that close a step before or between its waves, and after a failure.
LEMMA ClosingSteps ==
  ASSUME ExecInv, NEW e \in Execs,
         DenyExecution(e) \/ CancelStop(e) \/ RepairWrite(e)
  PROVE  StepFacts
  <1> USE DEF ExecInv, ExecTypeOK
  <1>1. CASE DenyExecution(e)
    <2>1. etok[e] \in Nat \ {0} /\ pc[e] = "gate"
      BY <1>1 DEF DenyExecution, SlotPoint, Repairing, SlotTypeOK
    <2> QED
      BY <1>1, <2>1, ClosingFacts DEF DenyExecution, MayWriteAbsent, HeartbeatTouched, Knowledge
  <1>2. CASE CancelStop(e)
    <2>1. etok[e] \in Nat \ {0} /\ pc[e] \in {"precheck", "wave"} /\ wave[e] \in Nat
      BY <1>2 DEF CancelStop, SlotPoint, Repairing, SlotTypeOK
    <2>2. /\ CancelKnowledge(e) \in Knowledge
          /\ CancelKnowledge(e) = "KNOWN_ABSENT" => wave[e] = 0 \/ estep[e] \notin Mutating
      BY <2>1 DEF CancelKnowledge, Knowledge
    <2> QED
      BY <1>2, <2>1, <2>2, ClosingFacts DEF CancelStop, MayWriteAbsent, HeartbeatTouched
  <1>3. CASE RepairWrite(e)
    <2>1. rtok[e] \in Nat \ {0} /\ pc[e] = "repairWrite" /\ agg[e] \in Knowledge
      BY <1>3 DEF RepairWrite, SlotToken, SlotTypeOK
    <2> QED
      BY <1>3, <2>1, ClosingFacts DEF RepairWrite, MayWriteAbsent, HeartbeatTouched
  <1> QED
    BY <1>1, <1>2, <1>3

\* The step is marked executing, or the generation finds that it lost it.
LEMMA MarkFacts ==
  ASSUME ExecInv, NEW e \in Execs, MarkExecuting(e)
  PROVE  StepFacts
  <1> USE StepsAssumption, ExecutionAssumption DEF ExecInv, ExecTypeOK
  <1>1. /\ UNCHANGED <<execRest, effects, faults>> /\ pc[e] = "gate" /\ CountTypeOK'
        /\ etok[e] \in Nat \ {0} /\ estep[e] \in Steps
    BY DEF MarkExecuting, SlotPoint, Repairing, SlotTypeOK, CountTypeOK
  <1>2. ASSUME markExecuting(estep[e], OwnerOf[e], etok[e]), StartHeartbeat(e),
               pc' = [pc EXCEPT ![e] = "precheck"],
               UNCHANGED <<queueVars, estep, etok, wave, agg, ok, rtok, slot>>
        PROVE  StepFacts
    <2>1. etok[e] \in Issued(estep[e])
      BY <1>1, <1>2 DEF markExecuting, Owns, Issued
    <2>2. [DbNext]_dbVars
      BY <1>1, <1>2, <2>1 DEF DbNext, DbStepAction
    <2>3. \A s \in Steps : RowCause(s)
      <3>1. UNCHANGED <<sideEffectKnowledge, invocations>>
        BY <1>2 DEF markExecuting
      <3>2. \A s \in Steps : s # estep[e] => state'[s] = state[s] /\ executingAt'[s] = executingAt[s]
        BY <1>2 DEF markExecuting
      <3>3. state'[estep[e]] = "EXECUTING" /\ Owns(estep[e], OwnerOf[e], etok[e])
        BY <1>1, <1>2 DEF markExecuting, Inv, DbTypeOK
      <3> QED
        BY <1>1, <3>1, <3>2, <3>3 DEF RowCause, Absent
    <2>4. QueueTypeOK' /\ SlotTypeOK' /\ LaneTypeOK'
      BY <1>2 DEF QueueTypeOK, SlotTypeOK, LaneTypeOK, ControlPoint, queueVars
    <2>5. SlotMove(e) /\ \A f \in Execs \ {e} : Stays(f)
      BY <1>1, <1>2 DEF SlotMove, Begins, Stays, SameLocals, SlotTypeOK, execRest
    <2> QED
      BY <1>1, <1>2, <2>2, <2>3, <2>4, <2>5, MovingFacts DEF HeartbeatTouched, queueVars
  <1>3. ASSUME ~(Owns(estep[e], OwnerOf[e], etok[e]) /\ state[estep[e]] = "CLAIMED"),
               TouchRun(RunOf[estep[e]]), Leave(e), UNCHANGED hbVars
        PROVE  StepFacts
    <2>1. [DbNext]_dbVars /\ \A s \in Steps : RowCause(s)
      BY <1>1, <1>3, NoCause DEF DbNext, DbRunAction, TouchRun, stepVars
    <2>2. Vacates(e)
      BY <1>1, <1>3 DEF Vacates, TouchRun, stepVars, Active
    <2> QED
      BY <1>1, <1>3, <2>1, <2>2, LeavingFacts DEF HeartbeatTouched
  <1> QED
    BY <1>2, <1>3 DEF MarkExecuting

\* A slot goes along an edge of its control graph that touches nothing else.
LEMMA ProceedFacts ==
  ASSUME ExecInv, NEW e \in Execs, NEW q \in ControlPoint, pc' = [pc EXCEPT ![e] = q],
         <<pc[e], q>> \in Edge,
         pc[e] = "precheck" /\ q # "repair" => ~cancelRequested[RunOf[estep[e]]],
         q = "repair" => Spend("throw"),
         UNCHANGED <<execRest, estep, etok, wave, agg, ok, rtok, slot, effects>>,
         HeartbeatTouched(e), CountTypeOK', QueueTypeOK',
         \A s \in Steps : job'[s] # "none" => Unpinned(s) \/ job[s] # "none",
         [DbNext]_dbVars, \A s \in Steps : RowCause(s)
  PROVE  StepFacts
  <1> USE DEF ExecInv, ExecTypeOK
  <1>1. SlotTypeOK' /\ LaneTypeOK'
    BY DEF SlotTypeOK, LaneTypeOK
  <1>2. pc'[e] = q
    BY DEF SlotTypeOK
  <1>3. SlotMove(e)
    BY <1>2 DEF SlotMove, Proceeds, SameLocals, execRest
  <1>4. \A f \in Execs \ {e} : Stays(f)
    BY DEF Stays, SameLocals, SlotTypeOK, execRest
  <1> QED
    BY <1>1, <1>3, <1>4, MovingFacts

\* The slot passes the cancel point and the arming of its fault plan, or throws.
LEMMA PassSteps ==
  ASSUME ExecInv, NEW e \in Execs, PassPrecheck(e) \/ ArmFault(e) \/ ProcessThrows(e)
  PROVE  StepFacts
  <1> USE DEF ExecInv, ExecTypeOK
  <1>1. ASSUME UNCHANGED dbVars PROVE [DbNext]_dbVars /\ \A s \in Steps : RowCause(s)
    BY <1>1, NoCause DEF dbVars
  <1>2. ASSUME UNCHANGED queueVars PROVE QueueTypeOK' /\ UNCHANGED job
    BY <1>2 DEF QueueTypeOK, queueVars
  <1>3. CASE PassPrecheck(e)
    <2>1. PICK q \in {"arm", "wave"} : pc' = [pc EXCEPT ![e] = q]
      BY <1>3 DEF PassPrecheck
    <2>2. /\ UNCHANGED <<dbVars, queueVars, execRest, estep, etok, wave, agg, ok, rtok, slot, hbVars,
                        effects, faults>>
          /\ pc[e] = "precheck" /\ ~cancelRequested[RunOf[estep[e]]]
      BY <1>3 DEF PassPrecheck, CancelSeen
    <2>3. <<pc[e], q>> \in Edge /\ q \in ControlPoint /\ CountTypeOK' /\ HeartbeatTouched(e)
      BY <2>2 DEF Edge, ControlPoint, CountTypeOK, HeartbeatTouched
    <2> QED
      BY <1>1, <1>2, <2>1, <2>2, <2>3, ProceedFacts
  <1>4. CASE ArmFault(e)
    <2>1. /\ UNCHANGED <<execRest, effects, faults>> /\ pc[e] = "arm" /\ CountTypeOK'
          /\ etok[e] \in Nat \ {0}
      BY <1>4 DEF ArmFault, CountTypeOK, SlotPoint, Repairing, SlotTypeOK
    <2>2. ASSUME pc' = [pc EXCEPT ![e] = "wave"],
                 UNCHANGED <<dbVars, queueVars, estep, etok, wave, agg, ok, rtok, slot, hbVars>>
          PROVE  StepFacts
      <3>1. <<pc[e], "wave">> \in Edge /\ "wave" \in ControlPoint /\ HeartbeatTouched(e)
        BY <2>1, <2>2 DEF Edge, ControlPoint, HeartbeatTouched
      <3> QED
        BY <1>1, <1>2, <2>1, <2>2, <3>1, ProceedFacts
    <2>3. ASSUME FencedTerminal(e, etok[e], "FAILED", "KNOWN_ABSENT"), Leave(e),
                 StopHeartbeat(OwnerOf[e])
          PROVE  StepFacts
      BY <2>1, <2>3, ClosingFacts DEF MayWriteAbsent, HeartbeatTouched, Knowledge
    <2> QED
      BY <1>4, <2>2, <2>3 DEF ArmFault
  <1>5. CASE ProcessThrows(e)
    <2>1. /\ UNCHANGED <<dbVars, queueVars, execRest, estep, etok, wave, agg, ok, rtok, slot, effects>>
          /\ pc' = [pc EXCEPT ![e] = "repair"] /\ Spend("throw") /\ HeartbeatTouched(e)
      BY <1>5 DEF ProcessThrows, HeartbeatTouched
    <2>2. <<pc[e], "repair">> \in Edge /\ "repair" \in ControlPoint /\ CountTypeOK'
      BY <1>5, <2>1, SpendType DEF ProcessThrows, Edge, ControlPoint, Repairing, CountTypeOK, FaultKind
    <2> QED
      BY <1>1, <1>2, <2>1, <2>2, ProceedFacts
  <1> QED
    BY <1>3, <1>4, <1>5

\* A lane is a lane after its attempt, and the attempt adds at most one effect: exactly
\* one for a mutation that succeeded, none for one classified KNOWN_ABSENT.
LEMMA InvokeFacts ==
  ASSUME SlotTypeOK, LaneTypeOK, CountTypeOK,
         NEW e \in Execs, NEW i \in Lanes, estep[e] \in Steps, Invoke(e, i)
  PROVE  \E l \in Lane, n \in {0, 1} :
           /\ l.at = "record" /\ slot[e][i].at = "prepare"
           /\ slot' = [slot EXCEPT ![e] = [@ EXCEPT ![i] = l]]
           /\ effects' = [effects EXCEPT ![estep[e]] = @ + n]
           /\ n = 1 => estep[e] \in Mutating /\ l.knowledge # "KNOWN_ABSENT"
           /\ estep[e] \in Mutating =>
                /\ l.outcome = "SUCCEEDED" => n = 1
                /\ l.knowledge \in {"KNOWN_ABSENT", "KNOWN_OCCURRED", "INDETERMINATE"}
  <1> DEFINE s == estep[e]
  <1>1. NoEffect4xx \in BOOLEAN
    BY ExecutionAssumption
  <1>2. PICK a \in executeHttp(NoEffect4xx) :
          /\ slot' = [slot EXCEPT ![e][i] =
               [@ EXCEPT !.at = "record", !.outcome = a.outcome,
                         !.knowledge = classifyInvocation(s \in Mutating, NoEffect4xx, a)]]
          /\ effects' = [effects EXCEPT ![s] = IF a.effect /\ s \in Mutating THEN @ + 1 ELSE @]
    BY Zenon DEF Invoke
  <1> DEFINE k == classifyInvocation(s \in Mutating, NoEffect4xx, a)
             l == [slot[e][i] EXCEPT !.at = "record", !.outcome = a.outcome, !.knowledge = k]
             n == IF a.effect /\ s \in Mutating THEN 1 ELSE 0
  <1>3. a.outcome \in {"SUCCEEDED", "FAILED"} /\ (a.outcome = "SUCCEEDED" => a.effect)
    BY <1>1, AttemptEffect
  <1>4. /\ k \in Knowledge
        /\ s \in Mutating => k \in {"KNOWN_ABSENT", "KNOWN_OCCURRED", "INDETERMINATE"}
    BY <1>3 DEF classifyInvocation, Knowledge
  <1>5. s \in Mutating /\ a.effect => k # "KNOWN_ABSENT"
    <2>1. (s \in Mutating) = TRUE \/ s \notin Mutating
      OBVIOUS
    <2> QED
      BY <2>1, <1>1, ClassificationTruthful
  <1>6. slot[e][i] \in Lane /\ slot[e][i].at = "prepare"
    BY DEF LaneTypeOK, Invoke
  <1>7. l \in Lane /\ l.at = "record" /\ l.outcome = a.outcome /\ l.knowledge = k
    BY <1>3, <1>4, <1>6 DEF Lane, LaneState
  <1>8. slot' = [slot EXCEPT ![e] = [@ EXCEPT ![i] = l]]
    BY <1>2
  <1>9. effects' = [effects EXCEPT ![s] = @ + n]
    <2>1. effects' = [effects EXCEPT ![s] = IF a.effect /\ s \in Mutating THEN @ + 1 ELSE @]
      BY Zenon, <1>2
    <2>2. CASE a.effect /\ s \in Mutating
      BY <2>1, <2>2
    <2>3. CASE ~(a.effect /\ s \in Mutating)
      <3>1. effects[s] + 0 = effects[s]
        BY DEF CountTypeOK
      <3> QED
        BY <2>1, <2>3, <3>1, Zenon
    <2> QED
      BY <2>2, <2>3
  <1>10. n \in {0, 1} /\ (n = 1 <=> a.effect /\ s \in Mutating)
    OBVIOUS
  <1> HIDE DEF k, l, n
  <1> QED
    BY <1>3, <1>4, <1>5, <1>6, <1>7, <1>8, <1>9, <1>10

\* One lane of one slot changes: nothing of any other slot does.
LEMMA LaneChange ==
  ASSUME SlotTypeOK, LaneTypeOK, NEW e \in Execs, NEW i \in Lanes, NEW l \in Lane,
         slot' = [slot EXCEPT ![e] = [@ EXCEPT ![i] = l]], UNCHANGED <<alive, estep, etok, wave, agg, ok, rtok>>,
         \A f \in Execs \ {e} : pc'[f] = pc[f]
  PROVE  /\ LaneTypeOK'
         /\ \A f \in Execs \ {e} : Stays(f)
         /\ slot'[e] = [slot[e] EXCEPT ![i] = l]
  BY DEF LaneTypeOK, Stays, SameLocals

\* An attempt is made, recorded, retried or thrown away.
LEMMA LaneSteps ==
  ASSUME ExecInv, NEW e \in Execs, NEW i \in Lanes, LaneStep(e, i) \/ InvocationThrows(e, i)
  PROVE  StepFacts
  <1> USE ExecutionAssumption, StepsAssumption DEF ExecInv, ExecTypeOK
  <1>1. slot[e][i].at # "off" /\ UNCHANGED <<queueVars, execRest>> /\ alive' = alive
    <2>1. CASE Invoke(e, i)
      <3>1. slot[e][i].at = "prepare" /\ UNCHANGED <<queueVars, execRest>>
        BY <2>1, Zenon DEF Invoke
      <3> QED
        BY <3>1 DEF execRest
    <2>2. CASE RecordAttempt(e, i)
      <3>1. slot[e][i].at = "record" /\ UNCHANGED <<queueVars, execRest>>
        BY <2>2, Zenon DEF RecordAttempt
      <3> QED
        BY <3>1 DEF execRest
    <2>3. CASE InvocationThrows(e, i)
      BY <2>3 DEF InvocationThrows, execRest
    <2> QED
      BY <2>1, <2>2, <2>3 DEF LaneStep
  <1>2. QueueTypeOK' /\ UNCHANGED job
    BY <1>1 DEF QueueTypeOK, queueVars
  <1>3. estep[e] \in Steps /\ Unpinned(estep[e]) /\ slot[e][i] \in Lane
    <2>1. slot[e] # NoLane
      BY <1>1 DEF NoLane, LaneOff
    <2> QED
      BY <2>1 DEF SlotPoint, Repairing, LaneTypeOK
  <1>4. LaneOff \in Lane
    BY DEF LaneOff, Lane, LaneState, Knowledge, SAFE_RETRY_MAX_ATTEMPTS
  <1>5. CASE Invoke(e, i)
    <2>1. PICK l \in Lane, n \in {0, 1} :
            /\ slot' = [slot EXCEPT ![e] = [@ EXCEPT ![i] = l]]
            /\ effects' = [effects EXCEPT ![estep[e]] = @ + n]
      BY <1>3, <1>5, InvokeFacts
    <2>2. UNCHANGED <<dbVars, execVars, hbVars, faults>>
      BY <1>5 DEF Invoke
    <2>3. CountTypeOK' /\ SlotTypeOK'
      BY <2>1, <2>2, <1>3 DEF CountTypeOK, SlotTypeOK, execVars
    <2>4. LaneTypeOK' /\ \A f \in Execs \ {e} : Stays(f)
      BY <1>1, <2>1, <2>2, LaneChange DEF execVars
    <2>5. SlotMove(e)
      BY <1>1, <1>5 DEF SlotMove
    <2>6. \A s \in Steps : RowCause(s)
      BY <2>2, NoCause DEF dbVars
    <2> QED
      BY <1>1, <1>2, <2>2, <2>3, <2>4, <2>5, <2>6, MovingFacts DEF HeartbeatTouched
  <1>6. CASE RecordAttempt(e, i)
    <2>1. PICK l \in Lane : slot' = [slot EXCEPT ![e] = [@ EXCEPT ![i] = l]]
      <3> DEFINE again == decideRetry(estep[e] \in RetrySafe, estep[e] \in Mutating,
                            slot[e][i].outcome, slot[e][i].knowledge, slot[e][i].attempt)
                 l == IF again THEN [LaneOff EXCEPT !.at = "prepare", !.attempt = slot[e][i].attempt + 1]
                      ELSE [slot[e][i] EXCEPT !.at = "done"]
      <3>1. slot' = [slot EXCEPT ![e] = [@ EXCEPT ![i] = l]]
        BY <1>6 DEF RecordAttempt
      <3>2. again => slot[e][i].attempt + 1 \in 0 .. SAFE_RETRY_MAX_ATTEMPTS
        BY <1>3 DEF decideRetry, MaxAttempts, SAFE_RETRY_MAX_ATTEMPTS, Lane
      <3>3. l \in Lane
        <4> HIDE DEF again
        <4> QED
          BY <1>3, <3>2 DEF Lane, LaneOff, LaneState, Knowledge
      <3> QED
        BY <3>1, <3>3
    <2>2. UNCHANGED <<execVars, hbVars, effects, faults>> /\ recordInvocation(estep[e], slot[e][i].knowledge)
      BY <1>6 DEF RecordAttempt
    <2>3. CountTypeOK' /\ SlotTypeOK'
      BY <2>2 DEF CountTypeOK, SlotTypeOK, execVars
    <2>4. LaneTypeOK' /\ \A f \in Execs \ {e} : Stays(f)
      BY <1>1, <2>1, <2>2, LaneChange DEF execVars
    <2>5. SlotMove(e)
      BY <1>1, <1>6, <2>2 DEF SlotMove
    <2>6. slot[e][i].knowledge \in Knowledge
      BY <1>3 DEF Lane
    <2>7. [DbNext]_dbVars /\ \A s \in Steps : RowCause(s)
      <3>1. slot[e][i].at = "record"
        BY <1>6, Zenon DEF RecordAttempt
      <3>2. UNCHANGED <<state, sideEffectKnowledge, executingAt>>
        BY <2>2 DEF recordInvocation
      <3>3. \A s \in Steps : s # estep[e] => invocations'[s] = invocations[s]
        BY <2>2 DEF recordInvocation
      <3>4. [DbNext]_dbVars
        BY <1>3, <2>2, <2>6 DEF DbNext, DbStepAction
      <3> QED
        BY <3>1, <3>2, <3>3, <3>4 DEF RowCause, Absent
    <2> QED
      BY <1>1, <1>2, <2>2, <2>3, <2>4, <2>5, <2>7, MovingFacts DEF HeartbeatTouched
  <1>7. CASE InvocationThrows(e, i)
    <2>1. slot' = [slot EXCEPT ![e] = [@ EXCEPT ![i] = LaneOff]]
      BY <1>7 DEF InvocationThrows
    <2>2. /\ UNCHANGED <<dbVars, estep, etok, wave, agg, ok, rtok, effects>> /\ Spend("throw")
          /\ HeartbeatTouched(e)
          /\ pc' = pc \/ pc' = [pc EXCEPT ![e] = "repair"]
      BY <1>7 DEF InvocationThrows, HeartbeatTouched
    <2>3. CountTypeOK' /\ SlotTypeOK'
      BY <2>2, SpendType DEF CountTypeOK, SlotTypeOK, ControlPoint, Repairing, FaultKind
    <2>4. LaneTypeOK' /\ \A f \in Execs \ {e} : Stays(f)
      <3>1. \A f \in Execs \ {e} : pc'[f] = pc[f]
        BY <2>2 DEF SlotTypeOK
      <3> QED
        BY <1>1, <1>4, <2>1, <2>2, <3>1, LaneChange
    <2>5. SlotMove(e)
      BY <1>1, <1>7, <2>2 DEF SlotMove
    <2>6. \A s \in Steps : RowCause(s)
      BY <2>2, NoCause DEF dbVars
    <2> QED
      BY <1>1, <1>2, <2>2, <2>3, <2>4, <2>5, <2>6, MovingFacts
  <1> QED
    BY <1>5, <1>6, <1>7 DEF LaneStep

\* A lane that is off, and one that starts, is a lane.
LEMMA LaneTypes == LaneOff \in Lane /\ [LaneOff EXCEPT !.at = "prepare", !.attempt = 1] \in Lane
  <1>1. LaneOff \in Lane
    BY DEF LaneOff, Lane, LaneState, Knowledge, SAFE_RETRY_MAX_ATTEMPTS
  <1>2. "prepare" \in LaneState /\ 1 \in 0 .. SAFE_RETRY_MAX_ATTEMPTS
    BY DEF LaneState, SAFE_RETRY_MAX_ATTEMPTS
  <1>3. ASSUME NEW l \in Lane PROVE [l EXCEPT !.at = "prepare"] \in Lane
    BY <1>2 DEF Lane
  <1>4. ASSUME NEW l \in Lane PROVE [l EXCEPT !.attempt = 1] \in Lane
    BY <1>2 DEF Lane
  <1> QED
    BY <1>1, <1>3, <1>4

\* The aggregate of a wave is one of the values aggregated, and none ranks above it.
LEMMA WorstOfFacts ==
  ASSUME NEW K \in SUBSET Knowledge, K # {}
  PROVE  /\ WorstOf(K) \in K
         /\ \A j \in K : KnowledgeRank(WorstOf(K)) >= KnowledgeRank(j)
  <1>1. \A k, j \in Knowledge : worstKnowledge(k, j) = k => KnowledgeRank(k) >= KnowledgeRank(j)
    BY DEF Knowledge, worstKnowledge, KnowledgeRank
  <1>2. \E k \in K : \A j \in K : worstKnowledge(k, j) = k
    <2>1. CASE "INDETERMINATE" \in K
      BY <2>1 DEF Knowledge, worstKnowledge, KnowledgeRank
    <2>2. CASE "INDETERMINATE" \notin K /\ "KNOWN_OCCURRED" \in K
      BY <2>2 DEF Knowledge, worstKnowledge, KnowledgeRank
    <2>3. CASE "INDETERMINATE" \notin K /\ "KNOWN_OCCURRED" \notin K /\ "KNOWN_ABSENT" \in K
      BY <2>3 DEF Knowledge, worstKnowledge, KnowledgeRank
    <2>4. CASE K \subseteq {"NOT_APPLICABLE"}
      BY <2>4 DEF Knowledge, worstKnowledge, KnowledgeRank
    <2> QED
      BY <2>1, <2>2, <2>3, <2>4 DEF Knowledge
  <1>3. WorstOf(K) \in K /\ \A j \in K : worstKnowledge(WorstOf(K), j) = WorstOf(K)
    BY <1>2 DEF WorstOf
  <1> QED
    BY <1>1, <1>3

\* A slot whose own step moves, while database, queue and heartbeat stand still.
LEMMA LocalFacts ==
  ASSUME ExecInv, NEW e \in Execs, SlotMove(e), \A f \in Execs \ {e} : Stays(f),
         SlotTypeOK', LaneTypeOK', UNCHANGED <<dbVars, queueVars, execRest, hbVars, effects, faults>>
  PROVE  StepFacts
  <1>1. QueueTypeOK' /\ CountTypeOK' /\ UNCHANGED job
    BY DEF ExecInv, ExecTypeOK, QueueTypeOK, CountTypeOK, queueVars
  <1>2. [DbNext]_dbVars /\ \A s \in Steps : RowCause(s)
    BY NoCause DEF dbVars
  <1> QED
    BY <1>1, <1>2, MovingFacts DEF HeartbeatTouched

\* A wave starts, and a wave is joined.
LEMMA WaveSteps ==
  ASSUME ExecInv, NEW e \in Execs, StartWave(e) \/ JoinWave(e)
  PROVE  StepFacts
  <1> USE DEF ExecInv, ExecTypeOK
  <1>1. LaneOff \in Lane /\ [LaneOff EXCEPT !.at = "prepare", !.attempt = 1] \in Lane
    BY LaneTypes
  <1>2. CASE StartWave(e)
    <2>1. /\ UNCHANGED <<dbVars, queueVars, execRest, hbVars, effects, faults>>
          /\ UNCHANGED <<alive, estep, etok, wave, agg, ok, rtok>>
      BY <1>2 DEF StartWave, execRest
    <2>2. SlotTypeOK' /\ LaneTypeOK'
      BY <1>1, <1>2 DEF StartWave, SlotTypeOK, LaneTypeOK, ControlPoint
    <2>3. SlotMove(e) /\ \A f \in Execs \ {e} : Stays(f)
      BY <1>2, <2>1 DEF SlotMove, Stays, SameLocals, StartWave, SlotTypeOK, LaneTypeOK
    <2> QED
      BY <2>1, <2>2, <2>3, LocalFacts
  <1>3. CASE JoinWave(e)
    <2>1. /\ UNCHANGED <<dbVars, queueVars, execRest, hbVars, effects, faults>>
          /\ UNCHANGED <<alive, estep, etok, rtok>>
      BY <1>3 DEF JoinWave, execRest
    <2>2. WorstOf({agg[e]} \cup {slot[e][i].knowledge : i \in Started(e)}) \in Knowledge
      <3>1. {agg[e]} \cup {slot[e][i].knowledge : i \in Started(e)} \in SUBSET Knowledge
        BY DEF Started, SlotTypeOK, LaneTypeOK, Lane
      <3> QED
        BY <3>1, WorstOfFacts
    <2>3. WaveOk(e) \in BOOLEAN
      BY DEF WaveOk
    <2>4. SlotTypeOK' /\ LaneTypeOK'
      BY <1>1, <1>3, <2>2, <2>3 DEF JoinWave, SlotTypeOK, LaneTypeOK, ControlPoint
    <2>5. SlotMove(e) /\ \A f \in Execs \ {e} : Stays(f)
      BY <1>3, <2>1 DEF SlotMove, Stays, SameLocals, JoinWave, SlotTypeOK, LaneTypeOK
    <2> QED
      BY <2>1, <2>4, <2>5, LocalFacts
  <1> QED
    BY <1>2, <1>3

\* The outcome is written, and a step that succeeded goes on to the next one.
LEMMA OutcomeFacts ==
  ASSUME ExecInv, NEW e \in Execs, WriteOutcome(e)
  PROVE  StepFacts
  <1> USE DEF ExecInv, ExecTypeOK
  <1> DEFINE s == estep[e]
             owned == CanWriteTerminal(s, OwnerOf[e], etok[e])
             st == IF ok[e] THEN "SUCCEEDED" ELSE "FAILED"
  <1>1. /\ UNCHANGED <<execRest, effects, faults>> /\ pc[e] = "terminal" /\ CountTypeOK'
        /\ etok[e] \in Nat \ {0} /\ s \in Steps
    BY DEF WriteOutcome, SlotPoint, Repairing, SlotTypeOK, CountTypeOK
  <1>2. /\ FinalKnowledge(e) \in Knowledge
        /\ FinalKnowledge(e) = "KNOWN_ABSENT" => ~ok[e] /\ agg[e] = "KNOWN_ABSENT"
    BY DEF FinalKnowledge, SlotTypeOK, Knowledge
  <1>3. FencedTerminal(e, etok[e], st, FinalKnowledge(e))
    BY DEF WriteOutcome
  <1>4. st \in Outcome
    BY DEF Outcome
  <1> HIDE DEF st
  <1>5. /\ [DbNext]_dbVars
        /\ UNCHANGED <<runVars, executingAt, invocations>>
        /\ owned => state'[s] = st /\ sideEffectKnowledge'[s] = FinalKnowledge(e)
        /\ \A p \in Steps : p # s \/ ~owned =>
              state'[p] = state[p] /\ sideEffectKnowledge'[p] = sideEffectKnowledge[p]
    BY <1>1, <1>2, <1>3, <1>4, FencedFacts
  <1>6. \A p \in Steps : RowCause(p)
    <2>1. ~ok[e] => Leaves(e)
      BY <1>1, LeaveFacts DEF WriteOutcome
    <2> QED
      BY <1>1, <1>2, <1>5, <2>1 DEF RowCause, Absent, MayWriteAbsent, CanWriteTerminal, st
  <1>7. ASSUME owned, ok[e], pc' = [pc EXCEPT ![e] = "chain"],
               UNCHANGED <<queueVars, estep, etok, wave, agg, ok, rtok, slot, hbVars>>
        PROVE  StepFacts
    <2>1. QueueTypeOK' /\ SlotTypeOK' /\ LaneTypeOK' /\ UNCHANGED job
      BY <1>7 DEF QueueTypeOK, SlotTypeOK, LaneTypeOK, ControlPoint, queueVars
    <2>2. state'[s] = "SUCCEEDED"
      BY <1>5, <1>7 DEF st
    <2>3. SlotMove(e) /\ \A f \in Execs \ {e} : Stays(f)
      BY <1>1, <1>7, <2>2 DEF SlotMove, Succeeds, Stays, SameLocals, SlotTypeOK, execRest
    <2> QED
      BY <1>1, <1>5, <1>6, <1>7, <2>1, <2>3, MovingFacts DEF HeartbeatTouched
  <1>8. ASSUME Leave(e), StopHeartbeat(OwnerOf[e]) PROVE StepFacts
    <2>1. Vacates(e)
      BY <1>1, <1>5 DEF Vacates, CanWriteTerminal, Active, st
    <2> QED
      BY <1>1, <1>5, <1>6, <1>8, <2>1, LeavingFacts DEF HeartbeatTouched
  <1> QED
    BY <1>7, <1>8 DEF WriteOutcome

\* A step that succeeded dispatches the next one of its run.
LEMMA ChainSteps ==
  ASSUME ExecInv, NEW e \in Execs,
         ChainRead(e) \/ ChainPromote(e) \/ ChainEnqueue(e) \/ ChainMark(e)
  PROVE  StepFacts
  <1> USE StepsAssumption DEF ExecInv, ExecTypeOK
  <1>1. /\ UNCHANGED <<execRest, effects, faults>> /\ CountTypeOK'
        /\ pc[e] \in {"chain", "promote", "chainEnqueue", "chainMark"}
    BY DEF ChainRead, ChainPromote, ChainEnqueue, ChainMark, CountTypeOK
  <1>2. \A n \in NextStep(estep[e]) : n \in Steps /\ Unpinned(n)
    BY <1>1 DEF NextStep, StepsOf, SlotPoint, Unpinned
  <1> DEFINE D == [DbNext]_dbVars /\ \A s \in Steps : RowCause(s)
  <1>3. ASSUME UNCHANGED dbVars PROVE D
    BY <1>3, NoCause DEF dbVars
  <1>4. ASSUME NEW n \in NextStep(estep[e]), NEW from \in SUBSET DispatchState,
               NEW to \in {"RECONCILE", "DISPATCHED"}, SetDispatchMarker(n, from, to)
        PROVE  D
    <2>1. SetDispatchMarker(n, DispatchState, to)
      BY <1>4 DEF SetDispatchMarker
    <2> QED
      BY <1>2, <1>4, <2>1, NoCause DEF DbNext, DbStepAction, SetDispatchMarker
  <1>5. ASSUME NEW n \in NextStep(estep[e]), TouchRun(RunOf[n]) PROVE D
    BY <1>2, <1>5, NoCause DEF DbNext, DbRunAction, TouchRun, stepVars
  <1>6. ASSUME D, Leave(e), StopHeartbeat(OwnerOf[e]) PROVE StepFacts
    <2>1. Vacates(e)
      BY <1>1 DEF Vacates
    <2> QED
      BY <1>1, <1>6, <2>1, LeavingFacts DEF HeartbeatTouched
  <1>7. ASSUME D, NEW q \in {"promote", "chainEnqueue", "chainMark"}, <<pc[e], q>> \in Edge,
               pc' = [pc EXCEPT ![e] = q], QueueTypeOK',
               \A s \in Steps : job'[s] # "none" => Unpinned(s) \/ job[s] # "none",
               UNCHANGED <<estep, etok, wave, agg, ok, rtok, slot, hbVars>>
        PROVE  StepFacts
    <2>1. q \in ControlPoint /\ q # "repair" /\ pc[e] # "precheck"
      BY <1>1 DEF ControlPoint
    <2> QED
      BY <1>1, <1>7, <2>1, ProceedFacts DEF HeartbeatTouched
  <1>8. ASSUME UNCHANGED queueVars PROVE QueueTypeOK' /\ UNCHANGED job
    BY <1>8 DEF QueueTypeOK, queueVars
  <1> HIDE DEF D
  <1> USE DEF Edge
  <1>9. CASE ChainRead(e)
    <2>1. D
      BY <1>9, <1>3 DEF ChainRead
    <2> QED
      BY <1>6, <1>7, <1>8, <1>9, <2>1 DEF ChainRead
  <1>10. CASE ChainPromote(e)
    <2>1. PICK n \in NextStep(estep[e]) :
       \/ /\ SetDispatchMarker(n, {"PENDING"}, "RECONCILE")
          /\ pc' = [pc EXCEPT ![e] = "chainEnqueue"]
          /\ UNCHANGED <<queueVars, estep, etok, wave, agg, ok, rtok, slot, hbVars>>
       \/ /\ dispatchState[n] # "PENDING" /\ UNCHANGED dbVars
          /\ Leave(e) /\ StopHeartbeat(OwnerOf[e])
      BY <1>10 DEF ChainPromote
    <2>2. D
      BY <1>3, <1>4, <2>1 DEF DispatchState
    <2> QED
      BY <1>6, <1>7, <1>8, <1>10, <2>1, <2>2 DEF ChainPromote
  <1>11. CASE ChainEnqueue(e)
    <2>1. PICK n \in NextStep(estep[e]) :
       \/ /\ Enqueue(n)
          /\ pc' = [pc EXCEPT ![e] = "chainMark"]
          /\ UNCHANGED <<dbVars, estep, etok, wave, agg, ok, rtok, slot, hbVars>>
       \/ /\ ~redisUp
          /\ IF dispatchState[n] = "RECONCILE" THEN TouchRun(RunOf[n]) ELSE UNCHANGED dbVars
          /\ Leave(e) /\ StopHeartbeat(OwnerOf[e])
      BY <1>11 DEF ChainEnqueue
    <2>2. D
      BY <1>3, <1>5, <2>1
    <2>3. pc[e] = "chainEnqueue"
      BY <1>11 DEF ChainEnqueue
    <2>4. CASE Enqueue(n) /\ pc' = [pc EXCEPT ![e] = "chainMark"]
               /\ UNCHANGED <<dbVars, estep, etok, wave, agg, ok, rtok, slot, hbVars>>
      <3>1. QueueTypeOK' /\ \A s \in Steps : job'[s] # "none" => Unpinned(s) \/ job[s] # "none"
        BY <1>2, <2>4, EnqueueFacts
      <3> QED
        BY <1>7, <2>2, <2>3, <2>4, <3>1
    <2> QED
      BY <1>6, <2>1, <2>2, <2>4
  <1>12. CASE ChainMark(e)
    <2>1. D
      BY <1>3, <1>4, <1>12 DEF ChainMark, DispatchState
    <2> QED
      BY <1>6, <1>12, <2>1 DEF ChainMark
  <1> QED
    BY <1>9, <1>10, <1>11, <1>12

\* The emergency path, and the end of invocations that outlived their step.
LEMMA RepairSteps ==
  ASSUME ExecInv, NEW e \in Execs,
         RepairLoad(e) \/ RepairDerive(e) \/ RepairFails(e) \/ OrphansEnd(e)
  PROVE  StepFacts
  <1> USE DEF ExecInv, ExecTypeOK
  <1>1. /\ UNCHANGED <<dbVars, execRest, hbVars, effects>>
        /\ pc[e] \in {"repair", "repairRows", "repairWrite", "orphaned"}
    BY DEF RepairLoad, RepairDerive, RepairFails, OrphansEnd
  <1>2. /\ estep[e] \in Steps
        /\ [DbNext]_dbVars /\ \A s \in Steps : RowCause(s)
    BY <1>1, NoCause DEF dbVars, SlotPoint
  <1>3. CountTypeOK'
    BY <1>1, SpendType DEF RepairLoad, RepairDerive, RepairFails, OrphansEnd, CountTypeOK, FaultKind
  <1>4. ASSUME Leave(e) PROVE StepFacts
    <2>1. Vacates(e)
      BY <1>1 DEF Vacates
    <2> QED
      BY <1>1, <1>2, <1>3, <1>4, <2>1, LeavingFacts DEF HeartbeatTouched
  <1>5. CASE RepairFails(e)
    BY <1>4, <1>5 DEF RepairFails
  <1>6. CASE RepairLoad(e)
    <2>1. CASE state[estep[e]] \in Active
      <3>1. /\ pc' = [pc EXCEPT ![e] = "repairRows"]
            /\ rtok' = [rtok EXCEPT ![e] = fencingToken[estep[e]]]
            /\ ok' = [ok EXCEPT ![e] = ~executingAt[estep[e]]]
            /\ UNCHANGED <<queueVars, estep, etok, wave, agg, slot, faults>>
            /\ pc[e] = "repair"
        BY <1>6, <2>1 DEF RepairLoad
      <3>2. SlotTypeOK' /\ LaneTypeOK'
        BY <1>2, <3>1 DEF SlotTypeOK, LaneTypeOK, ControlPoint, Repairing, Inv, DbTypeOK
      <3>3. SlotMove(e) /\ \A f \in Execs \ {e} : Stays(f)
        BY <1>1, <2>1, <3>1 DEF SlotMove, Repairs, Stays, SameLocals, SlotTypeOK, execRest
      <3> QED
        BY <1>1, <3>1, <3>2, <3>3, LocalFacts
    <2>2. CASE state[estep[e]] \notin Active
      BY <1>4, <1>6, <2>2 DEF RepairLoad
    <2> QED
      BY <2>1, <2>2
  <1>7. CASE RepairDerive(e)
    <2>1. deriveEmergencyStepTruth(estep[e] \in Mutating, invocations[estep[e]], ok[e]) \in Knowledge
      BY Zenon DEF deriveEmergencyStepTruth, Knowledge
    <2>2. \E k \in Knowledge : agg' = [agg EXCEPT ![e] = k]
      <3>1. agg' = [agg EXCEPT ![e] =
              deriveEmergencyStepTruth(estep[e] \in Mutating, invocations[estep[e]], ok[e])]
        BY <1>7, Zenon DEF RepairDerive
      <3> QED
        BY <2>1, <3>1, Zenon
    <2>3. /\ pc' = [pc EXCEPT ![e] = "repairWrite"]
          /\ UNCHANGED <<dbVars, queueVars, execRest, estep, etok, wave, ok, rtok, slot, hbVars,
                         effects, faults>>
      BY <1>7, Zenon DEF RepairDerive
    <2>4. SlotTypeOK' /\ LaneTypeOK'
      BY <2>2, <2>3 DEF SlotTypeOK, LaneTypeOK, ControlPoint, Repairing
    <2>5. \A f \in Execs \ {e} : Stays(f)
      BY <2>2, <2>3 DEF Stays, SameLocals, SlotTypeOK, execRest
    <2>6. SlotMove(e)
      <3>1. alive' = alive /\ effects' = effects
        BY <2>3 DEF execRest
      <3> QED
        BY <1>7, <3>1 DEF SlotMove
    <2> QED
      BY <2>3, <2>4, <2>5, <2>6, LocalFacts
  <1>8. CASE OrphansEnd(e)
    <2>1. LaneOff \in Lane
      BY DEF LaneOff, Lane, LaneState, Knowledge, SAFE_RETRY_MAX_ATTEMPTS
    <2>2. SlotTypeOK' /\ LaneTypeOK'
      BY <1>8, <2>1 DEF OrphansEnd, SlotTypeOK, LaneTypeOK, ControlPoint
    <2>3. Leaves(e)
      BY <1>8 DEF OrphansEnd, Leaves, Resets, Forgets, NoLane, SlotTypeOK, LaneTypeOK, SlotPoint
    <2>4. \A f \in Execs \ {e} : Stays(f)
      BY <1>1, <1>8 DEF OrphansEnd, Stays, SameLocals, SlotTypeOK, LaneTypeOK, execRest
    <2>5. SlotMove(e)
      <3>1. pc[e] = "orphaned" /\ alive' = alive /\ effects' = effects
        BY <1>1, <1>8 DEF OrphansEnd, execRest
      <3>2. Vacates(e)
        BY <3>1 DEF Vacates
      <3> QED
        BY <2>3, <3>1, <3>2 DEF SlotMove
    <2> QED
      BY <1>8, <2>2, <2>4, <2>5, LocalFacts DEF OrphansEnd
  <1> QED
    BY <1>5, <1>6, <1>7, <1>8

\* Every step of the system, whoever takes it, has the shape the invariants rest on.
LEMMA NextFacts == ExecInv /\ [Next]_vars => StepFacts
  <1> SUFFICES ASSUME ExecInv, [Next]_vars PROVE StepFacts
    OBVIOUS
  <1>1. CASE UNCHANGED vars
    <2>1. /\ UNCHANGED <<dbVars, execVars, slot, alive, effects, hbVars, queueVars, apiVars, sweepVars,
                        faults>>
      BY <1>1 DEF vars
    <2>2. ExecTypeOK' /\ DispatchedOnly'
      BY <2>1 DEF ExecInv, ExecTypeOK, QueueTypeOK, ApiTypeOK, SlotTypeOK, WorkerTypeOK, LaneTypeOK,
        CountTypeOK, DispatchedOnly, Unpinned, StepsOf, dbVars, execVars, hbVars, queueVars, apiVars,
        sweepVars
    <2> QED
      BY <2>1, <2>2, QuietFrame, NoCause, OutsideFacts DEF OutsideSlots, dbVars
  <1>2. ASSUME NEW e \in Execs, SlotStep(e) PROVE StepFacts
    BY <1>2, ClaimFacts, ClosingSteps, MarkFacts, PassSteps, WaveSteps, OutcomeFacts, ChainSteps,
      RepairSteps, DeliverFacts, LaneSteps DEF SlotStep, ExecStep
  <1> QED
    BY <1>1, <1>2, NextCases, ApiSteps, QueueSteps, SweepSteps, LeaseSteps, HeartbeatFacts, CrashFacts,
      OutsideFacts

-----------------------------------------------------------------------------
(***************************************************************************)
(* The invariant is inductive.                                             *)
(***************************************************************************)
\* What a step leaves of every slot, and of every row.
LEMMA StepCases ==
  ASSUME ExecInv, StepFacts
  PROVE  /\ \A e \in Execs : Stays(e) \/ Resets(e) \/ SlotMove(e)
         /\ \A s \in Steps : RowForward(s) /\ (Unpinned(s) => Unpinned(s)')
                             /\ (EarlierSucceeded(s) => EarlierSucceeded(s)')
  <1>1. \A e \in Execs : Stays(e) \/ Resets(e) \/ SlotMove(e)
    BY DEF StepFacts, SlotShape, Dies
  <1>2. (\A s \in Steps : RowForward(s)) /\ (\A r \in Runs : RunForward(r))
    BY Forward DEF ExecInv, Inv, StepFacts
  <1> QED
    BY <1>1, <1>2, StepsAssumption DEF RowForward, RunForward, Unpinned, EarlierSucceeded, StepsOf,
      StepTerminal

\* A slot keeps the shape its control point promises.
LEMMA SlotPointStep ==
  ASSUME ExecInv, StepFacts, NEW e \in Execs
  PROVE  SlotPoint(e)'
  <1> USE DEF SlotPoint, Repairing, NoLane
  <1>1. \A s \in Steps : Unpinned(s) => Unpinned(s)'
    BY StepCases
  <1>2. SlotPoint(e) /\ SlotTypeOK /\ LaneTypeOK /\ ExecTypeOK'
    BY DEF ExecInv, ExecTypeOK, StepFacts
  <1>3. CASE Stays(e)
    BY <1>1, <1>2, <1>3 DEF Stays, SameLocals
  <1>4. CASE Resets(e)
    BY <1>4 DEF Resets, Forgets
  <1>5. CASE SlotMove(e)
    <2>0. alive'[OwnerOf[e]] = alive[OwnerOf[e]]
      BY <1>5 DEF SlotMove
    <2>1. CASE PicksUp(e)
      BY <1>1, <1>2, <2>0, <2>1 DEF PicksUp
    <2>2. CASE Claims(e)
      <3>1. fencingToken[estep[e]] + 1 > 0
        BY <1>2, <2>2 DEF Claims, ExecInv, Inv, DbTypeOK
      <3> QED
        BY <1>1, <1>2, <2>0, <2>2, <3>1 DEF Claims
    <2>3. CASE Begins(e)
      BY <1>1, <1>2, <2>0, <2>3 DEF Begins, SameLocals
    <2>4. CASE Proceeds(e)
      BY <1>1, <1>2, <2>0, <2>4 DEF Proceeds, SameLocals, Edge
    <2>5. CASE Succeeds(e)
      BY <1>1, <1>2, <2>0, <2>5 DEF Succeeds, SameLocals
    <2>6. CASE Leaves(e) /\ pc[e] # "idle"
      <3>1. CASE Running(e) /\ pc'[e] = "orphaned" /\ Forgets(e)
               /\ estep'[e] = estep[e] /\ etok'[e] = etok[e] /\ slot'[e] = slot[e]
        <4>1. etok[e] > 0
          <5>1. slot[e] # NoLane
            BY <3>1 DEF Running, NoLane, LaneOff
          <5> QED
            BY <1>2, <5>1 DEF SlotTypeOK
        <4> QED
          BY <1>1, <1>2, <2>0, <2>6, <3>1, <4>1 DEF Forgets
      <3> QED
        BY <1>4, <2>6, <3>1 DEF Leaves
    <2>7. CASE StartWave(e)
      BY <1>1, <1>2, <2>0, <2>7 DEF StartWave, SlotTypeOK
    <2>8. CASE JoinWave(e)
      <3>1. /\ pc[e] = "inflight" /\ pc'[e] \in {"wave", "terminal"} /\ slot'[e] = NoLane
            /\ estep' = estep /\ etok' = etok
        BY <1>2, <2>8 DEF JoinWave, SlotTypeOK, LaneTypeOK
      <3> QED
        BY <1>1, <1>2, <2>0, <3>1
    <2>9. CASE Repairs(e)
      BY <1>1, <1>2, <2>0, <2>9 DEF Repairs
    <2>10. CASE RepairDerive(e)
      <3>1. pc[e] = "repairRows" /\ pc'[e] = "repairWrite" /\ UNCHANGED <<estep, etok, slot>>
        BY <1>2, <2>10, Zenon DEF RepairDerive, SlotTypeOK
      <3> QED
        BY <1>1, <1>2, <2>0, <3>1
    <2>11. ASSUME NEW i \in Lanes, Invoke(e, i) \/ RecordAttempt(e, i) \/ InvocationThrows(e, i)
           PROVE  SlotPoint(e)'
      <3>1. /\ UNCHANGED <<estep, etok, wave, agg, ok, rtok>> /\ slot[e][i].at # "off"
            /\ pc'[e] # pc[e] => pc[e] = "inflight" /\ pc'[e] = "repair"
        <4>1. CASE Invoke(e, i)
          <5>1. UNCHANGED execVars /\ slot[e][i].at = "prepare"
            BY <4>1, Zenon DEF Invoke
          <5> QED
            BY <5>1 DEF execVars
        <4>2. CASE RecordAttempt(e, i)
          <5>1. UNCHANGED execVars /\ slot[e][i].at = "record"
            BY <4>2, Zenon DEF RecordAttempt
          <5> QED
            BY <5>1 DEF execVars
        <4>3. CASE InvocationThrows(e, i)
          BY <1>2, <4>3 DEF InvocationThrows, SlotTypeOK
        <4> QED
          BY <2>11, <4>1, <4>2, <4>3
      <3>2. slot[e] # NoLane
        BY <3>1 DEF NoLane, LaneOff
      <3> QED
        BY <1>1, <1>2, <2>0, <3>1, <3>2
    <2> QED
      BY <1>5, <2>1, <2>2, <2>3, <2>4, <2>5, <2>6, <2>7, <2>8, <2>9, <2>10, <2>11 DEF SlotMove
  <1> QED
    BY <1>3, <1>4, <1>5, StepCases

\* How a slot comes by the token it holds: it kept it, or it claimed the step.
LEMMA TokenMove ==
  ASSUME ExecInv, StepFacts, NEW e \in Execs
  PROVE  \/ etok'[e] = 0
         \/ etok'[e] = etok[e] /\ estep'[e] = estep[e]
         \/ Claims(e)
  <1> SUFFICES ASSUME SlotMove(e) 
               PROVE  \/ etok'[e] = 0
                      \/ etok'[e] = etok[e] /\ estep'[e] = estep[e]
                      \/ Claims(e)
    BY StepCases DEF Stays, SameLocals, Resets
  <1>1. SlotTypeOK /\ SlotPoint(e)
    BY DEF ExecInv, ExecTypeOK
  <1>2. CASE PicksUp(e)
    BY <1>1, <1>2 DEF PicksUp, SlotPoint
  <1>3. CASE Begins(e) \/ Proceeds(e) \/ Succeeds(e) \/ Leaves(e) \/ Repairs(e)
    BY <1>3 DEF Begins, Proceeds, Succeeds, Leaves, Repairs, Resets, SameLocals
  <1>4. CASE StartWave(e) \/ JoinWave(e)
    BY <1>4 DEF StartWave, JoinWave
  <1>5. CASE RepairDerive(e)
    <2>1. UNCHANGED <<estep, etok>>
      BY <1>5, Zenon DEF RepairDerive
    <2> QED
      BY <2>1
  <1>6. ASSUME NEW i \in Lanes, Invoke(e, i) \/ RecordAttempt(e, i) \/ InvocationThrows(e, i)
        PROVE  UNCHANGED <<estep, etok>>
    <2>1. CASE Invoke(e, i)
      BY <2>1, Zenon DEF Invoke, execVars
    <2>2. CASE RecordAttempt(e, i)
      BY <2>2, Zenon DEF RecordAttempt, execVars
    <2>3. CASE InvocationThrows(e, i)
      BY <2>3 DEF InvocationThrows
    <2> QED
      BY <1>6, <2>1, <2>2, <2>3
  <1> QED
    BY <1>2, <1>3, <1>4, <1>5, <1>6 DEF SlotMove

\* How a slot comes to be in the emergency path.
LEMMA RepairMoves ==
  ASSUME ExecInv, StepFacts, NEW e \in Execs, pc'[e] \in {"repairRows", "repairWrite"}
  PROVE  \/ Repairs(e) \/ RepairDerive(e)
         \/ /\ pc'[e] = pc[e] /\ estep'[e] = estep[e]
            /\ rtok'[e] = rtok[e] /\ ok'[e] = ok[e] /\ agg'[e] = agg[e]
  <1>1. SlotTypeOK
    BY DEF ExecInv, ExecTypeOK
  <1>2. CASE \E i \in Lanes : Invoke(e, i) \/ RecordAttempt(e, i)
    <2>1. UNCHANGED execVars
      BY <1>2, Zenon DEF Invoke, RecordAttempt
    <2> QED
      BY <2>1 DEF execVars
  <1>3. CASE \E i \in Lanes : InvocationThrows(e, i)
    BY <1>1, <1>3 DEF InvocationThrows, SlotTypeOK
  <1>4. CASE StartWave(e) \/ JoinWave(e)
    BY <1>1, <1>4 DEF StartWave, JoinWave, SlotTypeOK
  <1>5. CASE PicksUp(e) \/ Claims(e) \/ Begins(e) \/ Proceeds(e) \/ Succeeds(e) \/ Leaves(e)
    BY <1>5 DEF PicksUp, Claims, Begins, Proceeds, Succeeds, Leaves, Resets, Edge
  <1>6. CASE Stays(e) \/ Resets(e)
    BY <1>6 DEF Stays, SameLocals, Resets
  <1> QED
    BY <1>2, <1>3, <1>4, <1>5, <1>6, StepCases DEF SlotMove

\* The tokens the slots hold stay fenced.
LEMMA SlotTokenStep ==
  ASSUME ExecInv, StepFacts, NEW e \in Execs
  PROVE  SlotToken(e)'
  <1>1. \A s \in Steps : RowForward(s) /\ (EarlierSucceeded(s) => EarlierSucceeded(s)')
    BY StepCases
  <1>2. SlotToken(e) /\ SlotTypeOK /\ SlotPoint(e) /\ RowToken /\ DbTypeOK /\ SlotTypeOK' /\ DbTypeOK'
    BY DbTypeStep DEF ExecInv, ExecTypeOK, StepFacts, Inv
  <1>3. SlotPoint(e)'
    BY SlotPointStep
  <1>4. /\ etok'[e] > 0 => EarlierSucceeded(estep[e])' /\ etok'[e] <= fencingToken'[estep'[e]]
        /\ etok'[e] > 0 /\ etok'[e] = fencingToken'[estep'[e]] /\ state'[estep'[e]] \in Active
              => leaseOwnerId'[estep'[e]] = OwnerOf[e]
    <2>1. CASE Claims(e)
      <3>1. estep[e] \in Steps
        BY <1>2, <2>1 DEF Claims, SlotPoint
      <3> QED
        BY <1>1, <1>2, <2>1, <3>1 DEF Claims, claimStep, claimable, NextToken, DbTypeOK
    <2>2. CASE etok'[e] = etok[e] /\ estep'[e] = estep[e] /\ etok[e] > 0
      <3>1. estep[e] \in Steps
        BY <1>2, <2>2 DEF SlotPoint
      <3>2. RowForward(estep[e]) /\ fencingToken[estep[e]] \in Nat /\ etok[e] \in Nat
        BY <1>1, <1>2, <3>1 DEF DbTypeOK, SlotTypeOK
      <3>3. EarlierSucceeded(estep[e])'
        BY <1>1, <1>2, <2>2, <3>1 DEF SlotToken, EarlierSucceeded
      <3> QED
        BY <1>2, <2>2, <3>2, <3>3 DEF SlotToken, RowForward
    <2> QED
      BY <1>2, <2>1, <2>2, TokenMove DEF SlotTypeOK
  <1>5. pc'[e] \in {"repairRows", "repairWrite"} => rtok'[e] \in 1 .. fencingToken'[estep'[e]]
    <2>1. CASE pc[e] \in {"repairRows", "repairWrite"} /\ rtok'[e] = rtok[e] /\ estep'[e] = estep[e]
      <3>1. RowForward(estep[e]) /\ fencingToken[estep[e]] \in Nat
        BY <1>1, <1>2, <2>1 DEF DbTypeOK, SlotPoint
      <3> QED
        BY <1>2, <2>1, <3>1 DEF SlotToken, RowForward
    <2>2. CASE Repairs(e)
      <3>1. estep[e] \in Steps
        BY <1>2, <2>2 DEF SlotPoint, Repairs
      <3> QED
        BY <1>1, <1>2, <2>2, <3>1 DEF Repairs, RowToken, DbTypeOK, RowForward
    <2>3. CASE RepairDerive(e)
      <3>1. pc[e] = "repairRows" /\ UNCHANGED <<rtok, estep>>
        BY <2>3, Zenon DEF RepairDerive
      <3> QED
        BY <2>1, <3>1
    <2> QED
      BY <2>1, <2>2, <2>3, RepairMoves
  <1> QED
    BY <1>4, <1>5 DEF SlotToken

\* A claim returns a token no other slot holds for the step.
LEMMA DistinctStep ==
  ASSUME ExecInv, StepFacts
  PROVE  TokensDistinct'
  <1> SUFFICES ASSUME NEW e \in Execs, NEW f \in Execs, e # f, etok'[e] > 0, etok'[f] > 0,
                      estep'[f] = estep'[e]
               PROVE  etok'[f] # etok'[e]
    BY DEF TokensDistinct
  <1>1. \A x \in Execs : etok[x] \in Nat /\ (etok[x] > 0 => etok[x] <= fencingToken[estep[x]])
    BY DEF ExecInv, ExecTypeOK, SlotTypeOK, SlotToken
  <1>2. ASSUME NEW x \in Execs, Claims(x)
        PROVE  estep'[x] = estep[x] /\ etok'[x] = fencingToken[estep[x]] + 1
               /\ fencingToken[estep[x]] \in Nat
    <2>1. estep[x] \in Steps
      BY <1>2 DEF ExecInv, SlotPoint, Claims
    <2> QED
      BY <1>2, <2>1 DEF Claims, ExecInv, Inv, DbTypeOK
  <1>3. ~(Claims(e) /\ Claims(f))
    <2>1. SUFFICES ASSUME Claims(e), Claims(f) PROVE FALSE
      OBVIOUS
    <2>2. ~Stays(e) /\ ~Stays(f) /\ ~Resets(e)
      BY <2>1 DEF Claims, Stays, Resets
    <2> QED
      BY <2>2 DEF StepFacts, SlotShape, Dies
  <1> QED
    BY <1>1, <1>2, <1>3, TokenMove DEF ExecInv, TokensDistinct

\* Every step keeps the invariant.
LEMMA ExecStepInv == ExecInv /\ [Next]_vars => ExecInv'
  <1> SUFFICES ASSUME ExecInv, [Next]_vars PROVE ExecInv'
    OBVIOUS
  <1>1. StepFacts
    BY NextFacts
  <1>2. Inv'
    BY <1>1, DbTypeStep, NextKeepsSafe DEF StepFacts, ExecInv, Inv
  <1>3. \A s \in Steps : RowForward(s) /\ fencingToken[s] \in Nat
    BY <1>1, StepCases DEF ExecInv, Inv, DbTypeOK
  <1>4. RowToken'
    BY <1>3 DEF ExecInv, RowToken, RowForward
  <1>5. HeartbeatToken'
    <2> SUFFICES ASSUME NEW o \in Owners, hb'[o] # NoStep
                 PROVE  hbtok'[o] \in 1 .. fencingToken'[hb'[o]]
      BY DEF HeartbeatToken
    <2>1. \/ hb'[o] = hb[o] /\ hbtok'[o] = hbtok[o]
          \/ \E e \in Execs : /\ estep[e] \in Steps /\ etok[e] > 0
                              /\ hb'[o] = estep[e] /\ hbtok'[o] = etok[e]
      BY <1>1 DEF StepFacts, HeartbeatMove
    <2>2. \E s \in Steps : hb'[o] = s /\ hbtok'[o] \in 1 .. fencingToken[s]
      BY <1>3, <2>1 DEF ExecInv, ExecTypeOK, WorkerTypeOK, SlotTypeOK, HeartbeatToken, SlotToken
    <2> QED
      BY <1>3, <2>2 DEF RowForward
  <1>6. \A e \in Execs : SlotPoint(e)' /\ SlotToken(e)'
    BY <1>1, SlotPointStep, SlotTokenStep
  <1>7. TokensDistinct'
    BY <1>1, DistinctStep
  <1> QED
    BY <1>1, <1>2, <1>4, <1>5, <1>6, <1>7 DEF StepFacts, ExecInv

\* The invariant of the processes: what is queued, held and renewed, whoever crashes,
\* stalls, throws or is late.
THEOREM ExecInvCorrect == Spec => []ExecInv
  BY ExecInit, ExecStepInv, PTL DEF Spec

\* Fencing (ADR-0009): generations hold distinct tokens, none newer than the row's, and
\* the one with the row's token owns the row while its step is active, with any number of
\* workers and slots, stalled jobs, expired leases and crashes.
THEOREM GenerationsFencedCorrect == Spec => []GenerationsFenced
  <1>1. ExecInv => GenerationsFenced
    BY DEF ExecInv, SlotToken, TokensDistinct, GenerationsFenced
  <1> QED
    BY <1>1, ExecInvCorrect, PTL

\* The processes only ever make the transactions of module ControlDb, with the owners and
\* tokens it allows: everything proved of DbSpec holds of the running system.
THEOREM ExecutionIsDb == Spec => DbSpec
  <1>1. Init => DbInit
    BY DEF Init
  <1>2. ExecInv /\ [Next]_vars => [DbNext]_dbVars
    BY NextFacts DEF StepFacts
  <1> QED
    BY <1>1, <1>2, ExecInvCorrect, PTL DEF Spec, DbSpec

\* Ordered steps at the target: no mutation reaches it before every earlier step of its
\* run SUCCEEDED, not even from stale generations and invocations their step left behind.
THEOREM NoPrematureRequestCorrect == Spec => NoPrematureRequest
  <1> DEFINE A == \A s \in Steps : effects'[s] # effects[s] =>
                    \A p \in StepsOf(RunOf[s]) : Index[p] < Index[s] => state[p] = "SUCCEEDED"
  <1>1. ASSUME ExecInv, [Next]_vars PROVE [A]_vars
    <2> SUFFICES ASSUME NEW s \in Steps, effects'[s] # effects[s] PROVE EarlierSucceeded(s)
      BY DEF EarlierSucceeded
    <2>1. PICK e \in Execs, i \in Lanes : Invoke(e, i)
      BY <1>1, NextFacts DEF StepFacts, SlotShape, SlotMove
    <2>2. slot[e][i].at = "prepare"
      BY <2>1, Zenon DEF Invoke
    <2>3. slot[e] # NoLane
      BY <2>2 DEF NoLane, LaneOff
    <2>4. etok[e] > 0 /\ estep[e] \in Steps
      BY <1>1, <2>3 DEF ExecInv, SlotPoint, Repairing, ExecTypeOK, SlotTypeOK
    <2>5. estep[e] = s
      BY <1>1, <2>1, <2>4, InvokeFacts DEF ExecInv, ExecTypeOK, CountTypeOK
    <2> QED
      BY <1>1, <2>4, <2>5 DEF ExecInv, SlotToken
  <1> QED
    BY <1>1, ExecInvCorrect, PTL DEF Spec, NoPrematureRequest

-----------------------------------------------------------------------------
(***************************************************************************)
(* Counting.  A generation in flight has caused at least the effects of    *)
(* the waves it joined and of the lanes that succeeded, and on the first   *)
(* claim of a step at most what its started lanes allow.                   *)
(***************************************************************************)
Begun(e) == wave[e] * Concurrency

Occurred(e) ==
  {i \in Lanes : slot[e][i].at \in {"record", "done"} /\ slot[e][i].outcome = "SUCCEEDED"}

\* The lanes that may still cause an effect.
Unspent(e) ==
  {i \in Lanes : \/ slot[e][i].at = "prepare"
                 \/ slot[e][i].at = "record" /\ slot[e][i].knowledge = "KNOWN_ABSENT"}

Progress(e) ==
  /\ pc[e] \in {"wave", "inflight"} => Begun(e) < Repeat
  /\ pc[e] = "inflight" => \A i \in Lanes : slot[e][i].at # "off" <=> Begun(e) + i < Repeat
  /\ estep[e] \in Mutating =>
       /\ pc[e] = "wave" => effects[estep[e]] >= Begun(e)
       /\ pc[e] = "inflight" => effects[estep[e]] >= Begun(e) + Cardinality(Occurred(e))
       /\ pc[e] = "terminal" /\ ok[e] => effects[estep[e]] >= Repeat

FirstClaim(e) == etok[e] > 0 /\ estep[e] \in Mutating /\ fencingToken[estep[e]] <= 1

Spent(e) ==
  FirstClaim(e) =>
    /\ pc[e] \in {"gate", "precheck", "arm"} => effects[estep[e]] = 0
    /\ pc[e] = "wave" => effects[estep[e]] <= Begun(e)
    /\ pc[e] = "inflight" =>
         effects[estep[e]] + Cardinality(Unspent(e)) <= Begun(e) + Concurrency
    /\ effects[estep[e]] + Cardinality(Unspent(e)) <= Repeat

RowSpent ==
  \A s \in Mutating : /\ fencingToken[s] = 0 => effects[s] = 0
                      /\ fencingToken[s] <= 1 => effects[s] <= Repeat

SlotsCounted == \A e \in Execs : Progress(e) /\ Spent(e)

CountInv == ExecInv /\ SlotsCounted /\ RowSpent /\ SucceededOccurred

\* The waves of a slot, as numbers.
LEMMA BegunFacts ==
  /\ Repeat \in Nat /\ Repeat > 0 /\ Concurrency \in Nat /\ Concurrency > 0
  /\ \A w \in Nat : w * Concurrency \in Nat /\ (w + 1) * Concurrency = w * Concurrency + Concurrency
  /\ 0 * Concurrency = 0
  BY ExecutionAssumption

\* A set of lanes is finite.
LEMMA LaneSets ==
  ASSUME NEW S \in SUBSET Lanes
  PROVE  /\ IsFiniteSet(S) /\ Cardinality(S) \in Nat /\ Cardinality(S) <= Concurrency
         /\ \A T \in SUBSET S : Cardinality(T) <= Cardinality(S)
         /\ \A i \in Lanes : /\ i \notin S => Cardinality(S \cup {i}) = Cardinality(S) + 1
                             /\ i \in S => Cardinality(S \ {i}) = Cardinality(S) - 1
  <1>1. IsFiniteSet(Lanes) /\ Cardinality(Lanes) = Concurrency
    BY BegunFacts, FS_Interval DEF Lanes
  <1>2. IsFiniteSet(S) /\ Cardinality(S) <= Concurrency
    BY <1>1, FS_Subset
  <1> QED
    BY <1>2, FS_Subset, FS_CardinalityType, FS_AddElement, FS_RemoveElement

\* The lanes of a wave that are started are the first ones.
LEMMA StartedLanes ==
  ASSUME NEW b \in Nat, b < Repeat
  PROVE  Cardinality({i \in Lanes : b + i < Repeat})
           = IF b + Concurrency <= Repeat THEN Concurrency ELSE Repeat - b
  <1> DEFINE S == {i \in Lanes : b + i < Repeat}
             m == IF b + Concurrency <= Repeat THEN Concurrency ELSE Repeat - b
  <1>1. Repeat \in Nat /\ Concurrency \in Nat \ {0}
    BY ExecutionAssumption
  <1>2. m \in Nat \ {0} /\ S = 0 .. m - 1
    BY <1>1 DEF Lanes
  <1> HIDE DEF m, S
  <1>3. m - 1 \in Int /\ ~(0 > m - 1) /\ m - 1 - 0 + 1 = m
    BY <1>2
  <1>4. Cardinality(0 .. m - 1) = m
    BY <1>3, FS_Interval
  <1> QED
    BY <1>2, <1>4 DEF m, S

\* What one attempt, its record or its exception does to lane i of slot e; n is the
\* number of effects it causes.
LaneMove(e, i, l, n) ==
  /\ slot'[e] = [slot[e] EXCEPT ![i] = l] /\ UNCHANGED <<estep, etok, wave, agg, ok, rtok>>
  /\ effects' = [effects EXCEPT ![estep[e]] = @ + n]
  /\ n = 1 => estep[e] \in Mutating
  /\ \/ /\ slot[e][i].at = "prepare" /\ l.at = "record" /\ pc' = pc
        /\ n = 1 => l.knowledge # "KNOWN_ABSENT"
        /\ estep[e] \in Mutating =>
             /\ l.outcome = "SUCCEEDED" => n = 1
             /\ l.knowledge \in {"KNOWN_ABSENT", "KNOWN_OCCURRED", "INDETERMINATE"}
     \/ /\ slot[e][i].at = "record" /\ n = 0 /\ pc' = pc
        /\ recordInvocation(estep[e], slot[e][i].knowledge)
        /\ l.outcome = slot[e][i].outcome
        /\ \/ l.at = "done" /\ l.knowledge = slot[e][i].knowledge
           \/ /\ l.at = "prepare" /\ l.outcome = "FAILED"
              /\ estep[e] \in Mutating => slot[e][i].knowledge = "KNOWN_ABSENT"
     \/ /\ slot[e][i].at \in {"prepare", "record"} /\ l = LaneOff /\ n = 0
        /\ pc'[e] = IF pc[e] = "inflight" THEN "repair" ELSE pc[e]
        /\ Spend("throw")

\* The three steps of a lane are such moves.
LEMMA LaneMoves ==
  ASSUME ExecInv, NEW e \in Execs, NEW i \in Lanes,
         Invoke(e, i) \/ RecordAttempt(e, i) \/ InvocationThrows(e, i)
  PROVE  \E l \in Lane, n \in {0, 1} : LaneMove(e, i, l, n)
  <1> USE DEF ExecInv, ExecTypeOK
  <1>1. slot[e][i].at # "off" /\ slot[e][i] \in Lane
    <2>1. Invoke(e, i) => slot[e][i].at = "prepare"
      BY Zenon DEF Invoke
    <2>2. RecordAttempt(e, i) => slot[e][i].at = "record"
      BY Zenon DEF RecordAttempt
    <2>3. InvocationThrows(e, i) => slot[e][i].at \in {"prepare", "record"}
      BY DEF InvocationThrows
    <2>4. slot[e][i] \in Lane
      BY DEF LaneTypeOK
    <2> QED
      BY <2>1, <2>2, <2>3, <2>4
  <1>2. estep[e] \in Steps
    <2>1. slot[e] # NoLane
      BY <1>1 DEF NoLane, LaneOff
    <2> QED
      BY <2>1 DEF SlotPoint, Repairing
  <1>3. effects' = effects => effects' = [effects EXCEPT ![estep[e]] = @ + 0]
    BY <1>2 DEF CountTypeOK
  <1>4. LaneOff \in Lane
    BY LaneTypes
  <1>5. CASE Invoke(e, i)
    <2>1. PICK l \in Lane, n \in {0, 1} :
           /\ l.at = "record" /\ slot[e][i].at = "prepare"
           /\ slot' = [slot EXCEPT ![e] = [@ EXCEPT ![i] = l]]
           /\ effects' = [effects EXCEPT ![estep[e]] = @ + n]
           /\ n = 1 => estep[e] \in Mutating /\ l.knowledge # "KNOWN_ABSENT"
           /\ estep[e] \in Mutating =>
                /\ l.outcome = "SUCCEEDED" => n = 1
                /\ l.knowledge \in {"KNOWN_ABSENT", "KNOWN_OCCURRED", "INDETERMINATE"}
      BY <1>2, <1>5, InvokeFacts
    <2>2. UNCHANGED execVars
      BY <1>5, Zenon DEF Invoke
    <2>3. slot'[e] = [slot[e] EXCEPT ![i] = l]
      BY <2>1 DEF LaneTypeOK
    <2>4. LaneMove(e, i, l, n)
      BY <2>1, <2>2, <2>3 DEF LaneMove, execVars
    <2> QED
      BY <2>4
  <1>6. CASE RecordAttempt(e, i)
    <2> DEFINE again == decideRetry(estep[e] \in RetrySafe, estep[e] \in Mutating,
                          slot[e][i].outcome, slot[e][i].knowledge, slot[e][i].attempt)
               l == IF again THEN [LaneOff EXCEPT !.at = "prepare", !.attempt = slot[e][i].attempt + 1]
                    ELSE [slot[e][i] EXCEPT !.at = "done"]
    <2>1. slot' = [slot EXCEPT ![e] = [@ EXCEPT ![i] = l]]
      BY <1>6 DEF RecordAttempt
    <2>2. again => /\ slot[e][i].attempt + 1 \in 0 .. SAFE_RETRY_MAX_ATTEMPTS
                   /\ slot[e][i].outcome = "FAILED"
                   /\ estep[e] \in Mutating => slot[e][i].knowledge = "KNOWN_ABSENT"
      BY <1>1 DEF decideRetry, MaxAttempts, SAFE_RETRY_MAX_ATTEMPTS, Lane
    <2>3. /\ slot[e][i].at = "record" /\ UNCHANGED <<execVars, effects>>
          /\ recordInvocation(estep[e], slot[e][i].knowledge)
      BY <1>6, Zenon DEF RecordAttempt
    <2> HIDE DEF again
    <2>4. /\ l \in Lane /\ l.at \in {"prepare", "done"}
          /\ l.at = "prepare" => again /\ l.outcome = "FAILED"
          /\ l.at = "done" => l.outcome = slot[e][i].outcome /\ l.knowledge = slot[e][i].knowledge
      <3>1. CASE again
        BY <1>4, <2>2, <3>1 DEF Lane, LaneOff, LaneState, Knowledge
      <3>2. CASE ~again
        BY <1>1, <3>2 DEF Lane, LaneState
      <3> QED
        BY <3>1, <3>2
    <2> HIDE DEF l
    <2>5. slot'[e] = [slot[e] EXCEPT ![i] = l]
      BY <2>1 DEF LaneTypeOK
    <2>6. LaneMove(e, i, l, 0)
      BY <1>3, <2>2, <2>3, <2>4, <2>5 DEF LaneMove, execVars
    <2> QED
      BY <2>4, <2>6
  <1>7. CASE InvocationThrows(e, i)
    <2>1. slot' = [slot EXCEPT ![e] = [@ EXCEPT ![i] = LaneOff]]
      BY <1>7 DEF InvocationThrows
    <2>2. slot'[e] = [slot[e] EXCEPT ![i] = LaneOff]
      BY <2>1 DEF LaneTypeOK
    <2>3. LaneMove(e, i, LaneOff, 0)
      BY <1>3, <1>7, <2>2 DEF LaneMove, InvocationThrows, SlotTypeOK
    <2> QED
      BY <1>4, <2>3
  <1> QED
    BY <1>5, <1>6, <1>7

\* Only an attempt of a slot that works on the step has an effect, and one at most.
LEMMA EffectSteps ==
  ASSUME ExecInv, StepFacts, NEW s \in Steps
  PROVE  \/ effects'[s] = effects[s]
         \/ /\ effects'[s] = effects[s] + 1
            /\ \E e \in Execs, i \in Lanes : estep[e] = s /\ Invoke(e, i)
  <1> SUFFICES ASSUME effects' # effects
               PROVE  \/ effects'[s] = effects[s]
                      \/ /\ effects'[s] = effects[s] + 1
                         /\ \E e \in Execs, i \in Lanes : estep[e] = s /\ Invoke(e, i)
    OBVIOUS
  <1>1. PICK e \in Execs, i \in Lanes : Invoke(e, i)
    BY DEF StepFacts, SlotShape, SlotMove
  <1>2. PICK l \in Lane, n \in {0, 1} : LaneMove(e, i, l, n)
    BY <1>1, LaneMoves
  <1>3. effects \in [Steps -> Nat]
    BY DEF ExecInv, ExecTypeOK, CountTypeOK
  <1> QED
    BY <1>1, <1>2, <1>3 DEF LaneMove

\* What such a move does to the two counts of its slot.
LEMMA LaneCount ==
  ASSUME ExecInv, NEW e \in Execs, NEW i \in Lanes, NEW l \in Lane, NEW n \in {0, 1},
         LaneMove(e, i, l, n), estep[e] \in Mutating
  PROVE  /\ Cardinality(Occurred(e)') <= Cardinality(Occurred(e)) + n
         /\ n + Cardinality(Unspent(e)') <= Cardinality(Unspent(e))
  <1> DEFINE O == Occurred(e)  O1 == Occurred(e)'  U == Unspent(e)  U1 == Unspent(e)'
  <1>1. O \in SUBSET Lanes /\ O1 \in SUBSET Lanes /\ U \in SUBSET Lanes /\ U1 \in SUBSET Lanes
    BY DEF Occurred, Unspent
  <1>2. slot'[e][i] = l /\ \A j \in Lanes \ {i} : slot'[e][j] = slot[e][j]
    BY DEF LaneMove, ExecInv, ExecTypeOK, LaneTypeOK
  <1>3. \A j \in Lanes \ {i} : (j \in O1 <=> j \in O) /\ (j \in U1 <=> j \in U)
    BY <1>2 DEF Occurred, Unspent
  <1>4. /\ i \in O1 => i \in O \/ n = 1
        /\ i \in U1 => i \in U /\ n = 0
        /\ n = 1 => i \in U
    BY <1>2 DEF LaneMove, Occurred, Unspent, LaneOff
  <1> HIDE DEF O, O1, U, U1
  <1>5. Cardinality(O1) <= Cardinality(O) + n
    <2>1. CASE n = 0
      <3>1. O1 \in SUBSET O
        BY <1>1, <1>3, <1>4, <2>1
      <3> QED
        BY <1>1, <2>1, <3>1, LaneSets
    <2>2. CASE n = 1 /\ i \in O
      <3>1. O1 \in SUBSET O
        BY <1>1, <1>3, <2>2
      <3> QED
        BY <1>1, <2>2, <3>1, LaneSets
    <2>3. CASE n = 1 /\ i \notin O
      <3>1. O1 \in SUBSET (O \cup {i}) /\ O \cup {i} \in SUBSET Lanes
        BY <1>1, <1>3
      <3>2. Cardinality(O1) <= Cardinality(O \cup {i})
        BY <3>1, LaneSets
      <3> QED
        BY <1>1, <2>3, <3>2, LaneSets
    <2> QED
      BY <2>1, <2>2, <2>3
  <1>6. n + Cardinality(U1) <= Cardinality(U)
    <2>1. CASE n = 0
      <3>1. U1 \in SUBSET U
        BY <1>1, <1>3, <1>4
      <3> QED
        BY <1>1, <2>1, <3>1, LaneSets
    <2>2. CASE n = 1
      <3>1. U1 \in SUBSET (U \ {i}) /\ U \ {i} \in SUBSET Lanes
        BY <1>1, <1>3, <1>4, <2>2
      <3>2. Cardinality(U1) <= Cardinality(U \ {i}) /\ Cardinality(U1) \in Nat
        BY <1>1, <3>1, LaneSets
      <3>3. Cardinality(U \ {i}) = Cardinality(U) - 1 /\ Cardinality(U) \in Nat
        BY <1>1, <1>4, <2>2, LaneSets
      <3> QED
        BY <2>2, <3>2, <3>3
    <2> QED
      BY <2>1, <2>2
  <1> QED
    BY <1>5, <1>6 DEF O, O1, U, U1

\* How a slot comes to be at a wave.
LEMMA WaveMoves ==
  ASSUME ExecInv, StepFacts, NEW e \in Execs, pc'[e] \in {"wave", "inflight", "terminal"}
  PROVE  \/ Stays(e)
         \/ pc[e] \in {"precheck", "arm"} /\ pc'[e] = "wave" /\ SameLocals(e)
         \/ StartWave(e) \/ JoinWave(e)
         \/ \E i \in Lanes, l \in Lane, n \in {0, 1} : LaneMove(e, i, l, n) /\ pc'[e] = pc[e]
  <1>1. ~Resets(e) /\ ~PicksUp(e) /\ ~Claims(e) /\ ~Begins(e) /\ ~Succeeds(e) /\ ~Leaves(e) /\ ~Repairs(e)
    BY DEF Resets, PicksUp, Claims, Begins, Succeeds, Leaves, Repairs
  <1>2. ~RepairDerive(e)
    <2>1. RepairDerive(e) => pc' = [pc EXCEPT ![e] = "repairWrite"]
      BY Zenon DEF RepairDerive
    <2> QED
      BY <2>1 DEF ExecInv, ExecTypeOK, SlotTypeOK
  <1>3. CASE Proceeds(e)
    BY <1>3 DEF Proceeds, Edge
  <1>4. ASSUME NEW i \in Lanes, Invoke(e, i) \/ RecordAttempt(e, i) \/ InvocationThrows(e, i)
        PROVE  \E l \in Lane, n \in {0, 1} : LaneMove(e, i, l, n) /\ pc'[e] = pc[e]
    <2>1. PICK l \in Lane, n \in {0, 1} : LaneMove(e, i, l, n)
      BY <1>4, LaneMoves
    <2>2. pc'[e] = pc[e]
      BY <2>1 DEF LaneMove
    <2> QED
      BY <2>1, <2>2
  <1> QED
    BY <1>1, <1>2, <1>3, <1>4, StepCases DEF SlotMove

\* What a joined wave adds up to.
LEMMA JoinCount ==
  ASSUME ExecInv, NEW e \in Execs, Progress(e), JoinWave(e)
  PROVE  /\ Begun(e) \in Nat
         /\ pc'[e] = "wave" => Begun(e)' = Begun(e) + Concurrency /\ Begun(e)' < Repeat
         /\ pc'[e] = "terminal" => Begun(e)' = Begun(e)
         /\ pc'[e] = "wave" => Cardinality(Occurred(e)) = Concurrency
         /\ pc'[e] = "terminal" /\ ok'[e] => Begun(e) + Cardinality(Occurred(e)) = Repeat
  <1> USE DEF ExecInv, ExecTypeOK
  <1> DEFINE more == WaveOk(e) /\ (wave[e] + 1) * Concurrency < Repeat
  <1>1. /\ pc[e] = "inflight" /\ ~Running(e)
        /\ pc'[e] = IF more THEN "wave" ELSE "terminal"
        /\ wave'[e] = IF more THEN wave[e] + 1 ELSE wave[e]
        /\ ok'[e] = WaveOk(e)
    BY DEF JoinWave, SlotTypeOK
  <1>2. Begun(e) \in Nat /\ Begun(e) < Repeat /\ (wave[e] + 1) * Concurrency = Begun(e) + Concurrency
    BY <1>1, BegunFacts DEF Begun, Progress, SlotTypeOK
  <1>3. more => Begun(e)' = Begun(e) + Concurrency
    BY <1>1, <1>2 DEF Begun
  <1>4. ~more => Begun(e)' = Begun(e)
    BY <1>1 DEF Begun
  <1>5. ASSUME WaveOk(e) PROVE Occurred(e) = {i \in Lanes : Begun(e) + i < Repeat}
    <2>1. \A i \in Lanes : slot[e][i].at \in {"off", "done"}
      BY <1>1 DEF Running, LaneTypeOK, Lane, LaneState
    <2>2. \A i \in Lanes : slot[e][i].at # "off" <=> Begun(e) + i < Repeat
      BY <1>1 DEF Progress
    <2> QED
      BY <1>5, <2>1, <2>2 DEF Occurred, WaveOk, Started
  <1>6. WaveOk(e) => Cardinality(Occurred(e))
                       = IF Begun(e) + Concurrency <= Repeat THEN Concurrency ELSE Repeat - Begun(e)
    BY <1>2, <1>5, StartedLanes
  <1>7. more <=> WaveOk(e) /\ Begun(e) + Concurrency < Repeat
    BY <1>2
  <1> HIDE DEF more
  <1>8. Repeat \in Nat /\ Concurrency \in Nat
    BY ExecutionAssumption
  <1> QED
    BY <1>1, <1>2, <1>3, <1>4, <1>6, <1>7, <1>8

\* A slot never runs ahead of its effects.
LEMMA ProgressStep ==
  ASSUME CountInv, StepFacts, ExecInv', NEW e \in Execs
  PROVE  Progress(e)'
  <1> USE DEF CountInv, SlotsCounted, ExecInv, ExecTypeOK
  <1>1. Progress(e) /\ SlotTypeOK /\ LaneTypeOK /\ SlotPoint(e) /\ effects \in [Steps -> Nat]
    BY DEF CountTypeOK
  <1>2. \A s \in Steps : effects[s] \in Nat /\ effects'[s] \in Nat /\ effects'[s] >= effects[s]
    BY <1>1, EffectSteps DEF CountTypeOK
  <1>3. SUFFICES ASSUME pc'[e] \in {"wave", "inflight", "terminal"} PROVE Progress(e)'
    BY DEF Progress
  <1>4. estep'[e] \in Steps
    BY <1>3 DEF SlotPoint
  <1>5. CASE Stays(e)
    <2>1. Begun(e)' = Begun(e) /\ Occurred(e)' = Occurred(e)
      BY <1>5 DEF Stays, SameLocals, Begun, Occurred
    <2>2. Occurred(e) \in SUBSET Lanes
      BY DEF Occurred
    <2>3. Begun(e) \in Nat /\ Cardinality(Occurred(e)) \in Nat /\ Repeat \in Nat
      BY <1>1, <2>2, BegunFacts, LaneSets DEF Begun, SlotTypeOK
    <2> QED
      BY <1>1, <1>2, <1>4, <1>5, <2>1, <2>3 DEF Stays, SameLocals, Progress
  <1>6. CASE pc[e] \in {"precheck", "arm"} /\ pc'[e] = "wave" /\ SameLocals(e)
    <2>1. Begun(e)' = 0
      BY <1>1, <1>6, BegunFacts DEF SlotPoint, SameLocals, Begun
    <2> QED
      BY <1>2, <1>4, <1>6, <2>1, BegunFacts DEF Progress
  <1>7. CASE StartWave(e)
    <2>1. /\ pc[e] = "wave" /\ pc'[e] = "inflight" /\ Begun(e)' = Begun(e)
          /\ UNCHANGED <<effects, estep>>
          /\ slot'[e] = [i \in Lanes |-> IF Begun(e) + i < Repeat
                           THEN [LaneOff EXCEPT !.at = "prepare", !.attempt = 1] ELSE LaneOff]
      BY <1>1, <1>7 DEF StartWave, Begun, SlotTypeOK, LaneTypeOK
    <2>2. \A i \in Lanes : slot'[e][i].at = IF Begun(e) + i < Repeat THEN "prepare" ELSE "off"
      BY <2>1 DEF LaneOff
    <2>3. Occurred(e)' = {}
      BY <2>2 DEF Occurred
    <2>4. Cardinality(Occurred(e)') = 0 /\ Begun(e) \in Nat
      BY <1>1, <2>3, FS_EmptySet, BegunFacts DEF Begun, SlotTypeOK
    <2> QED
      BY <1>1, <2>1, <2>2, <2>4 DEF Progress
  <1>8. CASE JoinWave(e)
    <2>1. pc[e] = "inflight" /\ pc'[e] \in {"wave", "terminal"} /\ UNCHANGED <<effects, estep>>
      BY <1>1, <1>8 DEF JoinWave, SlotTypeOK
    <2>2. /\ Begun(e) \in Nat
          /\ pc'[e] = "wave" => Begun(e)' = Begun(e) + Concurrency /\ Begun(e)' < Repeat
          /\ pc'[e] = "wave" => Cardinality(Occurred(e)) = Concurrency
          /\ pc'[e] = "terminal" /\ ok'[e] => Begun(e) + Cardinality(Occurred(e)) = Repeat
      BY <1>1, <1>8, JoinCount
    <2> QED
      BY <1>1, <2>1, <2>2 DEF Progress
  <1>9. ASSUME NEW i \in Lanes, NEW l \in Lane, NEW n \in {0, 1}, LaneMove(e, i, l, n), pc'[e] = pc[e]
        PROVE  Progress(e)'
    <2>1. /\ Begun(e)' = Begun(e) /\ estep'[e] = estep[e] /\ ok'[e] = ok[e]
          /\ slot'[e] = [slot[e] EXCEPT ![i] = l]
          /\ effects' = [effects EXCEPT ![estep[e]] = @ + n]
      BY <1>9 DEF LaneMove, Begun
    <2>2. effects'[estep[e]] = effects[estep[e]] + n /\ effects[estep[e]] \in Nat
      BY <1>1, <1>4, <2>1
    <2>3. pc[e] = "inflight" => l.at # "off" /\ slot[e][i].at # "off"
      BY <1>9 DEF LaneMove, LaneOff
    <2>4. estep[e] \in Mutating =>
            Cardinality(Occurred(e)') <= Cardinality(Occurred(e)) + n
      BY <1>9, LaneCount
    <2>5. Occurred(e) \in SUBSET Lanes /\ Occurred(e)' \in SUBSET Lanes
      BY DEF Occurred
    <2>6. /\ Begun(e) \in Nat /\ Repeat \in Nat
          /\ Cardinality(Occurred(e)) \in Nat /\ Cardinality(Occurred(e)') \in Nat
      BY <1>1, <2>5, BegunFacts, LaneSets DEF Begun, SlotTypeOK
    <2>7. pc[e] = "inflight" => \A j \in Lanes : slot'[e][j].at # "off" <=> slot[e][j].at # "off"
      BY <1>1, <2>1, <2>3 DEF LaneTypeOK
    <2> QED
      BY <1>1, <1>9, <2>1, <2>2, <2>4, <2>6, <2>7 DEF Progress
  <1> QED
    BY <1>3, <1>5, <1>6, <1>7, <1>8, <1>9, WaveMoves

\* A step recorded SUCCEEDED has all its effects.
LEMMA SucceededStep ==
  ASSUME CountInv, StepFacts
  PROVE  SucceededOccurred'
  <1> SUFFICES ASSUME NEW s \in Mutating, state'[s] = "SUCCEEDED" PROVE effects'[s] >= Repeat
    BY DEF SucceededOccurred
  <1>1. s \in Steps /\ Repeat \in Nat
    BY StepsAssumption, ExecutionAssumption
  <1>2. effects[s] \in Nat /\ effects'[s] >= effects[s] /\ effects'[s] \in Nat
    BY <1>1, EffectSteps DEF CountInv, ExecInv, ExecTypeOK, CountTypeOK
  <1>3. effects[s] >= Repeat
    BY <1>1 DEF StepFacts, RowCause, CountInv, SucceededOccurred, SlotsCounted, Progress
  <1> QED
    BY <1>1, <1>2, <1>3

\* An attempt leaves every control point and every row alone, and belongs to a generation.
LEMMA InvokeFrame ==
  ASSUME ExecInv, NEW e \in Execs, NEW i \in Lanes, Invoke(e, i)
  PROVE  /\ UNCHANGED <<pc, estep, etok, wave, agg, ok, rtok, dbVars>>
         /\ estep[e] \in Steps /\ etok[e] > 0 /\ slot[e][i].at = "prepare"
         /\ pc[e] \in {"inflight", "orphaned"} \cup Repairing
  <1>1. UNCHANGED <<execVars, dbVars>> /\ slot[e][i].at = "prepare"
    BY Zenon DEF Invoke
  <1>2. slot[e] # NoLane
    BY <1>1 DEF NoLane, LaneOff
  <1> QED
    BY <1>1, <1>2 DEF execVars, ExecInv, SlotPoint, Repairing, ExecTypeOK, SlotTypeOK

\* On the first claim of a step one slot alone holds its token.
LEMMA OneHolder ==
  ASSUME ExecInv, NEW e \in Execs, NEW f \in Execs, etok[e] > 0, etok[f] > 0,
         estep[f] = estep[e], fencingToken[estep[e]] <= 1
  PROVE  f = e
  <1>1. etok[e] <= fencingToken[estep[e]] /\ etok[f] <= fencingToken[estep[e]]
    BY DEF ExecInv, SlotToken
  <1>2. etok[e] \in Nat /\ etok[f] \in Nat /\ fencingToken[estep[e]] \in Nat
    BY DEF ExecInv, ExecTypeOK, SlotTypeOK, SlotPoint, Inv, DbTypeOK
  <1> QED
    BY <1>1, <1>2 DEF ExecInv, TokensDistinct

\* No lane on, nothing left to spend.
LEMMA NothingUnspent ==
  ASSUME NEW e \in Execs
  PROVE  /\ slot[e] = NoLane => Cardinality(Unspent(e)) = 0
         /\ slot'[e] = NoLane => Cardinality(Unspent(e)') = 0
  <1>1. slot[e] = NoLane => Unspent(e) = {}
    BY DEF Unspent, NoLane, LaneOff
  <1>2. slot'[e] = NoLane => Unspent(e)' = {}
    BY DEF Unspent, NoLane, LaneOff
  <1> QED
    BY <1>1, <1>2, FS_EmptySet

\* A first claim never spends more than the repeats its step declares.
LEMMA SpentStep ==
  ASSUME CountInv, StepFacts, ExecInv', NEW e \in Execs
  PROVE  Spent(e)'
  <1> USE DEF CountInv, SlotsCounted, ExecInv, ExecTypeOK
  <1> SUFFICES ASSUME FirstClaim(e)' PROVE Spent(e)'
    BY DEF Spent
  <1> DEFINE s == estep'[e]
  <1>1. /\ SlotTypeOK /\ LaneTypeOK /\ SlotPoint(e) /\ Spent(e) /\ Progress(e)
        /\ effects \in [Steps -> Nat] /\ fencingToken \in [Steps -> Nat]
    BY DEF CountTypeOK, Inv, DbTypeOK
  <1>2. s \in Steps /\ s \in Mutating /\ fencingToken[s] \in Nat /\ fencingToken[s] <= 1
        /\ effects[s] \in Nat /\ etok'[e] > 0
    <2>1. s \in Steps /\ s \in Mutating /\ fencingToken'[s] <= 1
      BY StepsAssumption DEF FirstClaim
    <2>2. RowForward(s)
      BY <2>1, StepCases
    <2> QED
      BY <1>1, <2>1, <2>2 DEF FirstClaim, RowForward
  <1>3. /\ Repeat \in Nat \ {0} /\ Concurrency \in Nat \ {0} /\ Begun(e) \in Nat
        /\ wave[e] = 0 => Begun(e) = 0
        /\ wave'[e] = wave[e] => Begun(e)' = Begun(e)
    BY <1>1, ExecutionAssumption, BegunFacts DEF Begun, SlotTypeOK
  <1>4. /\ Unspent(e) \in SUBSET Lanes /\ Unspent(e)' \in SUBSET Lanes
        /\ slot'[e] = slot[e] => Unspent(e)' = Unspent(e)
    BY DEF Unspent
  <1>5. Cardinality(Unspent(e)) \in Nat /\ Cardinality(Unspent(e)') \in Nat
    BY <1>4, LaneSets
  <1>6. CASE Claims(e)
    <2>1. /\ estep'[e] = estep[e] /\ slot'[e] = NoLane /\ pc'[e] = "gate" /\ pc[e] = "claim"
          /\ fencingToken'[s] = fencingToken[s] + 1
      BY <1>1, <1>2, <1>6 DEF Claims, SlotPoint, claimStep, NextToken
    <2>2. fencingToken[s] = 0
      BY <1>2, <2>1 DEF FirstClaim
    <2>3. effects[s] = 0
      BY <1>2, <2>2 DEF RowSpent
    <2>4. effects'[s] = effects[s]
      BY <1>2, <2>1, EffectSteps, InvokeFrame
    <2> QED
      BY <1>3, <2>1, <2>3, <2>4, NothingUnspent DEF Spent
  <1>7. ASSUME ~Claims(e) PROVE Spent(e)'
    <2>1. estep'[e] = estep[e] /\ etok'[e] = etok[e]
      BY <1>2, <1>7, TokenMove
    <2>2. FirstClaim(e)
      BY <1>2, <2>1 DEF FirstClaim
    <2>3. ASSUME NEW i \in Lanes, NEW l \in Lane, NEW n \in {0, 1}, LaneMove(e, i, l, n)
          PROVE  Spent(e)'
      <3>1. n + Cardinality(Unspent(e)') <= Cardinality(Unspent(e))
        BY <1>2, <2>1, <2>3, LaneCount
      <3>2. effects'[s] = effects[s] + n /\ wave'[e] = wave[e]
        BY <1>1, <1>2, <2>1, <2>3 DEF LaneMove
      <3>3. pc'[e] = pc[e] \/ pc'[e] = "repair"
        BY <2>3 DEF LaneMove
      <3>4. pc[e] # "wave" /\ pc[e] \notin {"gate", "precheck", "arm"}
        <4>1. slot[e][i].at # "off"
          BY <2>3 DEF LaneMove
        <4>2. slot[e] # NoLane
          BY <4>1 DEF NoLane, LaneOff
        <4> QED
          BY <1>1, <4>2 DEF SlotPoint, Repairing
      <3> QED
        BY <1>1, <1>2, <1>3, <1>5, <2>1, <2>2, <3>1, <3>2, <3>3, <3>4 DEF Spent
    <2>4. ASSUME effects'[s] # effects[s] PROVE Spent(e)'
      <3>1. PICK f \in Execs, i \in Lanes : estep[f] = s /\ Invoke(f, i)
        BY <1>2, <2>4, EffectSteps
      <3>2. f = e
        BY <1>2, <2>1, <3>1, InvokeFrame, OneHolder
      <3> QED
        BY <2>3, <3>1, <3>2, LaneMoves
    <2>5. CASE StartWave(e)
      <3>1. /\ pc[e] = "wave" /\ pc'[e] = "inflight" /\ wave'[e] = wave[e] /\ effects' = effects
            /\ slot'[e] = [i \in Lanes |-> IF Begun(e) + i < Repeat
                             THEN [LaneOff EXCEPT !.at = "prepare", !.attempt = 1] ELSE LaneOff]
        BY <1>1, <2>5 DEF StartWave, Begun, SlotTypeOK, LaneTypeOK
      <3>2. \A i \in Lanes : slot'[e][i].at = IF Begun(e) + i < Repeat THEN "prepare" ELSE "off"
        BY <3>1 DEF LaneOff
      <3>3. Unspent(e)' = {i \in Lanes : Begun(e) + i < Repeat}
        BY <3>2 DEF Unspent
      <3>4. Begun(e) < Repeat
        BY <1>1, <3>1 DEF Progress
      <3>5. Cardinality(Unspent(e)')
              = IF Begun(e) + Concurrency <= Repeat THEN Concurrency ELSE Repeat - Begun(e)
        BY <1>3, <3>3, <3>4, StartedLanes
      <3> QED
        BY <1>1, <1>2, <1>3, <2>1, <2>2, <3>1, <3>4, <3>5 DEF Spent
    <2>6. CASE JoinWave(e)
      <3>1. /\ pc[e] = "inflight" /\ pc'[e] \in {"wave", "terminal"} /\ effects' = effects
            /\ slot'[e] = NoLane
        BY <1>1, <2>6 DEF JoinWave, SlotTypeOK, LaneTypeOK, NoLane
      <3>2. pc'[e] = "wave" => Begun(e)' = Begun(e) + Concurrency
        BY <1>1, <2>6, JoinCount
      <3>3. Cardinality(Unspent(e)') = 0
        BY <3>1, NothingUnspent
      <3> QED
        BY <1>1, <1>2, <1>3, <1>5, <2>1, <2>2, <3>1, <3>2, <3>3 DEF Spent
    <2>7. ASSUME effects'[s] = effects[s], slot'[e] = slot[e],
                 \/ pc'[e] = pc[e] /\ wave'[e] = wave[e]
                 \/ pc'[e] \in {"precheck", "arm"} /\ pc[e] \in {"gate", "precheck"}
                 \/ pc'[e] = "wave" /\ pc[e] \in {"precheck", "arm"}
                 \/ pc'[e] \notin {"gate", "precheck", "arm", "wave", "inflight"}
          PROVE  Spent(e)'
      <3>1. Begun(e)' \in Nat
        BY BegunFacts DEF Begun, SlotTypeOK
      <3>2. Cardinality(Unspent(e)') = Cardinality(Unspent(e)) /\ effects'[estep'[e]] = effects[estep[e]]
        BY <1>4, <2>1, <2>7
      <3> HIDE DEF s
      <3> QED
        BY <1>1, <1>3, <1>5, <2>1, <2>2, <2>7, <3>1, <3>2 DEF Spent
    <2>8. ASSUME effects'[s] = effects[s], ~StartWave(e), ~JoinWave(e),
                 ~\E i \in Lanes : Invoke(e, i) \/ RecordAttempt(e, i) \/ InvocationThrows(e, i)
          PROVE  Spent(e)'
      <3>1. ~Resets(e) /\ ~PicksUp(e)
        BY <1>1, <1>2, <2>1 DEF Resets, PicksUp, SlotPoint
      <3>2. RepairDerive(e) => pc'[e] = "repairWrite" /\ slot' = slot
        <4>1. RepairDerive(e) => pc' = [pc EXCEPT ![e] = "repairWrite"] /\ slot' = slot
          BY Zenon DEF RepairDerive
        <4> QED
          BY <1>1, <4>1 DEF SlotTypeOK
      <3>3. CASE Stays(e)
        BY <2>7, <2>8, <3>3 DEF Stays, SameLocals
      <3>4. CASE Begins(e) \/ Proceeds(e)
        BY <2>7, <2>8, <3>4 DEF Begins, Proceeds, SameLocals, Edge
      <3>5. CASE Succeeds(e) \/ Leaves(e) \/ Repairs(e) \/ RepairDerive(e)
        BY <2>7, <2>8, <3>1, <3>2, <3>5 DEF Succeeds, Leaves, Repairs, SameLocals
      <3> QED
        BY <1>7, <2>8, <3>1, <3>3, <3>4, <3>5, StepCases DEF SlotMove
    <2> QED
      BY <2>3, <2>4, <2>5, <2>6, <2>8, LaneMoves
  <1> QED
    BY <1>6, <1>7

\* Nothing happens to a step before its first claim, and that claim stays within its repeats.
LEMMA RowSpentStep ==
  ASSUME CountInv, StepFacts
  PROVE  RowSpent'
  <1> USE DEF CountInv, SlotsCounted, ExecInv, ExecTypeOK
  <1> SUFFICES ASSUME NEW s \in Mutating, fencingToken'[s] <= 1
               PROVE  effects'[s] <= Repeat /\ (fencingToken'[s] = 0 => effects'[s] = 0)
    BY StepCases, StepsAssumption DEF RowSpent, RowForward, Inv, DbTypeOK
  <1>1. s \in Steps /\ effects[s] \in Nat /\ fencingToken[s] \in Nat /\ Repeat \in Nat
    BY StepsAssumption, ExecutionAssumption DEF CountTypeOK, Inv, DbTypeOK
  <1>2. fencingToken[s] <= 1 /\ (fencingToken'[s] = 0 => fencingToken[s] = 0)
    BY <1>1, StepCases DEF RowForward
  <1>3. CASE effects'[s] = effects[s]
    BY <1>1, <1>2, <1>3 DEF RowSpent
  <1>4. ASSUME NEW e \in Execs, NEW i \in Lanes, estep[e] = s, Invoke(e, i) PROVE
          effects'[s] <= Repeat /\ fencingToken[s] > 0
    <2>1. PICK l \in Lane, n \in {0, 1} : LaneMove(e, i, l, n)
      BY <1>4, LaneMoves
    <2>2. n + Cardinality(Unspent(e)') <= Cardinality(Unspent(e))
      BY <1>4, <2>1, LaneCount
    <2>3. Unspent(e) \in SUBSET Lanes /\ Unspent(e)' \in SUBSET Lanes
      BY DEF Unspent
    <2>4. Cardinality(Unspent(e)) \in Nat /\ Cardinality(Unspent(e)') \in Nat
      BY <2>3, LaneSets
    <2>5. etok[e] > 0 /\ etok[e] \in Nat
      BY <1>4, InvokeFrame DEF SlotTypeOK
    <2>6. effects[s] + Cardinality(Unspent(e)) <= Repeat
      BY <1>2, <1>4, <2>5 DEF Spent, FirstClaim
    <2>7. effects'[s] = effects[s] + n
      BY <1>1, <1>4, <2>1 DEF LaneMove, CountTypeOK
    <2> QED
      BY <1>1, <1>4, <2>2, <2>4, <2>5, <2>6, <2>7 DEF SlotToken
  <1> QED
    BY <1>1, <1>2, <1>3, <1>4, EffectSteps

\* The counts hold at the start ...
LEMMA CountInit == Init => CountInv
  <1> SUFFICES ASSUME Init PROVE CountInv
    OBVIOUS
  <1>1. ExecInv
    BY ExecInit
  <1>2. Repeat \in Nat /\ \A s \in Steps : effects[s] = 0 /\ state[s] = "PENDING" /\ fencingToken[s] = 0
    BY ExecutionAssumption DEF Init, DbInit
  <1>3. SlotsCounted
    BY DEF Init, SlotsCounted, Progress, Spent, FirstClaim
  <1> QED
    BY <1>1, <1>2, <1>3, StepsAssumption DEF CountInv, RowSpent, SucceededOccurred

\* ... and every step keeps them.
LEMMA CountStepInv == CountInv /\ [Next]_vars => CountInv'
  <1> SUFFICES ASSUME CountInv, [Next]_vars PROVE CountInv'
    OBVIOUS
  <1>1. StepFacts /\ ExecInv'
    BY NextFacts, ExecStepInv DEF CountInv
  <1>2. \A e \in Execs : Progress(e)' /\ Spent(e)'
    BY <1>1, ProgressStep, SpentStep
  <1> QED
    BY <1>1, <1>2, SucceededStep, RowSpentStep DEF CountInv, SlotsCounted

\* What has happened at the target is at least what was recorded, and on a step's first
\* claim at most what it declared.
THEOREM CountCorrect == Spec => []CountInv
  BY CountInit, CountStepInv, PTL DEF Spec

\* A step recorded SUCCEEDED did all its repeats, whichever generation recorded it and
\* whatever failed, stalled or was retried on the way.
THEOREM SucceededOccurredCorrect == Spec => []SucceededOccurred
  <1>1. CountInv => SucceededOccurred
    BY DEF CountInv
  <1> QED
    BY <1>1, CountCorrect, PTL

\* Retries never duplicate: one claim of a step causes at most its declared number of
\* effects, for every repeat, concurrency and retry policy.
THEOREM RetryNeverDuplicatesCorrect == Spec => []RetryNeverDuplicates
  <1>1. CountInv => RetryNeverDuplicates
    BY DEF CountInv, RowSpent, RetryNeverDuplicates
  <1> QED
    BY <1>1, CountCorrect, PTL

-----------------------------------------------------------------------------
(***************************************************************************)
(* Knowledge.  A first claim that has seen nothing but KNOWN_ABSENT has    *)
(* caused nothing; what a slot holds while it may send, the row says in    *)
(* executingAt; and the emergency path, which looks at that mark and at    *)
(* the recorded invocations in two reads, never finds the mark unset and   *)
(* an invocation recorded while it still owns the step.                    *)
(***************************************************************************)
Harmless == {"NOT_APPLICABLE", "KNOWN_ABSENT"}

Clean(e) ==
  /\ agg[e] \in Harmless
  /\ \A i \in Lanes : slot[e][i].at \in {"record", "done"} => slot[e][i].knowledge \in Harmless

AbsentSound(e) ==
  FirstClaim(e) /\ pc[e] \in {"wave", "inflight", "terminal"} /\ Clean(e) => effects[estep[e]] = 0

Handed(e) ==
  /\ pc[e] \notin {"idle", "claim", "gate"} \cup Repairing => executingAt[estep[e]]
  /\ slot[e] # NoLane => executingAt[estep[e]]

RowSent ==
  \A s \in Steps : /\ invocations[s] # {} => executingAt[s]
                   /\ sideEffectKnowledge[s] # "null" => state[s] \in StepTerminal
                   /\ s \in Mutating /\ state[s] = "PENDING" => fencingToken[s] = 0

KnowledgeInv == CountInv /\ RowSent /\ \A e \in Execs : AbsentSound(e) /\ Handed(e)

Held(e) == Owns(estep[e], OwnerOf[e], rtok[e]) /\ state[estep[e]] \in Active

RepairSound(e) ==
  /\ pc[e] = "repairRows" /\ ok[e] /\ Held(e) => ~executingAt[estep[e]]
  /\ pc[e] = "repairWrite" /\ estep[e] \in Mutating /\ agg[e] = "KNOWN_ABSENT" => ~Held(e)

\* A step recorded KNOWN_ABSENT had no effect, and no generation is left to cause one.
Settled ==
  \A s \in Mutating :
    Absent(s) /\ fencingToken[s] <= 1 /\ runState[RunOf[s]] # "CANCELLED"
      => effects[s] = 0 /\ \A e \in Execs : estep[e] = s => etok[e] = 0

\* A slot that has handed out nothing, or whose row says that it may have, stays so.
LEMMA HandedStep ==
  ASSUME KnowledgeInv, StepFacts, ExecInv', NEW e \in Execs
  PROVE  Handed(e)'
  <1> USE DEF KnowledgeInv, CountInv, ExecInv, ExecTypeOK
  <1>1. /\ SlotTypeOK /\ LaneTypeOK /\ SlotPoint(e) /\ SlotPoint(e)' /\ Handed(e)
        /\ \A s \in Steps : executingAt[s] => executingAt'[s]
    BY StepCases DEF RowForward
  <1>2. CASE Stays(e)
    BY <1>1, <1>2 DEF Stays, SameLocals, Handed, Repairing, SlotPoint, NoLane
  <1>3. CASE Resets(e)
    BY <1>3 DEF Resets, Handed
  <1>4. CASE PicksUp(e) \/ Claims(e)
    BY <1>1, <1>4 DEF PicksUp, Claims, Handed, SlotPoint
  <1>5. CASE Begins(e)
    <2>1. estep[e] \in Steps /\ estep'[e] = estep[e]
      BY <1>1, <1>5 DEF Begins, SlotPoint, SameLocals
    <2>2. executingAt'[estep[e]]
      BY <1>5, <2>1 DEF Begins, markExecuting, Inv, DbTypeOK
    <2> QED
      BY <2>1, <2>2 DEF Handed
  <1>6. CASE Proceeds(e) \/ Succeeds(e)
    <2>1. /\ estep[e] \in Steps /\ SameLocals(e)
          /\ pc'[e] = "repair" \/ pc[e] \notin {"idle", "claim", "gate"} \cup Repairing
      BY <1>1, <1>6 DEF Proceeds, Succeeds, Edge, SlotPoint, Repairing
    <2> QED
      BY <1>1, <2>1 DEF Handed, SameLocals, Repairing
  <1>7. CASE Leaves(e)
    <2>1. CASE Running(e) /\ estep'[e] = estep[e] /\ slot'[e] = slot[e]
      <3>1. slot[e] # NoLane
        BY <2>1 DEF Running, NoLane, LaneOff
      <3>2. estep[e] \in Steps
        BY <1>1, <3>1 DEF SlotPoint, Repairing
      <3> QED
        BY <1>1, <2>1, <3>1, <3>2 DEF Handed
    <2> QED
      BY <1>3, <1>7, <2>1 DEF Leaves
  <1>8. CASE StartWave(e) \/ JoinWave(e)
    <2>1. /\ pc[e] \in {"wave", "inflight"} /\ estep'[e] = estep[e]
      BY <1>8 DEF StartWave, JoinWave
    <2>2. estep[e] \in Steps
      BY <1>1, <2>1 DEF SlotPoint
    <2> QED
      BY <1>1, <2>1, <2>2 DEF Handed, Repairing
  <1>9. CASE Repairs(e)
    BY <1>1, <1>9 DEF Repairs, Handed, Repairing, SlotPoint
  <1>10. CASE RepairDerive(e)
    <2>1. pc[e] = "repairRows" /\ pc'[e] = "repairWrite" /\ UNCHANGED <<estep, slot>>
      BY <1>1, <1>10, Zenon DEF RepairDerive, SlotTypeOK
    <2> QED
      BY <1>1, <2>1 DEF Handed, Repairing, SlotPoint
  <1>11. ASSUME NEW i \in Lanes, Invoke(e, i) \/ RecordAttempt(e, i) \/ InvocationThrows(e, i)
         PROVE  Handed(e)'
    <2>1. PICK l \in Lane, n \in {0, 1} : LaneMove(e, i, l, n)
      BY <1>11, LaneMoves
    <2>2. estep'[e] = estep[e] /\ slot[e][i].at # "off"
      BY <2>1 DEF LaneMove
    <2>3. slot[e] # NoLane
      BY <2>2 DEF NoLane, LaneOff
    <2>4. estep[e] \in Steps
      BY <1>1, <2>3 DEF SlotPoint, Repairing
    <2> QED
      BY <1>1, <2>2, <2>3, <2>4 DEF Handed
  <1> QED
    BY <1>2, <1>3, <1>4, <1>5, <1>6, <1>7, <1>8, <1>9, <1>10, <1>11, StepCases DEF SlotMove

\* An invocation is recorded only of a step marked executing, knowledge only with a
\* terminal state, and a mutating step that is pending was never claimed.
LEMMA RowSentStep ==
  ASSUME KnowledgeInv, StepFacts
  PROVE  RowSent'
  <1> USE DEF KnowledgeInv, CountInv
  <1> SUFFICES ASSUME NEW s \in Steps
               PROVE  /\ invocations'[s] # {} => executingAt'[s]
                      /\ sideEffectKnowledge'[s] # "null" => state'[s] \in StepTerminal
                      /\ s \in Mutating /\ state'[s] = "PENDING" => fencingToken'[s] = 0
    BY DEF RowSent
  <1>1. RowForward(s)
    BY StepCases
  <1>2. invocations'[s] # invocations[s] => executingAt[s]
    <2> SUFFICES ASSUME invocations'[s] # invocations[s] PROVE executingAt[s]
      OBVIOUS
    <2>1. PICK e \in Execs, i \in Lanes : estep[e] = s /\ slot[e][i].at = "record"
      BY DEF StepFacts, RowCause
    <2>2. slot[e] # NoLane
      BY <2>1 DEF NoLane, LaneOff
    <2> QED
      BY <2>1, <2>2 DEF Handed
  <1> QED
    BY <1>1, <1>2 DEF RowSent, RowForward

\* The aggregate of a wave is harmless only if every part of it is.
LEMMA WorstHarmless ==
  ASSUME NEW K \in SUBSET Knowledge, K # {}, WorstOf(K) \in Harmless
  PROVE  K \subseteq Harmless
  <1>1. \A j \in K : KnowledgeRank(WorstOf(K)) >= KnowledgeRank(j)
    BY WorstOfFacts
  <1> QED
    BY <1>1 DEF KnowledgeRank, Knowledge, Harmless

\* A generation that has seen only absence has caused nothing.
LEMMA AbsentSoundStep ==
  ASSUME KnowledgeInv, StepFacts, ExecInv', NEW e \in Execs
  PROVE  AbsentSound(e)'
  <1> USE DEF KnowledgeInv, CountInv, ExecInv, ExecTypeOK
  <1> SUFFICES ASSUME FirstClaim(e)', pc'[e] \in {"wave", "inflight", "terminal"}, Clean(e)'
               PROVE  effects'[estep'[e]] = 0
    BY DEF AbsentSound
  <1>1. SlotTypeOK /\ LaneTypeOK /\ SlotPoint(e) /\ SlotPoint(e)' /\ AbsentSound(e) /\ Spent(e)
    BY DEF SlotsCounted
  <1>2. estep'[e] = estep[e] /\ etok'[e] = etok[e]
    <2>1. ~Claims(e)
      BY DEF Claims
    <2> QED
      BY <2>1, TokenMove DEF FirstClaim
  <1>3. estep[e] \in Steps /\ estep[e] \in Mutating /\ FirstClaim(e)
    <2>1. estep[e] \in Steps /\ estep[e] \in Mutating
      BY <1>2, StepsAssumption DEF FirstClaim
    <2>2. RowForward(estep[e]) /\ fencingToken[estep[e]] \in Nat
      BY <2>1, StepCases DEF Inv, DbTypeOK
    <2> QED
      BY <1>2, <2>1, <2>2 DEF FirstClaim, RowForward
  <1>4. ASSUME effects'[estep[e]] # effects[estep[e]]
        PROVE  /\ slot[e] # NoLane
               /\ \E i \in Lanes : Invoke(e, i)
    <2>1. PICK f \in Execs, i \in Lanes : estep[f] = estep[e] /\ Invoke(f, i)
      BY <1>3, <1>4, EffectSteps
    <2>2. f = e
      BY <1>3, <2>1, InvokeFrame, OneHolder DEF FirstClaim
    <2>3. slot[e][i].at = "prepare"
      BY <2>1, <2>2, InvokeFrame
    <2> QED
      BY <2>1, <2>2, <2>3 DEF NoLane, LaneOff
  <1>5. CASE Stays(e)
    <2>1. ~\E i \in Lanes : Invoke(e, i)
      <3> SUFFICES ASSUME NEW i \in Lanes, Invoke(e, i) PROVE FALSE
        OBVIOUS
      <3>1. PICK l \in Lane, n \in {0, 1} : /\ l.at = "record" /\ slot[e][i].at = "prepare"
                                            /\ slot' = [slot EXCEPT ![e] = [@ EXCEPT ![i] = l]]
        BY <1>1, <1>3, InvokeFacts
      <3>2. slot'[e][i] = l
        BY <1>1, <3>1 DEF LaneTypeOK
      <3> QED
        BY <1>5, <3>1, <3>2 DEF Stays, SameLocals
    <2>2. Clean(e) /\ pc[e] \in {"wave", "inflight", "terminal"}
      BY <1>5 DEF Stays, SameLocals, Clean
    <2> QED
      BY <1>1, <1>2, <1>3, <1>4, <2>1, <2>2 DEF AbsentSound
  <1>6. CASE pc[e] \in {"precheck", "arm"} /\ pc'[e] = "wave" /\ SameLocals(e)
    <2>1. slot[e] = NoLane
      BY <1>1, <1>6 DEF SlotPoint, Repairing
    <2> QED
      BY <1>1, <1>2, <1>3, <1>4, <1>6, <2>1 DEF Spent
  <1>7. CASE StartWave(e)
    <2>1. pc[e] = "wave" /\ agg' = agg /\ effects' = effects
      BY <1>7 DEF StartWave
    <2>2. slot[e] = NoLane
      BY <1>1, <2>1 DEF SlotPoint, Repairing
    <2>3. Clean(e)
      BY <2>1, <2>2 DEF Clean, NoLane, LaneOff
    <2> QED
      BY <1>1, <1>2, <1>3, <2>1, <2>3 DEF AbsentSound
  <1>8. CASE JoinWave(e)
    <2> DEFINE K == {agg[e]} \cup {slot[e][i].knowledge : i \in Started(e)}
    <2>1. pc[e] = "inflight" /\ agg'[e] = WorstOf(K) /\ effects' = effects
      BY <1>1, <1>8 DEF JoinWave, SlotTypeOK
    <2>2. K \in SUBSET Knowledge /\ K # {}
      BY <1>1 DEF SlotTypeOK, LaneTypeOK, Lane, Started
    <2>3. WorstOf(K) \in Harmless
      BY <2>1 DEF Clean
    <2>4. K \subseteq Harmless
      <3> HIDE DEF K
      <3> QED
        BY <2>2, <2>3, WorstHarmless
    <2>5. Clean(e)
      BY <2>4 DEF Clean, Started
    <2> QED
      BY <1>1, <1>2, <1>3, <2>1, <2>5 DEF AbsentSound
  <1>9. ASSUME NEW i \in Lanes, NEW l \in Lane, NEW n \in {0, 1}, LaneMove(e, i, l, n), pc'[e] = pc[e]
        PROVE  effects'[estep'[e]] = 0
    <2>1. /\ slot'[e][i] = l /\ \A j \in Lanes \ {i} : slot'[e][j] = slot[e][j]
          /\ agg' = agg /\ effects'[estep[e]] = effects[estep[e]] + n
      BY <1>1, <1>3, <1>9 DEF LaneMove, LaneTypeOK, CountTypeOK
    <2>2. pc[e] = "inflight"
      <3>1. slot[e][i].at # "off"
        BY <1>9 DEF LaneMove
      <3>2. slot[e] # NoLane
        BY <3>1 DEF NoLane, LaneOff
      <3> QED
        BY <1>1, <1>9, <3>2 DEF SlotPoint, Repairing
    <2>3. \/ /\ slot[e][i].at = "prepare" /\ l.at = "record"
             /\ n = 1 => l.knowledge # "KNOWN_ABSENT"
             /\ l.knowledge \in {"KNOWN_ABSENT", "KNOWN_OCCURRED", "INDETERMINATE"}
          \/ /\ slot[e][i].at = "record" /\ n = 0
             /\ \/ l.at = "done" /\ l.knowledge = slot[e][i].knowledge
                \/ slot[e][i].knowledge = "KNOWN_ABSENT"
      BY <1>3, <1>9, <2>2 DEF LaneMove
    <2>4. n = 0 /\ Clean(e)
      BY <2>1, <2>3 DEF Clean, Harmless
    <2>5. effects[estep[e]] = 0
      BY <1>1, <1>3, <2>2, <2>4 DEF AbsentSound
    <2> QED
      BY <1>2, <2>1, <2>4, <2>5
  <1> QED
    BY <1>5, <1>6, <1>7, <1>8, <1>9, WaveMoves

\* What the invariants about knowledge say of the first state ...
LEMMA KnowledgeInit == Init => KnowledgeInv /\ Settled /\ \A e \in Execs : RepairSound(e)
  <1> SUFFICES ASSUME Init PROVE KnowledgeInv /\ Settled /\ \A e \in Execs : RepairSound(e)
    OBVIOUS
  <1>1. CountInv
    BY CountInit
  <1>2. RowSent
    BY DEF Init, DbInit, RowSent
  <1>3. \A e \in Execs : AbsentSound(e) /\ Handed(e) /\ RepairSound(e)
    BY DEF Init, AbsentSound, FirstClaim, Handed, NoLane, RepairSound
  <1>4. Settled
    BY StepsAssumption DEF Init, DbInit, Settled, Absent
  <1> QED
    BY <1>1, <1>2, <1>3, <1>4 DEF KnowledgeInv

\* ... and of every step.
LEMMA KnowledgeStep == KnowledgeInv /\ [Next]_vars => KnowledgeInv'
  <1> SUFFICES ASSUME KnowledgeInv, [Next]_vars PROVE KnowledgeInv'
    OBVIOUS
  <1>1. StepFacts /\ ExecInv' /\ CountInv'
    BY NextFacts, ExecStepInv, CountStepInv DEF KnowledgeInv, CountInv
  <1>2. \A e \in Execs : AbsentSound(e)' /\ Handed(e)'
    BY <1>1, AbsentSoundStep, HandedStep
  <1> QED
    BY <1>1, <1>2, RowSentStep DEF KnowledgeInv

-----------------------------------------------------------------------------
(* Faults *)

\* Faults are counted up, and dead workers stay dead.
LEMMA AgeStep ==
  ASSUME ExecInv, [Next]_vars
  PROVE  /\ faults' = faults \/ \E k \in FaultKind : Spend(k)
         /\ \A k \in FaultKind : faults[k] <= faults'[k]
         /\ alive' = alive \/ \E o \in Owners : Crash(o)
         /\ \A o \in Owners : alive'[o] => alive[o]
  <1>1. faults' = faults \/ \E k \in FaultKind : Spend(k)
    <2>1. CASE UNCHANGED vars
      BY <2>1 DEF vars
    <2>2. ASSUME NEW r \in Runs, ApiMove(r) PROVE faults' = faults \/ Spend("apiCrash")
      BY <2>2 DEF ApiMove, DispatchStep, DispatchRequest, DispatchMark, DispatchQuery,
        DispatchEnqueue, DispatchMarker, DispatchDies, CancelRead, CancelWrite, apiRest
    <2>3. CASE QueueMove
      BY <2>3 DEF QueueMove, JobStalls, JobEvicted, RedisDown, RedisRecovers, RedisDataLoss, FaultKind
    <2>4. ASSUME NEW o \in Owners, SweepStep(o) PROVE faults' = faults
      BY <2>4 DEF SweepStep, SweepBegin, SweepMark, SweepDiscover, SweepSettle, SweepFindExpired,
        SweepEnd, SweepEnqueue, SweepResolve, sweepRest
    <2>5. ASSUME NEW o \in Owners, HeartbeatTick(o) \/ Crash(o) PROVE faults' = faults \/ Spend("crash")
      BY <2>5 DEF HeartbeatTick, Crash
    <2>6. ASSUME NEW s \in Steps, LeaseRunsOut(s) PROVE faults' = faults \/ Spend("expiry")
      BY <2>6 DEF LeaseRunsOut
    <2>7. ASSUME NEW e \in Execs, SlotStep(e) PROVE faults' = faults \/ Spend("throw")
      <3>1. ASSUME NEW i \in Lanes, LaneStep(e, i) PROVE faults' = faults
        BY <3>1, Zenon DEF LaneStep, Invoke, RecordAttempt
      <3>2. ASSUME NEW i \in Lanes, InvocationThrows(e, i) PROVE Spend("throw")
        BY <3>2 DEF InvocationThrows
      <3>3. CASE ProcessThrows(e) \/ RepairFails(e)
        BY <3>3 DEF ProcessThrows, RepairFails
      <3>4. ASSUME NEW s \in Steps, Deliver(e, s) PROVE faults' = faults
        BY <3>4 DEF Deliver
      <3>5. ASSUME ExecStep(e) PROVE faults' = faults
        BY <3>5, Zenon DEF ExecStep, Claim, DenyExecution, MarkExecuting, CancelStop, PassPrecheck,
          ArmFault, StartWave, JoinWave, WriteOutcome, ChainRead, ChainPromote, ChainEnqueue,
          ChainMark, RepairLoad, RepairDerive, RepairWrite, OrphansEnd
      <3> QED
        BY <2>7, <3>1, <3>2, <3>3, <3>4, <3>5 DEF SlotStep
    <2> QED
      BY <2>1, <2>2, <2>3, <2>4, <2>5, <2>6, <2>7, NextCases DEF FaultKind
  <1>2. \A k \in FaultKind : faults[k] <= faults'[k]
    BY <1>1 DEF Spend, ExecInv, ExecTypeOK, CountTypeOK
  <1>3. alive' = alive \/ \E o \in Owners : Crash(o)
    <2> USE DEF execRest
    <2>1. CASE UNCHANGED vars
      BY <2>1 DEF vars
    <2>2. ASSUME NEW r \in Runs, ApiMove(r) PROVE alive' = alive
      BY <2>2 DEF ApiMove, DispatchStep, DispatchRequest, DispatchMark, DispatchQuery,
        DispatchEnqueue, DispatchMarker, DispatchDies, CancelRead, CancelWrite, apiRest
    <2>3. QueueMove => alive' = alive
      BY DEF QueueMove, JobStalls, JobEvicted, RedisDown, RedisRecovers, RedisDataLoss
    <2>4. ASSUME NEW o \in Owners, SweepStep(o) PROVE alive' = alive
      BY <2>4 DEF SweepStep, SweepBegin, SweepMark, SweepDiscover, SweepSettle, SweepFindExpired,
        SweepEnd, SweepEnqueue, SweepResolve, sweepRest
    <2>5. ASSUME NEW o \in Owners, HeartbeatTick(o) PROVE alive' = alive
      BY <2>5 DEF HeartbeatTick
    <2>6. ASSUME NEW s \in Steps, LeaseRunsOut(s) PROVE alive' = alive
      BY <2>6 DEF LeaseRunsOut
    <2>7. ASSUME NEW e \in Execs, SlotStep(e) PROVE alive' = alive
      <3>1. ASSUME NEW i \in Lanes, LaneStep(e, i) \/ InvocationThrows(e, i) PROVE alive' = alive
        BY <3>1, Zenon DEF LaneStep, Invoke, RecordAttempt, InvocationThrows
      <3>2. ASSUME ExecStep(e) PROVE alive' = alive
        BY <3>2, Zenon DEF ExecStep, Claim, DenyExecution, MarkExecuting, CancelStop, PassPrecheck,
          ArmFault, StartWave, JoinWave, WriteOutcome, ChainRead, ChainPromote, ChainEnqueue,
          ChainMark, RepairLoad, RepairDerive, RepairWrite, OrphansEnd
      <3>3. CASE ProcessThrows(e) \/ RepairFails(e)
        BY <3>3 DEF ProcessThrows, RepairFails
      <3>4. ASSUME NEW s \in Steps, Deliver(e, s) PROVE alive' = alive
        BY <3>4 DEF Deliver
      <3> QED
        BY <2>7, <3>1, <3>2, <3>3, <3>4 DEF SlotStep
    <2> QED
      BY <2>1, <2>2, <2>3, <2>4, <2>5, <2>6, <2>7, NextCases
  <1>4. \A o \in Owners : Crash(o) => \A w \in Owners : alive'[w] => alive[w]
    BY DEF Crash, ExecInv, ExecTypeOK, WorkerTypeOK
  <1> QED
    BY <1>1, <1>2, <1>3, <1>4

\* A kind of fault that has not happened after a step had not happened before, nor in it.
LEMMA NeverBefore ==
  ASSUME ExecInv, [Next]_vars, NEW K \in SUBSET FaultKind, Never(K)'
  PROVE  Never(K) /\ \A k \in K : ~Spend(k)
  <1>1. \A k \in K : faults'[k] = 0
    BY DEF Never
  <1>2. \A k \in FaultKind : faults[k] <= faults'[k] /\ faults[k] \in Nat
    BY AgeStep DEF ExecInv, ExecTypeOK, CountTypeOK
  <1>3. \A k \in FaultKind : Spend(k) => faults'[k] = faults[k] + 1
    BY DEF Spend, ExecInv, ExecTypeOK, CountTypeOK
  <1> QED
    BY <1>1, <1>2, <1>3 DEF Never

-----------------------------------------------------------------------------
(***************************************************************************)
(* Job locks.  Unless a living worker loses the lock of its job, by a      *)
(* stall or with Redis's data, a slot holds the lock of the step it works  *)
(* on, so that no two slots work on one step.                              *)
(***************************************************************************)
Working(e) == pc[e] \notin {"idle", "orphaned"}

HoldLocks ==
  \A e \in Execs : Working(e) => /\ holder[estep[e]] = e /\ job[estep[e]] = "active"
                                 /\ alive[OwnerOf[e]]

\* A step that takes no job away from the slot that works on it.
KeepsLocks ==
  /\ \A s \in Steps : job[s] = "active" => job'[s] = "active" /\ holder'[s] = holder[s]
  /\ \A e \in Execs : Working(e)' => Working(e) /\ estep'[e] = estep[e] /\ alive'[OwnerOf[e]] = alive[OwnerOf[e]]

\* No step of the API, the sweep, the heartbeat or the database clock does; nor does a crash.
LEMMA LocksOutside ==
  ASSUME ExecInv
  PROVE  /\ \A r \in Runs : ApiMove(r) => KeepsLocks
         /\ \A o \in Owners : SweepStep(o) \/ HeartbeatTick(o) \/ Crash(o) => KeepsLocks
         /\ \A s \in Steps : LeaseRunsOut(s) => KeepsLocks
  <1>1. ASSUME UNCHANGED <<pc, estep, alive, holder>>,
               job' = job \/ \E s \in Steps : Enqueue(s)
        PROVE  KeepsLocks
    BY <1>1 DEF KeepsLocks, Working, Enqueue, ExecInv, ExecTypeOK, QueueTypeOK
  <1>2. ASSUME NEW r \in Runs, ApiMove(r) PROVE KeepsLocks
    <2>1. dset[r] \subseteq Steps
      BY DEF ExecInv, DispatchedOnly, StepsOf
    <2>2. UNCHANGED <<pc, estep, alive, holder>>
      BY <1>2 DEF ApiMove, DispatchStep, DispatchRequest, DispatchMark, DispatchQuery,
        DispatchEnqueue, DispatchMarker, DispatchDies, CancelRead, CancelWrite, apiRest, queueVars,
        execVars, Enqueue
    <2>3. job' = job \/ \E s \in Steps : Enqueue(s)
      BY <1>2, <2>1 DEF ApiMove, DispatchStep, DispatchRequest, DispatchMark, DispatchQuery,
        DispatchEnqueue, DispatchMarker, DispatchDies, CancelRead, CancelWrite, queueVars
    <2> QED
      BY <1>1, <2>2, <2>3
  <1>3. ASSUME NEW o \in Owners, SweepStep(o) PROVE KeepsLocks
    <2>1. UNCHANGED <<pc, estep, alive, holder>>
      BY <1>3 DEF SweepStep, SweepBegin, SweepMark, SweepDiscover, SweepSettle, SweepFindExpired,
        SweepEnd, SweepEnqueue, SweepResolve, sweepRest, queueVars, execVars, Enqueue
    <2>2. job' = job \/ \E s \in Steps : Enqueue(s)
      BY <1>3 DEF SweepStep, SweepBegin, SweepMark, SweepDiscover, SweepSettle, SweepFindExpired,
        SweepEnd, SweepEnqueue, SweepResolve, queueVars
    <2> QED
      BY <1>1, <2>1, <2>2
  <1>4. ASSUME NEW o \in Owners, HeartbeatTick(o) PROVE KeepsLocks
    BY <1>1, <1>4 DEF HeartbeatTick, queueVars, execVars
  <1>5. ASSUME NEW o \in Owners, Crash(o) PROVE KeepsLocks
    BY <1>5, ExecutionAssumption DEF Crash, KeepsLocks, Working, queueVars, ExecInv, ExecTypeOK,
      SlotTypeOK, WorkerTypeOK
  <1>6. ASSUME NEW s \in Steps, LeaseRunsOut(s) PROVE KeepsLocks
    BY <1>1, <1>6 DEF LeaseRunsOut, queueVars, execVars
  <1> QED
    BY <1>2, <1>3, <1>4, <1>5, <1>6

\* A slot keeps its lock until it leaves its step.
LEMMA LocksOfSlot ==
  ASSUME ExecInv, NEW e \in Execs, SlotStep(e)
  PROVE  KeepsLocks \/ (Working(e) /\ Leave(e) /\ alive' = alive) \/ \E s \in Steps : Deliver(e, s)
  <1> USE DEF ExecInv, ExecTypeOK
  <1>1. SlotTypeOK /\ QueueTypeOK /\ SlotPoint(e)
    OBVIOUS
  <1>2. ASSUME UNCHANGED <<alive, estep, holder>>, job' = job \/ \E s \in Steps : Enqueue(s),
               NEW q \in ControlPoint, pc' = [pc EXCEPT ![e] = q],
               Working(e) \/ q \in {"idle", "orphaned"}
        PROVE  KeepsLocks
    BY <1>1, <1>2 DEF KeepsLocks, Working, Enqueue, SlotTypeOK, QueueTypeOK
  <1>3. ASSUME UNCHANGED <<alive, estep, holder, job, pc>> PROVE KeepsLocks
    BY <1>3 DEF KeepsLocks, Working
  <1> USE DEF queueVars, execVars, execRest, ControlPoint, Repairing, Working
  <1>4. CASE Claim(e) \/ DenyExecution(e) \/ MarkExecuting(e) \/ CancelStop(e)
    BY <1>2, <1>4 DEF Claim, DenyExecution, MarkExecuting, CancelStop
  <1>5. CASE PassPrecheck(e) \/ ArmFault(e) \/ ProcessThrows(e)
    BY <1>2, <1>5 DEF PassPrecheck, ArmFault, ProcessThrows
  <1>6. CASE StartWave(e) \/ JoinWave(e)
    BY <1>2, <1>6 DEF StartWave, JoinWave
  <1>7. CASE WriteOutcome(e)
    BY <1>2, <1>7 DEF WriteOutcome
  <1>8. CASE ChainRead(e) \/ ChainPromote(e) \/ ChainMark(e)
    BY <1>2, <1>8 DEF ChainRead, ChainPromote, ChainMark
  <1>9. CASE ChainEnqueue(e)
    <2>1. CASE Leave(e)
      BY <1>9, <2>1 DEF ChainEnqueue
    <2>2. ASSUME NEW n \in NextStep(estep[e]), Enqueue(n), pc' = [pc EXCEPT ![e] = "chainMark"],
                 UNCHANGED <<dbVars, estep, etok, wave, agg, ok, rtok, slot, hbVars>>
          PROVE  KeepsLocks
      <3>1. n \in Steps /\ UNCHANGED <<alive, holder>> /\ pc[e] = "chainEnqueue"
        BY <1>9, <2>2 DEF ChainEnqueue, NextStep, StepsOf, Enqueue
      <3> QED
        BY <1>2, <2>2, <3>1
    <2> QED
      BY <1>9, <2>1, <2>2 DEF ChainEnqueue
  <1>10. CASE RepairLoad(e) \/ RepairWrite(e) \/ RepairFails(e)
    BY <1>2, <1>10 DEF RepairLoad, RepairWrite, RepairFails
  <1>11. CASE RepairDerive(e)
    <2>1. /\ pc[e] = "repairRows" /\ pc' = [pc EXCEPT ![e] = "repairWrite"]
          /\ UNCHANGED <<queueVars, execRest, estep>>
      BY <1>11, Zenon DEF RepairDerive
    <2> QED
      BY <1>2, <2>1
  <1>12. CASE OrphansEnd(e)
    BY <1>1, <1>12 DEF OrphansEnd, KeepsLocks, SlotTypeOK
  <1>13. ASSUME NEW i \in Lanes, LaneStep(e, i) PROVE KeepsLocks
    <2>1. UNCHANGED <<queueVars, execRest, execVars>>
      BY <1>13, Zenon DEF LaneStep, Invoke, RecordAttempt
    <2> QED
      BY <1>3, <2>1
  <1>14. ASSUME NEW i \in Lanes, InvocationThrows(e, i) PROVE KeepsLocks
    <2>1. CASE pc[e] = "inflight"
      BY <1>2, <1>14, <2>1 DEF InvocationThrows
    <2>2. CASE pc[e] # "inflight"
      BY <1>3, <1>14, <2>2 DEF InvocationThrows
    <2> QED
      BY <2>1, <2>2
  <1> QED
    BY <1>4, <1>5, <1>6, <1>7, <1>8, <1>9, <1>10, <1>11, <1>12, <1>13, <1>14 DEF SlotStep, ExecStep

\* While living workers keep their locks, a working slot keeps its own.
LEMMA LockStep ==
  ASSUME ~Spend("stall"), ~Spend("loss"), ExecInv, HoldLocks, [Next]_vars
  PROVE  HoldLocks'
  <1> USE DEF ExecInv, ExecTypeOK
  <1>1. SlotTypeOK /\ QueueTypeOK /\ \A e \in Execs : SlotPoint(e)
    OBVIOUS
  <1>2. \A e \in Execs : Working(e) => estep[e] \in Steps
    BY <1>1 DEF SlotPoint, Working
  <1>3. ASSUME KeepsLocks PROVE HoldLocks'
    BY <1>2, <1>3 DEF HoldLocks, KeepsLocks
  <1>4. CASE UNCHANGED vars
    BY <1>3, <1>4 DEF vars, queueVars, execVars, KeepsLocks, Working
  <1>5. CASE QueueMove
    <2> SUFFICES ASSUME NEW e \in Execs, Working(e)'
                 PROVE  holder'[estep'[e]] = e /\ job'[estep'[e]] = "active" /\ alive'[OwnerOf[e]]
      BY DEF HoldLocks
    <2>1. UNCHANGED <<pc, estep, alive>>
      BY <1>5 DEF QueueMove, JobStalls, JobEvicted, RedisDown, RedisRecovers, RedisDataLoss, execVars
    <2>2. /\ Working(e) /\ estep[e] \in Steps /\ holder[estep[e]] = e /\ e # NoExec
          /\ job[estep[e]] = "active" /\ alive[OwnerOf[e]]
      BY <1>2, <2>1, NamesAssumption DEF Working, HoldLocks
    <2>3. ~RedisDataLoss /\ ~JobStalls(estep[e])
      BY <2>2 DEF RedisDataLoss, JobStalls
    <2>5. job'[estep[e]] = job[estep[e]] /\ holder'[estep[e]] = holder[estep[e]]
      BY <1>1, <1>5, <2>2, <2>3 DEF QueueMove, JobStalls, JobEvicted, RedisDown, RedisRecovers,
        QueueTypeOK
    <2> QED
      BY <2>1, <2>2, <2>5
  <1>6. ASSUME NEW e \in Execs, SlotStep(e) PROVE HoldLocks'
    <2>1. CASE Working(e) /\ Leave(e) /\ alive' = alive
      <3>1. estep[e] \in Steps /\ holder[estep[e]] = e
        BY <1>2, <2>1 DEF HoldLocks
      <3>2. /\ pc'[e] \in {"idle", "orphaned"}
            /\ \A f \in Execs \ {e} : pc'[f] = pc[f] /\ estep'[f] = estep[f]
            /\ \A s \in Steps \ {estep[e]} : job'[s] = job[s] /\ holder'[s] = holder[s]
        BY <1>1, <2>1, <3>1 DEF Leave, FinishJob, SlotTypeOK, QueueTypeOK
      <3>3. \A f \in Execs \ {e} : Working(f) => estep[f] # estep[e]
        BY <3>1 DEF HoldLocks
      <3> QED
        BY <1>2, <2>1, <3>1, <3>2, <3>3 DEF HoldLocks, Working
    <2>2. ASSUME NEW s \in Steps, Deliver(e, s) PROVE HoldLocks'
      <3>1. /\ pc'[e] = "claim" /\ estep'[e] = s /\ alive[OwnerOf[e]] /\ alive' = alive
            /\ \A f \in Execs \ {e} : pc'[f] = pc[f] /\ estep'[f] = estep[f]
            /\ job[s] = "waiting" /\ job'[s] = "active" /\ holder'[s] = e
            /\ \A p \in Steps \ {s} : job'[p] = job[p] /\ holder'[p] = holder[p]
        BY <1>1, <2>2 DEF Deliver, SlotTypeOK, QueueTypeOK
      <3> QED
        BY <1>2, <3>1 DEF HoldLocks, Working
    <2> QED
      BY <1>3, <1>6, <2>1, <2>2, LocksOfSlot
  <1> QED
    BY <1>3, <1>4, <1>5, <1>6, LocksOutside, NextCases

-----------------------------------------------------------------------------
(***************************************************************************)
(* KNOWN_ABSENT.  The emergency path compares the owner of the row with    *)
(* the name of its worker process, which all job slots of a process share. *)
(* It needs that no other slot of its process works on the step: each      *)
(* process has one slot, or living workers keep the locks of their jobs.   *)
(***************************************************************************)
NoTwin == OneSlotPerWorker \/ LocksKept

AbsentInv ==
  /\ KnowledgeInv
  /\ NoTwin => Settled /\ \A e \in Execs : RepairSound(e)
  /\ LocksKept => HoldLocks

\* While the emergency path still owns the step, what it read is what the row says.
LEMMA RepairSoundStep ==
  ASSUME NoTwin, AbsentInv, StepFacts, NEW e \in Execs
  PROVE  RepairSound(e)'
  <1> USE DEF AbsentInv, KnowledgeInv, CountInv, ExecInv, ExecTypeOK
  <1> SUFFICES ASSUME pc'[e] \in {"repairRows", "repairWrite"} PROVE RepairSound(e)'
    BY DEF RepairSound
  <1>1. SlotTypeOK /\ SlotPoint(e) /\ SlotToken(e) /\ RepairSound(e)
    OBVIOUS
  <1>2. ASSUME pc'[e] = pc[e] \/ RepairDerive(e), estep'[e] = estep[e], rtok'[e] = rtok[e],
               pc[e] \in {"repairRows", "repairWrite"}
        PROVE  /\ estep[e] \in Steps /\ (Held(e)' => Held(e))
               /\ pc[e] = "repairRows" /\ Held(e)' => (executingAt'[estep[e]] => executingAt[estep[e]])
    <2> DEFINE s == estep[e]
    <2>1. s \in Steps
      BY <1>1, <1>2 DEF SlotPoint
    <2>2. RowForward(s) /\ fencingToken[s] \in Nat /\ rtok[e] \in 1 .. fencingToken[s]
      BY <1>1, <1>2, <2>1, StepCases DEF SlotToken, Inv, DbTypeOK
    <2>3. Held(e)' => Held(e)
      BY <1>2, <2>2 DEF Held, Owns, RowForward
    <2>4. ASSUME Held(e), executingAt'[s] # executingAt[s] PROVE pc[e] = "gate"
      <3>1. PICK f \in Execs : estep[f] = s /\ pc[f] = "gate" /\ Owns(s, OwnerOf[f], etok[f])
        BY <2>1, <2>4 DEF StepFacts, RowCause
      <3>2. OwnerOf[f] = OwnerOf[e]
        BY <2>4, <3>1 DEF Held, Owns
      <3>3. LocksKept => holder[s] = e /\ holder[s] = f
        BY <1>2, <3>1 DEF HoldLocks, Working
      <3> QED
        BY <3>1, <3>2, <3>3 DEF NoTwin, OneSlotPerWorker
    <2> QED
      BY <2>1, <2>3, <2>4
  <1>3. CASE Repairs(e)
    <2>1. /\ estep[e] \in Steps /\ UNCHANGED executingAt
          /\ estep'[e] = estep[e] /\ ok'[e] = ~executingAt[estep[e]] /\ pc'[e] = "repairRows"
      BY <1>1, <1>3 DEF Repairs, SlotPoint, dbVars, stepVars
    <2> QED
      BY <2>1 DEF RepairSound
  <1>4. CASE RepairDerive(e)
    <2> DEFINE s == estep[e]
               k == deriveEmergencyStepTruth(s \in Mutating, invocations[s], ok[e])
    <2>1. /\ pc[e] = "repairRows" /\ pc'[e] = "repairWrite"
          /\ UNCHANGED <<estep, rtok, ok, dbVars>>
      BY <1>1, <1>4, Zenon DEF RepairDerive, SlotTypeOK
    <2>2. agg'[e] = k
      <3>1. agg' = [agg EXCEPT ![e] = k]
        BY <1>4, Zenon DEF RepairDerive
      <3> QED
        BY <1>1, <3>1, Zenon DEF SlotTypeOK
    <2>3. s \in Steps /\ (Held(e)' => Held(e))
      BY <1>2, <1>4, <2>1
    <2>4. ASSUME s \in Mutating, k = "KNOWN_ABSENT" PROVE ok[e] /\ invocations[s] # {}
      <3>1. invocations[s] \in SUBSET Knowledge /\ ok[e] \in BOOLEAN
        BY <1>1, <2>3 DEF SlotTypeOK, Inv, DbTypeOK
      <3>2. deriveEmergencyStepTruth(TRUE, invocations[s], ok[e]) = "KNOWN_ABSENT"
        BY <2>4, Zenon
      <3> QED
        BY <3>1, <3>2, EmergencyConservative
    <2>5. s \in Mutating /\ k = "KNOWN_ABSENT" => ~Held(e)
      BY <1>1, <2>1, <2>3, <2>4 DEF RepairSound, RowSent
    <2> HIDE DEF k
    <2> QED
      BY <2>1, <2>2, <2>3, <2>5 DEF RepairSound
  <1>5. CASE /\ pc'[e] = pc[e] /\ estep'[e] = estep[e]
             /\ rtok'[e] = rtok[e] /\ ok'[e] = ok[e] /\ agg'[e] = agg[e]
    BY <1>1, <1>2, <1>5 DEF RepairSound
  <1> QED
    BY <1>3, <1>4, <1>5, RepairMoves

\* What is left of a step when a first claim writes KNOWN_ABSENT.
LEMMA AbsentWritten ==
  ASSUME NoTwin, AbsentInv, StepFacts, ExecInv', NEW e \in Execs, estep[e] \in Mutating,
         fencingToken[estep[e]] <= 1, state[estep[e]] \in Active, MayWriteAbsent(e), Leaves(e)
  PROVE  /\ effects[estep[e]] = 0 /\ Resets(e)
         /\ \A f \in Execs : estep[f] = estep[e] /\ etok[f] > 0 => f = e
         /\ slot[e] = NoLane
  <1> USE DEF AbsentInv, KnowledgeInv, CountInv, ExecInv, ExecTypeOK
  <1>1. ~(Owns(estep[e], OwnerOf[e], rtok[e]) /\ pc[e] = "repairWrite" /\ agg[e] = "KNOWN_ABSENT")
    BY DEF RepairSound, Held
  <1>2. /\ etok[e] > 0
        /\ \/ pc[e] \in {"gate", "precheck", "arm"}
           \/ pc[e] = "wave" /\ wave[e] = 0
           \/ pc[e] = "terminal" /\ agg[e] = "KNOWN_ABSENT"
    BY <1>1 DEF MayWriteAbsent
  <1>3. FirstClaim(e) /\ SlotPoint(e) /\ AbsentSound(e) /\ Spent(e)
    BY <1>2 DEF FirstClaim, SlotsCounted
  <1>4. slot[e] = NoLane
    BY <1>2, <1>3 DEF SlotPoint, Repairing
  <1>5. effects[estep[e]] = 0
    <2>1. CASE pc[e] \in {"gate", "precheck", "arm"}
      BY <1>3, <2>1 DEF Spent
    <2>2. CASE pc[e] = "wave" /\ wave[e] = 0
      <3>1. effects[estep[e]] <= 0
        BY <1>3, <2>2, BegunFacts DEF Spent, Begun
      <3>2. effects[estep[e]] \in Nat
        BY StepsAssumption DEF CountTypeOK
      <3> QED
        BY <3>1, <3>2
    <2>3. CASE pc[e] = "terminal" /\ agg[e] = "KNOWN_ABSENT"
      <3>1. Clean(e)
        BY <1>4, <2>3 DEF Clean, Harmless, NoLane, LaneOff
      <3> QED
        BY <1>3, <2>3, <3>1 DEF AbsentSound
    <2> QED
      BY <1>2, <2>1, <2>2, <2>3
  <1>6. Resets(e)
    BY <1>4 DEF Leaves, Running, NoLane, LaneOff
  <1> QED
    BY <1>2, <1>4, <1>5, <1>6, OneHolder

\* What is settled stays so.
LEMMA SettledStep ==
  ASSUME NoTwin, AbsentInv, StepFacts, ExecInv'
  PROVE  Settled'
  <1> USE DEF AbsentInv, KnowledgeInv, CountInv, ExecInv, ExecTypeOK
  <1> SUFFICES ASSUME NEW s \in Mutating, Absent(s)', fencingToken'[s] <= 1,
                      runState'[RunOf[s]] # "CANCELLED"
               PROVE  effects'[s] = 0 /\ \A e \in Execs : estep'[e] = s => etok'[e] = 0
    BY DEF Settled
  <1>1. /\ s \in Steps /\ RunOf[s] \in Runs /\ RowForward(s) /\ RunForward(RunOf[s])
        /\ fencingToken[s] \in Nat /\ effects[s] \in Nat /\ \A e \in Execs : etok[e] \in Nat
        /\ \A e \in Execs : etok'[e] \in Nat
    BY StepsAssumption, Forward, StepCases DEF Inv, DbTypeOK, StepFacts, CountTypeOK, SlotTypeOK
  <1>2. fencingToken[s] <= 1 /\ runState[RunOf[s]] # "CANCELLED"
    BY <1>1 DEF RowForward, RunForward
  <1>3. state'[s] \in StepTerminal
    <2>1. sideEffectKnowledge'[s] # "null"
      BY DEF Absent
    <2> QED
      BY <1>1, <2>1 DEF RowForward, RowSent
  <1>4. \A e \in Execs : Claims(e) => estep[e] # s
    BY <1>1, <1>3 DEF Claims, claimStep, Inv, DbTypeOK, StepTerminal
  <1>5. ASSUME NEW e \in Execs, estep'[e] = s, etok'[e] > 0
        PROVE  estep[e] = s /\ etok[e] > 0 /\ ~Resets(e)
    BY <1>1, <1>4, <1>5, TokenMove DEF Claims, Resets
  <1>6. ASSUME effects[s] = 0, \A e \in Execs : estep[e] = s => etok[e] = 0
        PROVE  effects'[s] = 0 /\ \A e \in Execs : estep'[e] = s => etok'[e] = 0
    <2>1. effects'[s] = effects[s]
      BY <1>1, <1>6, EffectSteps, InvokeFrame
    <2> QED
      BY <1>1, <1>5, <1>6, <2>1
  <1>7. CASE Absent(s)
    BY <1>2, <1>6, <1>7 DEF Settled
  <1>8. CASE state[s] = "PENDING"
    <2>1. fencingToken[s] = 0
      BY <1>1, <1>8 DEF RowSent
    <2>2. effects[s] = 0
      BY <2>1 DEF RowSpent
    <2>3. \A e \in Execs : estep[e] = s => etok[e] = 0
      BY <1>1, <2>1 DEF SlotToken
    <2> QED
      BY <1>6, <2>2, <2>3
  <1>9. ASSUME NEW e \in Execs, estep[e] = s, state[s] \in Active, MayWriteAbsent(e), Leaves(e)
        PROVE  effects'[s] = 0 /\ \A f \in Execs : estep'[f] = s => etok'[f] = 0
    <2>1. /\ effects[s] = 0 /\ Resets(e) /\ slot[e] = NoLane
          /\ \A f \in Execs : estep[f] = s /\ etok[f] > 0 => f = e
      BY <1>2, <1>9, AbsentWritten
    <2>2. effects'[s] = effects[s]
      <3> SUFFICES ASSUME NEW f \in Execs, NEW i \in Lanes, estep[f] = s, Invoke(f, i) PROVE FALSE
        BY <1>1, EffectSteps
      <3>1. f = e /\ slot[f][i].at = "prepare"
        BY <2>1, InvokeFrame
      <3> QED
        BY <2>1, <3>1 DEF NoLane, LaneOff
    <2> QED
      BY <1>1, <1>5, <2>1, <2>2
  <1> QED
    BY <1>1, <1>7, <1>8, <1>9 DEF StepFacts, RowCause

\* Every step keeps the invariant of KNOWN_ABSENT.
LEMMA AbsentStep == AbsentInv /\ [Next]_vars => AbsentInv'
  <1> SUFFICES ASSUME AbsentInv, [Next]_vars PROVE AbsentInv'
    OBVIOUS
  <1>1. StepFacts /\ ExecInv' /\ KnowledgeInv'
    BY NextFacts, ExecStepInv, KnowledgeStep DEF AbsentInv, KnowledgeInv, CountInv
  <1>2. LocksKept' => LocksKept /\ ~Spend("stall") /\ ~Spend("loss")
    <2>1. ExecInv /\ {"stall", "loss"} \in SUBSET FaultKind
      BY DEF AbsentInv, KnowledgeInv, CountInv, FaultKind
    <2> QED
      BY <2>1, NeverBefore DEF LocksKept
  <1>3. NoTwin' => Settled' /\ \A e \in Execs : RepairSound(e)'
    <2> SUFFICES ASSUME NoTwin' PROVE Settled' /\ \A e \in Execs : RepairSound(e)'
      OBVIOUS
    <2>1. NoTwin
      BY <1>2 DEF NoTwin, OneSlotPerWorker
    <2> QED
      BY <1>1, <2>1, RepairSoundStep, SettledStep
  <1>4. LocksKept' => HoldLocks'
    BY <1>2, LockStep DEF AbsentInv, KnowledgeInv, CountInv
  <1> QED
    BY <1>1, <1>3, <1>4 DEF AbsentInv

\* What the emergency path reads, what a generation has seen and what the row records of
\* it agree with the target, when no other slot of a process works on the same step.
THEOREM AbsentCorrect == Spec => []AbsentInv
  <1>1. Init => AbsentInv
    BY KnowledgeInit DEF AbsentInv, HoldLocks, Working, Init
  <1>2. AbsentInv /\ [Next]_vars => AbsentInv'
    BY AbsentStep
  <1> QED
    BY <1>1, <1>2, PTL DEF Spec

\* KNOWN_ABSENT is never recorded over a mutation that took effect, for a step claimed at
\* most once in a run the cancel endpoint did not settle: neither the retries, nor the
\* aggregation of concurrent invocations, nor the emergency path launders an effect away
\* (ADR-0008), as long as living workers have kept their job locks, or always when a worker
\* process has one job slot (WORKER_CONCURRENCY is 1).
THEOREM KnownAbsentTruthfulCorrect == Spec => []KnownAbsentTruthful
  <1>1. AbsentInv => KnownAbsentTruthful
    BY DEF AbsentInv, NoTwin, Settled, KnownAbsentTruthful, Absent
  <1> QED
    BY <1>1, AbsentCorrect, PTL
-----------------------------------------------------------------------------
(***************************************************************************)
(* One generation at a time.  Only a claim issues a token, only its holder *)
(* marks the step executing, and only database time ends a lease.          *)
(***************************************************************************)
OwnCause(s) ==
  /\ fencingToken'[s] # fencingToken[s] => \E e \in Execs : estep[e] = s /\ Claims(e)
  /\ state'[s] = "EXECUTING" /\ state[s] # "EXECUTING"
       => \E e \in Execs : estep[e] = s /\ Begins(e)
  /\ lease'[s] = "expired" /\ lease[s] # "expired" => LeaseRunsOut(s)

\* Nobody gets a generation, starts to execute or loses a lease.
Calm ==
  /\ UNCHANGED fencingToken
  /\ \A s \in Steps : /\ state'[s] = "EXECUTING" => state[s] = "EXECUTING"
                      /\ lease'[s] = "expired" => lease[s] = "expired"

\* A calm step needs no cause.
LEMMA CalmCause == Calm => \A s \in Steps : OwnCause(s)
  BY DEF Calm, OwnCause

\* Every transaction but the claim, the executing mark and the expiry of a lease is calm.
LEMMA CalmTransactions ==
  ASSUME DbTypeOK
  PROVE  /\ UNCHANGED dbVars => Calm
         /\ \A r \in Runs :
              /\ markRunDispatching(r) \/ TouchRun(r) \/ settleCancelledRun(r) \/ requestCancel(r)
                   => Calm
              /\ \A pending \in SUBSET Steps : markNothingEnqueued(r, pending) => Calm
              /\ \A o \in Owners, c \in BOOLEAN : settleRun(o, r, c) => Calm
         /\ \A o \in Owners : discoverSettleable(o) \/ forgetDiscovered(o) => Calm
         /\ \A s \in Steps :
              /\ \A from \in SUBSET DispatchState, to \in DispatchState :
                   SetDispatchMarker(s, from, to) => Calm
              /\ resolveExpiredLease(s) => Calm
              /\ \A k \in Knowledge : recordInvocation(s, k) => Calm
              /\ \A o \in Owners, t \in Nat :
                   /\ heartbeatStep(s, o, t) => Calm
                   /\ \A st \in Outcome, k \in Knowledge : writeTerminalState(s, o, t, st, k) => Calm
  <1> USE DEF Calm, DbTypeOK, stepVars
  <1>1. UNCHANGED dbVars => Calm
    BY DEF dbVars
  <1>2. ASSUME NEW r \in Runs
        PROVE  /\ markRunDispatching(r) \/ TouchRun(r) \/ settleCancelledRun(r) \/ requestCancel(r)
                    => Calm
               /\ \A pending \in SUBSET Steps : markNothingEnqueued(r, pending) => Calm
               /\ \A o \in Owners, c \in BOOLEAN : settleRun(o, r, c) => Calm
    <2>1. markRunDispatching(r) \/ TouchRun(r) \/ requestCancel(r) => Calm
      BY DEF markRunDispatching, TouchRun, requestCancel
    <2>2. settleCancelledRun(r) => Calm
      BY DEF settleCancelledRun
    <2>3. \A pending \in SUBSET Steps : markNothingEnqueued(r, pending) => Calm
      BY DEF markNothingEnqueued
    <2>4. \A o \in Owners, c \in BOOLEAN : settleRun(o, r, c) => Calm
      BY DEF settleRun
    <2> QED
      BY <2>1, <2>2, <2>3, <2>4
  <1>3. \A o \in Owners : discoverSettleable(o) \/ forgetDiscovered(o) => Calm
    BY DEF discoverSettleable, forgetDiscovered
  <1>4. ASSUME NEW s \in Steps
        PROVE  /\ \A from \in SUBSET DispatchState, to \in DispatchState :
                    SetDispatchMarker(s, from, to) => Calm
               /\ resolveExpiredLease(s) => Calm
               /\ \A k \in Knowledge : recordInvocation(s, k) => Calm
               /\ \A o \in Owners, t \in Nat :
                    /\ heartbeatStep(s, o, t) => Calm
                    /\ \A st \in Outcome, k \in Knowledge : writeTerminalState(s, o, t, st, k) => Calm
    <2>1. \A from \in SUBSET DispatchState, to \in DispatchState : SetDispatchMarker(s, from, to) => Calm
      BY DEF SetDispatchMarker
    <2>2. resolveExpiredLease(s) => Calm
      BY DEF resolveExpiredLease
    <2>3. \A k \in Knowledge : recordInvocation(s, k) => Calm
      BY DEF recordInvocation
    <2>4. \A o \in Owners, t \in Nat : heartbeatStep(s, o, t) => Calm
      BY DEF heartbeatStep
    <2>5. \A o \in Owners, t \in Nat, st \in Outcome, k \in Knowledge :
            writeTerminalState(s, o, t, st, k) => Calm
      BY DEF writeTerminalState, Outcome
    <2> QED
      BY <2>1, <2>2, <2>3, <2>4, <2>5
  <1> QED
    BY <1>1, <1>2, <1>3, <1>4

\* Whatever the API, the queue, the sweep, the heartbeat and a crash do to the rows is calm.
LEMMA CalmOutside ==
  ASSUME ExecInv
  PROVE  /\ \A r \in Runs : ApiMove(r) => Calm
         /\ QueueMove => Calm
         /\ \A o \in Owners : SweepStep(o) \/ HeartbeatTick(o) \/ Crash(o) => Calm
  <1> USE DEF ExecInv, ExecTypeOK, Inv
  <1>1. ASSUME NEW r \in Runs, ApiMove(r) PROVE Calm
    <2>1. dset[r] \in SUBSET Steps
      BY DEF DispatchedOnly, StepsOf
    <2>2. \/ UNCHANGED dbVars
          \/ markRunDispatching(r) \/ TouchRun(r) \/ settleCancelledRun(r) \/ requestCancel(r)
          \/ \E pending \in SUBSET Steps : markNothingEnqueued(r, pending)
          \/ \E s \in Steps : SetDispatchMarker(s, {"PENDING"}, "DISPATCHED")
      BY <1>1, <2>1 DEF ApiMove, DispatchStep, DispatchRequest, DispatchMark, DispatchQuery,
        DispatchEnqueue, DispatchMarker, DispatchDies, CancelRead, CancelWrite
    <2> QED
      BY <2>2, CalmTransactions DEF DispatchState
  <1>2. ASSUME QueueMove PROVE Calm
    <2>1. UNCHANGED dbVars
      BY <1>2 DEF QueueMove, JobStalls, JobEvicted, RedisDown, RedisRecovers, RedisDataLoss
    <2> QED
      BY <2>1, CalmTransactions
  <1>3. ASSUME NEW o \in Owners, SweepStep(o) PROVE Calm
    <2>1. \/ UNCHANGED dbVars
          \/ \E s \in Steps : TouchRun(RunOf[s]) \/ resolveExpiredLease(s)
          \/ \E s \in Steps : SetDispatchMarker(s, {"PENDING", "RECONCILE"}, "DISPATCHED")
          \/ discoverSettleable(o)
          \/ \E r \in Runs, c \in BOOLEAN : settleRun(o, r, c)
      BY <1>3 DEF SweepStep, SweepBegin, SweepMark, SweepDiscover, SweepSettle, SweepFindExpired,
        SweepEnd, SweepEnqueue, SweepResolve, DispatchedOnly
    <2> QED
      BY <2>1, CalmTransactions, StepsAssumption DEF DispatchState
  <1>4. ASSUME NEW o \in Owners, HeartbeatTick(o) PROVE Calm
    <2>1. hb[o] \in Steps /\ hbtok[o] \in Nat
      BY <1>4 DEF HeartbeatTick, WorkerTypeOK
    <2>2. heartbeatStep(hb[o], o, hbtok[o]) \/ UNCHANGED dbVars
      BY <1>4 DEF HeartbeatTick
    <2> QED
      BY <2>1, <2>2, CalmTransactions
  <1>5. ASSUME NEW o \in Owners, Crash(o) PROVE Calm
    BY <1>5, CalmTransactions DEF Crash
  <1> QED
    BY <1>1, <1>2, <1>3, <1>4, <1>5

\* Of the steps of a slot, all but the claim and the executing mark are.
LEMMA OwnSlot ==
  ASSUME ExecInv, NEW e \in Execs, SlotStep(e)
  PROVE  \A s \in Steps : OwnCause(s)
  <1> USE DEF ExecInv, ExecTypeOK, Inv
  <1>1. SlotTypeOK /\ SlotPoint(e) /\ SlotToken(e) /\ OwnerOf[e] \in Owners
    BY ExecutionAssumption
  <1>2. ASSUME pc[e] # "idle",
               \/ UNCHANGED dbVars
               \/ \E s \in Steps : TouchRun(RunOf[s])
               \/ \E t \in Nat, st \in Outcome, k \in Knowledge : FencedTerminal(e, t, st, k)
               \/ \E k \in Knowledge : recordInvocation(estep[e], k)
               \/ \E s \in Steps, from \in SUBSET DispatchState, to \in DispatchState :
                    SetDispatchMarker(s, from, to)
        PROVE  Calm
    <2>1. estep[e] \in Steps
      BY <1>1, <1>2 DEF SlotPoint
    <2> QED
      BY <1>1, <1>2, <2>1, CalmTransactions, StepsAssumption DEF FencedTerminal
  <1>3. UNCHANGED dbVars => Calm
    BY CalmTransactions
  <1>4. CASE Claim(e)
    <2>1. CASE UNCHANGED dbVars
      BY <1>3, <2>1, CalmCause
    <2>2. ASSUME claimStep(estep[e], OwnerOf[e]), pc' = [pc EXCEPT ![e] = "gate"],
                 etok' = [etok EXCEPT ![e] = NextToken(estep[e])],
                 UNCHANGED <<queueVars, estep, wave, agg, ok, rtok, slot>>
          PROVE  \A s \in Steps : OwnCause(s)
      <3>1. Claims(e)
        BY <1>1, <1>4, <2>2 DEF Claim, Claims, NextToken, SlotTypeOK
      <3>2. \A s \in Steps : /\ s # estep[e] => fencingToken'[s] = fencingToken[s]
                             /\ state'[s] = "EXECUTING" => state[s] = "EXECUTING"
                             /\ lease'[s] = "expired" => lease[s] = "expired"
        BY <2>2 DEF claimStep, DbTypeOK
      <3> QED
        BY <3>1, <3>2 DEF OwnCause
    <2> QED
      BY <1>4, <2>1, <2>2 DEF Claim
  <1>5. CASE MarkExecuting(e)
    <2>1. pc[e] = "gate" /\ estep[e] \in Steps
      BY <1>1, <1>5 DEF MarkExecuting, SlotPoint
    <2>2. CASE TouchRun(RunOf[estep[e]])
      BY <1>2, <2>1, <2>2, CalmCause
    <2>3. ASSUME markExecuting(estep[e], OwnerOf[e], etok[e]), pc' = [pc EXCEPT ![e] = "precheck"],
                 UNCHANGED <<queueVars, estep, etok, wave, agg, ok, rtok, slot>>
          PROVE  \A s \in Steps : OwnCause(s)
      <3>1. Begins(e)
        BY <1>1, <2>1, <2>3 DEF Begins, SameLocals, SlotTypeOK
      <3>2. \A s \in Steps : /\ fencingToken'[s] = fencingToken[s] /\ lease'[s] = lease[s]
                             /\ s # estep[e] => state'[s] = state[s]
        BY <2>3 DEF markExecuting
      <3> QED
        BY <3>1, <3>2 DEF OwnCause
    <2> QED
      BY <1>5, <2>2, <2>3 DEF MarkExecuting
  <1>6. CASE DenyExecution(e) \/ CancelStop(e)
    <2>1. /\ pc[e] # "idle" /\ CancelKnowledge(e) \in Knowledge
          /\ \E st \in Outcome, k \in Knowledge : FencedTerminal(e, etok[e], st, k)
      BY <1>6 DEF DenyExecution, CancelStop, CancelKnowledge, Knowledge, Outcome
    <2> QED
      BY <1>1, <1>2, <2>1, CalmCause DEF SlotTypeOK
  <1>7. CASE PassPrecheck(e) \/ StartWave(e) \/ JoinWave(e) \/ ChainRead(e) \/ RepairLoad(e) \/ OrphansEnd(e)
    <2>1. UNCHANGED dbVars
      BY <1>7, Zenon DEF PassPrecheck, StartWave, JoinWave, ChainRead, RepairLoad, OrphansEnd
    <2> QED
      BY <1>3, <2>1, CalmCause
  <1>8. CASE RepairDerive(e) \/ RepairFails(e) \/ ProcessThrows(e) \/ \E s \in Steps : Deliver(e, s)
    <2>1. UNCHANGED dbVars
      BY <1>8, Zenon DEF RepairDerive, RepairFails, ProcessThrows, Deliver
    <2> QED
      BY <1>3, <2>1, CalmCause
  <1>9. CASE ArmFault(e)
    <2>1. pc[e] # "idle"
      BY <1>9 DEF ArmFault
    <2>2. UNCHANGED dbVars \/ \E st \in Outcome, k \in Knowledge : FencedTerminal(e, etok[e], st, k)
      BY <1>9 DEF ArmFault, Outcome, Knowledge
    <2> QED
      BY <1>1, <1>2, <2>1, <2>2, CalmCause DEF SlotTypeOK
  <1>10. CASE WriteOutcome(e)
    <2>1. /\ pc[e] # "idle"
          /\ \E st \in {"SUCCEEDED", "FAILED"} : FencedTerminal(e, etok[e], st, FinalKnowledge(e))
      BY <1>10 DEF WriteOutcome
    <2>2. FinalKnowledge(e) \in Knowledge
      BY <1>1 DEF FinalKnowledge, Knowledge, SlotTypeOK
    <2> QED
      BY <1>1, <1>2, <2>1, <2>2, CalmCause DEF SlotTypeOK, Outcome
  <1>11. CASE ChainPromote(e) \/ ChainEnqueue(e) \/ ChainMark(e)
    <2>1. /\ pc[e] # "idle"
          /\ \/ UNCHANGED dbVars
             \/ \E s \in Steps : \/ TouchRun(RunOf[s])
                                 \/ SetDispatchMarker(s, {"PENDING"}, "RECONCILE")
                                 \/ SetDispatchMarker(s, {"RECONCILE"}, "DISPATCHED")
      BY <1>11 DEF ChainPromote, ChainEnqueue, ChainMark, NextStep, StepsOf
    <2> QED
      BY <1>2, <2>1, CalmCause DEF DispatchState
  <1>12. CASE RepairWrite(e)
    <2>1. pc[e] # "idle" /\ FencedTerminal(e, rtok[e], "FAILED", agg[e])
      BY <1>12 DEF RepairWrite
    <2> QED
      BY <1>1, <1>2, <2>1, CalmCause DEF SlotTypeOK, Outcome
  <1>13. ASSUME NEW i \in Lanes, Invoke(e, i) \/ InvocationThrows(e, i) PROVE \A s \in Steps : OwnCause(s)
    <2>1. UNCHANGED dbVars
      BY <1>13, Zenon DEF Invoke, InvocationThrows
    <2> QED
      BY <1>3, <2>1, CalmCause
  <1>14. ASSUME NEW i \in Lanes, RecordAttempt(e, i) PROVE \A s \in Steps : OwnCause(s)
    <2>1. slot[e][i].at = "record" /\ recordInvocation(estep[e], slot[e][i].knowledge)
      BY <1>14, Zenon DEF RecordAttempt
    <2>2. slot[e][i].knowledge \in Knowledge /\ pc[e] # "idle"
      BY <1>1, <2>1 DEF LaneTypeOK, Lane, SlotPoint, NoLane, LaneOff, Repairing
    <2> QED
      BY <1>2, <2>1, <2>2, CalmCause
  <1> QED
    BY <1>4, <1>5, <1>6, <1>7, <1>8, <1>9, <1>10, <1>11, <1>12, <1>13, <1>14
      DEF SlotStep, ExecStep, LaneStep

\* A token is issued by a claim, a step marked executing by the holder of its token, a lease
\* ended by time.
LEMMA OwnershipStep == ExecInv /\ [Next]_vars => \A s \in Steps : OwnCause(s)
  <1> SUFFICES ASSUME ExecInv, [Next]_vars PROVE \A s \in Steps : OwnCause(s)
    OBVIOUS
  <1>1. CASE UNCHANGED vars
    BY <1>1, CalmTransactions, CalmCause DEF vars, dbVars, ExecInv, ExecTypeOK, Inv
  <1>2. ASSUME NEW p \in Steps, LeaseRunsOut(p) PROVE \A s \in Steps : OwnCause(s)
    <2>1. /\ UNCHANGED <<fencingToken, state>>
          /\ \A s \in Steps : s # p => lease'[s] = lease[s]
      BY <1>2 DEF LeaseRunsOut, LeaseExpires
    <2> QED
      BY <1>2, <2>1 DEF OwnCause
  <1> QED
    BY <1>1, <1>2, NextCases, CalmOutside, CalmCause, OwnSlot

\* A finished job stays finished, and a job is taken from a living slot only by finishing it.
JobsStay ==
  /\ redisUp'
  /\ \A s \in Steps :
       /\ job[s] = "retained" => job'[s] = "retained"
       /\ \A e \in Execs : job[s] = "active" /\ holder[s] = e /\ alive[OwnerOf[e]]
            => \/ job'[s] = "retained"
               \/ job'[s] = "active" /\ holder'[s] = e

\* While the queue keeps its jobs, every step does.
LEMMA JobStep ==
  ASSUME \A k \in {"stall", "loss", "evict", "outage"} : ~Spend(k), ExecInv, redisUp, [Next]_vars
  PROVE  JobsStay
  <1> USE DEF ExecInv, ExecTypeOK
  <1>1. QueueTypeOK /\ (\A e \in Execs : SlotPoint(e)) /\ NoExec \notin Execs
    BY NamesAssumption
  <1>2. UNCHANGED queueVars => JobsStay
    BY DEF queueVars, JobsStay
  <1>3. ASSUME NEW s \in Steps, Enqueue(s) PROVE JobsStay
    BY <1>1, <1>3 DEF Enqueue, JobsStay, QueueTypeOK
  <1>4. ASSUME NEW e \in Execs, estep[e] \in Steps, FinishJob(e) PROVE JobsStay
    BY <1>1, <1>4 DEF FinishJob, JobsStay, QueueTypeOK
  <1>5. CASE UNCHANGED vars
    BY <1>2, <1>5 DEF vars
  <1>6. CASE QueueMove
    <2>1. ~Spend("stall") /\ ~Spend("loss") /\ ~Spend("evict") /\ ~Spend("outage")
      OBVIOUS
    <2>2. ASSUME NEW s \in Steps, JobStalls(s) PROVE JobsStay
      BY <1>1, <2>1, <2>2 DEF JobStalls, JobsStay, QueueTypeOK
    <2>3. CASE RedisRecovers
      BY <2>3 DEF RedisRecovers
    <2> QED
      BY <1>6, <2>1, <2>2, <2>3 DEF QueueMove, JobEvicted, RedisDown, RedisDataLoss
  <1>7. ASSUME NEW r \in Runs, ApiMove(r) PROVE JobsStay
    <2>1. dset[r] \subseteq Steps
      BY DEF DispatchedOnly, StepsOf
    <2>2. UNCHANGED queueVars \/ \E s \in Steps : Enqueue(s)
      BY <1>7, <2>1 DEF ApiMove, DispatchStep, DispatchRequest, DispatchMark, DispatchQuery,
        DispatchEnqueue, DispatchMarker, DispatchDies, CancelRead, CancelWrite
    <2> QED
      BY <1>2, <1>3, <2>2
  <1>8. ASSUME NEW o \in Owners, SweepStep(o) \/ HeartbeatTick(o) \/ Crash(o) PROVE JobsStay
    <2>1. UNCHANGED queueVars \/ \E s \in Steps : Enqueue(s)
      BY <1>8 DEF SweepStep, SweepBegin, SweepMark, SweepDiscover, SweepSettle, SweepFindExpired,
        SweepEnd, SweepEnqueue, SweepResolve, HeartbeatTick, Crash
    <2> QED
      BY <1>2, <1>3, <2>1
  <1>9. ASSUME NEW s \in Steps, LeaseRunsOut(s) PROVE JobsStay
    BY <1>2, <1>9 DEF LeaseRunsOut
  <1>10. ASSUME NEW e \in Execs, SlotStep(e) PROVE JobsStay
    <2>1. ASSUME NEW s \in Steps, Deliver(e, s) PROVE JobsStay
      BY <1>1, <2>1 DEF Deliver, JobsStay, QueueTypeOK
    <2>2. ASSUME pc[e] # "idle", FinishJob(e) PROVE JobsStay
      BY <1>1, <1>4, <2>2 DEF SlotPoint
    <2>3. ASSUME NEW i \in Lanes, LaneStep(e, i) \/ InvocationThrows(e, i) PROVE JobsStay
      <3>1. UNCHANGED queueVars
        BY <2>3, Zenon DEF LaneStep, Invoke, RecordAttempt, InvocationThrows
      <3> QED
        BY <1>2, <3>1
    <2>4. CASE Claim(e) \/ DenyExecution(e) \/ MarkExecuting(e) \/ CancelStop(e) \/ ArmFault(e)
      BY <1>2, <2>2, <2>4 DEF Claim, DenyExecution, MarkExecuting, CancelStop, ArmFault, Leave, queueVars
    <2>5. CASE PassPrecheck(e) \/ StartWave(e) \/ JoinWave(e) \/ OrphansEnd(e) \/ RepairDerive(e)
               \/ ProcessThrows(e)
      <3>1. UNCHANGED queueVars
        BY <2>5, Zenon DEF PassPrecheck, StartWave, JoinWave, OrphansEnd, RepairDerive, ProcessThrows
      <3> QED
        BY <1>2, <3>1
    <2>6. CASE WriteOutcome(e) \/ ChainRead(e) \/ ChainPromote(e) \/ ChainMark(e)
      BY <1>2, <2>2, <2>6 DEF WriteOutcome, ChainRead, ChainPromote, ChainMark, Leave, queueVars
    <2>7. CASE ChainEnqueue(e)
      <3>1. pc[e] # "idle" /\ (FinishJob(e) \/ \E n \in Steps : Enqueue(n))
        BY <2>7 DEF ChainEnqueue, Leave, NextStep, StepsOf
      <3> QED
        BY <1>3, <2>2, <3>1
    <2>8. CASE RepairLoad(e) \/ RepairWrite(e) \/ RepairFails(e)
      BY <1>2, <2>2, <2>8 DEF RepairLoad, RepairWrite, RepairFails, Leave, queueVars
    <2> QED
      BY <1>10, <2>1, <2>3, <2>4, <2>5, <2>6, <2>7, <2>8 DEF SlotStep, ExecStep
  <1> QED
    BY <1>5, <1>6, <1>7, <1>8, <1>9, <1>10, NextCases

-----------------------------------------------------------------------------
(***************************************************************************)
(* Followers.  Without exceptions and without leases that expire under     *)
(* their holder, or with a queue that keeps its jobs, a step is claimed    *)
(* again only when no slot holds a token of it: a mutating step is taken   *)
(* over from the dead alone.                                               *)
(***************************************************************************)
AllAlive == \A o \in Owners : alive[o]

\* No slot follows a generation that was fenced out.
Alone(e) == etok[e] > 0 /\ estep[e] \in Mutating => etok[e] = fencingToken[estep[e]]

\* A claimed step that is not executing has nothing under way.
ClaimedQuiet(e) ==
  etok[e] > 0 /\ estep[e] \in Mutating /\ state[estep[e]] = "CLAIMED"
    => pc[e] \in {"gate"} \cup Repairing /\ slot[e] = NoLane

Advancing == {"chain", "promote", "chainEnqueue", "chainMark"}

GentleSlot(e) ==
  /\ pc[e] \notin {"orphaned"} \cup Repairing
  /\ etok[e] > 0 /\ estep[e] \in Mutating =>
       /\ state[estep[e]] \in Active => lease[estep[e]] # "expired"
       /\ pc[e] = "gate" => state[estep[e]] # "EXECUTING"
       /\ pc[e] \in Advancing => state[estep[e]] \in StepTerminal

\* While nobody dies, a step has one generation, and a slot as long as it is active.
Kept ==
  \A s \in Mutating : /\ fencingToken[s] <= 1
                      /\ state[s] \in Active => \E e \in Execs : estep[e] = s /\ etok[e] > 0

JobHeld(e) ==
  etok[e] > 0 => \/ job[estep[e]] = "retained"
                 \/ job[estep[e]] = "active" /\ holder[estep[e]] = e

AloneInv ==
  /\ KnowledgeInv
  /\ Gentle \/ JobsKept => \A e \in Execs : Alone(e) /\ ClaimedQuiet(e)
  /\ Gentle => \A e \in Execs : GentleSlot(e)
  /\ Gentle /\ AllAlive => Kept
  /\ JobsKept => redisUp /\ HoldLocks /\ \A e \in Execs : JobHeld(e)

\* The moves of a slot, as far as its control point and its lanes go.
LEMMA PointMoves ==
  ASSUME ExecInv, StepFacts, NEW e \in Execs
  PROVE  \/ Stays(e) \/ Dies(e) \/ PicksUp(e) \/ Claims(e) \/ Begins(e) \/ Proceeds(e) \/ Succeeds(e)
         \/ Leaves(e) /\ Vacates(e) /\ pc[e] \notin {"idle", "inflight"}
         \/ pc[e] = "wave" /\ pc'[e] = "inflight"
         \/ pc[e] = "inflight" /\ pc'[e] \in {"wave", "terminal"}
         \/ pc[e] \in Repairing /\ pc'[e] \in Repairing /\ slot'[e] = slot[e]
         \/ slot[e] # NoLane /\ pc'[e] = pc[e]
         \/ slot[e] # NoLane /\ Spend("throw")
  <1>1. SlotTypeOK
    BY DEF ExecInv, ExecTypeOK
  <1>2. Stays(e) \/ Dies(e) \/ SlotMove(e)
    BY DEF StepFacts, SlotShape
  <1>3. StartWave(e) => pc[e] = "wave" /\ pc'[e] = "inflight"
    BY <1>1 DEF StartWave, SlotTypeOK
  <1>4. JoinWave(e) => pc[e] = "inflight" /\ pc'[e] \in {"wave", "terminal"}
    BY <1>1 DEF JoinWave, SlotTypeOK
  <1>5. Repairs(e) => pc[e] \in Repairing /\ pc'[e] \in Repairing /\ slot'[e] = slot[e]
    BY DEF Repairs, Repairing
  <1>6. RepairDerive(e) => pc[e] \in Repairing /\ pc'[e] \in Repairing /\ slot'[e] = slot[e]
    <2>1. RepairDerive(e) => /\ pc[e] = "repairRows" /\ pc' = [pc EXCEPT ![e] = "repairWrite"]
                             /\ UNCHANGED slot
      BY Zenon DEF RepairDerive
    <2> QED
      BY <1>1, <2>1 DEF Repairing, SlotTypeOK
  <1>7. ASSUME NEW i \in Lanes, Invoke(e, i) \/ RecordAttempt(e, i) \/ InvocationThrows(e, i)
        PROVE  slot[e] # NoLane /\ (pc'[e] = pc[e] \/ Spend("throw"))
    <2>1. PICK l \in Lane, n \in {0, 1} : LaneMove(e, i, l, n)
      BY <1>7, LaneMoves
    <2>2. slot[e][i].at # "off" /\ (pc'[e] = pc[e] \/ Spend("throw"))
      BY <2>1 DEF LaneMove
    <2> QED
      BY <2>2 DEF NoLane, LaneOff
  <1> QED
    BY <1>2, <1>3, <1>4, <1>5, <1>6, <1>7 DEF SlotMove

\* A claim takes a mutating step only from a slot that lost it.
LEMMA AloneStep ==
  ASSUME AloneInv, [Next]_vars, Gentle \/ JobsKept, NEW e \in Execs
  PROVE  Alone(e)'
  <1> USE DEF AloneInv, KnowledgeInv, CountInv, ExecInv, ExecTypeOK
  <1> SUFFICES ASSUME etok'[e] > 0, estep'[e] \in Mutating
               PROVE  etok'[e] = fencingToken'[estep'[e]]
    BY DEF Alone
  <1>1. StepFacts /\ \A s \in Steps : OwnCause(s)
    BY NextFacts, OwnershipStep
  <1>2. DbTypeOK /\ SlotTypeOK /\ RowSent /\ \A f \in Execs : SlotPoint(f) /\ SlotToken(f)
    BY DEF Inv
  <1>3. CASE Claims(e)
    <2>1. estep[e] \in Steps
      BY <1>2, <1>3 DEF Claims, SlotPoint
    <2> QED
      BY <1>2, <1>3, <2>1 DEF Claims, claimStep, NextToken, DbTypeOK
  <1>4. CASE etok'[e] = etok[e] /\ estep'[e] = estep[e] /\ ~Claims(e)
    <2> DEFINE s == estep[e]
    <2>1. s \in Steps /\ etok[e] = fencingToken[s] /\ etok[e] \in Nat \ {0}
      BY <1>2, <1>4, StepsAssumption DEF Alone, SlotTypeOK
    <2>2. SUFFICES ASSUME fencingToken'[s] # fencingToken[s] PROVE FALSE
      BY <1>4, <2>1
    <2>3. PICK f \in Execs : estep[f] = s /\ Claims(f)
      BY <1>1, <2>1, <2>2 DEF OwnCause
    <2>4. f # e /\ pc[f] = "claim"
      BY <1>4, <2>3 DEF Claims
    <2>5. CASE JobsKept
      <3>1. holder[s] = f /\ job[s] = "active"
        BY <2>3, <2>4, <2>5 DEF HoldLocks, Working
      <3> QED
        BY <2>1, <2>4, <2>5, <3>1 DEF JobHeld
    <2>6. CASE Gentle
      <3>1. s \in Mutating /\ GentleSlot(e)
        BY <1>4, <2>6
      <3>2. \/ state[s] = "PENDING"
            \/ state[s] \in Active /\ lease[s] = "expired"
        BY <2>3 DEF Claims, claimStep, claimable
      <3> QED
        BY <1>2, <2>1, <3>1, <3>2 DEF GentleSlot, RowSent
    <2> QED
      BY <2>5, <2>6
  <1> QED
    BY <1>1, <1>3, <1>4, TokenMove DEF SlotTypeOK

\* Between its claim and its executing mark, a slot starts nothing.
LEMMA ClaimedQuietStep ==
  ASSUME AloneInv, [Next]_vars, Gentle \/ JobsKept, NEW e \in Execs
  PROVE  ClaimedQuiet(e)'
  <1> USE DEF AloneInv, KnowledgeInv, CountInv, ExecInv, ExecTypeOK
  <1> SUFFICES ASSUME etok'[e] > 0, estep'[e] \in Mutating, state'[estep'[e]] = "CLAIMED"
               PROVE  pc'[e] \in {"gate"} \cup Repairing /\ slot'[e] = NoLane
    BY DEF ClaimedQuiet
  <1>1. StepFacts
    BY NextFacts
  <1>2. SlotTypeOK /\ SlotPoint(e) /\ Alone(e) /\ ClaimedQuiet(e) /\ Alone(e)'
    BY AloneStep
  <1>3. CASE Claims(e)
    BY <1>2, <1>3 DEF Claims, SlotPoint, Repairing
  <1>4. CASE etok'[e] = etok[e] /\ estep'[e] = estep[e] /\ ~Claims(e)
    <2>1. estep[e] \in Steps /\ RowForward(estep[e])
      BY <1>1, <1>4, StepsAssumption, StepCases
    <2>2. pc[e] \in {"gate"} \cup Repairing /\ slot[e] = NoLane
      BY <1>2, <1>4, <2>1 DEF Alone, ClaimedQuiet, RowForward
    <2>3. ~Begins(e)
      BY <1>4, <2>1 DEF Begins, markExecuting, Inv, DbTypeOK
    <2>4. ~Leaves(e)
      BY <2>2 DEF Leaves, Resets, Running, NoLane, LaneOff
    <2>5. ~PicksUp(e) /\ ~Succeeds(e) /\ ~Dies(e)
      BY <2>2 DEF PicksUp, Succeeds, Dies, Resets, Repairing
    <2>6. Proceeds(e) => pc'[e] = "repair" /\ slot'[e] = slot[e]
      BY <2>2 DEF Proceeds, Edge, Repairing, SameLocals
    <2> QED
      BY <1>1, <1>4, <2>2, <2>3, <2>4, <2>5, <2>6, PointMoves DEF Stays, SameLocals, Repairing
  <1> QED
    BY <1>1, <1>2, <1>3, <1>4, TokenMove DEF SlotTypeOK


\* A gentle behaviour was gentle before: nothing has thrown, no held lease has expired.
LEMMA GentleBefore ==
  ASSUME ExecInv, [Next]_vars
  PROVE  /\ Gentle' => Gentle /\ ~Spend("throw") /\ ~Spend("expiry")
         /\ AllAlive' => AllAlive
  <1>1. {"expiry", "throw"} \in SUBSET FaultKind
    BY DEF FaultKind
  <1>2. Gentle' => Gentle /\ ~Spend("throw") /\ ~Spend("expiry")
    BY <1>1, NeverBefore DEF Gentle
  <1> QED
    BY <1>2, AgeStep DEF AllAlive

\* Where a slot can be after a step without exceptions.
LEMMA GentleMoves ==
  ASSUME ExecInv, StepFacts, NEW e \in Execs, ~Spend("throw"), pc[e] \notin {"orphaned"} \cup Repairing
  PROVE  \/ Stays(e) \/ Dies(e) \/ PicksUp(e) \/ Claims(e) \/ Begins(e) \/ Succeeds(e)
         \/ Proceeds(e) /\ pc'[e] # "repair"
         \/ Resets(e) /\ Vacates(e) /\ pc[e] \notin {"idle", "inflight"}
         \/ pc[e] = "wave" /\ pc'[e] = "inflight"
         \/ pc[e] = "inflight" /\ pc'[e] \in {"inflight", "wave", "terminal"}
  <1>1. SlotPoint(e)
    BY DEF ExecInv
  <1>2. slot[e] # NoLane => pc[e] = "inflight"
    BY <1>1 DEF SlotPoint
  <1>3. Leaves(e) /\ pc[e] # "inflight" => Resets(e)
    BY <1>2 DEF Leaves, Running, NoLane, LaneOff
  <1>4. Proceeds(e) => pc'[e] # "repair"
    BY DEF Proceeds
  <1> QED
    BY <1>2, <1>3, <1>4, PointMoves

\* Without exceptions no slot is orphaned or repairs, and without leases that expire under
\* their holder the holder keeps its lease and alone decides what becomes of the step.
LEMMA GentleSlotStep ==
  ASSUME AloneInv, [Next]_vars, Gentle', NEW e \in Execs
  PROVE  GentleSlot(e)'
  <1> USE DEF AloneInv, KnowledgeInv, CountInv
  <1>1. StepFacts /\ \A s \in Steps : OwnCause(s)
    BY NextFacts, OwnershipStep
  <1>2. Gentle /\ ~Spend("throw") /\ ~Spend("expiry")
    BY GentleBefore
  <1>3. GentleSlot(e) /\ Alone(e) /\ Alone(e)'
    BY <1>2, AloneStep
  <1>4. SlotTypeOK /\ SlotPoint(e) /\ DbTypeOK /\ \A s \in Steps : RowForward(s)
    BY <1>1, StepCases DEF ExecInv, ExecTypeOK, Inv
  <1>5. pc[e] \notin {"orphaned"} \cup Repairing
    BY <1>3 DEF GentleSlot
  <1>6. \/ Stays(e) \/ Dies(e) \/ PicksUp(e) \/ Claims(e) \/ Begins(e) \/ Succeeds(e)
        \/ Proceeds(e) /\ pc'[e] # "repair"
        \/ Resets(e) /\ Vacates(e) /\ pc[e] \notin {"idle", "inflight"}
        \/ pc[e] = "wave" /\ pc'[e] = "inflight"
        \/ pc[e] = "inflight" /\ pc'[e] \in {"inflight", "wave", "terminal"}
    BY <1>1, <1>2, <1>5, GentleMoves
  <1>7. pc'[e] \notin {"orphaned"} \cup Repairing
    BY <1>5, <1>6 DEF Stays, Dies, Resets, PicksUp, Claims, Begins, Succeeds, Proceeds, Edge, Repairing
  <1>8. CASE Claims(e)
    <2>1. /\ estep[e] \in Steps /\ estep'[e] = estep[e] /\ pc'[e] = "gate"
          /\ claimStep(estep[e], OwnerOf[e])
      BY <1>4, <1>8 DEF Claims, SlotPoint
    <2>2. lease'[estep[e]] = "live" /\ state'[estep[e]] = "CLAIMED"
      BY <1>4, <2>1 DEF claimStep, DbTypeOK
    <2> QED
      BY <1>7, <2>1, <2>2 DEF GentleSlot, Advancing
  <1>9. ASSUME etok'[e] = etok[e], estep'[e] = estep[e], ~Claims(e), etok[e] > 0, estep[e] \in Mutating
        PROVE  /\ state'[estep[e]] \in Active => lease'[estep[e]] # "expired"
               /\ pc'[e] = "gate" => state'[estep[e]] # "EXECUTING"
               /\ pc'[e] \in Advancing => state'[estep[e]] \in StepTerminal
    <2> DEFINE s == estep[e]
    <2>1. s \in Steps /\ etok[e] = fencingToken[s] /\ fencingToken'[s] = fencingToken[s]
      BY <1>3, <1>9, StepsAssumption DEF Alone
    <2>2. /\ state[s] \in Active => lease[s] # "expired"
          /\ pc[e] = "gate" => state[s] # "EXECUTING"
          /\ pc[e] \in Advancing => state[s] \in StepTerminal
      BY <1>3, <1>9 DEF GentleSlot
    <2>3. ASSUME state'[s] \in Active PROVE lease'[s] # "expired"
      <3>1. lease[s] # "expired"
        BY <1>4, <2>1, <2>2, <2>3 DEF RowForward
      <3>2. HeldAlive(s)
        BY <1>4, <1>5, <1>9, <2>1 DEF HeldAlive, SlotPoint, SlotTypeOK
      <3>3. ~LeaseRunsOut(s)
        BY <1>2, <3>2 DEF LeaseRunsOut
      <3> QED
        BY <1>1, <2>1, <3>1, <3>3 DEF OwnCause
    <2>4. ASSUME pc'[e] = "gate" PROVE state'[s] # "EXECUTING"
      <3>1. pc[e] = "gate"
        BY <1>6, <1>9, <2>4 DEF Stays, Dies, Resets, PicksUp, Begins, Succeeds, Proceeds, Edge
      <3>2. ASSUME NEW f \in Execs, estep[f] = s, Begins(f) PROVE FALSE
        <4>1. etok[f] = etok[e] /\ etok[f] > 0
          BY <1>9, <2>1, <3>2 DEF Begins, markExecuting, Owns
        <4>2. f = e
          BY <1>9, <3>2, <4>1 DEF ExecInv, TokensDistinct
        <4> QED
          BY <2>4, <3>2, <4>2 DEF Begins
      <3> QED
        BY <1>1, <2>1, <2>2, <3>1, <3>2 DEF OwnCause
    <2>5. ASSUME pc'[e] \in Advancing PROVE state'[s] \in StepTerminal
      <3>1. pc[e] \in Advancing \/ Succeeds(e)
        BY <1>6, <1>9, <2>5 DEF Stays, Dies, Resets, PicksUp, Begins, Proceeds, Edge, Advancing
      <3> QED
        BY <1>4, <2>1, <2>2, <3>1 DEF Succeeds, RowForward, StepTerminal
    <2> QED
      BY <2>3, <2>4, <2>5
  <1> QED
    BY <1>1, <1>4, <1>7, <1>8, <1>9, TokenMove DEF GentleSlot, SlotTypeOK

\* ... so that while nobody dies a mutating step is claimed once, and an active one held.
LEMMA KeptStep ==
  ASSUME AloneInv, [Next]_vars, Gentle', AllAlive'
  PROVE  Kept'
  <1> USE DEF AloneInv, KnowledgeInv, CountInv
  <1>1. StepFacts /\ ExecInv' /\ \A s \in Steps : OwnCause(s)
    BY NextFacts, ExecStepInv, OwnershipStep
  <1>2. Gentle /\ AllAlive /\ Kept /\ ~Spend("throw")
    BY GentleBefore
  <1>3. DbTypeOK /\ SlotTypeOK /\ RowSent
    BY DEF ExecInv, ExecTypeOK, Inv
  <1>4. ASSUME NEW s \in Mutating, NEW f \in Execs, estep[f] = s, Claims(f)
        PROVE  fencingToken'[s] <= 1 /\ etok'[f] > 0 /\ estep'[f] = s
    <2>1. s \in Steps /\ fencingToken[s] \in Nat
      BY <1>3, StepsAssumption DEF DbTypeOK
    <2>2. \/ state[s] = "PENDING"
          \/ state[s] \in Active /\ lease[s] = "expired"
      BY <1>4 DEF Claims, claimStep, claimable
    <2>3. state[s] \notin Active \/ lease[s] # "expired"
      BY <1>2 DEF Kept, GentleSlot
    <2>4. fencingToken[s] = 0
      BY <1>3, <2>1, <2>2, <2>3 DEF RowSent
    <2>5. fencingToken' = [fencingToken EXCEPT ![s] = NextToken(s)]
      BY <1>4 DEF Claims, claimStep
    <2>6. fencingToken'[s] = 1
      BY <1>3, <2>1, <2>4, <2>5 DEF NextToken, DbTypeOK
    <2> QED
      BY <1>4, <2>1, <2>6 DEF Claims
  <1>5. ASSUME NEW s \in Mutating, fencingToken'[s] = fencingToken[s], state'[s] \in Active
        PROVE  \E e \in Execs : estep'[e] = s /\ etok'[e] > 0
    <2>1. s \in Steps /\ state[s] \in Active
      BY <1>1, <1>5, StepCases, StepsAssumption DEF RowForward
    <2>2. PICK e \in Execs : estep[e] = s /\ etok[e] > 0
      BY <1>2, <2>1 DEF Kept
    <2>3. GentleSlot(e) /\ Alone(e) /\ SlotPoint(e) /\ SlotPoint(e)' /\ SlotToken(e)
      BY <1>1, <1>2 DEF ExecInv
    <2>4. Owns(s, OwnerOf[e], etok[e])
      BY <1>5, <2>1, <2>2, <2>3 DEF Owns, Alone, SlotToken
    <2>5. pc[e] \notin {"orphaned", "idle", "claim"} \cup Repairing \cup Advancing
      BY <1>3, <2>1, <2>2, <2>3 DEF GentleSlot, SlotPoint, Active, StepTerminal
    <2>6. ~(Resets(e) /\ Vacates(e) /\ pc[e] \notin {"idle", "inflight"})
      <3>1. pc[e] = "gate" => state[s] # "EXECUTING"
        BY <2>2, <2>3 DEF GentleSlot
      <3>2. pc[e] # "inflight" => pc[e] \in {"gate", "precheck", "arm", "wave", "terminal"}
        BY <1>3, <2>5 DEF SlotTypeOK, ControlPoint, Advancing
      <3> QED
        BY <1>5, <2>2, <2>4, <3>1, <3>2 DEF Vacates
    <2>7. ~Dies(e)
      BY <1>1, ExecutionAssumption DEF Dies, AllAlive
    <2>8. pc'[e] \notin {"idle", "claim"} \cup Repairing
      BY <1>1, <1>2, <2>5, <2>6, <2>7, GentleMoves
        DEF Stays, PicksUp, Claims, Begins, Succeeds, Proceeds, Edge, Repairing
    <2>9. etok'[e] > 0
      BY <2>3, <2>8 DEF SlotPoint
    <2> QED
      BY <1>1, <2>2, <2>5, <2>9, TokenMove DEF Claims
  <1> SUFFICES ASSUME NEW s \in Mutating
               PROVE  /\ fencingToken'[s] <= 1
                      /\ state'[s] \in Active => \E e \in Execs : estep'[e] = s /\ etok'[e] > 0
    BY DEF Kept
  <1>6. CASE fencingToken'[s] = fencingToken[s]
    BY <1>2, <1>5, <1>6 DEF Kept
  <1>7. CASE fencingToken'[s] # fencingToken[s]
    <2>1. PICK f \in Execs : estep[f] = s /\ Claims(f)
      BY <1>1, <1>7, StepsAssumption DEF OwnCause
    <2> QED
      BY <1>4, <2>1
  <1> QED
    BY <1>6, <1>7

\* A queue that has kept its jobs after a step had kept them before, and keeps them in it.
LEMMA JobsBefore ==
  ASSUME ExecInv, [Next]_vars, JobsKept'
  PROVE  JobsKept /\ \A k \in {"stall", "loss", "evict", "outage"} : ~Spend(k)
  <1>1. {"stall", "loss", "evict", "outage"} \in SUBSET FaultKind
    BY DEF FaultKind
  <1> QED
    BY <1>1, NeverBefore DEF JobsKept

\* While the queue keeps its jobs, a slot holds the job of its step or has finished it.
LEMMA JobHeldStep ==
  ASSUME JobsKept', AloneInv, [Next]_vars, NEW e \in Execs
  PROVE  JobHeld(e)'
  <1> USE DEF AloneInv, KnowledgeInv, CountInv
  <1>1. StepFacts /\ ExecInv'
    BY NextFacts, ExecStepInv
  <1>2. JobsStay /\ HoldLocks /\ JobHeld(e) /\ SlotPoint(e) /\ SlotPoint(e)' /\ SlotTypeOK
    BY <1>1, JobsBefore, JobStep DEF ExecInv, ExecTypeOK
  <1> SUFFICES ASSUME etok'[e] > 0
               PROVE  \/ job'[estep'[e]] = "retained"
                      \/ job'[estep'[e]] = "active" /\ holder'[estep'[e]] = e
    BY DEF JobHeld
  <1>3. CASE Claims(e)
    <2>1. /\ estep[e] \in Steps /\ estep'[e] = estep[e] /\ alive[OwnerOf[e]]
          /\ job[estep[e]] = "active" /\ holder[estep[e]] = e
      BY <1>2, <1>3 DEF Claims, SlotPoint, HoldLocks, Working
    <2> QED
      BY <1>2, <2>1 DEF JobsStay
  <1>4. CASE etok'[e] = etok[e] /\ estep'[e] = estep[e]
    <2>1. estep[e] \in Steps /\ alive[OwnerOf[e]]
      BY <1>2, <1>4 DEF SlotPoint, SlotTypeOK
    <2> QED
      BY <1>2, <1>4, <2>1 DEF JobsStay, JobHeld
  <1> QED
    BY <1>1, <1>3, <1>4, TokenMove

\* The invariant holds at the start ...
LEMMA AloneInit == Init => AloneInv
  <1> SUFFICES ASSUME Init PROVE AloneInv
    OBVIOUS
  <1>1. KnowledgeInv
    BY KnowledgeInit
  <1>2. \A e \in Execs : Alone(e) /\ ClaimedQuiet(e) /\ GentleSlot(e) /\ JobHeld(e)
    BY DEF Init, Alone, ClaimedQuiet, GentleSlot, JobHeld, Repairing
  <1>3. Kept /\ redisUp /\ HoldLocks
    BY StepsAssumption DEF Init, DbInit, Kept, Active, HoldLocks, Working
  <1> QED
    BY <1>1, <1>2, <1>3 DEF AloneInv

\* ... and is kept by every step.
LEMMA AloneInvStep == AloneInv /\ [Next]_vars => AloneInv'
  <1> SUFFICES ASSUME AloneInv, [Next]_vars PROVE AloneInv'
    OBVIOUS
  <1>1. KnowledgeInv'
    BY KnowledgeStep DEF AloneInv
  <1>2. Gentle' => Gentle
    BY GentleBefore DEF AloneInv, KnowledgeInv, CountInv
  <1>7. ExecInv
    BY DEF AloneInv, KnowledgeInv, CountInv
  <1>3. Gentle' \/ JobsKept' => \A e \in Execs : Alone(e)' /\ ClaimedQuiet(e)'
    BY <1>2, <1>7, JobsBefore, AloneStep, ClaimedQuietStep
  <1>4. Gentle' => \A e \in Execs : GentleSlot(e)'
    BY GentleSlotStep
  <1>5. Gentle' /\ AllAlive' => Kept'
    BY KeptStep
  <1>6. JobsKept' => redisUp' /\ HoldLocks' /\ \A e \in Execs : JobHeld(e)'
    <2> SUFFICES ASSUME JobsKept' PROVE redisUp' /\ HoldLocks' /\ \A e \in Execs : JobHeld(e)'
      OBVIOUS
    <2>1. JobsKept /\ \A k \in {"stall", "loss", "evict", "outage"} : ~Spend(k)
      BY <1>7, JobsBefore
    <2>2. redisUp'
      BY <1>7, <2>1, JobStep DEF JobsStay, AloneInv
    <2>3. HoldLocks'
      BY <1>7, <2>1, LockStep DEF AloneInv
    <2> QED
      BY <2>2, <2>3, JobHeldStep
  <1> QED
    BY <1>1, <1>3, <1>4, <1>5, <1>6 DEF AloneInv

\* Without exceptions and leases expired under their holder, or with a queue that keeps its
\* jobs, a claim of a mutating step leaves no other generation of it at work.
THEOREM AloneCorrect == Spec => []AloneInv
  BY AloneInit, AloneInvStep, PTL DEF Spec

\* Duplicate deliveries are harmless: jobs that stall under a living worker, are evicted or
\* lost and Redis outages make no mutation run again, as long as no worker died, no lease
\* ran out under its holder and no exception reached a slot's emergency path.
THEOREM ReexecutedCorrect == Spec => []ReexecutedOnlyAfterExpiry
  <1>1. AloneInv => ReexecutedOnlyAfterExpiry
    BY DEF AloneInv, KnowledgeInv, CountInv, RowSpent, AllAlive, Kept, ReexecutedOnlyAfterExpiry
  <1> QED
    BY <1>1, AloneCorrect, PTL

-----------------------------------------------------------------------------
(***************************************************************************)
(* Cancellation.  A step that is cancelled before it has sent anything and *)
(* whose slots are all before their first wave, or past their last, will   *)
(* never send: the cancel points lie between each of them and a wave.      *)
(***************************************************************************)
Stopped(s) ==
  /\ cancelRequested[RunOf[s]] /\ effects[s] = 0
  /\ \A e \in Execs : estep[e] = s /\ etok[e] > 0
       => pc[e] \in {"gate", "precheck"} \cup Repairing /\ slot[e] = NoLane

\* A stopped step stays stopped, whoever claims it again.
LEMMA StoppedStep ==
  ASSUME ExecInv, [Next]_vars, NEW s \in Steps, Stopped(s)
  PROVE  Stopped(s)'
  <1>1. StepFacts /\ SlotTypeOK /\ LaneTypeOK /\ \A e \in Execs : SlotPoint(e)
    BY NextFacts DEF ExecInv, ExecTypeOK
  <1>2. cancelRequested'[RunOf[s]]
    BY <1>1, Forward, StepsAssumption DEF RunForward, Stopped, StepFacts, ExecInv, Inv
  <1>3. effects'[s] = 0
    <2>1. ASSUME NEW e \in Execs, NEW i \in Lanes, estep[e] = s, Invoke(e, i) PROVE FALSE
      <3>1. slot[e][i].at = "prepare"
        BY <2>1, Zenon DEF Invoke
      <3>2. slot[e] # NoLane
        BY <3>1 DEF NoLane, LaneOff
      <3> QED
        BY <1>1, <2>1, <3>2 DEF Stopped, SlotPoint, SlotTypeOK
    <2> QED
      BY <1>1, <2>1, EffectSteps DEF Stopped
  <1>4. ASSUME NEW e \in Execs, estep'[e] = s, etok'[e] > 0
        PROVE  pc'[e] \in {"gate", "precheck"} \cup Repairing /\ slot'[e] = NoLane
    <2>1. CASE Claims(e)
      BY <1>1, <2>1 DEF Claims, SlotPoint, Repairing
    <2>2. CASE etok'[e] = etok[e] /\ estep'[e] = estep[e] /\ ~Claims(e)
      <3>1. pc[e] \in {"gate", "precheck"} \cup Repairing /\ slot[e] = NoLane
        BY <1>4, <2>2 DEF Stopped
      <3>2. ~Running(e)
        BY <3>1 DEF Running, NoLane, LaneOff
      <3>3. ~Leaves(e) /\ ~Dies(e)
        BY <1>4, <3>2 DEF Leaves, Dies, Resets
      <3>4. ~PicksUp(e) /\ ~Succeeds(e)
        BY <3>1 DEF PicksUp, Succeeds, Repairing
      <3>5. Begins(e) => pc'[e] = "precheck" /\ slot'[e] = slot[e]
        BY DEF Begins, SameLocals
      <3>6. Proceeds(e) => pc'[e] = "repair" /\ slot'[e] = slot[e]
        BY <1>4, <2>2, <3>1 DEF Proceeds, Edge, Repairing, SameLocals, Stopped
      <3> QED
        BY <1>1, <2>2, <3>1, <3>3, <3>4, <3>5, <3>6, PointMoves DEF Stays, SameLocals, Repairing
    <2> QED
      BY <1>1, <1>4, <2>1, <2>2, TokenMove
  <1> QED
    BY <1>2, <1>3, <1>4 DEF Stopped

\* Cancellation stops what has not begun: a step of a cancelled run that has sent nothing
\* and is not executing never reaches the target, through takeovers, chained dispatch,
\* redeliveries and whatever faults follow.  Before, either no exception and no lease
\* expired under its holder may have left a fenced-out generation at work, or the queue
\* must have kept its jobs.
THEOREM NoWorkAfterCancelCorrect == Spec => NoWorkAfterCancel
  <1>1. ASSUME NEW s \in Mutating
        PROVE  Spec =>
                 [](cancelRequested[RunOf[s]] /\ state[s] \in {"PENDING", "CLAIMED"} /\ effects[s] = 0
                      /\ (Gentle \/ JobsKept)
                      => [](effects[s] = 0))
    <2> DEFINE Open == /\ cancelRequested[RunOf[s]] /\ state[s] \in {"PENDING", "CLAIMED"}
                       /\ effects[s] = 0 /\ (Gentle \/ JobsKept)
    <2>1. AloneInv /\ Open => Stopped(s)
      <3> SUFFICES ASSUME AloneInv, Open, NEW e \in Execs, estep[e] = s, etok[e] > 0
                   PROVE  pc[e] \in {"gate", "precheck"} \cup Repairing /\ slot[e] = NoLane
        BY DEF Stopped
      <3>1. Alone(e) /\ ClaimedQuiet(e) /\ RowSent
        BY DEF AloneInv, KnowledgeInv
      <3>2. s \in Steps /\ fencingToken[s] > 0
        BY <3>1, StepsAssumption DEF Alone
      <3>3. state[s] # "PENDING"
        BY <3>1, <3>2 DEF RowSent
      <3> QED
        BY <3>1, <3>3 DEF ClaimedQuiet
    <2>2. AloneInv /\ Stopped(s) /\ [Next]_vars => Stopped(s)'
      BY StoppedStep, StepsAssumption DEF AloneInv, KnowledgeInv, CountInv
    <2>3. Stopped(s) => effects[s] = 0
      BY DEF Stopped
    <2> QED
      BY <2>1, <2>2, <2>3, AloneCorrect, PTL DEF Spec
  <1> QED
    BY <1>1 DEF NoWorkAfterCancel
-----------------------------------------------------------------------------
(***************************************************************************)
(* The queue keeps what a marker promises.  While nothing throws, living   *)
(* workers keep their job locks, Redis keeps its data and no job can stall *)
(* twice (one crash at most), a pending mutating step that was enqueued    *)
(* has a job that is still to be delivered: its delivery is claimed, since *)
(* nothing is enqueued before the steps in front of it succeeded, and the  *)
(* one slot that may die with it gives it back.  Outages of Redis, dying   *)
(* dispatchers and the eviction of finished jobs are not limited.          *)
(***************************************************************************)
Recoverable ==
  (\A k \in {"stall", "loss", "throw"} : MaxFaults[k] = 0) /\ MaxFaults["crash"] <= 1

\* Whatever is queued, or about to be, may run.
QueueOrdered ==
  /\ \A s \in Steps : job[s] # "none" => EarlierSucceeded(s)
  /\ \A r \in Runs : dpc[r] = "enqueue" => \A s \in dset[r] : EarlierSucceeded(s)
  /\ \A o \in Owners : spc[o] \in {"dispatch", "mark"} => \A s \in sset[o] : EarlierSucceeded(s)
  /\ \A e \in Execs : pc[e] \in Advancing => \A n \in NextStep(estep[e]) : EarlierSucceeded(n)

\* A pending step can still be claimed, its job is not finished, and it stalls for the
\* one crash alone.
Queued(s) ==
  state[s] = "PENDING" =>
    /\ leaseOwnerId[s] = NoOwner
    /\ job[s] # "retained"
    /\ dispatchState[s] = "DISPATCHED" => job[s] # "none"
    /\ job[s] = "active" => holder[s] \in Execs
    /\ stalled[s] => /\ faults["crash"] > 0
                     /\ job[s] = "active" => alive[OwnerOf[holder[s]]]

\* A process about to mark a step dispatched has seen it enqueued.
Promised(s) == s \in Mutating /\ state[s] = "PENDING" => job[s] # "none"

Promises ==
  /\ \A r \in Runs : /\ dpc[r] \in {"enqueue", "marker"} => \E s \in Steps : dset[r] = {s}
                     /\ dpc[r] = "marker" => \A s \in dset[r] : Promised(s)
  /\ \A o \in Owners : spc[o] = "mark" => Promised(sstep[o])
  /\ \A e \in Execs : pc[e] = "chainMark" => \A n \in NextStep(estep[e]) : Promised(n)

QueueInv ==
  /\ KnowledgeInv /\ HoldLocks
  /\ \A e \in Execs : pc[e] \notin Repairing
  /\ \A o \in Owners : ~alive[o] => faults["crash"] > 0
  /\ QueueOrdered
  /\ \A s \in Mutating : Queued(s)
  /\ Promises

\* The processes about to enqueue a step, and those about to mark it dispatched.
ToEnqueue(s) ==
  \/ \E r \in Runs : dpc[r] = "enqueue" /\ s \in dset[r]
  \/ \E o \in Owners : spc[o] = "dispatch" /\ s \in sset[o]
  \/ \E e \in Execs : pc[e] = "chainEnqueue" /\ s \in NextStep(estep[e])

ToMark(s) ==
  \/ \E r \in Runs : dpc[r] = "marker" /\ s \in dset[r]
  \/ \E o \in Owners : spc[o] = "mark" /\ sstep[o] = s
  \/ \E e \in Execs : pc[e] = "chainMark" /\ s \in NextStep(estep[e])

\* What may happen to the job of a step.
JobCause(s) ==
  \/ job'[s] = job[s] /\ holder'[s] = holder[s] /\ stalled'[s] = stalled[s]
  \/ /\ ToEnqueue(s) /\ job[s] = "none" /\ job'[s] = "waiting"
     /\ holder'[s] = holder[s] /\ stalled'[s] = stalled[s]
  \/ \E e \in Execs : Deliver(e, s)
  \/ JobStalls(s) \/ JobEvicted(s) \/ RedisDataLoss
  \/ \E e \in Execs : estep[e] = s /\ Working(e) /\ (pc[e] = "claim" => ~claimable(s))

\* A marker that comes to say DISPATCHED of a step that is not claimed.
MarkCause(s) ==
  dispatchState'[s] = "DISPATCHED" /\ state'[s] = "PENDING"
    => dispatchState[s] = "DISPATCHED" \/ ToMark(s)

\* An unchanged queue, an enqueued step and a finished job are such causes.
LEMMA CauseForms ==
  ASSUME ExecInv
  PROVE  /\ UNCHANGED queueVars => \A s \in Steps : JobCause(s)
         /\ UNCHANGED dispatchState => \A s \in Steps : MarkCause(s)
         /\ \A p \in Steps : ToEnqueue(p) /\ Enqueue(p) => \A s \in Steps : JobCause(s)
         /\ \A e \in Execs :
              Working(e) /\ FinishJob(e) /\ (pc[e] = "claim" => ~claimable(estep[e]))
                => \A s \in Steps : JobCause(s)
  <1>1. QueueTypeOK
    BY DEF ExecInv, ExecTypeOK
  <1>2. UNCHANGED queueVars => \A s \in Steps : JobCause(s)
    BY DEF JobCause, queueVars
  <1>3. UNCHANGED dispatchState => \A s \in Steps : MarkCause(s)
    BY DEF MarkCause
  <1>4. ASSUME NEW p \in Steps, ToEnqueue(p), Enqueue(p) PROVE \A s \in Steps : JobCause(s)
    <2> SUFFICES ASSUME NEW s \in Steps, job'[s] # job[s] PROVE JobCause(s)
      BY <1>4 DEF JobCause, Enqueue
    <2>1. s = p /\ job[s] = "none" /\ job'[s] = "waiting" /\ UNCHANGED <<holder, stalled>>
      BY <1>1, <1>4 DEF Enqueue, QueueTypeOK
    <2> QED
      BY <1>4, <2>1 DEF JobCause
  <1>5. ASSUME NEW e \in Execs, Working(e), FinishJob(e), pc[e] = "claim" => ~claimable(estep[e])
        PROVE  \A s \in Steps : JobCause(s)
    <2> SUFFICES ASSUME NEW s \in Steps, s # estep[e] PROVE JobCause(s)
      BY <1>5 DEF JobCause
    <2>1. job'[s] = job[s] /\ holder'[s] = holder[s] /\ stalled'[s] = stalled[s]
      BY <1>1, <1>5 DEF FinishJob, QueueTypeOK
    <2> QED
      BY <2>1 DEF JobCause
  <1> QED
    BY <1>2, <1>3, <1>4, <1>5

\* The causes of a step no job slot takes.
LEMMA OutsideCauses ==
  ASSUME ExecInv
  PROVE  /\ \A r \in Runs : ApiMove(r) => \A s \in Steps : JobCause(s) /\ MarkCause(s)
         /\ QueueMove => \A s \in Steps : JobCause(s) /\ MarkCause(s)
         /\ \A o \in Owners : SweepStep(o) \/ HeartbeatTick(o) \/ Crash(o)
                                => \A s \in Steps : JobCause(s) /\ MarkCause(s)
         /\ \A p \in Steps : LeaseRunsOut(p) => \A s \in Steps : JobCause(s) /\ MarkCause(s)
  <1> DEFINE J == \A s \in Steps : JobCause(s)
             M == \A s \in Steps : MarkCause(s)
  <1>1. /\ UNCHANGED queueVars => J
        /\ UNCHANGED dispatchState => M
        /\ \A p \in Steps : ToEnqueue(p) /\ Enqueue(p) => J
    BY CauseForms
  <1>2. DbTypeOK /\ QueueTypeOK /\ \A r \in Runs : dset[r] \subseteq Steps
    BY DEF ExecInv, ExecTypeOK, Inv, DispatchedOnly, StepsOf
  <1> HIDE DEF J, M
  <1>3. ASSUME NEW r \in Runs, ApiMove(r) PROVE J /\ M
    <2>1. J
      <3>1. UNCHANGED queueVars \/ \E p \in Steps : ToEnqueue(p) /\ Enqueue(p)
        BY <1>2, <1>3 DEF ApiMove, DispatchStep, DispatchRequest, DispatchMark, DispatchQuery,
          DispatchEnqueue, DispatchMarker, DispatchDies, CancelRead, CancelWrite, ToEnqueue
      <3> QED
        BY <1>1, <3>1
    <2>2. M
      <3>1. CASE DispatchMarker(r)
        <4>1. CASE dpc[r] = "nothing" /\ markNothingEnqueued(r, dset[r])
          BY <1>2, <4>1 DEF markNothingEnqueued, MarkCause, M
        <4>2. ASSUME NEW p \in dset[r], dpc[r] = "marker",
                     SetDispatchMarker(p, {"PENDING"}, "DISPATCHED") \/ UNCHANGED dbVars
              PROVE  M
          <5> SUFFICES ASSUME NEW s \in Steps PROVE MarkCause(s)
            BY DEF M
          <5>1. CASE s = p
            BY <4>2, <5>1 DEF MarkCause, ToMark
          <5>2. CASE s # p
            BY <1>2, <4>2, <5>2 DEF MarkCause, SetDispatchMarker, dbVars, DbTypeOK
          <5> QED
            BY <5>1, <5>2
        <4> QED
          BY <3>1, <4>1, <4>2 DEF DispatchMarker
      <3>2. CASE ~DispatchMarker(r)
        <4>1. UNCHANGED dispatchState
          BY <1>3, <3>2 DEF ApiMove, DispatchStep, DispatchRequest, DispatchMark, DispatchQuery,
            DispatchEnqueue, DispatchDies, CancelRead, CancelWrite, markRunDispatching, TouchRun,
            settleCancelledRun, requestCancel, dbVars, stepVars
        <4> QED
          BY <1>1, <4>1
      <3> QED
        BY <3>1, <3>2
    <2> QED
      BY <2>1, <2>2
  <1>4. ASSUME QueueMove PROVE J /\ M
    <2>1. UNCHANGED dispatchState
      BY <1>4 DEF QueueMove, JobStalls, JobEvicted, RedisDown, RedisRecovers, RedisDataLoss, dbVars
    <2>2. ASSUME NEW p \in Steps, JobStalls(p) \/ JobEvicted(p) PROVE J
      <3> SUFFICES ASSUME NEW s \in Steps, s # p PROVE JobCause(s)
        BY <2>2 DEF J, JobCause
      <3>1. job'[s] = job[s] /\ holder'[s] = holder[s] /\ stalled'[s] = stalled[s]
        BY <1>2, <2>2 DEF JobStalls, JobEvicted, QueueTypeOK
      <3> QED
        BY <3>1 DEF JobCause
    <2>3. ASSUME RedisDown \/ RedisRecovers PROVE J
      BY <2>3 DEF RedisDown, RedisRecovers, J, JobCause
    <2>4. ASSUME RedisDataLoss PROVE J
      BY <2>4 DEF J, JobCause
    <2> QED
      BY <1>1, <1>4, <2>1, <2>2, <2>3, <2>4 DEF QueueMove
  <1>5. ASSUME NEW o \in Owners, SweepStep(o) PROVE J /\ M
    <2>1. UNCHANGED queueVars \/ \E p \in Steps : ToEnqueue(p) /\ Enqueue(p)
      BY <1>5 DEF SweepStep, SweepBegin, SweepMark, SweepDiscover, SweepSettle, SweepFindExpired,
        SweepEnd, SweepEnqueue, SweepResolve, ToEnqueue
    <2>2. ASSUME SweepMark(o) PROVE M
      <3> SUFFICES ASSUME NEW s \in Steps PROVE MarkCause(s)
        BY DEF M
      <3>1. CASE s = sstep[o]
        BY <2>2, <3>1 DEF SweepMark, MarkCause, ToMark
      <3>2. CASE s # sstep[o]
        BY <1>2, <2>2, <3>2 DEF SweepMark, MarkCause, SetDispatchMarker, dbVars, DbTypeOK
      <3> QED
        BY <3>1, <3>2
    <2>3. ASSUME NEW p \in Steps, SweepResolve(o, p) PROVE M
      <3>1. \A s \in Steps : dispatchState'[s] = "DISPATCHED" => dispatchState[s] = "DISPATCHED"
        BY <1>2, <2>3 DEF SweepResolve, resolveExpiredLease, dbVars, DbTypeOK
      <3> QED
        BY <3>1 DEF M, MarkCause
    <2>4. ASSUME SweepStep(o), ~SweepMark(o), ~\E p \in Steps : SweepResolve(o, p)
          PROVE  UNCHANGED dispatchState
      BY <2>4 DEF SweepStep, SweepBegin, SweepDiscover, SweepSettle, SweepFindExpired, SweepEnd,
        SweepEnqueue, discoverSettleable, settleRun, TouchRun, dbVars, stepVars
    <2> QED
      BY <1>1, <1>5, <2>1, <2>2, <2>3, <2>4
  <1>6. ASSUME NEW o \in Owners, HeartbeatTick(o) \/ Crash(o) PROVE J /\ M
    BY <1>1, <1>6 DEF HeartbeatTick, heartbeatStep, Crash, forgetDiscovered, dbVars, stepVars
  <1>7. ASSUME NEW p \in Steps, LeaseRunsOut(p) PROVE J /\ M
    BY <1>1, <1>7 DEF LeaseRunsOut, LeaseExpires
  <1> QED
    BY <1>3, <1>4, <1>5, <1>6, <1>7 DEF J, M

\* The causes of a step of a job slot.
LEMMA SlotCauses ==
  ASSUME ExecInv, NEW e \in Execs, SlotStep(e)
  PROVE  \A s \in Steps : JobCause(s) /\ MarkCause(s)
  <1> DEFINE J == \A s \in Steps : JobCause(s)
             M == \A s \in Steps : MarkCause(s)
  <1>1. /\ UNCHANGED queueVars => J
        /\ UNCHANGED dispatchState => M
        /\ \A p \in Steps : ToEnqueue(p) /\ Enqueue(p) => J
        /\ Working(e) /\ FinishJob(e) /\ (pc[e] = "claim" => ~claimable(estep[e])) => J
    BY CauseForms
  <1>2. DbTypeOK /\ QueueTypeOK /\ (pc[e] # "idle" => estep[e] \in Steps) /\ NextStep(estep[e]) \subseteq Steps
    BY DEF ExecInv, ExecTypeOK, Inv, SlotPoint, NextStep, StepsOf
  <1> HIDE DEF J, M
  <1> SUFFICES J /\ M
    BY DEF J, M
  <1>3. ASSUME NEW s \in Steps, Deliver(e, s) PROVE J /\ M
    <2>1. M
      BY <1>1, <1>3 DEF Deliver, dbVars, stepVars
    <2>2. ASSUME NEW p \in Steps PROVE JobCause(p)
      <3>1. CASE p = s
        BY <1>3, <3>1 DEF JobCause
      <3>2. CASE p # s
        BY <1>2, <1>3, <3>2 DEF Deliver, JobCause, QueueTypeOK
      <3> QED
        BY <3>1, <3>2
    <2> QED
      BY <2>1, <2>2 DEF J
  <1>4. ASSUME Claim(e) PROVE J /\ M
    <2>1. J
      BY <1>1, <1>4 DEF Claim, Leave, Working
    <2>2. CASE claimStep(estep[e], OwnerOf[e])
      BY <1>2, <1>4, <2>1, <2>2 DEF Claim, claimStep, M, MarkCause, DbTypeOK
    <2>3. CASE UNCHANGED dbVars
      BY <1>1, <2>1, <2>3 DEF dbVars
    <2> QED
      BY <1>4, <2>2, <2>3 DEF Claim
  <1>5. ASSUME DenyExecution(e) \/ MarkExecuting(e) \/ CancelStop(e) \/ ArmFault(e) PROVE J /\ M
    <2>1. J
      BY <1>1, <1>5 DEF DenyExecution, MarkExecuting, CancelStop, ArmFault, Leave, Working
    <2>2. UNCHANGED dispatchState
      BY <1>5 DEF DenyExecution, MarkExecuting, CancelStop, ArmFault, FencedTerminal,
        writeTerminalState, markExecuting, TouchRun, stepVars, dbVars
    <2> QED
      BY <1>1, <2>1, <2>2
  <1>6. ASSUME \/ PassPrecheck(e) \/ StartWave(e) \/ JoinWave(e) \/ OrphansEnd(e) \/ RepairDerive(e)
               \/ ProcessThrows(e)
               \/ \E i \in Lanes : LaneStep(e, i) \/ InvocationThrows(e, i)
        PROVE  J /\ M
    <2>1. UNCHANGED queueVars
      BY <1>6, Zenon DEF PassPrecheck, StartWave, JoinWave, OrphansEnd, RepairDerive, ProcessThrows,
        LaneStep, Invoke, RecordAttempt, InvocationThrows
    <2>2. UNCHANGED dbVars \/ \E s, k : recordInvocation(s, k)
      BY <1>6, Zenon DEF PassPrecheck, StartWave, JoinWave, OrphansEnd, RepairDerive, ProcessThrows,
        LaneStep, Invoke, RecordAttempt, InvocationThrows
    <2>3. UNCHANGED dispatchState
      BY <2>2 DEF recordInvocation, dbVars
    <2> QED
      BY <1>1, <2>1, <2>3
  <1>7. ASSUME WriteOutcome(e) PROVE J /\ M
    <2>1. J
      BY <1>1, <1>7 DEF WriteOutcome, Leave, Working
    <2>2. UNCHANGED dispatchState
      BY <1>7 DEF WriteOutcome, FencedTerminal, writeTerminalState, TouchRun, stepVars
    <2> QED
      BY <1>1, <2>1, <2>2
  <1>8. ASSUME ChainRead(e) \/ ChainPromote(e) PROVE J /\ M
    <2>1. J
      BY <1>1, <1>8 DEF ChainRead, ChainPromote, Leave, Working
    <2>2. \A s \in Steps : dispatchState'[s] = "DISPATCHED" => dispatchState[s] = "DISPATCHED"
      BY <1>2, <1>8 DEF ChainRead, ChainPromote, SetDispatchMarker, dbVars, DbTypeOK
    <2> QED
      BY <2>1, <2>2 DEF M, MarkCause
  <1>9. ASSUME ChainEnqueue(e) PROVE J /\ M
    <2>1. pc[e] = "chainEnqueue" /\ Working(e) /\ \A n \in NextStep(estep[e]) : ToEnqueue(n)
      BY <1>9 DEF ChainEnqueue, ToEnqueue, Working
    <2>2. Leave(e) \/ \E n \in NextStep(estep[e]) : Enqueue(n)
      BY <1>9 DEF ChainEnqueue
    <2>3. J
      BY <1>1, <1>2, <2>1, <2>2 DEF Leave
    <2>4. UNCHANGED dispatchState
      BY <1>9 DEF ChainEnqueue, TouchRun, stepVars, dbVars
    <2> QED
      BY <1>1, <2>3, <2>4
  <1>10. ASSUME ChainMark(e) PROVE J /\ M
    <2>1. J
      BY <1>1, <1>10 DEF ChainMark, Leave, Working
    <2>2. ASSUME NEW s \in Steps PROVE MarkCause(s)
      <3>1. CASE s \in NextStep(estep[e])
        BY <1>10, <3>1 DEF ChainMark, MarkCause, ToMark
      <3>2. CASE s \notin NextStep(estep[e])
        BY <1>2, <1>10, <3>2 DEF ChainMark, MarkCause, SetDispatchMarker, dbVars, DbTypeOK
      <3> QED
        BY <3>1, <3>2
    <2> QED
      BY <2>1, <2>2 DEF M
  <1>11. ASSUME RepairLoad(e) \/ RepairWrite(e) \/ RepairFails(e) PROVE J /\ M
    <2>1. J
      BY <1>1, <1>11 DEF RepairLoad, RepairWrite, RepairFails, Leave, queueVars, Working
    <2>2. UNCHANGED dispatchState
      BY <1>11 DEF RepairLoad, RepairWrite, RepairFails, FencedTerminal, writeTerminalState, TouchRun,
        stepVars, dbVars
    <2> QED
      BY <1>1, <2>1, <2>2
  <1> QED
    BY <1>3, <1>4, <1>5, <1>6, <1>7, <1>8, <1>9, <1>10, <1>11 DEF SlotStep, ExecStep

\* The causes of any step.
LEMMA Causes ==
  ASSUME ExecInv, [Next]_vars
  PROVE  \A s \in Steps : JobCause(s) /\ MarkCause(s)
  <1>1. CASE UNCHANGED vars
    BY <1>1, CauseForms DEF vars, queueVars, dbVars
  <1>2. CASE Next
    BY <1>2, NextCases, OutsideCauses, SlotCauses
  <1> QED
    BY <1>1, <1>2

\* A mutating step that is pending had its owner, none, when it was pending before.
LEMMA OwnerKept ==
  ASSUME DbTypeOK, [DbNext]_dbVars, NEW s \in Mutating, state'[s] = "PENDING"
  PROVE  leaseOwnerId'[s] = leaseOwnerId[s]
  <1> USE StepsAssumption DEF stepVars, dbVars
  <1>1. ASSUME NEW p \in Steps, DbStepAction(p) PROVE leaseOwnerId'[s] = leaseOwnerId[s]
    <2>1. ASSUME NEW o \in Owners, DbClaim(p, o) PROVE leaseOwnerId'[s] = leaseOwnerId[s]
      BY <2>1 DEF DbClaim, claimStep, DbTypeOK
    <2>2. ASSUME resolveExpiredLease(p) PROVE leaseOwnerId'[s] = leaseOwnerId[s]
      BY <2>2 DEF resolveExpiredLease, DbTypeOK
    <2>3. ASSUME NEW o \in Owners, NEW t \in Issued(p), 
                 \/ heartbeatStep(p, o, t) \/ markExecuting(p, o, t)
                 \/ \E st \in Outcome, k \in Knowledge : writeTerminalState(p, o, t, st, k)
          PROVE  leaseOwnerId'[s] = leaseOwnerId[s]
      BY <2>3 DEF heartbeatStep, markExecuting, writeTerminalState
    <2> QED
      BY <1>1, <2>1, <2>2, <2>3 DEF DbStepAction, SetDispatchMarker, LeaseExpires, recordInvocation
  <1>2. ASSUME NEW r \in Runs, DbRunAction(r) PROVE leaseOwnerId'[s] = leaseOwnerId[s]
    BY <1>2 DEF DbRunAction, markRunDispatching, TouchRun, settleCancelledRun, requestCancel,
      markNothingEnqueued, settleRun
  <1> QED
    BY <1>1, <1>2 DEF DbNext, discoverSettleable, forgetDiscovered

(***************************************************************************)
(* How a process comes to be about to enqueue or to mark a step.           *)
(***************************************************************************)
ApiCause(r) ==
  dpc'[r] \in {"enqueue", "marker"} =>
    \/ dpc'[r] = dpc[r] /\ dset'[r] = dset[r]
    \/ dpc'[r] = "enqueue" /\ \E s \in Frontier(r) : dset'[r] = {s}
    \/ /\ dpc'[r] = "marker" /\ dpc[r] = "enqueue" /\ dset'[r] = dset[r]
       /\ \E s \in dset[r] : Enqueue(s)

SweepCause(o) ==
  /\ spc'[o] \in {"dispatch", "mark"} =>
       \A s \in sset'[o] : \/ Undispatched(s)
                           \/ spc[o] \in {"dispatch", "mark"} /\ s \in sset[o]
  /\ spc'[o] = "mark" =>
       \/ spc[o] = "mark" /\ sstep'[o] = sstep[o]
       \/ spc[o] = "dispatch" /\ sstep'[o] \in sset[o] /\ Enqueue(sstep'[o])

ChainCause(e) ==
  /\ pc'[e] \in Advancing => estep'[e] = estep[e] /\ (pc[e] \in Advancing \/ Succeeds(e))
  /\ pc'[e] = "chainMark" => \/ pc[e] = "chainMark"
                             \/ \E n \in NextStep(estep[e]) : Enqueue(n)

\* A job slot leaves the endpoints and the sweeps alone.
LEMMA SlotOnly ==
  ASSUME NEW e \in Execs, SlotStep(e)
  PROVE  UNCHANGED <<apiVars, sweepVars>>
  <1>1. ASSUME NEW i \in Lanes, LaneStep(e, i) \/ InvocationThrows(e, i)
        PROVE  UNCHANGED <<apiVars, sweepVars>>
    BY <1>1, Zenon DEF LaneStep, Invoke, RecordAttempt, InvocationThrows, execRest
  <1>2. ASSUME ExecStep(e) PROVE UNCHANGED <<apiVars, sweepVars>>
    BY <1>2, Zenon DEF ExecStep, Claim, DenyExecution, MarkExecuting, CancelStop, PassPrecheck,
      ArmFault, StartWave, JoinWave, WriteOutcome, ChainRead, ChainPromote, ChainEnqueue,
      ChainMark, RepairLoad, RepairDerive, RepairWrite, OrphansEnd, execRest
  <1>3. CASE ProcessThrows(e) \/ RepairFails(e)
    BY <1>3 DEF ProcessThrows, RepairFails, execRest
  <1>4. ASSUME NEW s \in Steps, Deliver(e, s) PROVE UNCHANGED <<apiVars, sweepVars>>
    BY <1>4 DEF Deliver
  <1> QED
    BY <1>1, <1>2, <1>3, <1>4 DEF SlotStep

\* The dispatch endpoint enqueues a frontier step, and marks what it enqueued.
LEMMA ApiCauses ==
  ASSUME ExecInv, [Next]_vars, NEW r \in Runs
  PROVE  ApiCause(r)
  <1>1. ApiTypeOK
    BY DEF ExecInv, ExecTypeOK
  <1>2. UNCHANGED <<dpc, dset>> => ApiCause(r)
    BY DEF ApiCause
  <1>3. CASE UNCHANGED vars
    BY <1>2, <1>3 DEF vars, apiVars
  <1>4. ASSUME NEW q \in Runs, ApiMove(q) PROVE ApiCause(r)
    <2>1. CASE q # r
      <3>1. dpc'[r] = dpc[r] /\ dset'[r] = dset[r]
        BY <1>1, <1>4, <2>1 DEF ApiMove, DispatchStep, DispatchRequest, DispatchMark, DispatchQuery,
          DispatchEnqueue, DispatchMarker, DispatchDies, CancelRead, CancelWrite, ApiTypeOK
      <3> QED
        BY <3>1 DEF ApiCause
    <2>2. CASE q = r
      <3>1. CASE DispatchQuery(r)
        BY <1>1, <3>1 DEF DispatchQuery, ApiCause, ApiTypeOK
      <3>2. CASE DispatchEnqueue(r)
        BY <1>1, <3>2 DEF DispatchEnqueue, ApiCause, ApiTypeOK
      <3>3. CASE ~DispatchQuery(r) /\ ~DispatchEnqueue(r)
        BY <1>1, <1>4, <2>2, <3>3 DEF ApiMove, DispatchStep, DispatchRequest, DispatchMark,
          DispatchMarker, DispatchDies, CancelRead, CancelWrite, ApiCause, ApiTypeOK
      <3> QED
        BY <3>1, <3>2, <3>3
    <2> QED
      BY <2>1, <2>2
  <1>5. CASE QueueMove
    BY <1>2, <1>5 DEF QueueMove, JobStalls, JobEvicted, RedisDown, RedisRecovers, RedisDataLoss, apiVars
  <1>6. ASSUME NEW o \in Owners, SweepStep(o) \/ HeartbeatTick(o) \/ Crash(o) PROVE ApiCause(r)
    BY <1>2, <1>6 DEF SweepStep, SweepBegin, SweepMark, SweepDiscover, SweepSettle, SweepFindExpired,
      SweepEnd, SweepEnqueue, SweepResolve, sweepRest, HeartbeatTick, Crash, apiVars
  <1>7. ASSUME NEW s \in Steps, LeaseRunsOut(s) PROVE ApiCause(r)
    BY <1>2, <1>7 DEF LeaseRunsOut, apiVars
  <1>8. ASSUME NEW e \in Execs, SlotStep(e) PROVE ApiCause(r)
    <2>1. UNCHANGED apiVars
      BY <1>8, SlotOnly
    <2> QED
      BY <1>2, <2>1 DEF apiVars
  <1> QED
    BY <1>3, <1>4, <1>5, <1>6, <1>7, <1>8, NextCases

\* A sweep enqueues what it found undispatched, and marks what it enqueued.
LEMMA SweepCauses ==
  ASSUME ExecInv, [Next]_vars, NEW o \in Owners
  PROVE  SweepCause(o)
  <1>1. WorkerTypeOK
    BY DEF ExecInv, ExecTypeOK
  <1>2. UNCHANGED sweepVars => SweepCause(o)
    BY DEF SweepCause, sweepVars
  <1>3. CASE UNCHANGED vars
    BY <1>2, <1>3 DEF vars
  <1>4. ASSUME NEW w \in Owners, SweepStep(w) PROVE SweepCause(o)
    <2>1. CASE w # o
      <3>1. spc'[o] = spc[o] /\ sset'[o] = sset[o] /\ sstep'[o] = sstep[o]
        BY <1>1, <1>4, <2>1 DEF SweepStep, SweepBegin, SweepMark, SweepDiscover, SweepSettle,
          SweepFindExpired, SweepEnd, SweepEnqueue, SweepResolve, WorkerTypeOK, sweepVars
      <3> QED
        BY <3>1 DEF SweepCause
    <2>2. CASE w = o
      <3>1. CASE SweepBegin(o) \/ SweepMark(o)
        BY <1>1, <3>1 DEF SweepBegin, SweepMark, SweepCause, WorkerTypeOK
      <3>2. ASSUME NEW s \in Steps, SweepEnqueue(o, s) PROVE SweepCause(o)
        BY <1>1, <3>2 DEF SweepEnqueue, SweepCause, WorkerTypeOK
      <3>3. CASE SweepDiscover(o) \/ SweepSettle(o) \/ SweepFindExpired(o) \/ SweepEnd(o)
        BY <1>1, <3>3 DEF SweepDiscover, SweepSettle, SweepFindExpired, SweepEnd, SweepCause,
          WorkerTypeOK, sweepVars
      <3>4. ASSUME NEW s \in Steps, SweepResolve(o, s) PROVE SweepCause(o)
        BY <1>1, <3>4 DEF SweepResolve, SweepCause, WorkerTypeOK
      <3> QED
        BY <1>4, <2>2, <3>1, <3>2, <3>3, <3>4 DEF SweepStep
    <2> QED
      BY <2>1, <2>2
  <1>5. ASSUME NEW w \in Owners, HeartbeatTick(w) \/ Crash(w) PROVE SweepCause(o)
    BY <1>1, <1>2, <1>5 DEF HeartbeatTick, Crash, SweepCause, WorkerTypeOK
  <1>6. CASE QueueMove
    BY <1>2, <1>6 DEF QueueMove, JobStalls, JobEvicted, RedisDown, RedisRecovers, RedisDataLoss
  <1>7. ASSUME NEW r \in Runs, ApiMove(r) PROVE SweepCause(o)
    BY <1>2, <1>7 DEF ApiMove, DispatchStep, DispatchRequest, DispatchMark, DispatchQuery,
      DispatchEnqueue, DispatchMarker, DispatchDies, CancelRead, CancelWrite, apiRest
  <1>8. ASSUME NEW s \in Steps, LeaseRunsOut(s) PROVE SweepCause(o)
    BY <1>2, <1>8 DEF LeaseRunsOut
  <1>9. ASSUME NEW e \in Execs, SlotStep(e) PROVE SweepCause(o)
    BY <1>2, <1>9, SlotOnly
  <1> QED
    BY <1>3, <1>4, <1>5, <1>6, <1>7, <1>8, <1>9, NextCases

\* A slot marks the next step only once it enqueued it, and only after its own succeeded.
LEMMA ChainCauses ==
  ASSUME ExecInv, [Next]_vars, ~Spend("throw"), NEW e \in Execs
  PROVE  ChainCause(e)
  <1>1. StepFacts /\ SlotTypeOK /\ SlotPoint(e)
    BY NextFacts DEF ExecInv, ExecTypeOK
  <1>2. ASSUME pc'[e] \in Advancing PROVE estep'[e] = estep[e] /\ (pc[e] \in Advancing \/ Succeeds(e))
    <2>1. slot[e] # NoLane => pc[e] \notin Advancing
      BY <1>1 DEF SlotPoint, Advancing, Repairing
    <2>2. Stays(e) \/ Proceeds(e) \/ Succeeds(e)
      BY <1>1, <1>2, <2>1, PointMoves DEF Dies, Resets, PicksUp, Claims, Begins, Leaves, Advancing,
        Repairing
    <2> QED
      BY <1>2, <2>2 DEF Stays, Proceeds, Succeeds, SameLocals, Edge, Advancing
  <1>3. ASSUME pc'[e] = "chainMark", pc[e] # "chainMark"
        PROVE  \E n \in NextStep(estep[e]) : Enqueue(n)
    <2>1. UNCHANGED execVars => FALSE
      BY <1>3 DEF execVars
    <2>2. CASE UNCHANGED vars
      BY <2>1, <2>2 DEF vars
    <2>3. ~\E r \in Runs : ApiMove(r)
      BY <2>1 DEF ApiMove, DispatchStep, DispatchRequest, DispatchMark, DispatchQuery,
        DispatchEnqueue, DispatchMarker, DispatchDies, CancelRead, CancelWrite, apiRest
    <2>4. ~QueueMove
      BY <2>1 DEF QueueMove, JobStalls, JobEvicted, RedisDown, RedisRecovers, RedisDataLoss
    <2>5. ~\E o \in Owners : SweepStep(o) \/ HeartbeatTick(o)
      BY <2>1 DEF SweepStep, SweepBegin, SweepMark, SweepDiscover, SweepSettle, SweepFindExpired,
        SweepEnd, SweepEnqueue, SweepResolve, sweepRest, HeartbeatTick
    <2>6. ~\E o \in Owners : Crash(o)
      <3>1. ASSUME NEW o \in Owners, Crash(o) PROVE pc'[e] \in {"idle", pc[e]}
        BY <3>1 DEF Crash
      <3> QED
        BY <1>3, <3>1
    <2>7. ~\E s \in Steps : LeaseRunsOut(s)
      BY <2>1 DEF LeaseRunsOut
    <2>8. ASSUME NEW f \in Execs, SlotStep(f) PROVE \E n \in NextStep(estep[e]) : Enqueue(n)
      <3>1. ASSUME NEW q, pc' = [pc EXCEPT ![f] = q], q # "chainMark" PROVE FALSE
        BY <1>1, <1>3, <3>1 DEF SlotTypeOK
      <3>2. ~Leave(f)
        BY <3>1 DEF Leave
      <3>3. ASSUME NEW i \in Lanes PROVE ~LaneStep(f, i) /\ ~InvocationThrows(f, i)
        <4>1. ~LaneStep(f, i)
          BY <2>1, Zenon DEF LaneStep, Invoke, RecordAttempt
        <4>2. ~InvocationThrows(f, i)
          BY <1>3, <3>1 DEF InvocationThrows
        <4> QED
          BY <4>1, <4>2
      <3>4. ~\E s \in Steps : Deliver(f, s)
        BY <3>1 DEF Deliver
      <3>5. ~Claim(f) /\ ~DenyExecution(f) /\ ~MarkExecuting(f) /\ ~CancelStop(f) /\ ~PassPrecheck(f)
        BY <3>1, <3>2 DEF Claim, DenyExecution, MarkExecuting, CancelStop, PassPrecheck
      <3>6. ~ArmFault(f) /\ ~StartWave(f) /\ ~JoinWave(f) /\ ~WriteOutcome(f)
        BY <3>1, <3>2 DEF ArmFault, StartWave, JoinWave, WriteOutcome
      <3>7. ~ChainRead(f) /\ ~ChainPromote(f) /\ ~ChainMark(f)
        BY <3>1, <3>2 DEF ChainRead, ChainPromote, ChainMark
      <3>8. ~RepairLoad(f) /\ ~RepairWrite(f) /\ ~RepairFails(f) /\ ~OrphansEnd(f) /\ ~ProcessThrows(f)
        BY <3>1, <3>2 DEF RepairLoad, RepairWrite, RepairFails, OrphansEnd, ProcessThrows
      <3>9. ~RepairDerive(f)
        <4>1. RepairDerive(f) => pc' = [pc EXCEPT ![f] = "repairWrite"]
          BY Zenon DEF RepairDerive
        <4> QED
          BY <3>1, <4>1
      <3>10. ChainEnqueue(f)
        BY <2>8, <3>3, <3>4, <3>5, <3>6, <3>7, <3>8, <3>9 DEF SlotStep, ExecStep
      <3>11. f = e
        BY <1>1, <1>3, <3>2, <3>10 DEF ChainEnqueue, SlotTypeOK
      <3> QED
        BY <3>2, <3>10, <3>11 DEF ChainEnqueue
    <2> QED
      BY <2>2, <2>3, <2>4, <2>5, <2>6, <2>7, <2>8, NextCases
  <1> QED
    BY <1>2, <1>3 DEF ChainCause

\* A run's steps are numbered apart: at most one follows a step, right after it.
LEMMA NextStepFacts ==
  ASSUME NEW s \in Steps
  PROVE  /\ NextStep(s) \subseteq Steps
         /\ \A n, m \in NextStep(s) : n = m
         /\ \A n \in NextStep(s) : \A p \in StepsOf(RunOf[n]) :
              Index[p] < Index[n] => p = s \/ (p \in StepsOf(RunOf[s]) /\ Index[p] < Index[s])
  BY StepsAssumption DEF NextStep, StepsOf

\* The bounds on faults, in a step.
LEMMA Bounded ==
  ASSUME QueueInv, Recoverable, [Next]_vars
  PROVE  /\ ~Spend("stall") /\ ~Spend("loss") /\ ~Spend("throw")
         /\ faults["crash"] <= faults'["crash"] /\ faults["crash"] \in Nat
         /\ faults["crash"] > 0 => alive' = alive
         /\ alive' # alive => faults'["crash"] > 0
  <1>1. ExecInv /\ faults \in [FaultKind -> Nat]
    BY DEF QueueInv, KnowledgeInv, CountInv, ExecInv, ExecTypeOK, CountTypeOK
  <1>2. {"stall", "loss", "throw", "crash"} \subseteq FaultKind
    BY DEF FaultKind
  <1>3. alive' = alive \/ Spend("crash")
    BY <1>1, AgeStep DEF Crash
  <1>4. Spend("crash") => faults["crash"] = 0 /\ faults'["crash"] = 1
    BY <1>1, <1>2, ExecutionAssumption DEF Spend, Recoverable
  <1>5. ~Spend("stall") /\ ~Spend("loss") /\ ~Spend("throw")
    BY <1>1, <1>2 DEF Spend, Recoverable
  <1> QED
    BY <1>1, <1>2, <1>3, <1>4, <1>5, AgeStep

\* A pending mutating step keeps the job it has, unless a slot picks it up or dies with it.
PendingJob(s) ==
  /\ state[s] = "PENDING" /\ leaseOwnerId'[s] = NoOwner
  /\ \/ job'[s] = job[s] /\ holder'[s] = holder[s] /\ stalled'[s] = stalled[s]
     \/ job'[s] = "waiting" /\ stalled'[s] = stalled[s]
     \/ \E e \in Execs : Deliver(e, s)
     \/ JobStalls(s) /\ ~stalled[s] /\ faults["crash"] > 0

LEMMA PendingJobs ==
  ASSUME QueueInv, Recoverable, [Next]_vars, NEW s \in Mutating, state'[s] = "PENDING"
  PROVE  PendingJob(s)
  <1> USE DEF QueueInv, KnowledgeInv, CountInv, ExecInv, ExecTypeOK
  <1>1. s \in Steps /\ RunOf[s] \in Runs /\ DbTypeOK /\ StepFacts /\ QueueTypeOK
    BY StepsAssumption, NextFacts DEF Inv
  <1>2. state[s] = "PENDING" /\ fencingToken[s] = 0
    BY <1>1, StepCases DEF RowForward, RowSent
  <1>3. Queued(s) /\ leaseOwnerId[s] = NoOwner /\ leaseOwnerId'[s] = NoOwner
    BY <1>1, <1>2, OwnerKept DEF StepFacts, Queued
  <1>4. runState[RunOf[s]] \notin RunTerminal
    BY <1>1, <1>2 DEF Inv, Safe, RunTerminalSound, HasOpen, StepsOf, StepTerminal
  <1>5. ASSUME NEW e \in Execs, estep[e] = s, Working(e), pc[e] = "claim" => ~claimable(s)
        PROVE  FALSE
    <2>1. CASE pc[e] = "claim"
      <3>1. EarlierSucceeded(s)
        BY <1>1, <1>5 DEF HoldLocks, QueueOrdered
      <3> QED
        BY <1>2, <1>3, <1>4, <1>5, <2>1, <3>1 DEF claimable
    <2>2. CASE pc[e] # "claim"
      <3>1. etok[e] > 0 /\ etok[e] <= fencingToken[s]
        BY <1>5, <2>2 DEF Working, SlotPoint, SlotToken
      <3> QED
        BY <1>2, <3>1 DEF SlotTypeOK
    <2> QED
      BY <2>1, <2>2
  <1>6. ASSUME JobStalls(s) PROVE ~stalled[s] /\ faults["crash"] > 0
    <2>1. job[s] = "active" /\ holder[s] \in Execs
      BY <1>2, <1>3, <1>6 DEF JobStalls, Queued
    <2>2. ~alive[OwnerOf[holder[s]]]
      BY <1>6, <2>1, Bounded, NamesAssumption DEF JobStalls
    <2> QED
      BY <1>2, <1>3, <2>1, <2>2, ExecutionAssumption DEF Queued
  <1>7. ~JobEvicted(s) /\ ~RedisDataLoss
    BY <1>2, <1>3, Bounded DEF JobEvicted, RedisDataLoss, Queued
  <1>8. JobCause(s)
    BY <1>1, Causes
  <1> QED
    BY <1>2, <1>3, <1>5, <1>6, <1>7, <1>8 DEF JobCause, PendingJob

\* What was promised stays promised, and an enqueued step has a job.
LEMMA PromiseKept ==
  ASSUME QueueInv, Recoverable, [Next]_vars, NEW s \in Steps, Promised(s) \/ Enqueue(s)
  PROVE  Promised(s)'
  <1>1. QueueTypeOK
    BY DEF QueueInv, KnowledgeInv, CountInv, ExecInv, ExecTypeOK
  <1>2. Enqueue(s) => job'[s] # "none"
    BY <1>1 DEF Enqueue, QueueTypeOK
  <1> SUFFICES ASSUME s \in Mutating, state'[s] = "PENDING", Promised(s) PROVE job'[s] # "none"
    BY <1>2 DEF Promised
  <1>3. PendingJob(s) /\ job[s] # "none"
    BY PendingJobs DEF PendingJob, Promised
  <1>4. ASSUME NEW e \in Execs, Deliver(e, s) PROVE job'[s] # "none"
    BY <1>1, <1>4 DEF Deliver, QueueTypeOK
  <1>5. JobStalls(s) => job'[s] # "none"
    BY <1>1 DEF JobStalls, QueueTypeOK
  <1> QED
    BY <1>3, <1>4, <1>5 DEF PendingJob

\* Nothing is enqueued before the steps in front of it succeeded.
LEMMA OrderedStep ==
  ASSUME QueueInv, Recoverable, [Next]_vars
  PROVE  QueueOrdered'
  <1> USE DEF QueueInv, KnowledgeInv, CountInv, ExecInv, ExecTypeOK
  <1>1. StepFacts /\ \A s \in Steps : EarlierSucceeded(s) => EarlierSucceeded(s)'
    BY NextFacts, StepCases
  <1>2. ExecTypeOK' /\ \A e \in Execs : SlotPoint(e) /\ SlotToken(e)
    BY <1>1 DEF StepFacts
  <1>3. ASSUME NEW s \in Steps, job'[s] # "none" PROVE EarlierSucceeded(s)'
    <2>1. ToEnqueue(s) => EarlierSucceeded(s)
      BY DEF ToEnqueue, QueueOrdered, Advancing
    <2>2. JobCause(s)
      BY Causes
    <2>3. CASE job[s] = "none"
      <3>1. ~RedisDataLoss
        BY Bounded DEF RedisDataLoss
      <3>2. ~JobStalls(s) /\ ~JobEvicted(s) /\ \A e \in Execs : ~Deliver(e, s)
        BY <2>3 DEF JobStalls, JobEvicted, Deliver
      <3>3. \A e \in Execs : Working(e) => estep[e] # s
        BY <2>3 DEF HoldLocks
      <3> QED
        BY <1>1, <1>3, <2>1, <2>2, <2>3, <3>1, <3>2, <3>3 DEF JobCause
    <2>4. CASE job[s] # "none"
      BY <1>1, <2>4 DEF QueueOrdered
    <2> QED
      BY <2>3, <2>4
  <1>4. ASSUME NEW r \in Runs, dpc'[r] = "enqueue" PROVE (\A s \in dset[r] : EarlierSucceeded(s))'
    <2>1. dset'[r] \subseteq Steps
      BY <1>2 DEF ApiTypeOK
    <2>2. \A s \in dset'[r] : EarlierSucceeded(s)
      BY <1>4, ApiCauses DEF ApiCause, Frontier, QueueOrdered
    <2> QED
      BY <1>1, <2>1, <2>2
  <1>5. ASSUME NEW o \in Owners, spc'[o] \in {"dispatch", "mark"}
        PROVE  (\A s \in sset[o] : EarlierSucceeded(s))'
    <2>1. sset'[o] \subseteq Steps
      BY <1>2 DEF WorkerTypeOK
    <2>2. \A s \in sset'[o] : EarlierSucceeded(s)
      BY <1>5, SweepCauses DEF SweepCause, Undispatched, QueueOrdered
    <2> QED
      BY <1>1, <2>1, <2>2
  <1>6. ASSUME NEW e \in Execs, pc'[e] \in Advancing
        PROVE  (\A n \in NextStep(estep[e]) : EarlierSucceeded(n))'
    <2>1. estep'[e] = estep[e] /\ (pc[e] \in Advancing \/ Succeeds(e))
      BY <1>6, Bounded, ChainCauses DEF ChainCause
    <2>2. estep[e] \in Steps
      BY <1>2, <2>1 DEF Succeeds, Advancing, SlotPoint
    <2>3. NextStep(estep[e]) \subseteq Steps
      BY <2>2, NextStepFacts
    <2>4. CASE pc[e] \in Advancing
      BY <1>1, <2>1, <2>3, <2>4 DEF QueueOrdered
    <2>5. CASE Succeeds(e)
      <3>1. PICK s \in Steps : s = estep[e]
        BY <2>2
      <3>2. EarlierSucceeded(s)' /\ state'[s] = "SUCCEEDED"
        BY <1>1, <1>2, <2>5, <3>1 DEF Succeeds, SlotPoint, SlotToken, Repairing
      <3> SUFFICES ASSUME NEW n \in NextStep(s), NEW p \in StepsOf(RunOf[n]), Index[p] < Index[n]
                   PROVE  state'[p] = "SUCCEEDED"
        BY <2>1, <3>1 DEF EarlierSucceeded
      <3>3. p = s \/ (p \in StepsOf(RunOf[s]) /\ Index[p] < Index[s])
        BY NextStepFacts
      <3> QED
        BY <3>2, <3>3 DEF EarlierSucceeded
    <2> QED
      BY <2>1, <2>4, <2>5
  <1> QED
    BY <1>3, <1>4, <1>5, <1>6 DEF QueueOrdered

\* A pending step keeps its job, and a marker its promise.
LEMMA QueuedStep ==
  ASSUME QueueInv, Recoverable, [Next]_vars, NEW s \in Mutating
  PROVE  Queued(s)'
  <1> USE DEF QueueInv, KnowledgeInv, CountInv, ExecInv, ExecTypeOK
  <1> SUFFICES ASSUME state'[s] = "PENDING" PROVE Queued(s)'
    BY DEF Queued
  <1>1. s \in Steps /\ PendingJob(s) /\ QueueTypeOK /\ Queued(s)
    BY StepsAssumption, PendingJobs
  <1>2. /\ faults["crash"] \in Nat /\ faults["crash"] <= faults'["crash"]
        /\ faults["crash"] > 0 => alive' = alive
    BY Bounded
  <1>3. faults'["crash"] \in Nat
    BY NextFacts DEF StepFacts, CountTypeOK, FaultKind
  <1>4. dispatchState'[s] = "DISPATCHED" => job'[s] # "none"
    <2> SUFFICES ASSUME dispatchState'[s] = "DISPATCHED" PROVE job'[s] # "none"
      OBVIOUS
    <2>1. dispatchState[s] = "DISPATCHED" \/ ToMark(s)
      BY <1>1, Causes DEF MarkCause
    <2>2. Promised(s)
      BY <1>1, <2>1 DEF ToMark, Promises, Promised, Queued, PendingJob
    <2> QED
      BY <1>1, <2>2, PromiseKept DEF Promised
  <1>5. CASE job'[s] = job[s] /\ holder'[s] = holder[s] /\ stalled'[s] = stalled[s]
    BY <1>1, <1>2, <1>3, <1>4, <1>5 DEF Queued, PendingJob
  <1>6. CASE job'[s] = "waiting" /\ stalled'[s] = stalled[s]
    BY <1>1, <1>2, <1>3, <1>6 DEF Queued, PendingJob
  <1>7. ASSUME NEW e \in Execs, Deliver(e, s) PROVE Queued(s)'
    <2>1. /\ job'[s] = "active" /\ holder'[s] = e /\ stalled'[s] = stalled[s]
          /\ alive'[OwnerOf[e]]
      BY <1>1, <1>7 DEF Deliver, QueueTypeOK
    <2> QED
      BY <1>1, <1>2, <1>3, <2>1 DEF Queued, PendingJob
  <1>8. CASE JobStalls(s) /\ ~stalled[s] /\ faults["crash"] > 0
    <2>1. job'[s] = "waiting"
      BY <1>1, <1>8 DEF JobStalls, QueueTypeOK
    <2> QED
      BY <1>1, <1>2, <1>3, <1>8, <2>1 DEF Queued, PendingJob
  <1> QED
    BY <1>1, <1>5, <1>6, <1>7, <1>8 DEF PendingJob

\* Whoever is about to mark a step has enqueued it, and it keeps its job.
LEMMA PromisesStep ==
  ASSUME QueueInv, Recoverable, [Next]_vars
  PROVE  Promises'
  <1> USE DEF QueueInv, KnowledgeInv, CountInv, ExecInv, ExecTypeOK
  <1>1. StepFacts /\ ~Spend("throw") /\ \A e \in Execs : SlotPoint(e)
    BY NextFacts, Bounded
  <1>2. \A s \in Steps : Promised(s) \/ Enqueue(s) => Promised(s)'
    BY PromiseKept
  <1>3. ASSUME NEW r \in Runs, dpc'[r] \in {"enqueue", "marker"}
        PROVE  /\ \E s \in Steps : dset'[r] = {s}
               /\ dpc'[r] = "marker" => (\A s \in dset[r] : Promised(s))'
    <2>1. ApiCause(r) /\ Frontier(r) \subseteq Steps
      BY ApiCauses DEF Frontier, StepsOf
    <2>2. \E s \in Steps : dset'[r] = {s}
      BY <1>3, <2>1 DEF ApiCause, Promises
    <2>3. ASSUME dpc'[r] = "marker", NEW s \in Steps, s \in dset'[r] PROVE Promised(s)'
      <3>1. CASE dpc[r] = "marker" /\ dset'[r] = dset[r]
        BY <1>2, <2>2, <2>3, <3>1 DEF Promises
      <3>2. CASE dset'[r] = dset[r] /\ \E p \in dset[r] : Enqueue(p)
        BY <1>2, <2>2, <2>3, <3>2
      <3> QED
        BY <2>1, <2>3, <3>1, <3>2 DEF ApiCause
    <2> QED
      BY <2>2, <2>3
  <1>4. ASSUME NEW o \in Owners, spc'[o] = "mark" PROVE Promised(sstep[o])'
    <2>1. SweepCause(o)
      BY SweepCauses
    <2>2. CASE spc[o] = "mark" /\ sstep'[o] = sstep[o]
      BY <1>2, <2>2 DEF Promises, DispatchedOnly
    <2>3. CASE sstep'[o] \in sset[o] /\ Enqueue(sstep'[o])
      <3>1. sstep'[o] \in Steps
        BY <2>3 DEF WorkerTypeOK
      <3> QED
        BY <1>2, <2>3, <3>1
    <2> QED
      BY <1>4, <2>1, <2>2, <2>3 DEF SweepCause
  <1>5. ASSUME NEW e \in Execs, pc'[e] = "chainMark"
        PROVE  (\A n \in NextStep(estep[e]) : Promised(n))'
    <2>1. ChainCause(e) /\ pc'[e] \in Advancing
      BY <1>1, <1>5, ChainCauses DEF Advancing
    <2>2. estep'[e] = estep[e] /\ estep[e] \in Steps
      BY <1>1, <2>1 DEF ChainCause, Advancing, Succeeds, SlotPoint
    <2>3. NextStep(estep[e]) \subseteq Steps /\ \A n, m \in NextStep(estep[e]) : n = m
      BY <2>2, NextStepFacts
    <2> QED
      BY <1>2, <1>5, <2>1, <2>2, <2>3 DEF ChainCause, Promises
  <1> QED
    BY <1>3, <1>4, <1>5 DEF Promises

\* At the start nothing is queued, promised or dead.
LEMMA QueueInit == Init => QueueInv
  <1> SUFFICES ASSUME Init PROVE QueueInv
    OBVIOUS
  <1>1. KnowledgeInv /\ \A e \in Execs : pc[e] = "idle"
    BY KnowledgeInit DEF Init
  <1>2. HoldLocks /\ (\A e \in Execs : pc[e] \notin Repairing) /\ \A o \in Owners : alive[o]
    BY <1>1 DEF Init, HoldLocks, Working, Repairing
  <1>3. QueueOrdered
    BY <1>1 DEF Init, QueueOrdered, Advancing
  <1>4. \A s \in Mutating : Queued(s)
    BY StepsAssumption DEF Init, DbInit, Queued
  <1>5. Promises
    BY <1>1 DEF Init, Promises
  <1> QED
    BY <1>1, <1>2, <1>3, <1>4, <1>5 DEF QueueInv

\* The invariant is inductive while the faults are recoverable.
LEMMA QueueStepInv == Recoverable /\ QueueInv /\ [Next]_vars => QueueInv'
  <1> SUFFICES ASSUME Recoverable, QueueInv, [Next]_vars PROVE QueueInv'
    OBVIOUS
  <1>1. KnowledgeInv /\ ExecInv /\ HoldLocks
    BY DEF QueueInv, KnowledgeInv, CountInv
  <1>2. KnowledgeInv' /\ HoldLocks'
    BY <1>1, Bounded, KnowledgeStep, LockStep
  <1>3. ASSUME NEW e \in Execs PROVE pc'[e] \notin Repairing
    <2>1. StepFacts /\ ~Spend("throw") /\ pc[e] \notin Repairing
      BY <1>1, NextFacts, Bounded DEF QueueInv
    <2> QED
      BY <1>1, <2>1, PointMoves DEF Stays, Dies, Resets, PicksUp, Claims, Begins, Proceeds, Succeeds,
        Edge, Leaves, Repairing
  <1>4. ASSUME NEW o \in Owners, ~alive'[o] PROVE faults'["crash"] > 0
    <2>1. faults'["crash"] \in Nat
      BY <1>1, NextFacts DEF StepFacts, ExecTypeOK, CountTypeOK, FaultKind
    <2> QED
      BY <1>4, <2>1, Bounded DEF QueueInv
  <1> QED
    BY <1>2, <1>3, <1>4, OrderedStep, QueuedStep, PromisesStep DEF QueueInv

\* A marker is never ahead of the queue: a step marked DISPATCHED that is still pending in
\* an open run has a job that will be delivered.  It holds of mutating steps; a read-only
\* one that is requeued finds its finished job in the way (run ReadOnlyCrash).
THEOREM MarkedWorkHasJobCorrect ==
  ASSUME Recoverable, Mutating = Steps
  PROVE  Spec => []MarkedWorkHasJob
  <1>1. Init => QueueInv
    BY QueueInit
  <1>2. QueueInv /\ [Next]_vars => QueueInv'
    BY QueueStepInv
  <1>3. QueueInv => MarkedWorkHasJob
    BY DEF QueueInv, KnowledgeInv, CountInv, ExecInv, ExecTypeOK, QueueTypeOK, Queued, MarkedWorkHasJob
  <1> QED
    BY <1>1, <1>2, <1>3, PTL DEF Spec
=============================================================================
