----------------------------- MODULE Execution -----------------------------
(***************************************************************************)
(* The processes around the control-plane rows: the API's dispatch and     *)
(* cancel endpoints, BullMQ on Redis, the worker processes with their      *)
(* concurrent job slots, their one shared heartbeat loop and their         *)
(* reconciliation sweep, and the target that mutations take effect at.     *)
(*                                                                         *)
(* Every await of the code that another process can slip into separates    *)
(* two actions.  A transaction, or a read followed only by local work, is  *)
(* one action.  An HTTP attempt is one action: the effect, if any, is      *)
(* counted when the request is handed to the network.                      *)
(***************************************************************************)
EXTENDS ControlDb

CONSTANTS
  Execs,           \* the concurrent job slots of all worker processes
  OwnerOf,         \* the worker process of a slot
  Sweepers,        \* the workers whose reconcile timer fires
  Repeat,          \* repeat of a step's action
  Concurrency,     \* concurrency of a step's action
  RetrySafe,       \* steps with retryPolicy SAFE
  Denied,          \* steps an execution-time gate refuses
  FaultBearing,    \* steps with a fault plan to arm
  NoEffect4xx,     \* the target contract guarantees no effect on a 4xx
  Cancellable,     \* runs whose cancel endpoint may be called
  MayCrash,        \* workers that may die (a restart is a new ownerId)
  TimelyHeartbeat, \* gates finish within a lease, a running heartbeat renews in time
  MaxFaults,       \* bound on each kind of fault
  Together         \* the kinds of fault that one behaviour may combine

FaultKind == {"expiry", "stall", "evict", "outage", "loss", "throw", "apiCrash", "crash"}

ASSUME ExecutionAssumption ==
  /\ OwnerOf \in [Execs -> Owners]
  /\ Sweepers \subseteq Owners /\ MayCrash \subseteq Owners
  /\ Repeat \in Nat \ {0} /\ Concurrency \in Nat \ {0}
  /\ RetrySafe \subseteq Steps /\ Denied \subseteq Steps /\ FaultBearing \subseteq Steps
  /\ Cancellable \subseteq Runs
  /\ NoEffect4xx \in BOOLEAN /\ TimelyHeartbeat \in BOOLEAN
  /\ MaxFaults \in [FaultKind -> Nat] /\ Together \subseteq SUBSET FaultKind

Lanes == 0 .. Concurrency - 1

NoStep == "none"
NoExec == "none"

ASSUME NamesAssumption == NoStep \notin Steps /\ NoExec \notin Execs

VARIABLES
  job,       \* per step: its BullMQ job (deterministic jobId, so at most one)
  holder,    \* the slot whose lock the active job carries
  stalled,   \* the job was already recovered from a stall once
  redisUp,
  dpc, dset, \* dispatch endpoint of a run: control point, steps it read
  cpc,       \* cancel endpoint of a run: the branch chosen from the state it read
  alive,     \* worker processes
  pc, estep, etok, wave, agg, ok, rtok,  \* job slots: processStep and its locals
  slot,      \* per job slot and lane: runInvocationWithRetry and its locals
  hb, hbtok, \* per worker: the generation its only HeartbeatLoop renews
  spc, sset, sstep,  \* per worker: the reconcile sweep and its locals
  effects,   \* mutations that took effect at the target, per step
  faults     \* faults so far

queueVars == <<job, holder, stalled, redisUp>>
apiVars   == <<dpc, dset, cpc>>
execVars  == <<pc, estep, etok, wave, agg, ok, rtok>>
hbVars    == <<hb, hbtok>>
sweepVars == <<spc, sset, sstep>>
vars == <<dbVars, queueVars, apiVars, alive, execVars, slot, hbVars, sweepVars, effects, faults>>

LaneState == {"off", "prepare", "record", "done"}
Lane == [at : LaneState, attempt : 0 .. SAFE_RETRY_MAX_ATTEMPTS,
         outcome : {"SUCCEEDED", "FAILED"}, knowledge : Knowledge]
LaneOff == [at |-> "off", attempt |-> 0, outcome |-> "FAILED", knowledge |-> "NOT_APPLICABLE"]

Init ==
  /\ DbInit
  /\ job = [s \in Steps |-> "none"]
  /\ holder = [s \in Steps |-> NoExec]
  /\ stalled = [s \in Steps |-> FALSE]
  /\ redisUp = TRUE
  /\ dpc = [r \in Runs |-> "idle"] /\ dset = [r \in Runs |-> {}]
  /\ cpc = [r \in Runs |-> "idle"]
  /\ alive = [o \in Owners |-> TRUE]
  /\ pc = [e \in Execs |-> "idle"]
  /\ estep = [e \in Execs |-> NoStep] /\ etok = [e \in Execs |-> 0]
  /\ wave = [e \in Execs |-> 0]
  /\ agg = [e \in Execs |-> "NOT_APPLICABLE"] /\ ok = [e \in Execs |-> TRUE]
  /\ rtok = [e \in Execs |-> 0]
  /\ slot = [e \in Execs |-> [i \in Lanes |-> LaneOff]]
  /\ hb = [o \in Owners |-> NoStep] /\ hbtok = [o \in Owners |-> 0]
  /\ spc = [o \in Owners |-> "idle"] /\ sset = [o \in Owners |-> {}]
  /\ sstep = [o \in Owners |-> NoStep]
  /\ effects = [s \in Steps |-> 0]
  /\ faults = [k \in FaultKind |-> 0]

\* No fault of these kinds has happened so far.
Never(K) == \A k \in K : faults[k] = 0

\* A fault of kind k happens, within its bound and beside those it may combine with.
Spend(k) ==
  /\ faults[k] < MaxFaults[k]
  /\ \E K \in Together : k \in K /\ Never(FaultKind \ K)
  /\ faults' = [faults EXCEPT ![k] = @ + 1]

-----------------------------------------------------------------------------
(* BullMQ on Redis (external) *)

\* Mutant: a failed queue.add is taken for a success.
Enqueue_swallowed(s) ==
  /\ job' = [job EXCEPT ![s] = IF @ = "none" /\ redisUp THEN "waiting" ELSE @]
  /\ UNCHANGED <<holder, stalled, redisUp>>

\* queue.add with the step's jobId: ignored while a job with that id exists,
\* a finished one that is still retained included.
Enqueue(s) ==
  /\ redisUp
  /\ job' = [job EXCEPT ![s] = IF @ = "none" THEN "waiting" ELSE @]
  /\ UNCHANGED <<holder, stalled, redisUp>>

\* A waiting job is handed to a free slot.
Deliver(e, s) ==
  /\ redisUp /\ alive[OwnerOf[e]]
  /\ pc[e] = "idle" /\ job[s] = "waiting"
  /\ job' = [job EXCEPT ![s] = "active"] /\ holder' = [holder EXCEPT ![s] = e]
  /\ pc' = [pc EXCEPT ![e] = "claim"] /\ estep' = [estep EXCEPT ![e] = s]
  /\ UNCHANGED <<dbVars, stalled, redisUp, apiVars, alive, etok, wave, agg, ok, rtok, slot,
                 hbVars, sweepVars, effects, faults>>

\* The processor returned or threw: attempts is 1, so either way the job is finished
\* and retained, unless its lock was lost or Redis cannot be reached.
FinishJob(e) ==
  LET s == estep[e] IN
  /\ IF holder[s] = e
       THEN /\ holder' = [holder EXCEPT ![s] = NoExec]
            /\ job' = [job EXCEPT ![s] = IF redisUp THEN "retained" ELSE @]
       ELSE UNCHANGED <<holder, job>>
  /\ UNCHANGED <<stalled, redisUp>>

\* An active job whose lock is not renewed goes back to waiting, once (maxStalledCount).
\* A living processor may lose its lock too.
JobStalls(s) ==
  /\ redisUp /\ job[s] = "active"
  /\ IF holder[s] # NoExec /\ alive[OwnerOf[holder[s]]] THEN Spend("stall") ELSE UNCHANGED faults
  /\ job' = [job EXCEPT ![s] = IF stalled[s] THEN "retained" ELSE "waiting"]
  /\ stalled' = [stalled EXCEPT ![s] = TRUE]
  /\ holder' = [holder EXCEPT ![s] = NoExec]
  /\ UNCHANGED <<dbVars, redisUp, apiVars, alive, execVars, slot, hbVars, sweepVars, effects>>

\* removeOnComplete / removeOnFail: a retained job is dropped by age or count.
JobEvicted(s) ==
  /\ redisUp /\ job[s] = "retained" /\ Spend("evict")
  /\ job' = [job EXCEPT ![s] = "none"] /\ stalled' = [stalled EXCEPT ![s] = FALSE]
  /\ UNCHANGED <<dbVars, holder, redisUp, apiVars, alive, execVars, slot, hbVars, sweepVars, effects>>

RedisDown ==
  /\ redisUp /\ Spend("outage") /\ redisUp' = FALSE
  /\ UNCHANGED <<dbVars, job, holder, stalled, apiVars, alive, execVars, slot, hbVars,
                 sweepVars, effects>>

RedisRecovers ==
  /\ ~redisUp /\ redisUp' = TRUE
  /\ UNCHANGED <<dbVars, job, holder, stalled, apiVars, alive, execVars, slot, hbVars,
                 sweepVars, effects, faults>>

\* Redis loses its data: every job is gone.
RedisDataLoss ==
  /\ Spend("loss")
  /\ job' = [s \in Steps |-> "none"] /\ holder' = [s \in Steps |-> NoExec]
  /\ stalled' = [s \in Steps |-> FALSE]
  /\ UNCHANGED <<dbVars, redisUp, apiVars, alive, execVars, slot, hbVars, sweepVars, effects>>

-----------------------------------------------------------------------------
(* API: POST runs/:id/dispatch and runs/:id/cancel *)

apiRest == <<alive, execVars, slot, hbVars, sweepVars, effects, faults>>

\* Mutant: the run is not marked DISPATCHING before its step is enqueued.
DispatchRequest_unmarked(r) ==
  /\ dpc[r] = "idle" /\ runState[r] = "SNAPSHOT_PINNED"
  /\ dpc' = [dpc EXCEPT ![r] = "query"]
  /\ UNCHANGED <<dbVars, queueVars, dset, cpc, apiRest>>

DispatchRequest(r) ==
  /\ dpc[r] = "idle" /\ runState[r] = "SNAPSHOT_PINNED"
  /\ dpc' = [dpc EXCEPT ![r] = "mark"]
  /\ UNCHANGED <<dbVars, queueVars, dset, cpc, apiRest>>

DispatchMark(r) ==
  /\ dpc[r] = "mark" /\ dpc' = [dpc EXCEPT ![r] = "query"]
  /\ \/ markRunDispatching(r)
     \/ runState[r] # "SNAPSHOT_PINNED" /\ UNCHANGED dbVars
  /\ UNCHANGED <<queueVars, dset, cpc, apiRest>>

Frontier(r) ==
  {s \in StepsOf(r) : /\ state[s] = "PENDING" /\ dispatchState[s] \in {"PENDING", "RECONCILE"}
                      /\ EarlierSucceeded(s)}

\* The frontier has at most one step.  When it is empty the endpoint reads the steps
\* that are still undispatched instead.
DispatchQuery(r) ==
  LET pending == {s \in StepsOf(r) : state[s] = "PENDING" /\ dispatchState[s] = "PENDING"} IN
  /\ dpc[r] = "query"
  /\ IF Frontier(r) # {}
       THEN /\ \E s \in Frontier(r) : dset' = [dset EXCEPT ![r] = {s}]
            /\ dpc' = [dpc EXCEPT ![r] = "enqueue"]
       ELSE /\ dset' = [dset EXCEPT ![r] = pending]
            /\ dpc' = [dpc EXCEPT ![r] = IF pending = {} THEN "idle" ELSE "nothing"]
  /\ UNCHANGED <<dbVars, queueVars, cpc, apiRest>>

DispatchEnqueue(r) ==
  /\ dpc[r] = "enqueue"
  /\ \/ /\ \E s \in dset[r] : Enqueue(s)
        /\ dpc' = [dpc EXCEPT ![r] = "marker"] /\ UNCHANGED <<dbVars, dset>>
     \/ /\ ~redisUp /\ TouchRun(r)          \* lastDispatchError
        /\ dpc' = [dpc EXCEPT ![r] = "idle"] /\ dset' = [dset EXCEPT ![r] = {}]
        /\ UNCHANGED queueVars
  /\ UNCHANGED <<cpc, apiRest>>

DispatchMarker(r) ==
  /\ dpc[r] \in {"marker", "nothing"}
  /\ IF dpc[r] = "nothing"
       THEN markNothingEnqueued(r, dset[r])
       ELSE \E s \in dset[r] :
              \/ SetDispatchMarker(s, {"PENDING"}, "DISPATCHED")
              \/ dispatchState[s] # "PENDING" /\ UNCHANGED dbVars
  /\ dpc' = [dpc EXCEPT ![r] = "idle"] /\ dset' = [dset EXCEPT ![r] = {}]
  /\ UNCHANGED <<queueVars, cpc, apiRest>>

\* The API process dies between two awaits of a dispatch.
DispatchDies(r) ==
  /\ dpc[r] # "idle" /\ Spend("apiCrash")
  /\ dpc' = [dpc EXCEPT ![r] = "idle"] /\ dset' = [dset EXCEPT ![r] = {}]
  /\ UNCHANGED <<dbVars, queueVars, cpc, alive, execVars, slot, hbVars, sweepVars, effects>>

\* The cancel endpoint reads the run state and picks its branch ...
CancelRead(r) ==
  /\ r \in Cancellable /\ cpc[r] = "idle" /\ runState[r] \notin RunTerminal
  /\ cpc' = [cpc EXCEPT ![r] = IF runState[r] = "RUNNING" THEN "request" ELSE "settle"]
  /\ UNCHANGED <<dbVars, queueVars, dpc, dset, apiRest>>

\* ... and writes in a later transaction that does not look at it again.
CancelWrite(r) ==
  /\ \/ cpc[r] = "settle" /\ settleCancelledRun(r)
     \/ cpc[r] = "request" /\ requestCancel(r)
  /\ cpc' = [cpc EXCEPT ![r] = "idle"]
  /\ UNCHANGED <<queueVars, dpc, dset, apiRest>>

-----------------------------------------------------------------------------
(* Worker: one job slot running processStep *)

execRest == <<apiVars, alive, sweepVars>>

Running(e) == \E i \in Lanes : slot[e][i].at \in {"prepare", "record"}

\* The job slot is done with its step.  Invocations a rejected Promise.all left
\* behind keep running; the slot is reused only once they ended.
Leave(e) ==
  /\ FinishJob(e)
  /\ pc' = [pc EXCEPT ![e] = IF Running(e) THEN "orphaned" ELSE "idle"]
  /\ IF Running(e)
       THEN UNCHANGED <<estep, etok, slot>>
       ELSE /\ estep' = [estep EXCEPT ![e] = NoStep] /\ etok' = [etok EXCEPT ![e] = 0]
            /\ slot' = [slot EXCEPT ![e] = [i \in Lanes |-> LaneOff]]
  /\ wave' = [wave EXCEPT ![e] = 0] /\ agg' = [agg EXCEPT ![e] = "NOT_APPLICABLE"]
  /\ ok' = [ok EXCEPT ![e] = TRUE] /\ rtok' = [rtok EXCEPT ![e] = 0]

\* HeartbeatLoop.start and stop: one loop per process, whatever step it renewed.
StartHeartbeat(e) ==
  /\ hb' = [hb EXCEPT ![OwnerOf[e]] = estep[e]] /\ hbtok' = [hbtok EXCEPT ![OwnerOf[e]] = etok[e]]
StopHeartbeat(o) ==
  /\ hb' = [hb EXCEPT ![o] = NoStep] /\ hbtok' = [hbtok EXCEPT ![o] = 0]

\* writeTerminalState by generation (owner of e, t): written, or rejected with a
\* stale_writer_event.
FencedTerminal(e, t, st, k) ==
  LET s == estep[e] IN
  \/ writeTerminalState(s, OwnerOf[e], t, st, k)
  \/ ~CanWriteTerminal(s, OwnerOf[e], t) /\ TouchRun(RunOf[s])

Claim(e) ==
  LET s == estep[e] IN
  /\ alive[OwnerOf[e]] /\ pc[e] = "claim"
  /\ \/ /\ claimStep(s, OwnerOf[e])
        /\ pc' = [pc EXCEPT ![e] = "gate"] /\ etok' = [etok EXCEPT ![e] = NextToken(s)]
        /\ UNCHANGED <<queueVars, estep, wave, agg, ok, rtok, slot>>
     \/ ~claimable(s) /\ Leave(e) /\ UNCHANGED dbVars
  /\ UNCHANGED <<execRest, hbVars, effects, faults>>

\* The production, fault-plan and fault-hook gates of runClaimed, before markExecuting.
DenyExecution(e) ==
  /\ alive[OwnerOf[e]] /\ pc[e] = "gate" /\ estep[e] \in Denied
  /\ FencedTerminal(e, etok[e], "FAILED", "KNOWN_ABSENT")
  /\ Leave(e)
  /\ UNCHANGED <<execRest, hbVars, effects, faults>>

MarkExecuting(e) ==
  LET s == estep[e] IN
  /\ alive[OwnerOf[e]] /\ pc[e] = "gate" /\ s \notin Denied
  /\ \/ /\ markExecuting(s, OwnerOf[e], etok[e])
        /\ StartHeartbeat(e)
        /\ pc' = [pc EXCEPT ![e] = "precheck"]
        /\ UNCHANGED <<queueVars, estep, etok, wave, agg, ok, rtok, slot>>
     \/ /\ ~(Owns(s, OwnerOf[e], etok[e]) /\ state[s] = "CLAIMED")
        /\ TouchRun(RunOf[s]) /\ Leave(e) /\ UNCHANGED hbVars
  /\ UNCHANGED <<execRest, effects, faults>>

\* Mutant: the cancel points are never reached.
CancelSeen_never(r) == FALSE

\* cancelRequested(runId), read before any network work and before each wave.
CancelSeen(r) == cancelRequested[r]

\* attempts > 0 exactly when a wave was joined.
CancelKnowledge(e) ==
  IF wave[e] > 0 /\ estep[e] \in Mutating THEN "INDETERMINATE" ELSE "KNOWN_ABSENT"

\* Cooperative cancel points: the step closes as CANCELLED.
CancelStop(e) ==
  /\ alive[OwnerOf[e]] /\ pc[e] \in {"precheck", "wave"} /\ CancelSeen(RunOf[estep[e]])
  /\ FencedTerminal(e, etok[e], "CANCELLED", CancelKnowledge(e))
  /\ Leave(e) /\ StopHeartbeat(OwnerOf[e])
  /\ UNCHANGED <<execRest, effects, faults>>

PassPrecheck(e) ==
  /\ alive[OwnerOf[e]] /\ pc[e] = "precheck" /\ ~CancelSeen(RunOf[estep[e]])
  /\ pc' = [pc EXCEPT ![e] = IF estep[e] \in FaultBearing THEN "arm" ELSE "wave"]
  /\ UNCHANGED <<dbVars, queueVars, execRest, estep, etok, wave, agg, ok, rtok, slot, hbVars,
                 effects, faults>>

\* Arming is a hard precondition: a refusal fails the step before anything is sent.
ArmFault(e) ==
  /\ alive[OwnerOf[e]] /\ pc[e] = "arm"
  /\ \/ /\ pc' = [pc EXCEPT ![e] = "wave"]
        /\ UNCHANGED <<dbVars, queueVars, estep, etok, wave, agg, ok, rtok, slot, hbVars>>
     \/ /\ FencedTerminal(e, etok[e], "FAILED", "KNOWN_ABSENT")
        /\ Leave(e) /\ StopHeartbeat(OwnerOf[e])
  /\ UNCHANGED <<execRest, effects, faults>>

\* waveSize = min(concurrency, repeat - waveIndex * concurrency) invocations start.
StartWave(e) ==
  /\ alive[OwnerOf[e]] /\ pc[e] = "wave" /\ ~CancelSeen(RunOf[estep[e]])
  /\ slot' = [slot EXCEPT ![e] = [i \in Lanes |->
       IF wave[e] * Concurrency + i < Repeat
       THEN [LaneOff EXCEPT !.at = "prepare", !.attempt = 1] ELSE LaneOff]]
  /\ pc' = [pc EXCEPT ![e] = "inflight"]
  /\ UNCHANGED <<dbVars, queueVars, execRest, estep, etok, wave, agg, ok, rtok, hbVars,
                 effects, faults>>

\* executeHttp and classifyInvocation of one attempt.
Invoke(e, i) ==
  LET s == estep[e] IN
  /\ alive[OwnerOf[e]] /\ slot[e][i].at = "prepare"
  /\ \E a \in executeHttp(NoEffect4xx) :
       /\ slot' = [slot EXCEPT ![e][i] =
            [@ EXCEPT !.at = "record", !.outcome = a.outcome,
                      !.knowledge = classifyInvocation(s \in Mutating, NoEffect4xx, a)]]
       /\ effects' = [effects EXCEPT ![s] = IF a.effect /\ s \in Mutating THEN @ + 1 ELSE @]
  /\ UNCHANGED <<dbVars, queueVars, execRest, execVars, hbVars, faults>>

\* recordInvocation, then decideRetry: the attempt is recorded whoever owns the step.
RecordAttempt(e, i) ==
  LET s == estep[e]
      l == slot[e][i]
      again == decideRetry(s \in RetrySafe, s \in Mutating, l.outcome, l.knowledge, l.attempt)
  IN
  /\ alive[OwnerOf[e]] /\ l.at = "record"
  /\ recordInvocation(s, l.knowledge)
  /\ slot' = [slot EXCEPT ![e][i] =
       IF again THEN [LaneOff EXCEPT !.at = "prepare", !.attempt = l.attempt + 1]
       ELSE [@ EXCEPT !.at = "done"]]
  /\ UNCHANGED <<queueVars, execRest, execVars, hbVars, effects, faults>>

\* An invocation throws: its references do not resolve, or the row cannot be
\* written.  Promise.all rejects at once; its siblings keep running.
InvocationThrows(e, i) ==
  /\ alive[OwnerOf[e]] /\ slot[e][i].at \in {"prepare", "record"} /\ Spend("throw")
  /\ slot' = [slot EXCEPT ![e][i] = LaneOff]
  /\ IF pc[e] = "inflight"
       THEN pc' = [pc EXCEPT ![e] = "repair"] /\ StopHeartbeat(OwnerOf[e])
       ELSE UNCHANGED <<pc, hbVars>>
  /\ UNCHANGED <<dbVars, queueVars, execRest, estep, etok, wave, agg, ok, rtok, effects>>

\* The knowledge worstKnowledge aggregates a set of values to.
WorstOf(K) == CHOOSE k \in K : \A j \in K : worstKnowledge(k, j) = k

Started(e) == {i \in Lanes : slot[e][i].at # "off"}

\* Mutant: one success is enough.
WaveOk_some(e) == \E i \in Started(e) : slot[e][i].outcome = "SUCCEEDED"

\* No invocation of the wave failed.
WaveOk(e) == \A i \in Started(e) : slot[e][i].outcome = "SUCCEEDED"

\* Promise.all resolved: aggregate the wave, then go on, or stop at a failure.
JoinWave(e) ==
  LET more == WaveOk(e) /\ (wave[e] + 1) * Concurrency < Repeat IN
  /\ alive[OwnerOf[e]] /\ pc[e] = "inflight" /\ ~Running(e)
  /\ ok' = [ok EXCEPT ![e] = WaveOk(e)]
  /\ agg' = [agg EXCEPT ![e] = WorstOf({@} \cup {slot[e][i].knowledge : i \in Started(e)})]
  /\ wave' = [wave EXCEPT ![e] = IF more THEN @ + 1 ELSE @]
  /\ slot' = [slot EXCEPT ![e] = [i \in Lanes |-> LaneOff]]
  /\ pc' = [pc EXCEPT ![e] = IF more THEN "wave" ELSE "terminal"]
  /\ UNCHANGED <<dbVars, queueVars, execRest, estep, etok, rtok, hbVars, effects, faults>>

FinalKnowledge(e) ==
  IF ok[e] THEN IF estep[e] \in Mutating THEN "KNOWN_OCCURRED" ELSE "NOT_APPLICABLE"
  ELSE agg[e]

\* The step's outcome; only a SUCCEEDED step goes on to dispatch the next one.
WriteOutcome(e) ==
  LET s == estep[e]
      owned == CanWriteTerminal(s, OwnerOf[e], etok[e])
  IN
  /\ alive[OwnerOf[e]] /\ pc[e] = "terminal"
  /\ FencedTerminal(e, etok[e], IF ok[e] THEN "SUCCEEDED" ELSE "FAILED", FinalKnowledge(e))
  /\ IF owned /\ ok[e]
       THEN /\ pc' = [pc EXCEPT ![e] = "chain"]
            /\ UNCHANGED <<queueVars, estep, etok, wave, agg, ok, rtok, slot, hbVars>>
       ELSE Leave(e) /\ StopHeartbeat(OwnerOf[e])
  /\ UNCHANGED <<execRest, effects, faults>>

NextStep(s) == {n \in StepsOf(RunOf[s]) : Index[n] = Index[s] + 1}

\* dispatchNextOrderedStep: read the next step, ...
ChainRead(e) ==
  LET dispatchable == \E n \in NextStep(estep[e]) :
                        state[n] = "PENDING" /\ dispatchState[n] # "DISPATCHED"
  IN
  /\ alive[OwnerOf[e]] /\ pc[e] = "chain"
  /\ IF dispatchable
       THEN /\ pc' = [pc EXCEPT ![e] = "promote"]
            /\ UNCHANGED <<queueVars, estep, etok, wave, agg, ok, rtok, slot, hbVars>>
       ELSE Leave(e) /\ StopHeartbeat(OwnerOf[e])
  /\ UNCHANGED <<dbVars, execRest, effects, faults>>

\* ... leave a durable RECONCILE marker before touching the queue, ...
ChainPromote(e) ==
  /\ alive[OwnerOf[e]] /\ pc[e] = "promote"
  /\ \E n \in NextStep(estep[e]) :
       \/ /\ SetDispatchMarker(n, {"PENDING"}, "RECONCILE")
          /\ pc' = [pc EXCEPT ![e] = "chainEnqueue"]
          /\ UNCHANGED <<queueVars, estep, etok, wave, agg, ok, rtok, slot, hbVars>>
       \/ /\ dispatchState[n] # "PENDING" /\ UNCHANGED dbVars
          /\ Leave(e) /\ StopHeartbeat(OwnerOf[e])
  /\ UNCHANGED <<execRest, effects, faults>>

\* ... enqueue, or record the failure and rely on the marker, ...
ChainEnqueue(e) ==
  /\ alive[OwnerOf[e]] /\ pc[e] = "chainEnqueue"
  /\ \E n \in NextStep(estep[e]) :
       \/ /\ Enqueue(n)
          /\ pc' = [pc EXCEPT ![e] = "chainMark"]
          /\ UNCHANGED <<dbVars, estep, etok, wave, agg, ok, rtok, slot, hbVars>>
       \/ /\ ~redisUp
          /\ IF dispatchState[n] = "RECONCILE" THEN TouchRun(RunOf[n]) ELSE UNCHANGED dbVars
          /\ Leave(e) /\ StopHeartbeat(OwnerOf[e])
  /\ UNCHANGED <<execRest, effects, faults>>

\* ... and mark the step dispatched.
ChainMark(e) ==
  /\ alive[OwnerOf[e]] /\ pc[e] = "chainMark"
  /\ \E n \in NextStep(estep[e]) :
       \/ SetDispatchMarker(n, {"RECONCILE"}, "DISPATCHED")
       \/ dispatchState[n] # "RECONCILE" /\ UNCHANGED dbVars
  /\ Leave(e) /\ StopHeartbeat(OwnerOf[e])
  /\ UNCHANGED <<execRest, effects, faults>>

\* A database call of processStep rejects: the exception reaches processJob.  The
\* heartbeat is stopped by the finally block, entered after markExecuting.
ProcessThrows(e) ==
  /\ alive[OwnerOf[e]] /\ Spend("throw")
  /\ pc[e] \in {"claim", "gate", "precheck", "wave", "terminal", "chain", "promote", "chainMark"}
  /\ pc' = [pc EXCEPT ![e] = "repair"]
  /\ IF pc[e] \in {"claim", "gate"} THEN UNCHANGED hbVars ELSE StopHeartbeat(OwnerOf[e])
  /\ UNCHANGED <<dbVars, queueVars, execRest, estep, etok, wave, agg, ok, rtok, slot, effects>>

\* repairEmergencyStepTerminal: load the row, with the token it carries NOW and its
\* pre-send proof; a step that is not active is left alone.
RepairLoad(e) ==
  LET s == estep[e] IN
  /\ alive[OwnerOf[e]] /\ pc[e] = "repair"
  /\ IF state[s] \in Active
       THEN /\ pc' = [pc EXCEPT ![e] = "repairRows"]
            /\ rtok' = [rtok EXCEPT ![e] = fencingToken[s]]
            /\ ok' = [ok EXCEPT ![e] = ~executingAt[s]]
            /\ UNCHANGED <<queueVars, estep, etok, wave, agg, slot>>
       ELSE Leave(e)
  /\ UNCHANGED <<dbVars, execRest, hbVars, effects, faults>>

\* Then read the invocation rows, and derive the knowledge from both.
RepairDerive(e) ==
  LET s == estep[e] IN
  /\ alive[OwnerOf[e]] /\ pc[e] = "repairRows"
  /\ pc' = [pc EXCEPT ![e] = "repairWrite"]
  /\ agg' = [agg EXCEPT ![e] =
       deriveEmergencyStepTruth(s \in Mutating, invocations[s], ok[e])]
  /\ UNCHANGED <<dbVars, queueVars, execRest, estep, etok, wave, ok, rtok, slot, hbVars,
                 effects, faults>>

RepairWrite(e) ==
  /\ alive[OwnerOf[e]] /\ pc[e] = "repairWrite"
  /\ FencedTerminal(e, rtok[e], "FAILED", agg[e])
  /\ Leave(e)
  /\ UNCHANGED <<execRest, hbVars, effects, faults>>

\* The emergency path fails too: the lease sweep is what is left.
RepairFails(e) ==
  /\ alive[OwnerOf[e]] /\ pc[e] \in {"repair", "repairRows", "repairWrite"} /\ Spend("throw")
  /\ Leave(e)
  /\ UNCHANGED <<dbVars, execRest, hbVars, effects>>

OrphansEnd(e) ==
  /\ pc[e] = "orphaned" /\ ~Running(e)
  /\ pc' = [pc EXCEPT ![e] = "idle"]
  /\ estep' = [estep EXCEPT ![e] = NoStep] /\ etok' = [etok EXCEPT ![e] = 0]
  /\ slot' = [slot EXCEPT ![e] = [i \in Lanes |-> LaneOff]]
  /\ UNCHANGED <<dbVars, queueVars, execRest, wave, agg, ok, rtok, hbVars, effects, faults>>

-----------------------------------------------------------------------------
(* Worker: heartbeat, lease time, crash *)

\* One tick of the loop: renew, or stop because the generation was fenced out.
\* Nothing tells the invocations of that generation to stop.
HeartbeatTick(o) ==
  /\ alive[o] /\ hb[o] # NoStep
  /\ \/ heartbeatStep(hb[o], o, hbtok[o]) /\ UNCHANGED hbVars
     \/ ~CanWriteTerminal(hb[o], o, hbtok[o]) /\ StopHeartbeat(o) /\ UNCHANGED dbVars
  /\ UNCHANGED <<queueVars, apiVars, alive, execVars, slot, sweepVars, effects, faults>>

\* The generation that holds the row is still being processed by a living worker.
HeldAlive(s) ==
  \E e \in Execs : /\ alive[OwnerOf[e]] /\ estep[e] = s /\ etok[e] = fencingToken[s]
                   /\ pc[e] \notin {"idle", "orphaned"}

Renewed(s) == \E o \in Owners : alive[o] /\ hb[o] = s /\ hbtok[o] = fencingToken[s]

\* An abandoned lease runs out; one whose holder lives only by delay, and not under
\* a timely heartbeat.
LeaseRunsOut(s) ==
  /\ state[s] \in Active /\ LeaseExpires(s)
  /\ IF HeldAlive(s)
       THEN Spend("expiry") /\ (TimelyHeartbeat => state[s] = "EXECUTING" /\ ~Renewed(s))
       ELSE UNCHANGED faults
  /\ UNCHANGED <<queueVars, apiVars, alive, execVars, slot, hbVars, sweepVars, effects>>

Crash(o) ==
  LET mine == {e \in Execs : OwnerOf[e] = o} IN
  /\ o \in MayCrash /\ alive[o] /\ Spend("crash")
  /\ alive' = [alive EXCEPT ![o] = FALSE]
  /\ pc' = [e \in Execs |-> IF e \in mine THEN "idle" ELSE pc[e]]
  /\ estep' = [e \in Execs |-> IF e \in mine THEN NoStep ELSE estep[e]]
  /\ etok' = [e \in Execs |-> IF e \in mine THEN 0 ELSE etok[e]]
  /\ wave' = [e \in Execs |-> IF e \in mine THEN 0 ELSE wave[e]]
  /\ agg' = [e \in Execs |-> IF e \in mine THEN "NOT_APPLICABLE" ELSE agg[e]]
  /\ ok' = [e \in Execs |-> IF e \in mine THEN TRUE ELSE ok[e]]
  /\ rtok' = [e \in Execs |-> IF e \in mine THEN 0 ELSE rtok[e]]
  /\ slot' = [e \in Execs |-> IF e \in mine THEN [i \in Lanes |-> LaneOff] ELSE slot[e]]
  /\ StopHeartbeat(o)
  /\ spc' = [spc EXCEPT ![o] = "idle"] /\ sset' = [sset EXCEPT ![o] = {}]
  /\ sstep' = [sstep EXCEPT ![o] = NoStep]
  /\ forgetDiscovered(o)
  /\ UNCHANGED <<queueVars, apiVars, effects>>

-----------------------------------------------------------------------------
(* Worker: the reconciliation sweep *)

sweepRest == <<apiVars, alive, execVars, slot, hbVars, effects, faults>>

SweepBegin(o) ==
  /\ o \in Sweepers /\ alive[o] /\ spc[o] = "idle"
  /\ spc' = [spc EXCEPT ![o] = "dispatch"]
  /\ sset' = [sset EXCEPT ![o] = {s \in Steps : Undispatched(s)}]
  /\ UNCHANGED <<dbVars, queueVars, sstep, sweepRest>>

\* Each discovered step is enqueued without looking at its row again.
SweepEnqueue(o, s) ==
  /\ alive[o] /\ spc[o] = "dispatch" /\ s \in sset[o]
  /\ sset' = [sset EXCEPT ![o] = @ \ {s}]
  /\ \/ /\ Enqueue(s) /\ UNCHANGED dbVars
        /\ spc' = [spc EXCEPT ![o] = "mark"] /\ sstep' = [sstep EXCEPT ![o] = s]
     \/ /\ ~redisUp
        /\ IF dispatchState[s] \in {"PENDING", "RECONCILE"}
             THEN TouchRun(RunOf[s]) ELSE UNCHANGED dbVars
        /\ UNCHANGED <<queueVars, spc, sstep>>
  /\ UNCHANGED sweepRest

SweepMark(o) ==
  LET s == sstep[o]
      from == {"PENDING", "RECONCILE"}
  IN
  /\ alive[o] /\ spc[o] = "mark"
  /\ \/ state[s] = "PENDING" /\ SetDispatchMarker(s, from, "DISPATCHED")
     \/ ~(state[s] = "PENDING" /\ dispatchState[s] \in from) /\ UNCHANGED dbVars
  /\ spc' = [spc EXCEPT ![o] = "dispatch"] /\ sstep' = [sstep EXCEPT ![o] = NoStep]
  /\ UNCHANGED <<queueVars, sset, sweepRest>>

SweepDiscover(o) ==
  /\ alive[o] /\ spc[o] = "dispatch" /\ sset[o] = {}
  /\ discoverSettleable(o)
  /\ spc' = [spc EXCEPT ![o] = "settle"]
  /\ UNCHANGED <<queueVars, sset, sstep, sweepRest>>

SweepSettle(o) ==
  /\ alive[o] /\ spc[o] = "settle"
  /\ \E r \in Runs, closeOpen \in BOOLEAN : settleRun(o, r, closeOpen)
  /\ UNCHANGED <<queueVars, sweepVars, sweepRest>>

SweepFindExpired(o) ==
  /\ alive[o] /\ spc[o] = "settle" /\ discovered[o] = {}
  /\ spc' = [spc EXCEPT ![o] = "lease"]
  /\ sset' = [sset EXCEPT ![o] = {s \in Steps : LeaseExpired(s)}]
  /\ UNCHANGED <<dbVars, queueVars, sstep, sweepRest>>

\* resolveExpiredLease checks the row again inside its transaction.
SweepResolve(o, s) ==
  /\ alive[o] /\ spc[o] = "lease" /\ s \in sset[o]
  /\ resolveExpiredLease(s) \/ (~LeaseExpired(s) /\ UNCHANGED dbVars)
  /\ sset' = [sset EXCEPT ![o] = @ \ {s}]
  /\ UNCHANGED <<queueVars, spc, sstep, sweepRest>>

SweepEnd(o) ==
  /\ alive[o] /\ spc[o] = "lease" /\ sset[o] = {}
  /\ spc' = [spc EXCEPT ![o] = "idle"]
  /\ UNCHANGED <<dbVars, queueVars, sset, sstep, sweepRest>>

-----------------------------------------------------------------------------

ExecStep(e) ==
  \/ Claim(e) \/ DenyExecution(e) \/ MarkExecuting(e) \/ CancelStop(e) \/ PassPrecheck(e)
  \/ ArmFault(e) \/ StartWave(e) \/ JoinWave(e) \/ WriteOutcome(e)
  \/ ChainRead(e) \/ ChainPromote(e) \/ ChainEnqueue(e) \/ ChainMark(e)
  \/ RepairLoad(e) \/ RepairDerive(e) \/ RepairWrite(e) \/ OrphansEnd(e)

LaneStep(e, i) == Invoke(e, i) \/ RecordAttempt(e, i)

SweepStep(o) ==
  \/ SweepBegin(o) \/ SweepMark(o) \/ SweepDiscover(o) \/ SweepSettle(o)
  \/ SweepFindExpired(o) \/ SweepEnd(o)
  \/ \E s \in Steps : SweepEnqueue(o, s) \/ SweepResolve(o, s)

DispatchStep(r) ==
  DispatchMark(r) \/ DispatchQuery(r) \/ DispatchEnqueue(r) \/ DispatchMarker(r)

\* What the environment may do and never has to.
Disturbance ==
  \/ RedisDown \/ RedisDataLoss
  \/ \E s \in Steps : JobEvicted(s)
  \/ \E o \in Owners : Crash(o)
  \/ \E e \in Execs : ProcessThrows(e) \/ RepairFails(e)
  \/ \E e \in Execs, i \in Lanes : InvocationThrows(e, i)
  \/ \E r \in Runs : DispatchDies(r) \/ DispatchRequest(r) \/ CancelRead(r)

Next ==
  \/ \E e \in Execs : ExecStep(e)
  \/ \E e \in Execs, s \in Steps : Deliver(e, s)
  \/ \E e \in Execs, i \in Lanes : LaneStep(e, i)
  \/ \E o \in Owners : SweepStep(o) \/ HeartbeatTick(o)
  \/ \E r \in Runs : DispatchStep(r) \/ CancelWrite(r)
  \/ \E s \in Steps : JobStalls(s) \/ LeaseRunsOut(s)
  \/ RedisRecovers
  \/ Disturbance

Spec == Init /\ [][Next]_vars

\* Every process that lives keeps taking its steps; Redis outages end; BullMQ hands out
\* waiting jobs and notices lost locks; database time passes abandoned leases.
Fairness ==
  /\ \A e \in Execs : WF_vars(ExecStep(e)) /\ \A i \in Lanes : WF_vars(LaneStep(e, i))
  /\ \A o \in Owners : WF_vars(SweepStep(o))
  /\ \A r \in Runs : WF_vars(DispatchStep(r)) /\ WF_vars(CancelWrite(r))
  /\ \A s \in Steps : /\ WF_vars(\E e \in Execs : Deliver(e, s))
                      /\ WF_vars(JobStalls(s) /\ faults' = faults)
                      /\ WF_vars(LeaseRunsOut(s) /\ faults' = faults)
  /\ WF_vars(RedisRecovers)

FairSpec == Spec /\ Fairness

-----------------------------------------------------------------------------
(* Preconditions some properties have *)

\* Each worker process has one job slot (WORKER_CONCURRENCY is 1).
OneSlotPerWorker == \A e, f \in Execs : OwnerOf[e] = OwnerOf[f] => e = f

\* Living workers have kept the locks of their jobs.
LocksKept == Never({"stall", "loss"})

\* The queue has kept what it was given, finished jobs included.
JobsKept == Never({"stall", "loss", "evict", "outage"})

\* Nothing has thrown, and no lease has run out under its holder.
Gentle == Never({"expiry", "throw"})

-----------------------------------------------------------------------------
(* Properties *)

\* Fencing (ADR-0009): two generations processing the same step hold different tokens,
\* none holds a token newer than the row's, and the one holding the row's token is the
\* row's owner as long as the step is active.
GenerationsFenced ==
  \A e \in Execs : etok[e] > 0 =>
    /\ etok[e] <= fencingToken[estep[e]]
    /\ etok[e] = fencingToken[estep[e]] /\ state[estep[e]] \in Active
         => leaseOwnerId[estep[e]] = OwnerOf[e]
    /\ \A f \in Execs \ {e} : etok[f] > 0 /\ estep[f] = estep[e] => etok[f] # etok[e]

\* Ordered steps at the target: a mutation of a step reaches the target only after every
\* earlier step of its run SUCCEEDED, from stale generations and orphaned invocations too.
NoPrematureRequest ==
  [][\A s \in Steps : effects'[s] # effects[s] =>
       \A p \in StepsOf(RunOf[s]) : Index[p] < Index[s] => state[p] = "SUCCEEDED"]_vars

\* A step recorded SUCCEEDED really did all its repeats, whatever generation wrote it.
SucceededOccurred ==
  \A s \in Mutating : state[s] = "SUCCEEDED" => effects[s] >= Repeat

\* KNOWN_ABSENT is never recorded over a mutation that took effect, for steps claimed
\* once in runs not settled by the cancel endpoint: neither the retry loop, nor the
\* aggregation over concurrent invocations, nor the emergency path after an exception
\* launders an effect away (ADR-0008).  The emergency path knows its step by the name of
\* the process, which the other slots of the process share: a job that was redelivered to
\* one of them from under a living slot is out of its reach.
KnownAbsentTruthful ==
  OneSlotPerWorker \/ LocksKept =>
    \A s \in Mutating :
      sideEffectKnowledge[s] = "KNOWN_ABSENT" /\ fencingToken[s] <= 1
        /\ runState[RunOf[s]] # "CANCELLED" => effects[s] = 0

\* Retries never duplicate: one claim of a step causes at most its declared number of
\* effects, with retryPolicy SAFE and concurrent lanes as well.
RetryNeverDuplicates ==
  \A s \in Mutating : fencingToken[s] <= 1 => effects[s] <= Repeat

\* Duplicate deliveries are harmless: jobs that stall under a living worker, are evicted
\* or lost make no mutation run again, unless a worker died, a lease ran out under its
\* holder or an exception reached the emergency path.
ReexecutedOnlyAfterExpiry ==
  (\A o \in Owners : alive[o]) /\ Gentle => \A s \in Mutating : effects[s] <= Repeat

\* A dispatch marker is never ahead of the queue: a pending step of an open run that is
\* marked DISPATCHED has a job that will still be delivered (no Redis data loss, no
\* failed claim, no job that stalls twice, and only mutating steps).
MarkedWorkHasJob ==
  \A s \in Steps :
    state[s] = "PENDING" /\ dispatchState[s] = "DISPATCHED" /\ runState[RunOf[s]] \notin RunTerminal
      => job[s] \in {"waiting", "active"}

\* Cancellation stops what has not begun: a step of the cancelled run that has sent
\* nothing and is not executing will never reach the target, however its job is
\* redelivered and taken over from then on, by a worker beside the old generation too.
\* What came before must not have left a fenced-out generation at work: it takes an
\* exception or an expired lease, and a second delivery of the job.
NoWorkAfterCancel ==
  \A s \in Mutating :
    [](cancelRequested[RunOf[s]] /\ state[s] \in {"PENDING", "CLAIMED"} /\ effects[s] = 0
         /\ (Gentle \/ JobsKept)
         => [](effects[s] = 0))

\* A dispatched run settles: whatever crashes, outages, lost locks and expired leases
\* happen, reconciliation brings it to a terminal state (ADR-0003).
RunSettles ==
  \A r \in Runs : runState[r] = "DISPATCHING" ~> runState[r] \in RunTerminal

\* docs/architecture.md line 131: a step cancelled while a mutating request was in flight
\* is INDETERMINATE, so KNOWN_ABSENT on a CANCELLED step means no effect.
CancelTruthful ==
  \A s \in Mutating :
    state[s] = "CANCELLED" /\ sideEffectKnowledge[s] = "KNOWN_ABSENT" => effects[s] = 0

\* step-processor.ts lines 1152-1153: the heartbeat renews the lease while the step
\* executes, so with timely heartbeats a step being executed by a living worker never
\* has an expired lease.
LeaseKeptWhileExecuting ==
  \A e \in Execs :
    pc[e] \in {"precheck", "arm", "wave", "inflight", "terminal"}
      /\ etok[e] = fencingToken[estep[e]] /\ state[estep[e]] = "EXECUTING"
      => lease[estep[e]] # "expired"
=============================================================================
