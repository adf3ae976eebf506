----------------------------- MODULE ControlDb -----------------------------
(***************************************************************************)
(* The control-plane rows in PostgreSQL and the transactions of the engine *)
(* that write them: claim.ts, transitions.ts, recovery.ts, run-create.ts,  *)
(* and the dispatch-marker transactions of the API, the worker and the     *)
(* reconciler.  Every transaction takes the per-run advisory lock first,   *)
(* so each is one atomic step.                                             *)
(*                                                                         *)
(* The module is an open system: Next lets any caller issue any            *)
(* transaction in any order, holding any owner id and any fencing token    *)
(* ever issued.  What is shown here therefore rests on the transactions'   *)
(* own WHERE clauses alone.  Module Execution adds the callers.            *)
(*                                                                         *)
(* Columns left out: timestamps other than executingAt and the lease,      *)
(* attemptCount, error texts, and intentOutcome (always the terminal       *)
(* state).  The step state DISPATCHED and the value 'enqueue-pending' are  *)
(* read by queries but written by no code, so they do not appear.          *)
(***************************************************************************)
EXTENDS Naturals, SideEffects

CONSTANTS
  Runs,         \* experiment_run ids
  Steps,        \* experiment_step_run ids
  RunOf,        \* the run of a step
  Index,        \* the sequence number of a step within its run
  Mutating,     \* the steps whose frozen snapshot action is MUTATING
  Owners,       \* worker ownerIds (one per worker process)
  ProvModulus   \* provenanceRevision P is kept modulo this bound

ASSUME StepsAssumption ==
  /\ RunOf \in [Steps -> Runs]
  /\ Index \in [Steps -> Nat]
  /\ \A s, p \in Steps : RunOf[s] = RunOf[p] /\ Index[s] = Index[p] => s = p
  /\ Mutating \subseteq Steps

ASSUME ProvAssumption == ProvModulus \in Nat \ {0}

\* leaseOwnerId IS NULL.
NoOwner == "null"

ASSUME OwnersAssumption == NoOwner \notin Owners

Active == {"CLAIMED", "EXECUTING"}
StepTerminal == {"SUCCEEDED", "FAILED", "CANCELLED"}
StepState == {"PENDING"} \cup Active \cup StepTerminal
RunTerminal == {"COMPLETED", "FAILED", "CANCELLED"}
RunState == {"SNAPSHOT_PINNED", "DISPATCHING", "RUNNING"} \cup RunTerminal
DispatchState == {"PENDING", "RECONCILE", "DISPATCHED"}
Lease == {"none", "live", "expired"}

VARIABLES
  state,                \* step state
  leaseOwnerId,
  fencingToken,
  lease,                \* leaseExpiresAt compared with database time
  dispatchState,
  sideEffectKnowledge,  \* "null" until a terminal write
  executingAt,          \* executingAt IS NOT NULL; never cleared
  invocations,          \* knowledge values of the recorded step_invocation rows
  runState,
  cancelRequested,      \* cancelRequestedAt IS NOT NULL
  prov,                 \* provenanceRevision P of the run's truth-input head
  discovered            \* per sweeper: the rows settleRuns read, not settled yet

stepVars == <<state, leaseOwnerId, fencingToken, lease, dispatchState,
              sideEffectKnowledge, executingAt, invocations>>
runVars  == <<runState, cancelRequested>>
dbVars   == <<state, leaseOwnerId, fencingToken, lease, dispatchState,
              sideEffectKnowledge, executingAt, invocations,
              runState, cancelRequested, prov, discovered>>

StepsOf(r) == {s \in Steps : RunOf[s] = r}

\* Mutant: the subquery is dropped.
EarlierSucceeded_dropped(s) == TRUE

\* The NOT EXISTS (... prior.sequence < s.sequence AND prior.state <> 'SUCCEEDED')
\* subquery of the claim, of the reconciler and of the dispatchers.
EarlierSucceeded(s) ==
  \A p \in StepsOf(RunOf[s]) : Index[p] < Index[s] => state[p] = "SUCCEEDED"

\* Mutant: a takeover keeps the token of the generation it replaces.
NextToken_kept(s) == IF fencingToken[s] = 0 THEN 1 ELSE fencingToken[s]

\* The fencing token the claim's UPDATE computes.
NextToken(s) == fencingToken[s] + 1

\* advanceProvenanceRevision: one advance per transaction that wrote a row.
AdvanceP(r) == prov' = [prov EXCEPT ![r] = (@ + 1) % ProvModulus]

\* The state createRun commits: the run pinned to its snapshot, its steps pending.
DbInit ==
  /\ state = [s \in Steps |-> "PENDING"]
  /\ leaseOwnerId = [s \in Steps |-> NoOwner]
  /\ fencingToken = [s \in Steps |-> 0]
  /\ lease = [s \in Steps |-> "none"]
  /\ dispatchState = [s \in Steps |-> "PENDING"]
  /\ sideEffectKnowledge = [s \in Steps |-> "null"]
  /\ executingAt = [s \in Steps |-> FALSE]
  /\ invocations = [s \in Steps |-> {}]
  /\ runState = [r \in Runs |-> "SNAPSHOT_PINNED"]
  /\ cancelRequested = [r \in Runs |-> FALSE]
  /\ prov = [r \in Runs |-> 1 % ProvModulus]
  /\ discovered = [o \in Owners |-> {}]

-----------------------------------------------------------------------------
(* Dispatch markers *)

\* markRunDispatching when the run is still SNAPSHOT_PINNED; otherwise it writes nothing.
markRunDispatching(r) ==
  /\ runState[r] = "SNAPSHOT_PINNED"
  /\ runState' = [runState EXCEPT ![r] = "DISPATCHING"]
  /\ AdvanceP(r)
  /\ UNCHANGED <<stepVars, cancelRequested, discovered>>

\* Mutant: the writer forgets advanceProvenanceRevision.
SetDispatchMarker_silent(s, from, to) ==
  /\ dispatchState[s] \in from
  /\ dispatchState' = [dispatchState EXCEPT ![s] = to]
  /\ UNCHANGED <<state, leaseOwnerId, fencingToken, lease, sideEffectKnowledge,
                 executingAt, invocations, runVars, prov, discovered>>

\* A guarded dispatch-marker write: from the markers in `from` to `to`.
SetDispatchMarker(s, from, to) ==
  /\ dispatchState[s] \in from
  /\ dispatchState' = [dispatchState EXCEPT ![s] = to]
  /\ AdvanceP(RunOf[s])
  /\ UNCHANGED <<state, leaseOwnerId, fencingToken, lease, sideEffectKnowledge,
                 executingAt, invocations, runVars, discovered>>

\* dispatchRunDurably found no frontier step: the steps it had read as undispatched
\* are all marked RECONCILE, whatever their marker is by now.
markNothingEnqueued(r, pending) ==
  /\ dispatchState' = [s \in Steps |-> IF s \in pending THEN "RECONCILE" ELSE dispatchState[s]]
  /\ AdvanceP(r)
  /\ UNCHANGED <<state, leaseOwnerId, fencingToken, lease, sideEffectKnowledge,
                 executingAt, invocations, runVars, discovered>>

\* A write that touches only columns left out of the model, or appends a row no
\* code reads back (lastDispatchError, stale_writer_event): P advances.
TouchRun(r) == AdvanceP(r) /\ UNCHANGED <<stepVars, runVars, discovered>>

-----------------------------------------------------------------------------
(* Ownership: claim, heartbeat, and the fenced writes of a generation *)

\* Mutant: the subquery on earlier steps never matches.
claimable_unordered(s) ==
  /\ \/ state[s] = "PENDING"
     \/ state[s] \in Active /\ lease[s] = "expired"
  /\ leaseOwnerId[s] = NoOwner \/ lease[s] = "expired"
  /\ runState[RunOf[s]] \notin RunTerminal

\* Mutant: a held lease does not exclude other claimers.
claimable_heldToo(s) ==
  /\ state[s] \in {"PENDING"} \cup Active
  /\ runState[RunOf[s]] \notin RunTerminal
  /\ EarlierSucceeded(s)

claimable(s) ==
  /\ \/ state[s] = "PENDING"
     \/ state[s] \in Active /\ lease[s] = "expired"
  /\ leaseOwnerId[s] = NoOwner \/ lease[s] = "expired"
  /\ runState[RunOf[s]] \notin RunTerminal
  /\ EarlierSucceeded(s)

claimStep(s, o) ==
  /\ claimable(s)
  /\ state' = [state EXCEPT ![s] = "CLAIMED"]
  /\ leaseOwnerId' = [leaseOwnerId EXCEPT ![s] = o]
  /\ lease' = [lease EXCEPT ![s] = "live"]
  /\ fencingToken' = [fencingToken EXCEPT ![s] = NextToken(s)]
  /\ dispatchState' = [dispatchState EXCEPT ![s] = "DISPATCHED"]
  /\ runState' = [runState EXCEPT ![RunOf[s]] = IF @ = "DISPATCHING" THEN "RUNNING" ELSE @]
  /\ AdvanceP(RunOf[s])
  /\ UNCHANGED <<sideEffectKnowledge, executingAt, invocations, cancelRequested, discovered>>

\* The fencing condition of every write a generation makes.
Owns(s, o, t) == leaseOwnerId[s] = o /\ fencingToken[s] = t

\* A renewal does not look at leaseExpiresAt: it revives an expired lease
\* nobody has taken over or resolved yet.
heartbeatStep(s, o, t) ==
  /\ Owns(s, o, t) /\ state[s] \in Active
  /\ lease' = [lease EXCEPT ![s] = "live"]
  /\ AdvanceP(RunOf[s])
  /\ UNCHANGED <<state, leaseOwnerId, fencingToken, dispatchState, sideEffectKnowledge,
                 executingAt, invocations, runVars, discovered>>

markExecuting(s, o, t) ==
  /\ Owns(s, o, t) /\ state[s] = "CLAIMED"
  /\ state' = [state EXCEPT ![s] = "EXECUTING"]
  /\ executingAt' = [executingAt EXCEPT ![s] = TRUE]
  /\ AdvanceP(RunOf[s])
  /\ UNCHANGED <<leaseOwnerId, fencingToken, lease, dispatchState, sideEffectKnowledge,
                 invocations, runVars, discovered>>

\* Mutant: the UPDATE has no state condition.
CanWriteTerminal_anyState(s, o, t) == Owns(s, o, t)

\* The condition of writeTerminalState; when it fails the caller records a
\* stale_writer_event (TouchRun) and gets a LeaseLostError.
CanWriteTerminal(s, o, t) == Owns(s, o, t) /\ state[s] \in Active

writeTerminalState(s, o, t, st, k) ==
  /\ CanWriteTerminal(s, o, t)
  /\ state' = [state EXCEPT ![s] = st]
  /\ sideEffectKnowledge' = [sideEffectKnowledge EXCEPT ![s] = k]
  /\ AdvanceP(RunOf[s])
  /\ UNCHANGED <<leaseOwnerId, fencingToken, lease, dispatchState, executingAt,
                 invocations, runVars, discovered>>

\* Mutant: the row is written without its classification.
recordInvocation_unclassified(s, k) ==
  /\ invocations' = [invocations EXCEPT ![s] = @ \cup {"null"}]
  /\ AdvanceP(RunOf[s])
  /\ UNCHANGED <<state, leaseOwnerId, fencingToken, lease, dispatchState,
                 sideEffectKnowledge, executingAt, runVars, discovered>>

\* Append-only and deliberately not fenced.
recordInvocation(s, k) ==
  /\ invocations' = [invocations EXCEPT ![s] = @ \cup {k}]
  /\ AdvanceP(RunOf[s])
  /\ UNCHANGED <<state, leaseOwnerId, fencingToken, lease, dispatchState,
                 sideEffectKnowledge, executingAt, runVars, discovered>>

\* Database time passes leaseExpiresAt.
LeaseExpires(s) ==
  /\ lease[s] = "live"
  /\ lease' = [lease EXCEPT ![s] = "expired"]
  /\ UNCHANGED <<state, leaseOwnerId, fencingToken, dispatchState, sideEffectKnowledge,
                 executingAt, invocations, runVars, prov, discovered>>

-----------------------------------------------------------------------------
(* Recovery and settlement *)

\* Mutant: only the RECONCILE marker is looked for.
Undispatched_reconcileOnly(s) ==
  /\ runState[RunOf[s]] \in {"DISPATCHING", "RUNNING"}
  /\ state[s] = "PENDING"
  /\ dispatchState[s] = "RECONCILE"
  /\ leaseOwnerId[s] = NoOwner \/ lease[s] = "expired"
  /\ EarlierSucceeded(s)

\* The WHERE clause of findUndispatchedSteps.
Undispatched(s) ==
  /\ runState[RunOf[s]] \in {"DISPATCHING", "RUNNING"}
  /\ state[s] = "PENDING"
  /\ dispatchState[s] \in {"PENDING", "RECONCILE"}
  /\ leaseOwnerId[s] = NoOwner \/ lease[s] = "expired"
  /\ EarlierSucceeded(s)

LeaseExpired(s) == state[s] \in Active /\ lease[s] = "expired"

\* Mutant: every expired step is requeued, a mutating one too.
resolveExpiredLease_requeue(s) ==
  /\ LeaseExpired(s)
  /\ state' = [state EXCEPT ![s] = "PENDING"]
  /\ leaseOwnerId' = [leaseOwnerId EXCEPT ![s] = NoOwner]
  /\ lease' = [lease EXCEPT ![s] = "none"]
  /\ dispatchState' = [dispatchState EXCEPT ![s] = "RECONCILE"]
  /\ AdvanceP(RunOf[s])
  /\ UNCHANGED <<sideEffectKnowledge, fencingToken, executingAt, invocations, runVars, discovered>>

\* reconcileExpiredLeases passes maybeSent = TRUE for every mutating step, so a
\* mutating step fails INDETERMINATE and only a read-only one is requeued.
resolveExpiredLease(s) ==
  /\ LeaseExpired(s)
  /\ IF s \in Mutating
       THEN /\ state' = [state EXCEPT ![s] = "FAILED"]
            /\ sideEffectKnowledge' = [sideEffectKnowledge EXCEPT ![s] = "INDETERMINATE"]
            /\ UNCHANGED <<leaseOwnerId, lease, dispatchState>>
       ELSE /\ state' = [state EXCEPT ![s] = "PENDING"]
            /\ leaseOwnerId' = [leaseOwnerId EXCEPT ![s] = NoOwner]
            /\ lease' = [lease EXCEPT ![s] = "none"]
            /\ dispatchState' = [dispatchState EXCEPT ![s] = "RECONCILE"]
            /\ UNCHANGED sideEffectKnowledge
  /\ AdvanceP(RunOf[s])
  /\ UNCHANGED <<fencingToken, executingAt, invocations, runVars, discovered>>

HasFailure(r) == \E s \in StepsOf(r) : state[s] \in {"FAILED", "CANCELLED"}
HasOpen(r) == \E s \in StepsOf(r) : state[s] \notin StepTerminal

\* Mutant: the query does not exclude runs with a step still being executed.
Settleable_active(r) ==
  /\ runState[r] = "RUNNING"
  /\ StepsOf(r) # {}
  /\ (\A s \in StepsOf(r) : state[s] # "PENDING") \/ HasFailure(r)

\* The discovery query of settleRuns, outside any transaction.
Settleable(r) ==
  /\ runState[r] = "RUNNING"
  /\ StepsOf(r) # {}
  /\ \A s \in StepsOf(r) : state[s] \notin Active
  /\ (\A s \in StepsOf(r) : state[s] # "PENDING") \/ HasFailure(r)

\* The sweeper keeps the flags has_failure and has_open it read.
discoverSettleable(o) ==
  /\ discovered' = [discovered EXCEPT ![o] =
       {<<r, HasFailure(r) /\ HasOpen(r)>> : r \in {q \in Runs : Settleable(q)}}]
  /\ UNCHANGED <<stepVars, runVars, prov>>

\* The settlement transaction of one discovered run, on the flags read earlier.
\* It changes nothing, and advances nothing, when the run is no longer RUNNING
\* and no step was left to cancel.
settleRun(o, r, closeOpen) ==
  LET cancelled == {s \in StepsOf(r) : closeOpen /\ state[s] = "PENDING"}
      failed    == cancelled # {} \/ HasFailure(r)
      changed   == cancelled # {} \/ runState[r] = "RUNNING"
  IN  /\ <<r, closeOpen>> \in discovered[o]
      /\ state' = [s \in Steps |-> IF s \in cancelled THEN "CANCELLED" ELSE state[s]]
      /\ sideEffectKnowledge' =
           [s \in Steps |-> IF s \in cancelled THEN "KNOWN_ABSENT" ELSE sideEffectKnowledge[s]]
      /\ runState' = [runState EXCEPT ![r] =
           IF @ # "RUNNING" THEN @ ELSE IF failed THEN "FAILED" ELSE "COMPLETED"]
      /\ discovered' = [discovered EXCEPT ![o] = @ \ {<<r, closeOpen>>}]
      /\ IF changed THEN AdvanceP(r) ELSE UNCHANGED prov
      /\ UNCHANGED <<leaseOwnerId, fencingToken, lease, dispatchState, executingAt,
                     invocations, cancelRequested>>

\* The sweeping process dies and its local results with it.
forgetDiscovered(o) ==
  /\ discovered' = [discovered EXCEPT ![o] = {}]
  /\ UNCHANGED <<stepVars, runVars, prov>>

\* Every open step, an executing one included, is closed as never sent.
settleCancelledRun(r) ==
  LET open    == {s \in StepsOf(r) : state[s] \notin StepTerminal}
      changed == open # {} \/ runState[r] \notin RunTerminal
  IN  /\ state' = [s \in Steps |-> IF s \in open THEN "CANCELLED" ELSE state[s]]
      /\ sideEffectKnowledge' =
           [s \in Steps |-> IF s \in open THEN "KNOWN_ABSENT" ELSE sideEffectKnowledge[s]]
      /\ runState' = [runState EXCEPT ![r] = IF @ \in RunTerminal THEN @ ELSE "CANCELLED"]
      /\ IF changed THEN AdvanceP(r) ELSE UNCHANGED prov
      /\ UNCHANGED <<leaseOwnerId, fencingToken, lease, dispatchState, executingAt,
                     invocations, cancelRequested, discovered>>

\* The cancel endpoint's update for a run it read as RUNNING: no state condition.
requestCancel(r) ==
  /\ cancelRequested' = [cancelRequested EXCEPT ![r] = TRUE]
  /\ AdvanceP(r)
  /\ UNCHANGED <<stepVars, runState, discovered>>

-----------------------------------------------------------------------------
(* The open system *)

\* A job, and so a claim, exists only once the run was marked DISPATCHING.
DbClaim(s, o) == runState[RunOf[s]] # "SNAPSHOT_PINNED" /\ claimStep(s, o)

\* A generation holds a token some claim returned.
Issued(s) == 1 .. fencingToken[s]

\* What a generation may write as the outcome of a step.
Outcome == {"SUCCEEDED", "FAILED", "CANCELLED"}

DbStepAction(s) ==
  \/ \E to \in {"RECONCILE", "DISPATCHED"} : SetDispatchMarker(s, DispatchState, to)
  \/ LeaseExpires(s)
  \/ resolveExpiredLease(s)
  \/ \E k \in Knowledge : recordInvocation(s, k)
  \/ \E o \in Owners : DbClaim(s, o)
  \/ \E o \in Owners, t \in Issued(s) :
       \/ heartbeatStep(s, o, t)
       \/ markExecuting(s, o, t)
       \/ \E st \in Outcome, k \in Knowledge : writeTerminalState(s, o, t, st, k)

DbRunAction(r) ==
  \/ markRunDispatching(r)
  \/ TouchRun(r)
  \/ settleCancelledRun(r)
  \/ requestCancel(r)
  \/ \E pending \in SUBSET StepsOf(r) : markNothingEnqueued(r, pending)
  \/ \E o \in Owners, closeOpen \in BOOLEAN : settleRun(o, r, closeOpen)

DbNext ==
  \/ \E s \in Steps : DbStepAction(s)
  \/ \E r \in Runs : DbRunAction(r)
  \/ \E o \in Owners : discoverSettleable(o) \/ forgetDiscovered(o)

DbSpec == DbInit /\ [][DbNext]_dbVars

-----------------------------------------------------------------------------
(* Properties *)

\* The columns hold values of the schema's types.
DbTypeOK ==
  /\ state \in [Steps -> StepState]
  /\ leaseOwnerId \in [Steps -> Owners \cup {NoOwner}]
  /\ fencingToken \in [Steps -> Nat]
  /\ lease \in [Steps -> Lease]
  /\ dispatchState \in [Steps -> DispatchState]
  /\ sideEffectKnowledge \in [Steps -> Knowledge \cup {"null"}]
  /\ executingAt \in [Steps -> BOOLEAN]
  /\ invocations \in [Steps -> SUBSET Knowledge]
  /\ runState \in [Runs -> RunState]
  /\ cancelRequested \in [Runs -> BOOLEAN]
  /\ prov \in [Runs -> 0 .. ProvModulus - 1]
  /\ discovered \in [Owners -> SUBSET (Runs \X BOOLEAN)]

\* Ordered execution: as long as a run has a step that may still run, a step that
\* left PENDING has only SUCCEEDED predecessors.  Neither takeovers, nor duplicate
\* deliveries, nor cancellation make a run execute past an unfinished step.
OrderedExecution ==
  \A s \in Steps :
    state[s] # "PENDING" /\ HasOpen(RunOf[s]) => EarlierSucceeded(s)

\* A settled run is really finished: no step of a terminal run is open, a COMPLETED
\* run has only SUCCEEDED steps, a FAILED one has a step that did not succeed.
\* settleRuns decides on flags read before its transaction; they must not be stale.
RunTerminalSound ==
  \A r \in Runs :
    /\ runState[r] \in RunTerminal => ~HasOpen(r)
    /\ runState[r] = "COMPLETED" => ~HasFailure(r)
    /\ runState[r] = "FAILED" => HasFailure(r)

\* What settleRuns read outside its transaction stays true until it settles the run,
\* without a lock in between: no step of a discovered run starts, the failure that
\* closes it persists, and a run discovered without one to close has nothing open.
DiscoveryStaysTrue ==
  \A o \in Owners, r \in Runs, closeOpen \in BOOLEAN : <<r, closeOpen>> \in discovered[o] =>
    \/ runState[r] \in RunTerminal
    \/ /\ runState[r] = "RUNNING"
       /\ \A s \in StepsOf(r) : state[s] \notin Active
       /\ IF closeOpen THEN HasFailure(r) ELSE ~HasOpen(r)

\* Write-once terminals (ADR-0009): a terminal step keeps its state and its
\* side-effect knowledge for ever, a terminal run its state, whoever writes late.
TerminalWriteOnce ==
  [][ /\ \A s \in Steps : state[s] \in StepTerminal =>
           state'[s] = state[s] /\ sideEffectKnowledge'[s] = sideEffectKnowledge[s]
      /\ \A r \in Runs : runState[r] \in RunTerminal => runState'[r] = runState[r] ]_dbVars

\* The rows as module RunLifecycle sees them.
PhaseOf ==
  [s \in Steps |-> IF state[s] = "PENDING" THEN "waiting"
                   ELSE IF state[s] \in Active THEN "started" ELSE state[s]]
RunPhaseOf == [r \in Runs |-> IF runState[r] \in RunTerminal THEN runState[r] ELSE "open"]

Lifecycle == INSTANCE RunLifecycle WITH phase <- PhaseOf, run <- RunPhaseOf

\* The transactions implement the lifecycle: whatever callers do, in whatever order
\* and with whatever stale generation, a step starts only in order, finishes once, is
\* started over only if it is read-only (ADR-0008), and a run ends together with all
\* its open steps.
ImplementsLifecycle == Lifecycle!Spec

\* Writer protocol (ADR-0026 section 13): a transaction that changes a truth-bearing
\* column of a run or of its steps advances that run's P, exactly once: a derivation
\* that captured P can tell that its input moved.
ProvenanceAdvances ==
  [][ /\ \A s \in Steps :
           \/ state'[s] # state[s] \/ sideEffectKnowledge'[s] # sideEffectKnowledge[s]
           \/ fencingToken'[s] # fencingToken[s] \/ invocations'[s] # invocations[s]
           \/ dispatchState'[s] # dispatchState[s] \/ executingAt'[s] # executingAt[s]
           \/ leaseOwnerId'[s] # leaseOwnerId[s]
           => prov'[RunOf[s]] = (prov[RunOf[s]] + 1) % ProvModulus
      /\ \A r \in Runs : runState'[r] # runState[r] \/ cancelRequested'[r] # cancelRequested[r]
           => prov'[r] = (prov[r] + 1) % ProvModulus ]_dbVars

=============================================================================
