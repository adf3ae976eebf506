# RuptureGrid: a TLA+ model of execution, verdicts and certification

RuptureGrid runs *experiments* against a target system: a run is an ordered list of
steps, each step sends HTTP requests (often mutations, often concurrently) to the target,
and what the target did is recorded as evidence from which verdicts and findings are
derived. The product is only worth something if its own records are true. This directory
models the parts on which that depends: what may be frozen into a run and on whose
authority, which process may execute a step, what is recorded about a mutation, how a run
reaches its end when processes, queues and leases fail, what verdict an inspection of a
moving target supports, how a report comes to be certified while evidence still arrives,
what exit status a command returns, and how the two bundled targets behave under the
concurrency the experiments provoke.

All paths below are relative to `src/`.

## 1. Inventory

### Components

| Component | Code | State | Operations | Hard behaviour |
|---|---|---|---|---|
| Definitions and registration | `packages/engine/src/{manifest,validate,generic-invariant-registry,run-scope,credential-authorization,snapshot,definitions,registry}.ts` | target registration, experiment revisions, frozen snapshots | register, validate, create a revision, freeze | declarations on two surfaces that no single check sees together; grants that change between processes; concurrent freezes |
| Control-plane rows | `packages/engine/src/{claim,transitions,recovery,run-create,truth-input-head}.ts` | `experiment_run`, `experiment_step_run`, `step_invocation`, `run_truth_input_head` in PostgreSQL | claim, heartbeat, markExecuting, writeTerminalState, recordInvocation, markers, settleRuns, resolveExpiredLease, settleCancelledRun | every caller may be stale; one advisory lock per run |
| Side-effect truth | `classify.ts`, `engine-emergency.ts` | none | classifyInvocation, decideRetry, deriveEmergencyStepTruth | saying KNOWN_ABSENT of something that happened |
| Executor | `executor.ts` | none | executeHttp | aborts, timeouts and truncated responses after the request left |
| Step processor | `step-processor.ts` | locals of one job, one heartbeat loop per process | processStep: gates, arm, waves, retries, terminal write, chained dispatch | concurrent lanes, cancellation points, exceptions |
| Worker runtime and reconciler | `apps/worker/src/execution-worker.ts`, `reconciler.ts` | timers | processJob with its emergency path, the sweep | acts on rows it read earlier |
| Queue | `packages/queue/src/execution.ts` (BullMQ on Redis) | jobs keyed by step id | add, deliver, finish, stall, evict | at-least-once delivery, deduplication, data loss |
| API | `apps/api/src/execution/execution.controller.ts` | none | create, dispatch, cancel | reads, then writes in another transaction |
| Replay | `packages/engine/src/replay.ts` | reproduction definitions | bind to the registration of the moment, create a run from a stored snapshot | authority at replay time is not authority at freeze time |
| Evidence | `packages/evidence/src` | raw-observation hash chain (append cursor C), derivation attempts and generation D, publications, report authorizations | append, begin/complete/fail/abandon, publish, authorize | inputs (C, P, D) move while a derivation runs |
| Report authorization | `packages/evidence/src/report-authorization.ts` | authorization rows | verify, decide under the lock, RETRY | rows of several generations, a chain that grew since it was verified |
| Inspection and verdicts | `packages/evidence/src/{generic-inspection,generic-normalizer,generic-derive,generic-eligibility,generic-invariant-evaluate,run-anchor}.ts` | captures, derived rows | capture, derive, select subjects, evaluate, anchor | torn, failed, partial and redacted captures; setup steps executed again |
| Forensics | `packages/forensics/src` | findings, comparisons, timelines | derive, compare, reproduce | concurrent idempotent derivation |
| CLI | `packages/cli/src` | none | run, replay, compare, scenarios validate; drive a run to its report, classify the exit | waits with deadlines; its own dispatcher; may die anywhere |
| Commerce target | `packages/commerce-db`, `apps/demo-commerce` | SKU, intents, attempts, orders, armed faults | submitCheckout (naive and idempotent), reset, mode, arm/disarm | read-then-write race on the last unit |
| Fintech target | `packages/demo-db`, `apps/demo-fintech` | wallet, payments, events, deliveries, ledger, armed faults | processDelivery (naive and secure), reset, mode, lineage | duplicate and concurrent deliveries |
| Other | web, showcase, controlled-faults, config, logger, schemas | | | presentation, scripts, parsing |

### How they interact

The CLI (or a request of the API) registers a target under the grants its process was
configured with, writes a revision of the experiment document, freezes it with the
target's policy into a snapshot (shared by content), and creates a run pinned to that
snapshot. The run is marked DISPATCHING and its first step enqueued; the job carries ids
only. A worker's job slot *claims* the step in PostgreSQL (a lease and a fencing token),
executes it, writes its terminal state under the token and enqueues the next step. Each
worker sweeps periodically: it re-enqueues steps whose dispatch marker says the queue may
not know them, settles finished runs, and resolves expired leases. Redis is coordination
only; every decision is a conditional UPDATE. Every transaction on a run takes the run's
advisory lock first and advances the revision P of the run's truth-input head, from which
the evidence part learns that its input moved. After the run the CLI captures the
declared inspection queries of the target, drives an analysis (as the sweep does), asks
for authorization of a report, and reduces what was published to an exit status.

### What makes each part correct

* Definitions: what is frozen can be evaluated; a run never exceeds its creator's grants.
* Rows: order of steps, write-once terminals, run outcome consistent with step outcomes,
  every truth-bearing change advances P.
* Ownership: one generation per token; only the current one writes.
* Truth: KNOWN_ABSENT only when nothing happened, SUCCEEDED only when everything did,
  retries only when provably harmless.
* Recovery: markers never ahead of the queue; a dispatched run settles.
* Cancellation: nothing that has not begun begins after it.
* Evidence: COMPLETE, published and certified only for the inputs that are current.
* Verdicts: a FAIL is proven, a PASS hides nothing, coverage is what it is called, and the
  anchor of a run is its own.
* Commands: the exit status is the truth about the run the command created.
* Targets: stock and money are conserved, the hardened variants apply an intent or a
  payment once, records and answers say what happened, a fault plan is not overspent.

## 2. Modules

| Module | Models |
|---|---|
| `Definitions` | the pure validators of definitions: grants, manifest, invariant instances, run scope, experiment document, the document a snapshot freezes |
| `Reporting` | the pure decisions of report authorization and of the CLI's exit classification |
| `Client` | EXTENDS both: the commands of the CLI and the run request of the API over the rows they create, with reconfiguration of the grants, death of the CLI and concurrent clients |
| `SideEffects` | the pure functions of `classify.ts`, the aggregation of `step-processor.ts`, `deriveEmergencyStepTruth`; the outcomes `executeHttp` can return |
| `RunLifecycle` | abstract specification of a run and its steps, no leases, tokens or queues |
| `ControlDb` | the rows and every transaction on them, as an open system: any caller, any order, any token ever issued. `Lifecycle` is the refinement mapping to `RunLifecycle` |
| `Execution` | EXTENDS `ControlDb`: API, queue, job slots with their lanes, heartbeat loops, sweeps, crashes; the target's effects as a history counter |
| `Evidence` | for one run, from raw observations to a certified report: the watermark (C, P, D), derivation attempts and their readiness, concurrent analysis sessions with their two captures, publication, forensic derivation, authorization |
| `GenericRules` | the pure evaluator of the two generic invariants, `atMostOneAcceptedEffect` and `resourceConservation` |
| `Inspection` | EXTENDS `GenericRules`: a target that accepts orders while its declared queries are captured, the derivation, the selection of the run's subjects and the published verdicts |
| `RunAnchor` | the scope and generation a run's setup step established, derived from durable rows while generations of the step send, record, capture, die and are taken over |
| `FaultControl` | the fault plans of a target: arm, disarm, expire, consume |
| `Checkout` | EXTENDS `FaultControl`: the commerce target |
| `Webhook` | EXTENDS `FaultControl`: the fintech target |
| `MCControlDb`, `MCExecution`, `MCEvidence`, `MCVerdicts`, `MCTargets` | instances for TLC |
| `ClientProofs`, `ControlDbProofs`, `ExecutionProofs`, `CheckoutProofs`, `WebhookProofs`, `EvidenceProofs`, `VerdictProofs`, `SideEffectsProofs` | theorems |

Three of the MC modules check two systems that share no state in one run. The variable
`running`, chosen in the initial state, says which of the two moves: in `MCControlDb` the
rows or the commands, in `MCTargets` commerce or fintech, in `MCVerdicts` the inspection
or the anchor. The state space is the sum of the two, not their product.

`ControlDb` names its actions after the functions. One transaction is one action: the
advisory lock serialises the writers of a run, and its UPDATEs read the rows they write.
A query outside a transaction (the settlement discovery, the sweep's lists, the cancel
endpoint's read, `loadEmergencyContext`) is an action of its own whose result is kept in
a variable (`discovered`, `sset`, `cpc`, `rtok`) until it is used, so other processes can
act in between. Database time appears as `lease` with the values none, live and expired.
`prov` is P modulo `ProvModulus`.

`Execution` keeps the control points of each process: `pc` per job slot (claim, gate,
precheck, arm, wave, inflight, terminal, chain, promote, chainEnqueue, chainMark, and
repair, repairRows, repairWrite for the emergency path), `slot` per lane of a wave,
`spc` per sweep, `dpc`/`cpc` per API request. `wave`, `agg`, `ok` are the locals
waveIndex, aggregateKnowledge, aggregateOk; in the emergency path `ok` holds
preSendProven and `rtok` the token it loaded. `hb` is the *single* HeartbeatLoop of a
process. A step's job is keyed by the step, as the deterministic jobId makes it, and goes
none → waiting → active → retained → none.

What a single action of `Execution` may hide: an HTTP attempt with its classification is
one action (the effect is counted when the request is handed over; a crash between effect
and record is the crash between `Invoke` and `RecordAttempt`). `LIMIT`s of the sweep's
queries are not reached. A slot whose Promise.all rejected is not reused while orphaned
lanes run (in the code the slot is free; the orphans then run beside the next step of
another slot, which the model has with two slots). A heartbeat tick is atomic.

`Evidence` is a system of its own: of the control plane it needs only that P advances
when truth changes, which `ProvenanceAdvances` shows. The chain is append-only under the
lock, so C is its length (`observations`) and observation i adds row i of the projection.
Each session is one call of runRunAnalysis, a reporter continues as driveRunToReport
does; `pc` names the await it stands at and `local` holds w0, the loaded inputs, the
graph, the fingerprint, cycle and tries. An evaluation is the pair of the fingerprint it
is keyed by and the graph it was computed over: its verdict is a function of the graph.
`MCEvidence` lets a behaviour either follow the CLI to its report or meet a fault during
an analysis: after a fault no session goes on to the report.

`Inspection` follows one declared subject `Own`. A target accepts orders, takes units and
writes totals, each order changing the target in two steps; the pass captures one query
at a time, and any of them may fail, be partial or conflict. How the row of an order reads
is its `shape` (clean, not equivalent, link or identity redacted, negative units, foreign
scope, contradicted by a second row) and `stray` says what else the items query returns.
A capture is stored once per query and never replaced, as its identity makes it: a later
pass that reads other content ends in an EvidenceIntegrityConflictError, and a stored
failure stays one. `moved` and `seen` are histories: did the target move between two
captures, and what was true of it when the first was taken.

`RunAnchor` counts generations of the setup step by their fencing token. Each sends,
records its invocation, captures the response and writes the terminal state, in this
order, and may die between any two; the target may apply a request long after it was sent.

`Checkout` and `Webhook` have one action per awaited statement or transaction of a
request. A reservation and its order are one record, as are an effect and its ledger
entry; a row identity is what makes it unique (scope, intent and generation; wallet,
payment and event type). Every payment has the canonical amount, so the wallet's balance
counts credits; a reset makes a new wallet or generation, so what it deleted never comes
back. A fault plan's time to live is a bit, and `faultsGranted` a history of the triggers
its armings granted.

`Client` has one action per transaction of a command. What happens to a run between its
dispatch and its end is `RunMoves` (module `Execution` has the detail), and what an
analysis publishes is any member of `Published`, a constant whose members the assumption
`PublishedAssumption` restricts to what the rows of one pass can be (`Coherent`).
`Definitions` keeps every condition of the validators but the grammars of names, the
closed keys and the size limits, for which the bit `shaped` stands: no other condition
depends on them.

## 3. Runs

Deadlock is checked in the runs of `MCExecution`. In the others the system may stop:
commands, disturbances and late writes are bounded, and every session, request or pass may
have ended.

| Run | Question | Bounds and why they suffice |
|---|---|---|
| ControlDb | Do the transactions keep the rows consistent whatever the callers do? And: can what is frozen be evaluated, is what is created authorized, are the exits true? | *Rows:* 1 run, 2 ordered steps (one mutating, one read-only), 1 owner, 2 claims per step: order, takeover, requeue, settlement with a step to cancel and both outcomes of resolveExpiredLease occur. One recorded knowledge value: the properties only ask whether it changes. *Commands:* a valid manifest and document, and every one that differs from it in one place (a field retyped or dropped on roles, queries or both; a description or query dropped; every parameter of either invariant instance renamed; the edits of steps and scope) as input of one command; four inputs whose runs are followed to their reports (a manifest with one bound invariant, one with two origins and none, a legacy target in STAGING and in PRODUCTION) with 3 commands, 2 runs, 1 change of the grants, 2 cycles; the API derives the reproduction of a run just before a command replays it (nothing else reads it). Published facts over 2 subjects: declared, eligible, unexpected, gaps, pointers and verdicts vary, so every branch of the decision and of the exit class is taken |
| Fencing | Are generations fenced, are duplicate deliveries harmless, does cancellation stop what has not begun whoever takes it over, does the composition touch rows only through transactions? | 1 step, 2 workers, cancellation at any time, w2 sweeps, and one of these: a stall and an expiry under a living holder (together a takeover with the old generation alive), a loss of Redis's data (a second job beside a living slot), an eviction (a sweep enqueues a finished job again) |
| Truth | Does the record agree with the target? | 2 slots of one process, Repeat 3 with 2 lanes (a full and a partial wave), SAFE (3 attempts), 2 exceptions (one in the step and one in its emergency path), a fault plan to arm, a denied second step, cancellation anywhere |
| Settles | Is a marker ever ahead of the queue, is order kept through takeovers, does a dispatched run settle? | 2 mutating steps, 2 workers, and at any point one fault: the crash of a worker, the outage of Redis, or the death of the dispatching API |
| Certify | Is what gets published and certified the verdict of all the evidence of its watermark? Can attempts that failed, died or were abandoned fool or block the readiness reader? | CLI and sweep concurrently, 1 observation captured and 1 late write (an observation or provenance), completion of the run at any time, 2 cycles: a race in any window, a refused cycle, a RETRY and a second authorization occur; or one exception, crash or abandonment at any point of an analysis, where an abandoned pass may be alive and finish. Two writes only repeat the race |
| Targets | Are stock and money conserved, is an intent or payment applied once, is what is recorded and answered true? | 2 submissions (or deliveries), 2 intents, 2 client-chosen attempt ids, 2 scopes, baselines 1 and 2, 1 payment with both event types, one trigger per kind of fault, 3 disturbances (resets, mode switches, arming, disarming, expiry, database errors in any combination). Two requests race for one unit; the third disturbance allows a reset, a switch and a fault in one behaviour |
| Verdicts | Are the verdicts true of the target, is coverage complete when it is called so, is the anchor the run's own? | 2 orders where 1 is allowed, baseline 1, 7 shapes, 5 strays, at most one oddity at a time (each rule is reached by one), 3 generations of the setup step, 2 scopes: two stale generations, one recorded and one not |

Runs that end in a counterexample, each a statement of the repository's own text:

| Run | Statement | What happens |
|---|---|---|
| CancelRace | cancelled mid-flight is INDETERMINATE (architecture.md) | the endpoint read DISPATCHING, the step was claimed and sent its request, then settleCancelledRun records KNOWN_ABSENT |
| ReadOnlyCrash | RECONCILE steps are requeued; durable work is never stranded (`recovery.ts`, `step-processor.ts`) | the redelivered job finds the step not claimable yet and finishes; the requeue of the step is ignored because that finished job is retained under the same jobId; the sweep marks the step DISPATCHED |
| Heartbeat | the heartbeat renews the lease while the step executes (`step-processor.ts`) | a second step started in the same process replaces the only loop |
| StaleVerdict | every result of a pass is a result about W0; same evidence state, same verdict (`analysis.ts`) | a pass loads the graph; an observation arrives and another pass derives its row; the first pass computes the fingerprint of the new state and stores its verdict under it before publication refuses it; the next pass gets that row back through the unique key and publishes it |
| UnrecordedSetup | a stale request that may have reset the scope is never silently ignored (ADR-0026) | a generation sends the setup request and loses its lease before it records the invocation; its reset is applied after the terminal owner's; `run-anchor.ts` builds its stale generations from recorded invocations only and establishes the anchor |

Retention of finished jobs is bounded in the code (an hour, a thousand jobs), so the
stranded run of ReadOnlyCrash would recover if the job were evicted *and* the marker still
asked for an enqueue, which it does not after the sweep marked it; eviction is not
assumed. A job that Redis loses, one whose claim throws (it is finished, for attempts
is 1), or one that stalls twice before its claim (two workers die with it, and BullMQ
gives it up at its second stall) leaves its step PENDING and marked DISPATCHED in the same
way; run Settles excludes all three.

### Other disagreements met while modelling

None of these has a run of its own; the actions named take the step.

* *Takeover.* ADR-0008 says ambiguous mutations are never auto-retried. A worker dies
  after sending, BullMQ redelivers, the lease expires and the redelivered job's claim
  takes the step over before a sweep resolves it, and sends again.
  `ReexecutedOnlyAfterExpiry` (run Fencing) is what does hold.
* *Findings.* Findings are derived once, before authorization. The sweep, or the
  re-analysis after a RETRY, publishes newer evaluations and the report is certified with
  the findings of the old ones: authorization does not consult the readiness of the
  forensic derivation, although `derivation-attempts.ts` says report surfaces do. The
  sweep itself never derives findings; the CLI, the incident runner and whoever calls
  `POST runs/:id/forensics/derive` do.
* *Reproductions.* That endpoint asks of a run only that it exists, and the derivation
  persists a reproduction definition for a run in any state; neither the CLI's replay nor
  `validateReplayBinding` reads the state of the source run. So a run that FAILED, was
  CANCELLED or was never dispatched can be replayed (`deriveRunForensics` of `Client`).
* *Undispatched runs.* A CLI that dies, or that Redis refuses, between createRun and the
  dispatch leaves a run in SNAPSHOT_PINNED, which no sweep looks for (`Killed`,
  `dispatchRun`).
* *Concurrent freezes.* Two processes that freeze one revision at once: the loser's insert
  violates the unique content hash and it ends with exit 3 instead of reading the row
  (`insertSnapshot`).
* *Exit 4 after writes.* docs/cli.md:138 says of exit 4 "rejected before any durable
  write". `run` against a legacy target in PRODUCTION refuses when it creates the run:
  definition, revision and snapshot are already there. `scenarios validate` exits 0 for it.
* *Grants.* Registration and `run` check the grants of targets with a manifest only,
  replay those of legacy targets too; replay needs the frozen origin covered, `run` all of
  them. With an underivable policy `run` exits 3 where validation answers 4.
* *Silent drops.* A manifest node or query with an empty description raises no issue, is
  left out of the policy, and its role still counts as declared (manifest.ts). Nothing
  requires an inspection query for every declared role.
* *Reports.* A chain that fails verification is "AUTHORIZED" for a report that says
  EXECUTION_FAILURE; a stale FAIL pointer in an uncertified report still gives exit 1; a
  report file of an earlier command stays in place after exit 3.
* *Checkout.* A statement that fails after the reservation committed makes the catch block
  record FAILED although the order exists, against the comment that no business mutation
  can have survived (checkout-core.ts); `OutcomesTruthful` states the exception. A request
  of one scope that is still in flight can take a unit of the SKU after it was bound to
  another scope.
* *Lineage.* The balance and the ledger's sum are two reads; a credit between them is
  reported as a negative difference. `NoPhantomBalance` says the other sign cannot occur.
* *Captures.* A capture that failed is stored and never replaced, so the run stays
  NOT_EVALUABLE for good. A mismatch found over captures of different moments is a FAIL;
  `PassTruthful` therefore speaks of a target that kept still.

### Fairness

`FairSpec` of `Execution` assumes weak fairness of: every step of a living process (an
async function that is not rejected goes on; a timer fires again), delivery of a waiting
job, detection of a lost job lock and expiry of an abandoned lease (both run on timers),
and the end of a Redis outage. Nothing is assumed of the environment: crashes, exceptions,
dispatch and cancel requests, evictions need not happen, and a lease that expires under a
living holder or a stall of a living processor is a fault that need not happen either
(`faults' = faults`). Workers that may not crash stand for "some worker is alive and
sweeps", which recovery presupposes. The other modules are checked for safety only and
assume no fairness; the one liveness question the code answers beside RunSettles, that an
analysis ends, is settled by its loops counting to `RUN_ANALYSIS_MAX_CYCLES`.

## 4. What the properties say

State properties of `ControlDb`: `OrderedExecution`, `RunTerminalSound`,
`DiscoveryStaysTrue` (what settleRuns read without a lock stays true until it acts on it,
the reason why its transaction need not check again). Action properties:
`TerminalWriteOnce`, `ProvenanceAdvances`. Refinement: `ImplementsLifecycle`.

Of `Client`: `FrozenIsEvaluable` (every instance that is frozen finds, on the queries
bound to its roles, the fields it reads in types it can use), `RunsAuthorized` (no run
exceeds the grants of the process that created it, and a replay is of the very snapshot of
the run it reproduces, whatever became of that run), `ExitTruthful` (0 only when every declared subject of every bound key
passes over verified and current evidence, 1 only when a subject of the run fails, 2 for
neither, 4 only without a run).

Of `Execution`: `GenerationsFenced`, `ReexecutedOnlyAfterExpiry`, `NoPrematureRequest`,
`SucceededOccurred`, `KnownAbsentTruthful`, `RetryNeverDuplicates`, `MarkedWorkHasJob`,
`NoWorkAfterCancel`, `RunSettles`, and `DbSpec` (the composition implements the open
system, so everything shown of `ControlDb` holds of it, the types of its rows included).

Of `Evidence`: `ReadyCovers` (what readiness calls complete left nothing underived),
`PublicationCurrent` (a publication whose watermark is current names the evaluation of
exactly the stored evidence), `CertifiedComplete` (so does a certified report),
`OwnProofSuffices` (old debris blocks nobody); action properties `AttemptsFinal` and
`PublicationAdvances` (late finishers and late publishers change nothing that is newer).
The watermark does its work in layers: with C and P unchanged since the source of a
COMPLETE attempt nothing is left to derive, so in this model the comparison of D at
publication is a second line of defence that no run can tell from the first.

Of `Inspection`: `FailProven` (a lower-bound FAIL is true of the target whatever was left
out or torn), `PassTruthful` (with a target that kept still, a PASS and a mismatch are so:
no hidden order, partial enumeration or unreadable row makes one), `CoverageComplete`
(eligible without gaps means that nothing of the run's scope was left out of what was
captured, unless a later capture made the evaluation stale), `FailNeverBecomesPass` (captures are added, none is taken back). Of `RunAnchor`:
`AnchorOwned` (an established anchor is what the terminal owner's request established, and
no other recorded generation established anything else).

Of `Checkout`: `StockConserved` (stock remaining plus units taken is the declared stock,
also when it is oversold), `SecureSellsOnlyStock` (the idempotent pipeline takes no unit
that is not there, while naive requests of an earlier mode are in flight, and accepts an
intent once), `OutcomesTruthful`. Of `FaultControl`: `FaultBudgetKept`. Of `Webhook`:
`WalletConserved`, `CreditedOnce`, `DeliveryOutcomesTruthful`, `NoPhantomBalance`.

Preconditions are part of the statements where the code needs them; those about faults
speak of what has happened so far (`Never`), not of what an instance allows.
`KnownAbsentTruthful` speaks of steps claimed once in runs not settled by the cancel
endpoint (a takeover and run CancelRace show why), and, unless each process has one slot,
of living workers that kept the locks of their jobs; `ReexecutedOnlyAfterExpiry` of
behaviours in which no worker died, nothing threw and no lease ran out under its holder
(`Gentle`); `NoWorkAfterCancel` of a cancelled step at a moment when nothing threw and no
lease ran out under its holder, or the queue kept what it was given (`JobsKept`), whatever
happens from then on. Section 5 has the behaviours that make the last three necessary.
`PassTruthful` speaks of a target that kept still during the capture, `OutcomesTruthful` of
FAILED attempts without a database error. `MarkedWorkHasJob` names no fault: it is checked
and proved of instances without data loss, failed claims and jobs that stall twice.

## 5. Proofs

`ControlDbProofs` proves, for all sets of runs, steps and owners, every order and every
number of claims: `DbTypeCorrect`, `OrderedExecutionCorrect`, `RunTerminalSoundCorrect`,
`DiscoveryCorrect`, `TerminalWriteOnceCorrect`, `ProvenanceAdvancesCorrect` and
`ImplementsLifecycleCorrect`. The assumptions are those of `ControlDb`: sequence numbers
are naturals and distinct within a run, the null owner is not a worker, the modulus is
positive.

The inductive invariant is

    Inv == DbTypeOK /\ OrderedExecution /\ RunTerminalSound /\ DiscoveryStaysTrue

None of the three is inductive alone. Settlement closes pending steps on the strength of
flags read earlier, so `RunTerminalSound` and `OrderedExecution` need
`DiscoveryStaysTrue`; that one needs `OrderedExecution` (behind a failure nothing can
start, because a claim needs all earlier steps SUCCEEDED) and, when the run was settled
by another path meanwhile, `RunTerminalSound`. The proof has one step per transaction;
the transactions that only touch columns outside the three parts share `InvFrame`, those
that move a single step share `ActiveMoves`, and settlement has its own lemmas. The
refinement is proved per action: each transaction is one `RunLifecycle` step or a stutter
(`OneStepMoves`, `ClaimMoves`, `OutcomeMoves`, `SettleMoves`, `SettleCancelledMoves`). A
takeover maps to a stutter because a started step stays started. `ProvenanceAdvances` is
proved per action too: an action either leaves the truth-bearing columns of a run alone
or advances `prov` of that run by one.

`ExecutionProofs` proves, for any number of runs, steps, workers, slots, lanes, repeats,
retries and faults, from the assumptions of `Execution` and `ControlDb`:
`GenerationsFencedCorrect`, `ExecutionIsDb` (`Spec => DbSpec`, so that all theorems of
`ControlDbProofs` hold of the running system), `NoPrematureRequestCorrect`,
`SucceededOccurredCorrect`, `RetryNeverDuplicatesCorrect`, `KnownAbsentTruthfulCorrect`,
`ReexecutedCorrect`, `NoWorkAfterCancelCorrect` and `MarkedWorkHasJobCorrect`. There are
five invariants, each on top of `ExecInv`:

* `ExecInv`: the types, what each control point of a slot holds (`SlotPoint`), that a
  slot's token was issued and no two slots hold the same generation (`SlotToken`,
  `TokensDistinct`), and that only dispatched steps are queued, held or renewed.
* `CountInv`, the ledger of effects. From below: a wave that was begun and has not failed
  has an effect for every invocation it finished (`Progress`), so a slot that stands at the
  terminal write with `ok` did all of them. From above: what a first claim has caused plus
  what its lanes may still cause is at most the declared number (`Spent`, `RowSpent`).
  Both count lanes with cardinalities of sets of lanes, one lemma per kind of lane move.
* `AbsentInv`, the ledger of knowledge: a first claim that saw only harmless outcomes had
  no effect (`AbsentSound`), whoever may send has the row marked executing (`Handed`), the
  emergency path never finds the mark unset and an invocation recorded (`RepairSound`), and
  a step recorded KNOWN_ABSENT has no generation left that could act (`Settled`).
* `AloneInv`, one generation at a time: no slot follows a generation of a mutating step that
  was fenced out (`Alone`), a claimed step that is not executing has nothing under way
  (`ClaimedQuiet`), and, as long as nobody died, a step has one generation and a slot works
  on it while it is active (`Kept`). It is conditional: either no exception was thrown and
  no lease ran out under its holder so far (`Gentle`), or the queue has kept what it was
  given (`JobsKept`: no stall, loss, eviction or outage so far). Faults are only counted up,
  so whichever of the two holds after a step held before it (`NeverBefore`).
* `QueueInv`, what a marker promises: whatever is queued or about to be has only SUCCEEDED
  steps in front of it (`QueueOrdered`), so the delivery of a pending step's job is claimed
  and never finishes unclaimed; such a job is not finished, and has stalled only for the one
  crash (`Queued`); and a dispatcher, a sweep or a slot about to write DISPATCHED has seen
  its step enqueued (`Promises`).

The proofs do not go action by action through each invariant. Every step of `Next` is first
shown to be one of a few shapes (`StepFacts`: what a slot may do to its own locals, what may
have changed in the rows and on whose behalf, `SlotMove`, `RowForward`, `RowCause`), and the
invariants are shown over the shapes.

The theorems carry the preconditions of their properties and no others, except
`MarkedWorkHasJobCorrect`. That of `KnownAbsentTruthful` (`NoTwin`: each process has one
slot, or living workers have kept the locks of their jobs) is needed because the emergency
path compares the owner of the row with the name of its *process*. With two slots in one
process (`WORKER_CONCURRENCY` is 4 by default, `packages/config/src/schemas.ts:127`) a
stalled job is delivered to the second slot of the same process; its claim is refused and
throws, its emergency path finds the row owned by "its" process and still unmarked, the
first slot marks and sends, and the path writes KNOWN_ABSENT, against the comment "A null
value therefore proves no mutation attempt could have crossed the send boundary"
(`engine-emergency.ts`). TLC finds this behaviour when run Truth, which has two slots in
one process, is allowed one stall and the property is stated without its precondition.

`ReexecutedOnlyAfterExpiry` excludes exceptions because of this: with two of them and one
stall a slot sends, its invocation throws, the job stalls and the emergency path fails as
well; the abandoned step's lease runs out, the redelivered job claims it and sends again,
with every worker alive and no lease expired under its holder. `NoWorkAfterCancel` excludes
a past in which a fenced-out generation may be at work: after a stall and an expired lease,
or a stall and two exceptions in concurrent lanes, a generation that lost its step or an
orphaned invocation may still send after the step was claimed again and its run cancelled.
Run Fencing has one step and checks the takeovers and redeliveries that follow a
cancellation; that chained dispatch does no harm either is in the theorem.
`NoPrematureRequestCorrect` has no precondition: run Settles, which checks the property,
has neither a living generation that was fenced out nor an orphaned invocation, and the
theorem covers both.

`MarkedWorkHasJobCorrect` assumes `Recoverable` (no exception, living workers keep their job
locks, Redis keeps its data, at most one crash) and that every step is mutating; outages,
evictions, deaths of the dispatching API and expired leases are not bounded. With two
crashes TLC finds the job that stalls twice of section 3; with a read-only step, run
ReadOnlyCrash.

`ClientProofs` proves `RunsAuthorizedCorrect`, `ExitTruthfulCorrect` and
`FrozenIsEvaluableCorrect` for any grants, inputs, rank of origins and published rows, from `RefsAssumption` (the executor's
references are finitely many), `PoliciesAssumption` (a configuration passes its own
validation), `RankAssumption` (the origins of a registration have a first) and
`PublishedAssumption` (what a pass publishes is coherent). The inductive invariant is

    ClientInv == ClientTypes /\ RowsOK /\ AuthorizedRows
                 /\ \A c \in Clients : SessionOK(session[c])

Snapshots are shared by content and outlive the process that froze them, so
`RunsAuthorized` is not a fact about rows alone: `SessionOK` carries from freezing to
creation that the grants the session captured cover the snapshot it will use
(`CoveredBy`), whichever process inserted it. `ExitTruthful` rests on the pure theorem
`ExitClassTruthful`: over any coherent rows the class computed by the CLI is what the
published verdicts say. A session in its report stage holds a decision that agrees with
the rows it was computed from (`Agree`); the rest of the proof is one lemma per action.
`FrozenIsEvaluable` needs `FitInv` on top of it: a stored revision was checked against the
manifest of its target, and what a session is about to freeze or has frozen fits that
manifest, whoever registered or stored it (`Fit`). Its pure part is `ValidIsEvaluable`:
validation ties every read of an instance to a query of the manifest that serves its role,
and every field to one type within the scope it declares, so that the evaluator finds both
(one lemma per invariant kind: `ScopeRead`, `AtMostOneReads`, `ConservationReads`).

`CheckoutProofs` proves `StockConservedCorrect`, `SecureSellsOnlyStockCorrect`,
`FaultBudgetKeptCorrect` and `OutcomesTruthfulCorrect` for any number of requests, intents, scopes and baselines, from
`CheckoutAssumption` (baselines are naturals, "none" is not a scope). `StockInv` adds to
the two properties the types, what each control point knows of its locals (`Flows`), that
no unit is of a baseline still to come (`UnitsPast`), and that every order of the
idempotent pipeline has its intent settled (`SecureSettled`): a settled intent is why a
second submission of it reserves nothing. `BudgetInv` is a separate induction over the
fault plans: what was used of a plan and what was granted before it. `OutcomeInv` extends
`StockInv` for what is recorded and answered: whatever names an intent row is deleted with
it and every settlement has its order (`RowsKept`), so a settlement that matches no row of
an existing attempt means that another order of that row exists; an attempt and its order
carry one row, so a reset deletes both or neither; and the outcome a submission holds but
has not yet recorded is already true (`AttemptOK`). Three lemmas cover the steps of a
submission, by where they stand to its attempt (`ArrivalOutcome`, `ReserveOutcomes`,
`DepartureOutcomes`).

`WebhookProofs` proves `WalletConservedCorrect`, `CreditedOnceCorrect`,
`DeliveryOutcomesTruthfulCorrect` and `NoPhantomBalanceCorrect` for any number of payments
and deliveries, without an assumption. `LedgerInv` has the types, the rows of
the current wallet (`RowsCurrent`), that the rows of a delivery name the event it resolved
(`OwnRows`) and are not there before it creates them (`NotYet`), the uniqueness of idempotency keys (`KeysUnique`), and the balance as the
cardinality of the ledger. `TruthInv` adds what is recorded: a delivery has no entry before
its transaction commits, the outcome it holds afterwards is true of the ledger (`CreditTrue`;
a duplicate names the payment of the entry whose key refused it, which needs `KeysUnique`
and `OwnRows`), and it stays true because the ledger only grows until a reset deletes the
attempts with it. `LineageInv` says that the inspector never holds more than the wallet it
read still has: only a reset lowers a balance, and it begins another wallet.

`SideEffectsProofs` proves the truthfulness of the pure functions:
`ClassificationTruthful`, `RetryOnlyWhenAbsent`, `WorstKnowledgeIsJoin` (so the aggregate
of a wave does not depend on the order of its outcomes), `EmergencyConservative`.

`EvidenceProofs` proves, for any number of sessions, late writes, cycles and faults:
`EvidenceTypeCorrect`, `ReadyCoversCorrect`, `PublicationCurrentCorrect`,
`CertifiedCompleteCorrect`, `AttemptsFinalCorrect`, `PublicationAdvancesCorrect` and
`OwnProofSufficesCorrect`, from the one assumption of `Evidence` (its bounds are naturals, the number of cycles is
positive, reporters are analysts). The inductive invariant is

    IInv == EvidenceTypeOK /\ CompletionCounted /\ AttemptsOK /\ AllSessionsOK
            /\ PublishedOK /\ CertifiedComplete

`ReadyCovers` needs `AttemptsOK` (the rows of a complete attempt's source are derived),
which is preserved because the inputs of a pass were loaded after its source was recorded
(`SessionOK`). `PublicationCurrent` needs `ReadsOK`: as long as the W0 of a session is the
current watermark, what it has read is what is stored. Every watermark in the invariant
is of the past, and whatever changes what a read returns advances a component, so an
equal watermark means that nothing was missed; `TruthAdvances` and `DeriveStep` are the
two places where this is used. `CertifiedComplete` follows from the two at the one step
that certifies. A refused cycle must forget what it read (`NextCycleMoves`): the mutant
that keeps it breaks `PublicationCurrent`. `OwnProofSuffices` needs more (`OwnInv`): the
source of a session's attempt lies between its stage 1 capture and its W0, which stage 2
found equal (`SessionsSourced`); and every complete attempt of the current chain committed
the current D (`CommittedCurrent`), because a complete one leaves no row of its source to
derive and a longer chain is no longer its source. So the proofs of the current C and P
tie, the newest of them ranks first, and an older attempt that was left unresolved does
not count. `ReadyCovers` is not part of `IInv` but a
consequence of it (`ReadyCoversInv`).

`VerdictProofs` proves all that is stated of `Inspection` and `RunAnchor`, for any number
of orders, queries in any order, causal edges and generations of the setup step:
`FailProvenCorrect`, `PassTruthfulCorrect`, `FailNeverBecomesPassCorrect`,
`CoverageCompleteCorrect` and `AnchorOwnedCorrect`. `InspectionAssumption` says that the
policy lists every query, that the orders are finitely many and that an undeclared subject
and a foreign scope are not the declared ones; `RulesAssumption` that every query has a
role. The invariants are about the stored rows:

* `EvidenceTrue`: every row is as true of the target as its shape lets it be, and stays so,
  because orders are only ever accepted and the stock only ever falls. The evaluator counts
  one effect per identity, so the counted effects map injectively to accepted orders
  (`DistinctByIdent`, `CountByIdent`), and the units of rows of one unit each add up to
  their number (`SumOfOnes`): a lower-bound FAIL counts orders that exist (`EvaluationProven`).
* `SeenStill`: with a target that kept still, all rows speak of one stock and one number of
  accepted orders, those of the target when the first capture was stored. A PASS rests on a
  total that equals what was counted (`EffectPass`, `CompleteStill`).
* `FailStands`: the proof of a published FAIL outlasts it. It is a set of orders that rows
  show as accepted, a negative stock, or a final and complete enumeration; captures only
  add to it (`ProofGrows`). A later analysis may count fewer effects, because a row is
  contested or a causal edge is lost, but then the row agrees with none that is counted and
  the rule answers with a gap (`AgreeingEffect`, `PassEffects`, `PassUnits`).
* `ItemsStored`: a valid items capture holds all that the target answers, so that a stray
  row of it is seen by the gaps (`NoGapCovers`).
* `ResponsesOwn` of `RunAnchor`: what is stored of a generation's response is what its own
  request established, or it cannot anchor.

Causal reachability is never expanded: whichever rows the edges reach, a row that is not
reached is not counted and is named as a gap. `SumOfOnes` is a fold over a set; it is
proved by the least number of elements for which it would be wrong (`LeastNumber`), since
the library's induction theorems take an operator as a parameter and cannot be used.

Only model-checked: everything under fairness (`RunSettles`; liveness and ENABLED are outside
what the prover handles). Every invariant and action property of the passing runs is the
conclusion of a theorem.

## 6. Not modelled, and why

* The legacy-compatibility surfaces: the per-target normalizer and built-in invariants of
  targets without a manifest (`packages/evidence/src/{normalizer,invariants}*`). The
  targets themselves, their registration and their exit classes are modelled; the strict
  generic path is the one that new targets use.
* Text: the grammars of names, closed keys and size limits of definitions, canonical form
  and hashing, the address policy of destinations, the text that redaction matches. They
  are stateless; what redaction hides is a value that proves nothing.
* Evaluation rows that were damaged after they were written, identity conflicts and links
  of the hash chain: the chain is modelled as append-only and its verification by result.
* Telemetry, disarming of faults by the step processor and adapter capture: nothing in the
  control plane reads them back. Shutdown is a crash to the rows.
* The contents of timelines, reproductions and comparisons of forensics; of `compare` the
  command and its exits are modelled.
* The sweep's selection of runs to analyze (it skips runs that have a completed batch).
* Web console, showcase and incident runners, configuration and logging: presentation,
  scripts and parsing.

## 7. Plan

1. Done: `SideEffects`, `RunLifecycle`, `ControlDb`, `Execution`, `Evidence`, their runs
   and proofs.
2. Done: the targets (`FaultControl`, `Checkout`, `Webhook`) with proofs of conservation
   and single application; the verdicts (`GenericRules`, `Inspection`, `RunAnchor`);
   definitions, authority and exits (`Definitions`, `Reporting`, `Client`) with proofs.
3. Done: proofs of the running system (`ExecutionProofs`).
   Done: proofs of the verdicts and the anchor (`VerdictProofs`).
4. Done: every invariant and action property of the runs is proved, the last of them
   `OwnProofSuffices` and `MarkedWorkHasJob`.
5. To state: an abstract specification of certification (whatever is COMPLETE, published
   or authorized was derived from the watermark current at that moment) refined by
   `Evidence`.
6. To model: identity conflicts and links of the chain under concurrent appends, the
   sweep's selection of runs, the legacy normalizer and invariants, the CLI's dispatcher as
   a further caller of `Execution`.
