------------------------------- MODULE Client -------------------------------
(***************************************************************************)
(* The commands of the CLI (cli/src/cli.ts, orchestrator.ts) and the run   *)
(* request of the API, over the rows they create: the target registration, *)
(* experiment revisions, run snapshots, runs and reproduction definitions. *)
(* The grants are configuration: a process captures them when it starts,   *)
(* and they may be another set for the next one.                           *)
(*                                                                         *)
(* A run here is the row and its state; what happens in between is module  *)
(* Execution, and what an analysis publishes is module Evidence: of both   *)
(* only the result is taken, any that they can have.                       *)
(***************************************************************************)
EXTENDS Definitions, Reporting

CONSTANTS
  Policies,      \* the grants a process may be configured with
  Inputs,        \* [registration, document] a behaviour starts from
  Rank,          \* the lexicographic order of normalized origins
  Published,     \* set of keys -> what analyses of a run may have published
  MaxCommands, MaxRuns, MaxReconfigs,
  MaxCycles      \* RUN_ANALYSIS_MAX_CYCLES

ASSUME PoliciesAssumption == \A p \in Policies : GrantsValid(p)

\* Whatever keys a run has bound, every analysis publishes coherent rows for them.
ASSUME PublishedAssumption ==
  \A bound \in DOMAIN Published : \A f \in Published[bound] : Coherent(f, bound)

Clients == {"cli", "api"}

VARIABLES
  grants,        \* what a process started now is configured with
  input,
  target,        \* the registration row, or Absent
  revisions,     \* experiment revisions of the document
  snapshots,     \* run_snapshot rows: the frozen documents, in order
  runs,          \* rows: snapshot, state, the run it replays, creator's grants
  reproductions, \* runs with a reproduction definition
  session,       \* per client: the command it executes
  commands, reconfigs   \* how many were started

rowVars == <<target, revisions, snapshots, runs, reproductions>>
clientVars == <<grants, input, rowVars, session, commands, reconfigs>>

Terminal == {"COMPLETED", "FAILED", "CANCELLED"}

Idle == [cmd |-> "none", stage |-> "idle", policy |-> Absent, number |-> 0,
         frozen |-> Absent, other |-> 0, created |-> 0, tries |-> 0,
         exit |-> Absent, truth |-> Absent]

Doc == input.document

Bound(n) == frozenInvariantKeys(snapshots[runs[n].snapshot])

ClientInit ==
  /\ grants \in Policies /\ input \in Inputs
  /\ target = Absent /\ revisions = 0 /\ snapshots = <<>> /\ runs = <<>>
  /\ reproductions = {}
  /\ session = [c \in Clients |-> Idle]
  /\ commands = 0 /\ reconfigs = 0

At(c, cmd, stage) == session[c].cmd \in cmd /\ session[c].stage = stage

Move(c, stage) == session' = [session EXCEPT ![c].stage = stage]

MoveWith(c, stage, number) ==
  session' = [session EXCEPT ![c].stage = stage, ![c].number = number, ![c].frozen = Absent]

\* The process exits; what its command was about is kept until the next one.
Exit(c, code) ==
  session' = [session EXCEPT ![c].stage = "exited", ![c].exit = code, ![c].frozen = Absent]

Still == UNCHANGED <<grants, input, commands, reconfigs>>

-----------------------------------------------------------------------------
(* Registration and configuration *)

Origins(reg) == {normalizeOrigin(o) : o \in reg.origins}

\* The origins of a registration have a lexicographic first.
ASSUME RankAssumption == \A i \in Inputs : i.registration.origins # {} =>
  \E o \in Origins(i.registration) : \A p \in Origins(i.registration) : Rank[o] <= Rank[p]

\* A manifest has to agree with the registration it comes with.
ManifestAgrees(reg) ==
  /\ reg.manifest.environment = reg.environment
  /\ {normalizeOrigin(o) : o \in reg.manifest.origins} = Origins(reg)
  /\ reg.manifest.refs = reg.refs
  /\ reg.manifest.contract = reg.contract

\* Grants bind only targets that declare a manifest; only these are never PRODUCTION.
Registrable(policy, reg) ==
  /\ reg.environment \in {"LOCAL_DEVELOPMENT", "STAGING", "PRODUCTION"}
  /\ reg.contract \in ContractKinds
  /\ reg.refs \subseteq ExecutorRefs
  /\ OriginsAcceptable(reg.origins)
  /\ reg.manifest # Absent =>
       /\ RefsAuthorized(policy, Origins(reg), reg.refs)
       /\ ManifestValid(reg.manifest)
       /\ ManifestAgrees(reg)
       /\ SignatureResolvable(policy, Origins(reg), reg.manifest)
  /\ reg.environment # "LOCAL_DEVELOPMENT" => \A o \in reg.origins : o.scheme = "https"

TargetRow(reg) ==
  [name |-> reg.name, origins |-> Origins(reg), environment |-> reg.environment,
   contract |-> reg.contract, refs |-> reg.refs, manifest |-> reg.manifest]

registerTarget ==
  /\ target = Absent
  /\ Registrable(grants, input.registration)
  /\ target' = TargetRow(input.registration)
  /\ UNCHANGED <<revisions, snapshots, runs, reproductions, session>> /\ Still

Reconfigure ==
  /\ reconfigs < MaxReconfigs
  /\ \E policy \in Policies \ {grants} : grants' = policy
  /\ reconfigs' = reconfigs + 1
  /\ UNCHANGED <<input, rowVars, session, commands>>

Start(c) ==
  /\ session[c].stage \in {"idle", "exited"} /\ commands < MaxCommands
  /\ commands' = commands + 1
  /\ \E cmd \in IF c = "cli" THEN {"run", "replay", "compare", "validate"} ELSE {"api-run"} :
       \E number, other \in {0} \cup DOMAIN runs :
         /\ cmd = "compare" => 0 \notin {number, other}
         /\ cmd # "compare" => other = 0
         /\ cmd \notin {"replay", "compare"} => number = 0
         /\ session' = [session EXCEPT ![c] =
              [Idle EXCEPT !.cmd = cmd, !.stage = "started", !.policy = grants,
                           !.number = number, !.other = other]]
  /\ UNCHANGED <<grants, input, rowVars, reconfigs>>

-----------------------------------------------------------------------------
(* Defining, freezing and creating a run *)

\* The same checks before `run` writes anything as in `scenarios validate`, but
\* grants that no longer cover the stored manifest are an exit 3 for `run`.
createExperiment(c) ==
  /\ At(c, {"run"}, "started")
  /\ IF target = Absent THEN Exit(c, 4) /\ UNCHANGED revisions
     ELSE IF ~PolicyDerivable(session[c].policy, target) THEN Exit(c, 3) /\ UNCHANGED revisions
     ELSE IF ~validateExperimentDocument(session[c].policy, target, Doc)
          THEN Exit(c, 4) /\ UNCHANGED revisions
     ELSE /\ revisions' = revisions + 1
          /\ MoveWith(c, "freeze", revisions + 1)
  /\ UNCHANGED <<target, snapshots, runs, reproductions>> /\ Still

validateScenarioAuthoritative(c) ==
  /\ At(c, {"validate"}, "started")
  /\ Exit(c, IF /\ target # Absent
                /\ PolicyDerivable(session[c].policy, target)
                /\ validateExperimentDocument(session[c].policy, target, Doc) THEN 0 ELSE 4)
  /\ UNCHANGED rowVars /\ Still

\* The API creates a run of any stored revision.
PickRevision(c) ==
  /\ At(c, {"api-run"}, "started")
  /\ \E n \in 1 .. revisions : MoveWith(c, "freeze", n)
  /\ UNCHANGED rowVars /\ Still

Stored(frozen) == {n \in DOMAIN snapshots : snapshots[n] = frozen}

\* The document is built and its content hash is looked for.
freezeSnapshot(c) ==
  /\ At(c, {"run", "api-run"}, "freeze")
  /\ LET s == session[c]
         frozen == buildSnapshotDocument(s.policy, target, s.number, Doc, Rank)
     IN  IF ~Freezable(s.policy, target, Doc) THEN Exit(c, 3)
         ELSE IF Stored(frozen) # {} THEN MoveWith(c, "create", CHOOSE n \in Stored(frozen) : TRUE)
         ELSE session' = [session EXCEPT ![c].stage = "insert", ![c].frozen = frozen]
  /\ UNCHANGED rowVars /\ Still

\* Another process may have frozen the same content since: the content hash is unique.
insertSnapshot(c) ==
  /\ At(c, {"run", "api-run"}, "insert")
  /\ IF Stored(session[c].frozen) # {} THEN Exit(c, 3) /\ UNCHANGED snapshots
     ELSE /\ snapshots' = Append(snapshots, session[c].frozen)
          /\ MoveWith(c, "create", Len(snapshots) + 1)
  /\ UNCHANGED <<target, revisions, runs, reproductions>> /\ Still

\* The run row and its steps, in one transaction; the API answers here.
AddRun(c, n, replayed) ==
  /\ runs' = Append(runs, [snapshot |-> n, state |-> "SNAPSHOT_PINNED",
                           replays |-> replayed, by |-> session[c].policy])
  /\ session' = [session EXCEPT
       ![c].stage = IF session[c].cmd = "api-run" THEN "exited" ELSE "dispatch",
       ![c].number = Len(runs) + 1, ![c].created = Len(runs) + 1]

\* A PRODUCTION target is refused only here, behind the definition and the snapshot.
createRun(c) ==
  /\ At(c, {"run", "api-run"}, "create") /\ Len(runs) < MaxRuns
  /\ IF snapshots[session[c].number].environment = "PRODUCTION"
       THEN Exit(c, 4) /\ UNCHANGED runs
       ELSE AddRun(c, session[c].number, 0)
  /\ UNCHANGED <<target, revisions, snapshots, reproductions>> /\ Still

-----------------------------------------------------------------------------
(* Replay *)

\* The registration still carries what was frozen, and the captured grants still
\* cover the frozen references, on the origin that is executed.
validateReplayBinding(policy, frozen) ==
  /\ frozen.target = target.name
  /\ frozen.environment = target.environment /\ frozen.contract = target.contract
  /\ frozen.environment \in {"LOCAL_DEVELOPMENT", "STAGING"}
  /\ frozen.origin \in target.origins
  /\ frozen.refs \subseteq target.refs
  /\ RefsAuthorized(policy, {frozen.origin}, frozen.refs)
  /\ \A i \in frozen.bindings : i.version = RegistryVersion

\* executeReplay up to its first write; createRunFromSnapshot validates again.
executeReplay(c) ==
  /\ At(c, {"replay"}, "started") /\ Len(runs) < MaxRuns
  /\ LET s == session[c] IN
     IF s.number \in reproductions
          /\ validateReplayBinding(s.policy, snapshots[runs[s.number].snapshot])
       THEN AddRun(c, runs[s.number].snapshot, s.number)
       ELSE Exit(c, 4) /\ UNCHANGED runs
  /\ UNCHANGED <<target, revisions, snapshots, reproductions>> /\ Still

-----------------------------------------------------------------------------
(* Driving a run to its report *)

SetState(n, state) == runs' = [runs EXCEPT ![n].state = state]

\* markRunDispatching, then the enqueue, which may fail: the run stays DISPATCHING.
dispatchRun(c) ==
  /\ At(c, {"run", "replay"}, "dispatch")
  /\ LET n == session[c].number
     IN  SetState(n, IF runs[n].state = "SNAPSHOT_PINNED" THEN "DISPATCHING" ELSE runs[n].state)
  /\ Move(c, "wait") \/ Exit(c, 3)
  /\ UNCHANGED <<target, revisions, snapshots, reproductions>> /\ Still

\* A run that did not COMPLETE, or not in time, ends the command without a report.
waitForRunTerminal(c) ==
  /\ At(c, {"run", "replay"}, "wait")
  /\ \/ runs[session[c].number].state = "COMPLETED" /\ Move(c, "analyze")
     \/ runs[session[c].number].state # "COMPLETED" /\ Exit(c, 3)
  /\ UNCHANGED rowVars /\ Still

\* Inspection, analysis and its wait, then the forensic derivation with the
\* run's reproduction definition; each of them but the first may throw.
analyzeRun(c) ==
  /\ At(c, {"run", "replay"}, "analyze")
  /\ \/ /\ reproductions' = reproductions \cup {session[c].number}
        /\ Move(c, "authorize") \/ Exit(c, 3)
     \/ UNCHANGED reproductions /\ Exit(c, 3)
  /\ UNCHANGED <<target, revisions, snapshots, runs>> /\ Still

\* What some published state of run n, for the keys it has bound, leads to.
Decisions(n) ==
  UNION {{[disposition |-> disposition(f, bound), verified |-> f.chain = "intact",
           exit |-> classifyExit(f, bound),
           truth |-> [holds |-> Holds(f, bound), fails |-> Fails(f, bound)]] :
            f \in Published[bound]} : bound \in DOMAIN Published \cap {Bound(n)}}

AnalyzeAgain(c) == session' = [session EXCEPT ![c].tries = @ + 1]

Report(c, d) == session' = [session EXCEPT
  ![c] = [@ EXCEPT !.stage = "report", !.exit = d.exit, !.truth = d.truth]]

\* A refusal of RETRY is analyzed again, a bounded number of times; the last
\* refusal is reported, uncertified.  A lock or a read that fails is an exit 3.
authorizeReport(c) ==
  /\ At(c, {"run", "replay"}, "authorize")
  /\ \/ Exit(c, 3)
     \/ \E d \in Decisions(session[c].number) :
          IF d.disposition = "RETRY" /\ session[c].tries + 1 < MaxCycles
            THEN AnalyzeAgain(c) ELSE Report(c, d)
  /\ UNCHANGED rowVars /\ Still

\* The report is written to a temporary file and renamed; if that fails nothing
\* of it is visible and the exit is 3.
emitOutcome(c) ==
  /\ At(c, {"run", "replay"}, "report")
  /\ Exit(c, session[c].exit) \/ Exit(c, 3)
  /\ UNCHANGED rowVars /\ Still

Comparable(n, m) == n # m /\ runs[n].snapshot = runs[m].snapshot

SideAuthorized(d) == d.verified /\ d.disposition = "AUTHORIZED"

\* Both sides are authorized as a report is, and nothing is analyzed again.  One
\* of the two that is refused refuses the comparison: d is about that one.
compareReplayRuns(c) ==
  /\ At(c, {"compare"}, "started")
  /\ LET s == session[c]
         sides == {s.number, s.other}
     IN  \/ Exit(c, 3)
         \/ ~Comparable(s.number, s.other) /\ Exit(c, 4)
         \/ /\ Comparable(s.number, s.other)
            /\ \/ (\E n \in sides : runs[n].state # "COMPLETED") /\ Exit(c, 4)
               \/ /\ \A n \in sides : runs[n].state = "COMPLETED"
                  /\ \E d \in Decisions(s.number) :
                       Exit(c, IF SideAuthorized(d) THEN 0 ELSE 4)
  /\ UNCHANGED rowVars /\ Still

-----------------------------------------------------------------------------
(* The rest of the system *)

\* POST runs/:id/forensics/derive asks of a run only that it exists: in whatever state
\* it is, the derivation leaves its reproduction definition, or fails and leaves none.
deriveRunForensics ==
  /\ \E n \in DOMAIN runs : reproductions' = reproductions \cup {n}
  /\ UNCHANGED <<target, revisions, snapshots, runs, session>> /\ Still

\* The dispatch endpoint, the engine, and the cancel endpoint.
RunMoves ==
  /\ \E n \in DOMAIN runs :
       \/ /\ runs[n].state = "SNAPSHOT_PINNED"
          /\ SetState(n, "DISPATCHING") \/ SetState(n, "CANCELLED")
       \/ /\ runs[n].state = "DISPATCHING"
          /\ \E state \in Terminal : SetState(n, state)
  /\ UNCHANGED <<target, revisions, snapshots, reproductions, session>> /\ Still

\* The process is killed between any two steps.
Killed(c) ==
  /\ session[c].stage \notin {"idle", "exited"}
  /\ session' = [session EXCEPT ![c] = Idle]
  /\ UNCHANGED rowVars /\ Still

ClientAction(c) ==
  \/ Start(c) \/ createExperiment(c) \/ validateScenarioAuthoritative(c)
  \/ PickRevision(c) \/ freezeSnapshot(c) \/ insertSnapshot(c) \/ createRun(c)
  \/ executeReplay(c) \/ dispatchRun(c) \/ waitForRunTerminal(c) \/ analyzeRun(c)
  \/ authorizeReport(c) \/ emitOutcome(c) \/ compareReplayRuns(c) \/ Killed(c)

ClientNext ==
  \/ registerTarget \/ Reconfigure \/ RunMoves \/ deriveRunForensics
  \/ \E c \in Clients : ClientAction(c)

ClientSpec == ClientInit /\ [][ClientNext]_clientVars

-----------------------------------------------------------------------------
(***************************************************************************)
(* What the evaluator and the run anchor read of an instance, by role      *)
(* (generic-invariant-evaluate.ts, generic-eligibility.ts, run-anchor.ts): *)
(* <<role, field, types it can use>>.  The resource's identity is left out *)
(* for the remaining role, where it is read and nothing requires it.       *)
(***************************************************************************)
Reads(i) ==
  LET p == i.params
      scoped == UNION {{<<r, f, {"string"}>> : f \in p.scope.fields}
                         \cup {<<r, p.scope.generation, {"integer-minor-units"}>>} :
                       r \in IF i.kind = "atMostOneAcceptedEffect"
                               THEN {p.subjectRole, p.effectRole}
                               ELSE {p.baselineRole, p.remainingRole, p.consumptionEffectRole}}
  IN  scoped \cup
      IF i.kind = "atMostOneAcceptedEffect"
        THEN {<<p.subjectRole, f, FieldTypes>> : f \in p.equivalence \cup {p.subjectIdentityField}}
               \cup {<<p.effectRole, f, FieldTypes>> :
                       f \in p.equivalence \cup {p.effectIdentityField, p.match.field}}
        ELSE {<<p.baselineRole, p.resourceIdentityField, FieldTypes>>,
              <<p.baselineRole, p.baselineUnitsField, {"integer-minor-units"}>>,
              <<p.remainingRole, p.remainingUnitsField, {"integer-minor-units"}>>,
              <<p.consumptionEffectRole, p.resourceIdentityField, FieldTypes>>,
              <<p.consumptionEffectRole, p.consumptionEffectIdentityField, FieldTypes>>,
              <<p.consumptionEffectRole, p.consumptionUnitsField, {"integer-minor-units"}>>,
              <<p.consumptionEffectRole, p.match.field, FieldTypes>>}

\* The completeness summary is read from its own query.
SummaryReads(i) ==
  {<<i.params.proof.totalField, {"integer-minor-units"}>>,
   <<i.params.scope.generation, {"integer-minor-units"}>>}
    \cup {<<f, {"string"}>> : f \in i.params.scope.fields}

Readable(q, field, types) == field \in DOMAIN q.fields /\ q.fields[field] \in types

QueriesOf(z, role) == {q \in z.evidence.queries : q.role = role}

\* Subject and effect are compared by value: their fields have one type.
SameTypes(z, i) ==
  i.kind = "atMostOneAcceptedEffect" =>
    \A q \in QueriesOf(z, i.params.subjectRole), r \in QueriesOf(z, i.params.effectRole) :
      \A f \in i.params.equivalence : q.fields[f] = r.fields[f]

Evaluable(z, i) ==
  /\ \A read \in Reads(i) : \A q \in QueriesOf(z, read[1]) : Readable(q, read[2], read[3])
  /\ \E q \in z.evidence.queries :
       q.id = i.params.proof.query
         /\ \A read \in SummaryReads(i) : Readable(q, read[1], read[2])
  /\ SameTypes(z, i)
  /\ z.scope.subjects[i.key] # {}

-----------------------------------------------------------------------------
(* Properties *)

\* Every invariant instance that is frozen into a snapshot can be evaluated: each
\* query bound to one of its roles delivers every field that is read of the role
\* with a type that can be used, what is compared is of one type, the summary has
\* its totals, and the one setup step is sent once.  Types are declared on nodes
\* and again on queries, and the instance names only roles: no single check sees
\* all of it, and a gap shows only as a run that can never be evaluated.
FrozenIsEvaluable ==
  \A n \in DOMAIN snapshots :
    LET z == snapshots[n] IN
    z.bindings # {} =>
      /\ \A i \in z.bindings : Evaluable(z, i)
      /\ \E k \in 1 .. Len(z.steps) :
           /\ z.steps[k].name = z.scope.setup
           /\ z.steps[k].repeat = 1 /\ z.steps[k].retry = "NONE"

\* No process creates a run beyond its own authority: a run is never aimed at a
\* PRODUCTION target, and the grants its creator started with cover, on the origin
\* that is executed, every reference frozen for a target with a manifest, and for
\* any target that is replayed, the signing one included.  A replay is of the very
\* snapshot of the run it reproduces, whatever became of that run: the API derives
\* reproduction definitions of runs in any state.  Snapshots are shared by content
\* and grants change between the processes, so none of this is decided where the
\* run row is written.
RunsAuthorized ==
  \A n \in DOMAIN runs :
    LET r == runs[n]
        z == snapshots[r.snapshot]
        granted == IF z.origin \in DOMAIN r.by.of THEN r.by.of[z.origin] ELSE {}
    IN  /\ z.environment # "PRODUCTION"
        /\ z.policy # Absent \/ r.replays # 0 => z.refs \subseteq granted
        /\ z.policy # Absent => z.policy.signingRef \in granted \cup {Absent}
        /\ r.replays # 0 => runs[r.replays].snapshot = r.snapshot

\* The exit status is the truth about the run the command created, however its
\* analysis, its retries and its refusals went: 0 only when every declared subject
\* of every bound key passes over verified and current evidence, 1 only when one
\* the run owns fails, 2 for neither, 4 only when the command created no run, and a
\* comparison that exits 0 was of two completed runs of one snapshot.
ExitTruthful ==
  \A c \in Clients : session[c].stage = "exited" =>
    LET s == session[c] IN
    /\ s.cmd \in {"run", "replay"} =>
         /\ s.exit \in {0, 1, 2} => s.created # 0 /\ runs[s.created].state = "COMPLETED"
         /\ s.exit = 0 => s.truth.holds /\ ~s.truth.fails
         /\ s.exit = 1 => s.truth.fails
         /\ s.exit = 2 => ~s.truth.holds /\ ~s.truth.fails
         /\ s.exit = 4 => s.created = 0
    /\ s.cmd = "compare" /\ s.exit = 0 =>
         /\ s.number # s.other
         /\ runs[s.number].snapshot = runs[s.other].snapshot
         /\ {runs[s.number].state, runs[s.other].state} = {"COMPLETED"}
=============================================================================
