------------------------------ MODULE Evidence ------------------------------
(***************************************************************************)
(* From raw evidence to a certified report, for one run: the truth-input   *)
(* watermark (C, P, D), derivation attempts, the two-stage analysis cycle, *)
(* publication of the current evaluation, forensic derivation, and the     *)
(* authorization of a report.  Sessions (worker sweep, API, CLI) run       *)
(* concurrently; whatever holds the per-run advisory lock is one action,   *)
(* and every other await separates two.                                    *)
(*                                                                         *)
(* The chain is append-only under the lock, so its count identifies it:    *)
(* observation i is the one with chain index i - 1.  Row i of the          *)
(* projection stands for the events and relationships that observation i   *)
(* adds; a pass is interrupted between two of them.  A verdict is a        *)
(* function of the graph it was computed over and is represented by that   *)
(* graph.  All bound invariants and subjects are published together and    *)
(* are one pointer here.  Contested identities and the coverage rules of   *)
(* strict keys are left out.                                               *)
(***************************************************************************)
EXTENDS Naturals, FiniteSets, Sequences

CONSTANTS
  Analysts,         \* sessions that call runRunAnalysis, once each
  Reporters,        \* those that go on to a report, as the CLI does
  Captured,         \* observations captured before the first session
  MaxLateWrites,    \* bound on later observations and provenance writes together
  RUN_ANALYSIS_MAX_CYCLES,
  MaxFaults         \* bound on exceptions, crashes and abandoned attempts together

ASSUME EvidenceAssumption ==
  /\ Reporters \subseteq Analysts
  /\ Captured \in Nat /\ MaxLateWrites \in Nat
  /\ RUN_ANALYSIS_MAX_CYCLES \in Nat \ {0}
  /\ MaxFaults \in Nat

EVIDENCE == "run-evidence/v1"
FORENSICS == "run-forensics/v1"
Kinds == {EVIDENCE, FORENSICS}

VARIABLES
  completed,             \* the run's state is COMPLETED
  observations,          \* C: length of the run's observation chain
  provenanceRevision,    \* P
  derivationGeneration,  \* D
  projection,            \* the observations whose derived rows are committed
  attempts,              \* per kind: derivation_attempt rows, by attemptGeneration
  evaluations,           \* invariant_evaluation rows, unique by evidence-set hash
  pointer,               \* proof and pointer rows of the current publication
  findings,              \* evaluations whose findings were derived
  report,                \* per reporter: what its report says
  pc, local,             \* per session: control point and locals
  faults

truthVars == <<completed, observations, provenanceRevision>>
derivedVars == <<derivationGeneration, projection>>
resultVars == <<evaluations, pointer, findings, report>>
vars == <<truthVars, derivedVars, attempts, resultVars, pc, local, faults>>

Observation == 1 .. Captured + MaxLateWrites
Rows == SUBSET Observation
Watermark == [c : Nat, p : Nat, d : Nat]
W == [c |-> observations, p |-> provenanceRevision, d |-> derivationGeneration]

\* computeEvidenceSetFingerprint: the observations and the derived rows.
Fingerprint == [obs : Nat, rows : Rows]
NoFingerprint == [obs |-> 0, rows |-> {}]
Evaluation == [fp : Fingerprint, graph : Rows]

Attempt == [status : {"IN_PROGRESS", "COMPLETE", "INCOMPLETE", "FAILED", "ABANDONED"},
            source : Watermark, committed : Nat]

\* analysisGeneration 0: no publication yet.
Publication == [generation : Nat, fp : Fingerprint, w : Watermark]

Report == [outcome : {"none", "certified", "uncertified", "failure"},
           fp : Fingerprint, w : Watermark, findings : SUBSET Fingerprint]

ZeroW == [c |-> 0, p |-> 0, d |-> 0]
NoReport == [outcome |-> "none", fp |-> NoFingerprint, w |-> ZeroW, findings |-> {}]

Point == {"idle", "stage1", "begin", "load", "derive", "stage2", "read", "publish",
          "await", "forensics", "evaluations", "findings", "finish",
          "verify", "head", "authorize", "done"}

\* cycle: analysis cycles begun; tries: authorizations made; w: stage 1, then
\* W0; attempt: the row this session began; seen: inputs loaded, later rows
\* verified; read: statements of the pass already executed; graph, fp: what
\* they returned; evals: evaluations loaded for findings.
Local == [publishable : BOOLEAN, cycle : Nat, tries : Nat, w : Watermark, attempt : Nat,
          seen : Nat, read : SUBSET {"graph", "observations", "rows"},
          graph : Rows, fp : Fingerprint, evals : SUBSET Fingerprint, intact : BOOLEAN]

Fresh == [publishable |-> FALSE, cycle |-> 0, tries |-> 0, w |-> ZeroW, attempt |-> 0,
          seen |-> 0, read |-> {}, graph |-> {}, fp |-> NoFingerprint, evals |-> {},
          intact |-> FALSE]

Init ==
  /\ completed = FALSE
  /\ observations = Captured
  /\ provenanceRevision = 0
  /\ derivationGeneration = 0
  /\ projection = {}
  /\ attempts = [k \in Kinds |-> <<>>]
  /\ evaluations = {}
  /\ pointer = [generation |-> 0, fp |-> NoFingerprint, w |-> ZeroW]
  /\ findings = {}
  /\ report = [a \in Analysts |-> NoReport]
  /\ pc = [a \in Analysts |-> "idle"]
  /\ local = [a \in Analysts |-> Fresh]
  /\ faults = 0

Goto(a, point) == pc' = [pc EXCEPT ![a] = point]
Keep(a, changes) == local' = [local EXCEPT ![a] = changes]

-----------------------------------------------------------------------------
(* The writers of truth inputs *)

\* CompleteRun advances P once itself.
LateWrites == (observations - Captured) + provenanceRevision - (IF completed THEN 1 ELSE 0)

\* appendChainObservation: late evidence; a repeated identity appends nothing.
AppendObservation ==
  /\ LateWrites < MaxLateWrites
  /\ observations' = observations + 1
  /\ UNCHANGED <<completed, provenanceRevision, derivedVars, attempts, resultVars, pc, local, faults>>

\* advanceProvenanceRevision in a late control-plane transaction.
WriteProvenance ==
  /\ LateWrites < MaxLateWrites
  /\ provenanceRevision' = provenanceRevision + 1
  /\ UNCHANGED <<completed, observations, derivedVars, attempts, resultVars, pc, local, faults>>

\* settleRuns: the run's terminal transition advances P as well.
CompleteRun ==
  /\ ~completed
  /\ completed' = TRUE
  /\ provenanceRevision' = provenanceRevision + 1
  /\ UNCHANGED <<observations, derivedVars, attempts, resultVars, pc, local, faults>>

-----------------------------------------------------------------------------
(* Derivation attempts *)

\* The row is durable, with its source, before the pass reads anything.
beginDerivationAttempt(a, k) ==
  /\ attempts' = [attempts EXCEPT ![k] =
       Append(@, [status |-> "IN_PROGRESS", source |-> W, committed |-> 0])]
  /\ Keep(a, [local[a] EXCEPT !.attempt = Len(attempts[k]) + 1])

\* Mutant: the update has no WHERE status = 'IN_PROGRESS'.
Finish_unguarded(k, n, status, committed) ==
  attempts' = [attempts EXCEPT ![k][n].status = status, ![k][n].committed = committed]

\* A status-guarded update: only an IN_PROGRESS row is ever finished.
Finish(k, n, status, committed) ==
  attempts' = IF attempts[k][n].status = "IN_PROGRESS"
                THEN [attempts EXCEPT ![k][n].status = status, ![k][n].committed = committed]
                ELSE attempts

\* The pass's own commits move D, so only the kind that writes none checks it.
SourceMoved(k, source) ==
  \/ source.c # observations
  \/ source.p # provenanceRevision
  \/ k = FORENSICS /\ source.d # derivationGeneration

completeDerivationAttempt(k, n) ==
  IF SourceMoved(k, attempts[k][n].source)
    THEN Finish(k, n, "INCOMPLETE", 0)
    ELSE Finish(k, n, "COMPLETE", derivationGeneration)

failDerivationAttempt(k, n) == Finish(k, n, "FAILED", 0)

\* Mutant: a proof of any source counts while D stands.
Proofs_anySource(k) == {n \in DOMAIN attempts[k] : attempts[k][n].status = "COMPLETE"}

\* The COMPLETE attempts of the current C and P.
Proofs(k) == {n \in DOMAIN attempts[k] :
  /\ attempts[k][n].status = "COMPLETE"
  /\ attempts[k][n].source.c = observations
  /\ attempts[k][n].source.p = provenanceRevision}

Ranks(k, m, n) ==
  \/ attempts[k][m].committed < attempts[k][n].committed
  \/ attempts[k][m].committed = attempts[k][n].committed /\ m <= n

\* Mutant: any unresolved attempt blocks, an older one as well.
Ready_anyUnresolved(k) == \E n \in Proofs(k) :
  /\ \A m \in Proofs(k) : Ranks(k, m, n)
  /\ attempts[k][n].committed = derivationGeneration
  /\ \A m \in DOMAIN attempts[k] : attempts[k][m].status # "IN_PROGRESS"

\* readDerivationReadiness, its refusals not told apart: a COMPLETE attempt of
\* the current C and P covers the current D, and no newer one is unresolved.
Ready(k) == \E n \in Proofs(k) :
  /\ \A m \in Proofs(k) : Ranks(k, m, n)
  /\ attempts[k][n].committed = derivationGeneration
  /\ \A m \in DOMAIN attempts[k] : attempts[k][m].status = "IN_PROGRESS" => m < n

-----------------------------------------------------------------------------
(* One session of runRunAnalysis *)

\* The API and the worker analyze a run in any state, the CLI a COMPLETED one.
Start(a) ==
  /\ pc[a] = "idle"
  /\ a \in Reporters => completed
  /\ Goto(a, "stage1")
  /\ Keep(a, [local[a] EXCEPT !.publishable = completed, !.cycle = 1])
  /\ UNCHANGED <<truthVars, derivedVars, attempts, resultVars, faults>>

\* captureStage1Source.
Stage1(a) ==
  /\ pc[a] = "stage1"
  /\ Goto(a, "begin")
  /\ Keep(a, [local[a] EXCEPT !.w = W])
  /\ UNCHANGED <<truthVars, derivedVars, attempts, resultVars, faults>>

\* deriveRunEvidence.
BeginDerivation(a) ==
  /\ pc[a] = "begin"
  /\ beginDerivationAttempt(a, EVIDENCE)
  /\ Goto(a, "load")
  /\ UNCHANGED <<truthVars, derivedVars, resultVars, faults>>

\* Mutant: the next chain index is taken for the count.
LoadInputs_offByOne(a) ==
  /\ pc[a] = "load"
  /\ Goto(a, "derive")
  /\ Keep(a, [local[a] EXCEPT !.seen = observations + 1])
  /\ UNCHANGED <<truthVars, derivedVars, attempts, resultVars, faults>>

\* loadNormalizerInputs.
LoadInputs(a) ==
  /\ pc[a] = "load"
  /\ Goto(a, "derive")
  /\ Keep(a, [local[a] EXCEPT !.seen = observations])
  /\ UNCHANGED <<truthVars, derivedVars, attempts, resultVars, faults>>

Underived(a) == (1 .. local[a].seen) \ projection

\* The next row that is not there yet, with its D advance.  A row that a
\* concurrent pass already committed is converged on and advances nothing.
writeDerivedRow(a) == \E i \in Underived(a) :
  /\ \A j \in Underived(a) : i <= j
  /\ projection' = projection \cup {i}
  /\ derivationGeneration' = derivationGeneration + 1

DeriveRow(a) ==
  /\ pc[a] = "derive"
  /\ writeDerivedRow(a)
  /\ UNCHANGED <<truthVars, attempts, resultVars, pc, local, faults>>

\* The completeness checks count the rows the pass has just committed.
FinishDerivation(a) ==
  /\ pc[a] = "derive"
  /\ Underived(a) = {}
  /\ completeDerivationAttempt(EVIDENCE, local[a].attempt)
  /\ Goto(a, "stage2")
  /\ Keep(a, [local[a] EXCEPT !.seen = 0])
  /\ UNCHANGED <<truthVars, derivedVars, resultVars, faults>>

\* Where a session goes when its analysis ends: a reporter's first analysis is
\* followed by forensics, a re-analysis by a new verification.
AfterAnalysis(a) ==
  IF a \notin Reporters THEN "done" ELSE IF local[a].tries = 0 THEN "await" ELSE "verify"

\* Locals that outlive an analysis.
Between(a) == [Fresh EXCEPT !.tries = local[a].tries]

\* Mutant: a retry reuses what the refused cycle read.
NextCycle_keepsReads(a) ==
  IF local[a].publishable /\ local[a].cycle < RUN_ANALYSIS_MAX_CYCLES
    THEN /\ Goto(a, "stage1")
         /\ Keep(a, [local[a] EXCEPT !.cycle = @ + 1])
    ELSE /\ Goto(a, AfterAnalysis(a))
         /\ Keep(a, Between(a))

\* A refused cycle starts over with a fresh capture, or the bound is exhausted.
NextCycle(a) ==
  IF local[a].publishable /\ local[a].cycle < RUN_ANALYSIS_MAX_CYCLES
    THEN /\ Goto(a, "stage1")
         /\ Keep(a, [Between(a) EXCEPT !.publishable = TRUE, !.cycle = local[a].cycle + 1])
    ELSE /\ Goto(a, AfterAnalysis(a))
         /\ Keep(a, Between(a))

\* captureStage2Watermark: W0, unless C or P moved since stage 1.
Stage2(a) ==
  /\ pc[a] = "stage2"
  /\ IF local[a].w.c # observations \/ local[a].w.p # provenanceRevision
       THEN NextCycle(a)
       ELSE /\ Goto(a, "read")
            /\ Keep(a, [local[a] EXCEPT !.w = W])
  /\ UNCHANGED <<truthVars, derivedVars, attempts, resultVars, faults>>

\* The pass loads the graph while the fingerprint is computed by two further
\* statements, observations before rows; nothing makes them one snapshot.
ReadGraph(a) ==
  /\ pc[a] = "read" /\ "graph" \notin local[a].read
  /\ Keep(a, [local[a] EXCEPT !.read = @ \cup {"graph"}, !.graph = projection])
  /\ UNCHANGED <<truthVars, derivedVars, attempts, resultVars, pc, faults>>

ReadObservations(a) ==
  /\ pc[a] = "read" /\ "observations" \notin local[a].read
  /\ Keep(a, [local[a] EXCEPT !.read = @ \cup {"observations"}, !.fp.obs = observations])
  /\ UNCHANGED <<truthVars, derivedVars, attempts, resultVars, pc, faults>>

ReadRows(a) ==
  /\ pc[a] = "read" /\ "observations" \in local[a].read /\ "rows" \notin local[a].read
  /\ Keep(a, [local[a] EXCEPT !.read = @ \cup {"rows"}, !.fp.rows = projection])
  /\ UNCHANGED <<truthVars, derivedVars, attempts, resultVars, pc, faults>>

Evaluated == {e.fp : e \in evaluations}

\* persistEvaluation: the unique key holds the fingerprint, so an evaluation
\* stored earlier under the same fingerprint is returned as it is.
persistEvaluation(e) ==
  evaluations' = IF e.fp \in Evaluated THEN evaluations ELSE evaluations \cup {e}

Evaluate(a) ==
  /\ pc[a] = "read" /\ local[a].read = {"graph", "observations", "rows"}
  /\ persistEvaluation([fp |-> local[a].fp, graph |-> local[a].graph])
  /\ IF local[a].publishable
       THEN Goto(a, "publish") /\ UNCHANGED local
       ELSE Goto(a, AfterAnalysis(a)) /\ Keep(a, Between(a))
  /\ UNCHANGED <<truthVars, derivedVars, attempts, pointer, findings, report, faults>>

\* Mutant: W0 is not compared again under the lock.
Publishable_unchecked(a) == completed /\ Ready(EVIDENCE)

Publishable(a) == local[a].w = W /\ completed /\ Ready(EVIDENCE)

\* publishAnalysisGeneration: one transaction, all rows of one generation.
Publish(a) ==
  /\ pc[a] = "publish"
  /\ Publishable(a)
  /\ pointer' = [generation |-> pointer.generation + 1, fp |-> local[a].fp, w |-> local[a].w]
  /\ Goto(a, AfterAnalysis(a))
  /\ Keep(a, Between(a))
  /\ UNCHANGED <<truthVars, derivedVars, attempts, evaluations, findings, report, faults>>

RefusePublication(a) ==
  /\ pc[a] = "publish"
  /\ ~Publishable(a)
  /\ NextCycle(a)
  /\ UNCHANGED <<truthVars, derivedVars, attempts, resultVars, faults>>

-----------------------------------------------------------------------------
(* The CLI's way to a report *)

\* waitForAnalysisComplete: completed batches of any pass are enough; the
\* command ends when there are none in time.
AwaitBatches(a) ==
  /\ pc[a] = "await"
  /\ Goto(a, IF evaluations = {} THEN "done" ELSE "forensics")
  /\ UNCHANGED <<truthVars, derivedVars, attempts, resultVars, local, faults>>

\* deriveRunForensics.
BeginForensics(a) ==
  /\ pc[a] = "forensics"
  /\ beginDerivationAttempt(a, FORENSICS)
  /\ Goto(a, "evaluations")
  /\ UNCHANGED <<truthVars, derivedVars, resultVars, faults>>

LoadEvaluations(a) ==
  /\ pc[a] = "evaluations"
  /\ Goto(a, "findings")
  /\ Keep(a, [local[a] EXCEPT !.evals = Evaluated])
  /\ UNCHANGED <<truthVars, derivedVars, attempts, resultVars, faults>>

\* Findings come from the evaluations that current pointers name; from all of
\* them when there is no publication.
DeriveFindings(a) ==
  /\ pc[a] = "findings"
  /\ findings' = findings \cup
       {f \in local[a].evals : pointer.generation = 0 \/ f = pointer.fp}
  /\ Goto(a, "finish")
  /\ UNCHANGED <<truthVars, derivedVars, attempts, evaluations, pointer, report, local, faults>>

FinishForensics(a) ==
  /\ pc[a] = "finish"
  /\ completeDerivationAttempt(FORENSICS, local[a].attempt)
  /\ Goto(a, "verify")
  /\ Keep(a, Between(a))
  /\ UNCHANGED <<truthVars, derivedVars, resultVars, faults>>

\* verifyRunEvidenceChain, outside the lock: the observation rows, then the head.
VerifyRows(a) ==
  /\ pc[a] = "verify"
  /\ Goto(a, "head")
  /\ Keep(a, [local[a] EXCEPT !.seen = observations])
  /\ UNCHANGED <<truthVars, derivedVars, attempts, resultVars, faults>>

\* After the last re-analysis the refusal stands.
VerifyHead(a) ==
  /\ pc[a] = "head"
  /\ Goto(a, IF local[a].tries = RUN_ANALYSIS_MAX_CYCLES THEN "done" ELSE "authorize")
  /\ Keep(a, [local[a] EXCEPT !.intact = (local[a].seen = observations)])
  /\ UNCHANGED <<truthVars, derivedVars, attempts, resultVars, faults>>

\* Mutant: any publication will do, that of an earlier watermark as well.
Authorized_anyPublication(a) ==
  pointer.generation > 0 /\ Ready(EVIDENCE) /\ local[a].seen = observations

\* readCurrentEvaluationPublication is CURRENT, and the locked chain is the
\* one that was verified.
Authorized(a) ==
  pointer.generation > 0 /\ Ready(EVIDENCE) /\ pointer.w = W /\ local[a].seen = observations

\* A report that certifies nothing keeps only its outcome here.
ReportAs(a, outcome) ==
  report' = [report EXCEPT ![a] =
    IF outcome = "certified"
      THEN [outcome |-> outcome, fp |-> pointer.fp, w |-> W, findings |-> findings]
      ELSE [NoReport EXCEPT !.outcome = outcome]]

\* authorizeReportFinalization.  An unverified chain is reported as a failure
\* whatever the publication is.
Authorize(a) ==
  /\ pc[a] = "authorize"
  /\ local[a].intact => Authorized(a)
  /\ ReportAs(a, IF local[a].intact THEN "certified" ELSE "failure")
  /\ Goto(a, "done")
  /\ Keep(a, Fresh)
  /\ UNCHANGED <<truthVars, derivedVars, attempts, evaluations, pointer, findings, faults>>

\* RETRY: the run is analyzed and verified again.
RetryAuthorization(a) ==
  /\ pc[a] = "authorize"
  /\ local[a].intact /\ ~Authorized(a)
  /\ ReportAs(a, "uncertified")
  /\ Goto(a, "stage1")
  /\ Keep(a, [Fresh EXCEPT !.publishable = completed, !.cycle = 1, !.tries = local[a].tries + 1])
  /\ UNCHANGED <<truthVars, derivedVars, attempts, evaluations, pointer, findings, faults>>

-----------------------------------------------------------------------------
(* Failures *)

InPass(a, k) ==
  pc[a] \in IF k = EVIDENCE THEN {"load", "derive"} ELSE {"evaluations", "findings", "finish"}

\* An exception inside a pass marks its attempt and ends the session.
PassThrows(a) == \E k \in Kinds :
  /\ faults < MaxFaults /\ faults' = faults + 1
  /\ InPass(a, k)
  /\ failDerivationAttempt(k, local[a].attempt)
  /\ Goto(a, "done")
  /\ Keep(a, Fresh)
  /\ UNCHANGED <<truthVars, derivedVars, resultVars>>

\* The process dies, or a statement outside a pass throws.
Crash(a) ==
  /\ faults < MaxFaults /\ faults' = faults + 1
  /\ pc[a] \notin {"idle", "done"}
  /\ Goto(a, "done")
  /\ Keep(a, Fresh)
  /\ UNCHANGED <<truthVars, derivedVars, attempts, resultVars>>

\* abandonDerivationAttempt, by an operator who takes the pass for dead.
Abandon == \E k \in Kinds : \E n \in DOMAIN attempts[k] :
  /\ faults < MaxFaults /\ faults' = faults + 1
  /\ attempts[k][n].status = "IN_PROGRESS"
  /\ Finish(k, n, "ABANDONED", 0)
  /\ UNCHANGED <<truthVars, derivedVars, resultVars, pc, local>>

-----------------------------------------------------------------------------

Analysis(a) ==
  \/ Start(a) \/ Stage1(a) \/ BeginDerivation(a) \/ LoadInputs(a) \/ DeriveRow(a)
  \/ FinishDerivation(a) \/ Stage2(a) \/ ReadGraph(a) \/ ReadObservations(a) \/ ReadRows(a)
  \/ Evaluate(a) \/ Publish(a) \/ RefusePublication(a)

Reporting(a) ==
  \/ AwaitBatches(a) \/ BeginForensics(a) \/ LoadEvaluations(a)
  \/ DeriveFindings(a) \/ FinishForensics(a) \/ VerifyRows(a) \/ VerifyHead(a)
  \/ Authorize(a) \/ RetryAuthorization(a)

Session(a) == Analysis(a) \/ Reporting(a)

Next ==
  \/ AppendObservation \/ WriteProvenance \/ CompleteRun \/ Abandon
  \/ \E a \in Analysts : Session(a) \/ PassThrows(a) \/ Crash(a)

Spec == Init /\ [][Next]_vars

-----------------------------------------------------------------------------
(* Properties *)

EvidenceTypeOK ==
  /\ completed \in BOOLEAN
  /\ observations \in Captured .. Captured + MaxLateWrites
  /\ provenanceRevision \in Nat /\ derivationGeneration \in Nat
  /\ projection \subseteq 1 .. observations
  /\ attempts \in [Kinds -> Seq(Attempt)]
  /\ evaluations \subseteq Evaluation
  /\ pointer \in Publication
  /\ findings \subseteq Fingerprint
  /\ report \in [Analysts -> Report]
  /\ pc \in [Analysts -> Point]
  /\ local \in [Analysts -> Local]
  /\ faults \in 0 .. MaxFaults

\* A derivation that readiness calls complete left no row of the current chain
\* underived, however passes overlapped, failed or were abandoned
\* (derivation-attempts.ts: readDerivationReadiness).
ReadyCovers == Ready(EVIDENCE) => projection = 1 .. observations

\* While a publication's watermark is current, the evaluation it names is keyed
\* by exactly the chain and the rows that are stored now (analysis-publication.ts).
PublicationCurrent ==
  pointer.generation > 0 /\ pointer.w = W
    => pointer.fp = [obs |-> observations, rows |-> projection]

\* A certified report names an evaluation of the whole chain it was authorized
\* for, every row of it derived (report-authorization.ts).
CertifiedComplete == \A a \in Analysts :
  report[a].outcome = "certified"
    => report[a].fp = [obs |-> report[a].w.c, rows |-> 1 .. report[a].w.c]

\* A pass whose proof is the newest publishes if nothing moved: attempts that
\* older passes left unresolved, failed or superseded do not block it.
OwnProofSuffices == \A a \in Analysts :
  LET n == local[a].attempt IN
  /\ pc[a] = "publish" /\ local[a].w = W
  /\ n = Len(attempts[EVIDENCE]) /\ attempts[EVIDENCE][n].status = "COMPLETE"
  => Ready(EVIDENCE)

\* A terminal attempt is never written again, whoever finishes late.
AttemptsFinal == [][\A k \in Kinds : \A n \in DOMAIN attempts[k] :
  attempts[k][n].status # "IN_PROGRESS" => attempts'[k][n] = attempts[k][n]]_vars

\* A publication replaces another only by a newer generation of a watermark
\* that is not older in any component.
PublicationAdvances == [][pointer' # pointer =>
  /\ pointer'.generation = pointer.generation + 1
  /\ pointer'.w.c >= pointer.w.c /\ pointer'.w.p >= pointer.w.p
  /\ pointer'.w.d >= pointer.w.d]_vars

\* "Every business-evidence read happens AFTER stage 2, so every result is a
\* result ABOUT W0": the verdict published for an evidence state is the verdict
\* of that state (analysis.ts: runAnalysisPass, persistEvaluation).
PublishedVerdictAboutW0 == \A e \in evaluations :
  pointer.generation > 0 /\ e.fp = pointer.fp => e.graph = e.fp.rows

=============================================================================
