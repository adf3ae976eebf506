--------------------------- MODULE EvidenceProofs ---------------------------
(***************************************************************************)
(* Proofs about Evidence.  The invariants are not inductive by themselves: *)
(* that a complete attempt covers its source rests on what the pass that   *)
(* finishes it has loaded, and that a publication names the stored         *)
(* evidence rests on what each session has read since it captured W0.      *)
(* IInv adds both.  Every watermark in it lies in the past, so one that is *)
(* equal to the current watermark saw nothing move.                        *)
(* OwnInv, at the end, adds what a pass's own proof rests on.              *)
(***************************************************************************)
EXTENDS Evidence, SequenceTheorems, TLAPS

\* The run's completion advanced P.
CompletionCounted == completed => provenanceRevision > 0

\* Attempts are of the past, and the rows of a complete one's source are derived.
AttemptsOK == \A n \in DOMAIN attempts[EVIDENCE] :
  /\ attempts[EVIDENCE][n].source.c <= observations
  /\ attempts[EVIDENCE][n].committed <= derivationGeneration
  /\ attempts[EVIDENCE][n].status = "COMPLETE" =>
       1 .. attempts[EVIDENCE][n].source.c \subseteq projection

\* Control points inside an evidence pass and inside a forensic one.
Evidential == {"load", "derive"}
Forensic == {"evaluations", "findings", "finish"}

\* A session at p with locals l: what it loaded covers the source of its attempt.
SessionOK(p, l) ==
  /\ l.seen <= observations
  /\ p \in Evidential => l.attempt \in DOMAIN attempts[EVIDENCE]
  /\ p \in Forensic => l.attempt \in DOMAIN attempts[FORENSICS]
  /\ p = "derive" => attempts[EVIDENCE][l.attempt].source.c <= l.seen

\* A watermark that was current at some time.
Past(w) ==
  /\ w.c <= observations
  /\ w.p <= provenanceRevision
  /\ w.d <= derivationGeneration

\* While W0 is current, what the pass has read is what is stored; outside a
\* pass nothing has been read.
ReadsOK(p, l) ==
  /\ p \notin {"read", "publish"} => l.read = {}
  /\ p \in {"read", "publish"} =>
       /\ Past(l.w)
       /\ p = "publish" => {"observations", "rows"} \subseteq l.read
       /\ l.w = W =>
            /\ "observations" \in l.read => l.fp.obs = observations
            /\ "rows" \in l.read => l.fp.rows = projection

AllSessionsOK == \A a \in Analysts : SessionOK(pc[a], local[a]) /\ ReadsOK(pc[a], local[a])

\* The publication was authorized for a watermark of the past.
PublishedOK == Past(pointer.w) /\ PublicationCurrent

IInv ==
  /\ EvidenceTypeOK /\ CompletionCounted /\ AttemptsOK /\ AllSessionsOK
  /\ PublishedOK /\ CertifiedComplete

-----------------------------------------------------------------------------

\* The initial locals, report and watermark are well-typed.
LEMMA ConstantTypes ==
  /\ Fresh \in Local /\ NoReport \in Report
  /\ ZeroW \in Watermark /\ NoFingerprint \in Fingerprint
BY DEF Fresh, Local, NoReport, Report, ZeroW, Watermark, NoFingerprint, Fingerprint, Rows, Observation

\* The initial states satisfy the invariant.
LEMMA InitInv == Init => IInv
<1> SUFFICES ASSUME Init PROVE IInv
  OBVIOUS
<1> USE EvidenceAssumption DEF Init
<1>1. EvidenceTypeOK
  <2>1. attempts \in [Kinds -> Seq(Attempt)]
    OBVIOUS
  <2>2. pointer \in Publication
    BY ConstantTypes DEF Publication
  <2>3. /\ report \in [Analysts -> Report] /\ pc \in [Analysts -> Point]
        /\ local \in [Analysts -> Local]
    BY ConstantTypes DEF Point
  <2>4. observations \in Captured .. Captured + MaxLateWrites /\ faults \in 0 .. MaxFaults
    OBVIOUS
  <2> QED
    BY <2>1, <2>2, <2>3, <2>4 DEF EvidenceTypeOK
<1>2. CompletionCounted
  BY DEF CompletionCounted
<1>3. AttemptsOK /\ AllSessionsOK
  BY DEF AttemptsOK, AllSessionsOK, SessionOK, ReadsOK, Kinds, Evidential, Forensic, Fresh
<1>4. PublishedOK /\ CertifiedComplete
  BY DEF PublishedOK, Past, PublicationCurrent, CertifiedComplete, ZeroW, NoReport
<1> QED
  BY <1>1, <1>2, <1>3, <1>4 DEF IInv

\* The type of a session's locals after each kind of assignment.
LEMMA SessionTypes ==
  ASSUME EvidenceTypeOK, NEW a \in Analysts, NEW p \in Point, NEW l \in Local,
         Goto(a, p), Keep(a, l)
  PROVE  /\ pc' \in [Analysts -> Point] /\ local' \in [Analysts -> Local]
         /\ pc'[a] = p /\ local'[a] = l
         /\ \A b \in Analysts \ {a} : pc'[b] = pc[b] /\ local'[b] = local[b]
BY DEF Goto, Keep, EvidenceTypeOK

\* The current watermark and fingerprint, and the locals, are well-typed.
LEMMA CurrentTypes ==
  ASSUME EvidenceTypeOK
  PROVE  /\ W \in Watermark /\ projection \in Rows /\ observations \in Nat
         /\ [obs |-> observations, rows |-> projection] \in Fingerprint
         /\ \A a \in Analysts : local[a] \in Local /\ local[a].seen \in Nat
<1> USE EvidenceAssumption
<1>1. observations \in Nat
  BY DEF EvidenceTypeOK
<1>2. projection \in Rows
  BY DEF EvidenceTypeOK, Rows, Observation
<1>3. W \in Watermark
  BY <1>1 DEF EvidenceTypeOK, W, Watermark
<1>4. [obs |-> observations, rows |-> projection] \in Fingerprint
  BY <1>1, <1>2 DEF Fingerprint
<1>5. \A a \in Analysts : local[a] \in Local /\ local[a].seen \in Nat
  BY DEF EvidenceTypeOK, Local
<1> QED
  BY <1>1, <1>2, <1>3, <1>4, <1>5

\* Appending an attempt, and finishing one, keep the rows well-typed.
LEMMA AttemptsAppended ==
  ASSUME EvidenceTypeOK, NEW a \in Analysts, NEW k \in Kinds, beginDerivationAttempt(a, k)
  PROVE  /\ attempts' \in [Kinds -> Seq(Attempt)]
         /\ local'[a].attempt \in DOMAIN attempts'[k]
         /\ DOMAIN attempts'[k] = DOMAIN attempts[k] \cup {local'[a].attempt}
         /\ attempts'[k][local'[a].attempt] = [status |-> "IN_PROGRESS", source |-> W, committed |-> 0]
         /\ \A j \in Kinds : \A n \in DOMAIN attempts[j] :
              n \in DOMAIN attempts'[j] /\ attempts'[j][n] = attempts[j][n]
         /\ \A j \in Kinds \ {k} : attempts'[j] = attempts[j]
<1> DEFINE row == [status |-> "IN_PROGRESS", source |-> W, committed |-> 0]
<1>1. row \in Attempt
  BY CurrentTypes DEF Attempt
<1>2. attempts \in [Kinds -> Seq(Attempt)] /\ attempts[k] \in Seq(Attempt)
  BY DEF EvidenceTypeOK
<1>3. attempts' = [attempts EXCEPT ![k] = Append(attempts[k], row)]
  BY DEF beginDerivationAttempt
<1>4. local'[a].attempt = Len(attempts[k]) + 1
  BY DEF beginDerivationAttempt, Keep, EvidenceTypeOK, Local
<1>5. attempts'[k] = Append(attempts[k], row) /\ \A j \in Kinds \ {k} : attempts'[j] = attempts[j]
  BY <1>2, <1>3
<1> HIDE DEF row
<1>6. Append(attempts[k], row) \in Seq(Attempt) /\ DOMAIN Append(attempts[k], row) = 1 .. Len(attempts[k]) + 1
      /\ Append(attempts[k], row)[Len(attempts[k]) + 1] = row
      /\ \A n \in 1 .. Len(attempts[k]) : Append(attempts[k], row)[n] = attempts[k][n]
  BY <1>1, <1>2
<1>7. Len(attempts[k]) \in Nat /\ DOMAIN attempts[k] = 1 .. Len(attempts[k])
  BY <1>2
<1>8. attempts' \in [Kinds -> Seq(Attempt)]
  BY <1>2, <1>3, <1>6
<1>9. /\ local'[a].attempt \in DOMAIN attempts'[k]
      /\ DOMAIN attempts'[k] = DOMAIN attempts[k] \cup {local'[a].attempt}
      /\ attempts'[k][local'[a].attempt] = row
  BY <1>4, <1>5, <1>6, <1>7
<1>10. \A j \in Kinds : \A n \in DOMAIN attempts[j] :
        n \in DOMAIN attempts'[j] /\ attempts'[j][n] = attempts[j][n]
  <2> TAKE j \in Kinds
  <2> TAKE n \in DOMAIN attempts[j]
  <2>1. CASE j = k
    BY <2>1, <1>5, <1>6, <1>7
  <2>2. CASE j # k
    BY <2>2, <1>5
  <2> QED
    BY <2>1, <2>2
<1> QED
  BY <1>5, <1>8, <1>9, <1>10 DEF row

\* A status-guarded update changes one row that is in progress, or nothing;
\* it never changes a row's source.
LEMMA AttemptsFinished ==
  ASSUME EvidenceTypeOK, NEW k \in Kinds, NEW n \in DOMAIN attempts[k],
         NEW s \in {"COMPLETE", "INCOMPLETE", "FAILED", "ABANDONED"}, NEW d \in Nat,
         Finish(k, n, s, d)
  PROVE  /\ attempts' \in [Kinds -> Seq(Attempt)]
         /\ \A j \in Kinds : DOMAIN attempts'[j] = DOMAIN attempts[j]
         /\ \A j \in Kinds : \A m \in DOMAIN attempts[j] :
              /\ attempts'[j][m].source = attempts[j][m].source
              /\ \/ attempts'[j][m] = attempts[j][m]
                 \/ /\ j = k /\ m = n /\ attempts[j][m].status = "IN_PROGRESS"
                    /\ attempts'[j][m].status = s /\ attempts'[j][m].committed = d
<1>1. attempts \in [Kinds -> Seq(Attempt)] /\ attempts[k] \in Seq(Attempt) /\ attempts[k][n] \in Attempt
  BY DEF EvidenceTypeOK
<1>2. CASE attempts[k][n].status # "IN_PROGRESS"
  BY <1>1, <1>2 DEF Finish
<1>3. CASE attempts[k][n].status = "IN_PROGRESS"
  <2> DEFINE row == [attempts[k][n] EXCEPT !.status = s, !.committed = d]
  <2>1. attempts' = [attempts EXCEPT ![k] = [attempts[k] EXCEPT ![n] = row]]
    BY <1>1, <1>3 DEF Finish
  <2>2. row \in Attempt /\ row.source = attempts[k][n].source /\ row.status = s /\ row.committed = d
    BY <1>1 DEF Attempt
  <2> HIDE DEF row
  <2>3. [attempts[k] EXCEPT ![n] = row] \in Seq(Attempt)
    BY <1>1, <2>2
  <2>4. attempts'[k] = [attempts[k] EXCEPT ![n] = row] /\ \A j \in Kinds \ {k} : attempts'[j] = attempts[j]
    BY <1>1, <2>1
  <2>5. attempts' \in [Kinds -> Seq(Attempt)]
    BY <1>1, <2>1, <2>3
  <2> QED
    BY <1>1, <1>3, <2>2, <2>4, <2>5
<1> QED
  BY <1>2, <1>3

\* A step of one session that changes no truth input and no derived row.
LEMMA SessionStep ==
  ASSUME IInv, NEW a \in Analysts, NEW p \in Point, NEW l \in Local, Goto(a, p), Keep(a, l),
         UNCHANGED <<truthVars, derivedVars>>,
         attempts' \in [Kinds -> Seq(Attempt)],
         \A j \in Kinds : \A n \in DOMAIN attempts[j] :
           n \in DOMAIN attempts'[j] /\ attempts'[j][n].source = attempts[j][n].source,
         AttemptsOK',
         evaluations' \subseteq Evaluation, findings' \subseteq Fingerprint,
         pointer' \in Publication, report' \in [Analysts -> Report], faults' \in 0 .. MaxFaults,
         PublishedOK', CertifiedComplete',
         SessionOK(p, l)', ReadsOK(p, l)
  PROVE  IInv'
<1>1. EvidenceTypeOK'
  BY SessionTypes DEF IInv, EvidenceTypeOK, truthVars, derivedVars
<1>2. CompletionCounted'
  BY DEF IInv, CompletionCounted, truthVars
<1>3. AllSessionsOK'
  <2> SUFFICES ASSUME NEW b \in Analysts
               PROVE  (SessionOK(pc[b], local[b]) /\ ReadsOK(pc[b], local[b]))'
    BY DEF AllSessionsOK
  <2>1. CASE b = a
    <3>1. pc'[b] = p /\ local'[b] = l
      BY <2>1, SessionTypes DEF IInv
    <3>2. ReadsOK(pc[b], local[b])'
      BY <3>1 DEF ReadsOK, Past, W, truthVars, derivedVars
    <3> QED
      BY <3>1, <3>2 DEF SessionOK
  <2>2. CASE b # a
    <3>1. pc'[b] = pc[b] /\ local'[b] = local[b]
      BY <2>2, SessionTypes DEF IInv
    <3>2. SessionOK(pc[b], local[b]) /\ ReadsOK(pc[b], local[b])
      BY DEF IInv, AllSessionsOK
    <3>3. ReadsOK(pc[b], local[b])'
      BY <3>1, <3>2 DEF ReadsOK, Past, W, truthVars, derivedVars
    <3>4. SessionOK(pc[b], local[b])'
      BY <3>1, <3>2 DEF SessionOK, truthVars, Evidential, Forensic, Kinds
    <3> QED
      BY <3>3, <3>4
  <2> QED
    BY <2>1, <2>2
<1> QED
  BY <1>1, <1>2, <1>3 DEF IInv

\* One that changes only its own point and locals.
LEMMA ControlStep ==
  ASSUME IInv, NEW a \in Analysts, NEW p \in Point, NEW l \in Local, Goto(a, p), Keep(a, l),
         UNCHANGED <<truthVars, derivedVars, attempts, resultVars>>, faults' \in 0 .. MaxFaults,
         SessionOK(p, l), ReadsOK(p, l)
  PROVE  IInv'
<1>1. AttemptsOK' /\ PublishedOK' /\ CertifiedComplete'
  BY DEF IInv, AttemptsOK, PublishedOK, Past, PublicationCurrent, W, CertifiedComplete,
         truthVars, derivedVars, resultVars
<1>2. SessionOK(p, l)'
  BY DEF SessionOK, truthVars
<1> QED
  BY <1>1, <1>2, SessionStep DEF IInv, EvidenceTypeOK, truthVars, derivedVars, resultVars

\* A session that does not move, or keeps its locals, in the form the step
\* lemmas take.
LEMMA Stays ==
  ASSUME EvidenceTypeOK, NEW a \in Analysts
  PROVE  /\ pc' = pc => Goto(a, pc[a])
         /\ local' = local => Keep(a, local[a])
BY DEF EvidenceTypeOK, Goto, Keep

\* Where a refused cycle leads, and that it forgets what was read.
LEMMA NextCycleMoves ==
  ASSUME IInv, NEW a \in Analysts, NextCycle(a)
  PROVE  \E p \in {"stage1", "await", "verify", "done"} : \E l \in Local :
           Goto(a, p) /\ Keep(a, l) /\ l.seen = 0 /\ l.read = {}
<1>1. local[a] \in Local
  BY CurrentTypes DEF IInv
<1>2. Between(a) \in Local /\ Between(a).seen = 0 /\ Between(a).read = {}
  BY <1>1, ConstantTypes DEF Between, Fresh, Local
<1>3. [Between(a) EXCEPT !.publishable = TRUE, !.cycle = local[a].cycle + 1] \in Local
  <2> DEFINE B == Between(a)
             c == local[a].cycle + 1
  <2>1. B \in Local /\ c \in Nat
    BY <1>1, <1>2 DEF Local
  <2> HIDE DEF B, c
  <2>2. [B EXCEPT !.publishable = TRUE, !.cycle = c] \in Local
    BY <2>1 DEF Local
  <2> QED
    BY <2>2 DEF B, c
<1>4. AfterAnalysis(a) \in {"await", "verify", "done"}
  BY DEF AfterAnalysis
<1> QED
  BY <1>2, <1>3, <1>4 DEF NextCycle, Local

-----------------------------------------------------------------------------
(* The writers of truth inputs *)

\* A new truth input leaves every watermark that was captured behind.
LEMMA TruthAdvances ==
  ASSUME IInv, UNCHANGED <<derivedVars, attempts, resultVars, pc, local, faults>>,
         completed' \in BOOLEAN, provenanceRevision' \in Nat,
         observations' \in Captured .. Captured + MaxLateWrites,
         observations <= observations', provenanceRevision <= provenanceRevision',
         observations < observations' \/ provenanceRevision < provenanceRevision',
         CompletionCounted'
  PROVE  IInv'
<1> USE EvidenceAssumption
<1>1. /\ observations \in Nat /\ observations' \in Nat /\ provenanceRevision \in Nat
      /\ 1 .. observations \subseteq 1 .. observations'
  BY DEF IInv, EvidenceTypeOK
<1>2. EvidenceTypeOK'
  BY <1>1 DEF IInv, EvidenceTypeOK, derivedVars, resultVars
<1>3. AttemptsOK'
  <2>1. attempts[EVIDENCE] \in Seq(Attempt)
    BY DEF IInv, EvidenceTypeOK, Kinds
  <2>2. \A n \in DOMAIN attempts[EVIDENCE] : attempts[EVIDENCE][n].source.c \in Nat
    <3> TAKE n \in DOMAIN attempts[EVIDENCE]
    <3>1. attempts[EVIDENCE][n] \in Attempt
      BY <2>1
    <3> QED
      BY <3>1 DEF Attempt, Watermark
  <2> QED
    BY <1>1, <2>2 DEF IInv, AttemptsOK, derivedVars
<1>4. AllSessionsOK'
  <2> SUFFICES ASSUME NEW a \in Analysts
               PROVE  (SessionOK(pc[a], local[a]) /\ ReadsOK(pc[a], local[a]))'
    BY DEF AllSessionsOK
  <2>1. SessionOK(pc[a], local[a]) /\ ReadsOK(pc[a], local[a])
    BY DEF IInv, AllSessionsOK
  <2>2. local[a] \in Local /\ local[a].seen \in Nat /\ local[a].w \in Watermark
    BY CurrentTypes DEF IInv, Local
  <2>3. SessionOK(pc[a], local[a])'
    BY <1>1, <2>1, <2>2 DEF SessionOK
  <2>4. ReadsOK(pc[a], local[a])'
    BY <1>1, <2>1, <2>2 DEF ReadsOK, Past, W, Watermark, derivedVars
  <2> QED
    BY <2>3, <2>4
<1>5. PublishedOK'
  <2>1. pointer.w \in Watermark
    BY DEF IInv, EvidenceTypeOK, Publication
  <2> QED
    BY <1>1, <2>1 DEF IInv, PublishedOK, Past, PublicationCurrent, W, Watermark, derivedVars, resultVars
<1>6. CertifiedComplete'
  BY DEF IInv, CertifiedComplete, resultVars
<1> QED
  BY <1>2, <1>3, <1>4, <1>5, <1>6 DEF IInv

\* Late evidence, late provenance and the completion of the run preserve the
\* invariant.
LEMMA TruthSteps ==
  ASSUME IInv, AppendObservation \/ WriteProvenance \/ CompleteRun
  PROVE  IInv'
<1> USE EvidenceAssumption
<1>1. /\ observations \in Captured .. Captured + MaxLateWrites
      /\ provenanceRevision \in Nat /\ completed \in BOOLEAN
      /\ completed => provenanceRevision > 0
  BY DEF IInv, EvidenceTypeOK, CompletionCounted
<1>2. CASE AppendObservation
  <2>1. observations' = observations + 1 /\ observations' <= Captured + MaxLateWrites
    BY <1>1, <1>2 DEF AppendObservation, LateWrites
  <2> QED
    BY <1>1, <1>2, <2>1, TruthAdvances DEF AppendObservation, CompletionCounted
<1>3. CASE WriteProvenance
  BY <1>1, <1>3, TruthAdvances DEF WriteProvenance, CompletionCounted
<1>4. CASE CompleteRun
  BY <1>1, <1>4, TruthAdvances DEF CompleteRun, CompletionCounted
<1> QED
  BY <1>2, <1>3, <1>4

-----------------------------------------------------------------------------
(* Attempts *)

\* A pass that begins appends an attempt whose source is the current
\* watermark and preserves the invariant.
LEMMA BeginStep ==
  ASSUME IInv, NEW a \in Analysts, NEW k \in Kinds, beginDerivationAttempt(a, k),
         NEW p \in Point, Goto(a, p),
         pc[a] \notin {"read", "publish"}, k = EVIDENCE => p = "load", k = FORENSICS => p = "evaluations",
         UNCHANGED <<truthVars, derivedVars, resultVars, faults>>
  PROVE  IInv'
<1>1. local[a] \in Local /\ attempts \in [Kinds -> Seq(Attempt)] /\ attempts[k] \in Seq(Attempt)
  BY CurrentTypes DEF IInv, EvidenceTypeOK
<1>2. PICK m \in Nat : m = Len(attempts[k]) + 1
  BY <1>1
<1>3. [local[a] EXCEPT !.attempt = m] \in Local
  BY <1>1 DEF Local
<1>4. PICK l \in Local : l = [local[a] EXCEPT !.attempt = m]
  BY <1>3
<1>5. l.seen = local[a].seen /\ l.read = local[a].read
  BY <1>1, <1>4 DEF Local
<1>6. Keep(a, l)
  BY <1>2, <1>4 DEF beginDerivationAttempt
<1>7. local'[a] = l
  BY <1>6, SessionTypes DEF IInv
<1>8. /\ attempts' \in [Kinds -> Seq(Attempt)]
      /\ l.attempt \in DOMAIN attempts'[k]
      /\ \A j \in Kinds : \A n \in DOMAIN attempts[j] :
           n \in DOMAIN attempts'[j] /\ attempts'[j][n] = attempts[j][n]
  BY <1>7, AttemptsAppended DEF IInv
<1>9. AttemptsOK'
  <2> SUFFICES ASSUME NEW n \in DOMAIN attempts'[EVIDENCE]
               PROVE  /\ attempts'[EVIDENCE][n].source.c <= observations
                      /\ attempts'[EVIDENCE][n].committed <= derivationGeneration
                      /\ attempts'[EVIDENCE][n].status = "COMPLETE" =>
                           1 .. attempts'[EVIDENCE][n].source.c \subseteq projection
    BY DEF AttemptsOK, truthVars, derivedVars
  <2>1. CASE n \in DOMAIN attempts[EVIDENCE]
    BY <2>1, <1>8 DEF IInv, AttemptsOK, Kinds
  <2>2. CASE n \notin DOMAIN attempts[EVIDENCE]
    <3>1. k = EVIDENCE
      BY <2>2, AttemptsAppended DEF IInv, Kinds
    <3>2. n = l.attempt
      BY <1>7, <2>2, <3>1, AttemptsAppended DEF IInv
    <3>3. attempts'[EVIDENCE][n] = [status |-> "IN_PROGRESS", source |-> W, committed |-> 0]
      BY <1>7, <3>1, <3>2, AttemptsAppended DEF IInv
    <3> QED
      BY <3>3, EvidenceAssumption DEF W, IInv, EvidenceTypeOK
  <2> QED
    BY <2>1, <2>2
<1>10. SessionOK(p, l)'
  <2>1. local[a].seen <= observations
    BY DEF IInv, AllSessionsOK, SessionOK
  <2> QED
    <3>1. CASE k = EVIDENCE
      BY <1>5, <1>8, <2>1, <3>1 DEF SessionOK, Evidential, Forensic, Kinds, truthVars
    <3>2. CASE k = FORENSICS
      BY <1>5, <1>8, <2>1, <3>2 DEF SessionOK, Evidential, Forensic, Kinds, truthVars
    <3> QED
      BY <3>1, <3>2 DEF Kinds
<1>11. ReadsOK(p, l)
  BY <1>5 DEF ReadsOK, Kinds, IInv, AllSessionsOK
<1>12. PublishedOK' /\ CertifiedComplete'
  BY DEF IInv, PublishedOK, Past, PublicationCurrent, W, CertifiedComplete,
         truthVars, derivedVars, resultVars
<1>13. /\ evaluations' \subseteq Evaluation /\ findings' \subseteq Fingerprint
       /\ pointer' \in Publication /\ report' \in [Analysts -> Report]
       /\ faults' \in 0 .. MaxFaults
  BY DEF IInv, EvidenceTypeOK, resultVars
<1>14. attempts' \in [Kinds -> Seq(Attempt)]
  BY <1>8
<1>15. \A j \in Kinds : \A n \in DOMAIN attempts[j] :
         n \in DOMAIN attempts'[j] /\ attempts'[j][n].source = attempts[j][n].source
  BY <1>8
<1> QED
  BY <1>6, <1>9, <1>10, <1>11, <1>12, <1>13, <1>15, <1>14, SessionStep

\* Finishing an attempt never makes an incomplete projection complete.
LEMMA FinishedAttemptsOK ==
  ASSUME IInv, NEW k \in Kinds, NEW n \in DOMAIN attempts[k],
         NEW s \in {"COMPLETE", "INCOMPLETE", "FAILED", "ABANDONED"}, NEW d \in Nat,
         Finish(k, n, s, d), UNCHANGED <<truthVars, derivedVars>>,
         d <= derivationGeneration,
         k = EVIDENCE /\ s = "COMPLETE" => 1 .. attempts[k][n].source.c \subseteq projection
  PROVE  AttemptsOK'
<1> SUFFICES ASSUME NEW m \in DOMAIN attempts'[EVIDENCE]
             PROVE  /\ attempts'[EVIDENCE][m].source.c <= observations
                    /\ attempts'[EVIDENCE][m].committed <= derivationGeneration
                    /\ attempts'[EVIDENCE][m].status = "COMPLETE" =>
                         1 .. attempts'[EVIDENCE][m].source.c \subseteq projection
  BY DEF AttemptsOK, truthVars, derivedVars
<1>1. EVIDENCE \in Kinds
  BY DEF Kinds
<1>2. /\ m \in DOMAIN attempts[EVIDENCE]
      /\ attempts'[EVIDENCE][m].source = attempts[EVIDENCE][m].source
      /\ \/ attempts'[EVIDENCE][m] = attempts[EVIDENCE][m]
         \/ /\ EVIDENCE = k /\ m = n
            /\ attempts'[EVIDENCE][m].status = s /\ attempts'[EVIDENCE][m].committed = d
  BY <1>1, AttemptsFinished DEF IInv
<1>3. /\ attempts[EVIDENCE][m].source.c <= observations
      /\ attempts[EVIDENCE][m].committed <= derivationGeneration
      /\ attempts[EVIDENCE][m].status = "COMPLETE" =>
           1 .. attempts[EVIDENCE][m].source.c \subseteq projection
  BY <1>2 DEF IInv, AttemptsOK
<1> QED
  BY <1>2, <1>3

\* A pass that ends, completed or failed, preserves the invariant.
LEMMA FinishStep ==
  ASSUME IInv, NEW a \in Analysts, NEW k \in Kinds, NEW n \in DOMAIN attempts[k],
         NEW s \in {"COMPLETE", "INCOMPLETE", "FAILED", "ABANDONED"}, NEW d \in Nat,
         Finish(k, n, s, d), d <= derivationGeneration,
         k = EVIDENCE /\ s = "COMPLETE" => 1 .. attempts[k][n].source.c \subseteq projection,
         NEW p \in Point, NEW l \in Local, Goto(a, p), Keep(a, l),
         p \notin Evidential /\ p \notin Forensic /\ p \notin {"read", "publish"},
         l.seen = 0 /\ l.read = {}, UNCHANGED <<truthVars, derivedVars, resultVars>>, faults' \in 0 .. MaxFaults
  PROVE  IInv'
<1>1. AttemptsOK'
  BY FinishedAttemptsOK
<1>2. /\ attempts' \in [Kinds -> Seq(Attempt)]
      /\ \A j \in Kinds : \A m \in DOMAIN attempts[j] :
           m \in DOMAIN attempts'[j] /\ attempts'[j][m].source = attempts[j][m].source
  BY AttemptsFinished DEF IInv
<1>3. PublishedOK' /\ CertifiedComplete'
  BY DEF IInv, PublishedOK, Past, PublicationCurrent, W, CertifiedComplete,
         truthVars, derivedVars, resultVars
<1>4. SessionOK(p, l)' /\ ReadsOK(p, l)
  BY EvidenceAssumption DEF SessionOK, ReadsOK, Evidential, IInv, EvidenceTypeOK, truthVars
<1> QED
  BY <1>1, <1>2, <1>3, <1>4, SessionStep DEF IInv, EvidenceTypeOK, resultVars

\* So does an operator who abandons an attempt under a running pass.
LEMMA AbandonStep ==
  ASSUME IInv, Abandon
  PROVE  IInv'
<1>0. PICK k \in Kinds : \E n \in DOMAIN attempts[k] :
        /\ faults < MaxFaults /\ faults' = faults + 1
        /\ Finish(k, n, "ABANDONED", 0)
        /\ UNCHANGED <<truthVars, derivedVars, resultVars, pc, local>>
  BY DEF Abandon
<1>1. PICK n \in DOMAIN attempts[k] :
        /\ faults < MaxFaults /\ faults' = faults + 1
        /\ Finish(k, n, "ABANDONED", 0)
        /\ UNCHANGED <<truthVars, derivedVars, resultVars, pc, local>>
  BY <1>0
<1>2. AttemptsOK'
  BY <1>1, FinishedAttemptsOK DEF IInv, EvidenceTypeOK
<1>3. /\ attempts' \in [Kinds -> Seq(Attempt)]
      /\ \A j \in Kinds : DOMAIN attempts'[j] = DOMAIN attempts[j]
      /\ \A j \in Kinds : \A m \in DOMAIN attempts[j] :
           attempts'[j][m].source = attempts[j][m].source
  BY <1>1, AttemptsFinished DEF IInv
<1>4. EvidenceTypeOK'
  BY <1>1, <1>3, EvidenceAssumption DEF IInv, EvidenceTypeOK, truthVars, derivedVars, resultVars
<1>5. AllSessionsOK'
  <2> SUFFICES ASSUME NEW a \in Analysts
               PROVE  (SessionOK(pc[a], local[a]) /\ ReadsOK(pc[a], local[a]))'
    BY DEF AllSessionsOK
  <2>1. SessionOK(pc[a], local[a]) /\ ReadsOK(pc[a], local[a])
    BY DEF IInv, AllSessionsOK
  <2>2. SessionOK(pc[a], local[a])'
    BY <1>1, <1>3, <2>1 DEF SessionOK, Evidential, Kinds, truthVars
  <2>3. ReadsOK(pc[a], local[a])'
    BY <1>1, <2>1 DEF ReadsOK, Past, W, truthVars, derivedVars
  <2> QED
    BY <2>2, <2>3
<1> QED
  BY <1>1, <1>2, <1>4, <1>5 DEF IInv, CompletionCounted, PublishedOK, Past, PublicationCurrent, W,
     CertifiedComplete, truthVars, derivedVars, resultVars

-----------------------------------------------------------------------------
(* The steps of a session that write nothing but its own locals *)

\* The facts about a session that every step of it starts from.
LEMMA SessionFacts ==
  ASSUME IInv, NEW a \in Analysts
  PROVE  /\ local[a] \in Local /\ local[a].seen \in Nat /\ local[a].seen <= observations
         /\ observations \in Nat /\ faults \in 0 .. MaxFaults
         /\ SessionOK(pc[a], local[a]) /\ ReadsOK(pc[a], local[a])
BY CurrentTypes DEF IInv, EvidenceTypeOK, AllSessionsOK, SessionOK

\* A refused cycle preserves the invariant.
LEMMA NextCycleStep ==
  ASSUME IInv, NEW a \in Analysts, NextCycle(a),
         UNCHANGED <<truthVars, derivedVars, attempts, resultVars, faults>>
  PROVE  IInv'
<1>1. PICK p \in {"stage1", "await", "verify", "done"} : \E l \in Local :
        Goto(a, p) /\ Keep(a, l) /\ l.seen = 0 /\ l.read = {}
  BY NextCycleMoves
<1>2. PICK l \in Local : Goto(a, p) /\ Keep(a, l) /\ l.seen = 0 /\ l.read = {}
  BY <1>1
<1>3. SessionOK(p, l) /\ ReadsOK(p, l)
  BY <1>2, SessionFacts DEF SessionOK, ReadsOK, Evidential, Forensic
<1> QED
  BY <1>2, <1>3, ControlStep, SessionFacts DEF Point

\* Starting a session and capturing the stage 1 watermark preserve the invariant.
LEMMA StartSteps ==
  ASSUME IInv, NEW a \in Analysts, Start(a) \/ Stage1(a)
  PROVE  IInv'
<1>1. CASE Start(a)
  <2>1. [local[a] EXCEPT !.publishable = completed, !.cycle = 1] \in Local
    BY SessionFacts DEF Local, IInv, EvidenceTypeOK
  <2>2. PICK l \in Local : l = [local[a] EXCEPT !.publishable = completed, !.cycle = 1]
    BY <2>1
  <2>3. Keep(a, l) /\ Goto(a, "stage1") /\ UNCHANGED <<truthVars, derivedVars, attempts, resultVars, faults>> /\ pc[a] = "idle"
    BY <1>1, <2>2 DEF Start
  <2>4. l.seen = local[a].seen /\ l.read = local[a].read
    BY <2>2, SessionFacts DEF Local
  <2>5. SessionOK("stage1", l) /\ ReadsOK("stage1", l)
    BY <2>3, <2>4, SessionFacts DEF SessionOK, ReadsOK, Evidential, Forensic
  <2> QED
    BY <2>3, <2>5, ControlStep, SessionFacts DEF Point
<1>2. CASE Stage1(a)
  <2>1. [local[a] EXCEPT !.w = W] \in Local
    BY SessionFacts, CurrentTypes DEF Local, IInv
  <2>2. PICK l \in Local : l = [local[a] EXCEPT !.w = W]
    BY <2>1
  <2>3. Keep(a, l) /\ Goto(a, "begin") /\ UNCHANGED <<truthVars, derivedVars, attempts, resultVars, faults>> /\ pc[a] = "stage1"
    BY <1>2, <2>2 DEF Stage1
  <2>4. l.seen = local[a].seen /\ l.read = local[a].read
    BY <2>2, SessionFacts DEF Local
  <2>5. SessionOK("begin", l) /\ ReadsOK("begin", l)
    BY <2>3, <2>4, SessionFacts DEF SessionOK, ReadsOK, Evidential, Forensic
  <2> QED
    BY <2>3, <2>5, ControlStep, SessionFacts DEF Point
<1> QED
  BY <1>1, <1>2

\* The inputs are loaded after the attempt's source was recorded, so they
\* cover it.
LEMMA LoadStep ==
  ASSUME IInv, NEW a \in Analysts, LoadInputs(a)
  PROVE  IInv'
<1>1. [local[a] EXCEPT !.seen = observations] \in Local
  BY SessionFacts DEF Local
<1>2. PICK l \in Local : l = [local[a] EXCEPT !.seen = observations]
  BY <1>1
<1>3. /\ Keep(a, l) /\ Goto(a, "derive") /\ pc[a] = "load"
      /\ UNCHANGED <<truthVars, derivedVars, attempts, resultVars, faults>>
  BY <1>2 DEF LoadInputs
<1>4. l.seen = observations /\ l.read = local[a].read /\ l.attempt = local[a].attempt
  BY <1>2, SessionFacts DEF Local
<1>5. l.attempt \in DOMAIN attempts[EVIDENCE]
  BY <1>3, <1>4, SessionFacts DEF SessionOK, Evidential
<1>6. attempts[EVIDENCE][l.attempt].source.c <= l.seen
  BY <1>4, <1>5 DEF IInv, AttemptsOK
<1>7. SessionOK("derive", l) /\ ReadsOK("derive", l)
  BY <1>3, <1>4, <1>5, <1>6, SessionFacts DEF SessionOK, ReadsOK, Evidential, Forensic
<1> QED
  BY <1>3, <1>7, ControlStep, SessionFacts DEF Point

\* At stage 2 nothing has been read yet, so W0 holds of all that was read.
LEMMA Stage2Step ==
  ASSUME IInv, NEW a \in Analysts, Stage2(a)
  PROVE  IInv'
<1>1. CASE NextCycle(a)
  BY <1>1, NextCycleStep DEF Stage2
<1>2. CASE ~NextCycle(a)
  <2>1. [local[a] EXCEPT !.w = W] \in Local
    BY SessionFacts, CurrentTypes DEF Local, IInv
  <2>2. PICK l \in Local : l = [local[a] EXCEPT !.w = W]
    BY <2>1
  <2>3. Keep(a, l) /\ Goto(a, "read") /\ UNCHANGED <<truthVars, derivedVars, attempts, resultVars, faults>> /\ pc[a] = "stage2"
    BY <1>2, <2>2 DEF Stage2
  <2>4. l.seen = local[a].seen /\ l.read = local[a].read /\ l.w = W
    BY <2>2, SessionFacts DEF Local
  <2>5. Past(l.w)
    BY <2>4, SessionFacts DEF Past, W, IInv, EvidenceTypeOK
  <2>6. SessionOK("read", l) /\ ReadsOK("read", l)
    BY <2>3, <2>4, <2>5, SessionFacts DEF SessionOK, ReadsOK, Evidential, Forensic
  <2> QED
    BY <2>3, <2>6, ControlStep, SessionFacts DEF Point
<1> QED
  BY <1>1, <1>2

\* Each read of the evidence reads what is stored now.
LEMMA ReadSteps ==
  ASSUME IInv, NEW a \in Analysts, ReadGraph(a) \/ ReadObservations(a) \/ ReadRows(a)
  PROVE  IInv'
<1>1. CASE ReadGraph(a)
  <2>1. [local[a] EXCEPT !.read = @ \cup {"graph"}, !.graph = projection] \in Local
    BY SessionFacts, CurrentTypes DEF Local, Fingerprint, IInv
  <2>2. PICK l \in Local : l = [local[a] EXCEPT !.read = @ \cup {"graph"}, !.graph = projection]
    BY <2>1
  <2>3. /\ Keep(a, l) /\ pc[a] = "read" /\ pc' = pc
        /\ UNCHANGED <<truthVars, derivedVars, attempts, resultVars, faults>>
    BY <1>1, <2>2 DEF ReadGraph
  <2>4. /\ l.seen = local[a].seen /\ l.w = local[a].w
        /\ l.fp = local[a].fp /\ l.read = local[a].read \cup {"graph"}
    BY <2>2, SessionFacts DEF Local, Fingerprint
  <2>5. SessionOK("read", l) /\ ReadsOK("read", l)
    BY <2>3, <2>4, SessionFacts DEF SessionOK, ReadsOK, Evidential, Forensic
  <2>6. Goto(a, "read")
    BY <2>3, Stays DEF IInv
  <2> QED
    BY <2>3, <2>5, <2>6, ControlStep, SessionFacts DEF Point
<1>2. CASE ReadObservations(a)
  <2>1. [local[a] EXCEPT !.read = @ \cup {"observations"}, !.fp.obs = observations] \in Local
    BY SessionFacts, CurrentTypes DEF Local, Fingerprint, IInv
  <2>2. PICK l \in Local : l = [local[a] EXCEPT !.read = @ \cup {"observations"}, !.fp.obs = observations]
    BY <2>1
  <2>3. /\ Keep(a, l) /\ pc[a] = "read" /\ pc' = pc
        /\ UNCHANGED <<truthVars, derivedVars, attempts, resultVars, faults>>
    BY <1>2, <2>2 DEF ReadObservations
  <2>4. /\ l.seen = local[a].seen /\ l.w = local[a].w
        /\ l.fp.obs = observations /\ l.fp.rows = local[a].fp.rows
        /\ l.read = local[a].read \cup {"observations"}
    BY <2>2, SessionFacts DEF Local, Fingerprint
  <2>5. SessionOK("read", l) /\ ReadsOK("read", l)
    BY <2>3, <2>4, SessionFacts DEF SessionOK, ReadsOK, Evidential, Forensic
  <2>6. Goto(a, "read")
    BY <2>3, Stays DEF IInv
  <2> QED
    BY <2>3, <2>5, <2>6, ControlStep, SessionFacts DEF Point
<1>3. CASE ReadRows(a)
  <2>1. [local[a] EXCEPT !.read = @ \cup {"rows"}, !.fp.rows = projection] \in Local
    BY SessionFacts, CurrentTypes DEF Local, Fingerprint, IInv
  <2>2. PICK l \in Local : l = [local[a] EXCEPT !.read = @ \cup {"rows"}, !.fp.rows = projection]
    BY <2>1
  <2>3. /\ Keep(a, l) /\ pc[a] = "read" /\ pc' = pc
        /\ UNCHANGED <<truthVars, derivedVars, attempts, resultVars, faults>>
    BY <1>3, <2>2 DEF ReadRows
  <2>4. /\ l.seen = local[a].seen /\ l.w = local[a].w
        /\ l.fp.obs = local[a].fp.obs /\ l.fp.rows = projection
        /\ l.read = local[a].read \cup {"rows"}
    BY <2>2, SessionFacts DEF Local, Fingerprint
  <2>5. SessionOK("read", l) /\ ReadsOK("read", l)
    BY <2>3, <2>4, SessionFacts DEF SessionOK, ReadsOK, Evidential, Forensic
  <2>6. Goto(a, "read")
    BY <2>3, Stays DEF IInv
  <2> QED
    BY <2>3, <2>5, <2>6, ControlStep, SessionFacts DEF Point
<1> QED
  BY <1>1, <1>2, <1>3

\* A refused publication preserves the invariant.
LEMMA RefuseStep ==
  ASSUME IInv, NEW a \in Analysts, RefusePublication(a)
  PROVE  IInv'
BY NextCycleStep DEF RefusePublication

\* Waiting for evaluations preserves the invariant.
LEMMA AwaitStep ==
  ASSUME IInv, NEW a \in Analysts, AwaitBatches(a)
  PROVE  IInv'
<1>1. PICK p \in {"done", "forensics"} : Goto(a, p)
  BY DEF AwaitBatches
<1>2. PICK l \in Local : l = local[a]
  BY SessionFacts
<1>3. /\ Keep(a, l) /\ pc[a] = "await"
      /\ UNCHANGED <<truthVars, derivedVars, attempts, resultVars, faults>>
  BY <1>2, Stays DEF AwaitBatches, IInv
<1>4. SessionOK(p, l) /\ ReadsOK(p, l)
  BY <1>2, <1>3, SessionFacts DEF SessionOK, ReadsOK, Evidential, Forensic
<1> QED
  BY <1>1, <1>3, <1>4, ControlStep, SessionFacts DEF Point

\* Loading the evaluations for findings preserves the invariant.
LEMMA LoadEvaluationsStep ==
  ASSUME IInv, NEW a \in Analysts, LoadEvaluations(a)
  PROVE  IInv'
<1>1. Evaluated \subseteq Fingerprint
  BY DEF Evaluated, Evaluation, IInv, EvidenceTypeOK
<1>2. [local[a] EXCEPT !.evals = Evaluated] \in Local
  BY <1>1, SessionFacts DEF Local
<1>3. PICK l \in Local : l = [local[a] EXCEPT !.evals = Evaluated]
  BY <1>2
<1>4. /\ Keep(a, l) /\ Goto(a, "findings") /\ pc[a] = "evaluations"
      /\ UNCHANGED <<truthVars, derivedVars, attempts, resultVars, faults>>
  BY <1>3 DEF LoadEvaluations
<1>5. l.seen = local[a].seen /\ l.read = local[a].read /\ l.attempt = local[a].attempt
  BY <1>3, SessionFacts DEF Local
<1>6. SessionOK("findings", l) /\ ReadsOK("findings", l)
  BY <1>4, <1>5, SessionFacts DEF SessionOK, ReadsOK, Evidential, Forensic
<1> QED
  BY <1>4, <1>6, ControlStep, SessionFacts DEF Point

\* Verifying the chain outside the lock preserves the invariant.
LEMMA VerifySteps ==
  ASSUME IInv, NEW a \in Analysts, VerifyRows(a) \/ VerifyHead(a)
  PROVE  IInv'
<1>1. CASE VerifyRows(a)
  <2>1. [local[a] EXCEPT !.seen = observations] \in Local
    BY SessionFacts DEF Local
  <2>2. PICK l \in Local : l = [local[a] EXCEPT !.seen = observations]
    BY <2>1
  <2>3. /\ Keep(a, l) /\ Goto(a, "head") /\ pc[a] = "verify"
        /\ UNCHANGED <<truthVars, derivedVars, attempts, resultVars, faults>>
    BY <1>1, <2>2 DEF VerifyRows
  <2>4. l.seen = observations /\ l.read = local[a].read
    BY <2>2, SessionFacts DEF Local
  <2>5. SessionOK("head", l) /\ ReadsOK("head", l)
    BY <2>3, <2>4, SessionFacts DEF SessionOK, ReadsOK, Evidential, Forensic
  <2> QED
    BY <2>3, <2>5, ControlStep, SessionFacts DEF Point
<1>2. CASE VerifyHead(a)
  <2>1. [local[a] EXCEPT !.intact = (local[a].seen = observations)] \in Local
    <3>1. PICK b \in BOOLEAN : b = (local[a].seen = observations)
      OBVIOUS
    <3> QED
      BY <3>1, SessionFacts DEF Local
  <2>2. PICK l \in Local : l = [local[a] EXCEPT !.intact = (local[a].seen = observations)]
    BY <2>1
  <2>3. PICK p \in {"done", "authorize"} : Goto(a, p)
    BY <1>2 DEF VerifyHead
  <2>4. /\ Keep(a, l) /\ pc[a] = "head"
        /\ UNCHANGED <<truthVars, derivedVars, attempts, resultVars, faults>>
    BY <1>2, <2>2 DEF VerifyHead
  <2>5. l.seen = local[a].seen /\ l.read = local[a].read
    BY <2>2, SessionFacts DEF Local
  <2>6. SessionOK(p, l) /\ ReadsOK(p, l)
    BY <2>4, <2>5, SessionFacts DEF SessionOK, ReadsOK, Evidential, Forensic
  <2> QED
    BY <2>3, <2>4, <2>6, ControlStep, SessionFacts DEF Point
<1> QED
  BY <1>1, <1>2

\* A session that dies leaves no promise behind.
LEMMA CrashStep ==
  ASSUME IInv, NEW a \in Analysts, Crash(a)
  PROVE  IInv'
<1>1. PICK l \in Local : l = Fresh
  BY ConstantTypes
<1>2. /\ Keep(a, l) /\ Goto(a, "done") /\ faults' \in 0 .. MaxFaults
      /\ UNCHANGED <<truthVars, derivedVars, attempts, resultVars>>
  BY <1>1, EvidenceAssumption DEF Crash, IInv, EvidenceTypeOK
<1>3. SessionOK("done", l) /\ ReadsOK("done", l)
  BY <1>1, SessionFacts DEF Fresh, SessionOK, ReadsOK, Evidential, Forensic
<1> QED
  BY <1>2, <1>3, ControlStep DEF Point

-----------------------------------------------------------------------------
(* The steps that write attempts, rows, evaluations and reports *)

\* Beginning a derivation or a forensic pass preserves the invariant.
LEMMA BeginSteps ==
  ASSUME IInv, NEW a \in Analysts, BeginDerivation(a) \/ BeginForensics(a)
  PROVE  IInv'
<1>1. CASE BeginDerivation(a)
  BY <1>1, BeginStep DEF BeginDerivation, Kinds, EVIDENCE, FORENSICS, Point
<1>2. CASE BeginForensics(a)
  BY <1>2, BeginStep DEF BeginForensics, Kinds, EVIDENCE, FORENSICS, Point
<1> QED
  BY <1>1, <1>2

\* A pass that ends with nothing left to derive has derived its source.
LEMMA FinishSteps ==
  ASSUME IInv, NEW a \in Analysts, FinishDerivation(a) \/ FinishForensics(a)
  PROVE  IInv'
<1>0. derivationGeneration \in Nat /\ 0 <= derivationGeneration
  BY DEF IInv, EvidenceTypeOK
<1>1. CASE FinishDerivation(a)
  <2>1. local[a].read = {} /\ pc[a] = "derive"
    BY <1>1, SessionFacts DEF FinishDerivation, ReadsOK
  <2>2. [local[a] EXCEPT !.seen = 0] \in Local
    BY SessionFacts DEF Local
  <2>3. PICK l \in Local : l = [local[a] EXCEPT !.seen = 0]
    BY <2>2
  <2>4. l.seen = 0 /\ l.read = {}
    BY <2>1, <2>3, SessionFacts DEF Local
  <2>5. /\ Keep(a, l) /\ Goto(a, "stage2") /\ "stage2" \in Point
        /\ UNCHANGED <<truthVars, derivedVars, resultVars>> /\ faults' \in 0 .. MaxFaults
    BY <1>1, <2>3, SessionFacts DEF FinishDerivation, Point
  <2>6. PICK n \in DOMAIN attempts[EVIDENCE] : n = local[a].attempt
    BY <2>1, SessionFacts DEF SessionOK, Evidential
  <2>7. 1 .. attempts[EVIDENCE][n].source.c \subseteq projection
    <3>1. attempts[EVIDENCE][n].source.c <= local[a].seen
      BY <2>1, <2>6, SessionFacts DEF SessionOK
    <3>2. attempts[EVIDENCE][n] \in Attempt
      BY <2>6 DEF IInv, EvidenceTypeOK, Kinds
    <3>3. attempts[EVIDENCE][n].source.c \in Nat
      BY <3>2 DEF Attempt, Watermark
    <3>4. 1 .. local[a].seen \subseteq projection
      BY <1>1 DEF FinishDerivation, Underived
    <3> QED
      BY <3>1, <3>3, <3>4, SessionFacts
  <2>8. PICK s \in {"COMPLETE", "INCOMPLETE"} : \E d \in {0, derivationGeneration} :
          Finish(EVIDENCE, n, s, d)
    BY <1>1, <2>6 DEF FinishDerivation, completeDerivationAttempt
  <2>9. PICK d \in {0, derivationGeneration} : Finish(EVIDENCE, n, s, d)
    BY <2>8
  <2>10. /\ EVIDENCE \in Kinds /\ d \in Nat /\ d <= derivationGeneration
         /\ s \in {"COMPLETE", "INCOMPLETE", "FAILED", "ABANDONED"}
         /\ "stage2" \notin Evidential /\ "stage2" \notin Forensic
         /\ "stage2" \notin {"read", "publish"}
    BY <1>0, <2>9 DEF Kinds, Evidential, Forensic
  <2> QED
    BY <2>4, <2>5, <2>7, <2>9, <2>10, FinishStep
<1>2. CASE FinishForensics(a)
  <2>1. Between(a) \in Local /\ Between(a).seen = 0 /\ Between(a).read = {}
    BY SessionFacts, ConstantTypes DEF Between, Fresh, Local
  <2>2. PICK l \in Local : l = Between(a)
    BY <2>1
  <2>3. /\ Keep(a, l) /\ Goto(a, "verify") /\ "verify" \in Point /\ pc[a] = "finish"
        /\ l.seen = 0 /\ l.read = {}
        /\ UNCHANGED <<truthVars, derivedVars, resultVars>> /\ faults' \in 0 .. MaxFaults
    BY <1>2, <2>1, <2>2, SessionFacts DEF FinishForensics, Point
  <2>4. PICK n \in DOMAIN attempts[FORENSICS] : n = local[a].attempt
    BY <2>3, SessionFacts DEF SessionOK, Forensic
  <2>5. PICK s \in {"COMPLETE", "INCOMPLETE"} : \E d \in {0, derivationGeneration} :
          Finish(FORENSICS, n, s, d)
    BY <1>2, <2>4 DEF FinishForensics, completeDerivationAttempt
  <2>6. PICK d \in {0, derivationGeneration} : Finish(FORENSICS, n, s, d)
    BY <2>5
  <2>7. /\ FORENSICS \in Kinds /\ FORENSICS # EVIDENCE
        /\ d \in Nat /\ d <= derivationGeneration
        /\ s \in {"COMPLETE", "INCOMPLETE", "FAILED", "ABANDONED"}
        /\ "verify" \notin Evidential /\ "verify" \notin Forensic
        /\ "verify" \notin {"read", "publish"}
    BY <1>0, <2>6 DEF Kinds, EVIDENCE, FORENSICS, Evidential, Forensic
  <2> QED
    BY <2>3, <2>6, <2>7, FinishStep
<1> QED
  BY <1>1, <1>2

\* A pass that throws marks its attempt failed and preserves the invariant.
LEMMA ThrowStep ==
  ASSUME IInv, NEW a \in Analysts, PassThrows(a)
  PROVE  IInv'
<1>1. PICK k \in Kinds :
        /\ faults < MaxFaults /\ faults' = faults + 1 /\ InPass(a, k)
        /\ Finish(k, local[a].attempt, "FAILED", 0) /\ Goto(a, "done") /\ Keep(a, Fresh)
        /\ UNCHANGED <<truthVars, derivedVars, resultVars>>
  BY DEF PassThrows, failDerivationAttempt
<1>2. local[a].attempt \in DOMAIN attempts[k]
  BY <1>1, SessionFacts DEF InPass, SessionOK, Kinds, EVIDENCE, FORENSICS, Evidential, Forensic
<1>3. PICK n \in DOMAIN attempts[k] : n = local[a].attempt
  BY <1>2
<1>4. PICK l \in Local : l = Fresh
  BY ConstantTypes
<1>5. l.seen = 0 /\ l.read = {} /\ faults' \in 0 .. MaxFaults
  BY <1>1, <1>4, SessionFacts, EvidenceAssumption DEF Fresh
<1>6. /\ "done" \in Point /\ "done" \notin Evidential /\ "done" \notin Forensic
      /\ "done" \notin {"read", "publish"} /\ derivationGeneration >= 0
  BY DEF Point, Evidential, Forensic, IInv, EvidenceTypeOK
<1> QED
  BY <1>1, <1>3, <1>4, <1>5, <1>6, FinishStep

\* A row that is derived advances D, which leaves every W0 captured behind.
LEMMA DeriveStep ==
  ASSUME IInv, NEW a \in Analysts, DeriveRow(a)
  PROVE  IInv'
<1> USE EvidenceAssumption
<1>1. PICK i \in Underived(a) :
        /\ projection' = projection \cup {i}
        /\ derivationGeneration' = derivationGeneration + 1
  BY DEF DeriveRow, writeDerivedRow
<1>2. i \in 1 .. observations
  BY SessionFacts DEF Underived
<1>3. UNCHANGED <<truthVars, attempts, resultVars, pc, local, faults>>
  BY DEF DeriveRow
<1>4. derivationGeneration \in Nat /\ derivationGeneration' \in Nat /\ projection \subseteq projection'
  BY <1>1 DEF IInv, EvidenceTypeOK
<1>5. EvidenceTypeOK'
  BY <1>1, <1>2, <1>3 DEF IInv, EvidenceTypeOK, truthVars, resultVars
<1>6. AttemptsOK'
  <2>1. attempts[EVIDENCE] \in Seq(Attempt)
    BY DEF IInv, EvidenceTypeOK, Kinds
  <2>2. \A n \in DOMAIN attempts[EVIDENCE] : attempts[EVIDENCE][n].committed \in Nat
    <3> TAKE n \in DOMAIN attempts[EVIDENCE]
    <3>1. attempts[EVIDENCE][n] \in Attempt
      BY <2>1
    <3> QED
      BY <3>1 DEF Attempt
  <2> QED
    BY <1>1, <1>3, <1>4, <2>2 DEF IInv, AttemptsOK, truthVars
<1>7. AllSessionsOK'
  <2> SUFFICES ASSUME NEW b \in Analysts
               PROVE  (SessionOK(pc[b], local[b]) /\ ReadsOK(pc[b], local[b]))'
    BY DEF AllSessionsOK
  <2>1. SessionOK(pc[b], local[b]) /\ ReadsOK(pc[b], local[b]) /\ local[b].w \in Watermark
    BY SessionFacts DEF Local
  <2>2. SessionOK(pc[b], local[b])'
    BY <1>3, <2>1 DEF SessionOK, truthVars
  <2>3. ReadsOK(pc[b], local[b])'
    BY <1>1, <1>3, <1>4, <2>1 DEF ReadsOK, Past, W, Watermark, truthVars
  <2> QED
    BY <2>2, <2>3
<1>8. PublishedOK'
  <2>1. pointer.w \in Watermark
    BY DEF IInv, EvidenceTypeOK, Publication
  <2> QED
    BY <1>1, <1>3, <1>4, <2>1 DEF IInv, PublishedOK, Past, PublicationCurrent, W, Watermark, truthVars, resultVars
<1> QED
  BY <1>3, <1>5, <1>6, <1>7, <1>8 DEF IInv, CompletionCounted, CertifiedComplete, truthVars, resultVars

\* A session that ends its analysis.
LEMMA AnalysisEnds ==
  ASSUME IInv, NEW a \in Analysts
  PROVE  \E p \in {"await", "verify", "done"} : \E l \in Local :
           /\ p = AfterAnalysis(a) /\ l = Between(a)
           /\ p \in Point /\ SessionOK(p, l) /\ ReadsOK(p, l)
<1>1. Between(a) \in Local /\ Between(a).seen = 0 /\ Between(a).read = {}
  BY SessionFacts, ConstantTypes DEF Between, Fresh, Local
<1>2. AfterAnalysis(a) \in {"await", "verify", "done"}
  BY DEF AfterAnalysis
<1> QED
  BY <1>1, <1>2, SessionFacts DEF SessionOK, ReadsOK, Evidential, Forensic, Point

\* SessionStep for a step that touches no attempt.
LEMMA ResultStep ==
  ASSUME IInv, NEW a \in Analysts, NEW p \in Point, NEW l \in Local, Goto(a, p), Keep(a, l),
         UNCHANGED <<truthVars, derivedVars, attempts, faults>>,
         evaluations' \subseteq Evaluation, findings' \subseteq Fingerprint,
         pointer' \in Publication, report' \in [Analysts -> Report],
         PublishedOK', CertifiedComplete', SessionOK(p, l), ReadsOK(p, l)
  PROVE  IInv'
<1>1. AttemptsOK'
  BY DEF IInv, AttemptsOK, truthVars, derivedVars
<1>2. SessionOK(p, l)'
  BY DEF SessionOK, truthVars
<1> QED
  BY <1>1, <1>2, SessionStep DEF IInv, EvidenceTypeOK

\* Storing an evaluation, or finding it stored, preserves the invariant.
LEMMA EvaluateStep ==
  ASSUME IInv, NEW a \in Analysts, Evaluate(a)
  PROVE  IInv'
<1>1. evaluations' \subseteq Evaluation
  <2>1. [fp |-> local[a].fp, graph |-> local[a].graph] \in Evaluation
    BY SessionFacts DEF Local, Evaluation
  <2> QED
    BY <2>1 DEF Evaluate, persistEvaluation, IInv, EvidenceTypeOK
<1>2. /\ UNCHANGED <<truthVars, derivedVars, attempts, faults, pointer, findings, report>>
      /\ pc[a] = "read" /\ local[a].read = {"graph", "observations", "rows"}
  BY DEF Evaluate
<1>3. /\ PublishedOK' /\ CertifiedComplete'
      /\ findings' \subseteq Fingerprint /\ pointer' \in Publication
      /\ report' \in [Analysts -> Report]
  BY <1>2 DEF IInv, EvidenceTypeOK, PublishedOK, Past, PublicationCurrent, W, CertifiedComplete,
     truthVars, derivedVars
<1>4. CASE local[a].publishable
  <2>1. PICK l \in Local : l = local[a]
    BY SessionFacts
  <2>2. Goto(a, "publish") /\ Keep(a, l)
    BY <1>4, <2>1, Stays DEF Evaluate, IInv
  <2>3. SessionOK("publish", l) /\ ReadsOK("publish", l)
    BY <1>2, <2>1, SessionFacts DEF SessionOK, ReadsOK, Evidential, Forensic
  <2> QED
    BY <1>1, <1>2, <1>3, <2>2, <2>3, ResultStep DEF Point
<1>5. CASE ~local[a].publishable
  <2>1. PICK p \in {"await", "verify", "done"} : \E l \in Local :
           /\ p = AfterAnalysis(a) /\ l = Between(a)
           /\ p \in Point /\ SessionOK(p, l) /\ ReadsOK(p, l)
    BY AnalysisEnds
  <2>2. PICK l \in Local :
           /\ p = AfterAnalysis(a) /\ l = Between(a)
           /\ p \in Point /\ SessionOK(p, l) /\ ReadsOK(p, l)
    BY <2>1
  <2>3. Goto(a, p) /\ Keep(a, l)
    BY <1>5, <2>2 DEF Evaluate
  <2> QED
    BY <1>1, <1>2, <1>3, <2>2, <2>3, ResultStep
<1> QED
  BY <1>4, <1>5

\* What is published was read while the watermark it is published for, and
\* that is current under the lock, was current.
LEMMA PublishStep ==
  ASSUME IInv, NEW a \in Analysts, Publish(a)
  PROVE  IInv'
<1>1. PICK p \in {"await", "verify", "done"} : \E l \in Local :
         /\ p = AfterAnalysis(a) /\ l = Between(a)
         /\ p \in Point /\ SessionOK(p, l) /\ ReadsOK(p, l)
  BY AnalysisEnds
<1>2. PICK l \in Local :
         /\ p = AfterAnalysis(a) /\ l = Between(a)
         /\ p \in Point /\ SessionOK(p, l) /\ ReadsOK(p, l)
  BY <1>1
<1>3. /\ Goto(a, p) /\ Keep(a, l) /\ pc[a] = "publish" /\ local[a].w = W
      /\ pointer' = [generation |-> pointer.generation + 1, fp |-> local[a].fp, w |-> local[a].w]
      /\ UNCHANGED <<truthVars, derivedVars, attempts, faults, evaluations, findings, report>>
  BY <1>2 DEF Publish, Publishable
<1>4. local[a].fp \in Fingerprint /\ local[a].w \in Watermark /\ pointer.generation \in Nat
  BY SessionFacts DEF Local, IInv, EvidenceTypeOK, Publication
<1>5. pointer' \in Publication
  BY <1>3, <1>4 DEF Publication
<1>6. local[a].fp = [obs |-> observations, rows |-> projection]
  BY <1>3, <1>4, SessionFacts DEF ReadsOK, Fingerprint
<1>7. Past(local[a].w)
  BY <1>3, SessionFacts DEF ReadsOK
<1>8. PublishedOK'
  BY <1>3, <1>6, <1>7 DEF PublishedOK, Past, PublicationCurrent, W, truthVars, derivedVars
<1>9. /\ CertifiedComplete' /\ evaluations' \subseteq Evaluation
      /\ findings' \subseteq Fingerprint /\ report' \in [Analysts -> Report]
  BY <1>3 DEF IInv, EvidenceTypeOK, CertifiedComplete
<1> QED
  BY <1>2, <1>3, <1>5, <1>8, <1>9, ResultStep

\* Deriving findings preserves the invariant.
LEMMA FindingsStep ==
  ASSUME IInv, NEW a \in Analysts, DeriveFindings(a)
  PROVE  IInv'
<1>1. PICK l \in Local : l = local[a]
  BY SessionFacts
<1>2. /\ Goto(a, "finish") /\ Keep(a, l) /\ pc[a] = "findings"
      /\ UNCHANGED <<truthVars, derivedVars, attempts, faults, evaluations, pointer, report>>
  BY <1>1, Stays DEF DeriveFindings, IInv
<1>3. local[a].evals \subseteq Fingerprint
  BY SessionFacts DEF Local
<1>4. findings' \subseteq Fingerprint
  BY <1>3 DEF DeriveFindings, IInv, EvidenceTypeOK
<1>5. SessionOK("finish", l) /\ ReadsOK("finish", l)
  BY <1>1, <1>2, SessionFacts DEF SessionOK, ReadsOK, Evidential, Forensic
<1>6. /\ PublishedOK' /\ CertifiedComplete' /\ evaluations' \subseteq Evaluation
      /\ pointer' \in Publication /\ report' \in [Analysts -> Report]
  BY <1>2 DEF IInv, EvidenceTypeOK, PublishedOK, Past, PublicationCurrent, W, CertifiedComplete,
     truthVars, derivedVars
<1> QED
  BY <1>2, <1>4, <1>5, <1>6, ResultStep DEF Point

-----------------------------------------------------------------------------
(* What readiness and authorization rest on *)

\* A derivation that is ready has a complete attempt of the current chain.
LEMMA ReadyCoversInv ==
  ASSUME IInv
  PROVE  ReadyCovers
<1> SUFFICES ASSUME Ready(EVIDENCE) PROVE projection = 1 .. observations
  BY DEF ReadyCovers
<1>1. PICK n \in DOMAIN attempts[EVIDENCE] :
        attempts[EVIDENCE][n].status = "COMPLETE" /\ attempts[EVIDENCE][n].source.c = observations
  BY DEF Ready, Proofs
<1>2. 1 .. observations \subseteq projection
  BY <1>1 DEF IInv, AttemptsOK
<1> QED
  BY <1>2 DEF IInv, EvidenceTypeOK

\* A report is certified only under the current publication of a derivation
\* that is ready, so it is complete.
LEMMA AuthorizeSteps ==
  ASSUME IInv, NEW a \in Analysts, Authorize(a) \/ RetryAuthorization(a)
  PROVE  IInv'
<1>1. pointer.fp \in Fingerprint /\ W \in Watermark /\ findings \subseteq Fingerprint
  BY CurrentTypes DEF IInv, EvidenceTypeOK, Publication
<1>2. report \in [Analysts -> Report] /\ CertifiedComplete
  BY DEF IInv, EvidenceTypeOK
<1>3. ASSUME UNCHANGED <<truthVars, derivedVars, attempts, evaluations, pointer, findings, faults>>
      PROVE  /\ PublishedOK' /\ evaluations' \subseteq Evaluation
             /\ pointer' \in Publication /\ findings' \subseteq Fingerprint
  BY <1>3 DEF IInv, EvidenceTypeOK, PublishedOK, Past, PublicationCurrent, W,
     truthVars, derivedVars
<1>4. CASE Authorize(a)
  <2>1. PICK l \in Local : l = Fresh
    BY ConstantTypes
  <2>2. /\ Goto(a, "done") /\ Keep(a, l) /\ pc[a] = "authorize"
        /\ UNCHANGED <<truthVars, derivedVars, attempts, evaluations, pointer, findings, faults>>
    BY <1>4, <2>1 DEF Authorize
  <2>3. SessionOK("done", l) /\ ReadsOK("done", l)
    BY <2>1, SessionFacts DEF Fresh, SessionOK, ReadsOK, Evidential, Forensic
  <2>4. CASE local[a].intact
    <3>1. PICK r \in Report : r = [outcome |-> "certified", fp |-> pointer.fp, w |-> W, findings |-> findings]
      BY <1>1 DEF Report
    <3>2. report' = [report EXCEPT ![a] = r]
      BY <1>4, <2>4, <3>1 DEF Authorize, ReportAs
    <3>3. r.fp = [obs |-> r.w.c, rows |-> 1 .. r.w.c]
      <4>1. pointer.generation > 0 /\ Ready(EVIDENCE) /\ pointer.w = W
        BY <1>4, <2>4 DEF Authorize, Authorized
      <4>2. projection = 1 .. observations
        BY <4>1, ReadyCoversInv DEF ReadyCovers
      <4>3. pointer.fp = [obs |-> observations, rows |-> projection]
        BY <4>1 DEF IInv, PublishedOK, PublicationCurrent
      <4>4. r.fp = pointer.fp /\ r.w.c = observations
        BY <3>1 DEF W
      <4> QED
        BY <4>2, <4>3, <4>4
    <3>4. report' \in [Analysts -> Report] /\ CertifiedComplete'
      BY <1>2, <3>2, <3>3 DEF CertifiedComplete
    <3> QED
      BY <1>3, <2>2, <2>3, <3>4, ResultStep DEF Point
  <2>5. CASE ~local[a].intact
    <3>1. PICK r \in Report : r = [NoReport EXCEPT !.outcome = "failure"]
      BY ConstantTypes DEF Report
    <3>2. report' = [report EXCEPT ![a] = r] /\ r.outcome # "certified"
      BY <1>4, <2>5, <3>1, ConstantTypes DEF Authorize, ReportAs, Report
    <3>3. report' \in [Analysts -> Report] /\ CertifiedComplete'
      BY <1>2, <3>2 DEF CertifiedComplete
    <3> QED
      BY <1>3, <2>2, <2>3, <3>3, ResultStep DEF Point
  <2> QED
    BY <2>4, <2>5
<1>5. CASE RetryAuthorization(a)
  <2>1. local[a].tries \in Nat /\ completed \in BOOLEAN
    BY SessionFacts DEF Local, IInv, EvidenceTypeOK
  <2>2. [Fresh EXCEPT !.publishable = completed, !.cycle = 1, !.tries = local[a].tries + 1] \in Local
    <3>1. PICK f \in Local : f = Fresh
      BY ConstantTypes
    <3>2. PICK t \in Nat : t = local[a].tries + 1
      BY <2>1
    <3>3. [f EXCEPT !.publishable = completed, !.cycle = 1, !.tries = t] \in Local
      BY <2>1 DEF Local
    <3> QED
      BY <3>1, <3>2, <3>3
  <2>3. PICK l \in Local :
          l = [Fresh EXCEPT !.publishable = completed, !.cycle = 1, !.tries = local[a].tries + 1]
    BY <2>2
  <2>4. /\ Goto(a, "stage1") /\ Keep(a, l)
        /\ UNCHANGED <<truthVars, derivedVars, attempts, evaluations, pointer, findings, faults>>
    BY <1>5, <2>3 DEF RetryAuthorization
  <2>5. l.seen = 0 /\ l.read = {}
    BY <2>3 DEF Fresh
  <2>6. SessionOK("stage1", l) /\ ReadsOK("stage1", l)
    BY <2>5, SessionFacts DEF SessionOK, ReadsOK, Evidential, Forensic
  <2>7. PICK r \in Report : r = [NoReport EXCEPT !.outcome = "uncertified"]
    BY ConstantTypes DEF Report
  <2>8. report' = [report EXCEPT ![a] = r] /\ r.outcome # "certified"
    BY <1>5, <2>7, ConstantTypes DEF RetryAuthorization, ReportAs, Report
  <2>9. report' \in [Analysts -> Report] /\ CertifiedComplete'
    BY <1>2, <2>8 DEF CertifiedComplete
  <2> QED
    BY <1>3, <2>4, <2>6, <2>9, ResultStep DEF Point
<1> QED
  BY <1>4, <1>5

-----------------------------------------------------------------------------
(* The theorems *)

\* Every step preserves the invariant.
LEMMA StepInv == IInv /\ [Next]_vars => IInv'
<1> SUFFICES ASSUME IInv, [Next]_vars PROVE IInv'
  OBVIOUS
<1>1. CASE UNCHANGED vars
  BY <1>1 DEF IInv, EvidenceTypeOK, CompletionCounted, AttemptsOK, AllSessionsOK, SessionOK,
     ReadsOK, Past, W, PublishedOK, PublicationCurrent, CertifiedComplete,
     vars, truthVars, derivedVars, resultVars
<1>2. CASE AppendObservation \/ WriteProvenance \/ CompleteRun
  BY <1>2, TruthSteps
<1>3. CASE Abandon
  BY <1>3, AbandonStep
<1>4. ASSUME NEW a \in Analysts, Analysis(a) PROVE IInv'
  BY <1>4, StartSteps, BeginSteps, LoadStep, DeriveStep, FinishSteps, Stage2Step, ReadSteps,
     EvaluateStep, PublishStep, RefuseStep DEF Analysis
<1>5. ASSUME NEW a \in Analysts, Reporting(a) PROVE IInv'
  BY <1>5, AwaitStep, BeginSteps, LoadEvaluationsStep, FindingsStep, FinishSteps, VerifySteps,
     AuthorizeSteps DEF Reporting
<1>6. ASSUME NEW a \in Analysts, PassThrows(a) \/ Crash(a) PROVE IInv'
  BY <1>6, ThrowStep, CrashStep
<1> QED
  BY <1>1, <1>2, <1>3, <1>4, <1>5, <1>6 DEF Next, Session

\* The invariant holds in every reachable state.
LEMMA Invariance == Spec => []IInv
BY InitInv, StepInv, PTL DEF Spec

\* Every variable keeps its type.
THEOREM EvidenceTypeCorrect == Spec => []EvidenceTypeOK
<1>1. IInv => EvidenceTypeOK
  BY DEF IInv
<1> QED
  BY <1>1, Invariance, PTL

\* Whatever passes overlap, fail or are abandoned, a derivation that readiness
\* calls complete has derived every observation of the current chain
\* (derivation-attempts.ts: readDerivationReadiness).
THEOREM ReadyCoversCorrect == Spec => []ReadyCovers
BY ReadyCoversInv, Invariance, PTL

\* A publication whose watermark is current names the evaluation of the chain
\* and the rows that are stored now (analysis-publication.ts:
\* publishAnalysisGeneration).
THEOREM PublicationCurrentCorrect == Spec => []PublicationCurrent
<1>1. IInv => PublicationCurrent
  BY DEF IInv, PublishedOK
<1> QED
  BY <1>1, Invariance, PTL

\* A certified report covers the whole chain it was authorized for, every row
\* derived (report-authorization.ts: authorizeReportFinalization).
THEOREM CertifiedCompleteCorrect == Spec => []CertifiedComplete
<1>1. IInv => CertifiedComplete
  BY DEF IInv
<1> QED
  BY <1>1, Invariance, PTL

\* The action property of an attempt's row: a step either leaves a terminal row
\* alone or appends another, or finishes one that is in progress.
LEMMA FinishKeepsFinal ==
  ASSUME EvidenceTypeOK, NEW k \in Kinds, NEW n, NEW s, NEW d, Finish(k, n, s, d)
  PROVE  \A j \in Kinds : \A m \in DOMAIN attempts[j] :
           attempts[j][m].status # "IN_PROGRESS" => attempts'[j][m] = attempts[j][m]
<1> SUFFICES ASSUME NEW j \in Kinds, NEW m \in DOMAIN attempts[j],
                    attempts[j][m].status # "IN_PROGRESS"
             PROVE  attempts'[j][m] = attempts[j][m]
  OBVIOUS
<1>1. attempts \in [Kinds -> Seq(Attempt)]
  BY DEF EvidenceTypeOK
<1>2. CASE attempts[k][n].status # "IN_PROGRESS"
  BY <1>2 DEF Finish
<1>3. CASE attempts[k][n].status = "IN_PROGRESS"
  <2>1. j # k \/ m # n
    BY <1>3
  <2>2. attempts' = [attempts EXCEPT ![k] = [attempts[k] EXCEPT
                       ![n] = [attempts[k][n] EXCEPT !.status = s, !.committed = d]]]
    BY <1>1, <1>3 DEF Finish
  <2>3. attempts'[j] = attempts[j] \/ (j = k /\ m # n)
    BY <1>1, <2>1, <2>2
  <2>4. CASE j = k /\ m # n
    <3>1. attempts'[k] = [attempts[k] EXCEPT
                       ![n] = [attempts[k][n] EXCEPT !.status = s, !.committed = d]]
      BY <1>1, <2>2
    <3> QED
      BY <2>4, <3>1
  <2> QED
    BY <2>3, <2>4
<1> QED
  BY <1>2, <1>3

\* Who finishes an attempt late, after a failure, an operator or another
\* process finished it, changes nothing (derivation-attempts.ts: the
\* status-guarded updates).
THEOREM AttemptsFinalCorrect == Spec => AttemptsFinal
<1>1. ASSUME IInv, [Next]_vars
      PROVE  [\A k \in Kinds : \A n \in DOMAIN attempts[k] :
               attempts[k][n].status # "IN_PROGRESS" => attempts'[k][n] = attempts[k][n]]_vars
  <2> DEFINE Final == \A k \in Kinds : \A n \in DOMAIN attempts[k] :
               attempts[k][n].status # "IN_PROGRESS" => attempts'[k][n] = attempts[k][n]
  <2>0. IInv => EvidenceTypeOK
    BY DEF IInv
  <2>1. CASE UNCHANGED attempts
    BY <2>1
  <2>2. ASSUME NEW a \in Analysts, BeginDerivation(a) \/ BeginForensics(a) PROVE Final
    <3>1. PICK k \in Kinds : beginDerivationAttempt(a, k)
      BY <2>2 DEF BeginDerivation, BeginForensics, Kinds
    <3> QED
      BY <1>1, <2>0, <3>1, AttemptsAppended
  <2>3. ASSUME NEW a \in Analysts, FinishDerivation(a) \/ FinishForensics(a) PROVE Final
    <3>1. PICK k \in Kinds : completeDerivationAttempt(k, local[a].attempt)
      BY <2>3 DEF FinishDerivation, FinishForensics, Kinds
    <3> QED
      BY <1>1, <2>0, <3>1, FinishKeepsFinal DEF completeDerivationAttempt
  <2>4. ASSUME NEW a \in Analysts, PassThrows(a) PROVE Final
    BY <1>1, <2>0, <2>4, FinishKeepsFinal DEF PassThrows, failDerivationAttempt
  <2>5. CASE Abandon
    BY <1>1, <2>0, <2>5, FinishKeepsFinal DEF Abandon
  <2>6. ASSUME NEW a \in Analysts, Session(a)
        PROVE  \/ UNCHANGED attempts
               \/ BeginDerivation(a) \/ BeginForensics(a)
               \/ FinishDerivation(a) \/ FinishForensics(a)
    BY <2>6 DEF Session, Analysis, Reporting, Start, Stage1, LoadInputs, DeriveRow, Stage2,
       ReadGraph, ReadObservations, ReadRows, Evaluate, Publish, RefusePublication, AwaitBatches,
       LoadEvaluations, DeriveFindings, VerifyRows, VerifyHead, Authorize, RetryAuthorization
  <2>7. CASE UNCHANGED vars
    BY <2>1, <2>7 DEF vars
  <2>8. CASE AppendObservation \/ WriteProvenance \/ CompleteRun
    BY <2>1, <2>8 DEF AppendObservation, WriteProvenance, CompleteRun
  <2>9. ASSUME NEW a \in Analysts, Crash(a) PROVE Final
    BY <2>1, <2>9 DEF Crash
  <2> QED
    BY <1>1, <2>1, <2>2, <2>3, <2>4, <2>5, <2>6, <2>7, <2>8, <2>9 DEF Next
<1> QED
  BY <1>1, Invariance, PTL DEF Spec, AttemptsFinal

\* Publications are totally ordered: each is of the next generation and of a
\* watermark that is not older than the one before it, whoever publishes
\* (analysis-publication.ts: publishAnalysisGeneration).
THEOREM PublicationAdvancesCorrect == Spec => PublicationAdvances
<1>1. ASSUME IInv, [Next]_vars
      PROVE  [pointer' # pointer =>
                /\ pointer'.generation = pointer.generation + 1
                /\ pointer'.w.c >= pointer.w.c /\ pointer'.w.p >= pointer.w.p
                /\ pointer'.w.d >= pointer.w.d]_vars
  <2>1. ASSUME NEW a \in Analysts, Publish(a)
        PROVE  /\ pointer'.generation = pointer.generation + 1
               /\ pointer'.w.c >= pointer.w.c /\ pointer'.w.p >= pointer.w.p
               /\ pointer'.w.d >= pointer.w.d
    <3>1. Past(pointer.w) /\ pointer.w \in Watermark /\ W \in Watermark
      BY <1>1, CurrentTypes DEF IInv, EvidenceTypeOK, Publication, PublishedOK
    <3>2. pointer'.generation = pointer.generation + 1 /\ pointer'.w = W
      BY <2>1 DEF Publish, Publishable
    <3> QED
      BY <3>1, <3>2 DEF Past, W, Watermark
  <2>2. ASSUME NEW a \in Analysts, Session(a) PROVE UNCHANGED pointer \/ Publish(a)
    BY <2>2 DEF Session, Analysis, Reporting, Start, Stage1, BeginDerivation, LoadInputs, DeriveRow,
       FinishDerivation, Stage2, ReadGraph, ReadObservations, ReadRows, Evaluate, RefusePublication,
       AwaitBatches, BeginForensics, LoadEvaluations, DeriveFindings, FinishForensics, VerifyRows,
       VerifyHead, Authorize, RetryAuthorization, resultVars
  <2>3. ASSUME NEW a \in Analysts, PassThrows(a) \/ Crash(a) PROVE UNCHANGED pointer
    BY <2>3 DEF PassThrows, Crash, resultVars
  <2>4. CASE AppendObservation \/ WriteProvenance \/ CompleteRun \/ Abandon
    BY <2>4 DEF AppendObservation, WriteProvenance, CompleteRun, Abandon, resultVars
  <2>5. CASE UNCHANGED vars
    BY <2>5
  <2> QED
    BY <1>1, <2>1, <2>2, <2>3, <2>4, <2>5 DEF Next
<1> QED
  BY <1>1, Invariance, PTL DEF Spec, PublicationAdvances

-----------------------------------------------------------------------------
(* A pass's own proof *)

\* Every attempt's source is of the past, its provenance revision as well.
SourcesPast == \A n \in DOMAIN attempts[EVIDENCE] :
  attempts[EVIDENCE][n].source.p <= provenanceRevision

\* A complete attempt of the current chain committed the current D: with every
\* row of the chain there is nothing left that could advance it.
CommittedCurrent == \A n \in DOMAIN attempts[EVIDENCE] :
  attempts[EVIDENCE][n].status = "COMPLETE" /\ attempts[EVIDENCE][n].source.c = observations
    => attempts[EVIDENCE][n].committed = derivationGeneration

\* The source of a session's attempt lies between its stage 1 capture and W0,
\* and stage 2 found the two equal.
SourcedOK(p, l) ==
  /\ p = "begin" => l.w.c <= observations /\ l.w.p <= provenanceRevision
  /\ p \in {"load", "derive", "stage2", "read", "publish"} =>
       l.attempt \in DOMAIN attempts[EVIDENCE]
  /\ p \in {"load", "derive", "stage2"} =>
       /\ l.w.c <= attempts[EVIDENCE][l.attempt].source.c
       /\ l.w.p <= attempts[EVIDENCE][l.attempt].source.p
  /\ p \in {"read", "publish"} =>
       /\ attempts[EVIDENCE][l.attempt].source.c = l.w.c
       /\ attempts[EVIDENCE][l.attempt].source.p = l.w.p

SessionsSourced == \A a \in Analysts : SourcedOK(pc[a], local[a])

OwnInv == IInv /\ SourcesPast /\ CommittedCurrent /\ SessionsSourced

\* What a step may do to the attempts: nothing, begin one, or finish one, which
\* is complete only with the D of that moment.
LEMMA AttemptSteps ==
  ASSUME IInv, [Next]_vars
  PROVE  \/ UNCHANGED attempts
         \/ /\ UNCHANGED <<truthVars, derivedVars>>
            /\ \E a \in Analysts : \E k \in Kinds : beginDerivationAttempt(a, k)
         \/ /\ UNCHANGED <<truthVars, derivedVars>>
            /\ \E k \in Kinds : \E n \in DOMAIN attempts[k] :
                 \E s \in {"COMPLETE", "INCOMPLETE", "FAILED", "ABANDONED"} : \E d \in Nat :
                   Finish(k, n, s, d) /\ (s = "COMPLETE" => d = derivationGeneration)
<1> DEFINE Begun == /\ UNCHANGED <<truthVars, derivedVars>>
                    /\ \E a \in Analysts : \E k \in Kinds : beginDerivationAttempt(a, k)
           Ends(k, n) == \E s \in {"COMPLETE", "INCOMPLETE", "FAILED", "ABANDONED"} : \E d \in Nat :
                   Finish(k, n, s, d) /\ (s = "COMPLETE" => d = derivationGeneration)
           Ended == /\ UNCHANGED <<truthVars, derivedVars>>
                    /\ \E k \in Kinds : \E n \in DOMAIN attempts[k] : Ends(k, n)
<1> SUFFICES UNCHANGED attempts \/ Begun \/ Ended
  OBVIOUS
<1>0. derivationGeneration \in Nat
  BY DEF IInv, EvidenceTypeOK
<1>1. ASSUME NEW a \in Analysts, BeginDerivation(a) \/ BeginForensics(a) PROVE Begun
  BY <1>1 DEF BeginDerivation, BeginForensics, Kinds
<1>2. ASSUME NEW k \in Kinds, NEW n \in DOMAIN attempts[k], completeDerivationAttempt(k, n)
      PROVE  Ends(k, n)
  <2>1. Finish(k, n, "INCOMPLETE", 0) \/ Finish(k, n, "COMPLETE", derivationGeneration)
    BY <1>2 DEF completeDerivationAttempt
  <2> QED
    BY <1>0, <2>1
<1>3. ASSUME NEW a \in Analysts, FinishDerivation(a) PROVE Ended
  <2>1. local[a].attempt \in DOMAIN attempts[EVIDENCE] /\ EVIDENCE \in Kinds
    BY <1>3, SessionFacts DEF FinishDerivation, SessionOK, Evidential, Kinds
  <2>2. completeDerivationAttempt(EVIDENCE, local[a].attempt)
        /\ UNCHANGED <<truthVars, derivedVars>>
    BY <1>3 DEF FinishDerivation
  <2> QED
    BY <1>2, <2>1, <2>2
<1>4. ASSUME NEW a \in Analysts, FinishForensics(a) PROVE Ended
  <2>1. local[a].attempt \in DOMAIN attempts[FORENSICS] /\ FORENSICS \in Kinds
    BY <1>4, SessionFacts DEF FinishForensics, SessionOK, Forensic, Kinds
  <2>2. completeDerivationAttempt(FORENSICS, local[a].attempt)
        /\ UNCHANGED <<truthVars, derivedVars>>
    BY <1>4 DEF FinishForensics
  <2> QED
    BY <1>2, <2>1, <2>2
<1>5. ASSUME NEW a \in Analysts, PassThrows(a) PROVE Ended
  <2>1. PICK k \in Kinds : /\ InPass(a, k) /\ Finish(k, local[a].attempt, "FAILED", 0)
                           /\ UNCHANGED <<truthVars, derivedVars>>
    BY <1>5 DEF PassThrows, failDerivationAttempt
  <2>2. local[a].attempt \in DOMAIN attempts[k]
    BY <2>1, SessionFacts DEF InPass, SessionOK, Kinds, EVIDENCE, FORENSICS, Evidential, Forensic
  <2>3. Ends(k, local[a].attempt)
    BY <2>1
  <2> QED
    BY <2>1, <2>2, <2>3
<1>6. CASE Abandon
  <2>1. PICK k \in Kinds : \E n \in DOMAIN attempts[k] :
          Finish(k, n, "ABANDONED", 0) /\ UNCHANGED <<truthVars, derivedVars>>
    BY <1>6 DEF Abandon
  <2>2. PICK n \in DOMAIN attempts[k] :
          Finish(k, n, "ABANDONED", 0) /\ UNCHANGED <<truthVars, derivedVars>>
    BY <2>1
  <2>3. Ends(k, n)
    BY <2>2
  <2> QED
    BY <2>2, <2>3
<1>7. ASSUME NEW a \in Analysts, Session(a)
      PROVE  \/ UNCHANGED attempts
             \/ BeginDerivation(a) \/ BeginForensics(a)
             \/ FinishDerivation(a) \/ FinishForensics(a)
  BY <1>7 DEF Session, Analysis, Reporting, Start, Stage1, LoadInputs, DeriveRow, Stage2,
     ReadGraph, ReadObservations, ReadRows, Evaluate, Publish, RefusePublication, AwaitBatches,
     LoadEvaluations, DeriveFindings, VerifyRows, VerifyHead, Authorize, RetryAuthorization
<1>8. CASE UNCHANGED vars
  BY <1>8 DEF vars
<1>9. CASE AppendObservation \/ WriteProvenance \/ CompleteRun
  BY <1>9 DEF AppendObservation, WriteProvenance, CompleteRun
<1>10. ASSUME NEW a \in Analysts, Crash(a) PROVE UNCHANGED attempts
  BY <1>10 DEF Crash
<1> HIDE DEF Begun, Ended
<1> QED
  BY <1>1, <1>3, <1>4, <1>5, <1>6, <1>7, <1>8, <1>9, <1>10 DEF Next

\* A row is never removed and never given another source; a new one has the
\* current watermark for its source, and what a step completes it completes
\* with the current D.
LEMMA AttemptHistory ==
  ASSUME IInv, [Next]_vars
  PROVE  /\ \A n \in DOMAIN attempts[EVIDENCE] :
              /\ n \in DOMAIN attempts'[EVIDENCE]
              /\ attempts'[EVIDENCE][n].source = attempts[EVIDENCE][n].source
         /\ \A n \in DOMAIN attempts'[EVIDENCE] \ DOMAIN attempts[EVIDENCE] :
              /\ attempts'[EVIDENCE][n].source = W /\ W' = W
              /\ attempts'[EVIDENCE][n].status = "IN_PROGRESS"
         /\ \A n \in DOMAIN attempts[EVIDENCE] :
              attempts'[EVIDENCE][n].status = "COMPLETE" =>
                \/ attempts'[EVIDENCE][n] = attempts[EVIDENCE][n]
                \/ /\ UNCHANGED <<truthVars, derivedVars>>
                   /\ attempts'[EVIDENCE][n].committed = derivationGeneration
<1> USE DEF Kinds
<1>0. EvidenceTypeOK
  BY DEF IInv
<1>1. CASE UNCHANGED attempts
  BY <1>1
<1>2. ASSUME NEW a \in Analysts, NEW k \in Kinds, beginDerivationAttempt(a, k),
             UNCHANGED <<truthVars, derivedVars>>
      PROVE  /\ \A n \in DOMAIN attempts[EVIDENCE] :
                  n \in DOMAIN attempts'[EVIDENCE] /\ attempts'[EVIDENCE][n] = attempts[EVIDENCE][n]
             /\ \A n \in DOMAIN attempts'[EVIDENCE] \ DOMAIN attempts[EVIDENCE] :
                  /\ attempts'[EVIDENCE][n].source = W /\ W' = W
                  /\ attempts'[EVIDENCE][n].status = "IN_PROGRESS"
  <2>1. W' = W
    BY <1>2 DEF W, truthVars, derivedVars
  <2>2. \A n \in DOMAIN attempts[EVIDENCE] :
          n \in DOMAIN attempts'[EVIDENCE] /\ attempts'[EVIDENCE][n] = attempts[EVIDENCE][n]
    BY <1>0, <1>2, AttemptsAppended
  <2>3. CASE k = EVIDENCE
    <3>1. /\ DOMAIN attempts'[EVIDENCE] = DOMAIN attempts[EVIDENCE] \cup {local'[a].attempt}
          /\ attempts'[EVIDENCE][local'[a].attempt]
               = [status |-> "IN_PROGRESS", source |-> W, committed |-> 0]
      BY <1>0, <1>2, <2>3, AttemptsAppended
    <3> QED
      BY <2>1, <2>2, <3>1
  <2>4. CASE k # EVIDENCE
    <3>1. attempts'[EVIDENCE] = attempts[EVIDENCE]
      BY <1>0, <1>2, <2>4, AttemptsAppended
    <3> QED
      BY <3>1
  <2> QED
    BY <2>3, <2>4
<1>3. ASSUME NEW k \in Kinds, NEW n \in DOMAIN attempts[k],
             NEW s \in {"COMPLETE", "INCOMPLETE", "FAILED", "ABANDONED"}, NEW d \in Nat,
             Finish(k, n, s, d), s = "COMPLETE" => d = derivationGeneration,
             UNCHANGED <<truthVars, derivedVars>>
      PROVE  /\ DOMAIN attempts'[EVIDENCE] = DOMAIN attempts[EVIDENCE]
             /\ \A m \in DOMAIN attempts[EVIDENCE] :
                  /\ attempts'[EVIDENCE][m].source = attempts[EVIDENCE][m].source
                  /\ attempts'[EVIDENCE][m].status = "COMPLETE" =>
                       \/ attempts'[EVIDENCE][m] = attempts[EVIDENCE][m]
                       \/ attempts'[EVIDENCE][m].committed = derivationGeneration
  BY <1>0, <1>3, AttemptsFinished
<1> QED
  BY <1>1, <1>2, <1>3, AttemptSteps

\* No truth input is ever taken back, and a row is derived only while one of
\* the chain is missing.
LEMMA InputsGrow ==
  ASSUME IInv, [Next]_vars
  PROVE  /\ observations' \in Nat /\ provenanceRevision' \in Nat
         /\ observations <= observations' /\ provenanceRevision <= provenanceRevision'
         /\ \/ derivationGeneration' = derivationGeneration
            \/ observations' = observations /\ \E i \in 1 .. observations : i \notin projection
<1>0. /\ observations \in Nat /\ provenanceRevision \in Nat
      /\ observations' \in Nat /\ provenanceRevision' \in Nat
  BY StepInv, EvidenceAssumption DEF IInv, EvidenceTypeOK
<1>1. CASE AppendObservation \/ WriteProvenance \/ CompleteRun
  BY <1>0, <1>1 DEF AppendObservation, WriteProvenance, CompleteRun, derivedVars
<1>2. ASSUME NEW a \in Analysts, DeriveRow(a)
      PROVE  /\ UNCHANGED truthVars /\ \E i \in 1 .. observations : i \notin projection
  <2>1. PICK i \in Underived(a) : TRUE
    BY <1>2 DEF DeriveRow, writeDerivedRow
  <2>2. i \in 1 .. observations /\ i \notin projection
    BY <2>1, SessionFacts DEF Underived
  <2> QED
    BY <1>2, <2>2 DEF DeriveRow
<1>3. ASSUME NEW a \in Analysts, Session(a)
      PROVE  DeriveRow(a) \/ UNCHANGED <<truthVars, derivedVars>>
  BY <1>3 DEF Session, Analysis, Reporting, Start, Stage1, BeginDerivation, LoadInputs, FinishDerivation,
     Stage2, ReadGraph, ReadObservations, ReadRows, Evaluate, Publish, RefusePublication, AwaitBatches,
     BeginForensics, LoadEvaluations, DeriveFindings, FinishForensics, VerifyRows, VerifyHead,
     Authorize, RetryAuthorization
<1>4. ASSUME NEW a \in Analysts, PassThrows(a) \/ Crash(a) PROVE UNCHANGED <<truthVars, derivedVars>>
  BY <1>4 DEF PassThrows, Crash
<1>5. CASE Abandon \/ UNCHANGED vars
  BY <1>0, <1>5 DEF Abandon, vars, truthVars, derivedVars
<1> QED
  BY <1>0, <1>1, <1>2, <1>3, <1>4, <1>5 DEF Next, truthVars, derivedVars

\* A watermark of the past stays one.
LEMMA PastStays ==
  ASSUME IInv, [Next]_vars, NEW w \in Watermark, w.c <= observations, w.p <= provenanceRevision
  PROVE  w.c <= observations' /\ w.p <= provenanceRevision'
BY InputsGrow DEF Watermark, IInv, EvidenceTypeOK

\* The rows and the sources of the past stay so, and a complete attempt of the
\* current chain is the proof of the current D after every step.
LEMMA AttemptsCurrent ==
  ASSUME OwnInv, [Next]_vars
  PROVE  SourcesPast' /\ CommittedCurrent'
<1>0. IInv /\ IInv'
  BY StepInv DEF OwnInv
<1>1. /\ observations \in Nat /\ observations' \in Nat
      /\ provenanceRevision \in Nat /\ provenanceRevision' \in Nat
      /\ observations <= observations' /\ provenanceRevision <= provenanceRevision'
  BY <1>0, InputsGrow, EvidenceAssumption DEF IInv, EvidenceTypeOK
<1>2. \A n \in DOMAIN attempts[EVIDENCE] :
        /\ attempts[EVIDENCE][n].source.c \in Nat /\ attempts[EVIDENCE][n].source.p \in Nat
        /\ attempts[EVIDENCE][n].source.c <= observations
        /\ attempts[EVIDENCE][n].source.p <= provenanceRevision
  <2> TAKE n \in DOMAIN attempts[EVIDENCE]
  <2>1. attempts[EVIDENCE][n] \in Attempt
    BY <1>0 DEF IInv, EvidenceTypeOK, Kinds
  <2> QED
    BY <1>0, <2>1 DEF Attempt, Watermark, IInv, AttemptsOK, OwnInv, SourcesPast
<1>3. SourcesPast'
  <2> SUFFICES ASSUME NEW n \in DOMAIN attempts'[EVIDENCE]
               PROVE  attempts'[EVIDENCE][n].source.p <= provenanceRevision'
    BY DEF SourcesPast
  <2>1. CASE n \in DOMAIN attempts[EVIDENCE]
    <3>1. attempts'[EVIDENCE][n].source = attempts[EVIDENCE][n].source
      BY <1>0, <2>1, AttemptHistory
    <3> QED
      BY <1>1, <1>2, <2>1, <3>1
  <2>2. CASE n \notin DOMAIN attempts[EVIDENCE]
    <3>1. attempts'[EVIDENCE][n].source = W
      BY <1>0, <2>2, AttemptHistory
    <3> QED
      BY <1>1, <3>1 DEF W
  <2> QED
    BY <2>1, <2>2
<1>4. CommittedCurrent'
  <2> SUFFICES ASSUME NEW n \in DOMAIN attempts'[EVIDENCE],
                      attempts'[EVIDENCE][n].status = "COMPLETE",
                      attempts'[EVIDENCE][n].source.c = observations'
               PROVE  attempts'[EVIDENCE][n].committed = derivationGeneration'
    BY DEF CommittedCurrent
  <2>1. n \in DOMAIN attempts[EVIDENCE]
    BY <1>0, AttemptHistory
  <2>2. attempts'[EVIDENCE][n].source = attempts[EVIDENCE][n].source
    BY <1>0, <2>1, AttemptHistory
  <2>3. attempts[EVIDENCE][n].source.c = observations /\ observations' = observations
    BY <1>1, <1>2, <2>1, <2>2
  <2>4. CASE attempts'[EVIDENCE][n] = attempts[EVIDENCE][n]
    <3>1. 1 .. observations \subseteq projection
      BY <1>0, <2>1, <2>3, <2>4 DEF IInv, AttemptsOK
    <3>2. derivationGeneration' = derivationGeneration
      BY <1>0, <3>1, InputsGrow
    <3> QED
      BY <2>1, <2>3, <2>4, <3>2 DEF OwnInv, CommittedCurrent
  <2>5. CASE attempts'[EVIDENCE][n] # attempts[EVIDENCE][n]
    BY <1>0, <2>1, <2>5, AttemptHistory DEF derivedVars
  <2> QED
    BY <2>4, <2>5
<1> QED
  BY <1>3, <1>4

\* What is known of a session's attempt survives the steps of the others.
LEMMA SourcedStays ==
  ASSUME IInv, [Next]_vars, NEW p, NEW l \in Local, SourcedOK(p, l)
  PROVE  SourcedOK(p, l)'
<1>1. /\ l.w \in Watermark /\ l.w.c \in Nat /\ l.w.p \in Nat
  BY DEF Local, Watermark
<1>2. p = "begin" => l.w.c <= observations' /\ l.w.p <= provenanceRevision'
  BY <1>1, PastStays DEF SourcedOK
<1>3. l.attempt \in DOMAIN attempts[EVIDENCE] =>
        /\ l.attempt \in DOMAIN attempts'[EVIDENCE]
        /\ attempts'[EVIDENCE][l.attempt].source = attempts[EVIDENCE][l.attempt].source
  BY AttemptHistory
<1> QED
  BY <1>2, <1>3 DEF SourcedOK

\* The control points at which a session has an attempt to vouch for, or is
\* about to begin one.
Deriving == {"begin", "load", "derive", "stage2", "read", "publish"}

\* One session moves; what is known of the others' attempts survives.
LEMMA SourcedStep ==
  ASSUME OwnInv, [Next]_vars, NEW a \in Analysts, NEW p, NEW l, Goto(a, p), Keep(a, l),
         SourcedOK(p, l)'
  PROVE  SessionsSourced'
<1> SUFFICES ASSUME NEW b \in Analysts PROVE SourcedOK(pc[b], local[b])'
  BY DEF SessionsSourced
<1>1. pc \in [Analysts -> Point] /\ local \in [Analysts -> Local]
  BY DEF OwnInv, IInv, EvidenceTypeOK
<1>2. CASE b = a
  <2>1. pc'[b] = p /\ local'[b] = l
    BY <1>1, <1>2 DEF Goto, Keep
  <2> QED
    BY <2>1 DEF SourcedOK
<1>3. CASE b # a
  <2>1. pc'[b] = pc[b] /\ local'[b] = local[b]
    BY <1>1, <1>3 DEF Goto, Keep
  <2>2. SourcedOK(pc[b], local[b]) /\ local[b] \in Local
    BY <1>1 DEF OwnInv, SessionsSourced
  <2>3. PICK q \in Point : q = pc[b]
    BY <1>1
  <2>4. PICK m \in Local : m = local[b]
    BY <2>2
  <2>5. SourcedOK(q, m)'
    BY <2>2, <2>3, <2>4, SourcedStays DEF OwnInv
  <2> QED
    BY <2>1, <2>3, <2>4, <2>5 DEF SourcedOK
<1> QED
  BY <1>2, <1>3

\* A session that leaves the analysis vouches for nothing.
LEMMA SourcedElsewhere ==
  ASSUME OwnInv, [Next]_vars, NEW a \in Analysts, NEW p, NEW l, Goto(a, p), Keep(a, l),
         p \notin Deriving
  PROVE  SessionsSourced'
<1>1. SourcedOK(p, l)'
  BY DEF SourcedOK, Deriving
<1> QED
  BY <1>1, SourcedStep

\* Stage 1 captures the current watermark.
LEMMA Stage1Sourced ==
  ASSUME OwnInv, [Next]_vars, NEW a \in Analysts, Stage1(a)
  PROVE  SessionsSourced'
<1>1. [local[a] EXCEPT !.w = W] \in Local
  BY SessionFacts, CurrentTypes DEF Local, IInv, OwnInv
<1>2. PICK l \in Local : l = [local[a] EXCEPT !.w = W]
  BY <1>1
<1>3. Keep(a, l) /\ Goto(a, "begin")
  BY <1>2 DEF Stage1
<1>4. l.w = W
  BY <1>2, SessionFacts DEF Local, OwnInv
<1>5. SourcedOK("begin", l)
  BY <1>4 DEF SourcedOK, W, OwnInv, IInv, EvidenceTypeOK
<1>6. SourcedOK("begin", l)'
  BY <1>5, SourcedStays DEF OwnInv
<1> QED
  BY <1>3, <1>6, SourcedStep

\* The attempt that begins takes a watermark at least as late as stage 1's.
LEMMA BeginSourced ==
  ASSUME OwnInv, [Next]_vars, NEW a \in Analysts, BeginDerivation(a)
  PROVE  SessionsSourced'
<1>0. beginDerivationAttempt(a, EVIDENCE) /\ Goto(a, "load") /\ pc[a] = "begin"
  BY DEF BeginDerivation
<1>1. local[a] \in Local /\ attempts[EVIDENCE] \in Seq(Attempt)
  BY SessionFacts DEF OwnInv, IInv, EvidenceTypeOK, Kinds
<1>2. PICK m \in Nat : m = Len(attempts[EVIDENCE]) + 1
  BY <1>1
<1>3. [local[a] EXCEPT !.attempt = m] \in Local
  BY <1>1 DEF Local
<1>4. PICK l \in Local : l = [local[a] EXCEPT !.attempt = m]
  BY <1>3
<1>5. Keep(a, l) /\ l.w = local[a].w
  BY <1>0, <1>1, <1>2, <1>4 DEF beginDerivationAttempt, Local
<1>6. local'[a] = l
  BY <1>5 DEF Keep, OwnInv, IInv, EvidenceTypeOK
<1>7. /\ l.attempt \in DOMAIN attempts'[EVIDENCE]
      /\ attempts'[EVIDENCE][l.attempt] = [status |-> "IN_PROGRESS", source |-> W, committed |-> 0]
  BY <1>0, <1>6, AttemptsAppended DEF OwnInv, IInv, Kinds
<1>8. l.w.c <= observations /\ l.w.p <= provenanceRevision
  BY <1>0, <1>5 DEF OwnInv, SessionsSourced, SourcedOK
<1>9. /\ attempts'[EVIDENCE][l.attempt].source.c = observations
      /\ attempts'[EVIDENCE][l.attempt].source.p = provenanceRevision
  BY <1>7 DEF W
<1>10. SourcedOK("load", l)'
  BY <1>7, <1>8, <1>9 DEF SourcedOK
<1> QED
  BY <1>0, <1>5, <1>10, SourcedStep

\* The inputs are loaded, and the attempt is finished, under the same attempt
\* and the same capture.
LEMMA PassSourced ==
  ASSUME OwnInv, [Next]_vars, NEW a \in Analysts, LoadInputs(a) \/ FinishDerivation(a)
  PROVE  SessionsSourced'
<1>1. PICK p \in {"derive", "stage2"} : Goto(a, p)
  BY DEF LoadInputs, FinishDerivation
<1>2. pc[a] \in {"load", "derive"}
  BY DEF LoadInputs, FinishDerivation
<1>3. PICK s \in {0, observations} : Keep(a, [local[a] EXCEPT !.seen = s])
  BY DEF LoadInputs, FinishDerivation
<1>4. local[a] \in Local /\ s \in Nat
  BY SessionFacts DEF OwnInv
<1>5. [local[a] EXCEPT !.seen = s] \in Local
  BY <1>4 DEF Local
<1>6. PICK l \in Local : l = [local[a] EXCEPT !.seen = s]
  BY <1>5
<1>7. l.w = local[a].w /\ l.attempt = local[a].attempt
  BY <1>4, <1>6 DEF Local
<1>8. SourcedOK(pc[a], local[a])
  BY DEF OwnInv, SessionsSourced
<1>9. SourcedOK(p, l)
  BY <1>1, <1>2, <1>7, <1>8 DEF SourcedOK
<1>10. SourcedOK(p, l)'
  BY <1>9, SourcedStays DEF OwnInv
<1> QED
  BY <1>1, <1>3, <1>6, <1>10, SourcedStep

\* Stage 2 goes on only if C and P are still those of stage 1, so the source,
\* which lies between, is that of W0.
LEMMA Stage2Sourced ==
  ASSUME OwnInv, [Next]_vars, NEW a \in Analysts, Stage2(a)
  PROVE  SessionsSourced'
<1>0. IInv /\ local[a] \in Local /\ pc[a] = "stage2"
  BY SessionFacts DEF OwnInv, Stage2
<1>1. CASE NextCycle(a)
  <2>1. PICK p \in {"stage1", "await", "verify", "done"} : \E l \in Local : Goto(a, p) /\ Keep(a, l)
    BY <1>0, <1>1, NextCycleMoves
  <2>2. p \notin Deriving
    BY DEF Deriving
  <2> QED
    BY <2>1, <2>2, SourcedElsewhere
<1>2. CASE ~NextCycle(a)
  <2>1. [local[a] EXCEPT !.w = W] \in Local
    BY <1>0, CurrentTypes DEF Local, IInv
  <2>2. PICK l \in Local : l = [local[a] EXCEPT !.w = W]
    BY <2>1
  <2>3. Keep(a, l) /\ Goto(a, "read")
        /\ local[a].w.c = observations /\ local[a].w.p = provenanceRevision
    BY <1>2, <2>2 DEF Stage2
  <2>4. l.w = W /\ l.attempt = local[a].attempt
    BY <1>0, <2>2 DEF Local
  <2>5. SourcedOK("stage2", local[a])
    BY <1>0 DEF OwnInv, SessionsSourced
  <2>6. PICK n \in DOMAIN attempts[EVIDENCE] : n = l.attempt
    BY <2>4, <2>5 DEF SourcedOK
  <2>7. attempts[EVIDENCE][n] \in Attempt
    BY <1>0 DEF IInv, EvidenceTypeOK, Kinds
  <2>8. /\ attempts[EVIDENCE][n].source.c \in Nat /\ attempts[EVIDENCE][n].source.p \in Nat
        /\ observations \in Nat /\ provenanceRevision \in Nat
    BY <1>0, <2>7, SessionFacts DEF Attempt, Watermark, IInv, EvidenceTypeOK
  <2>9. /\ attempts[EVIDENCE][n].source.c <= observations
        /\ attempts[EVIDENCE][n].source.p <= provenanceRevision
    BY <1>0 DEF IInv, AttemptsOK, OwnInv, SourcesPast
  <2>10. /\ observations <= attempts[EVIDENCE][n].source.c
         /\ provenanceRevision <= attempts[EVIDENCE][n].source.p
    BY <2>3, <2>4, <2>5, <2>6 DEF SourcedOK
  <2>11. /\ attempts[EVIDENCE][n].source.c = observations
         /\ attempts[EVIDENCE][n].source.p = provenanceRevision
    BY <2>8, <2>9, <2>10
  <2>12. SourcedOK("read", l)
    BY <2>4, <2>6, <2>11 DEF SourcedOK, W
  <2>13. SourcedOK("read", l)'
    BY <1>0, <2>12, SourcedStays
  <2> QED
    BY <2>3, <2>13, SourcedStep
<1> QED
  BY <1>1, <1>2

\* The reads of a pass keep its attempt and its W0.
LEMMA ReadsSourced ==
  ASSUME OwnInv, [Next]_vars, NEW a \in Analysts, ReadGraph(a) \/ ReadObservations(a) \/ ReadRows(a)
  PROVE  SessionsSourced'
<1>0. IInv /\ local[a] \in Local
  BY SessionFacts DEF OwnInv
<1>1. projection \in Rows /\ observations \in Nat
  BY <1>0, CurrentTypes DEF IInv
<1>2. PICK l \in Local : Keep(a, l) /\ l.w = local[a].w /\ l.attempt = local[a].attempt
  <2>1. CASE ReadGraph(a)
    <3>1. [local[a] EXCEPT !.read = @ \cup {"graph"}, !.graph = projection] \in Local
      BY <1>0, <1>1 DEF Local
    <3>2. PICK l \in Local : l = [local[a] EXCEPT !.read = @ \cup {"graph"}, !.graph = projection]
      BY <3>1
    <3>3. l.w = local[a].w /\ l.attempt = local[a].attempt
      BY <1>0, <3>2 DEF Local
    <3> QED
      BY <2>1, <3>2, <3>3 DEF ReadGraph
  <2>2. CASE ReadObservations(a)
    <3>1. [local[a] EXCEPT !.read = @ \cup {"observations"}, !.fp.obs = observations] \in Local
      BY <1>0, <1>1 DEF Local, Fingerprint
    <3>2. PICK l \in Local :
            l = [local[a] EXCEPT !.read = @ \cup {"observations"}, !.fp.obs = observations]
      BY <3>1
    <3>3. l.w = local[a].w /\ l.attempt = local[a].attempt
      BY <1>0, <3>2 DEF Local
    <3> QED
      BY <2>2, <3>2, <3>3 DEF ReadObservations
  <2>3. CASE ReadRows(a)
    <3>1. [local[a] EXCEPT !.read = @ \cup {"rows"}, !.fp.rows = projection] \in Local
      BY <1>0, <1>1 DEF Local, Fingerprint
    <3>2. PICK l \in Local : l = [local[a] EXCEPT !.read = @ \cup {"rows"}, !.fp.rows = projection]
      BY <3>1
    <3>3. l.w = local[a].w /\ l.attempt = local[a].attempt
      BY <1>0, <3>2 DEF Local
    <3> QED
      BY <2>3, <3>2, <3>3 DEF ReadRows
  <2> QED
    BY <2>1, <2>2, <2>3
<1>3. pc[a] = "read" /\ pc' = pc
  BY DEF ReadGraph, ReadObservations, ReadRows
<1>4. Goto(a, "read")
  BY <1>0, <1>3, Stays DEF IInv
<1>5. SourcedOK("read", local[a])
  BY <1>3 DEF OwnInv, SessionsSourced
<1>6. SourcedOK("read", l)
  BY <1>2, <1>5 DEF SourcedOK
<1>7. SourcedOK("read", l)'
  BY <1>0, <1>6, SourcedStays
<1> QED
  BY <1>2, <1>4, <1>7, SourcedStep

\* A publishable pass takes its attempt and its W0 to the publication.
LEMMA EvaluateSourced ==
  ASSUME OwnInv, [Next]_vars, NEW a \in Analysts, Evaluate(a)
  PROVE  SessionsSourced'
<1>0. IInv /\ local[a] \in Local /\ pc[a] = "read"
  BY SessionFacts DEF OwnInv, Evaluate
<1>1. CASE Goto(a, "publish") /\ UNCHANGED local
  <2>1. PICK l \in Local : l = local[a]
    BY <1>0
  <2>2. Keep(a, l)
    BY <1>0, <1>1, <2>1, Stays DEF IInv
  <2>3. SourcedOK("read", l)
    BY <1>0, <2>1 DEF OwnInv, SessionsSourced
  <2>4. SourcedOK("publish", l)
    BY <2>3 DEF SourcedOK
  <2>5. SourcedOK("publish", l)'
    BY <1>0, <2>4, SourcedStays
  <2> QED
    BY <1>1, <2>2, <2>5, SourcedStep
<1>2. CASE Goto(a, AfterAnalysis(a)) /\ Keep(a, Between(a))
  <2>1. AfterAnalysis(a) \notin Deriving
    BY DEF AfterAnalysis, Deriving
  <2>2. PICK p : p = AfterAnalysis(a)
    OBVIOUS
  <2>3. PICK l : l = Between(a)
    OBVIOUS
  <2> QED
    BY <1>2, <2>1, <2>2, <2>3, SourcedElsewhere
<1> QED
  BY <1>1, <1>2 DEF Evaluate

\* The steps that end, refuse or follow an analysis, or fail.
LEMMA OthersSourced ==
  ASSUME OwnInv, [Next]_vars, NEW a \in Analysts,
         \/ Start(a) \/ Publish(a) \/ RefusePublication(a)
         \/ Reporting(a) \/ PassThrows(a) \/ Crash(a)
  PROVE  SessionsSourced'
<1>0. IInv
  BY DEF OwnInv
<1>1. CASE Start(a)
  BY <1>1, SourcedElsewhere DEF Start, Deriving
<1>2. CASE Publish(a)
  <2>1. AfterAnalysis(a) \notin Deriving
    BY DEF AfterAnalysis, Deriving
  <2>2. Goto(a, AfterAnalysis(a)) /\ Keep(a, Between(a))
    BY <1>2 DEF Publish
  <2>3. PICK p : p = AfterAnalysis(a)
    OBVIOUS
  <2>4. PICK l : l = Between(a)
    OBVIOUS
  <2> QED
    BY <2>1, <2>2, <2>3, <2>4, SourcedElsewhere
<1>3. CASE RefusePublication(a)
  <2>1. PICK p \in {"stage1", "await", "verify", "done"} : \E l \in Local : Goto(a, p) /\ Keep(a, l)
    BY <1>0, <1>3, NextCycleMoves DEF RefusePublication
  <2>2. p \notin Deriving
    BY DEF Deriving
  <2> QED
    BY <2>1, <2>2, SourcedElsewhere
<1>4. CASE BeginForensics(a)
  <2>1. PICK l : l = local'[a]
    OBVIOUS
  <2>2. Goto(a, "evaluations") /\ Keep(a, l)
    <3>1. PICK m : m = [local[a] EXCEPT !.attempt = Len(attempts[FORENSICS]) + 1]
      OBVIOUS
    <3>2. Keep(a, m) /\ Goto(a, "evaluations")
      BY <1>4, <3>1 DEF BeginForensics, beginDerivationAttempt
    <3>3. local'[a] = m
      BY <1>0, <3>2 DEF Keep, IInv, EvidenceTypeOK
    <3> QED
      BY <2>1, <3>2, <3>3
  <2> QED
    BY <2>2, SourcedElsewhere DEF Deriving
<1>5. ASSUME Reporting(a), ~BeginForensics(a)
      PROVE  \E p \in Point \ Deriving : \E l : Goto(a, p) /\ Keep(a, l)
  <2>1. local' = local => Keep(a, local[a])
    BY <1>0, Stays DEF IInv
  <2>2. CASE AwaitBatches(a)
    <3>1. PICK p \in {"done", "forensics"} : Goto(a, p)
      BY <2>2 DEF AwaitBatches
    <3> QED
      BY <2>1, <2>2, <3>1 DEF AwaitBatches, Point, Deriving
  <2>3. CASE LoadEvaluations(a) \/ DeriveFindings(a)
    BY <2>1, <2>3 DEF LoadEvaluations, DeriveFindings, Point, Deriving
  <2>4. CASE FinishForensics(a) \/ VerifyRows(a)
    BY <2>4 DEF FinishForensics, VerifyRows, Point, Deriving
  <2>5. CASE VerifyHead(a)
    <3>1. PICK p \in {"done", "authorize"} : Goto(a, p)
      BY <2>5 DEF VerifyHead
    <3> QED
      BY <2>5, <3>1 DEF VerifyHead, Point, Deriving
  <2>6. CASE Authorize(a) \/ RetryAuthorization(a)
    BY <2>6 DEF Authorize, RetryAuthorization, Point, Deriving
  <2> QED
    BY <1>5, <2>2, <2>3, <2>4, <2>5, <2>6 DEF Reporting
<1>6. CASE Reporting(a) /\ ~BeginForensics(a)
  <2>1. PICK p \in Point \ Deriving : \E l : Goto(a, p) /\ Keep(a, l)
    BY <1>5, <1>6
  <2> QED
    BY <2>1, SourcedElsewhere
<1>7. CASE PassThrows(a) \/ Crash(a)
  <2>1. Goto(a, "done") /\ Keep(a, Fresh)
    BY <1>7 DEF PassThrows, Crash
  <2> QED
    BY <2>1, SourcedElsewhere DEF Deriving, Fresh, ZeroW, NoFingerprint
<1> QED
  BY <1>1, <1>2, <1>3, <1>4, <1>6, <1>7

\* No session moves.
LEMMA NobodySourced ==
  ASSUME OwnInv, [Next]_vars, pc' = pc, local' = local
  PROVE  SessionsSourced'
<1> SUFFICES ASSUME NEW b \in Analysts PROVE SourcedOK(pc[b], local[b])'
  BY DEF SessionsSourced
<1>1. PICK p \in Point : p = pc[b]
  BY DEF OwnInv, IInv, EvidenceTypeOK
<1>2. PICK l \in Local : l = local[b]
  BY SessionFacts DEF OwnInv
<1>3. SourcedOK(p, l)
  BY <1>1, <1>2 DEF OwnInv, SessionsSourced
<1>4. SourcedOK(p, l)'
  BY <1>3, SourcedStays DEF OwnInv
<1> QED
  BY <1>1, <1>2, <1>4 DEF SourcedOK

\* Every step preserves what a pass's own proof rests on.
LEMMA OwnStep == OwnInv /\ [Next]_vars => OwnInv'
<1> SUFFICES ASSUME OwnInv, [Next]_vars PROVE SessionsSourced'
  BY StepInv, AttemptsCurrent DEF OwnInv
<1>1. ASSUME NEW a \in Analysts, Session(a), ~DeriveRow(a) PROVE SessionsSourced'
  BY <1>1, Stage1Sourced, BeginSourced, PassSourced, Stage2Sourced, ReadsSourced, EvaluateSourced,
     OthersSourced DEF Session, Analysis
<1>2. ASSUME NEW a \in Analysts, DeriveRow(a) PROVE SessionsSourced'
  BY <1>2, NobodySourced DEF DeriveRow
<1>3. ASSUME NEW a \in Analysts, PassThrows(a) \/ Crash(a) PROVE SessionsSourced'
  BY <1>3, OthersSourced
<1>4. CASE AppendObservation \/ WriteProvenance \/ CompleteRun \/ Abandon
  BY <1>4, NobodySourced DEF AppendObservation, WriteProvenance, CompleteRun, Abandon
<1>5. CASE UNCHANGED vars
  BY <1>5, NobodySourced DEF vars
<1> QED
  BY <1>1, <1>2, <1>3, <1>4, <1>5 DEF Next

\* A newest proof of the current W is of the highest rank, and nothing newer is
\* unresolved.
LEMMA OwnProofReady ==
  ASSUME OwnInv
  PROVE  OwnProofSuffices
<1> SUFFICES ASSUME NEW a \in Analysts, pc[a] = "publish", local[a].w = W,
                    local[a].attempt = Len(attempts[EVIDENCE]),
                    attempts[EVIDENCE][local[a].attempt].status = "COMPLETE"
             PROVE  Ready(EVIDENCE)
  BY DEF OwnProofSuffices
<1>1. attempts[EVIDENCE] \in Seq(Attempt)
  BY DEF OwnInv, IInv, EvidenceTypeOK, Kinds
<1>2. PICK n \in DOMAIN attempts[EVIDENCE] : n = local[a].attempt
  BY DEF OwnInv, SessionsSourced, SourcedOK
<1>3. /\ attempts[EVIDENCE][n].source.c = observations
      /\ attempts[EVIDENCE][n].source.p = provenanceRevision
  BY <1>2 DEF OwnInv, SessionsSourced, SourcedOK, W
<1>4. n \in Proofs(EVIDENCE)
  BY <1>2, <1>3 DEF Proofs
<1>5. \A m \in Proofs(EVIDENCE) : attempts[EVIDENCE][m].committed = derivationGeneration
  BY DEF Proofs, OwnInv, CommittedCurrent
<1>6. \A m \in DOMAIN attempts[EVIDENCE] : m \in Nat /\ m <= n
  BY <1>1, <1>2
<1>7. \A m \in Proofs(EVIDENCE) : Ranks(EVIDENCE, m, n)
  BY <1>4, <1>5, <1>6 DEF Ranks, Proofs
<1>8. \A m \in DOMAIN attempts[EVIDENCE] : attempts[EVIDENCE][m].status = "IN_PROGRESS" => m < n
  BY <1>2, <1>6
<1> QED
  BY <1>4, <1>5, <1>7, <1>8 DEF Ready

\* A pass that reaches the publication with W unmoved and with the newest
\* attempt complete finds the derivation ready: no attempt that another pass
\* left unresolved, failed or superseded can block it (derivation-attempts.ts:
\* readDerivationReadiness).
THEOREM OwnProofSufficesCorrect == Spec => []OwnProofSuffices
<1>1. Init => OwnInv
  <2>1. Init => SourcesPast /\ CommittedCurrent /\ SessionsSourced
    BY DEF Init, SourcesPast, CommittedCurrent, SessionsSourced, SourcedOK, Kinds
  <2> QED
    BY <2>1, InitInv DEF OwnInv
<1> QED
  BY <1>1, OwnStep, OwnProofReady, PTL DEF Spec
=============================================================================
