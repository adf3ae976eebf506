---------------------------- MODULE ClientProofs ----------------------------
(***************************************************************************)
(* Proofs about Client: what a process may create does not exceed its own  *)
(* grants, and the exit status of a command is the truth about its run.    *)
(* Snapshots are shared by content, so that a snapshot found by its hash   *)
(* was frozen under grants that derive the same policy: a session carries  *)
(* the fact that its grants cover the snapshot from the freezing to the    *)
(* creation of the run.                                                    *)
(***************************************************************************)
EXTENDS Client, FiniteSetTheorems, TLAPS

-----------------------------------------------------------------------------
(* The exit classes *)

\* The verdicts that classify are those of the current pointers, of a strict key
\* those inside its eligible subjects.
LEMMA BoundVerdicts ==
  ASSUME NEW f, NEW bound, NEW verdict
  PROVE  SomeVerdict(f, bound, verdict) <=>
           \E k \in bound : \E s \in DOMAIN f.verdicts[k] :
             /\ k \in StrictKeys(f, bound) => s \in f.proofs[k].eligible
             /\ f.verdicts[k][s] = verdict
<1> DEFINE Subjects(k) == IF k \in StrictKeys(f, bound)
                            THEN DOMAIN f.verdicts[k] \cap f.proofs[k].eligible
                            ELSE DOMAIN f.verdicts[k]
<1>1. \A v : v \in boundSubjectVerdicts(f, bound) <=>
               \E k \in bound : \E s \in Subjects(k) : v = <<k, s>>
  BY DEF boundSubjectVerdicts
<1>2. SomeVerdict(f, bound, verdict) <=>
        \E k \in bound : \E s \in Subjects(k) : f.verdicts[k][s] = verdict
  <2> HIDE DEF Subjects
  <2>1. ASSUME NEW k \in bound, NEW s \in Subjects(k), f.verdicts[k][s] = verdict
        PROVE  SomeVerdict(f, bound, verdict)
    <3>1. <<k, s>> \in boundSubjectVerdicts(f, bound)
      BY <1>1
    <3>2. <<k, s>>[1] = k /\ <<k, s>>[2] = s
      OBVIOUS
    <3> QED
      BY <2>1, <3>1, <3>2 DEF SomeVerdict
  <2>2. ASSUME SomeVerdict(f, bound, verdict)
        PROVE  \E k \in bound : \E s \in Subjects(k) : f.verdicts[k][s] = verdict
    <3>1. PICK v \in boundSubjectVerdicts(f, bound) : f.verdicts[v[1]][v[2]] = verdict
      BY <2>2 DEF SomeVerdict
    <3>2. PICK k \in bound : \E s \in Subjects(k) : v = <<k, s>>
      BY <1>1
    <3>3. PICK s \in Subjects(k) : v = <<k, s>>
      BY <3>2
    <3>4. v[1] = k /\ v[2] = s
      BY <3>3
    <3> QED
      BY <3>1, <3>4
  <2> QED
    BY <2>1, <2>2
<1> QED
  BY <1>2

\* A key has a classifying verdict if one of its pointers counts.
LEMMA KeyVerdicts ==
  ASSUME NEW f, NEW bound, NEW k \in bound
  PROVE  (\E v \in boundSubjectVerdicts(f, bound) : v[1] = k) <=>
           \E s \in DOMAIN f.verdicts[k] : k \in StrictKeys(f, bound) => s \in f.proofs[k].eligible
<1> DEFINE Subjects(j) == IF j \in StrictKeys(f, bound)
                            THEN DOMAIN f.verdicts[j] \cap f.proofs[j].eligible
                            ELSE DOMAIN f.verdicts[j]
<1>1. \A v : v \in boundSubjectVerdicts(f, bound) <=>
               \E j \in bound : \E s \in Subjects(j) : v = <<j, s>>
  BY DEF boundSubjectVerdicts
<1>2. (\E v \in boundSubjectVerdicts(f, bound) : v[1] = k) <=> Subjects(k) # {}
  <2> HIDE DEF Subjects
  <2>1. ASSUME NEW s \in Subjects(k) PROVE \E v \in boundSubjectVerdicts(f, bound) : v[1] = k
    <3>1. <<k, s>> \in boundSubjectVerdicts(f, bound) /\ <<k, s>>[1] = k
      BY <1>1
    <3> QED
      BY <3>1
  <2>2. ASSUME NEW v \in boundSubjectVerdicts(f, bound), v[1] = k PROVE Subjects(k) # {}
    <3>1. PICK j \in bound : \E s \in Subjects(j) : v = <<j, s>>
      BY <1>1
    <3>2. j = k
      BY <2>2, <3>1
    <3> QED
      BY <3>1, <3>2
  <2> QED
    BY <2>1, <2>2
<1> QED
  BY <1>2

\* Exit 1: some subject that the run owns fails, over a chain that verifies.
LEMMA ExitFails ==
  ASSUME NEW bound, NEW f, f.chain # "broken"
  PROVE  SomeVerdict(f, bound, "FAIL") <=> Fails(f, bound)
BY BoundVerdicts DEF Fails, StrictKeys

\* What is authorized is current, complete and without an anomaly.
LEMMA AuthorizedFacts ==
  ASSUME NEW bound, NEW f, Coherent(f, bound), f.chain # "broken"
  PROVE  disposition(f, bound) = "AUTHORIZED" <=>
           /\ f.chain = "intact" /\ f.standing = "current"
           /\ \A k \in bound : f.proofs[k] # Unproven
           /\ \E k \in bound : f.proofs[k] # Unproven
           /\ Unpointed(f, bound) = {} /\ Anomalous(f, bound) = {}
<1> DEFINE state == publicationState(f, bound)
<1>1. state = "CURRENT" <=>
        /\ \E k \in bound : f.proofs[k] # Unproven
        /\ f.standing = "current" /\ Unpointed(f, bound) = {}
  BY DEF publicationState, Coherent
<1>2. state \in {"MISSING_PROOF", "GENERATION_MISMATCH", "DERIVATION_NOT_READY",
                 "CURRENT_POINTER_STALE", "MISSING_SUBJECT_POINTER", "CURRENT"}
  BY DEF publicationState
<1>3. disposition(f, bound) = "AUTHORIZED" <=>
        /\ state = "CURRENT" /\ \A k \in bound : f.proofs[k] # Unproven
        /\ f.chain # "advanced" /\ Anomalous(f, bound) = {}
  BY <1>2 DEF disposition
<1> QED
  BY <1>1, <1>3 DEF Coherent

\* Exit 0 is exactly that every declared subject of every bound key passes over
\* verified and current evidence, and none fails.
LEMMA ExitHolds ==
  ASSUME NEW bound, NEW f, Coherent(f, bound), f.chain # "broken", ~SomeVerdict(f, bound, "FAIL")
  PROVE  Holds(f, bound) <=>
           /\ \A k \in bound : ~Uncovered(f, bound, k)
           /\ ~SomeVerdict(f, bound, "NOT_EVALUABLE")
           /\ disposition(f, bound) = "AUTHORIZED" /\ bound # {}
<1> USE DEF Verdict
<1>1. ASSUME \A k \in bound : ~Uncovered(f, bound, k), ~SomeVerdict(f, bound, "NOT_EVALUABLE"),
             disposition(f, bound) = "AUTHORIZED", bound # {}
      PROVE  Holds(f, bound)
  <2>1. /\ f.chain = "intact" /\ f.standing = "current"
        /\ Unpointed(f, bound) = {} /\ Anomalous(f, bound) = {}
    BY <1>1, AuthorizedFacts
  <2>2. ASSUME NEW k \in bound
        PROVE  /\ f.proofs[k] # Unproven
               /\ DOMAIN f.verdicts[k] # {}
               /\ \A s \in DOMAIN f.verdicts[k] : f.verdicts[k][s] = "PASS"
               /\ f.proofs[k].strict =>
                    /\ f.proofs[k].eligible = f.proofs[k].declared
                    /\ DOMAIN f.verdicts[k] = f.proofs[k].declared
                    /\ ~f.proofs[k].unexpected /\ ~f.proofs[k].gaps
    <3>1. f.proofs[k] # Unproven
      BY <1>1 DEF Uncovered
    <3>2. \E v \in boundSubjectVerdicts(f, bound) : v[1] = k
      BY <1>1 DEF Uncovered
    <3>3. DOMAIN f.verdicts[k] # {}
      BY <3>2, KeyVerdicts
    <3>4. k \in StrictKeys(f, bound) =>
            /\ DOMAIN f.verdicts[k] = f.proofs[k].eligible
            /\ f.proofs[k].eligible = f.proofs[k].declared
            /\ ~f.proofs[k].unexpected /\ ~f.proofs[k].gaps
      BY <2>1, <3>1 DEF Anomalous, Unpointed, Coherent
    <3>5. \A s \in DOMAIN f.verdicts[k] : f.verdicts[k][s] \notin {"FAIL", "NOT_EVALUABLE"}
      BY <1>1, <3>4, BoundVerdicts
    <3>6. \A s \in DOMAIN f.verdicts[k] : f.verdicts[k][s] = "PASS"
      BY <3>5 DEF Coherent
    <3>7. f.proofs[k].strict => k \in StrictKeys(f, bound)
      BY <3>1 DEF StrictKeys
    <3> QED
      BY <3>1, <3>3, <3>4, <3>6, <3>7
  <2> QED
    BY <1>1, <2>1, <2>2 DEF Holds
<1>2. ASSUME Holds(f, bound)
      PROVE  /\ \A k \in bound : ~Uncovered(f, bound, k)
             /\ ~SomeVerdict(f, bound, "NOT_EVALUABLE")
             /\ disposition(f, bound) = "AUTHORIZED" /\ bound # {}
  <2>1. ASSUME NEW k \in StrictKeys(f, bound)
        PROVE  /\ DOMAIN f.verdicts[k] = f.proofs[k].declared
               /\ f.proofs[k].eligible = f.proofs[k].declared
               /\ f.proofs[k].missing = {} /\ f.proofs[k].declared # {}
               /\ ~f.proofs[k].unexpected /\ ~f.proofs[k].gaps
    BY <1>2 DEF Holds, StrictKeys, Coherent
  <2>2. Unpointed(f, bound) = {} /\ Anomalous(f, bound) = {}
    BY <2>1 DEF Unpointed, Anomalous
  <2>3. \A k \in bound : \E v \in boundSubjectVerdicts(f, bound) : v[1] = k
    <3> SUFFICES ASSUME NEW k \in bound PROVE \E v \in boundSubjectVerdicts(f, bound) : v[1] = k
      OBVIOUS
    <3>1. \E s \in DOMAIN f.verdicts[k] : k \in StrictKeys(f, bound) => s \in f.proofs[k].eligible
      BY <1>2, <2>1 DEF Holds
    <3> QED
      BY <3>1, KeyVerdicts
  <2>4. \A k \in bound : ~Uncovered(f, bound, k)
    BY <1>2, <2>1, <2>2, <2>3 DEF Uncovered, Holds
  <2>5. ~SomeVerdict(f, bound, "NOT_EVALUABLE")
    BY <1>2, BoundVerdicts DEF Holds
  <2>6. disposition(f, bound) = "AUTHORIZED" /\ bound # {}
    BY <1>2, <2>2, AuthorizedFacts DEF Holds
  <2> QED
    BY <2>4, <2>5, <2>6
<1> QED
  BY <1>1, <1>2

\* The exit class of a completed run is the truth of what was published for it.
THEOREM ExitClassTruthful ==
  ASSUME NEW bound, NEW f, Coherent(f, bound)
  PROVE  /\ classifyExit(f, bound) \in 0 .. 3
         /\ classifyExit(f, bound) = 0 => Holds(f, bound) /\ ~Fails(f, bound)
         /\ classifyExit(f, bound) = 1 => Fails(f, bound)
         /\ classifyExit(f, bound) = 2 => ~Holds(f, bound) /\ ~Fails(f, bound)
<1>1. CASE f.chain = "broken"
  BY <1>1 DEF classifyExit
<1>2. CASE f.chain # "broken" /\ SomeVerdict(f, bound, "FAIL")
  BY <1>2, ExitFails DEF classifyExit
<1>3. CASE f.chain # "broken" /\ ~SomeVerdict(f, bound, "FAIL")
  BY <1>3, ExitFails, ExitHolds DEF classifyExit
<1> QED
  BY <1>1, <1>2, <1>3
-----------------------------------------------------------------------------
(* What a snapshot is covered by *)

Granted(p, z) == IF z.origin \in DOMAIN p.of THEN p.of[z.origin] ELSE {}

\* The grants p cover the references frozen for a target with a manifest.
CoveredBy(p, z) == z.policy # Absent => z.refs \subseteq Granted(p, z)

\* The signing reference of a frozen policy is one of the frozen references.
Sealed(z) == z.policy # Absent => z.policy.signingRef \in z.refs \cup {Absent}

\* The rows of a target that has been registered.
TargetRows == {TargetRow(i.registration) : i \in Inputs}
Registered(t) ==
  /\ t \in TargetRows
  /\ \E o \in t.origins : \A p \in t.origins : Rank[o] <= Rank[p]
  /\ t.manifest # Absent => t.manifest.refs = t.refs

\* A freezable document is covered by the grants it was built with.
LEMMA FrozenCovered ==
  ASSUME NEW p, NEW t, Registered(t), NEW n, NEW doc, Freezable(p, t, doc)
  PROVE  LET z == buildSnapshotDocument(p, t, n, doc, Rank)
         IN  CoveredBy(p, z) /\ Sealed(z)
<1> DEFINE z == buildSnapshotDocument(p, t, n, doc, Rank)
<1>1. /\ z.origin = ExecutedOrigin(t, Rank) /\ z.refs = t.refs
      /\ z.policy = deriveExecutionPolicy(p, t)
  BY DEF buildSnapshotDocument
<1>2. z.origin \in t.origins
  BY <1>1 DEF ExecutedOrigin, Registered
<1>3. SUFFICES ASSUME z.policy # Absent
               PROVE  z.refs \subseteq Granted(p, z) /\ z.policy.signingRef \in z.refs \cup {Absent}
  BY DEF CoveredBy, Sealed
<1>4. t.manifest # Absent
  BY <1>1, <1>3 DEF deriveExecutionPolicy
<1>5. SignatureResolvable(p, t.origins, t.manifest) /\ t.manifest.refs = t.refs
  BY <1>4 DEF Freezable, PolicyDerivable, Registered
<1>6. t.refs \subseteq GrantedTo(p, z.origin)
  BY <1>2, <1>5 DEF SignatureResolvable, RefsAuthorized, authorizedRefsForTarget
<1>7. z.refs \subseteq Granted(p, z)
  BY <1>1, <1>6 DEF GrantedTo, Granted
<1>8. z.policy.signingRef \in z.refs \cup {Absent}
  <2> DEFINE m == t.manifest
             C == SigningCandidates(p, t.origins, m)
  <2>1. z.policy.signingRef = IF m.header = Absent THEN Absent ELSE CHOOSE r \in C : TRUE
    BY <1>1, <1>4 DEF deriveExecutionPolicy
  <2>2. CASE m.header = Absent
    BY <2>1, <2>2
  <2>3. CASE m.header # Absent
    <3>1. Cardinality(C) = 1
      BY <1>5, <2>3 DEF SignatureResolvable
    <3>2. C \subseteq ExecutorRefs /\ C \subseteq t.refs
      BY <1>5 DEF SigningCandidates, authorizedRefsForTarget
    <3>3. IsFiniteSet(C)
      BY <3>2, RefsAssumption, FS_Subset
    <3>4. C # {}
      BY <3>1, <3>3, FS_EmptySet
    <3>5. (CHOOSE r \in C : TRUE) \in C
      BY <3>4
    <3> QED
      BY <1>1, <2>1, <2>3, <3>2, <3>5
  <2> QED
    BY <2>2, <2>3
<1> QED
  BY <1>7, <1>8

-----------------------------------------------------------------------------
(* The invariant *)

RunStates == {"SNAPSHOT_PINNED", "DISPATCHING"} \cup Terminal
FrozenDocs ==
  {buildSnapshotDocument(p, TargetRow(i.registration), n, i.document, Rank) :
     p \in Policies, i \in Inputs, n \in Nat}
RunRow == [snapshot : Nat, state : RunStates, replays : Nat, by : Policies]

Commands == {"none", "run", "replay", "compare", "validate", "api-run"}
Stages == {"idle", "started", "freeze", "insert", "create", "dispatch", "wait", "analyze",
           "authorize", "report", "exited"}
Session ==
  [cmd : Commands, stage : Stages, policy : Policies \cup {Absent}, number : Nat,
   frozen : FrozenDocs \cup {Absent}, other : Nat, created : Nat, tries : Nat,
   exit : (0 .. 4) \cup {Absent}, truth : [holds : BOOLEAN, fails : BOOLEAN] \cup {Absent}]

ClientTypes ==
  /\ grants \in Policies /\ input \in Inputs
  /\ revisions \in Nat
  /\ snapshots \in Seq(FrozenDocs) /\ runs \in Seq(RunRow)
  /\ session \in [Clients -> Session]

\* The stored rows: a revision presupposes the target, a snapshot is sealed, a
\* run is authorized, a reproduction is of a run.
RowsOK ==
  /\ target # Absent => Registered(target) /\ target = TargetRow(input.registration)
  /\ revisions > 0 => target # Absent
  /\ \A n \in DOMAIN snapshots : Sealed(snapshots[n])
  /\ \A n \in DOMAIN runs : runs[n].snapshot \in DOMAIN snapshots
  /\ \A n \in reproductions : n \in DOMAIN runs
  /\ \A n \in DOMAIN runs : runs[n].replays # 0 => runs[n].replays \in DOMAIN runs

\* A run r of the snapshot z is within the authority of its creator.
Authorized(r, z) ==
  /\ z.environment # "PRODUCTION"
  /\ z.policy # Absent \/ r.replays # 0 => z.refs \subseteq Granted(r.by, z)
  /\ z.policy # Absent => z.policy.signingRef \in Granted(r.by, z) \cup {Absent}

AuthorizedRows ==
  \A n \in DOMAIN runs :
    /\ Authorized(runs[n], snapshots[runs[n].snapshot])
    /\ runs[n].replays # 0 => runs[runs[n].replays].snapshot = runs[n].snapshot

Creating == {"started", "freeze", "insert", "create"}
Driving == {"dispatch", "wait", "analyze", "authorize", "report"}
Completed == {"analyze", "authorize", "report"}

\* What a reported exit and the published state it was classified from agree on.
Agree(s) ==
  /\ s.exit = 0 => s.truth.holds /\ ~s.truth.fails
  /\ s.exit = 1 => s.truth.fails
  /\ s.exit = 2 => ~s.truth.holds /\ ~s.truth.fails
  /\ s.exit \in 0 .. 3

\* What the exit status of an ended command says of the run it created.
Exited(s) ==
  /\ s.cmd \in {"run", "replay"} =>
       /\ s.exit \in {0, 1, 2} => s.created # 0 /\ runs[s.created].state = "COMPLETED"
       /\ s.exit = 0 => s.truth.holds /\ ~s.truth.fails
       /\ s.exit = 1 => s.truth.fails
       /\ s.exit = 2 => ~s.truth.holds /\ ~s.truth.fails
       /\ s.exit = 4 => s.created = 0
  /\ s.cmd = "compare" /\ s.exit = 0 =>
       /\ s.number # s.other
       /\ runs[s.number].snapshot = runs[s.other].snapshot
       /\ {runs[s.number].state, runs[s.other].state} = {"COMPLETED"}

\* A session knows what it has established about the rows it names.
SessionOK(s) ==
  /\ s.stage \in Creating => s.policy \in Policies /\ s.created = 0
  /\ s.stage \in {"freeze", "insert", "create"} => target # Absent
  /\ s.stage = "insert" => s.frozen \in FrozenDocs /\ CoveredBy(s.policy, s.frozen) /\ Sealed(s.frozen)
  /\ s.stage = "create" =>
       s.number \in DOMAIN snapshots /\ CoveredBy(s.policy, snapshots[s.number])
  /\ s.stage \in Driving => s.number = s.created /\ s.created \in DOMAIN runs
  /\ s.stage \in Completed => runs[s.created].state = "COMPLETED"
  /\ s.cmd = "compare" /\ s.stage \in {"started", "exited"} =>
       s.number \in DOMAIN runs /\ s.other \in DOMAIN runs
  /\ s.stage = "exited" /\ s.created # 0 => s.created \in DOMAIN runs
  /\ s.stage = "report" => Agree(s)
  /\ s.stage = "exited" => Exited(s)

ClientInv ==
  /\ ClientTypes /\ RowsOK /\ AuthorizedRows
  /\ \A c \in Clients : SessionOK(session[c])

\* The initial states satisfy the invariant.
LEMMA ClientInitInv == ClientInit => ClientInv
<1> SUFFICES ASSUME ClientInit PROVE ClientInv
  OBVIOUS
<1> USE DEF ClientInit
<1>1. Idle \in Session
  BY DEF Idle, Session, Commands, Stages
<1>2. ClientTypes
  BY <1>1 DEF ClientTypes
<1>3. DOMAIN runs = {} /\ DOMAIN snapshots = {}
  OBVIOUS
<1>4. RowsOK /\ AuthorizedRows
  BY <1>3 DEF RowsOK, AuthorizedRows
<1>5. \A c \in Clients : session[c].stage = "idle" /\ session[c].cmd = "none"
  BY DEF Idle
<1>6. \A c \in Clients : SessionOK(session[c])
  BY <1>5 DEF SessionOK, Creating, Driving, Completed
<1> QED
  BY <1>2, <1>4, <1>6 DEF ClientInv

\* Rows only grow: snapshots stay, runs keep their identity and their completion.
Grow ==
  /\ target # Absent => target' = target
  /\ DOMAIN snapshots \subseteq DOMAIN snapshots'
  /\ \A n \in DOMAIN snapshots : snapshots'[n] = snapshots[n]
  /\ DOMAIN runs \subseteq DOMAIN runs'
  /\ \A n \in DOMAIN runs :
       /\ runs'[n].snapshot = runs[n].snapshot
       /\ runs[n].state = "COMPLETED" => runs'[n].state = "COMPLETED"

\* A session that does not move still knows what it knew.
LEMMA StillOK ==
  ASSUME NEW b \in Clients, SessionOK(session[b]), session'[b] = session[b], Grow
  PROVE  SessionOK(session[b])'
<1>1. ASSUME session[b].stage = "exited" PROVE Exited(session[b])'
  <2>1. Exited(session[b]) /\ session'[b] = session[b]
    BY <1>1 DEF SessionOK
  <2>2. session[b].cmd = "compare" =>
          session[b].number \in DOMAIN runs /\ session[b].other \in DOMAIN runs
    BY <1>1 DEF SessionOK
  <2>3. session[b].created # 0 => session[b].created \in DOMAIN runs
    BY <1>1 DEF SessionOK
  <2>4. ASSUME session[b].created # 0, session[b].cmd \in {"run", "replay"},
               session[b].exit \in {0, 1, 2}
        PROVE  runs'[session[b].created].state = "COMPLETED"
    BY <2>1, <2>3, <2>4 DEF Exited, Grow
  <2>5. ASSUME session[b].cmd = "compare", session[b].exit = 0
        PROVE  /\ session[b].number # session[b].other
               /\ runs'[session[b].number].snapshot = runs'[session[b].other].snapshot
               /\ {runs'[session[b].number].state, runs'[session[b].other].state} = {"COMPLETED"}
    <3>1. runs[session[b].number].state = "COMPLETED" /\ runs[session[b].other].state = "COMPLETED"
      BY <2>1, <2>5 DEF Exited
    <3> QED
      BY <2>1, <2>2, <2>5, <3>1 DEF Exited, Grow
  <2> QED
    BY <2>1, <2>4, <2>5 DEF Exited
<1> QED
  BY <1>1 DEF SessionOK, Agree, Grow, Completed, Driving

\* A step of c that leaves it with what it then knows.
LEMMA ClientMove ==
  ASSUME ClientInv, NEW c \in Clients, NEW s \in Session, session' = [session EXCEPT ![c] = s],
         Grow, grants' \in Policies, input' = input, revisions' \in Nat,
         snapshots' \in Seq(FrozenDocs), runs' \in Seq(RunRow),
         RowsOK', AuthorizedRows', SessionOK(session[c])'
  PROVE  ClientInv'
<1>1. session' \in [Clients -> Session]
  BY DEF ClientInv, ClientTypes
<1>2. ClientTypes'
  BY <1>1 DEF ClientInv, ClientTypes
<1>3. ASSUME NEW b \in Clients PROVE SessionOK(session[b])'
  <2>1. CASE b = c
    BY <2>1
  <2>2. CASE b # c
    <3>1. session'[b] = session[b] /\ SessionOK(session[b])
      BY <2>2 DEF ClientInv, ClientTypes
    <3> QED
      BY <3>1, StillOK
  <2> QED
    BY <2>1, <2>2
<1> QED
  BY <1>2, <1>3 DEF ClientInv

\* A step of c that writes no row.
LEMMA QuietMove ==
  ASSUME ClientInv, NEW c \in Clients, NEW s \in Session, session' = [session EXCEPT ![c] = s],
         UNCHANGED <<target, revisions, snapshots, runs, reproductions, input>>,
         grants' \in Policies, SessionOK(s)
  PROVE  ClientInv'
<1>1. Grow
  BY DEF Grow
<1>2. RowsOK' /\ AuthorizedRows'
  BY DEF ClientInv, RowsOK, AuthorizedRows
<1>3. session'[c] = s
  BY DEF ClientInv, ClientTypes
<1>4. SessionOK(session[c])'
  BY <1>3 DEF SessionOK, Exited
<1> QED
  BY <1>1, <1>2, <1>4, ClientMove DEF ClientInv, ClientTypes

\* Steps of the environment, which move no session.
LEMMA EnvironmentMove ==
  ASSUME ClientInv, session' = session, Grow, grants' \in Policies, input' = input,
         revisions' \in Nat, snapshots' \in Seq(FrozenDocs), runs' \in Seq(RunRow),
         RowsOK', AuthorizedRows'
  PROVE  ClientInv'
<1>1. ClientTypes'
  BY DEF ClientInv, ClientTypes
<1>2. ASSUME NEW b \in Clients PROVE SessionOK(session[b])'
  BY StillOK DEF ClientInv
<1> QED
  BY <1>1, <1>2 DEF ClientInv

\* What holds of a session and the rows wherever it stands.
LEMMA SessionFacts ==
  ASSUME ClientInv, NEW c \in Clients
  PROVE  /\ session[c] \in Session /\ SessionOK(session[c]) /\ session \in [Clients -> Session]
         /\ grants \in Policies /\ input \in Inputs /\ revisions \in Nat
         /\ snapshots \in Seq(FrozenDocs) /\ runs \in Seq(RunRow)
BY DEF ClientInv, ClientTypes

\* Ending a command with exit 3, or with 4 before it has created a run.
LEMMA ExitMove ==
  ASSUME ClientInv, NEW c \in Clients, NEW code \in {0, 3, 4}, Exit(c, code),
         UNCHANGED <<target, revisions, snapshots, runs, reproductions>>, Still,
         session[c].cmd = "compare" => code # 0 /\ session[c].stage = "started",
         session[c].cmd \in {"run", "replay"} =>
           /\ code \in {3, 4}
           /\ code = 4 => session[c].created = 0,
         session[c].created # 0 => session[c].created \in DOMAIN runs
  PROVE  ClientInv'
<1> DEFINE s == [session[c] EXCEPT !.stage = "exited", !.exit = code, !.frozen = Absent]
<1>0. session[c] \in Session /\ code \in 0 .. 4
  BY SessionFacts
<1>1. s \in Session
  BY <1>0 DEF Session, Stages
<1>2. session' = [session EXCEPT ![c] = s]
  BY DEF Exit
<1>3. /\ s.stage = "exited" /\ s.exit = code /\ s.cmd = session[c].cmd
      /\ s.created = session[c].created /\ s.number = session[c].number /\ s.other = session[c].other
  BY SessionFacts DEF Session
<1>4. SessionOK(s)
  BY <1>3, SessionFacts DEF SessionOK, Exited, Creating, Driving, Completed
<1> QED
  BY <1>1, <1>2, <1>4, SessionFacts, QuietMove DEF Still

\* A run changes its state, and not out of COMPLETED.
LEMMA StateMove ==
  ASSUME ClientInv, NEW n \in DOMAIN runs, NEW state \in RunStates, SetState(n, state),
         runs[n].state = "COMPLETED" => state = "COMPLETED",
         UNCHANGED <<target, revisions, snapshots, reproductions, input>>
  PROVE  runs' \in Seq(RunRow) /\ Grow /\ RowsOK' /\ AuthorizedRows'
<1>0. /\ runs \in Seq(RunRow) /\ n \in 1 .. Len(runs)
  BY DEF ClientInv, ClientTypes
<1>1. /\ runs' \in Seq(RunRow) /\ DOMAIN runs' = DOMAIN runs
      /\ \A m \in DOMAIN runs :
           /\ runs'[m] = IF m = n THEN [runs[n] EXCEPT !.state = state] ELSE runs[m]
  <2>1. runs[n] \in RunRow
    BY <1>0
  <2>2. [runs[n] EXCEPT !.state = state] \in RunRow
    BY <2>1 DEF RunRow
  <2>3. runs' = [runs EXCEPT ![n] = [runs[n] EXCEPT !.state = state]]
    BY DEF SetState
  <2> QED
    BY <1>0, <2>2, <2>3
<1>2. \A m \in DOMAIN runs :
        /\ runs'[m].snapshot = runs[m].snapshot /\ runs'[m].replays = runs[m].replays
        /\ runs'[m].by = runs[m].by
        /\ runs[m].state = "COMPLETED" => runs'[m].state = "COMPLETED"
  <2> SUFFICES ASSUME NEW m \in DOMAIN runs
               PROVE  /\ runs'[m].snapshot = runs[m].snapshot /\ runs'[m].replays = runs[m].replays
                      /\ runs'[m].by = runs[m].by
                      /\ runs[m].state = "COMPLETED" => runs'[m].state = "COMPLETED"
    OBVIOUS
  <2>1. runs[m] \in RunRow
    BY <1>0
  <2> QED
    BY <1>1, <2>1 DEF RunRow
<1>3. Grow
  BY <1>1, <1>2 DEF Grow
<1>4. RowsOK'
  BY <1>1, <1>2 DEF ClientInv, RowsOK
<1>5. AuthorizedRows'
  <2> SUFFICES ASSUME NEW m \in DOMAIN runs
               PROVE  /\ Authorized(runs'[m], snapshots[runs'[m].snapshot])
                      /\ runs'[m].replays # 0 =>
                           runs'[runs'[m].replays].snapshot = runs'[m].snapshot
    BY <1>1 DEF AuthorizedRows
  <2>1. runs[m].replays # 0 => runs[m].replays \in DOMAIN runs
    BY DEF ClientInv, RowsOK
  <2>2. Authorized(runs[m], snapshots[runs[m].snapshot])
    BY DEF ClientInv, AuthorizedRows
  <2>3. Authorized(runs'[m], snapshots[runs'[m].snapshot])
    BY <1>2, <2>2 DEF Authorized
  <2> QED
    BY <1>2, <2>1, <2>3 DEF ClientInv, AuthorizedRows
<1> QED
  BY <1>1, <1>3, <1>4, <1>5

\* The target is registered once.
LEMMA RegisterMove == ASSUME ClientInv, registerTarget PROVE ClientInv'
<1> DEFINE reg == input.registration
<1>1. target = Absent /\ Registrable(grants, reg) /\ target' = TargetRow(reg)
  BY DEF registerTarget
<1>2. input \in Inputs
  BY SessionFacts DEF ClientInv, ClientTypes
<1>3. reg.origins # {}
  BY <1>1 DEF Registrable, OriginsAcceptable
<1>4. target'.origins = Origins(reg) /\ target'.manifest = reg.manifest /\ target'.refs = reg.refs
  BY <1>1 DEF TargetRow
<1>5. reg.manifest # Absent => reg.manifest.refs = reg.refs
  BY <1>1 DEF Registrable, ManifestAgrees
<1>6. Registered(target)'
  BY <1>1, <1>2, <1>3, <1>4, <1>5, RankAssumption DEF Registered, TargetRows
<1>7. Grow
  BY <1>1 DEF registerTarget, Grow
<1>8. RowsOK' /\ AuthorizedRows'
  BY <1>1, <1>6 DEF registerTarget, Still, ClientInv, RowsOK, AuthorizedRows
<1> QED
  BY <1>7, <1>8, EnvironmentMove DEF registerTarget, Still, ClientInv, ClientTypes

\* A later process may have other grants.
LEMMA ReconfigureMove == ASSUME ClientInv, Reconfigure PROVE ClientInv'
<1>1. Grow
  BY DEF Reconfigure, rowVars, Grow
<1>2. RowsOK' /\ AuthorizedRows'
  BY DEF Reconfigure, rowVars, ClientInv, RowsOK, AuthorizedRows
<1> QED
  BY <1>1, <1>2, EnvironmentMove DEF Reconfigure, rowVars, ClientInv, ClientTypes

\* The engine and the cancel endpoint move a run.
LEMMA RunMovesMove == ASSUME ClientInv, RunMoves PROVE ClientInv'
<1>1. PICK n \in DOMAIN runs, state \in RunStates :
        SetState(n, state) /\ runs[n].state # "COMPLETED"
  BY DEF RunMoves, RunStates, Terminal
<1>2. runs' \in Seq(RunRow) /\ Grow /\ RowsOK' /\ AuthorizedRows'
  BY <1>1, StateMove DEF RunMoves, Still
<1> QED
  BY <1>2, EnvironmentMove DEF RunMoves, Still, ClientInv, ClientTypes

\* The API derives the reproduction definition of a run, and moves nothing else.
LEMMA DeriveMove == ASSUME ClientInv, deriveRunForensics PROVE ClientInv'
<1>1. Grow
  BY DEF deriveRunForensics, Grow
<1>2. RowsOK'
  BY DEF deriveRunForensics, Still, ClientInv, RowsOK
<1>3. AuthorizedRows'
  BY DEF deriveRunForensics, ClientInv, AuthorizedRows
<1> QED
  BY <1>1, <1>2, <1>3, EnvironmentMove DEF deriveRunForensics, Still, ClientInv, ClientTypes

\* A process that is killed knows nothing any more.
LEMMA KilledMove == ASSUME ClientInv, NEW c \in Clients, Killed(c) PROVE ClientInv'
<1>1. Idle \in Session
  BY DEF Idle, Session, Commands, Stages
<1>2. SessionOK(Idle)
  BY DEF Idle, SessionOK, Creating, Driving, Completed
<1> QED
  BY <1>1, <1>2, QuietMove DEF Killed, rowVars, Still, ClientInv, ClientTypes

\* A command starts with the configured grants.
LEMMA StartMove == ASSUME ClientInv, NEW c \in Clients, Start(c) PROVE ClientInv'
<1>1. PICK cmd \in IF c = "cli" THEN {"run", "replay", "compare", "validate"} ELSE {"api-run"} :
        \E number, other \in {0} \cup DOMAIN runs :
          /\ cmd = "compare" => 0 \notin {number, other}
          /\ session' = [session EXCEPT ![c] =
               [Idle EXCEPT !.cmd = cmd, !.stage = "started", !.policy = grants,
                            !.number = number, !.other = other]]
  BY Zenon DEF Start
<1>2. PICK number, other \in {0} \cup DOMAIN runs :
        /\ cmd = "compare" => 0 \notin {number, other}
        /\ session' = [session EXCEPT ![c] =
             [Idle EXCEPT !.cmd = cmd, !.stage = "started", !.policy = grants,
                          !.number = number, !.other = other]]
  BY <1>1, Zenon
<1> DEFINE s == [Idle EXCEPT !.cmd = cmd, !.stage = "started", !.policy = grants,
                             !.number = number, !.other = other]
<1>3. /\ number \in Nat /\ other \in Nat /\ grants \in Policies /\ cmd \in Commands
      /\ cmd = "compare" => number \in DOMAIN runs /\ other \in DOMAIN runs
  BY <1>1, <1>2, SessionFacts DEF Commands
<1>4. Idle \in Session
  BY DEF Idle, Session, Commands, Stages
<1>5. /\ s.cmd = cmd /\ s.stage = "started" /\ s.policy = grants /\ s.number = number
      /\ s.other = other /\ s.created = 0
  BY <1>4 DEF Session, Idle
<1>6. s \in Session
  BY <1>3, <1>4 DEF Session, Stages
<1>7. SessionOK(s)
  BY <1>3, <1>5 DEF SessionOK, Creating, Driving, Completed
<1> QED
  BY <1>2, <1>6, <1>7, SessionFacts, QuietMove DEF Start, rowVars

\* A session at another stage, with another number and frozen document.
With(s, stage, number, frozen) == [s EXCEPT !.stage = stage, !.number = number, !.frozen = frozen]

\* A command moves on, and its number and frozen document are what the stage needs.
LEMMA GoOn ==
  ASSUME ClientInv, NEW c \in Clients, NEW stage \in Stages, NEW number \in Nat,
         NEW frozen \in FrozenDocs \cup {Absent}
  PROVE  LET s == With(session[c], stage, number, frozen)
         IN  /\ s \in Session /\ s.stage = stage /\ s.number = number /\ s.frozen = frozen
             /\ s.cmd = session[c].cmd /\ s.created = session[c].created
             /\ s.other = session[c].other /\ s.policy = session[c].policy
<1>1. session[c] \in Session
  BY SessionFacts
<1> QED
  BY <1>1 DEF Session, With

\* Moving on is one update of the session.
LEMMA MoveWithIs ==
  ASSUME NEW c, NEW stage, NEW number, MoveWith(c, stage, number)
  PROVE  session' = [session EXCEPT ![c] = With(session[c], stage, number, Absent)]
BY DEF MoveWith, With

\* The definition is checked before anything is written.
LEMMA CreateExperimentMove ==
  ASSUME ClientInv, NEW c \in Clients, createExperiment(c) PROVE ClientInv'
<1> USE DEF createExperiment
<1>1. /\ session[c].stage = "started" /\ session[c].cmd = "run" /\ session[c].created = 0
      /\ session[c].policy \in Policies
  BY SessionFacts DEF At, SessionOK, Creating
<1>2. CASE Exit(c, 3) /\ UNCHANGED revisions
  BY <1>1, <1>2, ExitMove
<1>3. CASE Exit(c, 4) /\ UNCHANGED revisions
  BY <1>1, <1>3, ExitMove
<1>4. CASE /\ target # Absent /\ revisions' = revisions + 1
           /\ MoveWith(c, "freeze", revisions + 1)
  <2> DEFINE s == With(session[c], "freeze", revisions + 1, Absent)
  <2>1. revisions + 1 \in Nat /\ "freeze" \in Stages
    BY SessionFacts DEF Stages
  <2>2. /\ s \in Session /\ s.stage = "freeze" /\ s.cmd = "run" /\ s.created = 0
        /\ s.policy \in Policies
    BY <1>1, <2>1, GoOn
  <2>3. session' = [session EXCEPT ![c] = s]
    BY <1>4, MoveWithIs
  <2>4. session'[c] = s
    BY <2>3, SessionFacts
  <2>5. SessionOK(session[c])'
    BY <1>4, <2>2, <2>4 DEF SessionOK, Creating, Driving, Completed
  <2>6. Grow
    BY DEF Grow
  <2>7. RowsOK' /\ AuthorizedRows'
    BY <1>4, SessionFacts DEF Still, ClientInv, RowsOK, AuthorizedRows
  <2> HIDE DEF s
  <2> QED
    BY <1>4, <2>1, <2>2, <2>3, <2>5, <2>6, <2>7, SessionFacts, ClientMove DEF Still
<1> QED
  BY <1>2, <1>3, <1>4

\* Validation writes nothing.
LEMMA ValidateMove ==
  ASSUME ClientInv, NEW c \in Clients, validateScenarioAuthoritative(c) PROVE ClientInv'
<1>1. session[c].stage = "started" /\ session[c].cmd = "validate" /\ session[c].created = 0
  BY SessionFacts DEF validateScenarioAuthoritative, At, SessionOK, Creating
<1>2. PICK code \in {0, 3, 4} : Exit(c, code)
  BY DEF validateScenarioAuthoritative
<1> QED
  BY <1>1, <1>2, ExitMove DEF validateScenarioAuthoritative, rowVars

\* The API freezes a stored revision.
LEMMA PickRevisionMove ==
  ASSUME ClientInv, NEW c \in Clients, PickRevision(c) PROVE ClientInv'
<1>1. PICK n \in 1 .. revisions : MoveWith(c, "freeze", n)
  BY DEF PickRevision
<1> DEFINE s == With(session[c], "freeze", n, Absent)
<1>2. n \in Nat /\ revisions > 0 /\ "freeze" \in Stages
  BY SessionFacts DEF Stages
<1>3. /\ session[c].stage = "started" /\ session[c].created = 0 /\ session[c].cmd = "api-run"
      /\ session[c].policy \in Policies /\ target # Absent
  BY <1>2, SessionFacts DEF PickRevision, At, SessionOK, Creating, ClientInv, RowsOK
<1>4. /\ s \in Session /\ s.stage = "freeze" /\ s.created = 0 /\ s.policy \in Policies
      /\ s.cmd = "api-run"
  BY <1>2, <1>3, GoOn
<1>5. SessionOK(s)
  BY <1>3, <1>4 DEF SessionOK, Creating, Driving, Completed
<1>6. session' = [session EXCEPT ![c] = s]
  BY <1>1, MoveWithIs
<1> HIDE DEF s
<1> QED
  BY <1>4, <1>5, <1>6, SessionFacts, QuietMove DEF PickRevision, rowVars, Still

\* A freezable document is looked for by its content; the session's grants cover it.
LEMMA FreezeMove ==
  ASSUME ClientInv, NEW c \in Clients, freezeSnapshot(c) PROVE ClientInv'
<1> DEFINE frozen == buildSnapshotDocument(session[c].policy, target, session[c].number, Doc, Rank)
<1> USE DEF freezeSnapshot
<1>1. /\ session[c].stage = "freeze" /\ session[c].created = 0 /\ target # Absent
      /\ session[c].policy \in Policies /\ session[c].cmd \in {"run", "api-run"}
      /\ session[c].number \in Nat
  BY SessionFacts DEF At, SessionOK, Creating, Session
<1>2. CASE Exit(c, 3)
  BY <1>1, <1>2, ExitMove DEF rowVars
<1>3. ASSUME Freezable(session[c].policy, target, Doc)
      PROVE  frozen \in FrozenDocs /\ CoveredBy(session[c].policy, frozen) /\ Sealed(frozen)
  <2>1. Registered(target) /\ target = TargetRow(input.registration)
    BY <1>1 DEF ClientInv, RowsOK
  <2>2. CoveredBy(session[c].policy, frozen) /\ Sealed(frozen)
    BY <1>3, <2>1, FrozenCovered
  <2>3. input \in Inputs /\ session[c].policy \in Policies /\ session[c].number \in Nat
    BY <1>1, SessionFacts
  <2>4. frozen = buildSnapshotDocument(session[c].policy, TargetRow(input.registration),
                                       session[c].number, input.document, Rank)
    BY <2>1 DEF Doc
  <2>5. frozen \in FrozenDocs
    <3> HIDE DEF frozen
    <3> QED
      BY <2>3, <2>4 DEF FrozenDocs
  <2> QED
    BY <2>2, <2>5
<1>4. CASE /\ Freezable(session[c].policy, target, Doc) /\ Stored(frozen) # {}
           /\ MoveWith(c, "create", CHOOSE n \in Stored(frozen) : TRUE)
  <2> DEFINE n == CHOOSE m \in Stored(frozen) : TRUE
             s == With(session[c], "create", n, Absent)
  <2>1. n \in DOMAIN snapshots /\ snapshots[n] = frozen
    BY <1>4 DEF Stored
  <2>2. n \in Nat /\ "create" \in Stages
    BY <2>1, SessionFacts DEF Stages
  <2>6. session' = [session EXCEPT ![c] = s]
    <3>1. MoveWith(c, "create", n)
      BY <1>4
    <3> HIDE DEF n
    <3> QED
      BY <3>1, MoveWithIs
  <2> HIDE DEF n, frozen
  <2>3. /\ s \in Session /\ s.stage = "create" /\ s.number = n /\ s.created = 0
        /\ s.policy = session[c].policy /\ s.cmd \in {"run", "api-run"}
    BY <1>1, <2>2, GoOn
  <2>4. CoveredBy(s.policy, snapshots[s.number])
    BY <1>3, <1>4, <2>1, <2>3
  <2>5. SessionOK(s)
    BY <1>1, <2>1, <2>3, <2>4 DEF SessionOK, Creating, Driving, Completed
  <2> HIDE DEF s
  <2> QED
    BY <2>3, <2>5, <2>6, SessionFacts, QuietMove DEF rowVars, Still
<1>5. CASE /\ Freezable(session[c].policy, target, Doc)
           /\ session' = [session EXCEPT ![c].stage = "insert", ![c].frozen = frozen]
  <2> DEFINE s == With(session[c], "insert", session[c].number, frozen)
  <2>1. frozen \in FrozenDocs \cup {Absent} /\ "insert" \in Stages
    BY <1>3, <1>5 DEF Stages
  <2>0. session' = [session EXCEPT ![c] = [session[c] EXCEPT !.stage = "insert", !.frozen = frozen]]
    BY <1>5
  <2> HIDE DEF frozen
  <2>2. /\ s \in Session /\ s.stage = "insert" /\ s.frozen = frozen /\ s.created = 0
        /\ s.policy = session[c].policy /\ s.cmd \in {"run", "api-run"}
    BY <1>1, <2>1, GoOn
  <2>3. SessionOK(s)
    BY <1>1, <1>3, <1>5, <2>2 DEF SessionOK, Creating, Driving, Completed
  <2>4. s = [session[c] EXCEPT !.stage = "insert", !.frozen = frozen]
    <3>1. session[c] \in Session
      BY SessionFacts
    <3> QED
      BY <3>1 DEF Session, With
  <2>5. session' = [session EXCEPT ![c] = s]
    BY <2>0, <2>4
  <2> HIDE DEF s
  <2> QED
    BY <2>2, <2>3, <2>5, SessionFacts, QuietMove DEF rowVars, Still
<1> HIDE DEF frozen
<1> QED
  BY <1>2, <1>4, <1>5 DEF frozen

\* A new document is appended; the content hash has refused what is already stored.
LEMMA InsertMove ==
  ASSUME ClientInv, NEW c \in Clients, insertSnapshot(c) PROVE ClientInv'
<1> USE DEF insertSnapshot
<1> DEFINE z == session[c].frozen
           s == With(session[c], "create", Len(snapshots) + 1, Absent)
<1>1. /\ session[c].stage = "insert" /\ session[c].created = 0 /\ target # Absent
      /\ session[c].policy \in Policies /\ session[c].cmd \in {"run", "api-run"}
      /\ z \in FrozenDocs /\ CoveredBy(session[c].policy, z) /\ Sealed(z)
  BY SessionFacts DEF At, SessionOK, Creating
<1>2. CASE Exit(c, 3) /\ UNCHANGED snapshots
  BY <1>1, <1>2, ExitMove
<1>3. CASE snapshots' = Append(snapshots, z) /\ MoveWith(c, "create", Len(snapshots) + 1)
  <2>1. /\ snapshots' \in Seq(FrozenDocs) /\ Len(snapshots) + 1 \in Nat /\ "create" \in Stages
        /\ DOMAIN snapshots = 1 .. Len(snapshots)
        /\ DOMAIN snapshots' = 1 .. Len(snapshots) + 1
        /\ \A n \in DOMAIN snapshots : snapshots'[n] = snapshots[n]
        /\ snapshots'[Len(snapshots) + 1] = z
    BY <1>1, <1>3, SessionFacts DEF Stages
  <2>2. session' = [session EXCEPT ![c] = s]
    BY <1>3, MoveWithIs
  <2>3. /\ s \in Session /\ s.stage = "create" /\ s.number = Len(snapshots) + 1 /\ s.created = 0
        /\ s.policy = session[c].policy /\ s.cmd \in {"run", "api-run"}
    <3>1. PICK m \in Nat : m = Len(snapshots) + 1
      BY <2>1
    <3>2. "create" \in Stages
      BY <2>1
    <3>3. With(session[c], "create", m, Absent) = s
      BY <3>1
    <3> HIDE DEF s
    <3> QED
      BY <1>1, <3>1, <3>2, <3>3, GoOn
  <2>4. session'[c] = s
    BY <2>2, SessionFacts
  <2> HIDE DEF s, z
  <2>5. s.number \in DOMAIN snapshots' /\ CoveredBy(s.policy, snapshots'[s.number])
    BY <1>1, <2>1, <2>3, SessionFacts
  <2>6. SessionOK(session[c])'
    BY <1>1, <2>3, <2>4, <2>5 DEF SessionOK, Creating, Driving, Completed
  <2>7. Grow
    BY <2>1, SessionFacts DEF Grow
  <2>8. RowsOK'
    <3>1. \A n \in DOMAIN snapshots' : n \in DOMAIN snapshots \/ n = Len(snapshots) + 1
      BY <2>1, SessionFacts
    <3>2. \A n \in DOMAIN snapshots' : Sealed(snapshots'[n])
      BY <1>1, <2>1, <3>1 DEF ClientInv, RowsOK
    <3>3. \A n \in DOMAIN runs : runs[n].snapshot \in DOMAIN snapshots'
      BY <2>7 DEF Grow, ClientInv, RowsOK
    <3> QED
      BY <3>2, <3>3 DEF ClientInv, RowsOK, Still
  <2>9. AuthorizedRows'
    BY <2>1 DEF ClientInv, RowsOK, AuthorizedRows
  <2> QED
    BY <2>1, <2>2, <2>3, <2>6, <2>7, <2>8, <2>9, SessionFacts, ClientMove DEF Still
<1> HIDE DEF z
<1> QED
  BY <1>2, <1>3 DEF z

\* A run that is added is within the authority of the session that adds it.
LEMMA AddMove ==
  ASSUME ClientInv, NEW c \in Clients, NEW n \in DOMAIN snapshots, NEW replayed \in Nat,
         AddRun(c, n, replayed),
         UNCHANGED <<target, revisions, snapshots, reproductions>>, Still,
         session[c].policy \in Policies, session[c].cmd # "compare",
         snapshots[n].environment # "PRODUCTION", Sealed(snapshots[n]),
         CoveredBy(session[c].policy, snapshots[n]),
         replayed # 0 => /\ replayed \in DOMAIN runs /\ runs[replayed].snapshot = n
                         /\ snapshots[n].refs \subseteq Granted(session[c].policy, snapshots[n])
  PROVE  ClientInv'
<1> DEFINE r == [snapshot |-> n, state |-> "SNAPSHOT_PINNED", replays |-> replayed,
                 by |-> session[c].policy]
           stage == IF session[c].cmd = "api-run" THEN "exited" ELSE "dispatch"
           s == [session[c] EXCEPT !.stage = stage, !.number = Len(runs) + 1,
                                   !.created = Len(runs) + 1]
<1>1. r \in RunRow
  BY SessionFacts DEF RunRow, RunStates
<1>2. /\ runs' \in Seq(RunRow) /\ Len(runs) + 1 \in Nat
      /\ DOMAIN runs = 1 .. Len(runs) /\ DOMAIN runs' = 1 .. Len(runs) + 1
      /\ \A m \in DOMAIN runs : runs'[m] = runs[m]
      /\ runs'[Len(runs) + 1] = r
  BY <1>1, SessionFacts DEF AddRun
<1>3. session[c] \in Session /\ stage \in Stages
  BY SessionFacts DEF Stages
<1>4. /\ s \in Session /\ s.stage = stage /\ s.number = Len(runs) + 1
      /\ s.created = Len(runs) + 1 /\ s.cmd = session[c].cmd
  <2> HIDE DEF stage
  <2> QED
    BY <1>2, <1>3 DEF Session
<1>5. session' = [session EXCEPT ![c] = s]
  BY DEF AddRun
<1>6. session'[c] = s
  BY <1>5, SessionFacts
<1> HIDE DEF s
<1>7. SessionOK(session[c])'
  BY <1>2, <1>4, <1>6, SessionFacts DEF SessionOK, Exited, Creating, Driving, Completed
<1>8. Grow
  BY <1>2, SessionFacts DEF Grow
<1>9. \A m \in DOMAIN runs' : m \in DOMAIN runs \/ m = Len(runs) + 1
  BY <1>2, SessionFacts
<1>10. RowsOK'
  <2>1. r.snapshot \in DOMAIN snapshots /\ (r.replays # 0 => r.replays \in DOMAIN runs)
    OBVIOUS
  <2> HIDE DEF r
  <2>2. \A m \in DOMAIN runs' : runs'[m].snapshot \in DOMAIN snapshots
    BY <1>2, <1>9, <2>1 DEF ClientInv, RowsOK
  <2>3. \A m \in DOMAIN runs' : runs'[m].replays # 0 => runs'[m].replays \in DOMAIN runs'
    BY <1>2, <1>9, <1>8, <2>1 DEF ClientInv, RowsOK, Grow
  <2>4. \A m \in reproductions : m \in DOMAIN runs'
    BY <1>8 DEF ClientInv, RowsOK, Grow
  <2> QED
    BY <2>2, <2>3, <2>4 DEF ClientInv, RowsOK, Still
<1>11. AuthorizedRows'
  <2>1. Authorized(r, snapshots[n])
    BY DEF Authorized, CoveredBy, Sealed
  <2>2. ASSUME NEW m \in DOMAIN runs
        PROVE  /\ Authorized(runs'[m], snapshots'[runs'[m].snapshot])
               /\ runs'[m].replays # 0 =>
                    runs'[runs'[m].replays].snapshot = runs'[m].snapshot
    BY <1>2, <2>2 DEF ClientInv, RowsOK, AuthorizedRows
  <2>3. /\ Authorized(r, snapshots'[r.snapshot])
        /\ r.replays # 0 => runs'[r.replays].snapshot = r.snapshot
    BY <1>2, <2>1
  <2> HIDE DEF r
  <2> QED
    BY <1>2, <1>9, <2>2, <2>3 DEF AuthorizedRows
<1> QED
  BY <1>2, <1>4, <1>5, <1>7, <1>8, <1>10, <1>11, SessionFacts, ClientMove DEF Still

\* Facts about a session that moves to a stage, and about one that exits.
LEMMA MoveIs ==
  ASSUME ClientInv, NEW c \in Clients, NEW stage \in Stages, Move(c, stage)
  PROVE  \E s \in Session :
           /\ session' = [session EXCEPT ![c] = s] /\ s.stage = stage
           /\ s.cmd = session[c].cmd /\ s.number = session[c].number
           /\ s.created = session[c].created
<1> DEFINE s == [session[c] EXCEPT !.stage = stage]
<1>1. session[c] \in Session
  BY SessionFacts
<1>2. /\ s \in Session /\ s.stage = stage
      /\ s.cmd = session[c].cmd /\ s.number = session[c].number
      /\ s.created = session[c].created
  BY <1>1 DEF Session
<1>3. session' = [session EXCEPT ![c] = s]
  BY DEF Move
<1> QED
  BY <1>2, <1>3

LEMMA ExitIs ==
  ASSUME ClientInv, NEW c \in Clients, NEW code \in 0 .. 4, Exit(c, code)
  PROVE  \E s \in Session :
           /\ session' = [session EXCEPT ![c] = s] /\ s.stage = "exited" /\ s.exit = code
           /\ s.cmd = session[c].cmd /\ s.number = session[c].number
           /\ s.other = session[c].other
           /\ s.created = session[c].created /\ s.truth = session[c].truth
<1> DEFINE s == [session[c] EXCEPT !.stage = "exited", !.exit = code, !.frozen = Absent]
<1>1. session[c] \in Session
  BY SessionFacts
<1>2. /\ s \in Session /\ s.stage = "exited" /\ s.exit = code
      /\ s.cmd = session[c].cmd /\ s.number = session[c].number
      /\ s.other = session[c].other
      /\ s.created = session[c].created /\ s.truth = session[c].truth
  BY <1>1 DEF Session, Stages
<1>3. session' = [session EXCEPT ![c] = s]
  BY DEF Exit
<1> QED
  BY <1>2, <1>3

\* A run of a PRODUCTION snapshot is not created.
LEMMA CreateRunMove ==
  ASSUME ClientInv, NEW c \in Clients, createRun(c) PROVE ClientInv'
<1> USE DEF createRun
<1>1. /\ session[c].stage = "create" /\ session[c].created = 0
      /\ session[c].policy \in Policies /\ session[c].cmd \in {"run", "api-run"}
      /\ session[c].number \in DOMAIN snapshots
      /\ CoveredBy(session[c].policy, snapshots[session[c].number])
      /\ Sealed(snapshots[session[c].number])
  BY SessionFacts DEF At, SessionOK, Creating, ClientInv, RowsOK
<1>2. CASE Exit(c, 4) /\ UNCHANGED runs
  BY <1>1, <1>2, ExitMove
<1>3. CASE /\ snapshots[session[c].number].environment # "PRODUCTION"
           /\ AddRun(c, session[c].number, 0)
  <2>1. 0 \in Nat /\ session[c].cmd # "compare"
    BY <1>1
  <2> QED
    BY <1>1, <1>3, <2>1, AddMove
<1> QED
  BY <1>2, <1>3

\* A replay is of the snapshot of an existing run, and covered by the grants it was captured with.
LEMMA ExecuteReplayMove ==
  ASSUME ClientInv, NEW c \in Clients, executeReplay(c) PROVE ClientInv'
<1> USE DEF executeReplay
<1> DEFINE n == session[c].number
           z == snapshots[runs[n].snapshot]
<1>1. /\ session[c].stage = "started" /\ session[c].created = 0
      /\ session[c].policy \in Policies /\ session[c].cmd = "replay"
  BY SessionFacts DEF At, SessionOK, Creating
<1>2. CASE Exit(c, 4) /\ UNCHANGED runs
  BY <1>1, <1>2, ExitMove
<1>3. CASE /\ n \in reproductions /\ validateReplayBinding(session[c].policy, z)
           /\ AddRun(c, runs[n].snapshot, n)
  <2>1. n \in DOMAIN runs /\ runs[n].snapshot \in DOMAIN snapshots
    BY <1>3 DEF ClientInv, RowsOK
  <2>2. n \in Nat
    BY <2>1, SessionFacts
  <2>3. z.refs \subseteq Granted(session[c].policy, z)
    BY <1>3 DEF validateReplayBinding, RefsAuthorized, authorizedRefsForTarget, GrantedTo, Granted
  <2>4. z.environment # "PRODUCTION" /\ CoveredBy(session[c].policy, z) /\ Sealed(z)
    BY <1>3, <2>1, <2>3 DEF validateReplayBinding, CoveredBy, ClientInv, RowsOK
  <2> QED
    BY <1>1, <1>3, <2>1, <2>2, <2>3, <2>4, AddMove
<1> QED
  BY <1>2, <1>3

\* Dispatching moves a pinned run; the command goes on with it, or ends.
LEMMA DispatchMove ==
  ASSUME ClientInv, NEW c \in Clients, dispatchRun(c) PROVE ClientInv'
<1> USE DEF dispatchRun
<1> DEFINE n == session[c].number
           state == IF runs[n].state = "SNAPSHOT_PINNED" THEN "DISPATCHING" ELSE runs[n].state
<1>1. /\ session[c].stage = "dispatch" /\ session[c].cmd \in {"run", "replay"}
      /\ n = session[c].created /\ n \in DOMAIN runs
  BY SessionFacts DEF At, SessionOK, Driving
<1>2. runs[n] \in RunRow
  BY <1>1, SessionFacts
<1>3. state \in RunStates /\ SetState(n, state) /\ (runs[n].state = "COMPLETED" => state = "COMPLETED")
  BY <1>2 DEF RunRow, RunStates
<1> HIDE DEF state, n
<1>4. runs' \in Seq(RunRow) /\ Grow /\ RowsOK' /\ AuthorizedRows'
  BY <1>1, <1>3, StateMove DEF Still
<1>5. PICK s \in Session :
        /\ session' = [session EXCEPT ![c] = s]
        /\ s.cmd = session[c].cmd /\ s.number = n /\ s.created = n
        /\ \/ s.stage = "wait"
           \/ s.stage = "exited" /\ s.exit = 3
  <2>1. CASE Move(c, "wait")
    BY <1>1, <2>1, MoveIs DEF Stages, n
  <2>2. CASE Exit(c, 3)
    BY <1>1, <2>2, ExitIs DEF n
  <2> QED
    BY <2>1, <2>2
<1>6. session'[c] = s
  BY <1>5, SessionFacts
<1>7. SessionOK(session[c])'
  BY <1>1, <1>4, <1>5, <1>6 DEF SessionOK, Exited, Grow, Creating, Driving, Completed
<1> QED
  BY <1>4, <1>5, <1>7, SessionFacts, ClientMove DEF Still

\* The wait ends with a completed run, or the command does.
LEMMA WaitMove ==
  ASSUME ClientInv, NEW c \in Clients, waitForRunTerminal(c) PROVE ClientInv'
<1> USE DEF waitForRunTerminal
<1>1. /\ session[c].stage = "wait" /\ session[c].cmd \in {"run", "replay"}
      /\ session[c].number = session[c].created /\ session[c].created \in DOMAIN runs
  BY SessionFacts DEF At, SessionOK, Driving
<1>2. CASE runs[session[c].number].state = "COMPLETED" /\ Move(c, "analyze")
  <2>1. PICK s \in Session :
          /\ session' = [session EXCEPT ![c] = s] /\ s.stage = "analyze"
          /\ s.cmd = session[c].cmd /\ s.number = session[c].number
          /\ s.created = session[c].created
    BY <1>2, MoveIs DEF Stages
  <2>2. SessionOK(s)
    BY <1>1, <1>2, <2>1 DEF SessionOK, Creating, Driving, Completed
  <2> QED
    BY <2>1, <2>2, SessionFacts, QuietMove DEF rowVars, Still
<1>3. CASE Exit(c, 3)
  BY <1>1, <1>3, ExitMove DEF rowVars
<1> QED
  BY <1>2, <1>3

\* The run of a command that analyzes has completed, so its reproduction is of a completed run.
LEMMA AnalyzeMove ==
  ASSUME ClientInv, NEW c \in Clients, analyzeRun(c) PROVE ClientInv'
<1> USE DEF analyzeRun
<1>1. /\ session[c].stage = "analyze" /\ session[c].cmd \in {"run", "replay"}
      /\ session[c].number = session[c].created /\ session[c].created \in DOMAIN runs
      /\ runs[session[c].created].state = "COMPLETED"
  BY SessionFacts DEF At, SessionOK, Driving, Completed
<1>2. Grow
  BY DEF Grow
<1>3. RowsOK' /\ AuthorizedRows'
  BY <1>1 DEF ClientInv, RowsOK, AuthorizedRows, Still
<1>4. PICK s \in Session :
        /\ session' = [session EXCEPT ![c] = s]
        /\ s.cmd = session[c].cmd /\ s.number = session[c].number
        /\ s.created = session[c].created
        /\ \/ s.stage = "authorize"
           \/ s.stage = "exited" /\ s.exit = 3
  <2>1. CASE Move(c, "authorize")
    BY <2>1, MoveIs DEF Stages
  <2>2. CASE Exit(c, 3)
    BY <2>2, ExitIs
  <2> QED
    BY <2>1, <2>2
<1>5. session'[c] = s
  BY <1>4, SessionFacts
<1>6. SessionOK(session[c])'
  BY <1>1, <1>4, <1>5 DEF SessionOK, Exited, Creating, Driving, Completed
<1> QED
  BY <1>2, <1>3, <1>4, <1>6, SessionFacts, ClientMove DEF Still

\* What is decided about a run is decided about one coherent published state.
LEMMA DecisionAgrees ==
  ASSUME NEW n, NEW d \in Decisions(n)
  PROVE  /\ d.exit \in 0 .. 3
         /\ d.truth \in [holds : BOOLEAN, fails : BOOLEAN]
         /\ d.exit = 0 => d.truth.holds /\ ~d.truth.fails
         /\ d.exit = 1 => d.truth.fails
         /\ d.exit = 2 => ~d.truth.holds /\ ~d.truth.fails
<1>1. PICK bound \in DOMAIN Published : \E f \in Published[bound] :
        d = [disposition |-> disposition(f, bound), verified |-> f.chain = "intact",
             exit |-> classifyExit(f, bound),
             truth |-> [holds |-> Holds(f, bound), fails |-> Fails(f, bound)]]
  BY DEF Decisions
<1>2. PICK f \in Published[bound] :
        d = [disposition |-> disposition(f, bound), verified |-> f.chain = "intact",
             exit |-> classifyExit(f, bound),
             truth |-> [holds |-> Holds(f, bound), fails |-> Fails(f, bound)]]
  BY <1>1
<1>3. Coherent(f, bound)
  BY <1>1, PublishedAssumption
<1>4. /\ classifyExit(f, bound) \in 0 .. 3
      /\ classifyExit(f, bound) = 0 => Holds(f, bound) /\ ~Fails(f, bound)
      /\ classifyExit(f, bound) = 1 => Fails(f, bound)
      /\ classifyExit(f, bound) = 2 => ~Holds(f, bound) /\ ~Fails(f, bound)
  BY <1>3, ExitClassTruthful
<1>5. Holds(f, bound) \in BOOLEAN /\ Fails(f, bound) \in BOOLEAN
  BY DEF Holds, Fails
<1>6. /\ d.exit = classifyExit(f, bound)
      /\ d.truth = [holds |-> Holds(f, bound), fails |-> Fails(f, bound)]
      /\ d.truth.holds = Holds(f, bound) /\ d.truth.fails = Fails(f, bound)
  BY <1>2
<1> QED
  BY <1>4, <1>5, <1>6

\* A report is of a decision; a refusal may be decided again.
LEMMA AuthorizeMove ==
  ASSUME ClientInv, NEW c \in Clients, authorizeReport(c) PROVE ClientInv'
<1>1. /\ session[c].stage = "authorize" /\ session[c].cmd \in {"run", "replay"}
      /\ session[c].number = session[c].created /\ session[c].created \in DOMAIN runs
      /\ runs[session[c].created].state = "COMPLETED" /\ session[c] \in Session
  BY SessionFacts DEF authorizeReport, At, SessionOK, Driving, Completed
<1>2. CASE Exit(c, 3)
  BY <1>1, <1>2, ExitMove DEF authorizeReport, rowVars
<1>3. CASE AnalyzeAgain(c)
  <2> DEFINE s == [session[c] EXCEPT !.tries = @ + 1]
  <2>1. /\ s \in Session /\ s.stage = "authorize" /\ s.cmd = session[c].cmd
        /\ s.number = session[c].number /\ s.created = session[c].created
    BY <1>1 DEF Session
  <2>2. SessionOK(s)
    BY <1>1, <2>1 DEF SessionOK, Creating, Driving, Completed
  <2>3. session' = [session EXCEPT ![c] = s]
    BY <1>3 DEF AnalyzeAgain
  <2> HIDE DEF s
  <2> QED
    BY <2>1, <2>2, <2>3, SessionFacts, QuietMove DEF authorizeReport, rowVars, Still
<1>4. ASSUME NEW d \in Decisions(session[c].number), Report(c, d)
      PROVE  ClientInv'
  <2> DEFINE s == [session[c] EXCEPT !.stage = "report", !.exit = d.exit, !.truth = d.truth]
  <2>2. /\ d.exit \in 0 .. 3 /\ d.truth \in [holds : BOOLEAN, fails : BOOLEAN]
        /\ d.exit = 0 => d.truth.holds /\ ~d.truth.fails
        /\ d.exit = 1 => d.truth.fails
        /\ d.exit = 2 => ~d.truth.holds /\ ~d.truth.fails
    BY DecisionAgrees
  <2>3. d.exit \in (0 .. 4) \cup {Absent}
    BY <2>2
  <2>4. /\ s \in Session /\ s.stage = "report" /\ s.cmd = session[c].cmd
        /\ s.number = session[c].number /\ s.created = session[c].created
        /\ s.exit = d.exit /\ s.truth = d.truth
    BY <1>1, <2>2, <2>3 DEF Session, Stages
  <2>5. SessionOK(s)
    BY <1>1, <2>2, <2>4 DEF SessionOK, Agree, Creating, Driving, Completed
  <2>6. session' = [session EXCEPT ![c] = s]
    BY <1>4 DEF Report
  <2> HIDE DEF s
  <2> QED
    BY <2>4, <2>5, <2>6, SessionFacts, QuietMove DEF authorizeReport, rowVars, Still
<1> QED
  BY <1>2, <1>3, <1>4 DEF authorizeReport

\* The reported exit status is the decided one, or 3.
LEMMA EmitMove ==
  ASSUME ClientInv, NEW c \in Clients, emitOutcome(c) PROVE ClientInv'
<1> USE DEF emitOutcome
<1>1. /\ session[c].stage = "report" /\ session[c].cmd \in {"run", "replay"}
      /\ session[c].created \in DOMAIN runs /\ runs[session[c].created].state = "COMPLETED"
      /\ Agree(session[c]) /\ session[c].created \in Nat \ {0}
  BY SessionFacts DEF At, SessionOK, Driving, Completed
<1>2. CASE Exit(c, 3)
  BY <1>1, <1>2, ExitMove DEF rowVars
<1>3. CASE Exit(c, session[c].exit)
  <2>1. session[c].exit \in 0 .. 4
    BY <1>1 DEF Agree
  <2>2. PICK s \in Session :
          /\ session' = [session EXCEPT ![c] = s] /\ s.stage = "exited"
          /\ s.exit = session[c].exit /\ s.cmd = session[c].cmd
          /\ s.created = session[c].created /\ s.truth = session[c].truth
    BY <1>3, <2>1, ExitIs
  <2>3. SessionOK(s)
    BY <1>1, <2>2 DEF SessionOK, Exited, Agree, Creating, Driving, Completed
  <2> QED
    BY <2>2, <2>3, SessionFacts, QuietMove DEF rowVars, Still
<1> QED
  BY <1>2, <1>3

\* A comparison that exits 0 was of two completed runs of one snapshot.
LEMMA CompareMove ==
  ASSUME ClientInv, NEW c \in Clients, compareReplayRuns(c) PROVE ClientInv'
<1> USE DEF compareReplayRuns
<1>1. /\ session[c].stage = "started" /\ session[c].cmd = "compare" /\ session[c].created = 0
      /\ session[c].number \in DOMAIN runs /\ session[c].other \in DOMAIN runs
  BY SessionFacts DEF At, SessionOK, Creating
<1>2. CASE Exit(c, 3) \/ Exit(c, 4)
  BY <1>1, <1>2, ExitMove DEF rowVars
<1>3. CASE /\ Exit(c, 0) /\ Comparable(session[c].number, session[c].other)
           /\ \A n \in {session[c].number, session[c].other} : runs[n].state = "COMPLETED"
  <2>1. PICK s \in Session :
          /\ session' = [session EXCEPT ![c] = s] /\ s.stage = "exited"
          /\ s.exit = 0 /\ s.cmd = "compare" /\ s.created = 0
          /\ s.number = session[c].number /\ s.other = session[c].other
    BY <1>1, <1>3, ExitIs
  <2>2. SessionOK(s)
    BY <1>1, <1>3, <2>1 DEF SessionOK, Exited, Comparable, Creating, Driving, Completed
  <2> QED
    BY <2>1, <2>2, SessionFacts, QuietMove DEF rowVars, Still
<1> QED
  BY <1>2, <1>3

\* Every step preserves the invariant.
LEMMA ClientStep == ClientInv /\ [ClientNext]_clientVars => ClientInv'
<1> SUFFICES ASSUME ClientInv, [ClientNext]_clientVars PROVE ClientInv'
  OBVIOUS
<1>1. CASE registerTarget
  BY <1>1, RegisterMove
<1>2. CASE Reconfigure
  BY <1>2, ReconfigureMove
<1>3. CASE RunMoves
  BY <1>3, RunMovesMove
<1>6. CASE deriveRunForensics
  BY <1>6, DeriveMove
<1>4. ASSUME NEW c \in Clients, ClientAction(c) PROVE ClientInv'
  BY <1>4, StartMove, CreateExperimentMove, ValidateMove, PickRevisionMove, FreezeMove,
     InsertMove, CreateRunMove, ExecuteReplayMove, DispatchMove, WaitMove, AnalyzeMove,
     AuthorizeMove, EmitMove, CompareMove, KilledMove DEF ClientAction
<1>5. CASE UNCHANGED clientVars
  <2>1. Grow
    BY <1>5 DEF clientVars, rowVars, Grow
  <2>2. RowsOK' /\ AuthorizedRows'
    BY <1>5 DEF clientVars, rowVars, ClientInv, RowsOK, AuthorizedRows
  <2> QED
    BY <1>5, <2>1, <2>2, SessionFacts, EnvironmentMove DEF clientVars, rowVars, Clients
<1> QED
  BY <1>1, <1>2, <1>3, <1>4, <1>5, <1>6 DEF ClientNext

\* No process ever creates a run beyond its own authority (snapshot.ts,
\* create-run.ts, replay.ts), for any grants, registrations and documents.
THEOREM RunsAuthorizedCorrect == ClientSpec => []RunsAuthorized
<1>1. ClientInv => RunsAuthorized
  BY DEF ClientInv, AuthorizedRows, Authorized, Granted, RunsAuthorized
<1> QED
  BY <1>1, ClientInitInv, ClientStep, PTL DEF ClientSpec

\* The exit status of every command is the truth about the run it created
\* (orchestrator.ts, exit-code.ts), whatever coherent rows were published for it.
THEOREM ExitTruthfulCorrect == ClientSpec => []ExitTruthful
<1>1. ClientInv => ExitTruthful
  BY DEF ClientInv, SessionOK, Exited, ExitTruthful
<1> QED
  BY <1>1, ClientInitInv, ClientStep, PTL DEF ClientSpec

-----------------------------------------------------------------------------
(***************************************************************************)
(* What is frozen can be evaluated.  The validators look at roles, at      *)
(* queries and at the scope separately; the manifest ties a query to its   *)
(* role and the scope ties a field to one type on every surface.           *)
(***************************************************************************)
\* The evidence policy of a target with the manifest m.
Evidence(m) == [nodes |-> KeptNodes(m), edges |-> m.edges, queries |-> KeptQueries(m),
                sensitive |-> m.sensitive]

\* What a role declares, every query bound to the role delivers, with its type.
LEMMA RoleRead ==
  ASSUME NEW m, QueriesBound(m), NEW role, NEW f, NEW types, OnRole(Evidence(m), role, f, types),
         NEW q \in KeptQueries(m), q.role = role
  PROVE  Readable(q, f, types) /\ q.fields[f] = RoleType(Evidence(m), role, f)
<1> DEFINE n == NodeOf(KeptNodes(m), role)
<1>1. Evidence(m).nodes = KeptNodes(m)
  BY DEF Evidence
<1>2. role \in Roles(KeptNodes(m)) /\ Declares(n, f, types)
  BY <1>1 DEF OnRole, requireRole
<1>3. n \in KeptNodes(m) /\ n.role = role
  BY <1>2 DEF NodeOf, Roles
<1>4. CarriesRole(q, n)
  BY <1>3 DEF QueriesBound
<1> QED
  BY <1>1, <1>2, <1>4 DEF CarriesRole, Declares, Readable, RoleType

\* What a query declares is read of that query.
LEMMA QueryRead ==
  ASSUME NEW m, NEW id, NEW f, NEW types, OnQuery(Evidence(m), id, f, types)
  PROVE  LET q == QueryOf(Evidence(m), id)
         IN  q \in KeptQueries(m) /\ q.id = id /\ Readable(q, f, types)
<1>1. Evidence(m).queries = KeptQueries(m)
  BY DEF Evidence
<1> QED
  BY <1>1 DEF OnQuery, QueryOf, Declares, Readable

\* A field that has one type wherever it is declared has it on every query.
LEMMA TypedRead ==
  ASSUME NEW m, NEW f, NEW types, declaredTypesOf(Evidence(m), f) \subseteq types,
         NEW q \in KeptQueries(m), Readable(q, f, AnyType)
  PROVE  Readable(q, f, types)
<1>1. Evidence(m).queries = KeptQueries(m) /\ Evidence(m).nodes = KeptNodes(m)
  BY DEF Evidence
<1>2. q.fields[f] \in declaredTypesOf(Evidence(m), f)
  BY <1>1 DEF declaredTypesOf, Readable
<1> QED
  BY <1>2 DEF Readable

\* The scope of an instance is read as strings and an integer on every query bound to its
\* roles, and on the summary.
LEMMA ScopeRead ==
  ASSUME NEW m, QueriesBound(m), NEW i, ScopePairComparable(Evidence(m), i), NEW roles,
         validateScopeBinding(Evidence(m), i.params.scope, roles, i.params.proof.query)
  PROVE  LET generation == i.params.scope.generation
             q0 == QueryOf(Evidence(m), i.params.proof.query)
         IN  /\ \A q \in KeptQueries(m) : q.role \in roles =>
                  /\ \A f \in i.params.scope.fields : Readable(q, f, {"string"})
                  /\ Readable(q, generation, {"integer-minor-units"})
             /\ q0 \in KeptQueries(m) /\ q0.id = i.params.proof.query
             /\ \A f \in i.params.scope.fields : Readable(q0, f, {"string"})
             /\ Readable(q0, generation, {"integer-minor-units"})
<1> DEFINE scope == i.params.scope
           q0 == QueryOf(Evidence(m), i.params.proof.query)
<1>1. /\ \A f \in scope.fields : declaredTypesOf(Evidence(m), f) \subseteq {"string"}
      /\ scope.generation # Absent
      /\ declaredTypesOf(Evidence(m), scope.generation) \subseteq {"integer-minor-units"}
  BY DEF ScopePairComparable
<1>2. ScopeFields(scope) = scope.fields \cup {scope.generation}
  BY <1>1 DEF ScopeFields
<1>3. \A f \in scope.fields \cup {scope.generation} :
        /\ \A r \in roles : OnRole(Evidence(m), r, f, AnyType)
        /\ OnQuery(Evidence(m), i.params.proof.query, f, AnyType)
  BY <1>2 DEF validateScopeBinding
<1>4. ASSUME NEW q \in KeptQueries(m), q.role \in roles
      PROVE  /\ \A f \in scope.fields : Readable(q, f, {"string"})
             /\ Readable(q, scope.generation, {"integer-minor-units"})
  <2>1. \A f \in scope.fields \cup {scope.generation} : Readable(q, f, AnyType)
    BY <1>3, <1>4, RoleRead
  <2> QED
    BY <1>1, <2>1, TypedRead
<1>5. /\ q0 \in KeptQueries(m) /\ q0.id = i.params.proof.query
      /\ \A f \in scope.fields \cup {scope.generation} : Readable(q0, f, AnyType)
  BY <1>3, QueryRead
<1>6. /\ \A f \in scope.fields : Readable(q0, f, {"string"})
      /\ Readable(q0, scope.generation, {"integer-minor-units"})
  BY <1>1, <1>5, TypedRead
<1> QED
  BY <1>4, <1>5, <1>6

\* An instance of at most one effect: subject and effect are read as they are declared.
LEMMA AtMostOneReads ==
  ASSUME NEW m, QueriesBound(m), NEW i, i.kind = "atMostOneAcceptedEffect",
         validateAtMostOneParams(Evidence(m), i.params), ScopePairComparable(Evidence(m), i),
         NEW read \in Reads(i), NEW q \in KeptQueries(m), q.role = read[1]
  PROVE  Readable(q, read[2], read[3])
<1> DEFINE p == i.params
           roles == {p.subjectRole, p.effectRole}
           scoped == UNION {{<<r, f, {"string"}>> : f \in p.scope.fields}
                              \cup {<<r, p.scope.generation, {"integer-minor-units"}>>} : r \in roles}
           subject == {<<p.subjectRole, f, FieldTypes>> : f \in p.equivalence \cup {p.subjectIdentityField}}
           effect == {<<p.effectRole, f, FieldTypes>> :
                        f \in p.equivalence \cup {p.effectIdentityField, p.match.field}}
<1>1. Reads(i) = scoped \cup (subject \cup effect)
  BY DEF Reads
<1>2. /\ validateScopeBinding(Evidence(m), p.scope, roles, p.proof.query)
      /\ \A f \in p.equivalence \cup {p.subjectIdentityField} :
           OnRole(Evidence(m), p.subjectRole, f, FieldTypes)
      /\ \A f \in p.equivalence \cup {p.effectIdentityField, p.match.field} :
           OnRole(Evidence(m), p.effectRole, f, FieldTypes)
  BY DEF validateAtMostOneParams, EquivalenceAcceptable, validateAcceptedMatch, AnyType
<1>3. CASE read \in scoped
  <2>1. PICK r \in roles : \/ \E f \in p.scope.fields : read = <<r, f, {"string"}>>
                           \/ read = <<r, p.scope.generation, {"integer-minor-units"}>>
    BY <1>3
  <2>2. /\ \A f \in p.scope.fields : q.role \in roles => Readable(q, f, {"string"})
        /\ q.role \in roles => Readable(q, p.scope.generation, {"integer-minor-units"})
    BY <1>2, ScopeRead
  <2> HIDE DEF roles
  <2> QED
    BY <2>1, <2>2
<1>4. CASE read \in subject
  <2>1. PICK f \in p.equivalence \cup {p.subjectIdentityField} :
          read = <<p.subjectRole, f, FieldTypes>>
    BY <1>4
  <2>2. q.role = p.subjectRole /\ read[2] = f /\ read[3] = FieldTypes
    BY <2>1
  <2> QED
    BY <1>2, <2>2, RoleRead
<1>5. CASE read \in effect
  <2>1. PICK f \in p.equivalence \cup {p.effectIdentityField, p.match.field} :
          read = <<p.effectRole, f, FieldTypes>>
    BY <1>5
  <2>2. q.role = p.effectRole /\ read[2] = f /\ read[3] = FieldTypes
    BY <2>1
  <2> QED
    BY <1>2, <2>2, RoleRead
<1> QED
  BY <1>1, <1>3, <1>4, <1>5

\* An instance of resource conservation: the units are integers on all three roles.
LEMMA ConservationReads ==
  ASSUME NEW m, QueriesBound(m), NEW i, i.kind = "resourceConservation",
         validateResourceConservationParams(Evidence(m), i.params),
         ScopePairComparable(Evidence(m), i),
         NEW read \in Reads(i), NEW q \in KeptQueries(m), q.role = read[1]
  PROVE  Readable(q, read[2], read[3])
<1> DEFINE p == i.params
           int == {"integer-minor-units"}
           roles == {p.baselineRole, p.remainingRole, p.consumptionEffectRole}
           scoped == UNION {{<<r, f, {"string"}>> : f \in p.scope.fields}
                              \cup {<<r, p.scope.generation, int>>} : r \in roles}
           units == {<<p.baselineRole, p.resourceIdentityField, FieldTypes>>,
                     <<p.baselineRole, p.baselineUnitsField, int>>,
                     <<p.remainingRole, p.remainingUnitsField, int>>,
                     <<p.consumptionEffectRole, p.resourceIdentityField, FieldTypes>>,
                     <<p.consumptionEffectRole, p.consumptionEffectIdentityField, FieldTypes>>,
                     <<p.consumptionEffectRole, p.consumptionUnitsField, int>>,
                     <<p.consumptionEffectRole, p.match.field, FieldTypes>>}
<1>1. Reads(i) = scoped \cup units
  BY DEF Reads
<1>2. /\ validateScopeBinding(Evidence(m), p.scope, roles, p.proof.query)
      /\ \A u \in units : OnRole(Evidence(m), u[1], u[2], u[3])
  BY DEF validateResourceConservationParams, validateAcceptedMatch, AnyType
<1>3. CASE read \in scoped
  <2>1. PICK r \in roles : \/ \E f \in p.scope.fields : read = <<r, f, {"string"}>>
                           \/ read = <<r, p.scope.generation, int>>
    BY <1>3
  <2>2. /\ \A f \in p.scope.fields : q.role \in roles => Readable(q, f, {"string"})
        /\ q.role \in roles => Readable(q, p.scope.generation, int)
    BY <1>2, ScopeRead
  <2> HIDE DEF roles
  <2> QED
    BY <2>1, <2>2
<1>4. CASE read \in units
  <2>1. OnRole(Evidence(m), read[1], read[2], read[3])
    BY <1>2, <1>4
  <2> QED
    BY <2>1, RoleRead
<1> QED
  BY <1>1, <1>3, <1>4

\* Every instance that is validated with its run scope can be evaluated.
LEMMA ValidIsEvaluable ==
  ASSUME NEW m, QueriesBound(m), NEW instances, NEW steps, NEW z,
         z.evidence = Evidence(m),
         deriveGenericInvariantBindings(Evidence(m), instances),
         validateRunScopeDeclaration(Evidence(m), z.scope, steps, instances),
         NEW i \in instances
  PROVE  Evaluable(z, i)
<1> DEFINE p == i.params
           summary == QueryOf(Evidence(m), p.proof.query)
<1>1. validateGenericInvariantDefinition(Evidence(m), i) /\ ScopePairComparable(Evidence(m), i)
  BY DEF deriveGenericInvariantBindings, validateRunScopeDeclaration
<1>2. PICK roles : validateScopeBinding(Evidence(m), p.scope, roles, p.proof.query)
  BY <1>1 DEF validateGenericInvariantDefinition, validateAtMostOneParams,
    validateResourceConservationParams
<1>3. OnQuery(Evidence(m), p.proof.query, p.proof.totalField, {"integer-minor-units"})
  BY <1>1 DEF validateGenericInvariantDefinition, validateAtMostOneParams,
    validateResourceConservationParams, CompletenessAcceptable, SummaryAcceptable
<1>4. z.evidence.queries = KeptQueries(m)
  BY DEF Evidence
<1>5. \A read \in Reads(i) : \A q \in QueriesOf(z, read[1]) : Readable(q, read[2], read[3])
  BY <1>1, <1>4, AtMostOneReads, ConservationReads DEF validateGenericInvariantDefinition, QueriesOf
<1>6. \E q \in z.evidence.queries :
        q.id = p.proof.query /\ \A read \in SummaryReads(i) : Readable(q, read[1], read[2])
  <2>1. /\ summary \in KeptQueries(m) /\ summary.id = p.proof.query
        /\ Readable(summary, p.proof.totalField, {"integer-minor-units"})
    BY <1>3, QueryRead
  <2>2. /\ \A f \in p.scope.fields : Readable(summary, f, {"string"})
        /\ Readable(summary, p.scope.generation, {"integer-minor-units"})
    BY <1>1, <1>2, ScopeRead
  <2>3. \A read \in SummaryReads(i) : Readable(summary, read[1], read[2])
    BY <2>1, <2>2 DEF SummaryReads
  <2> QED
    BY <1>4, <2>1, <2>3
<1>7. SameTypes(z, i)
  <2> SUFFICES ASSUME i.kind = "atMostOneAcceptedEffect",
                      NEW q \in QueriesOf(z, p.subjectRole), NEW r \in QueriesOf(z, p.effectRole),
                      NEW f \in p.equivalence
               PROVE  q.fields[f] = r.fields[f]
    BY DEF SameTypes
  <2>1. EquivalenceAcceptable(Evidence(m), p)
    BY <1>1 DEF validateGenericInvariantDefinition, validateAtMostOneParams
  <2>2. /\ q \in KeptQueries(m) /\ q.role = p.subjectRole
        /\ r \in KeptQueries(m) /\ r.role = p.effectRole
    BY <1>4 DEF QueriesOf
  <2>3. q.fields[f] = RoleType(Evidence(m), p.subjectRole, f)
    BY <2>1, <2>2, RoleRead DEF EquivalenceAcceptable
  <2>4. r.fields[f] = RoleType(Evidence(m), p.effectRole, f)
    BY <2>1, <2>2, RoleRead DEF EquivalenceAcceptable
  <2> QED
    BY <2>1, <2>3, <2>4 DEF EquivalenceAcceptable
<1>8. z.scope.subjects[i.key] # {}
  BY DEF validateRunScopeDeclaration, SubjectsAcceptable, InstanceKeys
<1> QED
  BY <1>5, <1>6, <1>7, <1>8 DEF Evaluable

\* A document that passes its checks and is frozen over a valid manifest can be evaluated.
Fit(z) ==
  z.bindings # {} =>
    /\ \A i \in z.bindings : Evaluable(z, i)
    /\ \E k \in 1 .. Len(z.steps) :
         /\ z.steps[k].name = z.scope.setup
         /\ z.steps[k].repeat = 1 /\ z.steps[k].retry = "NONE"

LEMMA FrozenFits ==
  ASSUME NEW p, NEW t, NEW number, NEW doc, NEW rank,
         GenericPartAcceptable(deriveEvidencePolicy(t), doc), Freezable(p, t, doc)
  PROVE  Fit(buildSnapshotDocument(p, t, number, doc, rank))
<1> DEFINE z == buildSnapshotDocument(p, t, number, doc, rank)
<1>1. /\ z.evidence = deriveEvidencePolicy(t) /\ z.scope = doc.scope /\ z.steps = doc.steps
      /\ z.bindings = IF doc.bindings = Absent THEN {} ELSE doc.bindings
  BY DEF buildSnapshotDocument
<1> HIDE DEF z
<1> SUFFICES ASSUME z.bindings # {}
             PROVE  /\ \A i \in z.bindings : Evaluable(z, i)
                    /\ \E k \in 1 .. Len(z.steps) :
                         /\ z.steps[k].name = z.scope.setup
                         /\ z.steps[k].repeat = 1 /\ z.steps[k].retry = "NONE"
  BY DEF Fit, z
<1>2. /\ doc.bindings # Absent /\ z.bindings = doc.bindings
      /\ deriveEvidencePolicy(t) # Absent
      /\ deriveGenericInvariantBindings(deriveEvidencePolicy(t), doc.bindings)
      /\ validateRunScopeDeclaration(deriveEvidencePolicy(t), z.scope, z.steps, doc.bindings)
  BY <1>1 DEF GenericPartAcceptable
<1>3. t.manifest # Absent /\ deriveEvidencePolicy(t) = Evidence(t.manifest)
  BY <1>2 DEF deriveEvidencePolicy, Evidence
<1>4. QueriesBound(t.manifest)
  BY <1>3 DEF Freezable, PolicyDerivable, ManifestValid
<1>5. \A i \in z.bindings : Evaluable(z, i)
  BY <1>1, <1>2, <1>3, <1>4, ValidIsEvaluable
<1>6. SetupStepAcceptable(z.steps, z.scope.setup)
  BY <1>2 DEF validateRunScopeDeclaration
<1>7. PICK k \in 1 .. Len(z.steps) : z.steps[k].name = z.scope.setup
  <2> DEFINE S == {k \in 1 .. Len(z.steps) : z.steps[k].name = z.scope.setup}
  <2>1. Cardinality(S) = 1
    BY <1>6 DEF SetupStepAcceptable
  <2>2. S # {}
    <3> HIDE DEF S
    <3> QED
      BY <2>1, FS_EmptySet
  <2> QED
    BY <2>2
<1> QED
  BY <1>5, <1>6, <1>7 DEF SetupStepAcceptable

-----------------------------------------------------------------------------
(***************************************************************************)
(* A revision is of the one target there is, and was checked against it;   *)
(* what is frozen or about to be stored was frozen from a revision.        *)
(***************************************************************************)
FitInv ==
  /\ ClientInv
  /\ revisions > 0 => GenericPartAcceptable(deriveEvidencePolicy(target), Doc)
  /\ \A n \in DOMAIN snapshots : Fit(snapshots[n])
  /\ \A c \in Clients : /\ session[c].stage = "freeze" => revisions > 0
                        /\ session[c].stage = "insert" => Fit(session[c].frozen)

\* A revision is stored after its document was checked.
RevisionMove ==
  \/ revisions' = revisions
  \/ /\ revisions' > 0 /\ target # Absent
     /\ \E p : validateExperimentDocument(p, target, Doc)

\* A snapshot is stored by a session that froze it.
SnapshotMove ==
  \/ snapshots' = snapshots
  \/ \E c \in Clients : /\ session[c].stage = "insert"
                        /\ snapshots' = Append(snapshots, session[c].frozen)

\* A session freezes a stored revision, and inserts what it froze.
FreezeMoves(c) ==
  \/ session'[c] = session[c]
  \/ session'[c].stage \notin {"freeze", "insert"}
  \/ session'[c].stage = "freeze" /\ revisions' > 0
  \/ /\ session'[c].stage = "insert" /\ session[c].stage = "freeze"
     /\ \E p : /\ Freezable(p, target, Doc)
               /\ session'[c].frozen
                    = buildSnapshotDocument(p, target, session[c].number, Doc, Rank)

FitMoves ==
  /\ input' = input /\ (target # Absent => target' = target)
  /\ RevisionMove /\ SnapshotMove
  /\ \A c \in Clients : FreezeMoves(c)

\* The invariant is kept by every step of that form.
LEMMA FitStep == ASSUME FitInv, ClientInv', FitMoves PROVE FitInv'
<1> USE DEF FitMoves
<1>1. Doc' = Doc /\ revisions \in Nat /\ (revisions > 0 => target # Absent)
  BY DEF Doc, FitInv, ClientInv, ClientTypes, RowsOK
<1>2. ASSUME revisions > 0
      PROVE  /\ GenericPartAcceptable(deriveEvidencePolicy(target), Doc)
             /\ GenericPartAcceptable(deriveEvidencePolicy(target), Doc)'
  BY <1>1, <1>2 DEF FitInv
<1>3. revisions' > 0 => GenericPartAcceptable(deriveEvidencePolicy(target), Doc)'
  <2>1. CASE revisions' = revisions
    BY <1>2, <2>1
  <2>2. CASE target # Absent /\ \E p : validateExperimentDocument(p, target, Doc)
    BY <1>1, <2>2 DEF validateExperimentDocument
  <2> QED
    BY <2>1, <2>2 DEF RevisionMove
<1>4. \A n \in DOMAIN snapshots' : Fit(snapshots'[n])
  <2>1. CASE snapshots' = snapshots
    BY <2>1 DEF FitInv
  <2>2. ASSUME NEW c \in Clients, session[c].stage = "insert",
               snapshots' = Append(snapshots, session[c].frozen)
        PROVE  \A n \in DOMAIN snapshots' : Fit(snapshots'[n])
    <3>1. Fit(session[c].frozen) /\ snapshots \in Seq(FrozenDocs) /\ session[c].frozen \in FrozenDocs
      BY <2>2 DEF FitInv, ClientInv, ClientTypes, SessionOK
    <3>2. \A n \in DOMAIN snapshots' :
            \/ n \in DOMAIN snapshots /\ snapshots'[n] = snapshots[n]
            \/ snapshots'[n] = session[c].frozen
      BY <2>2, <3>1
    <3> QED
      BY <3>1, <3>2 DEF FitInv
  <2> QED
    BY <2>1, <2>2 DEF SnapshotMove
<1>5. ASSUME NEW c \in Clients
      PROVE  /\ session'[c].stage = "freeze" => revisions' > 0
             /\ session'[c].stage = "insert" => Fit(session'[c].frozen)
  <2>1. revisions > 0 => revisions' > 0
    BY DEF RevisionMove
  <2>2. CASE session'[c] = session[c]
    BY <2>1, <2>2 DEF FitInv
  <2>3. ASSUME session[c].stage = "freeze", session'[c].stage = "insert", NEW p,
               Freezable(p, target, Doc),
               session'[c].frozen = buildSnapshotDocument(p, target, session[c].number, Doc, Rank)
        PROVE  Fit(session'[c].frozen)
    <3>1. revisions > 0
      BY <2>3 DEF FitInv
    <3> QED
      BY <1>2, <2>3, <3>1, FrozenFits
  <2> QED
    BY <2>2, <2>3 DEF FreezeMoves
<1> QED
  BY <1>3, <1>4, <1>5 DEF FitInv

\* A step of c that neither freezes nor inserts leaves the other sessions alone.
LEMMA OtherSessions ==
  ASSUME ClientInv, NEW c \in Clients, NEW s, session' = [session EXCEPT ![c] = s],
         \/ s.stage \notin {"freeze", "insert"}
         \/ s.stage = "freeze" /\ revisions' > 0
         \/ /\ s.stage = "insert" /\ session[c].stage = "freeze"
            /\ \E p : /\ Freezable(p, target, Doc)
                      /\ s.frozen = buildSnapshotDocument(p, target, session[c].number, Doc, Rank)
  PROVE  \A b \in Clients : FreezeMoves(b)
<1> TAKE b \in Clients
<1>1. session'[b] = IF b = c THEN s ELSE session[b]
  BY SessionFacts
<1> QED
  BY <1>1 DEF FreezeMoves

\* A command starts at its start.
LEMMA StartsIdle ==
  ASSUME NEW c \in Clients, Start(c)
  PROVE  \E s : s.stage = "started" /\ session' = [session EXCEPT ![c] = s]
<1>1. PICK cmd \in IF c = "cli" THEN {"run", "replay", "compare", "validate"} ELSE {"api-run"} :
        \E number, other \in {0} \cup DOMAIN runs :
          session' = [session EXCEPT ![c] =
            [Idle EXCEPT !.cmd = cmd, !.stage = "started", !.policy = grants,
                         !.number = number, !.other = other]]
  BY Zenon DEF Start
<1>2. PICK number, other \in {0} \cup DOMAIN runs :
        session' = [session EXCEPT ![c] =
          [Idle EXCEPT !.cmd = cmd, !.stage = "started", !.policy = grants,
                       !.number = number, !.other = other]]
  BY <1>1, Zenon
<1> DEFINE s == [Idle EXCEPT !.cmd = cmd, !.stage = "started", !.policy = grants,
                             !.number = number, !.other = other]
<1>3. s.stage = "started"
  BY DEF Idle
<1>4. session' = [session EXCEPT ![c] = s]
  BY <1>2, Zenon
<1> HIDE DEF s
<1> QED
  BY <1>3, <1>4

\* The steps of a command that do not define or freeze anything.
LEMMA FitCommands ==
  ASSUME ClientInv, NEW c \in Clients,
         \/ Start(c) \/ validateScenarioAuthoritative(c) \/ createRun(c) \/ executeReplay(c)
         \/ dispatchRun(c) \/ waitForRunTerminal(c) \/ analyzeRun(c) \/ authorizeReport(c)
         \/ emitOutcome(c) \/ compareReplayRuns(c) \/ Killed(c)
  PROVE  FitMoves
<1>1. /\ input' = input /\ target' = target /\ revisions' = revisions /\ snapshots' = snapshots
  BY Zenon DEF Start, validateScenarioAuthoritative, createRun, executeReplay, dispatchRun,
    waitForRunTerminal, analyzeRun, authorizeReport, emitOutcome, compareReplayRuns, Killed,
    rowVars, Still
<1>2. session[c] \in Session
  BY SessionFacts
<1>3. \A code : Exit(c, code) => \A b \in Clients : FreezeMoves(b)
  <2> SUFFICES ASSUME NEW code, Exit(c, code) PROVE \A b \in Clients : FreezeMoves(b)
    OBVIOUS
  <2> DEFINE s == [session[c] EXCEPT !.stage = "exited", !.exit = code, !.frozen = Absent]
  <2>1. s.stage = "exited" /\ session' = [session EXCEPT ![c] = s]
    BY <1>2 DEF Exit, Session
  <2> HIDE DEF s
  <2> QED
    BY <2>1, OtherSessions
<1>4. \A stage \in {"wait", "analyze", "authorize"} : Move(c, stage) => \A b \in Clients : FreezeMoves(b)
  <2> SUFFICES ASSUME NEW stage \in {"wait", "analyze", "authorize"}, Move(c, stage)
               PROVE  \A b \in Clients : FreezeMoves(b)
    OBVIOUS
  <2> DEFINE s == [session[c] EXCEPT !.stage = stage]
  <2>1. s.stage = stage /\ session' = [session EXCEPT ![c] = s]
    BY <1>2 DEF Move, Session
  <2> HIDE DEF s
  <2> QED
    BY <2>1, OtherSessions
<1>5. \A n, replayed : AddRun(c, n, replayed) => \A b \in Clients : FreezeMoves(b)
  <2> SUFFICES ASSUME NEW n, NEW replayed, AddRun(c, n, replayed)
               PROVE  \A b \in Clients : FreezeMoves(b)
    OBVIOUS
  <2> DEFINE stage == IF session[c].cmd = "api-run" THEN "exited" ELSE "dispatch"
             s == [session[c] EXCEPT !.stage = stage, !.number = Len(runs) + 1,
                                     !.created = Len(runs) + 1]
  <2>1. s.stage = stage /\ session' = [session EXCEPT ![c] = s]
    BY <1>2 DEF AddRun, Session
  <2>2. stage \notin {"freeze", "insert"}
    OBVIOUS
  <2> HIDE DEF s, stage
  <2> QED
    BY <2>1, <2>2, OtherSessions
<1>6. Start(c) => \A b \in Clients : FreezeMoves(b)
  <2> SUFFICES ASSUME Start(c) PROVE \A b \in Clients : FreezeMoves(b)
    OBVIOUS
  <2>1. PICK s : s.stage = "started" /\ session' = [session EXCEPT ![c] = s]
    BY StartsIdle
  <2> QED
    BY <2>1, OtherSessions
<1>7. Killed(c) => \A b \in Clients : FreezeMoves(b)
  <2> SUFFICES ASSUME Killed(c) PROVE \A b \in Clients : FreezeMoves(b)
    OBVIOUS
  <2>1. Idle.stage = "idle"
    BY DEF Idle
  <2>2. session' = [session EXCEPT ![c] = Idle]
    BY DEF Killed
  <2> QED
    BY <2>1, <2>2, OtherSessions
<1>8. AnalyzeAgain(c) /\ session[c].stage = "authorize" => \A b \in Clients : FreezeMoves(b)
  <2> SUFFICES ASSUME AnalyzeAgain(c), session[c].stage = "authorize"
               PROVE  \A b \in Clients : FreezeMoves(b)
    OBVIOUS
  <2> DEFINE s == [session[c] EXCEPT !.tries = @ + 1]
  <2>1. s.stage = "authorize" /\ session' = [session EXCEPT ![c] = s]
    BY <1>2 DEF AnalyzeAgain, Session
  <2> HIDE DEF s
  <2> QED
    BY <2>1, OtherSessions
<1>9. \A d : Report(c, d) => \A b \in Clients : FreezeMoves(b)
  <2> SUFFICES ASSUME NEW d, Report(c, d) PROVE \A b \in Clients : FreezeMoves(b)
    OBVIOUS
  <2> DEFINE s == [session[c] EXCEPT !.stage = "report", !.exit = d.exit, !.truth = d.truth]
  <2>1. s.stage = "report" /\ session' = [session EXCEPT ![c] = s]
    BY <1>2 DEF Report, Session
  <2> HIDE DEF s
  <2> QED
    BY <2>1, OtherSessions
<1>10. authorizeReport(c) => \A b \in Clients : FreezeMoves(b)
  <2>1. authorizeReport(c) =>
          \/ Exit(c, 3)
          \/ AnalyzeAgain(c) /\ session[c].stage = "authorize"
          \/ \E d : Report(c, d)
    BY DEF authorizeReport, At
  <2> QED
    BY <1>3, <1>8, <1>9, <2>1
<1>11. \A b \in Clients : FreezeMoves(b)
  BY <1>3, <1>4, <1>5, <1>6, <1>7, <1>10 DEF validateScenarioAuthoritative, createRun, executeReplay,
    dispatchRun, waitForRunTerminal, analyzeRun, emitOutcome, compareReplayRuns
<1> QED
  BY <1>1, <1>11 DEF FitMoves, RevisionMove, SnapshotMove

\* The steps that define, freeze and store a document.
LEMMA FitDefinitions ==
  ASSUME ClientInv, NEW c \in Clients,
         createExperiment(c) \/ PickRevision(c) \/ freezeSnapshot(c) \/ insertSnapshot(c)
  PROVE  FitMoves
<1>1. input' = input /\ target' = target /\ session[c] \in Session /\ revisions \in Nat
  BY SessionFacts DEF createExperiment, PickRevision, freezeSnapshot, insertSnapshot, rowVars, Still
<1>2. \A code : Exit(c, code) => \A b \in Clients : FreezeMoves(b)
  <2> SUFFICES ASSUME NEW code, Exit(c, code) PROVE \A b \in Clients : FreezeMoves(b)
    OBVIOUS
  <2> DEFINE s == [session[c] EXCEPT !.stage = "exited", !.exit = code, !.frozen = Absent]
  <2>1. s.stage = "exited" /\ session' = [session EXCEPT ![c] = s]
    BY <1>1 DEF Exit, Session
  <2> HIDE DEF s
  <2> QED
    BY <2>1, OtherSessions
<1>3. ASSUME NEW stage \in {"freeze", "create"}, NEW number, MoveWith(c, stage, number),
             stage = "freeze" => revisions' > 0
      PROVE  \A b \in Clients : FreezeMoves(b)
  <2> DEFINE s == [session[c] EXCEPT !.stage = stage, !.number = number, !.frozen = Absent]
  <2>1. s.stage = stage /\ session' = [session EXCEPT ![c] = s]
    BY <1>1, <1>3 DEF MoveWith, Session
  <2> HIDE DEF s
  <2> QED
    BY <1>3, <2>1, OtherSessions
<1>4. CASE createExperiment(c)
  <2>1. snapshots' = snapshots
    BY <1>4 DEF createExperiment
  <2>2. CASE UNCHANGED revisions /\ \E code : Exit(c, code)
    BY <1>1, <1>2, <2>1, <2>2 DEF FitMoves, RevisionMove, SnapshotMove
  <2>3. CASE /\ target # Absent /\ validateExperimentDocument(session[c].policy, target, Doc)
             /\ revisions' = revisions + 1 /\ MoveWith(c, "freeze", revisions + 1)
    <3>1. revisions' > 0
      BY <1>1, <2>3
    <3>2. \A b \in Clients : FreezeMoves(b)
      BY <1>3, <2>3, <3>1
    <3> QED
      BY <1>1, <2>1, <2>3, <3>1, <3>2 DEF FitMoves, RevisionMove, SnapshotMove
  <2> QED
    BY <1>4, <2>2, <2>3 DEF createExperiment
<1>5. CASE PickRevision(c)
  <2>1. PICK n \in 1 .. revisions : MoveWith(c, "freeze", n)
    BY <1>5 DEF PickRevision
  <2>2. UNCHANGED <<revisions, snapshots>>
    BY <1>5 DEF PickRevision, rowVars
  <2>3. revisions' > 0
    BY <1>1, <2>1, <2>2
  <2> QED
    BY <1>1, <1>3, <2>1, <2>2, <2>3 DEF FitMoves, RevisionMove, SnapshotMove
<1>6. CASE freezeSnapshot(c)
  <2> DEFINE frozen == buildSnapshotDocument(session[c].policy, target, session[c].number, Doc, Rank)
  <2>1. UNCHANGED <<revisions, snapshots>> /\ session[c].stage = "freeze"
    BY <1>6 DEF freezeSnapshot, rowVars, At
  <2>2. CASE /\ Freezable(session[c].policy, target, Doc)
             /\ session' = [session EXCEPT ![c].stage = "insert", ![c].frozen = frozen]
    <3> DEFINE s == [session[c] EXCEPT !.stage = "insert", !.frozen = frozen]
    <3>1. session' = [session EXCEPT ![c] = s]
      BY <2>2
    <3>2. s.stage = "insert" /\ s.frozen = frozen
      <4> HIDE DEF frozen
      <4> QED
        BY <1>1 DEF Session
    <3> HIDE DEF s
    <3>3. \A b \in Clients : FreezeMoves(b)
      BY <2>1, <2>2, <3>1, <3>2, OtherSessions
    <3> QED
      BY <1>1, <2>1, <3>3 DEF FitMoves, RevisionMove, SnapshotMove
  <2>3. \/ Exit(c, 3)
        \/ \E n : MoveWith(c, "create", n)
        \/ /\ Freezable(session[c].policy, target, Doc)
           /\ session' = [session EXCEPT ![c].stage = "insert", ![c].frozen = frozen]
    BY <1>6 DEF freezeSnapshot
  <2> HIDE DEF frozen
  <2>4. CASE Exit(c, 3) \/ \E n : MoveWith(c, "create", n)
    BY <1>1, <1>2, <1>3, <2>1, <2>4 DEF FitMoves, RevisionMove, SnapshotMove
  <2> QED
    BY <2>2, <2>3, <2>4
<1>7. CASE insertSnapshot(c)
  <2>1. /\ \A b \in Clients : FreezeMoves(b)
        /\ revisions' = revisions
    BY <1>2, <1>3, <1>7 DEF insertSnapshot
  <2>2. SnapshotMove
    BY <1>7 DEF insertSnapshot, At, SnapshotMove
  <2> QED
    BY <1>1, <2>1, <2>2 DEF FitMoves, RevisionMove
<1> QED
  BY <1>4, <1>5, <1>6, <1>7

\* The invariant holds at the start and is kept by every step.
LEMMA FitInit == ClientInit => FitInv
<1> SUFFICES ASSUME ClientInit PROVE FitInv
  OBVIOUS
<1>1. ClientInv
  BY ClientInitInv
<1>2. DOMAIN snapshots = {} /\ revisions = 0 /\ \A c \in Clients : session[c].stage = "idle"
  BY DEF ClientInit, Idle
<1> QED
  BY <1>1, <1>2 DEF FitInv

LEMMA FitInvStep == FitInv /\ [ClientNext]_clientVars => FitInv'
<1> SUFFICES ASSUME FitInv, [ClientNext]_clientVars PROVE FitInv'
  OBVIOUS
<1>1. ClientInv /\ ClientInv'
  BY ClientStep DEF FitInv
<1>2. FitMoves
  <2>1. CASE registerTarget \/ Reconfigure \/ RunMoves \/ deriveRunForensics
               \/ UNCHANGED clientVars
    <3>1. /\ UNCHANGED <<input, revisions, snapshots, session>>
          /\ target # Absent => target' = target
      BY <2>1 DEF registerTarget, Reconfigure, RunMoves, deriveRunForensics, SetState, clientVars,
        rowVars, Still
    <3> QED
      BY <3>1 DEF FitMoves, RevisionMove, SnapshotMove, FreezeMoves
  <2>2. ASSUME NEW c \in Clients, ClientAction(c) PROVE FitMoves
    BY <1>1, <2>2, FitCommands, FitDefinitions DEF ClientAction
  <2> QED
    BY <2>1, <2>2 DEF ClientNext
<1> QED
  BY <1>1, <1>2, FitStep

\* Every invariant instance that is frozen can be evaluated, for any manifests, documents,
\* grants and interleaving of commands: what createExperiment checks against the
\* registration (validate.ts, generic-invariant-registry.ts, run-scope.ts) and what
\* freezeSnapshot checks again (snapshot.ts) leaves no gap between roles, queries and scope.
THEOREM FrozenIsEvaluableCorrect == ClientSpec => []FrozenIsEvaluable
<1>1. FitInv => FrozenIsEvaluable
  BY DEF FitInv, Fit, FrozenIsEvaluable
<1> QED
  BY <1>1, FitInit, FitInvStep, PTL DEF ClientSpec

=============================================================================
