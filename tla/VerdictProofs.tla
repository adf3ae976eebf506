---------------------------- MODULE VerdictProofs ----------------------------
(***************************************************************************)
(* Proofs about Inspection and RunAnchor, for any number of effects,       *)
(* queries and generations.  What an analysis derives is a pure function   *)
(* of the stored captures; the proofs relate it to what the captures say   *)
(* of the target, and use of the causal edges only that a row they do not  *)
(* reach is not counted.                                                   *)
(***************************************************************************)
EXTENDS Inspection, RunAnchor, FiniteSetTheorems, WellFoundedInduction, TLAPS

-----------------------------------------------------------------------------
(* The anchor *)

Pairs == SetupScopes \X Nat

\* What is stored of a generation's response is what its own request
\* established, or it cannot anchor.
ResponsesOwn ==
  /\ generation \in Nat /\ token \in Tokens
  /\ applied \in [Tokens -> Pairs \cup {None}]
  /\ observation \in [Tokens -> Pairs \cup {None, Unusable}]
  /\ \A t \in Tokens : observation[t] \in {applied[t], None, Unusable}

\* A request establishes its pair once: what was stored of it stays its own.
LEMMA ResponsesStep == ResponsesOwn /\ [AnchorNext]_anchorVars => ResponsesOwn'
<1> SUFFICES ASSUME ResponsesOwn, [AnchorNext]_anchorVars PROVE ResponsesOwn'
  OBVIOUS
<1> USE AnchorAssumption DEF ResponsesOwn
<1>1. CASE TakeOver
  BY <1>1 DEF TakeOver, targetState, rows, Tokens
<1>2. ASSUME NEW t \in Tokens, ApplySetup(t) PROVE ResponsesOwn'
  <2>1. /\ generation' \in Nat /\ token' = token /\ observation' = observation
        /\ applied[t] = None
    BY <1>2 DEF ApplySetup, rows
  <2>2. PICK scope \in SetupScopes : applied' = [applied EXCEPT ![t] = <<scope, generation'>>]
    BY <1>2 DEF ApplySetup
  <2>3. <<scope, generation'>> \in Pairs
    BY <2>1 DEF Pairs
  <2> QED
    BY <2>1, <2>2, <2>3
<1>3. ASSUME NEW t \in Tokens, captureSetupResponse(t) PROVE ResponsesOwn'
  <2>1. PICK row \in {applied[t], Unusable, None} : observation' = [observation EXCEPT ![t] = row]
    BY <1>3 DEF captureSetupResponse
  <2> QED
    BY <1>3, <2>1 DEF captureSetupResponse, targetState
<1>4. ASSUME NEW t \in Tokens,
             SendSetup(t) \/ Hear(t) \/ recordSetupInvocation(t) \/ FinishSetup(t) \/ WorkerDies(t)
      PROVE  ResponsesOwn'
  <2>1. UNCHANGED <<generation, applied, token, observation>>
    BY <1>4 DEF SendSetup, Hear, recordSetupInvocation, FinishSetup, WorkerDies, targetState, rows
  <2> QED
    BY <2>1
<1>5. CASE UNCHANGED anchorVars
  BY <1>5 DEF anchorVars, targetState, rows
<1> QED
  BY <1>1, <1>2, <1>3, <1>4, <1>5 DEF AnchorNext

\* An established anchor is what the terminal owner's own request established,
\* in the declared scope, and no recorded generation established anything else,
\* for any number of take-overs, losses and delays.
THEOREM AnchorOwnedCorrect == AnchorSpec => []AnchorOwned
<1>1. AnchorInit => ResponsesOwn
  BY AnchorAssumption DEF AnchorInit, ResponsesOwn, Tokens
<1>2. ResponsesOwn => AnchorOwned
  <2> SUFFICES ASSUME ResponsesOwn, Established PROVE AnchorOwned
    BY DEF AnchorOwned
  <2>1. /\ Candidate(token) /\ observation[token][1] = DeclaredScope
        /\ \A t \in StaleGenerations : Convergent(t)
        /\ deriveRunAnchor.pair = observation[token]
    BY DEF Established, deriveRunAnchor, Anchor
  <2>2. \A t \in Tokens : Candidate(t) => observation[t] = applied[t]
    BY DEF Candidate, ResponsesOwn
  <2>3. token \in Tokens /\ StaleGenerations \subseteq Tokens
    BY DEF ResponsesOwn, StaleGenerations
  <2> QED
    BY <2>1, <2>2, <2>3 DEF AnchorOwned, Convergent
<1> QED
  BY <1>1, <1>2, ResponsesStep, PTL DEF AnchorSpec

-----------------------------------------------------------------------------
(* The operators of the rules *)

\* A nonempty set of numbers has a least element.
LEMMA LeastNumber ==
  ASSUME NEW N \in SUBSET Nat, N # {}
  PROVE  \E n \in N : \A m \in N : ~(m < n)
<1> DEFINE R == {p \in Nat \X Nat : p[1] < p[2]}
<1>1. IsWellFoundedOn(R, Nat)
  BY NatLessThanWellFounded DEF OpToRel
<1> HIDE DEF R
<1>2. \E n \in N : \A m \in N : ~(<<m, n>> \in R)
  BY <1>1, WFMin
<1> QED
  BY <1>2 DEF R

\* The units of rows of one unit each add up to the number of the rows.
LEMMA SumOfOnes ==
  ASSUME NEW S, IsFiniteSet(S), \A x \in S : x.units = 1
  PROVE  MapThenSumSet(LAMBDA x : x.units, S) = Cardinality(S)
<1> DEFINE Chosen(s) == CHOOSE x \in s : TRUE
           Sums(f) == f = [s \in SUBSET S |->
                             IF s = {} THEN 0 ELSE Chosen(s).units + f[s \ {Chosen(s)}]]
           sum == CHOOSE f : Sums(f)
           count == [s \in SUBSET S |-> Cardinality(s)]
<1>1. MapThenSumSet(LAMBDA x : x.units, S) = sum[S]
  BY DEF MapThenSumSet, MapThenFoldSet
<1>2. \A s \in SUBSET S : s # {} =>
        /\ Chosen(s) \in s /\ Chosen(s).units = 1
        /\ s \ {Chosen(s)} \in SUBSET S
        /\ Cardinality(s) \in Nat
        /\ Cardinality(s \ {Chosen(s)}) = Cardinality(s) - 1
  <2> SUFFICES ASSUME NEW s \in SUBSET S, s # {}
               PROVE  /\ Chosen(s) \in s /\ Chosen(s).units = 1
                      /\ s \ {Chosen(s)} \in SUBSET S
                      /\ Cardinality(s) \in Nat
                      /\ Cardinality(s \ {Chosen(s)}) = Cardinality(s) - 1
    OBVIOUS
  <2>1. Chosen(s) \in s
    OBVIOUS
  <2> HIDE DEF Chosen
  <2>2. IsFiniteSet(s)
    BY FS_Subset
  <2> QED
    BY <2>1, <2>2, FS_RemoveElement, FS_CardinalityType
<1> HIDE DEF Chosen
<1>3. \A s \in SUBSET S :
        Cardinality(s) = IF s = {} THEN 0 ELSE Chosen(s).units + count[s \ {Chosen(s)}]
  <2> TAKE s \in SUBSET S
  <2>1. CASE s = {}
    BY <2>1, FS_EmptySet
  <2>2. CASE s # {}
    <3>1. count[s \ {Chosen(s)}] = Cardinality(s \ {Chosen(s)})
      BY <1>2, <2>2
    <3> HIDE DEF count
    <3> QED
      BY <1>2, <2>2, <3>1
  <2> QED
    BY <2>1, <2>2
<1>4. Sums(sum)
  <2>1. Sums(count)
    BY <1>3
  <2> QED
    BY <2>1
<1> HIDE DEF sum
<1>5. \A s \in SUBSET S :
        sum[s] = IF s = {} THEN 0 ELSE Chosen(s).units + sum[s \ {Chosen(s)}]
  BY <1>4
<1> HIDE DEF Sums
<1>6. \A s \in SUBSET S : sum[s] = Cardinality(s)
  <2> DEFINE Wrong == {n \in Nat : \E s \in SUBSET S : Cardinality(s) = n /\ sum[s] # n}
  <2>1. \A s \in SUBSET S : Cardinality(s) \in Nat
    BY FS_Subset, FS_CardinalityType
  <2> SUFFICES ASSUME Wrong # {} PROVE FALSE
    BY <2>1
  <2>2. PICK n \in Wrong : \A m \in Wrong : ~(m < n)
    BY LeastNumber
  <2>3. PICK s \in SUBSET S : Cardinality(s) = n /\ sum[s] # n
    OBVIOUS
  <2>4. s # {}
    BY <1>5, <2>3, FS_EmptySet
  <2> DEFINE rest == s \ {Chosen(s)}
  <2>5. rest \in SUBSET S /\ Cardinality(rest) = n - 1 /\ n - 1 \in Nat /\ n - 1 < n
    BY <1>2, <2>1, <2>3, <2>4
  <2> HIDE DEF rest
  <2>6. sum[rest] = n - 1
    BY <2>2, <2>5
  <2> QED
    BY <1>2, <1>5, <2>3, <2>4, <2>6 DEF rest
<1> QED
  BY <1>1, <1>6

\* Distinct effects are told apart by their identity.
LEMMA DistinctByIdent ==
  ASSUME NEW S, NEW x \in DistinctEffects(S), NEW y \in DistinctEffects(S)
  PROVE  /\ x \in S
         /\ x.ident = y.ident => x = y
<1> DEFINE TheOne(id) == CHOOSE z \in GroupOf(S, id) : TRUE
<1>1. \A id \in Idents(S) : TheOne(id) \in GroupOf(S, id)
  BY DEF Idents, GroupOf
<1>2. \A id \in Idents(S) : TheOne(id) \in S /\ TheOne(id).ident = id
  BY <1>1 DEF GroupOf
<1>3. \A z \in DistinctEffects(S) : \E id \in Idents(S) : z = TheOne(id)
  BY DEF DistinctEffects
<1> HIDE DEF TheOne
<1>4. PICK i \in Idents(S), j \in Idents(S) : x = TheOne(i) /\ y = TheOne(j)
  BY <1>3
<1> QED
  BY <1>2, <1>4

\* There are no more distinct effects than there are orders they can name.
LEMMA CountByIdent ==
  ASSUME NEW S, NEW D \in SUBSET DistinctEffects(S), NEW A, IsFiniteSet(A),
         \A x \in D : x.ident \in A
  PROVE  /\ IsFiniteSet(D)
         /\ Cardinality(D) \in Nat
         /\ Cardinality(D) <= Cardinality(A)
<1> DEFINE name == [x \in D |-> x.ident]
<1>1. \A x, y \in D : x.ident = y.ident => x = y
  BY DistinctByIdent
<1>2. name \in Injection(D, A)
  BY <1>1 DEF Injection, IsInjective
<1> HIDE DEF name
<1> QED
  BY <1>2, FS_Injection, FS_CardinalityType

-----------------------------------------------------------------------------
(* What the stored rows say of the target *)

\* The row of an order names it, and is as truthful as its shape lets it be:
\* an order that reads as accepted has been accepted.
OrderTrue(x) ==
  \E e \in Effects :
    /\ {"ident", "equiv", "accepted", "scope", "units"} \subseteq DOMAIN x \ {"query"}
    /\ x.ident \in {e, Redacted}
    /\ x.accepted = TRUE => e \in accepted
    /\ x.scope = Own => OwnScope(e)
    /\ x.equiv = Item => shape[e] # "other"
    /\ x.units \in {1, -1}

\* Every row was true of the target once, and orders are only ever accepted.
RowTrue(x) ==
  /\ x.role = "item" => x.units = Baseline0
  /\ x.role = "stock" => x.units \in Int /\ x.units >= remaining
  /\ x.role = "order" => OrderTrue(x)

EvidenceTrue ==
  /\ accepted \in SUBSET Effects /\ remaining \in Int
  /\ stray \in Strays /\ pos \in 0 .. Len(Order)
  /\ capture = [q \in Queries |-> capture[q]]
  /\ \A q \in Queries : \A x \in capture[q].rows : RowTrue(x)

\* An answer of the target is true of it.
LEMMA AnswersTrue ==
  ASSUME EvidenceTrue, NEW q \in Queries, NEW c \in Captures(q), NEW x \in c.rows
  PROVE  RowTrue(x)
<1> USE InspectionAssumption, RulesAssumption DEF EvidenceTrue
<1>1. PICK answer \in Answers(q) : x \in answer
  BY DEF Captures
<1>2. CASE RoleOf[q] = "item"
  <2>1. answer = ItemRows(q)
    BY <1>1, <1>2 DEF Answers
  <2> DEFINE OfItem == x.role = "item" /\ x.units = Baseline0
  <2>2. \A subject, scope : x = ItemRow(q, subject, scope) => OfItem
    BY DEF ItemRow
  <2>3. x = ItemRow(q, Item, Own) \/ \E subject, scope : x = ItemRow(q, subject, scope)
    <3>1. stray \in {"none", "undeclared", "outside", "mixed", "unreadable"}
      OBVIOUS
    <3> QED
      BY <1>1, <2>1, <3>1 DEF ItemRows
  <2> QED
    BY <2>2, <2>3 DEF RowTrue
<1>3. CASE RoleOf[q] = "stock"
  BY <1>1, <1>3 DEF Answers, StockRow, RowTrue
<1>4. CASE RoleOf[q] = "total"
  BY <1>1, <1>4 DEF Answers, TotalRow, RowTrue
<1>5. CASE RoleOf[q] = "order"
  <2>1. PICK e \in Effects : x \in OrderRows(q, e)
    BY <1>1, <1>5 DEF Answers
  <2>2. \/ x = OrderRow(q, e, e \in accepted)
        \/ x = OrderRow(q, e, FALSE)
    BY <2>1 DEF OrderRows
  <2>3. /\ x.role = "order" /\ x.ident \in {e, Redacted}
        /\ {"ident", "equiv", "accepted", "scope", "units"} \subseteq DOMAIN x \ {"query"}
        /\ x.scope = Own => OwnScope(e)
        /\ x.equiv = Item => shape[e] # "other"
        /\ x.units \in {1, -1}
    BY <2>2 DEF OrderRow
  <2>4. CASE e \in accepted
    BY <2>3, <2>4 DEF RowTrue, OrderTrue
  <2>5. CASE e \notin accepted
    <3>1. (e \in accepted) = FALSE
      BY <2>5
    <3>2. x = OrderRow(q, e, FALSE)
      BY <2>2, <3>1
    <3>3. x.accepted = FALSE
      BY <3>2 DEF OrderRow
    <3> QED
      BY <2>3, <3>3 DEF RowTrue, OrderTrue
  <2> QED
    BY <2>4, <2>5
<1> QED
  BY <1>2, <1>3, <1>4, <1>5

\* Orders are only ever accepted and the stock only ever falls, so what a row
\* says stays true.
LEMMA RowStaysTrue ==
  ASSUME NEW x, RowTrue(x), accepted \subseteq accepted',
         remaining \in Int, remaining' \in Int, remaining' <= remaining, shape' = shape
  PROVE  RowTrue(x)'
<1>1. OrderTrue(x) => OrderTrue(x)'
  BY DEF OrderTrue, OwnScope
<1> QED
  BY <1>1 DEF RowTrue

\* A step accepts orders and takes units; it never takes an order back.
LEMMA TargetOnlyAccepts ==
  ASSUME EvidenceTrue, [Next]_vars
  PROVE  /\ accepted \subseteq accepted' /\ accepted' \in SUBSET Effects
         /\ remaining' \in Int /\ remaining' <= remaining
         /\ UNCHANGED fixedVars
<1> USE DEF EvidenceTrue
<1>1. ASSUME NEW e \in Effects, Accept(e)
      PROVE  /\ accepted' = accepted \cup {e}
             /\ remaining' \in {remaining - 1, remaining}
             /\ UNCHANGED fixedVars
  BY <1>1 DEF Accept, TargetMoves
<1>2. ASSUME StartPass \/ Crash \/ captureGenericInspectionQuery
               \/ runGenericInvariantAnalysis \/ UNCHANGED vars
      PROVE  UNCHANGED <<targetVars, fixedVars>>
  BY <1>2 DEF StartPass, Crash, captureGenericInspectionQuery, runGenericInvariantAnalysis, vars
<1> QED
  BY <1>1, <1>2 DEF Next, targetVars

\* A step accepts an order, stores a capture, or leaves both alone.
LEMMA StepKinds ==
  ASSUME EvidenceTrue, [Next]_vars
  PROVE  \/ \E e \in Effects : Accept(e)
         \/ \E q \in Queries : \E c \in Captures(q) :
              /\ capture[q].state = "absent"
              /\ capture' = [capture EXCEPT ![q] = c]
              /\ seen' = IF Capturing THEN seen ELSE Truth
              /\ UNCHANGED <<targetVars, fixedVars, published, moved>>
         \/ UNCHANGED <<targetVars, fixedVars, capture, moved, seen>>
<1>1. CASE StartPass \/ Crash \/ runGenericInvariantAnalysis \/ UNCHANGED vars
  BY <1>1 DEF StartPass, Crash, runGenericInvariantAnalysis, vars
<1>2. CASE captureGenericInspectionQuery
  <2> DEFINE q == Order[pos]
  <2>1. q \in Queries
    BY <1>2, InspectionAssumption DEF captureGenericInspectionQuery, EvidenceTrue
  <2>2. UNCHANGED <<targetVars, fixedVars, published, moved>>
    BY <1>2 DEF captureGenericInspectionQuery
  <2>3. \/ \E c \in Captures(q) :
             /\ capture[q].state = "absent"
             /\ capture' = [capture EXCEPT ![q] = c]
             /\ seen' = IF Capturing THEN seen ELSE Truth
        \/ UNCHANGED <<capture, seen>>
    BY <1>2 DEF captureGenericInspectionQuery
  <2> HIDE DEF q
  <2> QED
    BY <2>1, <2>2, <2>3
<1> QED
  BY <1>1, <1>2 DEF Next

\* What is stored of a query changes from nothing to an answer.
LEMMA CaptureStep ==
  ASSUME EvidenceTrue, [Next]_vars
  PROVE  \/ capture' = capture
         \/ \E q \in Queries : \E c \in Captures(q) :
              /\ capture[q].state = "absent"
              /\ capture' = [capture EXCEPT ![q] = c]
<1>1. ASSUME NEW e \in Effects, Accept(e) PROVE capture' = capture
  BY <1>1 DEF Accept, TargetMoves
<1> QED
  BY <1>1, StepKinds

\* The pass stays within the declared queries.
LEMMA PassStep ==
  ASSUME EvidenceTrue, [Next]_vars
  PROVE  pos' \in 0 .. Len(Order)
<1> USE InspectionAssumption DEF EvidenceTrue
<1>1. ASSUME NEW e \in Effects, Accept(e) PROVE pos' = pos
  BY <1>1 DEF Accept, TargetMoves
<1>2. CASE StartPass
  BY <1>2 DEF StartPass, Advance
<1>3. CASE captureGenericInspectionQuery
  BY <1>3 DEF captureGenericInspectionQuery, Advance
<1>4. CASE Crash \/ runGenericInvariantAnalysis \/ UNCHANGED vars
  BY <1>4 DEF Crash, runGenericInvariantAnalysis, vars
<1> QED
  BY <1>1, <1>2, <1>3, <1>4 DEF Next

\* Every step keeps what is stored true of the target.
LEMMA EvidenceStep == EvidenceTrue /\ [Next]_vars => EvidenceTrue'
<1> SUFFICES ASSUME EvidenceTrue, [Next]_vars PROVE EvidenceTrue'
  OBVIOUS
<1>1. \A x : RowTrue(x) => RowTrue(x)'
  BY TargetOnlyAccepts, RowStaysTrue DEF EvidenceTrue, fixedVars
<1>2. stray' \in Strays
  BY TargetOnlyAccepts DEF EvidenceTrue, fixedVars
<1>3. CASE capture' = capture
  BY <1>1, <1>2, <1>3, TargetOnlyAccepts, PassStep DEF EvidenceTrue
<1>4. ASSUME NEW q \in Queries, NEW c \in Captures(q), capture' = [capture EXCEPT ![q] = c]
      PROVE  EvidenceTrue'
  <2>1. \A x \in c.rows : RowTrue(x)
    BY <1>4, AnswersTrue
  <2>2. \A p \in Queries : \A x \in capture'[p].rows : RowTrue(x)
    BY <1>4, <2>1 DEF EvidenceTrue
  <2> QED
    BY <1>1, <1>2, <1>4, <2>2, TargetOnlyAccepts, PassStep DEF EvidenceTrue
<1> QED
  BY <1>3, <1>4, CaptureStep

\* Nothing stored is true of any target.
LEMMA EvidenceInit == Init => EvidenceTrue
<1> SUFFICES ASSUME Init PROVE EvidenceTrue
  OBVIOUS
<1>1. \A q \in Queries : capture[q] = NoCapture
  BY DEF Init
<1>2. capture = [q \in Queries |-> capture[q]]
  BY DEF Init
<1>3. NoCapture.rows = {}
  BY DEF NoCapture
<1> QED
  BY <1>1, <1>2, <1>3, InspectionAssumption DEF Init, EvidenceTrue

-----------------------------------------------------------------------------
(* What a verdict rests on *)

\* What an evaluation of the declared subject is given.
LEMMA InputFacts ==
  ASSUME EvidenceTrue, NEW kind, NEW in, in = EvaluationInput(kind)
  PROVE  /\ in.entities = Partition(Item)
         /\ in.subject.key = Item /\ in.subject.equiv = Item /\ in.subject.scope = Own
         /\ \A x \in in.entities : RowTrue(x) /\ x.subject = Item
<1>1. /\ in.entities = Partition(Item)
      /\ in.subject.key = Item /\ in.subject.equiv = Item /\ in.subject.scope = Own
  BY DEF EvaluationInput
<1>2. \A x \in Entities : RowTrue(x)
  BY DEF Entities, EvidenceTrue
<1> QED
  BY <1>1, <1>2 DEF Partition

\* The rule of effects fails for one reason only.
LEMMA EffectFail ==
  ASSUME NEW in, evaluateAtMostOneAcceptedEffect(in).verdict = "FAIL"
  PROVE  /\ evaluateAtMostOneAcceptedEffect(in).why = "TOO_MANY_ACCEPTED_EFFECTS"
         /\ TooManyAccepted(in)
<1>1. CompletenessVerdict(in).verdict # "FAIL"
  BY DEF CompletenessVerdict, gapResult, Result
<1> QED
  BY <1>1 DEF evaluateAtMostOneAcceptedEffect, gapResult, Result

\* The rule of conservation fails for one of three reasons, each with its proof.
LEMMA ConservationFail ==
  ASSUME NEW in, evaluateResourceConservation(in).verdict = "FAIL"
  PROVE  LET why == evaluateResourceConservation(in).why
         IN  \/ why = "RESOURCE_CONSERVATION_EXCEEDED_BASELINE" /\ CaseA(in)
             \/ why = "RESOURCE_CONSERVATION_NEGATIVE_REMAINING" /\ negativeRemainingProven(in)
             \/ why = "RESOURCE_CONSERVATION_MISMATCH" /\ CaseC(in)
BY DEF evaluateResourceConservation, gapResult, Result

\* What is published of an eligible subject is what its rule says.
LEMMA Evaluated ==
  ASSUME NEW kind \in Kinds, evaluateAndPersist(kind).eligible
  PROVE  \E in : /\ in = EvaluationInput(kind)
                 /\ evaluateAndPersist(kind).verdict = evaluateGenericInvariant(kind, in).verdict
                 /\ evaluateAndPersist(kind).why = evaluateGenericInvariant(kind, in).why
<1>1. Eligible(kind, Item)
  BY DEF evaluateAndPersist, NoEvaluation
<1> WITNESS EvaluationInput(kind)
<1> QED
  BY <1>1 DEF evaluateAndPersist

\* Values that converge are one value.
LEMMA OneValue ==
  ASSUME NEW V, convergeValues(V) = "one"
  PROVE  TheValue(V) \in V
<1>1. V # {}
  BY FS_EmptySet DEF convergeValues
<1> QED
  BY <1>1 DEF TheValue

\* The effects counted for the subject are orders the target accepted.
LEMMA CountedEffects ==
  ASSUME EvidenceTrue, NEW kind, NEW in, in = EvaluationInput(kind)
  PROVE  /\ IsFiniteSet(AcceptedOwn) /\ IsFiniteSet(AcceptedEquivalent)
         /\ Cardinality(Attributed(in)) \in Nat
         /\ Cardinality(Attributed(in)) <= Cardinality(AcceptedEquivalent)
<1>1. IsFiniteSet(AcceptedOwn) /\ IsFiniteSet(AcceptedEquivalent)
  <2>1. IsFiniteSet(accepted)
    BY InspectionAssumption, FS_Subset DEF EvidenceTrue
  <2>2. AcceptedOwn \in SUBSET accepted /\ AcceptedEquivalent \in SUBSET accepted
    BY DEF AcceptedOwn, AcceptedEquivalent
  <2> QED
    BY <2>1, <2>2, FS_Subset
<1>2. Attributed(in) \in SUBSET DistinctEffects(Identified(in))
  BY DEF Attributed, Candidates
<1>3. \A x \in Attributed(in) : x.ident \in AcceptedEquivalent
  <2> TAKE x \in Attributed(in)
  <2>1. x \in Identified(in) /\ CandidateWorthy(in, x)
    BY DistinctByIdent DEF Attributed, Candidates
  <2>2. x.role = "order" /\ x.ident # Redacted /\ RowTrue(x)
    BY <2>1, InputFacts DEF Identified, OfRole, isNonProvableValue
  <2>3. x.accepted = TRUE /\ x.equiv = Item /\ x.scope = Own
    BY <2>1, InputFacts DEF CandidateWorthy, coherentScope
  <2> QED
    BY <2>2, <2>3 DEF RowTrue, OrderTrue, AcceptedEquivalent, AcceptedOwn, Equivalent
<1> QED
  BY <1>1, <1>2, <1>3, CountByIdent

\* The units counted for the subject are those of orders the target accepted.
LEMMA CountedUnits ==
  ASSUME EvidenceTrue, NEW kind, NEW in, in = EvaluationInput(kind)
  PROVE  /\ acceptedReservedUnits(in) = Cardinality(AttributedConsumption(in))
         /\ acceptedReservedUnits(in) \in Nat
         /\ acceptedReservedUnits(in) <= Cardinality(AcceptedOwn)
<1>1. IsFiniteSet(AcceptedOwn)
  BY CountedEffects
<1>2. AttributedConsumption(in) \in SUBSET DistinctEffects(Consumption(in))
  BY DEF AttributedConsumption, AcceptedConsumption, WellFormed, AcceptedDistinct
<1>3. \A x \in AttributedConsumption(in) : x.ident \in AcceptedOwn /\ x.units = 1
  <2> TAKE x \in AttributedConsumption(in)
  <2>1. /\ x \in AcceptedDistinct(in) /\ x \notin TypeInvalid(in) /\ x \notin NegativeUnits(in)
        /\ coherentScope(in.subject.scope, x.scope)
    BY DEF AttributedConsumption, AcceptedConsumption, WellFormed
  <2>2. x \in Consumption(in) /\ x.accepted = TRUE
    BY <2>1, DistinctByIdent DEF AcceptedDistinct
  <2>3. x.role = "order" /\ x.ident # Redacted /\ RowTrue(x)
    BY <2>2, InputFacts DEF Consumption, Identified, OfRole, isNonProvableValue
  <2>4. x.scope = Own
    BY <2>1, InputFacts DEF coherentScope
  <2>5. x.units # -1
    BY <2>1 DEF TypeInvalid, NegativeUnits
  <2> QED
    BY <2>2, <2>3, <2>4, <2>5 DEF RowTrue, OrderTrue, AcceptedOwn
<1>4. /\ IsFiniteSet(AttributedConsumption(in))
      /\ Cardinality(AttributedConsumption(in)) \in Nat
      /\ Cardinality(AttributedConsumption(in)) <= Cardinality(AcceptedOwn)
  BY <1>1, <1>2, <1>3, CountByIdent
<1>5. acceptedReservedUnits(in) = Cardinality(AttributedConsumption(in))
  BY <1>3, <1>4, SumOfOnes DEF acceptedReservedUnits
<1> QED
  BY <1>4, <1>5

-----------------------------------------------------------------------------
(* A FAIL is true of the target *)

\* The units an input carries for a role are those of its rows.
LEMMA BoundUnitsFacts ==
  ASSUME EvidenceTrue, NEW kind, NEW in, in = EvaluationInput(kind), NEW role,
         NEW u \in BoundUnits(in, role)
  PROVE  \E x \in in.entities : x.role = role /\ x.units = u /\ RowTrue(x)
BY InputFacts DEF BoundUnits, OfRole

\* The bodies of FailProven, for a result that is being published.
ProvenBy(why) ==
  /\ why = "TOO_MANY_ACCEPTED_EFFECTS" => Cardinality(AcceptedEquivalent) > MaxAccepted
  /\ why = "RESOURCE_CONSERVATION_EXCEEDED_BASELINE" => Cardinality(AcceptedOwn) > Baseline0
  /\ why = "RESOURCE_CONSERVATION_NEGATIVE_REMAINING" => remaining < 0

\* A FAIL that is being published is proved by the target of now.
LEMMA EvaluationProven ==
  ASSUME EvidenceTrue, NEW kind \in Kinds,
         evaluateAndPersist(kind).eligible, evaluateAndPersist(kind).verdict = "FAIL"
  PROVE  ProvenBy(evaluateAndPersist(kind).why)
<1>1. PICK in : /\ in = EvaluationInput(kind)
                /\ evaluateAndPersist(kind).verdict = evaluateGenericInvariant(kind, in).verdict
                /\ evaluateAndPersist(kind).why = evaluateGenericInvariant(kind, in).why
  BY Evaluated
<1> DEFINE why == evaluateAndPersist(kind).why
<1>2. CASE kind = "atMostOneAcceptedEffect"
  <2>1. why = "TOO_MANY_ACCEPTED_EFFECTS" /\ TooManyAccepted(in)
    BY <1>1, <1>2, EffectFail DEF evaluateGenericInvariant
  <2>2. /\ Cardinality(AcceptedEquivalent) \in Nat
        /\ Cardinality(Attributed(in)) \in Nat
        /\ Cardinality(Attributed(in)) <= Cardinality(AcceptedEquivalent)
    BY <1>1, CountedEffects, FS_CardinalityType
  <2> QED
    BY <2>1, <2>2, RulesAssumption DEF TooManyAccepted, ProvenBy
<1>3. CASE kind # "atMostOneAcceptedEffect"
  <2> HIDE DEF why
  <2>1. \/ why = "RESOURCE_CONSERVATION_EXCEEDED_BASELINE" /\ CaseA(in)
        \/ why = "RESOURCE_CONSERVATION_NEGATIVE_REMAINING" /\ negativeRemainingProven(in)
        \/ why = "RESOURCE_CONSERVATION_MISMATCH"
    BY <1>1, <1>3, ConservationFail DEF evaluateGenericInvariant, why
  <2>2. CASE why = "RESOURCE_CONSERVATION_EXCEEDED_BASELINE" /\ CaseA(in)
    <3>1. Baseline(in) = Baseline0
      BY <1>1, <2>2, OneValue, BoundUnitsFacts DEF CaseA, HasBaseline, Baseline, RowTrue
    <3>2. /\ Cardinality(AcceptedOwn) \in Nat
          /\ acceptedReservedUnits(in) \in Nat
          /\ acceptedReservedUnits(in) <= Cardinality(AcceptedOwn)
      BY <1>1, CountedEffects, CountedUnits, FS_CardinalityType
    <3> QED
      BY <2>2, <3>1, <3>2, InspectionAssumption DEF CaseA, ProvenBy, why
  <2>3. CASE why = "RESOURCE_CONSERVATION_NEGATIVE_REMAINING" /\ negativeRemainingProven(in)
    <3>1. Remaining(in) \in Int /\ Remaining(in) >= remaining /\ Remaining(in) < 0
      BY <1>1, <2>3, OneValue, BoundUnitsFacts
      DEF negativeRemainingProven, HasRemaining, Remaining, RowTrue
    <3> QED
      BY <2>3, <3>1 DEF ProvenBy, EvidenceTrue, why
  <2> QED
    BY <2>1, <2>2, <2>3 DEF ProvenBy, why
<1> QED
  BY <1>2, <1>3

\* What has been proved stays true: orders are only ever accepted.
LEMMA ProvenStays ==
  ASSUME EvidenceTrue, [Next]_vars, NEW why, ProvenBy(why)
  PROVE  ProvenBy(why)'
<1>1. AcceptedOwn \subseteq AcceptedOwn' /\ AcceptedEquivalent \subseteq AcceptedEquivalent'
  BY TargetOnlyAccepts DEF AcceptedOwn, AcceptedEquivalent, Equivalent, OwnScope, fixedVars
<1>2. /\ IsFiniteSet(AcceptedOwn') /\ IsFiniteSet(AcceptedEquivalent')
      /\ IsFiniteSet(AcceptedOwn) /\ IsFiniteSet(AcceptedEquivalent)
  <2>1. IsFiniteSet(accepted') /\ IsFiniteSet(accepted)
    BY TargetOnlyAccepts, InspectionAssumption, FS_Subset DEF EvidenceTrue
  <2>2. /\ AcceptedOwn' \in SUBSET accepted' /\ AcceptedEquivalent' \in SUBSET accepted'
        /\ AcceptedOwn \in SUBSET accepted /\ AcceptedEquivalent \in SUBSET accepted
    BY DEF AcceptedOwn, AcceptedEquivalent
  <2> QED
    BY <2>1, <2>2, FS_Subset
<1>3. /\ Cardinality(AcceptedOwn) <= Cardinality(AcceptedOwn')
      /\ Cardinality(AcceptedEquivalent) <= Cardinality(AcceptedEquivalent')
  BY <1>1, <1>2, FS_Subset
<1>4. /\ Cardinality(AcceptedOwn) \in Nat /\ Cardinality(AcceptedOwn') \in Nat
      /\ Cardinality(AcceptedEquivalent) \in Nat /\ Cardinality(AcceptedEquivalent') \in Nat
  BY <1>2, FS_CardinalityType
<1> QED
  BY <1>3, <1>4, TargetOnlyAccepts, InspectionAssumption, RulesAssumption
  DEF ProvenBy, EvidenceTrue

\* Evaluations are replaced by an analysis alone, all of them at once.
LEMMA PublishedStep ==
  ASSUME [Next]_vars
  PROVE  \/ published' = published
         \/ /\ Capturing /\ published' = [k \in Kinds |-> evaluateAndPersist(k)]
            /\ UNCHANGED <<targetVars, fixedVars, capture, moved, seen>>
<1>1. ASSUME NEW e \in Effects, Accept(e) PROVE published' = published
  BY <1>1 DEF Accept, TargetMoves
<1>2. CASE StartPass \/ Crash \/ captureGenericInspectionQuery \/ UNCHANGED vars
  BY <1>2 DEF StartPass, Crash, captureGenericInspectionQuery, vars
<1>3. CASE runGenericInvariantAnalysis
  BY <1>3 DEF runGenericInvariantAnalysis
<1> QED
  BY <1>1, <1>2, <1>3 DEF Next

\* A lower-bound FAIL is true of the target, for any number of orders and
\* queries: whatever was left out of the enumerations, whichever captures
\* failed and however the target moved meanwhile.
THEOREM FailProvenCorrect == Spec => []FailProven
<1> DEFINE Inv == EvidenceTrue /\ FailProven
<1>1. Init => Inv
  BY EvidenceInit DEF Init, FailProven, Verdict, NoEvaluation
<1>2. Inv /\ [Next]_vars => Inv'
  <2> SUFFICES ASSUME Inv, [Next]_vars PROVE FailProven'
    BY EvidenceStep
  <2>1. FailProven <=> \A k \in Kinds : Verdict(k, "FAIL") => ProvenBy(published[k].why)
    BY DEF FailProven, ProvenBy
  <2>2. FailProven' <=> \A k \in Kinds : Verdict(k, "FAIL")' => ProvenBy(published[k].why)'
    BY DEF FailProven, ProvenBy
  <2>3. CASE published' = published
    BY <2>1, <2>2, <2>3, ProvenStays DEF Verdict
  <2>4. CASE published' = [k \in Kinds |-> evaluateAndPersist(k)]
    <3>1. \A k \in Kinds : Verdict(k, "FAIL")' => ProvenBy(published'[k].why)
      BY <2>4, EvaluationProven DEF Verdict
    <3> QED
      BY <2>2, <3>1, ProvenStays
  <2> QED
    BY <2>3, <2>4, PublishedStep
<1> QED
  BY <1>1, <1>2, PTL DEF Spec

-----------------------------------------------------------------------------
(* A PASS is true of a target that kept still *)

\* What the rows of a still target say: r units left, c orders of the scope
\* accepted, m of them equivalent.
RowStill(x, r, c, m) ==
  /\ x.role = "stock" => x.units = r
  /\ x.role = "total" => x.reserved = c /\ x.matching = m

\* The target that was seen had r units and c accepted orders, and every row
\* says so; until the last query is captured, it still is that target.
SeenAs(r, c) ==
  /\ r \in Int /\ c \in Nat
  /\ seen.conserved <=> (r >= 0 /\ r = Baseline0 - c)
  /\ \A q \in Queries : \A x \in capture[q].rows : RowStill(x, r, c, seen.equivalent)
  /\ ~AllCaptured => /\ r = remaining /\ c = Cardinality(AcceptedOwn)
                     /\ seen.equivalent = Cardinality(AcceptedEquivalent)

SeenStill == ~moved /\ Capturing => \E r, c : SeenAs(r, c)

\* Nothing is stored of a query that was not captured, and nothing is published
\* before something was.
CapturedFirst ==
  /\ \A q \in Queries : capture[q].state = "absent" => capture[q].rows = {}
  /\ \A k \in Kinds : published[k].eligible => Capturing

StillInv == EvidenceTrue /\ CapturedFirst /\ SeenStill /\ PassTruthful

\* An answer says of the target what it is.
LEMMA AnswersStill ==
  ASSUME EvidenceTrue, NEW q \in Queries, NEW c \in Captures(q), NEW x \in c.rows
  PROVE  RowStill(x, remaining, Cardinality(AcceptedOwn), Cardinality(AcceptedEquivalent))
<1> USE InspectionAssumption, RulesAssumption
<1> DEFINE Still(y) ==
      RowStill(y, remaining, Cardinality(AcceptedOwn), Cardinality(AcceptedEquivalent))
<1>1. PICK answer \in Answers(q) : x \in answer
  BY DEF Captures
<1>2. CASE RoleOf[q] = "item"
  <2>1. \A y : y.role = "item" => Still(y)
    BY DEF RowStill
  <2>2. \A y \in ItemRows(q) : y.role = "item"
    BY DEF EvidenceTrue, ItemRows, ItemRow
  <2> QED
    BY <1>1, <1>2, <2>1, <2>2 DEF Answers
<1>3. CASE RoleOf[q] = "stock"
  BY <1>1, <1>3 DEF Answers, StockRow, RowStill
<1>4. CASE RoleOf[q] = "total"
  BY <1>1, <1>4 DEF Answers, TotalRow, RowStill
<1>5. CASE RoleOf[q] = "order"
  <2>1. PICK e \in Effects : x \in OrderRows(q, e)
    BY <1>1, <1>5 DEF Answers
  <2>2. x.role = "order"
    BY <2>1 DEF OrderRows, OrderRow
  <2> QED
    BY <2>2 DEF RowStill
<1> QED
  BY <1>2, <1>3, <1>4, <1>5

\* A capture is there once it is stored.
LEMMA CaptureStored ==
  ASSUME NEW q \in Queries, NEW c \in Captures(q),
         capture = [p \in Queries |-> capture[p]],
         capture' = [capture EXCEPT ![q] = c]
  PROVE  /\ capture'[q] = c /\ c.state # "absent"
         /\ \A p \in Queries \ {q} : capture'[p] = capture[p]
         /\ Capturing'
         /\ AllCaptured => AllCaptured'
<1>1. c.state # "absent"
  BY DEF Captures
<1>2. capture'[q] = c /\ \A p \in Queries \ {q} : capture'[p] = capture[p]
  OBVIOUS
<1> QED
  BY <1>1, <1>2 DEF Capturing, AllCaptured

\* A step keeps captures in place, and publishes only over some.
LEMMA CapturedFirstStep == EvidenceTrue /\ CapturedFirst /\ [Next]_vars => CapturedFirst'
<1> SUFFICES ASSUME EvidenceTrue, CapturedFirst, [Next]_vars PROVE CapturedFirst'
  OBVIOUS
<1>1. (Capturing => Capturing') /\ CapturedFirst!1'
  <2>1. CASE capture' = capture
    BY <2>1 DEF Capturing, CapturedFirst
  <2>2. ASSUME NEW q \in Queries, NEW c \in Captures(q), capture' = [capture EXCEPT ![q] = c]
        PROVE  (Capturing => Capturing') /\ CapturedFirst!1'
    BY <2>2, CaptureStored DEF EvidenceTrue, CapturedFirst
  <2> QED
    BY <2>1, <2>2, CaptureStep
<1>2. \A k \in Kinds : published'[k].eligible => Capturing
  BY PublishedStep DEF CapturedFirst
<1> QED
  BY <1>1, <1>2 DEF CapturedFirst

\* A target that keeps still while it is inspected is the one every row
\* speaks of.
LEMMA SeenStep ==
  ASSUME EvidenceTrue, CapturedFirst, SeenStill, [Next]_vars
  PROVE  SeenStill'
<1> SUFFICES ASSUME ~moved', Capturing' PROVE \E r, c : SeenAs(r, c)'
  BY DEF SeenStill
<1>1. ASSUME NEW e \in Effects, Accept(e) PROVE \E r, c : SeenAs(r, c)'
  <2>1. /\ moved' = (moved \/ (Capturing /\ ~AllCaptured))
        /\ UNCHANGED <<capture, seen>>
    BY <1>1 DEF Accept, TargetMoves
  <2>2. Capturing /\ ~moved /\ AllCaptured /\ AllCaptured'
    BY <2>1 DEF Capturing, AllCaptured
  <2>3. PICK r, c : SeenAs(r, c)
    BY <2>2 DEF SeenStill
  <2> WITNESS r, c
  <2> QED
    BY <2>1, <2>2, <2>3 DEF SeenAs, RowStill
<1>2. ASSUME NEW q \in Queries, NEW c \in Captures(q),
             capture[q].state = "absent",
             capture' = [capture EXCEPT ![q] = c],
             seen' = IF Capturing THEN seen ELSE Truth,
             UNCHANGED <<targetVars, fixedVars, published, moved>>
      PROVE  \E r, n : SeenAs(r, n)'
  <2> DEFINE n == Cardinality(AcceptedOwn)
             m == Cardinality(AcceptedEquivalent)
  <2>1. UNCHANGED <<remaining, accepted, shape>> /\ ~moved /\ ~AllCaptured
    BY <1>2 DEF targetVars, fixedVars, AllCaptured
  <2>2. UNCHANGED <<AcceptedOwn, AcceptedEquivalent>>
    BY <2>1 DEF AcceptedOwn, AcceptedEquivalent, Equivalent, OwnScope
  <2>3. remaining \in Int /\ n \in Nat
    BY CountedEffects, FS_CardinalityType DEF EvidenceTrue
  <2>4. /\ seen'.conserved <=> (remaining >= 0 /\ remaining = Baseline0 - n)
        /\ seen'.equivalent = m
        /\ \A p \in Queries \ {q} : \A x \in capture[p].rows : RowStill(x, remaining, n, m)
    <3>1. CASE Capturing
      <4>1. PICK r, k : SeenAs(r, k)
        BY <2>1, <3>1 DEF SeenStill
      <4> QED
        BY <1>2, <2>1, <3>1, <4>1 DEF SeenAs
    <3>2. CASE ~Capturing
      <4>1. \A p \in Queries : capture[p].rows = {}
        BY <3>2 DEF Capturing, CapturedFirst
      <4>2. /\ Truth.conserved <=> (remaining >= 0 /\ remaining = Baseline0 - n)
            /\ Truth.equivalent = m
        BY DEF Truth, Conserved
      <4> QED
        BY <1>2, <3>2, <4>1, <4>2
    <3> QED
      BY <3>1, <3>2
  <2>5. \A x \in c.rows : RowStill(x, remaining, n, m)
    BY AnswersStill
  <2>6. \A p \in Queries : \A x \in capture'[p].rows : RowStill(x, remaining, n, m)
    BY <1>2, <2>4, <2>5, CaptureStored DEF EvidenceTrue
  <2> HIDE DEF n, m
  <2>7. \A x : RowStill(x, remaining, n, m)' <=> RowStill(x, remaining, n, m)
    BY <2>1, <2>2 DEF RowStill, n, m
  <2> QED
    <3> WITNESS remaining, n
    <3> QED
      BY <2>1, <2>2, <2>3, <2>4, <2>6, <2>7 DEF SeenAs, n, m
<1>3. ASSUME UNCHANGED <<targetVars, fixedVars, capture, moved, seen>>
      PROVE  \E r, c : SeenAs(r, c)'
  <2>1. Capturing /\ ~moved
    BY <1>3 DEF Capturing
  <2>2. PICK r, c : SeenAs(r, c)
    BY <2>1 DEF SeenStill
  <2>3. UNCHANGED <<AcceptedOwn, AcceptedEquivalent, remaining, AllCaptured>>
    BY <1>3 DEF AcceptedOwn, AcceptedEquivalent, Equivalent, OwnScope, AllCaptured,
                targetVars, fixedVars
  <2> WITNESS r, c
  <2> QED
    BY <1>3, <2>2, <2>3 DEF SeenAs, RowStill
<1> QED
  BY <1>1, <1>2, <1>3, StepKinds

-----------------------------------------------------------------------------
(* What a PASS rests on *)

\* Values are absent, one, or in conflict.
LEMMA Converging ==
  ASSUME NEW V, convergeValues(V) # "absent", convergeValues(V) # "conflict"
  PROVE  convergeValues(V) = "one"
BY DEF convergeValues

\* The rule of effects passes an enumeration the target itself counted.
LEMMA EffectPass ==
  ASSUME NEW in, evaluateAtMostOneAcceptedEffect(in).verdict = "PASS"
  PROVE  /\ ~TooManyAccepted(in)
         /\ \E x \in BoundSummaries(in) : x.matching = Cardinality(Attributed(in))
<1>1. ~TooManyAccepted(in) /\ CompletenessVerdict(in).verdict = "PASS"
  BY DEF evaluateAtMostOneAcceptedEffect, gapResult, Result
<1> DEFINE totals == {x.matching : x \in BoundSummaries(in)}
<1>2. /\ convergeValues(totals) # "conflict" /\ convergeValues(totals) # "absent"
      /\ Cardinality(Attributed(in)) = TheValue(totals)
  BY <1>1 DEF CompletenessVerdict, gapResult, Result
<1> HIDE DEF totals
<1>3. TheValue(totals) \in totals
  BY <1>2, Converging, OneValue
<1> QED
  BY <1>1, <1>2, <1>3 DEF totals

\* The rule of conservation judges the arithmetic of a complete enumeration.
LEMMA ConservationJudged ==
  ASSUME NEW in
  PROVE  LET result == evaluateResourceConservation(in)
         IN  /\ result.verdict = "PASS" => ConservationPass(in)
             /\ result.verdict = "FAIL" /\ result.why = "RESOURCE_CONSERVATION_MISMATCH"
                => CaseC(in)
BY DEF evaluateResourceConservation, gapResult, Result

\* The summaries of the subject are rows of its total.
LEMMA SummaryFacts ==
  ASSUME EvidenceTrue, NEW kind, NEW in, in = EvaluationInput(kind), NEW x \in BoundSummaries(in)
  PROVE  x \in Entities /\ x.role = "total"
BY InputFacts DEF BoundSummaries, OfRole, Partition

\* The entities are the rows of valid captures.
LEMMA EntityRow ==
  ASSUME NEW x \in Entities
  PROVE  \E q \in Queries : x \in capture[q].rows
BY DEF Entities

\* A complete enumeration of a still target adds up as the target does.
LEMMA CompleteStill ==
  ASSUME EvidenceTrue, NEW r, NEW c, SeenAs(r, c), NEW kind,
         NEW in, in = EvaluationInput(kind), CompleteConsumption(in)
  PROVE  /\ Remaining(in) = r /\ Baseline(in) = Baseline0
         /\ acceptedReservedUnits(in) = c
<1>1. Baseline(in) = Baseline0
  BY OneValue, BoundUnitsFacts DEF CompleteConsumption, HasBaseline, Baseline, RowTrue
<1>2. Remaining(in) = r
  <2>1. Remaining(in) \in BoundUnits(in, "stock")
    BY OneValue DEF CompleteConsumption, HasRemaining, Remaining
  <2>2. PICK x \in in.entities : x.role = "stock" /\ x.units = Remaining(in)
    BY <2>1, BoundUnitsFacts
  <2>3. x \in Entities
    BY <2>2, InputFacts DEF Partition
  <2> QED
    BY <2>2, <2>3, EntityRow DEF SeenAs, RowStill
<1>3. acceptedReservedUnits(in) = c
  <2>1. /\ TheValue(Totals(in)) \in Totals(in)
        /\ TheValue(Totals(in)) = Cardinality(AttributedConsumption(in))
    BY OneValue DEF CompleteConsumption, completenessProven
  <2>2. PICK x \in BoundSummaries(in) : x.reserved = Cardinality(AttributedConsumption(in))
    BY <2>1 DEF Totals
  <2>3. x.reserved = c
    BY SummaryFacts, EntityRow DEF SeenAs, RowStill
  <2> QED
    BY <2>2, <2>3, CountedUnits
<1> QED
  BY <1>1, <1>2, <1>3

\* What is being published of a still target is so.
LEMMA EvaluationTruthful ==
  ASSUME EvidenceTrue, NEW r, NEW c, SeenAs(r, c), NEW kind \in Kinds,
         evaluateAndPersist(kind).eligible
  PROVE  LET result == evaluateAndPersist(kind)
         IN  /\ kind = "atMostOneAcceptedEffect" /\ result.verdict = "PASS"
                => seen.equivalent <= MaxAccepted
             /\ kind = "resourceConservation" /\ result.verdict = "PASS" => seen.conserved
             /\ kind = "resourceConservation" /\ result.verdict = "FAIL"
                /\ result.why = "RESOURCE_CONSERVATION_MISMATCH" => ~seen.conserved
<1>1. PICK in : /\ in = EvaluationInput(kind)
                /\ evaluateAndPersist(kind).verdict = evaluateGenericInvariant(kind, in).verdict
                /\ evaluateAndPersist(kind).why = evaluateGenericInvariant(kind, in).why
  BY Evaluated
<1>2. ASSUME kind = "atMostOneAcceptedEffect", evaluateAndPersist(kind).verdict = "PASS"
      PROVE  seen.equivalent <= MaxAccepted
  <2>1. PICK x \in BoundSummaries(in) :
          ~TooManyAccepted(in) /\ x.matching = Cardinality(Attributed(in))
    BY <1>1, <1>2, EffectPass DEF evaluateGenericInvariant
  <2>2. x.matching = seen.equivalent
    BY <1>1, SummaryFacts, EntityRow DEF SeenAs, RowStill
  <2>3. Cardinality(Attributed(in)) \in Nat
    BY <1>1, CountedEffects
  <2> QED
    BY <2>1, <2>2, <2>3, RulesAssumption DEF TooManyAccepted
<1>3. ASSUME kind = "resourceConservation"
      PROVE  /\ evaluateAndPersist(kind).verdict = "PASS" => ConservationPass(in)
             /\ evaluateAndPersist(kind).verdict = "FAIL"
                /\ evaluateAndPersist(kind).why = "RESOURCE_CONSERVATION_MISMATCH" => CaseC(in)
  BY <1>1, <1>3, ConservationJudged DEF evaluateGenericInvariant
<1>4. ConservationPass(in) => seen.conserved
  BY <1>1, CompleteStill DEF ConservationPass, Balanced, SeenAs
<1>5. CaseC(in) => ~seen.conserved
  BY <1>1, CompleteStill DEF CaseC, Balanced, SeenAs
<1> QED
  BY <1>2, <1>3, <1>4, <1>5

\* With a target that kept still while it was inspected, what passed was so and
\* a mismatch was one, for any number of orders and queries: no hidden order,
\* partial enumeration or unreadable row makes a PASS.
THEOREM PassTruthfulCorrect == Spec => []PassTruthful
<1>1. Init => StillInv
  <2> SUFFICES ASSUME Init PROVE StillInv
    OBVIOUS
  <2>1. ~Capturing /\ \A q \in Queries : capture[q].rows = {}
    BY DEF Init, Capturing, NoCapture
  <2>2. \A k \in Kinds : ~published[k].eligible
    BY DEF Init, NoEvaluation
  <2> QED
    BY <2>1, <2>2, EvidenceInit
    DEF StillInv, CapturedFirst, SeenStill, PassTruthful, Verdict, Kinds
<1>2. StillInv /\ [Next]_vars => StillInv'
  <2> SUFFICES ASSUME StillInv, [Next]_vars PROVE PassTruthful'
    BY EvidenceStep, CapturedFirstStep, SeenStep DEF StillInv
  <2> SUFFICES ASSUME ~moved' PROVE PassTruthful'
    BY DEF PassTruthful
  <2>1. CASE published' = published
    <3>1. \A k \in Kinds : published[k].eligible => Capturing
      BY DEF StillInv, CapturedFirst
    <3>2. Capturing => ~moved /\ seen' = seen
      <4>1. ASSUME NEW e \in Effects, Accept(e) PROVE seen' = seen /\ ~moved
        BY <4>1 DEF Accept, TargetMoves
      <4> QED
        BY <4>1, StepKinds DEF StillInv
    <3> QED
      BY <2>1, <3>1, <3>2 DEF StillInv, PassTruthful, Verdict, Kinds
  <2>2. CASE /\ Capturing /\ published' = [k \in Kinds |-> evaluateAndPersist(k)]
             /\ UNCHANGED <<targetVars, fixedVars, capture, moved, seen>>
    <3>1. PICK r, c : SeenAs(r, c)
      BY <2>2 DEF StillInv, SeenStill
    <3>2. \A k \in Kinds : published'[k] = evaluateAndPersist(k)
      BY <2>2
    <3>3. EvidenceTrue /\ seen' = seen
      BY <2>2 DEF StillInv
    <3> QED
      BY <3>1, <3>2, <3>3, EvaluationTruthful DEF PassTruthful, Verdict, Kinds
  <2> QED
    BY <2>1, <2>2, PublishedStep
<1> QED
  BY <1>1, <1>2, PTL DEF Spec, StillInv

-----------------------------------------------------------------------------
(* A FAIL stands *)

RowsFinite == \A q \in Queries : IsFiniteSet(capture[q].rows)

\* A policy lists its queries, so they are finitely many.
LEMMA QueriesFinite == IsFiniteSet(Queries)
<1> DEFINE D == {i \in DOMAIN Order : Order[i] \in Queries}
           f == [i \in D |-> Order[i]]
<1>1. IsFiniteSet(D)
  <2>1. IsFiniteSet(1 .. Len(Order))
    BY FS_Interval, InspectionAssumption
  <2>2. D \in SUBSET (1 .. Len(Order))
    BY InspectionAssumption
  <2> QED
    BY <2>1, <2>2, FS_Subset
<1>2. f \in Surjection(D, Queries)
  BY InspectionAssumption DEF Surjection
<1> HIDE DEF f, D
<1> QED
  BY <1>1, <1>2, FS_Surjection

\* Sets of one or two elements are finite.
LEMMA SmallSets ==
  /\ \A S : (S = {} \/ \E x : S = {x}) => IsFiniteSet(S)
  /\ \A x, S : (S = {} \/ \E y : S = {y}) => IsFiniteSet({x} \cup S)
<1>1. \A x : IsFiniteSet({x})
  BY FS_Singleton, Zenon
<1>2. ASSUME NEW S, S = {} \/ \E x : S = {x} PROVE IsFiniteSet(S)
  BY <1>1, <1>2, FS_EmptySet, Zenon
<1>3. ASSUME NEW x, NEW S, S = {} \/ \E y : S = {y} PROVE IsFiniteSet({x} \cup S)
  <2>1. IsFiniteSet({x}) /\ IsFiniteSet(S)
    BY <1>1, <1>2, <1>3, Zenon
  <2> QED
    BY <2>1, FS_Union
<1> QED
  BY <1>2, <1>3, Zenon

\* An answer has finitely many rows.
LEMMA AnswersFinite ==
  ASSUME EvidenceTrue, NEW q \in Queries, NEW c \in Captures(q)
  PROVE  IsFiniteSet(c.rows)
<1> USE InspectionAssumption, RulesAssumption
<1>1. c.rows = {} \/ c.rows \in Answers(q)
  BY DEF Captures
<1>2. CASE c.rows = {}
  BY <1>2, FS_EmptySet
<1>3. CASE c.rows \in Answers(q) /\ RoleOf[q] = "item"
  <2>1. c.rows = ItemRows(q)
    BY <1>3 DEF Answers
  <2> DEFINE B == CASE stray = "none" -> {}
                    [] stray = "undeclared" -> {ItemRow(q, Other, Own)}
                    [] stray = "outside" -> {ItemRow(q, Other, Foreign)}
                    [] stray = "mixed" -> {ItemRow(q, Item, Foreign)}
                    [] stray = "unreadable" -> {ItemRow(q, Redacted, Own)}
  <2>2. ItemRows(q) = {ItemRow(q, Item, Own)} \cup B
    BY DEF ItemRows
  <2>3. B = {} \/ \E y : B = {y}
    <3>1. stray \in {"none", "undeclared", "outside", "mixed", "unreadable"}
      BY DEF EvidenceTrue
    <3> QED
      BY <3>1
  <2> HIDE DEF B
  <2> QED
    <3> DEFINE x == ItemRow(q, Item, Own)
    <3> HIDE DEF x
    <3>1. IsFiniteSet({x} \cup B)
      BY <2>3, SmallSets, Zenon
    <3> QED
      BY <2>1, <2>2, <3>1 DEF x
<1>4. CASE c.rows \in Answers(q) /\ RoleOf[q] \in {"stock", "total"}
  <2>1. c.rows = {StockRow(q)} \/ c.rows = {TotalRow(q)}
    BY <1>4 DEF Answers
  <2> QED
    BY <2>1, SmallSets, Zenon
<1>5. CASE c.rows \in Answers(q) /\ RoleOf[q] = "order"
  <2>1. PICK listed \in SUBSET Effects : c.rows = UNION {OrderRows(q, e) : e \in listed}
    BY <1>5 DEF Answers
  <2> DEFINE R == {OrderRows(q, e) : e \in listed}
             f == [e \in listed |-> OrderRows(q, e)]
  <2>2. IsFiniteSet(listed)
    BY FS_Subset
  <2>3. f \in Surjection(listed, R)
    BY DEF Surjection
  <2>4. \A r \in R : IsFiniteSet(r)
    <3> SUFFICES ASSUME NEW e \in listed PROVE IsFiniteSet(OrderRows(q, e))
      OBVIOUS
    <3> DEFINE B == IF shape[e] = "twice" THEN {OrderRow(q, e, FALSE)} ELSE {}
    <3>1. B = {} \/ \E y : B = {y}
      OBVIOUS
    <3>2. OrderRows(q, e) = {OrderRow(q, e, e \in accepted)} \cup B
      BY DEF OrderRows
    <3> DEFINE x == OrderRow(q, e, e \in accepted)
    <3> HIDE DEF B, x
    <3>3. IsFiniteSet({x} \cup B)
      BY <3>1, SmallSets, Zenon
    <3> QED
      BY <3>2, <3>3 DEF x
  <2> HIDE DEF R, f
  <2>5. IsFiniteSet(R)
    BY <2>2, <2>3, FS_Surjection
  <2> QED
    BY <2>1, <2>4, <2>5, FS_UNION DEF R
<1> QED
  BY <1>1, <1>2, <1>3, <1>4, <1>5

\* Every stored capture stays finite.
LEMMA RowsFiniteStep == EvidenceTrue /\ RowsFinite /\ [Next]_vars => RowsFinite'
<1> SUFFICES ASSUME EvidenceTrue, RowsFinite, [Next]_vars PROVE RowsFinite'
  OBVIOUS
<1>1. CASE capture' = capture
  BY <1>1 DEF RowsFinite
<1>2. ASSUME NEW q \in Queries, NEW c \in Captures(q), capture' = [capture EXCEPT ![q] = c]
      PROVE  RowsFinite'
  BY <1>2, AnswersFinite, CaptureStored DEF EvidenceTrue, RowsFinite
<1> QED
  BY <1>1, <1>2, CaptureStep

\* The evidence is finite.
LEMMA EntitiesFinite ==
  ASSUME RowsFinite
  PROVE  IsFiniteSet(Entities)
<1> DEFINE V == {p \in Queries : capture[p].state = "valid"}
           R == {capture[q].rows : q \in V}
           f == [q \in V |-> capture[q].rows]
<1>1. IsFiniteSet(V)
  BY QueriesFinite, FS_Subset
<1>2. f \in Surjection(V, R)
  BY DEF Surjection
<1>3. \A r \in R : IsFiniteSet(r)
  BY DEF RowsFinite
<1>4. Entities = UNION R
  BY DEF Entities
<1> HIDE DEF V, R, f
<1> QED
  BY <1>1, <1>2, <1>3, <1>4, FS_Surjection, FS_UNION

\* Unless its identity is contested, a row agrees with the effect that is
\* counted for it.
LEMMA AgreeingEffect ==
  ASSUME NEW S, IsFiniteSet(S), NEW x \in S, x.ident \notin ContestedIdents(S)
  PROVE  \E y \in DistinctEffects(S) :
           y.ident = x.ident /\ stripProvenance(y) = stripProvenance(x)
<1> DEFINE id == x.ident
           G == GroupOf(S, id)
           T == {stripProvenance(y) : y \in G}
           f == [y \in G |-> stripProvenance(y)]
           one == CHOOSE y \in G : TRUE
<1>1. id \in Idents(S) /\ x \in G
  BY DEF Idents, GroupOf
<1>2. IsFiniteSet(G)
  BY FS_Subset DEF GroupOf
<1>3. f \in Surjection(G, T)
  BY DEF Surjection
<1>4. ~(Cardinality(T) > 1)
  BY <1>1 DEF ContestedIdents
<1>5. one \in G /\ one.ident = id /\ one \in DistinctEffects(S)
  <2>1. one \in G
    BY <1>1
  <2>2. one \in DistinctEffects(S)
    BY <1>1 DEF DistinctEffects
  <2> HIDE DEF one
  <2> QED
    BY <2>1, <2>2 DEF GroupOf
<1>6. stripProvenance(x) \in T /\ stripProvenance(one) \in T
  BY <1>1, <1>5
<1> HIDE DEF T, f, one, G
<1>7. IsFiniteSet(T) /\ Cardinality(T) \in Nat
  BY <1>2, <1>3, FS_Surjection, FS_CardinalityType
<1>8. Cardinality(T) = 1
  BY <1>4, <1>6, <1>7, FS_EmptySet
<1>9. stripProvenance(x) = stripProvenance(one)
  BY <1>6, <1>7, <1>8, FS_Singleton
<1> QED
  BY <1>5, <1>9

\* A row of an order that reads as accepted, and of the scope of the run.
Consumed(x) ==
  /\ x.role = "order" /\ ~isNonProvableValue(x.ident)
  /\ x.accepted = TRUE
  /\ coherentScope(Own, x.scope)

\* The orders some row of the evidence shows as accepted; those some row shows
\* as equivalent as well.
ConsumedOrders ==
  {e \in Effects : \E x \in Partition(Item) : Consumed(x) /\ x.ident = e}

WorthyOrders ==
  {e \in Effects : \E x \in Partition(Item) :
     /\ Consumed(x) /\ x.ident = e
     /\ ~isNonProvableValue(x.equiv) /\ x.equiv = Item}

NegativeStock ==
  \E x \in Partition(Item) :
    /\ x.role = "stock" /\ coherentScope(Own, x.scope)
    /\ x.units \in Int /\ x.units < 0

\* What is left of the proof of a FAIL while evidence is added to it.
FailStands ==
  /\ Verdict("atMostOneAcceptedEffect", "FAIL") => Cardinality(WorthyOrders) > MaxAccepted
  /\ Verdict("resourceConservation", "FAIL") =>
       \/ Cardinality(ConsumedOrders) > Baseline0
       \/ NegativeStock
       \/ AllCaptured /\ CaseC(EvaluationInput("resourceConservation"))

\* An identified row of the subject that counts names one of the orders.
LEMMA NamedOrder ==
  ASSUME EvidenceTrue, NEW kind, NEW in, in = EvaluationInput(kind), NEW x \in Identified(in)
  PROVE  /\ x \in Partition(Item) /\ x.role = "order" /\ ~isNonProvableValue(x.ident)
         /\ x.ident \in Effects
         /\ {"ident", "equiv", "accepted", "scope", "units"} \subseteq DOMAIN x \ {"query"}
<1>1. x \in in.entities /\ x.role = "order" /\ x.ident # Redacted
  BY DEF Identified, OfRole, isNonProvableValue
<1> QED
  BY <1>1, InputFacts DEF RowTrue, OrderTrue, isNonProvableValue

\* Rows that agree declare the same.
LEMMA AgreeingFields ==
  ASSUME NEW x, NEW y, stripProvenance(x) = stripProvenance(y), NEW f,
         f \in DOMAIN x \ {"query"}, f \in DOMAIN y \ {"query"}
  PROVE  x[f] = y[f]
<1>1. stripProvenance(x)[f] = x[f] /\ stripProvenance(y)[f] = y[f]
  BY DEF stripProvenance
<1> QED
  BY <1>1

\* The orders that rows show can be counted.
LEMMA OrdersFinite ==
  /\ IsFiniteSet(WorthyOrders) /\ Cardinality(WorthyOrders) \in Nat
  /\ IsFiniteSet(ConsumedOrders) /\ Cardinality(ConsumedOrders) \in Nat
<1>1. WorthyOrders \in SUBSET Effects /\ ConsumedOrders \in SUBSET Effects
  BY DEF WorthyOrders, ConsumedOrders
<1> QED
  BY <1>1, InspectionAssumption, FS_Subset, FS_CardinalityType

\* Entities that can be counted are finitely many.
LEMMA CountableFinite ==
  ASSUME RowsFinite, EvidenceTrue, NEW kind, NEW in, in = EvaluationInput(kind)
  PROVE  IsFiniteSet(Identified(in)) /\ IsFiniteSet(Consumption(in))
<1>1. Identified(in) \in SUBSET Entities /\ Consumption(in) \in SUBSET Entities
  BY InputFacts DEF Identified, OfRole, Consumption, Partition
<1> QED
  BY <1>1, EntitiesFinite, FS_Subset

\* A set of effects that holds one for every order of a set is as large.
LEMMA CoveredOrders ==
  ASSUME NEW A, NEW D, IsFiniteSet(D), \A e \in A : \E x \in D : x.ident = e
  PROVE  IsFiniteSet(A) /\ Cardinality(A) <= Cardinality(D)
<1> DEFINE B == {x \in D : x.ident \in A}
           f == [x \in B |-> x.ident]
<1>1. IsFiniteSet(B) /\ Cardinality(B) <= Cardinality(D)
  BY FS_Subset
<1>2. f \in Surjection(B, A)
  BY DEF Surjection
<1> HIDE DEF B, f
<1>3. IsFiniteSet(A) /\ Cardinality(A) <= Cardinality(B)
  BY <1>1, <1>2, FS_Surjection
<1>4. IsFiniteSet(A) => Cardinality(A) \in Nat /\ Cardinality(B) \in Nat /\ Cardinality(D) \in Nat
  BY <1>1, FS_CardinalityType
<1> QED
  BY <1>1, <1>3, <1>4

\* The effects counted in a FAIL are orders that rows show as accepted.
LEMMA FailEffects ==
  ASSUME EvidenceTrue, NEW kind, NEW in, in = EvaluationInput(kind), TooManyAccepted(in)
  PROVE  Cardinality(WorthyOrders) > MaxAccepted
<1>1. Attributed(in) \in SUBSET DistinctEffects(Identified(in))
  BY DEF Attributed, Candidates
<1>2. \A x \in Attributed(in) : x.ident \in WorthyOrders
  <2> TAKE x \in Attributed(in)
  <2>1. x \in Identified(in) /\ CandidateWorthy(in, x)
    BY DistinctByIdent DEF Attributed, Candidates
  <2> QED
    BY <2>1, NamedOrder, InputFacts DEF CandidateWorthy, WorthyOrders, Consumed
<1>3. /\ Cardinality(Attributed(in)) \in Nat
      /\ Cardinality(Attributed(in)) <= Cardinality(WorthyOrders)
  BY <1>1, <1>2, OrdersFinite, CountByIdent
<1> QED
  BY <1>3, OrdersFinite, RulesAssumption DEF TooManyAccepted

\* Units over the baseline are orders that rows show as accepted.
LEMMA FailUnits ==
  ASSUME EvidenceTrue, NEW kind, NEW in, in = EvaluationInput(kind), CaseA(in)
  PROVE  Cardinality(ConsumedOrders) > Baseline0
<1>1. AttributedConsumption(in) \in SUBSET DistinctEffects(Consumption(in))
  BY DEF AttributedConsumption, AcceptedConsumption, WellFormed, AcceptedDistinct
<1>2. \A x \in AttributedConsumption(in) : x.ident \in ConsumedOrders
  <2> TAKE x \in AttributedConsumption(in)
  <2>1. x \in AcceptedDistinct(in) /\ coherentScope(in.subject.scope, x.scope)
    BY DEF AttributedConsumption, AcceptedConsumption, WellFormed
  <2>2. x \in Identified(in) /\ x.accepted = TRUE
    BY <2>1, DistinctByIdent DEF AcceptedDistinct, Consumption
  <2> QED
    BY <2>1, <2>2, NamedOrder, InputFacts DEF ConsumedOrders, Consumed
<1>3. /\ Cardinality(AttributedConsumption(in)) \in Nat
      /\ Cardinality(AttributedConsumption(in)) <= Cardinality(ConsumedOrders)
  BY <1>1, <1>2, OrdersFinite, CountByIdent
<1>4. acceptedReservedUnits(in) = Cardinality(AttributedConsumption(in))
  BY CountedUnits
<1>5. Baseline(in) = Baseline0
  BY OneValue, BoundUnitsFacts DEF CaseA, HasBaseline, Baseline, RowTrue
<1> QED
  BY <1>3, <1>4, <1>5, OrdersFinite, InspectionAssumption DEF CaseA

\* A negative stock that is proved is a row of the evidence.
LEMMA FailStock ==
  ASSUME EvidenceTrue, NEW kind, NEW in, in = EvaluationInput(kind), negativeRemainingProven(in)
  PROVE  NegativeStock
<1>1. /\ Remaining(in) \in BoundUnits(in, "stock")
      /\ Remaining(in) \in Int /\ Remaining(in) < 0
  BY OneValue DEF negativeRemainingProven, HasRemaining, Remaining
<1> QED
  BY <1>1, InputFacts DEF BoundUnits, OfRole, NegativeStock

\* What the rule of effects passes shows no more orders than are allowed: a row
\* it does not count for its order is contested or not attributed, which is a
\* gap.
LEMMA PassEffects ==
  ASSUME RowsFinite, EvidenceTrue, NEW kind, NEW in, in = EvaluationInput(kind),
         evaluateAtMostOneAcceptedEffect(in).verdict = "PASS"
  PROVE  Cardinality(WorthyOrders) <= MaxAccepted
<1>1. ~TooManyAccepted(in) /\ ~AffectingContested(in) /\ Candidates(in) = Attributed(in)
  BY DEF evaluateAtMostOneAcceptedEffect, gapResult, Result
<1>2. IsFiniteSet(Attributed(in)) /\ Cardinality(Attributed(in)) \in Nat
  <2>1. Attributed(in) \in SUBSET Identified(in)
    BY DistinctByIdent DEF Attributed, Candidates
  <2> QED
    BY <2>1, CountableFinite, FS_Subset, FS_CardinalityType
<1>3. \A e \in WorthyOrders : \E y \in Attributed(in) : y.ident = e
  <2> TAKE e \in WorthyOrders
  <2>1. PICK x \in Partition(Item) :
          /\ Consumed(x) /\ x.ident = e /\ ~isNonProvableValue(x.equiv) /\ x.equiv = Item
    BY DEF WorthyOrders
  <2>2. x \in Identified(in) /\ CandidateWorthy(in, x)
    BY <2>1, InputFacts DEF Identified, OfRole, CandidateWorthy, Consumed
  <2>3. x.ident \notin ContestedIdents(Identified(in))
    BY <1>1, <2>2 DEF AffectingContested, GroupOf
  <2>4. IsFiniteSet(Identified(in))
    BY CountableFinite
  <2>5. PICK y \in DistinctEffects(Identified(in)) :
          y.ident = x.ident /\ stripProvenance(y) = stripProvenance(x)
    BY <2>2, <2>3, <2>4, AgreeingEffect
  <2>6. y \in Identified(in)
    BY DistinctByIdent
  <2>7. y.accepted = x.accepted /\ y.equiv = x.equiv /\ y.scope = x.scope
    BY <2>2, <2>5, <2>6, NamedOrder, AgreeingFields
  <2>8. CandidateWorthy(in, y)
    BY <2>2, <2>7 DEF CandidateWorthy
  <2> QED
    BY <1>1, <2>1, <2>5, <2>8 DEF Candidates
<1>4. Cardinality(WorthyOrders) <= Cardinality(Attributed(in))
  BY <1>2, <1>3, CoveredOrders
<1> QED
  BY <1>1, <1>2, <1>4, OrdersFinite, RulesAssumption DEF TooManyAccepted

\* What the rule of conservation passes shows no more orders than there were
\* units, and no negative stock.
LEMMA PassUnits ==
  ASSUME RowsFinite, EvidenceTrue, NEW kind, NEW in, in = EvaluationInput(kind),
         ConservationPass(in)
  PROVE  Cardinality(ConsumedOrders) <= Baseline0 /\ ~NegativeStock
<1> DEFINE D == AttributedConsumption(in)
<1>1. /\ ContestedIdents(Consumption(in)) = {}
      /\ TypeInvalid(in) = {} /\ NegativeUnits(in) = {}
      /\ AcceptedConsumption(in) = D
  BY DEF ConservationPass, CompleteConsumption, CleanConsumption
<1>2. IsFiniteSet(D)
  <2>1. D \in SUBSET Consumption(in)
    BY DistinctByIdent DEF AttributedConsumption, AcceptedConsumption, WellFormed, AcceptedDistinct
  <2> QED
    BY <2>1, CountableFinite, FS_Subset
<1>3. \A e \in ConsumedOrders : \E y \in D : y.ident = e
  <2> TAKE e \in ConsumedOrders
  <2>1. PICK x \in Partition(Item) : Consumed(x) /\ x.ident = e
    BY DEF ConsumedOrders
  <2>2. x \in Consumption(in) /\ x \in Identified(in)
    BY <2>1, InputFacts DEF Consumption, Identified, OfRole, Consumed, Partition
  <2>3. IsFiniteSet(Consumption(in)) /\ x.ident \notin ContestedIdents(Consumption(in))
    BY <1>1, CountableFinite
  <2>4. PICK y \in DistinctEffects(Consumption(in)) :
          y.ident = x.ident /\ stripProvenance(y) = stripProvenance(x)
    BY <2>2, <2>3, AgreeingEffect
  <2>5. y \in Identified(in)
    BY DistinctByIdent DEF Consumption
  <2>6. y.accepted = x.accepted /\ y.scope = x.scope
    BY <2>2, <2>4, <2>5, NamedOrder, AgreeingFields
  <2>7. y \in AcceptedDistinct(in)
    BY <2>1, <2>6 DEF AcceptedDistinct, Consumed
  <2>8. y \in WellFormed(in)
    BY <1>1, <2>7 DEF WellFormed
  <2>9. coherentScope(in.subject.scope, y.scope)
    BY <2>1, <2>6, InputFacts DEF Consumed
  <2> QED
    BY <1>1, <2>1, <2>4, <2>8, <2>9 DEF AcceptedConsumption
<1>4. Cardinality(ConsumedOrders) <= Cardinality(D)
  BY <1>2, <1>3, CoveredOrders
<1>5. acceptedReservedUnits(in) = Cardinality(D) /\ Cardinality(D) \in Nat
  BY CountedUnits, <1>2, FS_CardinalityType
<1>6. Baseline(in) = Baseline0
  BY OneValue, BoundUnitsFacts
  DEF ConservationPass, CompleteConsumption, HasBaseline, Baseline, RowTrue
<1>7. Remaining(in) = Baseline0 - Cardinality(D) /\ Remaining(in) >= 0
  BY <1>5, <1>6 DEF ConservationPass, Balanced
<1>8. ~NegativeStock
  <2> SUFFICES ASSUME NegativeStock PROVE FALSE
    OBVIOUS
  <2>1. PICK x \in Partition(Item) :
          x.role = "stock" /\ coherentScope(Own, x.scope) /\ x.units \in Int /\ x.units < 0
    BY DEF NegativeStock
  <2> DEFINE V == BoundUnits(in, "stock")
  <2>2. x.units \in V
    BY <2>1, InputFacts DEF BoundUnits, OfRole
  <2>3. convergeValues(V) = "one" /\ Remaining(in) = TheValue(V)
    BY DEF ConservationPass, CompleteConsumption, HasRemaining, Remaining
  <2> HIDE DEF V
  <2>4. Cardinality(V) = 1
    BY <2>2, <2>3 DEF convergeValues
  <2>5. IsFiniteSet(V)
    <3> DEFINE S == {y \in OfRole(in, "stock") :
                       y.subject = in.subject.key /\ coherentScope(in.subject.scope, y.scope)}
               f == [y \in S |-> y.units]
    <3>1. S \in SUBSET Entities
      BY InputFacts DEF OfRole, Partition
    <3>2. f \in Surjection(S, V)
      BY DEF Surjection, V, BoundUnits
    <3> HIDE DEF S, f
    <3> QED
      BY <3>1, <3>2, EntitiesFinite, FS_Subset, FS_Surjection
  <2>6. TheValue(V) = x.units
    <3>1. TheValue(V) \in V
      BY <2>3, OneValue
    <3> QED
      BY <2>2, <2>4, <2>5, <3>1, FS_Singleton
  <2> QED
    BY <1>7, <2>1, <2>3, <2>6
<1> QED
  BY <1>4, <1>5, <1>7, <1>8, OrdersFinite, InspectionAssumption

\* Entities are only ever added.
LEMMA EntitiesGrow ==
  ASSUME EvidenceTrue, CapturedFirst, [Next]_vars
  PROVE  Entities \subseteq Entities'
<1>1. CASE capture' = capture
  BY <1>1 DEF Entities
<1>2. ASSUME NEW q \in Queries, NEW c \in Captures(q),
             capture[q].state = "absent", capture' = [capture EXCEPT ![q] = c]
      PROVE  Entities \subseteq Entities'
  BY <1>2, CaptureStored DEF EvidenceTrue, Entities
<1> QED
  BY <1>1, <1>2, CaptureStep

\* Once every query is captured the evidence is final.
LEMMA EvidenceFinal ==
  ASSUME EvidenceTrue, AllCaptured, [Next]_vars
  PROVE  capture' = capture
BY CaptureStep DEF AllCaptured

\* The same captures are the same evaluation input.
LEMMA SameInput ==
  ASSUME capture' = capture, NEW kind
  PROVE  EvaluationInput(kind)' = EvaluationInput(kind)
<1>1. Entities' = Entities
  BY DEF Entities
<1>2. contestedEventIds' = contestedEventIds
  BY <1>1 DEF contestedEventIds
<1>3. DirectEdges' = DirectEdges
  BY <1>1, <1>2 DEF DirectEdges
<1>4. ActiveEdges' = ActiveEdges
  BY <1>3 DEF ActiveEdges, ChainEdges
<1>5. Partition(Item)' = Partition(Item)
  BY <1>1 DEF Partition
<1> QED
  BY <1>2, <1>4, <1>5 DEF EvaluationInput, SubjectEvents

\* The proof of a FAIL that is being published outlasts it.
LEMMA FailEvaluated ==
  ASSUME EvidenceTrue, NEW kind \in Kinds,
         evaluateAndPersist(kind).eligible, evaluateAndPersist(kind).verdict = "FAIL"
  PROVE  /\ kind = "atMostOneAcceptedEffect" => Cardinality(WorthyOrders) > MaxAccepted
         /\ kind = "resourceConservation" =>
              \/ Cardinality(ConsumedOrders) > Baseline0
              \/ NegativeStock
              \/ AllCaptured /\ CaseC(EvaluationInput("resourceConservation"))
<1>1. PICK in : /\ in = EvaluationInput(kind)
                /\ evaluateAndPersist(kind).verdict = evaluateGenericInvariant(kind, in).verdict
                /\ evaluateAndPersist(kind).why = evaluateGenericInvariant(kind, in).why
  BY Evaluated
<1>2. CASE kind = "atMostOneAcceptedEffect"
  BY <1>1, <1>2, EffectFail, FailEffects DEF evaluateGenericInvariant
<1>3. CASE kind = "resourceConservation"
  <2>1. CaseA(in) \/ negativeRemainingProven(in) \/ CaseC(in)
    BY <1>1, <1>3, ConservationFail DEF evaluateGenericInvariant
  <2>2. CaseC(in) => AllCaptured
    <3> SUFFICES ASSUME CaseC(in), NEW q \in Queries PROVE capture[q].state # "absent"
      BY DEF AllCaptured
    <3>1. q \in RequiredForAuthority
      BY RulesAssumption DEF RequiredForAuthority, queriesForRole
    <3>2. in.captures[q] = "valid"
      BY <3>1 DEF CaseC, CompleteConsumption, captureInvalid
    <3>3. in.captures[q] = capture[q].state
      BY <1>1 DEF EvaluationInput
    <3> QED
      BY <3>2, <3>3
  <2> QED
    BY <1>1, <1>3, <2>1, <2>2, FailUnits, FailStock
<1> QED
  BY <1>2, <1>3 DEF Kinds

\* Where such a proof stands, no analysis passes.
LEMMA StandsAgainstPass ==
  ASSUME RowsFinite, EvidenceTrue, FailStands, NEW kind \in Kinds, Verdict(kind, "FAIL"),
         evaluateAndPersist(kind).eligible
  PROVE  evaluateAndPersist(kind).verdict # "PASS"
<1> SUFFICES ASSUME evaluateAndPersist(kind).verdict = "PASS" PROVE FALSE
  OBVIOUS
<1>1. PICK in : /\ in = EvaluationInput(kind)
                /\ evaluateAndPersist(kind).verdict = evaluateGenericInvariant(kind, in).verdict
                /\ evaluateAndPersist(kind).why = evaluateGenericInvariant(kind, in).why
  BY Evaluated
<1>2. CASE kind = "atMostOneAcceptedEffect"
  <2>1. Cardinality(WorthyOrders) <= MaxAccepted
    BY <1>1, <1>2, PassEffects DEF evaluateGenericInvariant
  <2> QED
    BY <1>2, <2>1, OrdersFinite, RulesAssumption DEF FailStands
<1>3. CASE kind = "resourceConservation"
  <2>1. ConservationPass(in)
    BY <1>1, <1>3, ConservationJudged DEF evaluateGenericInvariant
  <2>2. ~CaseC(in)
    BY <2>1 DEF CaseC, ConservationPass
  <2>3. Cardinality(ConsumedOrders) <= Baseline0 /\ ~NegativeStock
    BY <1>1, <2>1, PassUnits
  <2> QED
    BY <1>1, <1>3, <2>2, <2>3, OrdersFinite, InspectionAssumption DEF FailStands
<1> QED
  BY <1>2, <1>3 DEF Kinds

\* Evidence is added to the proof of a FAIL and never taken from it.
LEMMA ProofGrows ==
  ASSUME EvidenceTrue, CapturedFirst, [Next]_vars
  PROVE  /\ Cardinality(WorthyOrders) <= Cardinality(WorthyOrders')
         /\ Cardinality(ConsumedOrders) <= Cardinality(ConsumedOrders')
         /\ NegativeStock => NegativeStock'
         /\ AllCaptured /\ CaseC(EvaluationInput("resourceConservation")) =>
              (AllCaptured /\ CaseC(EvaluationInput("resourceConservation")))'
<1>1. Partition(Item) \subseteq Partition(Item)'
  BY EntitiesGrow DEF Partition
<1>2. WorthyOrders \subseteq WorthyOrders' /\ ConsumedOrders \subseteq ConsumedOrders'
  BY <1>1 DEF WorthyOrders, ConsumedOrders, Consumed
<1>3. IsFiniteSet(WorthyOrders') /\ IsFiniteSet(ConsumedOrders')
  <2>1. WorthyOrders' \in SUBSET Effects /\ ConsumedOrders' \in SUBSET Effects
    BY DEF WorthyOrders, ConsumedOrders
  <2> QED
    BY <2>1, InspectionAssumption, FS_Subset
<1>4. /\ Cardinality(WorthyOrders) <= Cardinality(WorthyOrders')
      /\ Cardinality(ConsumedOrders) <= Cardinality(ConsumedOrders')
  BY <1>2, <1>3, FS_Subset
<1>5. NegativeStock => NegativeStock'
  BY <1>1 DEF NegativeStock
<1>6. ASSUME AllCaptured, CaseC(EvaluationInput("resourceConservation"))
      PROVE  (AllCaptured /\ CaseC(EvaluationInput("resourceConservation")))'
  <2>1. capture' = capture
    BY <1>6, EvidenceFinal
  <2>2. AllCaptured'
    BY <1>6, <2>1 DEF AllCaptured
  <2>3. PICK in : in = EvaluationInput("resourceConservation")
    OBVIOUS
  <2>4. EvaluationInput("resourceConservation")' = in
    BY <2>1, <2>3, SameInput
  <2>5. CaseC(in)
    BY <1>6, <2>3
  <2> QED
    BY <2>2, <2>4, <2>5
<1> QED
  BY <1>4, <1>5, <1>6

StandsInv == EvidenceTrue /\ CapturedFirst /\ RowsFinite /\ FailStands

\* A step leaves every published FAIL its proof.
LEMMA FailStandsStep == StandsInv /\ [Next]_vars => FailStands'
<1> SUFFICES ASSUME StandsInv, [Next]_vars PROVE FailStands'
  OBVIOUS
<1>1. /\ Cardinality(WorthyOrders) \in Nat /\ Cardinality(WorthyOrders') \in Nat
      /\ Cardinality(ConsumedOrders) \in Nat /\ Cardinality(ConsumedOrders') \in Nat
  <2>1. /\ WorthyOrders \in SUBSET Effects /\ ConsumedOrders \in SUBSET Effects
        /\ WorthyOrders' \in SUBSET Effects /\ ConsumedOrders' \in SUBSET Effects
    BY DEF WorthyOrders, ConsumedOrders
  <2> QED
    BY <2>1, InspectionAssumption, FS_Subset, FS_CardinalityType
<1> DEFINE EffectProof == Cardinality(WorthyOrders) > MaxAccepted
           UnitProof ==
             \/ Cardinality(ConsumedOrders) > Baseline0
             \/ NegativeStock
             \/ AllCaptured /\ CaseC(EvaluationInput("resourceConservation"))
<1>2. (EffectProof => EffectProof') /\ (UnitProof => UnitProof')
  BY <1>1, ProofGrows, InspectionAssumption, RulesAssumption DEF StandsInv
<1>3. CASE published' = published
  BY <1>2, <1>3 DEF StandsInv, FailStands, Verdict
<1>4. CASE published' = [k \in Kinds |-> evaluateAndPersist(k)]
  <2>1. \A k \in Kinds : Verdict(k, "FAIL")' =>
          evaluateAndPersist(k).eligible /\ evaluateAndPersist(k).verdict = "FAIL"
    BY <1>4 DEF Verdict
  <2>2. /\ Verdict("atMostOneAcceptedEffect", "FAIL")' => EffectProof
        /\ Verdict("resourceConservation", "FAIL")' => UnitProof
    BY <2>1, FailEvaluated DEF StandsInv, Kinds
  <2> QED
    BY <1>2, <2>2 DEF FailStands
<1> QED
  BY <1>3, <1>4, PublishedStep DEF StandsInv

\* A published FAIL is never replaced by a PASS: captures are added between two
\* analyses and none is taken back, and the rows a FAIL rests on are counted
\* again, contested or left unattributed, which is a gap.
THEOREM FailNeverBecomesPassCorrect == Spec => FailNeverBecomesPass
<1>1. Init => StandsInv
  <2> SUFFICES ASSUME Init PROVE StandsInv
    OBVIOUS
  <2>1. ~Capturing /\ \A q \in Queries : capture[q].rows = {}
    BY DEF Init, Capturing, NoCapture
  <2>2. \A k \in Kinds : ~published[k].eligible
    BY DEF Init, NoEvaluation
  <2> QED
    BY <2>1, <2>2, EvidenceInit, FS_EmptySet
    DEF StandsInv, CapturedFirst, RowsFinite, FailStands, Verdict, Kinds
<1>2. StandsInv /\ [Next]_vars => StandsInv'
  BY EvidenceStep, CapturedFirstStep, RowsFiniteStep, FailStandsStep DEF StandsInv
<1>3. StandsInv /\ [Next]_vars =>
        [\A k \in Kinds : Verdict(k, "FAIL") => ~Verdict(k, "PASS")']_published
  <2> SUFFICES ASSUME StandsInv, [Next]_vars, published' # published,
                      NEW k \in Kinds, Verdict(k, "FAIL")
               PROVE  ~Verdict(k, "PASS")'
    OBVIOUS
  <2>1. published'[k] = evaluateAndPersist(k)
    BY PublishedStep
  <2> QED
    BY <2>1, StandsAgainstPass DEF StandsInv, Verdict
<1> QED
  BY <1>1, <1>2, <1>3, PTL DEF Spec, FailNeverBecomesPass

-----------------------------------------------------------------------------
(* Coverage *)

\* A valid capture of an items query holds all that the target answers.
ItemsStored ==
  \A q \in Queries : RoleOf[q] = "item" /\ capture[q].state = "valid" =>
    capture[q].rows = ItemRows(q)

\* What is stored of an items query stays all that the target answers.
LEMMA ItemsStoredStep == EvidenceTrue /\ ItemsStored /\ [Next]_vars => ItemsStored'
<1> SUFFICES ASSUME EvidenceTrue, ItemsStored, [Next]_vars PROVE ItemsStored'
  OBVIOUS
<1>1. stray' = stray
  BY TargetOnlyAccepts DEF fixedVars
<1>2. \A q : ItemRows(q)' = ItemRows(q)
  BY <1>1 DEF ItemRows
<1>3. CASE capture' = capture
  BY <1>2, <1>3 DEF ItemsStored
<1>4. ASSUME NEW q \in Queries, NEW c \in Captures(q), capture' = [capture EXCEPT ![q] = c]
      PROVE  ItemsStored'
  <2>1. RoleOf[q] = "item" /\ c.state = "valid" => c.rows = ItemRows(q)
    BY DEF Captures, Answers
  <2> QED
    BY <1>2, <1>4, <2>1, CaptureStored DEF EvidenceTrue, ItemsStored
<1> QED
  BY <1>3, <1>4, CaptureStep

\* The rows of a subject that can be placed are of one scope.
LEMMA OneScope ==
  ASSUME RowsFinite, NEW kind, NEW s, ~Indeterminate(kind, s),
         NEW x \in Partition(s), NEW y \in Partition(s)
  PROVE  x.scope = y.scope
<1> DEFINE V == {z.scope : z \in Partition(s)}
           f == [z \in Partition(s) |-> z.scope]
<1>1. ~(Cardinality(V) > 1)
  BY DEF Indeterminate
<1>2. IsFiniteSet(Partition(s))
  BY EntitiesFinite, FS_Subset DEF Partition
<1>3. f \in Surjection(Partition(s), V)
  BY DEF Surjection
<1>4. x.scope \in V /\ y.scope \in V
  OBVIOUS
<1> HIDE DEF V, f
<1>5. IsFiniteSet(V) /\ Cardinality(V) \in Nat
  BY <1>2, <1>3, FS_Surjection, FS_CardinalityType
<1>6. Cardinality(V) = 1
  BY <1>1, <1>4, <1>5, FS_EmptySet
<1> QED
  BY <1>4, <1>5, <1>6, FS_Singleton

\* Without a gap of eligibility nothing of the run's scope went undeclared.
LEMMA NoGapCovers ==
  ASSUME EvidenceTrue, RowsFinite, ItemsStored, NEW kind,
         Eligible(kind, Item), Gaps(kind) = {}
  PROVE  /\ anchor = "ESTABLISHED"
         /\ stray \in {"none", "outside"}
            \/ \A q \in Queries : RoleOf[q] = "item" => capture[q].state # "valid"
<1>1. /\ anchor = "ESTABLISHED"
      /\ ~\E s \in ObservedSubjects \ {Item} : ~Indeterminate(kind, s) /\ OfOwnScope(s)
      /\ ~\E x \in Entities : x.subject = Redacted
      /\ ~\E s \in ObservedSubjects : Indeterminate(kind, s)
  BY DEF Gaps
<1> SUFFICES ASSUME NEW q \in Queries, RoleOf[q] = "item", capture[q].state = "valid"
             PROVE  stray \in {"none", "outside"}
  BY <1>1
<1>2. ItemRows(q) \subseteq Entities
  BY DEF ItemsStored, Entities
<1>3. stray # "unreadable"
  <2> SUFFICES ASSUME stray = "unreadable" PROVE FALSE
    OBVIOUS
  <2>1. ItemRow(q, Redacted, Own) \in Entities
    BY <1>2 DEF ItemRows
  <2> QED
    BY <1>1, <2>1 DEF ItemRow
<1>4. stray # "mixed"
  <2> SUFFICES ASSUME stray = "mixed" PROVE FALSE
    OBVIOUS
  <2>1. ItemRow(q, Item, Foreign) \in Entities /\ ItemRow(q, Item, Own) \in Entities
    BY <1>2 DEF ItemRows
  <2>2. ItemRow(q, Item, Foreign) \in Partition(Item) /\ ItemRow(q, Item, Own) \in Partition(Item)
    BY <2>1 DEF Partition, ItemRow
  <2>3. ItemRow(q, Item, Foreign).scope = ItemRow(q, Item, Own).scope
    BY <2>2, OneScope DEF Eligible
  <2> QED
    BY <2>3, InspectionAssumption DEF ItemRow
<1>5. stray # "undeclared"
  <2> SUFFICES ASSUME stray = "undeclared" PROVE FALSE
    OBVIOUS
  <2>1. ItemRow(q, Other, Own) \in Entities
    BY <1>2 DEF ItemRows
  <2>2. ItemRow(q, Other, Own) \in Partition(Other) /\ Other \in ObservedSubjects
    BY <1>1, <2>1 DEF Partition, ObservedSubjects, ItemRow
  <2>3. ~Indeterminate(kind, Other)
    BY <1>1, <2>2
  <2>4. OfOwnScope(Other)
    <3> SUFFICES ASSUME NEW x \in Partition(Other) PROVE x.scope = Own
      BY DEF OfOwnScope
    <3>1. x.scope = ItemRow(q, Other, Own).scope
      BY <2>2, <2>3, OneScope
    <3> QED
      BY <3>1 DEF ItemRow
  <2> QED
    BY <1>1, <2>2, <2>3, <2>4, InspectionAssumption
<1> QED
  BY <1>3, <1>4, <1>5, InspectionAssumption DEF EvidenceTrue

\* What was published without a gap was published of an anchored run.
AnchoredFirst ==
  \A k \in Kinds : published[k].eligible /\ published[k].gaps = {} => anchor = "ESTABLISHED"

\* The anchor is fixed before anything is published.
LEMMA AnchoredFirstStep == EvidenceTrue /\ AnchoredFirst /\ [Next]_vars => AnchoredFirst'
<1> SUFFICES ASSUME EvidenceTrue, AnchoredFirst, [Next]_vars,
                    NEW k \in Kinds, published'[k].eligible, published'[k].gaps = {}
             PROVE  anchor = "ESTABLISHED"
  BY TargetOnlyAccepts DEF AnchoredFirst, fixedVars
<1>1. CASE published' = published
  BY <1>1 DEF AnchoredFirst
<1>2. CASE published' = [i \in Kinds |-> evaluateAndPersist(i)]
  BY <1>2 DEF evaluateAndPersist, NoEvaluation, Eligible, Indeterminate
<1> QED
  BY <1>1, <1>2, PublishedStep

\* A run whose evaluation names no gap of eligibility, and which no capture has
\* overtaken, has covered its declared subjects, whatever the queries and
\* their order.
THEOREM CoverageCompleteCorrect == Spec => []CoverageComplete
<1> DEFINE Inv == EvidenceTrue /\ CapturedFirst /\ RowsFinite /\ ItemsStored /\ AnchoredFirst
<1>1. Init => Inv
  <2> SUFFICES ASSUME Init PROVE Inv
    OBVIOUS
  <2>1. /\ \A q \in Queries : capture[q].state # "valid" /\ capture[q].rows = {}
        /\ \A k \in Kinds : ~published[k].eligible
    BY DEF Init, NoCapture, NoEvaluation
  <2> QED
    BY <2>1, EvidenceInit, FS_EmptySet
    DEF CapturedFirst, RowsFinite, ItemsStored, AnchoredFirst
<1>2. Inv /\ [Next]_vars => Inv'
  BY EvidenceStep, CapturedFirstStep, RowsFiniteStep, ItemsStoredStep, AnchoredFirstStep
<1>3. Inv => CoverageComplete
  <2> SUFFICES ASSUME Inv, NEW k \in Kinds,
                      published[k].eligible, published[k].gaps = {}, ~Stale(k)
               PROVE  \/ stray \in {"none", "outside"}
                      \/ \A q \in Queries : RoleOf[q] = "item" => capture[q].state # "valid"
    BY DEF CoverageComplete, AnchoredFirst
  <2>1. evaluateAndPersist(k).eligible /\ evaluateAndPersist(k).gaps = {}
    BY DEF Stale
  <2>2. Eligible(k, Item)
    BY <2>1 DEF evaluateAndPersist, NoEvaluation
  <2>3. Gaps(k) = {}
    BY <2>1, <2>2 DEF evaluateAndPersist
  <2> QED
    BY <2>2, <2>3, NoGapCovers
<1> QED
  BY <1>1, <1>2, <1>3, PTL DEF Spec
=============================================================================
