---------------------------- MODULE GenericRules ----------------------------
(***************************************************************************)
(* The evaluator of the generic business invariants                        *)
(* (packages/evidence/src/generic-invariant-evaluate.ts): which verdict a  *)
(* set of observed entities, capture statuses and active causal edges      *)
(* supports.  It is pure, so it is a set of operators.                     *)
(*                                                                         *)
(* An entity is a record with the query that returned it, the role the     *)
(* query declares, and the declared fields of its role:                    *)
(*   item   subject, equiv, scope, units (the baseline), link              *)
(*   stock  subject, scope, units (what remains), link                     *)
(*   order  subject, ident, equiv, accepted, scope, units, link            *)
(*   total  subject, scope, matching, reserved                             *)
(* An entity is its own event identifier.  scope stands for the tuple of   *)
(* the bound scope fields and the generation; Redacted for every value     *)
(* that can prove nothing (missing, null or redacted).                     *)
(*                                                                         *)
(* An evaluation input is a record: captures (the status of every declared *)
(* query), entities, edges, contested (the events derivation contests) and *)
(* subject = [events, key, equiv, scope].                           *)
(***************************************************************************)
EXTENDS Integers, FiniteSets, FiniteSetsExt

CONSTANTS
  Redacted,     \* a value that can never be an equality proof
  Queries,      \* the declared inspection queries
  RoleOf,       \* the role each of them is bound to
  MaxAccepted   \* maxAcceptedEffects of the atMostOneAcceptedEffect instance

ASSUME RulesAssumption ==
  /\ RoleOf \in [Queries -> {"item", "stock", "order", "total"}]
  /\ MaxAccepted \in Nat

isNonProvableValue(v) == v = Redacted

Result(verdict, why) == [verdict |-> verdict, why |-> why]

gapResult(gap) == Result("NOT_EVALUABLE", gap)

queriesForRole(role) == {q \in Queries : RoleOf[q] = role}

OfRole(in, role) == {x \in in.entities : x.role = role}

\* The queries of a required capture set that are absent or invalid.
captureInvalid(in, queries) == {q \in queries : in.captures[q] # "valid"}

\* Exact equality of the bound scope and generation, provable on both sides.
coherentScope(a, b) ==
  ~isNonProvableValue(a) /\ ~isNonProvableValue(b) /\ a = b

\* Zero values are absent, one value is usable however often it was seen,
\* several are a contradiction: nothing is summed or picked.
convergeValues(values) ==
  CASE values = {} -> "absent"
    [] Cardinality(values) = 1 -> "one"
    [] OTHER -> "conflict"

TheValue(values) == CHOOSE v \in values : TRUE

\* The events an identity-backed directed path of active edges leads to.
Reachable(edges, from) ==
  LET within[n \in Nat] ==
        IF n = 0 THEN {from}
        ELSE LET prior == within[n - 1]
             IN  prior \cup {e[2] : e \in {d \in edges : d[1] \in prior}}
  IN  within[Cardinality({e[2] : e \in edges})]

\* The events some event of the subject leads to.
attributable(in) == UNION {Reachable(in.edges, s) : s \in in.subject.events}

\* (The code looks at the first of them; eligibility lets no contested one in.)
SubjectContested(in) == in.subject.events \cap in.contested # {}

\* What a row declares, without the provenance the platform added.
stripProvenance(x) == [f \in DOMAIN x \ {"query"} |-> x[f]]

\* Effects with an identity the evaluator can count by.
Identified(in) ==
  {x \in OfRole(in, "order") : ~isNonProvableValue(x.ident)}

GroupOf(events, id) == {x \in events : x.ident = id}

Idents(events) == {x.ident : x \in events}

\* One identity with two different payloads: no winner is guessed.
ContestedIdents(events) ==
  {id \in Idents(events) :
     Cardinality({stripProvenance(x) : x \in GroupOf(events, id)}) > 1}

\* One entity for every identity whose observations agree.
DistinctEffects(events) ==
  {CHOOSE x \in GroupOf(events, id) : TRUE :
     id \in Idents(events) \ ContestedIdents(events)}

\* Summaries bound to the subject and to its scope; a foreign one is skipped.
BoundSummaries(in) ==
  {x \in OfRole(in, "total") :
     x.subject = in.subject.key /\ coherentScope(x.scope, in.subject.scope)}

ValidTotal(n) == n \in Nat

-----------------------------------------------------------------------------
(***************************************************************************)
(* atMostOneAcceptedEffect                                                 *)
(***************************************************************************)
SubjectProvable(in) ==
  /\ ~isNonProvableValue(in.subject.key)
  /\ ~isNonProvableValue(in.subject.scope)
  /\ ~isNonProvableValue(in.subject.equiv)

\* Mutant: an accepted effect counts whatever it is equivalent to.
CandidateWorthy_anyEquivalence(in, x) ==
  x.accepted = TRUE /\ coherentScope(in.subject.scope, x.scope)

CandidateWorthy(in, x) ==
  /\ x.accepted = TRUE
  /\ ~isNonProvableValue(x.equiv) /\ x.equiv = in.subject.equiv
  /\ coherentScope(in.subject.scope, x.scope)

Candidates(in) ==
  {x \in DistinctEffects(Identified(in)) : CandidateWorthy(in, x)}

Attributed(in) == Candidates(in) \cap attributable(in)

TooManyAccepted(in) == Cardinality(Attributed(in)) > MaxAccepted

\* A contested identity matters when one of its observations would count.
AffectingContested(in) ==
  \E id \in ContestedIdents(Identified(in)) :
    \E x \in GroupOf(Identified(in), id) : CandidateWorthy(in, x)

RequiredForPass ==
  queriesForRole("item") \cup queriesForRole("order") \cup queriesForRole("total")

\* The rules after the lower bound: the completeness of the enumeration.
CompletenessVerdict(in) ==
  LET totals == {x.matching : x \in BoundSummaries(in)}
      count == Cardinality(Attributed(in))
  IN  IF convergeValues(totals) = "conflict" THEN gapResult("EVIDENCE_CONFLICT")
      ELSE IF convergeValues(totals) = "absent"
           THEN gapResult("ENUMERATION_COMPLETENESS_GAP")
      ELSE IF ~ValidTotal(TheValue(totals)) \/ count > TheValue(totals)
           THEN gapResult("EVIDENCE_CONFLICT")
      ELSE IF count # TheValue(totals)
           THEN gapResult("ENUMERATION_COMPLETENESS_GAP")
      ELSE Result("PASS", "observed-total")

\* The order of the rules.  (The code asks whether the subject is contested
\* after the lower bound and inside it: the answer is the same gap.)
evaluateAtMostOneAcceptedEffect(in) ==
  IF ~SubjectProvable(in) THEN gapResult("SCOPE_INCOHERENT")
  ELSE IF SubjectContested(in) THEN gapResult("CONTESTED_IDENTITY")
  ELSE IF TooManyAccepted(in) THEN Result("FAIL", "TOO_MANY_ACCEPTED_EFFECTS")
  ELSE IF AffectingContested(in) THEN gapResult("CONTESTED_IDENTITY")
  ELSE IF Candidates(in) # Attributed(in) THEN gapResult("ATTRIBUTION_GAP")
  ELSE IF captureInvalid(in, RequiredForPass) # {}
       THEN gapResult("CAPTURE_INVALID_OR_ABSENT")
  ELSE CompletenessVerdict(in)

-----------------------------------------------------------------------------
(***************************************************************************)
(* resourceConservation                                                    *)
(***************************************************************************)
\* The values the bound, coherent entities of a role carry.
BoundUnits(in, role) ==
  {x.units : x \in {y \in OfRole(in, role) :
                      /\ y.subject = in.subject.key
                      /\ coherentScope(in.subject.scope, y.scope)}}

BaselineSurface(in) == captureInvalid(in, queriesForRole("item")) = {}

\* An authoritative baseline: every baseline query valid, one converged
\* value, a count.
HasBaseline(in) ==
  /\ BaselineSurface(in)
  /\ convergeValues(BoundUnits(in, "item")) = "one"
  /\ ValidTotal(TheValue(BoundUnits(in, "item")))

Baseline(in) == TheValue(BoundUnits(in, "item"))

BaselineConflict(in) ==
  /\ BaselineSurface(in)
  /\ convergeValues(BoundUnits(in, "item")) # "absent"
  /\ ~HasBaseline(in)

Consumption(in) == {x \in Identified(in) : x.subject = in.subject.key}

AcceptedDistinct(in) == {x \in DistinctEffects(Consumption(in)) : x.accepted = TRUE}

TypeInvalid(in) == {x \in AcceptedDistinct(in) : x.units \notin Int}

NegativeUnits(in) == {x \in AcceptedDistinct(in) \ TypeInvalid(in) : x.units < 0}

WellFormed(in) == (AcceptedDistinct(in) \ TypeInvalid(in)) \ NegativeUnits(in)

AcceptedConsumption(in) ==
  {x \in WellFormed(in) : coherentScope(in.subject.scope, x.scope)}

ConsumptionScopeMismatch(in) == WellFormed(in) \ AcceptedConsumption(in)

AttributedConsumption(in) == AcceptedConsumption(in) \cap attributable(in)

acceptedReservedUnits(in) ==
  MapThenSumSet(LAMBDA x : x.units, AttributedConsumption(in))

HasRemaining(in) ==
  /\ convergeValues(BoundUnits(in, "stock")) = "one"
  /\ TheValue(BoundUnits(in, "stock")) \in Int

Remaining(in) == TheValue(BoundUnits(in, "stock"))

RemainingContradiction(in) ==
  convergeValues(BoundUnits(in, "stock")) # "absent" /\ ~HasRemaining(in)

negativeRemainingProven(in) ==
  /\ captureInvalid(in, queriesForRole("stock")) = {}
  /\ HasRemaining(in)
  /\ Remaining(in) < 0

\* Case A: the distinct accepted attributed units alone exceed the baseline.
CaseA(in) == HasBaseline(in) /\ acceptedReservedUnits(in) > Baseline(in)

Totals(in) == {x.reserved : x \in BoundSummaries(in)}

SummaryConflict(in) ==
  \/ convergeValues(Totals(in)) = "conflict"
  \/ convergeValues(Totals(in)) = "one" /\ ~ValidTotal(TheValue(Totals(in)))

\* Mutant: any usable total is taken as proof of a complete enumeration.
completenessProven_anyTotal(in) == convergeValues(Totals(in)) = "one"

completenessProven(in) ==
  /\ convergeValues(Totals(in)) = "one"
  /\ TheValue(Totals(in)) = Cardinality(AttributedConsumption(in))

\* Nothing observed on the consumption surface is left out of the sum.
CleanConsumption(in) ==
  /\ AcceptedConsumption(in) = AttributedConsumption(in)
  /\ ContestedIdents(Consumption(in)) = {}
  /\ TypeInvalid(in) = {} /\ NegativeUnits(in) = {}
  /\ ConsumptionScopeMismatch(in) = {}

RequiredForAuthority ==
  UNION {queriesForRole(role) : role \in {"item", "stock", "order", "total"}}

CompleteConsumption(in) ==
  /\ HasBaseline(in) /\ HasRemaining(in)
  /\ ~SummaryConflict(in) /\ completenessProven(in)
  /\ captureInvalid(in, RequiredForAuthority) = {}
  /\ CleanConsumption(in)

Balanced(in) == Remaining(in) = Baseline(in) - acceptedReservedUnits(in)

\* Mutant: the arithmetic is judged without a complete enumeration.
CaseC_partial(in) == HasBaseline(in) /\ HasRemaining(in) /\ ~Balanced(in)

\* Case C: a complete enumeration and an arithmetic that does not add up.
CaseC(in) == CompleteConsumption(in) /\ ~Balanced(in)

ConservationPass(in) ==
  CompleteConsumption(in) /\ Balanced(in) /\ Remaining(in) >= 0

\* The gap that is named when no verdict is established, in the fixed order.
ConservationGap(in) ==
  IF ContestedIdents(Consumption(in)) # {} THEN "CONTESTED_IDENTITY"
  ELSE IF TypeInvalid(in) # {} \/ NegativeUnits(in) # {} THEN "EVIDENCE_CONFLICT"
  ELSE IF ConsumptionScopeMismatch(in) # {} THEN "SCOPE_INCOHERENT"
  ELSE IF ~HasBaseline(in)
       THEN IF BaselineConflict(in) THEN "EVIDENCE_CONFLICT" ELSE "BASELINE_MISSING"
  ELSE IF RemainingContradiction(in) THEN "EVIDENCE_CONFLICT"
  ELSE IF ~HasRemaining(in) THEN "REMAINING_MISSING"
  ELSE IF captureInvalid(in, RequiredForAuthority) # {} THEN "CAPTURE_INVALID_OR_ABSENT"
  ELSE IF SummaryConflict(in) THEN "EVIDENCE_CONFLICT"
  ELSE IF AcceptedConsumption(in) # AttributedConsumption(in) THEN "ATTRIBUTION_GAP"
  ELSE IF ~completenessProven(in) THEN "ENUMERATION_COMPLETENESS_GAP"
  ELSE "EVALUATION_SURFACE_ABSENT"

evaluateResourceConservation(in) ==
  IF isNonProvableValue(in.subject.key) THEN gapResult("SCOPE_INCOHERENT")
  ELSE IF SubjectContested(in) THEN gapResult("CONTESTED_IDENTITY")
  ELSE IF CaseA(in) THEN Result("FAIL", "RESOURCE_CONSERVATION_EXCEEDED_BASELINE")
  ELSE IF negativeRemainingProven(in)
       THEN Result("FAIL", "RESOURCE_CONSERVATION_NEGATIVE_REMAINING")
  ELSE IF CaseC(in) THEN Result("FAIL", "RESOURCE_CONSERVATION_MISMATCH")
  ELSE IF ConservationPass(in) THEN Result("PASS", "observed-total")
  ELSE gapResult(ConservationGap(in))

-----------------------------------------------------------------------------
evaluateGenericInvariant(kind, in) ==
  IF kind = "atMostOneAcceptedEffect" THEN evaluateAtMostOneAcceptedEffect(in)
  ELSE evaluateResourceConservation(in)
=============================================================================
