----------------------------- MODULE Inspection -----------------------------
(***************************************************************************)
(* The inspection of a target and the verdicts drawn from it: capture of   *)
(* the declared queries (generic-inspection.ts), normalization and         *)
(* derivation of what they returned (generic-normalizer.ts,                *)
(* generic-derive.ts), selection of the run's own subjects                 *)
(* (generic-eligibility.ts), evaluation (GenericRules) and the exit code   *)
(* of the CLI (exit-code.ts), while the target is still moving.            *)
(*                                                                         *)
(* One subject, Own, is declared; it is an item with Baseline units.  The  *)
(* target accepts orders for it and takes a unit of its stock, rightly or  *)
(* not.  How a row of an order reads is fixed by its shape: "clean",       *)
(* "other" (not equivalent), "nolink" and "noident" (the field redacted),  *)
(* "negative" (units below zero), "foreign" (another scope).               *)
(*                                                                         *)
(* Bounds: every order changes twice, every query is stored once.          *)
(***************************************************************************)
EXTENDS GenericRules, Sequences

CONSTANTS
  Effects,      \* orders the target may accept
  Shapes,       \* how their rows may read
  Strays,       \* what else the items query may return
  Own, Foreign, \* the scope of this run and another one
  Item, Other,  \* the declared subject and an undeclared one
  Baseline0,    \* the units the item started with
  CausalEdges,  \* the role pairs the frozen policy links
  Order,        \* the declared queries, in the order of the policy
  MaxOddities   \* bound: what may be unlike a clean run at once

ASSUME InspectionAssumption ==
  /\ Order \in Seq(Queries) /\ \A q \in Queries : \E i \in DOMAIN Order : Order[i] = q
  /\ Baseline0 \in Nat
  /\ IsFiniteSet(Effects)
  /\ Own # Foreign /\ Item # Other
  /\ Strays \subseteq {"none", "undeclared", "outside", "mixed", "unreadable"}

Kinds == {"atMostOneAcceptedEffect", "resourceConservation"}

VARIABLES
  accepted,   \* the orders the target has accepted; the others are pending
  remaining,  \* the stock the target records
  shape,      \* how the row of every order reads
  stray,      \* the extra item row
  anchor,     \* the state of the run's anchor
  capture,    \* what is stored of every query
  pos,        \* the position of the capture pass, 0 when none runs
  published,  \* the current evaluation of every invariant
  moved,      \* the target moved between two captures (history)
  seen        \* the target when the first capture was taken (history)

targetVars == <<accepted, remaining>>
fixedVars == <<shape, stray, anchor>>
vars == <<targetVars, fixedVars, capture, pos, published, moved, seen>>

NoCapture == [state |-> "absent", rows |-> {}]
NoEvaluation == [eligible |-> FALSE, verdict |-> "none", why |-> "none", gaps |-> {}]

-----------------------------------------------------------------------------
(***************************************************************************)
(* The target                                                              *)
(***************************************************************************)
OwnScope(e) == shape[e] # "foreign"

Equivalent(e) == OwnScope(e) /\ shape[e] # "other"

AcceptedOwn == {e \in accepted : OwnScope(e)}

AcceptedEquivalent == {e \in AcceptedOwn : Equivalent(e)}

Conserved == remaining >= 0 /\ remaining = Baseline0 - Cardinality(AcceptedOwn)

Truth ==
  [conserved |-> Conserved, equivalent |-> Cardinality(AcceptedEquivalent)]

OrderRow(q, e, isAccepted) ==
  [query |-> q, role |-> "order", subject |-> Item,
   ident |-> IF shape[e] = "noident" THEN Redacted ELSE e,
   equiv |-> IF shape[e] = "other" THEN Other ELSE Item,
   accepted |-> isAccepted,
   scope |-> IF OwnScope(e) THEN Own ELSE Foreign,
   units |-> IF shape[e] = "negative" THEN -1 ELSE 1,
   link |-> IF shape[e] = "nolink" THEN Redacted ELSE Item]

OrderRows(q, e) ==
  {OrderRow(q, e, e \in accepted)}
  \cup IF shape[e] = "twice" THEN {OrderRow(q, e, FALSE)} ELSE {}

ItemRow(q, subject, scope) ==
  [query |-> q, role |-> "item", subject |-> subject, equiv |-> subject,
   scope |-> scope, units |-> Baseline0, link |-> subject]

ItemRows(q) ==
  {ItemRow(q, Item, Own)} \cup
  CASE stray = "none" -> {}
    [] stray = "undeclared" -> {ItemRow(q, Other, Own)}
    [] stray = "outside" -> {ItemRow(q, Other, Foreign)}
    [] stray = "mixed" -> {ItemRow(q, Item, Foreign)}
    [] stray = "unreadable" -> {ItemRow(q, Redacted, Own)}

StockRow(q) ==
  [query |-> q, role |-> "stock", subject |-> Item, scope |-> Own,
   units |-> remaining, link |-> Item]

TotalRow(q) ==
  [query |-> q, role |-> "total", subject |-> Item, scope |-> Own,
   matching |-> Cardinality(AcceptedEquivalent),
   reserved |-> Cardinality(AcceptedOwn)]

\* What the target may answer to a query now: an enumeration of orders may
\* leave any of them out.
Answers(q) ==
  CASE RoleOf[q] = "item" -> {ItemRows(q)}
    [] RoleOf[q] = "stock" -> {{StockRow(q)}}
    [] RoleOf[q] = "total" -> {{TotalRow(q)}}
    [] RoleOf[q] = "order" ->
         {UNION {OrderRows(q, e) : e \in listed} : listed \in SUBSET Effects}

Capturing == \E q \in Queries : capture[q].state # "absent"
AllCaptured == \A q \in Queries : capture[q].state # "absent"

TargetMoves ==
  /\ moved' = (moved \/ (Capturing /\ ~AllCaptured))
  /\ UNCHANGED <<fixedVars, capture, pos, published, seen>>

\* An order is accepted; the unit is taken, or the update of the stock is lost.
Accept(e) ==
  /\ e \notin accepted
  /\ accepted' = accepted \cup {e}
  /\ remaining' \in IF OwnScope(e) THEN {remaining - 1, remaining} ELSE {remaining}
  /\ TargetMoves

-----------------------------------------------------------------------------
(***************************************************************************)
(* Capture: one query after the other, each stored once                    *)
(***************************************************************************)
Advance == IF pos = Len(Order) THEN 0 ELSE pos + 1

StartPass ==
  /\ pos = 0
  /\ pos' = Advance
  /\ UNCHANGED <<targetVars, fixedVars, capture, published, moved, seen>>

\* The process dies between two queries; a later pass starts over.
Crash ==
  /\ pos > 0
  /\ pos' = 0
  /\ UNCHANGED <<targetVars, fixedVars, capture, published, moved, seen>>

\* What an answer is stored as: a capture that is not a 2xx, complete,
\* well-formed array is stored as evidence, but is invalid and has no rows.
Captures(q) ==
  {[state |-> "invalid", rows |-> {}]} \cup
  {[state |-> "valid", rows |-> rows] : rows \in Answers(q)}

captureGenericInspectionQuery ==
  /\ pos > 0
  /\ LET q == Order[pos] IN
     \E c \in Captures(q) :
       \/ /\ capture[q].state = "absent"
          /\ capture' = [capture EXCEPT ![q] = c]
          /\ seen' = IF Capturing THEN seen ELSE Truth
          /\ pos' = Advance
       \/ /\ capture[q] = c                \* the same content: the same row
          /\ pos' = Advance
          /\ UNCHANGED <<capture, seen>>
       \/ /\ capture[q].state # "absent"   \* other content: an integrity conflict
          /\ capture[q] # c
          /\ pos' = 0
          /\ UNCHANGED <<capture, seen>>
  /\ UNCHANGED <<targetVars, fixedVars, published, moved>>

-----------------------------------------------------------------------------
(***************************************************************************)
(* Normalization and derivation                                            *)
(***************************************************************************)
\* Events come from valid captures of declared queries only.
Entities == UNION {capture[q].rows : q \in {p \in Queries : capture[p].state = "valid"}}

roleIdentity(x) == <<x.role, IF x.role = "order" THEN x.ident ELSE x.subject>>

\* One identity of a role with conflicting payloads: all of it is contested.
contestedEventIds ==
  {x \in Entities : \E y \in Entities :
     roleIdentity(x) = roleIdentity(y) /\ stripProvenance(x) # stripProvenance(y)}

Linked(x, y) ==
  /\ <<x.role, y.role>> \in CausalEdges
  /\ ~isNonProvableValue(x.link) /\ ~isNonProvableValue(y.link)
  /\ x.link = y.link

DirectEdges ==
  LET anchored == {x \in Entities \ contestedEventIds : x.role # "total"}
  IN  {e \in anchored \X anchored : Linked(e[1], e[2])}

\* Reachability over direct edges, persisted as edges of its own.
ChainEdges ==
  LET direct == DirectEdges
  IN  UNION {{<<x, y>> : y \in Reachable(direct, x) \ {x}} : x \in {e[1] : e \in direct}}

ActiveEdges == DirectEdges \cup ChainEdges

-----------------------------------------------------------------------------
(***************************************************************************)
(* Eligibility                                                             *)
(***************************************************************************)
Partition(subject) == {x \in Entities : x.subject = subject}

ObservedSubjects == {x.subject : x \in Entities} \ {Redacted}

identityBearing(kind, x) ==
  IF kind = "atMostOneAcceptedEffect" THEN x.role = "item" ELSE x.role # "order"

\* A group that cannot be classified is never assumed foreign.
Indeterminate(kind, subject) ==
  LET contested == contestedEventIds IN
  \/ \E x \in Partition(subject) : isNonProvableValue(x.scope)
  \/ Cardinality({x.scope : x \in Partition(subject)}) > 1
  \/ \E x \in Partition(subject) : identityBearing(kind, x) /\ x \in contested
  \/ anchor # "ESTABLISHED"

OfOwnScope(subject) == \A x \in Partition(subject) : x.scope = Own

Eligible(kind, subject) ==
  /\ subject \in ObservedSubjects
  /\ ~Indeterminate(kind, subject)
  /\ OfOwnScope(subject)
  /\ subject = Item

\* Mutant: an undeclared subject of the own scope is listed as foreign.
Gaps_ownUndeclared(kind) ==
  {g \in {"anchor", "missing", "indeterminate"} :
     \/ g = "anchor" /\ anchor # "ESTABLISHED"
     \/ g = "missing" /\ ~Eligible(kind, Item)
     \/ g = "indeterminate" /\ \E x \in Entities : x.subject = Redacted}

Gaps(kind) ==
  {g \in {"anchor", "missing", "unexpected", "indeterminate"} :
     \/ g = "anchor" /\ anchor # "ESTABLISHED"
     \/ g = "missing" /\ ~Eligible(kind, Item)
     \/ g = "unexpected" /\ \E s \in ObservedSubjects \ {Item} :
                              ~Indeterminate(kind, s) /\ OfOwnScope(s)
     \/ g = "indeterminate" /\ \/ \E x \in Entities : x.subject = Redacted
                               \/ \E s \in ObservedSubjects : Indeterminate(kind, s)}

-----------------------------------------------------------------------------
(***************************************************************************)
(* Analysis                                                                *)
(***************************************************************************)
SubjectEvents(kind) == {x \in Partition(Item) : identityBearing(kind, x)}

EvaluationInput(kind) ==
  [captures |-> [q \in Queries |-> capture[q].state],
   entities |-> Partition(Item),
   edges |-> {e \in ActiveEdges : e[1].subject = Item /\ e[2].subject = Item},
   contested |-> contestedEventIds,
   subject |-> [events |-> SubjectEvents(kind), key |-> Item, equiv |-> Item, scope |-> Own]]

\* One evaluation of the eligible subject, or of nothing.
evaluateAndPersist(kind) ==
  IF Eligible(kind, Item)
    THEN LET result == evaluateGenericInvariant(kind, EvaluationInput(kind))
         IN  [eligible |-> TRUE, verdict |-> result.verdict, why |-> result.why,
              gaps |-> Gaps(kind)]
    ELSE [NoEvaluation EXCEPT !.gaps = Gaps(kind)]

\* A pass evaluates every instance over one state of the evidence: a pass the
\* evidence overtook publishes nothing (Evidence.tla).  A pass while captures
\* are stored sees what one after a crash at that point sees.
runGenericInvariantAnalysis ==
  /\ pos = 0 /\ Capturing
  /\ published' = [k \in Kinds |-> evaluateAndPersist(k)]
  /\ UNCHANGED <<targetVars, fixedVars, capture, pos, moved, seen>>

-----------------------------------------------------------------------------
Oddities ==
  Cardinality({e \in Effects : shape[e] # "clean"})
  + (IF stray = "none" THEN 0 ELSE 1) + (IF anchor = "ESTABLISHED" THEN 0 ELSE 1)

Init ==
  /\ accepted = {}
  /\ remaining = Baseline0
  /\ shape \in [Effects -> Shapes]
  /\ stray \in Strays
  /\ anchor \in {"ESTABLISHED", "ANCHOR_UNPROVEN"}
  /\ Oddities <= MaxOddities
  /\ capture = [q \in Queries |-> NoCapture]
  /\ pos = 0
  /\ published = [k \in Kinds |-> NoEvaluation]
  /\ moved = FALSE
  /\ seen = Truth

Next ==
  \/ \E e \in Effects : Accept(e)
  \/ StartPass \/ Crash \/ captureGenericInspectionQuery
  \/ runGenericInvariantAnalysis

Spec == Init /\ [][Next]_vars

-----------------------------------------------------------------------------
(***************************************************************************)
(* Properties                                                              *)
(***************************************************************************)
Verdict(kind, verdict) == published[kind].eligible /\ published[kind].verdict = verdict

\* A lower-bound FAIL is true of the target whatever was left out of the
\* enumerations, whichever captures failed and however the target moved while
\* they were taken: more effects than allowed, more units than there were, a
\* negative stock (generic-invariant-evaluate.ts, lower-bound rules).
FailProven ==
  \A k \in Kinds : Verdict(k, "FAIL") =>
    /\ published[k].why = "TOO_MANY_ACCEPTED_EFFECTS" =>
         Cardinality(AcceptedEquivalent) > MaxAccepted
    /\ published[k].why = "RESOURCE_CONSERVATION_EXCEEDED_BASELINE" =>
         Cardinality(AcceptedOwn) > Baseline0
    /\ published[k].why = "RESOURCE_CONSERVATION_NEGATIVE_REMAINING" => remaining < 0

\* A PASS is never the work of a hidden order, a partial enumeration or an
\* unreadable row: with a target that kept still while it was inspected, what
\* passed was so, and a mismatch was one.
PassTruthful ==
  ~moved =>
    /\ Verdict("atMostOneAcceptedEffect", "PASS") => seen.equivalent <= MaxAccepted
    /\ Verdict("resourceConservation", "PASS") => seen.conserved
    /\ /\ Verdict("resourceConservation", "FAIL")
       /\ published["resourceConservation"].why = "RESOURCE_CONSERVATION_MISMATCH"
       => ~seen.conserved

\* More evidence may turn a verdict into a gap, never a FAIL into a PASS:
\* captures are added between two analyses and none is taken back.
FailNeverBecomesPass ==
  [][\A k \in Kinds : Verdict(k, "FAIL") => ~Verdict(k, "PASS")']_published

\* The evidence has changed since: a capture stored after an analysis advances
\* the provenance, and what was published no longer counts (Evidence.tla).
Stale(kind) == published[kind] # evaluateAndPersist(kind)

\* A run covers its declared subjects completely when no gap of eligibility is
\* left: its anchor is its own, and nothing of its scope that it did not
\* declare, and nothing that cannot be placed, was among what was captured
\* (generic-eligibility.ts, strict coverage).
CoverageComplete ==
  \A k \in Kinds : published[k].eligible /\ published[k].gaps = {} =>
    /\ anchor = "ESTABLISHED"
    /\ \/ stray \in {"none", "outside"}
       \/ \A q \in Queries : RoleOf[q] = "item" => capture[q].state # "valid"
       \/ Stale(k)
=============================================================================
