----------------------------- MODULE Definitions -----------------------------
(***************************************************************************)
(* What the engine accepts as intent: the target manifest                  *)
(* (engine/src/manifest.ts), the platform's credential grants              *)
(* (credential-authorization.ts), the business-invariant instances         *)
(* (generic-invariant-registry.ts), the run scope (run-scope.ts), the      *)
(* experiment document (validate.ts) and the document a snapshot freezes   *)
(* (snapshot.ts).  All of it is pure, so it is a set of operators.         *)
(*                                                                         *)
(*   origin   [scheme, host, form]: form is how it was written             *)
(*   grants   [signing, of]: the signing-capable references, and the       *)
(*            references granted to each normalized origin                 *)
(*   manifest [environment, origins, refs, contract, nodes, edges,         *)
(*            queries, sensitive, effects, subject, header, hook, shaped]  *)
(*   node     [role, described, fields]      fields: name -> type          *)
(*   edge     [from, to, kind, link]                                       *)
(*   query    [id, role, described, path, fields, identity]                *)
(*   instance [key, kind, version, params, shaped]                         *)
(*   scope    [setup, scopeField, generationField, subjects, shaped]       *)
(*   step     [name, method, path, mutation, retry, repeat, concurrency,   *)
(*            stagger, timeout, contract, header, tokens, refs, body,      *)
(*            fault, adapter, shaped]                                      *)
(*                                                                         *)
(* "shaped" stands for the closed keys, the grammars of names and the      *)
(* size limits of a document, which no other condition depends on.         *)
(***************************************************************************)
EXTENDS Integers, FiniteSets, Sequences

CONSTANTS
  ExecutorRefs,    \* EXECUTOR_CREDENTIAL_REFS
  FaultKinds,      \* CONTROLLED_FAULT_KINDS
  LegacyHeader, LegacyHookPath,   \* the seams of targets without a manifest
  ReservedHeaders, \* FORBIDDEN_SIGNATURE_HEADERS
  RedactedNames,   \* field names the platform always redacts before storage
  MaxSteps, MaxRepeat, MaxConcurrency, MaxStagger, MaxTriggers,
  MaxTimeout, MaxSubjects,        \* EXECUTION_LIMITS and RUN_SCOPE_LIMITS
  Absent           \* an optional value that is not there

ASSUME RefsAssumption == IsFiniteSet(ExecutorRefs)

FieldTypes == {"string", "integer-minor-units", "boolean", "timestamp"}

ContractKinds == {"GENERIC_HTTP", "DEMO_FINTECH_WEBHOOK"}

RegistryVersion == "business-invariant/v1"

-----------------------------------------------------------------------------
(***************************************************************************)
(* Origins and credential grants                                           *)
(***************************************************************************)
\* Case is normalized away; userinfo, paths and queries are refused.
Normalizable(o) ==
  o.form \in {"plain", "mixed-case"} /\ o.scheme \in {"http", "https"}

normalizeOrigin(o) == [scheme |-> o.scheme, host |-> o.host]

\* Two spellings of one origin are a duplicate.
OriginsAcceptable(origins) ==
  /\ origins # {}
  /\ \A o \in origins : Normalizable(o)
  /\ \A o, p \in origins : normalizeOrigin(o) = normalizeOrigin(p) => o = p

GrantedTo(grants, origin) ==
  IF origin \in DOMAIN grants.of THEN grants.of[origin] \cap ExecutorRefs ELSE {}

\* Mutant: one granted origin of the target is enough.
authorizedRefsForTarget_someOrigin(grants, origins) ==
  {r \in ExecutorRefs : \E o \in origins : r \in GrantedTo(grants, o)}

\* A reference is authorized for a target when every origin is granted it.
authorizedRefsForTarget(grants, origins) ==
  {r \in ExecutorRefs : origins # {} /\ \A o \in origins : r \in GrantedTo(grants, o)}

RefsAuthorized(grants, origins, refs) ==
  refs \subseteq authorizedRefsForTarget(grants, origins)

\* The declared references that could key the declared signature header.
SigningCandidates(grants, origins, m) ==
  m.refs \cap authorizedRefsForTarget(grants, origins) \cap grants.signing

SignatureResolvable(grants, origins, m) ==
  /\ RefsAuthorized(grants, origins, m.refs)
  /\ m.header # Absent => Cardinality(SigningCandidates(grants, origins, m)) = 1

\* The grants a process starts with are checked once (credential policy issues).
GrantsValid(grants) ==
  /\ grants.signing \subseteq ExecutorRefs
  /\ \A o \in DOMAIN grants.of : grants.of[o] \subseteq ExecutorRefs

-----------------------------------------------------------------------------
(***************************************************************************)
(* The target manifest                                                     *)
(***************************************************************************)
TypedFieldMap(fields) == \A f \in DOMAIN fields : fields[f] \in FieldTypes

Roles(nodes) == {n.role : n \in nodes}

EnvironmentAcceptable(m) ==
  /\ m.environment \in {"LOCAL_DEVELOPMENT", "STAGING"}
  /\ m.environment = "STAGING" => \A o \in m.origins : o.scheme = "https"

RefsDeclarable(m) == m.refs \subseteq ExecutorRefs

ContractDeclarable(m) == m.contract \in ContractKinds

\* A relative path stays on the registered origin, whatever its spelling.
validateRelativePath(path) == path \notin {"absolute", "escaping"}

\* An inspection path is also literal: nothing is interpolated into it.
validateInspectionPath(path) == validateRelativePath(path) /\ path # "template"

NodesAcceptable(m) ==
  /\ m.nodes # {}
  /\ \A n \in m.nodes : TypedFieldMap(n.fields)
  /\ \A n, k \in m.nodes : n.role = k.role => n = k

\* A node whose description is empty raises no issue, yet is left out of the
\* model; its role still counts as declared.
KeptNodes(m) == {n \in m.nodes : n.described}

NodeOf(nodes, role) == CHOOSE n \in nodes : n.role = role

\* An exact-equality edge links one field of one type on both its roles.
EdgeAcceptable(m, e) ==
  /\ {e.from, e.to} \subseteq Roles(m.nodes)
  /\ e.link # {}
  /\ \A n \in KeptNodes(m) : n.role \in {e.from, e.to} => e.link \subseteq DOMAIN n.fields
  /\ \A n, k \in KeptNodes(m) : n.role = e.from /\ k.role = e.to =>
       \A f \in e.link : n.fields[f] = k.fields[f]

EdgesAcceptable(m) ==
  /\ \A e \in m.edges : EdgeAcceptable(m, e)
  /\ \A e, d \in m.edges :
       <<e.from, e.to, e.kind>> = <<d.from, d.to, d.kind>> => e = d

\* Effects and the subject are declared roles.
DesignationsAcceptable(m) ==
  /\ m.effects \subseteq Roles(m.nodes)
  /\ m.subject # Absent => m.subject \in Roles(m.nodes)

QueryShapeAcceptable(m, q) ==
  /\ validateInspectionPath(q.path)
  /\ TypedFieldMap(q.fields)
  /\ q.identity \subseteq DOMAIN q.fields
  /\ \A p \in m.queries : p.id = q.id => p = q

\* Mutant: a query may give a field of its role another type.
CarriesRole_anyType(q, n) == DOMAIN n.fields \subseteq DOMAIN q.fields

\* A query carries every field of the role it is bound to, with its type.
CarriesRole(q, n) ==
  \A f \in DOMAIN n.fields : f \in DOMAIN q.fields /\ q.fields[f] = n.fields[f]

\* Only a described query is kept, and only a kept one is checked against its role.
KeptQueries(m) == {q \in m.queries : q.described}

QueriesBound(m) ==
  \A q \in KeptQueries(m) :
    /\ q.role \in Roles(m.nodes)
    /\ \A n \in KeptNodes(m) : n.role = q.role => CarriesRole(q, n)

\* An absent header is in order: the target's requests are then not signed.
SignatureHeaderDeclarable(m) == m.header \notin ReservedHeaders

HookAcceptable(m) ==
  m.hook # Absent =>
    /\ validateRelativePath(m.hook.path)
    /\ m.hook.kinds # {} /\ m.hook.kinds \subseteq FaultKinds

ManifestValid(m) ==
  /\ m.shaped
  /\ EnvironmentAcceptable(m)
  /\ OriginsAcceptable(m.origins)
  /\ RefsDeclarable(m)
  /\ ContractDeclarable(m)
  /\ \A q \in m.queries : QueryShapeAcceptable(m, q)
  /\ NodesAcceptable(m)
  /\ EdgesAcceptable(m)
  /\ DesignationsAcceptable(m)
  /\ QueriesBound(m)
  /\ SignatureHeaderDeclarable(m)
  /\ HookAcceptable(m)

-----------------------------------------------------------------------------
(***************************************************************************)
(* What is derived from a stored manifest, each time a document is checked *)
(* or frozen.  A target without a manifest derives Absent.                 *)
(***************************************************************************)
\* The manifest and its grants are checked again; a failure throws.
PolicyDerivable(grants, target) ==
  target.manifest # Absent =>
    /\ ManifestValid(target.manifest)
    /\ SignatureResolvable(grants, target.origins, target.manifest)

deriveExecutionPolicy(grants, target) ==
  LET m == target.manifest
  IN  IF m = Absent THEN Absent
      ELSE [header |-> m.header, hook |-> m.hook,
            signingRef |-> IF m.header = Absent THEN Absent
                           ELSE CHOOSE r \in SigningCandidates(grants, target.origins, m) : TRUE]

deriveEvidencePolicy(target) ==
  LET m == target.manifest
  IN  IF m = Absent THEN Absent
      ELSE [nodes |-> KeptNodes(m), edges |-> m.edges, queries |-> KeptQueries(m),
            sensitive |-> m.sensitive]

effectiveSignatureHeader(policy) ==
  IF policy = Absent THEN LegacyHeader ELSE policy.header

effectiveFaultHook(policy, contract) ==
  CASE policy # Absent -> policy.hook
    [] contract = "DEMO_FINTECH_WEBHOOK" -> [path |-> LegacyHookPath, kinds |-> FaultKinds]
    [] OTHER -> Absent

-----------------------------------------------------------------------------
(***************************************************************************)
(* business-invariant/v1 instances.  Declares is declaredTypeOf: the role  *)
(* or the query declares the field, and with the type that is required.    *)
(***************************************************************************)
AnyType == FieldTypes

Declares(surface, f, types) == f \in DOMAIN surface.fields /\ surface.fields[f] \in types

requireRole(policy, role) == role \in Roles(policy.nodes)

OnRole(policy, role, f, types) ==
  requireRole(policy, role) /\ Declares(NodeOf(policy.nodes, role), f, types)

QueryOf(policy, id) == CHOOSE q \in policy.queries : q.id = id

OnQuery(policy, id, f, types) ==
  (\E q \in policy.queries : q.id = id) /\ Declares(QueryOf(policy, id), f, types)

RoleType(policy, role, f) == NodeOf(policy.nodes, role).fields[f]

QueryType(policy, id, f) == QueryOf(policy, id).fields[f]

\* A timestamp is matched by a string; nothing is coerced.
scalarMatchesDeclaredType(valueType, declared) ==
  CASE declared = "timestamp" -> valueType = "string"
    [] declared = "integer-minor-units" -> valueType = "safe-integer"
    [] OTHER -> valueType = declared

ScopeFields(scope) ==
  scope.fields \cup (IF scope.generation = Absent THEN {} ELSE {scope.generation})

\* The scope is declared on every role and on the completeness query.
validateScopeBinding(policy, scope, roles, query) ==
  /\ scope.fields # {}
  /\ \A f \in ScopeFields(scope) :
       /\ \A r \in roles : OnRole(policy, r, f, AnyType)
       /\ OnQuery(policy, query, f, AnyType)

\* Every field that identifies, scopes, sums or totals in an instance of any kind.
forbiddenMatchFieldNames(p) ==
  ScopeFields(p.scope) \cup {p.proof.totalField, p.proof.subjectField}
    \cup {p[name] : name \in DOMAIN p \cap
             {"subjectIdentityField", "effectIdentityField", "resourceIdentityField",
              "consumptionEffectIdentityField", "baselineUnitsField", "remainingUnitsField",
              "consumptionUnitsField"}}
    \cup (IF "equivalence" \in DOMAIN p THEN p.equivalence ELSE {})

\* A match selects on a field with no other part in the instance.
validateAcceptedMatch(policy, p, role) ==
  /\ OnRole(policy, role, p.match.field, AnyType)
  /\ scalarMatchesDeclaredType(p.match.valueType, RoleType(policy, role, p.match.field))
  /\ p.match.field \notin forbiddenMatchFieldNames(p)

EquivalenceAcceptable(policy, p) ==
  /\ p.equivalence # {}
  /\ \A f \in p.equivalence :
       /\ OnRole(policy, p.subjectRole, f, AnyType)
       /\ OnRole(policy, p.effectRole, f, AnyType)
       /\ RoleType(policy, p.subjectRole, f) = RoleType(policy, p.effectRole, f)

\* The summary is keyed by the subject's identity and totals an integer.
CompletenessAcceptable(policy, p) ==
  /\ OnQuery(policy, p.proof.query, p.proof.subjectField, AnyType)
  /\ QueryType(policy, p.proof.query, p.proof.subjectField)
       = RoleType(policy, p.subjectRole, p.subjectIdentityField)
  /\ OnQuery(policy, p.proof.query, p.proof.totalField, {"integer-minor-units"})

validateAtMostOneParams(policy, p) ==
  /\ OnRole(policy, p.subjectRole, p.subjectIdentityField, AnyType)
  /\ OnRole(policy, p.effectRole, p.effectIdentityField, AnyType)
  /\ EquivalenceAcceptable(policy, p)
  /\ p.max \in Nat
  /\ CompletenessAcceptable(policy, p)
  /\ validateScopeBinding(policy, p.scope, {p.subjectRole, p.effectRole}, p.proof.query)
  /\ validateAcceptedMatch(policy, p, p.effectRole)

\* The summary's subject field is compared with the resource's type only when
\* the query declares it, and is not required: the total and the scope are.
SummaryAcceptable(policy, p) ==
  /\ OnQuery(policy, p.proof.query, p.proof.totalField, {"integer-minor-units"})
  /\ OnQuery(policy, p.proof.query, p.proof.subjectField, AnyType) =>
       QueryType(policy, p.proof.query, p.proof.subjectField)
         = RoleType(policy, p.baselineRole, p.resourceIdentityField)

\* The resource's identity is required of the baseline and of the consumption
\* role, not of the remaining role, and its types are not compared.
validateResourceConservationParams(policy, p) ==
  /\ requireRole(policy, p.remainingRole)
  /\ OnRole(policy, p.baselineRole, p.resourceIdentityField, AnyType)
  /\ OnRole(policy, p.consumptionEffectRole, p.resourceIdentityField, AnyType)
  /\ OnRole(policy, p.baselineRole, p.baselineUnitsField, {"integer-minor-units"})
  /\ OnRole(policy, p.remainingRole, p.remainingUnitsField, {"integer-minor-units"})
  /\ OnRole(policy, p.consumptionEffectRole, p.consumptionEffectIdentityField, AnyType)
  /\ OnRole(policy, p.consumptionEffectRole, p.consumptionUnitsField, {"integer-minor-units"})
  /\ SummaryAcceptable(policy, p)
  /\ validateScopeBinding(policy, p.scope,
       {p.baselineRole, p.remainingRole, p.consumptionEffectRole}, p.proof.query)
  /\ validateAcceptedMatch(policy, p, p.consumptionEffectRole)

validateGenericInvariantDefinition(policy, i) ==
  /\ i.shaped
  /\ i.version = RegistryVersion
  /\ \/ i.kind = "atMostOneAcceptedEffect" /\ validateAtMostOneParams(policy, i.params)
     \/ i.kind = "resourceConservation" /\ validateResourceConservationParams(policy, i.params)

InstanceKeys(instances) == {i.key : i \in instances}

deriveGenericInvariantBindings(policy, instances) ==
  /\ \A i \in instances : validateGenericInvariantDefinition(policy, i)
  /\ \A i, j \in instances : i.key = j.key => i = j

-----------------------------------------------------------------------------
(***************************************************************************)
(* The run scope                                                           *)
(***************************************************************************)
\* The types a field has wherever the policy declares it.
declaredTypesOf(policy, f) ==
  {s.fields[f] : s \in {x \in policy.nodes \cup policy.queries : f \in DOMAIN x.fields}}

\* The setup step is one step of the document and is sent exactly once.
SetupStepAcceptable(steps, name) ==
  /\ Cardinality({k \in 1 .. Len(steps) : steps[k].name = name}) = 1
  /\ \A k \in 1 .. Len(steps) : steps[k].name = name =>
       steps[k].repeat = 1 /\ steps[k].concurrency = 1 /\ steps[k].retry = "NONE"

\* The anchor is read from stored evidence, so its fields are never redacted.
AnchorFieldReadable(policy, f) ==
  f \notin policy.sensitive \cup ExecutorRefs \cup RedactedNames

\* Every instance, and only an instance, declares the subjects of this run.
SubjectsAcceptable(scope, instances) ==
  /\ DOMAIN scope.subjects = InstanceKeys(instances)
  /\ \A key \in DOMAIN scope.subjects :
       scope.subjects[key] # {} /\ Cardinality(scope.subjects[key]) <= MaxSubjects

\* The anchor is one string and one integer on every surface.
ScopePairComparable(policy, i) ==
  /\ Cardinality(i.params.scope.fields) = 1
  /\ \A f \in i.params.scope.fields : declaredTypesOf(policy, f) \subseteq {"string"}
  /\ i.params.scope.generation # Absent
  /\ declaredTypesOf(policy, i.params.scope.generation) \subseteq {"integer-minor-units"}

validateRunScopeDeclaration(policy, scope, steps, instances) ==
  /\ scope.shaped
  /\ SetupStepAcceptable(steps, scope.setup)
  /\ \A f \in {scope.scopeField, scope.generationField} : AnchorFieldReadable(policy, f)
  /\ SubjectsAcceptable(scope, instances)
  /\ \A i \in instances : ScopePairComparable(policy, i)

-----------------------------------------------------------------------------
(***************************************************************************)
(* The experiment document                                                 *)
(***************************************************************************)
\* The signature header carries the token the executor replaces, a bearer
\* header names a credential; any other header needs the allowlist.
HeadersAcceptable(policy, target, s) ==
  /\ CASE s.header = "signature" -> effectiveSignatureHeader(policy) # Absent
       [] OTHER -> s.header \in {"none", "bearer", "allowed"}
  /\ s.tokens \subseteq target.refs

BodyAcceptable(s) == s.body => s.method \notin {"GET", "HEAD"}

ClassificationAcceptable(target, s) ==
  /\ s.contract = target.contract
  /\ s.mutation \in {"MUTATING", "READ_ONLY"}
  /\ s.mutation = "READ_ONLY" => s.method \notin {"POST", "PUT", "PATCH", "DELETE"}

\* A fault is aimed at the declared hook of a local target, and nowhere else.
FaultAcceptable(policy, target, s) ==
  LET hook == effectiveFaultHook(policy, target.contract)
  IN  s.fault # Absent =>
        /\ s.fault.kind \in FaultKinds /\ s.fault.triggers \in 1 .. MaxTriggers
        /\ target.environment = "LOCAL_DEVELOPMENT" /\ s.mutation = "MUTATING"
        /\ hook # Absent
        /\ s.path = hook.path /\ s.fault.kind \in hook.kinds

LimitsRespected(s) ==
  /\ s.stagger \in 0 .. MaxStagger /\ (s.stagger > 0 => s.repeat >= 2)
  /\ s.repeat \in 1 .. MaxRepeat /\ s.concurrency \in 1 .. MaxConcurrency
  /\ s.timeout \in 1 .. MaxTimeout /\ s.retry \in {"NONE", "SAFE"}

StepAcceptable(policy, target, s) ==
  /\ s.shaped
  /\ validateRelativePath(s.path)
  /\ HeadersAcceptable(policy, target, s)
  /\ BodyAcceptable(s)
  /\ ClassificationAcceptable(target, s)
  /\ FaultAcceptable(policy, target, s)
  /\ LimitsRespected(s)
  /\ s.refs \subseteq target.refs
  /\ s.adapter \in {Absent, "demo-fintech-payment-lineage"}

StepsAcceptable(policy, target, steps) ==
  /\ Len(steps) \in 1 .. MaxSteps
  /\ \A k \in 1 .. Len(steps) : StepAcceptable(policy, target, steps[k])
  /\ \A j, k \in 1 .. Len(steps) : steps[j].name = steps[k].name => j = k
  /\ \A j, k \in 1 .. Len(steps) :
       steps[j].fault # Absent /\ steps[k].fault # Absent
         /\ steps[j].fault.kind = steps[k].fault.kind => j = k

\* Bindings and a run scope come together, and need a manifest.
GenericPartAcceptable(evidence, doc) ==
  IF doc.bindings = Absent THEN doc.scope = Absent
  ELSE /\ evidence # Absent
       /\ deriveGenericInvariantBindings(evidence, doc.bindings)
       /\ doc.bindings # {} /\ doc.scope # Absent
       /\ validateRunScopeDeclaration(evidence, doc.scope, doc.steps, doc.bindings)

validateExperimentDocument(grants, target, doc) ==
  /\ StepsAcceptable(deriveExecutionPolicy(grants, target), target, doc.steps)
  /\ GenericPartAcceptable(deriveEvidencePolicy(target), doc)

-----------------------------------------------------------------------------
(***************************************************************************)
(* The document a run is pinned to                                         *)
(***************************************************************************)
\* The lexicographically first origin is the one that is executed.
ExecutedOrigin(target, rank) ==
  CHOOSE o \in target.origins : \A p \in target.origins : rank[o] <= rank[p]

\* Everything generic is derived again from the stored rows; a failure throws.
Freezable(grants, target, doc) ==
  LET evidence == deriveEvidencePolicy(target)
  IN  /\ PolicyDerivable(grants, target)
      /\ doc.bindings # Absent =>
           evidence # Absent /\ deriveGenericInvariantBindings(evidence, doc.bindings)
      /\ doc.scope # Absent =>
           evidence # Absent
             /\ validateRunScopeDeclaration(evidence, doc.scope, doc.steps, doc.bindings)

buildSnapshotDocument(grants, target, revision, doc, rank) ==
  [target |-> target.name, environment |-> target.environment,
   contract |-> target.contract, origin |-> ExecutedOrigin(target, rank),
   refs |-> target.refs, policy |-> deriveExecutionPolicy(grants, target),
   evidence |-> deriveEvidencePolicy(target),
   bindings |-> IF doc.bindings = Absent THEN {} ELSE doc.bindings,
   scope |-> doc.scope, steps |-> doc.steps, revision |-> revision]

LegacyInvariants == {"INV-DF-1", "INV-DF-2", "INV-IZ-1"}

frozenInvariantKeys(frozen) ==
  CASE frozen.bindings # {} -> InstanceKeys(frozen.bindings)
    [] frozen.contract = "DEMO_FINTECH_WEBHOOK" /\ frozen.evidence = Absent ->
         LegacyInvariants
    [] OTHER -> {}
=============================================================================
