---------------------------- MODULE MCControlDb ----------------------------
(* The control-plane transactions under arbitrary callers, on small runs,    *)
(* and the commands that define, create and report runs, on documents that   *)
(* differ from a valid one in one place.  A behaviour is one of either.      *)
EXTENDS ControlDb, Client, TLC

CONSTANTS MaxClaims,   \* bound on the claims of one step
          Observed,    \* bound on the knowledge values callers report
          r1, s1, s2, w1

VARIABLE running

\* One run of two ordered steps.
OneRun == (s1 :> r1) @@ (s2 :> r1)
InOrder == (s1 :> 0) @@ (s2 :> 1)

Bounds ==
  \A s \in Steps :
    /\ fencingToken'[s] <= MaxClaims
    /\ invocations'[s] \cap Knowledge \subseteq IF s \in Mutating THEN Observed ELSE {}
    /\ sideEffectKnowledge'[s] \in Observed \cup {"null", "KNOWN_ABSENT"}

-----------------------------------------------------------------------------
(* A valid target and document *)

Origin(scheme, host, form) == [scheme |-> scheme, host |-> host, form |-> form]
A == Origin("http", "a", "plain")
B == Origin("http", "b", "mixed-case")
NA == normalizeOrigin(A)
Secure == Origin("https", "a", "plain")
NB == normalizeOrigin(B)
NS == normalizeOrigin(Secure)
MCRank == (NA :> 1) @@ (NB :> 2) @@ (NS :> 3)

Grants(a, b) == [signing |-> {"key", "spare"}, of |-> (NA :> a) @@ (NS :> a) @@ (NB :> b)]
MCPolicies == {Grants({"key", "token"}, {"key", "token"}), Grants({"token"}, {"key", "token"})}

Scoped(fields) == ("scope" :> "string") @@ ("gen" :> "integer-minor-units") @@ fields
Str(names) == [n \in names |-> "string"]
Num(names) == [n \in names |-> "integer-minor-units"]

RoleFields ==
  ("item"  :> Scoped(Str({"sku", "intent"}) @@ Num({"units"}))) @@
  ("stock" :> Scoped(Str({"sku"}) @@ Num({"left"}))) @@
  ("order" :> Scoped(Str({"sku", "intent", "ident"}) @@ Num({"units"}) @@ ("accepted" :> "boolean"))) @@
  ("total" :> Scoped(Str({"sku"}) @@ Num({"matching", "reserved"})))
RoleNames == DOMAIN RoleFields
FieldNames == UNION {DOMAIN RoleFields[r] : r \in RoleNames}

NodeFor(r) == [role |-> r, described |-> TRUE, fields |-> RoleFields[r]]
QueryFor(r) == [id |-> r, role |-> r, described |-> TRUE, path |-> "plain",
                fields |-> RoleFields[r], identity |-> {"scope"}]

Manifest ==
  [environment |-> "LOCAL_DEVELOPMENT", origins |-> {A}, refs |-> {"key"},
   contract |-> "GENERIC_HTTP", nodes |-> {NodeFor(r) : r \in RoleNames},
   edges |-> {[from |-> "item", to |-> "order", kind |-> "causes", link |-> {"intent"}]},
   queries |-> {QueryFor(r) : r \in RoleNames}, sensitive |-> {}, effects |-> {"order"},
   subject |-> "item", header |-> "x-signature",
   hook |-> [path |-> "hook", kinds |-> {"delay"}], shaped |-> TRUE]

InScope == [fields |-> {"scope"}, generation |-> "gen"]
Summary(field) == [query |-> "total", subjectField |-> "sku", totalField |-> field]
Accepted == [field |-> "accepted", valueType |-> "boolean"]

AtMostOne ==
  [subjectRole |-> "item", subjectIdentityField |-> "sku", effectRole |-> "order",
   effectIdentityField |-> "ident", equivalence |-> {"intent"}, max |-> 1,
   proof |-> Summary("matching"), scope |-> InScope, match |-> Accepted]

Conservation ==
  [baselineRole |-> "item", remainingRole |-> "stock", consumptionEffectRole |-> "order",
   resourceIdentityField |-> "sku", baselineUnitsField |-> "units",
   remainingUnitsField |-> "left", consumptionEffectIdentityField |-> "ident",
   consumptionUnitsField |-> "units", proof |-> Summary("reserved"), scope |-> InScope,
   match |-> Accepted]

AtMostInstance(params) ==
  [key |-> "k1", kind |-> "atMostOneAcceptedEffect", version |-> RegistryVersion,
   params |-> params, shaped |-> TRUE]
ConservationInstance(params) ==
  [key |-> "k2", kind |-> "resourceConservation", version |-> RegistryVersion,
   params |-> params, shaped |-> TRUE]
Both == {AtMostInstance(AtMostOne), ConservationInstance(Conservation)}

Step(name) ==
  [name |-> name, method |-> "POST", path |-> "plain", mutation |-> "MUTATING",
   retry |-> "NONE", repeat |-> 1, concurrency |-> 1, stagger |-> 0, timeout |-> 1,
   contract |-> "GENERIC_HTTP", header |-> "signature", tokens |-> {"key"}, refs |-> {"key"},
   body |-> TRUE, fault |-> Absent, adapter |-> Absent, shaped |-> TRUE]

RunScope(keys) ==
  [setup |-> "reset", scopeField |-> "scope", generationField |-> "gen",
   subjects |-> [k \in keys |-> {"s"}], shaped |-> TRUE]

Document ==
  [steps |-> <<Step("reset"), [Step("buy") EXCEPT !.repeat = 2]>>, bindings |-> Both,
   scope |-> RunScope({"k1", "k2"})]

Registration(m) ==
  [name |-> "shop", environment |-> m.environment, contract |-> m.contract,
   origins |-> m.origins, refs |-> m.refs, manifest |-> m]

Input(m, d) == [registration |-> Registration(m), document |-> d]

-----------------------------------------------------------------------------
(* One edit of them *)

\* A field of a role gets another type, or (Absent) disappears.
Edit(fields, f, t) ==
  [n \in IF t = Absent THEN DOMAIN fields \ {f} ELSE DOMAIN fields \cup {f} |->
     IF n = f THEN t ELSE fields[n]]

EditAll(surfaces, roles, f, t) ==
  {IF x.role \in roles THEN [x EXCEPT !.fields = Edit(@, f, t)] ELSE x : x \in surfaces}

Retyped ==
  UNION {UNION {
    {[Manifest EXCEPT !.nodes = EditAll(@, {r}, f, t)],
     [Manifest EXCEPT !.queries = EditAll(@, {r}, f, t)],
     [Manifest EXCEPT !.nodes = EditAll(@, {r}, f, t), !.queries = EditAll(@, {r}, f, t)],
     [Manifest EXCEPT !.nodes = EditAll(@, RoleNames, f, t),
                      !.queries = EditAll(@, RoleNames, f, t)]}
      : r \in RoleNames} : f \in FieldNames, t \in FieldTypes \cup {Absent}}

Dropped ==
  UNION {{[Manifest EXCEPT !.nodes = {[n EXCEPT !.described = n.role # r] : n \in @}],
          [Manifest EXCEPT !.queries = {[q EXCEPT !.described = q.role # r] : q \in @}],
          [Manifest EXCEPT !.queries = {q \in @ : q.role # r}]} : r \in RoleNames}

\* What an instance names is replaced by another role or field.
Renamed(params, names, values) ==
  UNION {{[params EXCEPT ![n] = v] : n \in names} : v \in values}

EditedAtMost ==
  Renamed(AtMostOne, {"subjectRole", "effectRole"}, RoleNames)
    \cup Renamed(AtMostOne, {"subjectIdentityField", "effectIdentityField"}, FieldNames)
    \cup {[AtMostOne EXCEPT !.equivalence = {f}] : f \in FieldNames}
    \cup {[AtMostOne EXCEPT !.proof.totalField = f] : f \in FieldNames}
    \cup {[AtMostOne EXCEPT !.proof.query = r] : r \in RoleNames}
    \cup {[AtMostOne EXCEPT !.scope = [fields |-> {f}, generation |-> g]] :
            f \in FieldNames, g \in {"gen", "units", Absent}}

EditedConservation ==
  Renamed(Conservation, {"baselineRole", "remainingRole", "consumptionEffectRole"}, RoleNames)
    \cup Renamed(Conservation,
           {"resourceIdentityField", "baselineUnitsField", "remainingUnitsField",
            "consumptionEffectIdentityField", "consumptionUnitsField"}, FieldNames)
    \cup {[Conservation EXCEPT !.proof.totalField = f] : f \in FieldNames}

EditedSteps ==
  {[Document EXCEPT !.steps = <<s, @[2]>>] :
     s \in {[Step("reset") EXCEPT !.repeat = 2], [Step("reset") EXCEPT !.retry = "SAFE"],
            [Step("reset") EXCEPT !.refs = {"token"}], Step("other"), Step("buy"),
            [Step("reset") EXCEPT !.path = "hook", !.fault = [kind |-> "delay", triggers |-> 1]],
            [Step("reset") EXCEPT !.fault = [kind |-> "delay", triggers |-> 1]],
            [Step("reset") EXCEPT !.mutation = "READ_ONLY"],
            [Step("reset") EXCEPT !.method = "GET"],
            [Step("reset") EXCEPT !.header = "none", !.stagger = 1]}}

EditedDocuments ==
  {[Document EXCEPT !.bindings = {AtMostInstance(p)}, !.scope = RunScope({"k1"})] : p \in EditedAtMost}
    \cup {[Document EXCEPT !.bindings = {ConservationInstance(p)}, !.scope = RunScope({"k2"})] :
            p \in EditedConservation}
    \cup EditedSteps
    \cup {[Document EXCEPT !.scope = RunScope({"k1"})], [Document EXCEPT !.bindings = Absent],
          [Document EXCEPT !.scope.subjects = [k \in {"k1", "k2"} |-> {}]]}

-----------------------------------------------------------------------------
(* The inputs whose runs are followed to their reports *)

Two == [Manifest EXCEPT !.origins = {A, B}]
Plain == [Document EXCEPT !.bindings = Absent, !.scope = Absent]
Legacy(environment) ==
  [name |-> "shop", environment |-> environment, contract |-> "DEMO_FINTECH_WEBHOOK",
   origins |-> {Secure}, refs |-> {"key"}, manifest |-> Absent]
LegacyDocument ==
  [Plain EXCEPT !.steps = <<[Step("pay") EXCEPT !.contract = "DEMO_FINTECH_WEBHOOK"]>>]

OneBinding ==
  [Document EXCEPT !.bindings = {AtMostInstance(AtMostOne)}, !.scope = RunScope({"k1"})]

\* Without the role that only conservation reads.
NoStock ==
  [Manifest EXCEPT !.nodes = {n \in @ : n.role # "stock"}, !.queries = {q \in @ : q.role # "stock"}]

Followed == {Input(NoStock, OneBinding), Input(Two, Plain)}
  \cup {[registration |-> Legacy(e), document |-> LegacyDocument] : e \in {"STAGING", "PRODUCTION"}}

MCInputs ==
  Followed
    \cup {Input(m, Document) : m \in Retyped \cup Dropped}
    \cup {Input(Manifest, d) : d \in EditedDocuments}
    \cup {Input([Manifest EXCEPT !.refs = {"key", "token"}], Document),
          Input([Manifest EXCEPT !.refs = {}], Document)}

\* What may have been published for one strict key over the subjects s and t, or
\* for the built-in keys of a legacy target.
StrictProofs ==
  {[strict |-> TRUE, declared |-> d, eligible |-> e, missing |-> d \ e,
    unexpected |-> odd = "unexpected", gaps |-> odd = "gaps"] :
     d \in {{"s"}, {"s", "t"}}, e \in SUBSET {"s", "t"}, odd \in {"none", "unexpected", "gaps"}}
LegacyProof ==
  [strict |-> FALSE, declared |-> {}, eligible |-> {}, missing |-> {},
   unexpected |-> FALSE, gaps |-> FALSE]

StrictFacts ==
  {[chain |-> x[1], standing |-> x[2], proofs |-> ("k1" :> p), verdicts |-> ("k1" :> v)] :
     x \in {<<"broken", "current">>, <<"advanced", "current">>}
             \cup {<<"intact", w>> : w \in {"current", "stale", "underived", "mixed"}},
     p \in {q \in StrictProofs : q.eligible \subseteq q.declared} \cup {Unproven},
     v \in UNION {[x -> Verdict] : x \in SUBSET {"s", "t"}}}

LegacyFacts ==
  {[chain |-> c, standing |-> w, proofs |-> [k \in LegacyInvariants |-> LegacyProof], verdicts |-> v] :
     c \in {"intact", "broken"}, w \in {"current", "stale"},
     v \in [LegacyInvariants -> {"s" :> x : x \in Verdict} \cup {<<>>}]}

NoFacts(bound) ==
  {[chain |-> "intact", standing |-> "current", proofs |-> <<>>, verdicts |-> <<>>]}

MCPublished ==
  ({} :> NoFacts({})) @@ ({"k1"} :> StrictFacts) @@ (LegacyInvariants :> LegacyFacts)

-----------------------------------------------------------------------------
\* Only a replay reads the reproductions: the API derives that of the run that a command
\* is about to replay, and the last run is not replayed any more.
ClientBounds ==
  /\ input \notin Followed => commands' <= 1 /\ reconfigs' = 0 /\ runs' = <<>>
  /\ deriveRunForensics =>
       \E c \in Clients : At(c, {"replay"}, "started") /\ session[c].number < MaxRuns
                          /\ reproductions' \subseteq reproductions \cup {session[c].number}

MCInit ==
  /\ running \in {"rows", "clients"}
  /\ DbInit /\ ClientInit
  /\ running = "rows" => grants = CHOOSE p \in Policies : TRUE
  /\ running = "rows" => input = CHOOSE i \in Followed : TRUE
MCNext ==
  /\ UNCHANGED running
  /\ \/ running = "rows" /\ DbNext /\ Bounds /\ UNCHANGED clientVars
     \/ running = "clients" /\ ClientNext /\ ClientBounds /\ UNCHANGED dbVars
MCSpec == MCInit /\ [][MCNext]_<<running, dbVars, clientVars>>
=============================================================================
