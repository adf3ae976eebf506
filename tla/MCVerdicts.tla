---------------------------- MODULE MCVerdicts ----------------------------
(* Small instances of the inspection of a target and of the run's anchor   *)
(* for model checking.  A behaviour is one of either: the inspection takes *)
(* the state of the anchor as given.                                       *)
EXTENDS Inspection, RunAnchor, TLC

CONSTANTS e1, e2

VARIABLE running
verdictVars == <<running, vars, anchorVars>>

MCQueries == {"items", "stock", "orders", "totals"}
MCOrder == <<"items", "stock", "orders", "totals">>
MCRoleOf ==
  ("items" :> "item") @@ ("stock" :> "stock") @@ ("orders" :> "order") @@ ("totals" :> "total")
MCEdges == {<<"item", "stock">>, <<"stock", "order">>}

MCInit ==
  /\ running \in {"inspection", "anchor"}
  /\ Init /\ AnchorInit
  /\ running = "inspection" => mints
  /\ running = "anchor" => Oddities = 0
MCNext ==
  /\ UNCHANGED running
  /\ \/ running = "inspection" /\ Next /\ UNCHANGED anchorVars
     \/ running = "anchor" /\ AnchorNext /\ UNCHANGED vars
MCSpec == MCInit /\ [][MCNext]_verdictVars

Interchangeable == Permutations(Effects)
=============================================================================
