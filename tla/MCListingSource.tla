--------------------------- MODULE MCListingSource ---------------------------
(* A handler for every item and the conflict fixer, on each kind of source. *)
EXTENDS ListingSource, TLC

Source(type, mergeStatus, version, allow) ==
    [type |-> type, mergeStatus |-> mergeStatus, version |-> version, allow |-> allow]

CodeHub == Source("codehub-pr", FALSE, "head", {})
Conflicts == Source("codehub-pr", TRUE, "head", {1})
WorkItems == Source("workitem", FALSE, "modified", {})
Plugin == Source("exec", FALSE, "status", {})

AllSources == {CodeHub, Conflicts, WorkItems, Plugin}
ConflictSource == {Conflicts}

Match(type, subjects, equals) == [type |-> type, subjects |-> subjects, equals |-> equals]

Anything == Match("", {}, <<>>)
ConflictFixer == Match("codehub-pr", {}, "status" :> "conflict")

AllMatches == {Anything, ConflictFixer}
FixerOnly == {ConflictFixer}
=============================================================================
