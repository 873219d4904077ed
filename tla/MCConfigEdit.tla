----------------------------- MODULE MCConfigEdit -----------------------------
(* Two global options, a catalog source and an item, and one the repo owns.  *)
(* The source "bad" does not exist, the source "good" has no item "bad", and *)
(* the item "good" does not take the repo's notes "bad".                     *)
(* The repo file, if there is one, may override the source, which hides a    *)
(* bad global one.  The older of the two set-ups still has a `scope`.        *)
EXTENDS ConfigEdit

MCGlobalKeys == {"source", "item"}
MCKeys       == MCGlobalKeys \cup {"notes"}
MCLayerOf    == [k \in Keys |-> IF k = "notes" THEN "repo" ELSE "global"]
MCConflicts  == {"source" :> "bad", ("source" :> "good") @@ ("item" :> "bad"),
                 ("item" :> "good") @@ ("notes" :> "bad")}

MCInitialFiles ==
  {[global |-> Absent, repo |-> "source" :> "good"],
   [global |-> ("source" :> "good") @@ (Scope :> "good"), repo |-> Absent]}
=============================================================================
