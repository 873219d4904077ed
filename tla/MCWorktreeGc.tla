----------------------------- MODULE MCWorktreeGc -----------------------------
(* Two worktrees at instant 4.  The first is on branch b1 or detached at its *)
(* tip, possibly with a commit of its own at 2, pushed or not, with a closed *)
(* pull request or none; the second is on b2 at a commit the two branches share,  *)
(* its pull request merged.  Both directories are there or both are gone.    *)
EXTENDS WorktreeGc

CONSTANTS t1, t2, b1, b2

MCInitialRepos ==
  {[ref    |-> b1 :> tip @@ b2 :> {1},
    pushed |-> b1 :> remote @@ b2 :> remote,
    pr     |-> b1 :> request @@ b2 :> [state |-> "merged", at |-> 3],
    tree   |-> t1 :> [head |-> head, tip |-> IF head = Detached THEN tip ELSE {},
                      born |-> 0, place |-> place,
                      dirty |-> FALSE, live |-> FALSE, locked |-> FALSE]
            @@ t2 :> [head |-> b2, tip |-> {}, born |-> 0, place |-> place,
                      dirty |-> FALSE, live |-> FALSE, locked |-> FALSE],
    clock  |-> 4] :
      head \in {b1, Detached}, tip \in {{1}, {1, 2}}, remote \in {NoRef, {1}},
      place \in {"present", "missing"},
      request \in {NoPr} \cup [state : {"closed"}, at : {1, 3}]}
=============================================================================
