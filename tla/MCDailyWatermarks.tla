-------------------------- MODULE MCDailyWatermarks --------------------------
(* Two repositories, one of them without a pull request.                    *)
EXTENDS DailyWatermarks, TLC

MCRepoOf     == [p \in PRs |-> "A"]
ProcSymmetry == Permutations(Procs)
=============================================================================
