----------------------------- MODULE MCApplyJobs -----------------------------
(* A small instance of ApplyJobs: two plans that list the same keys but     *)
(* differ in the options of one action, in on_conflict, or in their length, *)
(* and a scope with no config layer.                                        *)
EXTENDS ApplyJobs, TLC

JobSymmetry == Permutations(JobIds)

MCKeys    == {"skill", "hook"}
MCActions == [key: MCKeys, opts: {"o1", "o2"}]
Skill(o)  == [key |-> "skill", opts |-> o]
Hook(o)   == [key |-> "hook", opts |-> o]

MCConfigs == {"base", "options", "policy", "undeclared"}
LiveConfigs == {"base", "policy"}
Plan(d, p, a) == [declared |-> d, on_conflict |-> p, actions |-> a]
MCPlanOf ==
  [c \in Configs |->
     CASE c = "base"       -> Plan(TRUE, "backup", <<Skill("o1"), Hook("o1")>>)
       [] c = "options"    -> Plan(TRUE, "backup", <<Skill("o1"), Hook("o2")>>)
       [] c = "policy"     -> Plan(TRUE, "overwrite", <<Skill("o1")>>)
       [] c = "undeclared" -> Plan(FALSE, "backup", <<Skill("o1")>>)]
=============================================================================
