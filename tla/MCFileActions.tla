---------------------------- MODULE MCFileActions ----------------------------
(* One skill that is copied and then linked, and one plain file.            *)
EXTENDS FileActions

MCPaths  == {"skill", "hook"}
MCLinkOf == [p \in MCPaths |-> p = "skill"]
MCPlan   == << [kind |-> "file", path |-> "skill"],
               [kind |-> "link", path |-> "skill"],
               [kind |-> "file", path |-> "hook"] >>
=============================================================================
