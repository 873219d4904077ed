---------------------------- MODULE MCCodexUpdate ----------------------------
(* A small instance of CodexUpdate: a Homebrew cask with a link to a link   *)
(* to the binary, a single link, and a plain file; a command that rewrites  *)
(* or removes what is there, or installs beside it and moves the links.     *)
EXTENDS CodexUpdate, TLC

MCNames == {"path", "opt", "bin", "next"}
Node(n, d) == IF n \in DOMAIN d THEN d[n] ELSE Missing
Install(d) == [n \in MCNames |-> Node(n, d)]
MCInstalls ==
    {Install("path" :> Link("opt") @@ "opt" :> Link("bin") @@ "bin" :> File("old")),
     Install("path" :> Link("bin") @@ "bin" :> File("old")),
     Install("path" :> File("old"))}
MCChanges ==
    [name : {"path", "bin", "next"}, node : {File("new"), File("bad"), Torn}]
      \union [name : {"path", "opt"}, node : {Link("next"), Missing}]
      \union [name : {"bin"}, node : {Missing}]
UpdaterSymmetry == Permutations(Updaters)
=============================================================================
