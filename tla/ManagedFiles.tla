---------------------------- MODULE ManagedFiles ----------------------------
(***************************************************************************)
(* What the handlers of riglib/actions share: what a path may hold, what a  *)
(* handler returns, the conflict policy of fsutil.write_file, and the       *)
(* splice of a marker-delimited block into a text the user also edits.      *)
(*                                                                          *)
(* A path holds [form, has, text].  "form" is what it is ("absent",         *)
(* "file", "dir", "symlink", a file that does not parse, ...); "has" is the *)
(* set of facts in it, each a tuple, rig's and the user's alike; "text" is  *)
(* the sequence of its lines where a handler splices lines.                 *)
(***************************************************************************)
EXTENDS Naturals, Sequences, FiniteSets, SequencesExt

Policies == {"backup", "skip", "overwrite"}

Path(form, has, text) == [form |-> form, has |-> has, text |-> text]
Nothing     == Path("absent", {}, <<>>)
Holding(fs) == Path("file", fs, <<>>)
Text(lines) == Path("file", {}, lines)

(* A handler's result: the ActionResult's status, the writes it makes in    *)
(* order, each <<cell, content>>, and the cells it copied or moved to a     *)
(* backup before the first of them.                                         *)
Result(status, writes, saved) == [status |-> status, writes |-> writes, saved |-> saved]
Unchanged(status) == Result(status, <<>>, {})
Changed == {"created", "updated", "backed_up"}

(* The user's part of a path: the facts and the lines with "user" in them.  *)
Users(p) ==
  {f \in p.has \cup {p.text[i] : i \in DOMAIN p.text} : \E n \in DOMAIN f : f[n] = "user"}

-----------------------------------------------------------------------------
(* _CHANGED_STATUSES and rank: what several outcomes of one action add up   *)
(* to: an error wins, then a backup, then any change.                       *)
RollUp(statuses) ==
  IF "error" \in statuses THEN "error"
  ELSE IF "backed_up" \in statuses THEN "backed_up"
  ELSE IF statuses \cap Changed # {} THEN "created"
  ELSE "skipped"

(* fsutil.write_file, copy_file and copy_tree: identical content is left    *)
(* as it is, the policy decides over anything else that exists.  Contents   *)
(* are compared without their exec bit.                                     *)
Plain(p) == [p EXCEPT !.has = @ \ {<<"x">>}]
WriteFile(d, cell, want, policy) ==
  IF d[cell].form = "absent" THEN Result("created", <<<<cell, want>>>>, {})
  ELSE IF Plain(d[cell]) = Plain(want) \/ policy = "skip" THEN Unchanged("skipped")
  ELSE IF policy = "backup" THEN Result("backed_up", <<<<cell, want>>>>, {cell})
  ELSE Result("updated", <<<<cell, want>>>>, {})

(* _chmod_x_if_changed: the exec bit is set on what rig wrote, and restored *)
(* on an identical file, but not on a file the policy left alone.           *)
Executable(p) == [p EXCEPT !.has = @ \cup {<<"x">>}]
WriteScript(d, cell, want, policy) ==
  LET out == WriteFile(d, cell, Executable(want), policy)
  IN  IF out.writes = <<>> /\ Plain(d[cell]) = Plain(want) /\ <<"x">> \notin d[cell].has
        THEN Result("skipped", <<<<cell, Executable(d[cell])>>>>, {})
        ELSE out

(* Several outcomes, one after the other, as one action's result.           *)
Together(status, outs) ==
  Result(status, FlattenSeq([i \in DOMAIN outs |-> outs[i].writes]),
         UNION {outs[i].saved : i \in DOMAIN outs})
StatusesOf(outs) == {outs[i].status : i \in DOMAIN outs}
InTurn(outs) == Together(RollUp(StatusesOf(outs)), outs)

(* A path rig owns (an earlier link or wrapper of its own) is replaced      *)
(* under every policy, what anyone else put there under write_file's.       *)
Replace(d, cell, want, owned, policy) ==
  IF owned /\ d[cell] # want THEN Result("updated", <<<<cell, want>>>>, {})
  ELSE WriteFile(d, cell, want, policy)

LinkTo(cell) == Path("symlink", {<<"to", cell>>}, <<>>)

(* drift.py's usual verdict over a file rig would copy.                     *)
Differs(p, want) ==
  IF p.form = "absent" THEN {"missing"} ELSE IF Plain(p) = Plain(want) THEN {} ELSE {"modified"}

(* A JSON settings file as the handlers load it (_load_harness_json and its *)
(* copies): a malformed one counts as empty once it is backed up, and stops *)
(* a handler under skip; a file that is no object stops it always.          *)
Held(p) == IF p.form = "file" THEN p.has ELSE {}
Refusal(p, policy) ==
  CASE p.form = "malformed" /\ policy = "skip" -> "skipped"
    [] p.form = "nonobject" -> "error"
    [] OTHER -> "none"
NothingSavedOnLoad(d, cell) == {}  \* mutant of SavedOnLoad: no backup of what does not parse
SavedOnLoad(d, cell) == {c \in {cell} : d[c].form = "malformed"}

-----------------------------------------------------------------------------
(* Managed blocks.  A line is <<"user", n>>, <<"begin", id>>, <<"end", id>> *)
(* or <<"body", id, version>>.                                              *)

(* _find_marker_lines *)
Markers(text, kind, id) == {i \in DOMAIN text : text[i] = <<kind, id>>}

(* Each begin has its end before any further marker, and none is left over. *)
Paired(text, id) ==
  LET b == Markers(text, "begin", id)
      e == Markers(text, "end", id)
  IN  /\ Cardinality(b) = Cardinality(e)
      /\ \A i \in b : \E j \in e : i < j /\ \A k \in b \cup e : k <= i \/ k >= j

InRegion(text, id, k) ==
  \E i \in Markers(text, "begin", id), j \in Markers(text, "end", id) :
    i <= k /\ k <= j /\ \A m \in Markers(text, "end", id) : m < i \/ m >= j

Block(id, version) == <<<<"begin", id>>, <<"body", id, version>>, <<"end", id>>>>

(* _splice_managed_block's verdict *)
BlockState(text, id, version) ==
  LET begins == Markers(text, "begin", id)
  IN  IF ~Paired(text, id) THEN "conflict"
      ELSE IF begins = {} THEN "create"
      ELSE IF /\ Cardinality(begins) = 1
              /\ \A i \in begins : /\ i + 2 <= Len(text)
                                   /\ SubSeq(text, i, i + 2) = Block(id, version)
        THEN "ok"
      ELSE "update"

(* The indices of the lines outside the managed regions, from a to b.       *)
Outside(text, id, a, b) ==
  SelectSeq([n \in 1..(b + 1 - a) |-> n + a - 1], LAMBDA k : ~InRegion(text, id, k))
LinesAt(text, indices) == [n \in DOMAIN indices |-> text[indices[n]]]

(* Mutant of Spliced: forgets what follows the first region.                *)
SplicedToFirstRegion(text, id, version) ==
  LET begins == Markers(text, "begin", id)
      first  == CHOOSE i \in begins : \A j \in begins : i <= j
  IN  IF begins = {} THEN text \o Block(id, version)
      ELSE SubSeq(text, 1, first - 1) \o Block(id, version)

(* ... and its new content: appended when there is no region, else in the   *)
(* place of the first one, with the duplicates dropped.                     *)
Spliced(text, id, version) ==
  LET begins == Markers(text, "begin", id)
      first  == CHOOSE i \in begins : \A j \in begins : i <= j
  IN  IF begins = {} THEN text \o Block(id, version)
      ELSE SubSeq(text, 1, first - 1) \o Block(id, version)
             \o LinesAt(text, Outside(text, id, first, Len(text)))

(* The reconcile of a managed block as execpolicy and the instruction       *)
(* policy do it: only a rewrite, never an addition, is subject to the       *)
(* policy, and markers that do not pair are left for a human.               *)
SpliceInto(d, cell, id, version, policy) ==
  LET p     == d[cell]
      state == BlockState(p.text, id, version)
      write == <<<<cell, Text(Spliced(p.text, id, version))>>>>
  IN  CASE p.form = "absent" -> Result("created", <<<<cell, Text(Block(id, version))>>>>, {})
        [] p.form # "absent" /\ (p.form # "file" \/ state = "conflict") -> Unchanged("error")
        [] p.form = "file" /\ state = "ok" -> Unchanged("skipped")
        [] p.form = "file" /\ state = "create" -> Result("updated", write, {})
        [] p.form = "file" /\ state = "update" ->
             IF policy = "skip" THEN Unchanged("skipped")
             ELSE IF policy = "backup" THEN Result("backed_up", write, {cell})
             ELSE Result("updated", write, {})

(* The same splice where no policy is asked: the git exclude files.         *)
SpliceAlways(d, cell, id, version) ==
  LET out == SpliceInto(d, cell, id, version, "overwrite")
  IN  [out EXCEPT !.status = IF @ = "created" THEN "updated" ELSE @]

(* How drift.py's checks of such a block read the same verdict.             *)
BlockDrift(p, id, version) ==
  IF p.form \in {"absent", "dir"} THEN {"missing"}
  ELSE IF p.form # "file" THEN {"modified"}
  ELSE CASE BlockState(p.text, id, version) = "ok" -> {}
         [] BlockState(p.text, id, version) = "create" -> {"missing"}
         [] OTHER -> {"modified"}

=============================================================================
