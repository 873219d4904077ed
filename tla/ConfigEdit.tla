------------------------------ MODULE ConfigEdit ------------------------------
(***************************************************************************)
(* Editing the declared config: config-web's apply_edit                     *)
(* (riglib/config_web.py) and `rig config set` (riglib/cli.py), each a      *)
(* read-modify-write of one whole layer file, without a lock and without an *)
(* atomic replace, while other processes do the same.                       *)
(*                                                                          *)
(* The layers are ~/.config/rig/config.yaml ("global") and ./rig.yaml       *)
(* ("repo").  write_text truncates the file and then writes it; a truncated *)
(* YAML file is an empty mapping to every reader (read_yaml_file).  Two     *)
(* write_text calls that overlap on one file may leave the longer text's    *)
(* tail behind the shorter one.  An open, a write or an unlink may fail, those *)
(* of a rollback included.                                                  *)
(***************************************************************************)
EXTENDS Naturals, FiniteSets, TLC

CONSTANTS
  Consoles,     \* config-web server processes, each answering one edit at a time
  Clis,         \* `rig config set` invocations
  Keys, Values, \* option keys and the schema-valid values they can be given
  Scope,        \* the removed key `scope`, which an old file may still hold
  LayerOf,      \* key -> the layer that owns it, "global" or "repo"
  Conflicts,    \* partial configs for which plan.build() raises: a catalog error
                \* (never about Scope, which config.load drops)
  IncludeRepo,  \* how config-web plans an edit: {TRUE} from repo tabs only, with
                \* FALSE from the Global tab too
  InitialFiles, \* what the two layer files may hold at first
  MaxEdits,     \* bound on the edits started
  MaxFailures,  \* bound on the file operations that fail (full disk, permissions)
  Absent,       \* a layer file that does not exist
  Garbled       \* a layer file that is not YAML any more

Layers  == {"global", "repo"}
Mapping == UNION {[K -> Values] : K \in SUBSET (Keys \cup {Scope})}
Empty   == <<>>
Actors  == Consoles \cup Clis

Content == Mapping \cup {Absent, Garbled}

ASSUME LayersAssumption == LayerOf \in [Keys -> Layers]
ASSUME ScopeAssumption  == Scope \notin Keys /\ \A c \in Conflicts : Scope \notin DOMAIN c
ASSUME TabsAssumption   == IncludeRepo \subseteq BOOLEAN /\ IncludeRepo # {}
ASSUME ActorsAssumption == Consoles \cap Clis = {}
ASSUME MarksAssumption  ==
  /\ MaxEdits \in Nat /\ MaxFailures \in Nat
  /\ Absent # Garbled /\ Absent \notin Mapping /\ Garbled \notin Mapping

VARIABLES
  file,    \* layer -> what its file holds, a mapping or Absent
  at,      \* actor -> the step its edit is at
  edit,    \* actor -> the locals of its edit
  edits,   \* how many edits were started, up to MaxEdits
  failures, \* how many file operations failed, up to MaxFailures
  touched, \* history: actors in whose edit another actor wrote the same file
  overlap, \* history: two edits got in each other's way, see Put and ReadsUnsettled
  stuck,   \* history: a rollback could not restore its file
  alone    \* history: a Global tab edit was accepted without the repo overlay

vars == <<file, at, edit, edits, failures, touched, overlap, stuck, alone>>

Steps == {"idle", "plan", "capture", "truncate", "write", "gate", "rollback",
          "restore", "accepted", "rejected", "unrestored"}
Idle == [key |-> Absent, value |-> Absent, cascade |-> FALSE, data |-> Empty,
         original |-> Absent, before |-> Absent]
Target(a) == LayerOf[edit[a].key]

-----------------------------------------------------------------------------
(* Config operators *)

(* read_yaml_file of the target, or {} when a global file does not exist.   *)
Read(content) == IF content = Absent THEN Empty ELSE content

(* Mutant of SetPath: drops the value.                                      *)
SetPathToNull(data, k, v) == (k :> Absent) @@ data

(* set_path on the parsed mapping.                                          *)
SetPath(data, k, v) == [key \in DOMAIN data \cup {k} |-> IF key = k THEN v ELSE data[key]]

(* data.pop("scope", None): the file is written whole, and without it.       *)
DropScope(data) == [key \in DOMAIN data \ {Scope} |-> data[key]]

(* What a write that fails in the middle of a text has written of it.       *)
Cut(text) ==
  IF text \in {Absent, Garbled} THEN {Empty, Garbled}
  ELSE {Garbled} \cup {[key \in K |-> text[key]] : K \in SUBSET DOMAIN text}

(* _deep_merge: the repo layer overrides the global one.                    *)
Merged(global, repo) ==
  IF Garbled \in {global, repo} THEN Garbled ELSE Read(repo) @@ Read(global)

(* The layers parse, and the catalog scan and plan.build() succeed on them. *)
Buildable(cfg) ==
  cfg # Garbled /\ \A c \in Conflicts :
    ~(DOMAIN c \subseteq DOMAIN cfg /\ \A k \in DOMAIN c : cfg[k] = c[k])

(* Mutant of GatesPass: no validation in isolation.                         *)
CascadeGatePasses(layer, cascade, files) ==
  Buildable(IF cascade THEN Merged(files["global"], files["repo"])
                       ELSE Read(files["global"]))

(* _validate_layer_in_isolation on a global edit, then the cascade plan; an *)
(* edit on the Global tab (cascade = FALSE) plans the global layer alone.   *)
GatesPass(layer, cascade, files) ==
  /\ layer = "global" => Buildable(Read(files["global"]))
  /\ Buildable(IF cascade THEN Merged(files["global"], files["repo"])
                          ELSE Read(files["global"]))

-----------------------------------------------------------------------------
(* The machine-wide config can be reconciled alone, and under the repo's    *)
(* overlay unless an edit from the Global tab, which ignores it, went in.   *)
Reconcilable(files) ==
  /\ Buildable(Read(files["global"]))
  /\ ~ alone => Buildable(Merged(files["global"], files["repo"]))

ASSUME InitialAssumption ==
  \A f \in InitialFiles :
    /\ f \in [Layers -> Content]
    /\ Buildable(Read(f["global"])) /\ Buildable(Merged(f["global"], f["repo"]))

Init ==
  /\ file \in InitialFiles
  /\ at = [a \in Actors |-> "idle"]
  /\ edit = [a \in Actors |-> Idle]
  /\ edits = 0
  /\ failures = 0
  /\ touched = {}
  /\ overlap = FALSE
  /\ stuck = FALSE
  /\ alone = FALSE

(* The other actors that edit the same file, at one of these steps.         *)
Others(a, steps) == {b \in Actors \ {a} : at[b] \in steps /\ Target(b) = Target(a)}
Open == {"write", "restore"}

(* An actor goes by what the other layer holds from its plan, or from its   *)
(* restore point, to the end of its edit.                                   *)
Relies(b) ==
  at[b] \in {"truncate", "write", "gate", "rollback", "restore"} \/ (b \in Clis /\ at[b] = "capture")

(* A write, truncation or unlink of a's target file.  It gets in the way of *)
(* another that has the same file half-written, or relies on it as its      *)
(* other layer.                                                             *)
Put(a, content) ==
  /\ file' = [file EXCEPT ![Target(a)] = content]
  /\ touched' = touched \cup Others(a, Steps \ {"idle"})
  /\ overlap' = (\/ overlap
                 \/ Others(a, Open) # {}
                 \/ \E b \in Actors \ {a} : Relies(b) /\ Target(b) # Target(a))

(* The second half of write_text, which writes one of these texts.  When     *)
(* somebody else wrote or unlinked the file since a truncated it, the text  *)
(* ends up over that, in front of the tail of a longer text, or in a file   *)
(* that has no name any more.                                               *)
Fill(a, texts) ==
  LET now == file[Target(a)] IN
  \E text \in texts :
    \E content \in (CASE now = Empty                     -> {text}
                      [] now = Absent \/ text = Empty      -> {now}
                      [] OTHER                            -> {text, Garbled, now}) :
      Put(a, content)

(* The layers are planned, or a restore point is captured, while another    *)
(* actor has one of them half-written or not yet validated.                 *)
Unsettled == Open \cup {"gate", "rollback"}
ReadsUnsettled(a) == overlap' = (overlap \/ \E b \in Actors \ {a} : at[b] \in Unsettled)

Goto(a, step) == at' = [at EXCEPT ![a] = step]

(* A file operation of an edit fails.                                        *)
Fails == failures < MaxFailures /\ failures' = failures + 1

Begin(a, k, v, cascade) ==
  LET layer == LayerOf[k] IN
  /\ at[a] = "idle"
  /\ edits < MaxEdits
  /\ file[layer] # Garbled
  /\ layer = "repo" => file["repo"] # Absent /\ cascade
  /\ edits' = edits + 1
  /\ touched' = touched \ {a}
  /\ edit' = [edit EXCEPT ![a] =
       [key |-> k, value |-> v, cascade |-> cascade,
        data |-> SetPath(DropScope(Read(file[layer])), k, v),
        original |-> Absent, before |-> file[layer]]]
  /\ UNCHANGED <<file, failures, overlap, stuck, alone>>

(* apply_edit: the option is known and coerced, the layer file is read, the *)
(* edited tree passes schema validation (GATE 1).  include_repo is FALSE on *)
(* the Global tab.                                                          *)
WebBegin(a) ==
  \E k \in Keys, v \in Values, include_repo \in IncludeRepo :
    Begin(a, k, v, include_repo) /\ Goto(a, "capture")

(* _cmd_config_set up to the schema validation.                             *)
CliBegin(a) ==
  \E k \in Keys, v \in Values : Begin(a, k, v, TRUE) /\ Goto(a, "plan")

(* _cmd_config_set plans the prospective change in memory, over the other   *)
(* layer as it is on disk; a preview stops here, as does a rejected change. *)
CliPlan(a) ==
  LET files == [file EXCEPT ![Target(a)] = edit[a].data] IN
  /\ at[a] = "plan"
  /\ \/ GatesPass(Target(a), TRUE, files) /\ Goto(a, "capture")
     \/ Goto(a, "rejected")
  /\ ReadsUnsettled(a)
  /\ UNCHANGED <<file, edit, edits, failures, touched, stuck, alone>>

(* `original = target.read_text()`, a second read of the file.              *)
Capture(a) ==
  /\ at[a] = "capture"
  /\ edit' = [edit EXCEPT ![a].original = file[Target(a)]]
  /\ Goto(a, "truncate")
  /\ ReadsUnsettled(a)
  /\ UNCHANGED <<file, edits, failures, touched, stuck, alone>>

(* write_text opens the file for writing, which creates or empties it ...   *)
Truncate(a) ==
  /\ at[a] = "truncate"
  /\ Put(a, Empty)
  /\ Goto(a, "write")
  /\ UNCHANGED <<edit, edits, failures, stuck, alone>>

(* ... or fails, as mkdir may before it, and as the console's gate may when  *)
(* it reads the layers and the catalog: both front-ends roll back.           *)
OpenFails(a) ==
  /\ at[a] \in {"truncate", "gate"}
  /\ Fails
  /\ Goto(a, "rollback")
  /\ UNCHANGED <<file, edit, edits, touched, overlap, stuck, alone>>

(* ... and writes the serialized tree.  The web edit still has to pass its  *)
(* gates; the CLI's was planned before.                                     *)
Write(a) ==
  /\ at[a] = "write"
  /\ Fill(a, {edit[a].data})
  /\ Goto(a, IF a \in Consoles THEN "gate" ELSE "accepted")
  /\ UNCHANGED <<edit, edits, failures, stuck, alone>>

(* The write fails with part of the text written and is rolled back.        *)
WriteFails(a) ==
  /\ at[a] = "write"
  /\ Fails
  /\ Fill(a, Cut(edit[a].data))
  /\ Goto(a, "rollback")
  /\ UNCHANGED <<edit, edits, stuck, alone>>

(* GATE 2: isolated and cascaded plan of what is now on disk.               *)
WebGate(a) ==
  /\ at[a] = "gate"
  /\ Goto(a, IF GatesPass(Target(a), edit[a].cascade, file) THEN "accepted" ELSE "rollback")
  /\ alone' = (alone \/ (at'[a] = "accepted" /\ ~ edit[a].cascade))
  /\ UNCHANGED <<file, edit, edits, failures, touched, overlap, stuck>>

(* Mutant of Rollback: removes a file it only emptied.                      *)
RollbackUnlinks(a) ==
  /\ at[a] = "rollback"
  /\ Put(a, Absent)
  /\ Goto(a, "rejected")
  /\ UNCHANGED <<edit, edits, failures, stuck, alone>>

(* _rollback: unlink a file the edit created, else truncate it ...           *)
Rollback(a) ==
  /\ at[a] = "rollback"
  /\ IF edit[a].original = Absent
       THEN Put(a, Absent) /\ Goto(a, "rejected")
       ELSE Put(a, Empty) /\ Goto(a, "restore")
  /\ UNCHANGED <<edit, edits, failures, stuck, alone>>

(* ... and write the captured text back.                                     *)
Restore(a) ==
  /\ at[a] = "restore"
  /\ Fill(a, {edit[a].original})
  /\ Goto(a, "rejected")
  /\ UNCHANGED <<edit, edits, failures, stuck, alone>>

(* The unlink or the open of _rollback fails: the file stays as it is, after *)
(* a refused gate with the edit in it.  The CLI says so; the console's own   *)
(* answer is the OSError.                                                    *)
RollbackFails(a) ==
  /\ at[a] = "rollback"
  /\ Fails
  /\ Goto(a, "unrestored")
  /\ stuck' = TRUE
  /\ UNCHANGED <<file, edit, edits, touched, overlap, alone>>

(* The captured text does not get written back whole.                        *)
RestoreFails(a) ==
  /\ at[a] = "restore"
  /\ Fails
  /\ Fill(a, Cut(edit[a].original))
  /\ Goto(a, "unrestored")
  /\ stuck' = TRUE
  /\ UNCHANGED <<edit, edits, alone>>

(* The answer is sent and the process forgets the edit.                     *)
Answer(a) ==
  /\ at[a] \in {"accepted", "rejected", "unrestored"}
  /\ Goto(a, "idle")
  /\ edit' = [edit EXCEPT ![a] = Idle]
  /\ touched' = touched \ {a}
  /\ UNCHANGED <<file, edits, failures, overlap, stuck, alone>>

Step(a) ==
  \/ CliPlan(a)
  \/ Capture(a)
  \/ Truncate(a)
  \/ OpenFails(a)
  \/ Write(a)
  \/ WriteFails(a)
  \/ WebGate(a)
  \/ Rollback(a)
  \/ RollbackFails(a)
  \/ Restore(a)
  \/ RestoreFails(a)
  \/ Answer(a)

Next ==
  \/ \E a \in Consoles : WebBegin(a)
  \/ \E a \in Clis : CliBegin(a)
  \/ \E a \in Actors : Step(a)

Spec == Init /\ [][Next]_vars

-----------------------------------------------------------------------------
(* The types of the layers, of every edit in progress and of the history.   *)
TypeOK ==
  /\ file \in [Layers -> Content]
  /\ at \in [Actors -> Steps]
  /\ edit \in [Actors -> [key : {Absent} \cup Keys, value : {Absent} \cup Values,
                          cascade : BOOLEAN, data : Mapping,
                          original : Content, before : Content]]
  /\ \A a \in Actors : at[a] # "idle" => edit[a].key \in Keys /\ edit[a].value \in Values
  /\ edits \in 0..MaxEdits
  /\ failures \in 0..MaxFailures
  /\ touched \in SUBSET Actors
  /\ overlap \in BOOLEAN
  /\ stuck \in BOOLEAN
  /\ alone \in BOOLEAN

(* When no edit is in progress the config on disk can be reconciled: "the   *)
(* web UI never leaves a written-but-unreconcilable config behind"          *)
(* (apply_edit), although it writes the file before it validates it; nor a  *)
(* machine-wide config that is broken behind the overlay of this repo.      *)
NeverLeftUnreconcilable ==
  (\A a \in Actors : at[a] = "idle") => Reconcilable(file)

(* A console and `rig config set` keep that promise as long as every        *)
(* rollback got its text back into the file, no two write_text calls overlap *)
(* on one file, nobody plans on or captures a layer that another is half    *)
(* through, and nobody changes the layer on which another's plan or restore *)
(* point rests: although every edit writes back a whole file it read        *)
(* earlier, the console validates after it wrote, and the overlay of a repo *)
(* can hide what is wrong with the global layer.                            *)
BrokenOnlyByOverlapOrFailedRollback == ~ overlap /\ ~ stuck => NeverLeftUnreconcilable

(* Every key the file of an edit holds has the value it had before the edit *)
(* or the one the edit gives it.                                            *)
MadeOfItsTexts(a) ==
  LET e   == edit[a]
      now == file[Target(a)]
  IN
  now \in Mapping => \A key \in DOMAIN now :
    \/ key = e.key /\ now[key] = e.value
    \/ key \in DOMAIN Read(e.before) /\ now[key] = Read(e.before)[key]

(* An edit during which nobody else wrote its file answers what is on disk. *)
(* Accepted: the file holds the new value, and every other key as before,   *)
(* but for a left-over `scope`, which goes.  Rejected: the file is as it     *)
(* was before, whichever step failed.  Only the warning that it could not be*)
(* restored admits anything else, and then nothing but a mix of the text    *)
(* before and the refused edit.                                             *)
SoloEditIsExact ==
  \A a \in Actors \ touched :
    LET e      == edit[a]
        now    == file[Target(a)]
        before == Read(e.before)
    IN
    /\ at[a] = "accepted" =>
         /\ now \in Mapping
         /\ DOMAIN now = (DOMAIN before \ {Scope}) \cup {e.key}
         /\ \A key \in DOMAIN now : now[key] = IF key = e.key THEN e.value ELSE before[key]
    /\ at[a] = "rejected" => now = e.before
    /\ at[a] = "unrestored" => MadeOfItsTexts(a)
=============================================================================
