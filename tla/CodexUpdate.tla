----------------------------- MODULE CodexUpdate -----------------------------
(***************************************************************************)
(* `rig codex update` (riglib/codex_update.py): probe the installed Codex,  *)
(* copy its binary aside, run the update command, probe what the command    *)
(* left, and put binary and links back when a probe fails, the command      *)
(* fails or it hangs.                                                       *)
(*                                                                         *)
(* The disk is the names Codex can be reached by, each of them nothing, a   *)
(* link to another name or a file.  The update command is a process in a    *)
(* session of its own: it outlives an updater that dies, and a process it   *)
(* detached outlives its exit and the kill after a timeout.  Nothing locks  *)
(* two updaters out of one another.                                         *)
(***************************************************************************)
EXTENDS Naturals, Sequences, SequencesExt, FiniteSets

CONSTANTS
    Updaters,   \* the processes that run safe_update, once each
    Names,      \* the names on disk; "path" is the codex_path of an update
    Installs,   \* how Codex may be installed: names -> nodes
    Changes,    \* what an update command may do: [name, node]
    ProbeSteps, \* the number of PROBE_STEPS
    MaxChanges, \* the most changes all commands make
    MaxSeconds  \* the clock stops there

Works == {"old", "new"}         \* the binaries that pass the probes
Missing == <<"missing">>
Link(n) == <<"link", n>>
File(c) == <<"file", c>>
Torn == File("torn")            \* a file that is being written

\* Links lead to names that the model has.
IsNode(node) == node[1] = "link" => node \in {Link(n) : n \in Names}
IsDisk(d) == DOMAIN d = Names /\ \A n \in Names : IsNode(d[n])

ASSUME SecondsAssumption == MaxSeconds \in Nat
ASSUME NamesAssumption == "path" \in Names /\ IsFiniteSet(Names)
ASSUME DisksAssumption ==
    /\ \A d \in Installs : IsDisk(d)
    /\ \A change \in Changes : change.name \in Names /\ IsNode(change.node)

VARIABLES
    disk,       \* name -> node
    backups,    \* <<version, second>> -> content: codex-last-good-*
    now,        \* the second time.strftime prints
    upd,        \* updater -> where it is and what it knows
    started,    \* the updaters whose update command was started
    changes,    \* the number of changes commands have made
    clash       \* history: a backup took the name of another one
vars == <<disk, backups, now, upd, started, changes, clash>>

-----------------------------------------------------------------------------
(* Following links.                                                        *)
Walk(d) ==
    LET w[k \in 0 .. Cardinality(Names)] ==
          IF k = 0 THEN "path" ELSE IF d[w[k - 1]][1] = "link" THEN d[w[k - 1]][2] ELSE w[k - 1]
    IN  w
Resolved(d) == Walk(d)[Cardinality(Names)]
Live(d) == d[Resolved(d)]
Healthy(d) == Live(d) \in {File(c) : c \in Works}
\* _read_symlink_chain: the links from the path on, with what each says.
Chain(d) ==
    LET steps == {k \in 0 .. Cardinality(Names) - 1 : d[Walk(d)[k]][1] = "link"}
    IN  [i \in 1 .. Cardinality(steps) |-> [name |-> Walk(d)[i - 1], node |-> d[Walk(d)[i - 1]]]]

Version(c) == IF c = "old" THEN "v1" ELSE "v2"
BackupName(v) == <<v, now>>

-----------------------------------------------------------------------------
Nothing == [n \in Names |-> Missing]
Fresh == [pc |-> "idle", stage |-> "none", probes |-> 0, version |-> "unknown", resolved |-> "path",
          seen |-> Missing, name |-> <<"unknown", 0>>, chain |-> <<>>, todo |-> <<>>,
          result |-> "none", was |-> Nothing, disturbed |-> FALSE]
Active(p) == upd[p].pc \notin {"idle", "done", "dead"}
\* What is left of an updater is its answer.
Over(pc, result) == [Fresh EXCEPT !.pc = pc, !.result = result]
\* History: another process, or what is left of its own command, changes
\* something while an updater runs.
Disturbed(u, hit) ==
    [q \in Updaters |-> IF q \in hit /\ Active(q) THEN [u[q] EXCEPT !.disturbed = TRUE, !.was = Nothing] ELSE u[q]]

Init ==
    /\ disk \in Installs
    /\ backups = [b \in {"v1", "v2"} \X (0 .. MaxSeconds) |-> Missing]
    /\ now = 0
    /\ upd = [p \in Updaters |-> Fresh]
    /\ started = {}
    /\ changes = 0
    /\ clash = FALSE

Tick ==
    /\ now < MaxSeconds
    /\ now' = now + 1
    /\ UNCHANGED <<disk, backups, upd, started, changes, clash>>

\* find_codex_path, and the first round of probes.
Begin(p) ==
    /\ upd[p].pc = "idle" /\ Live(disk)[1] = "file"
    /\ upd' = [upd EXCEPT ![p].pc = "probing", ![p].stage = "before", ![p].was = disk]
    /\ UNCHANGED <<disk, backups, now, started, changes, clash>>

\* One of PROBE_STEPS succeeds; a broken binary never passes all three, a
\* working one fails when it takes longer than the timeout.  What follows the
\* last one depends on the round.
After(u) ==
    CASE u.stage = "before" -> [u EXCEPT !.pc = "resolving", !.probes = 0]
      [] u.stage = "candidate" -> Over("done", "updated")
      [] u.stage = "restored" -> Over("done", "rolled_back")
ProbePasses(p) ==
    LET first == upd[p].stage = "before" /\ upd[p].probes = 0
        u == [upd[p] EXCEPT !.version = IF first THEN Version(Live(disk)[2]) ELSE @]
    IN
    /\ upd[p].pc = "probing" /\ Healthy(disk)
    /\ upd' = [upd EXCEPT ![p] = IF u.probes + 1 = ProbeSteps THEN After(u) ELSE [u EXCEPT !.probes = @ + 1]]
    /\ UNCHANGED <<disk, backups, now, started, changes, clash>>

\* What is restored, in order: the binary, and the links from the last one
\* back to the path.  (Mutants: the links first; the first link only.)
Binary(name) == <<[name |-> name, node |-> Missing]>>
LinksFirst(u) == IF u.chain = <<>> THEN Binary("path") ELSE u.chain \o Binary(u.resolved)
FirstLinkOnly(u) == IF u.chain = <<>> THEN Binary("path") ELSE Binary(u.resolved) \o <<Head(u.chain)>>
BinaryFirst(u) == IF u.chain = <<>> THEN Binary("path") ELSE Binary(u.resolved) \o Reverse(u.chain)
Restoring(u) == [u EXCEPT !.pc = "restoring", !.todo = BinaryFirst(u), !.probes = 0]
ProbeFails(p) ==
    /\ upd[p].pc = "probing"
    /\ upd' = [upd EXCEPT ![p] =
         CASE upd[p].stage = "before" -> Over("done", "refused")
           [] upd[p].stage = "candidate" -> Restoring(@)
           [] upd[p].stage = "restored" -> Over("done", "error")]
    /\ UNCHANGED <<disk, backups, now, started, changes, clash>>

-----------------------------------------------------------------------------
(* snapshot_current_codex: each of its calls may fail with an OSError,     *)
(* which ends the update.                                                  *)
Sharing(p, name) == {q \in Updaters \ {p} : upd[q].name = name}
CopyBegins(p) ==
    LET name == BackupName(upd[p].version)
        u == [upd EXCEPT ![p].pc = "copying", ![p].name = name, ![p].version = "unknown",
                         ![p].resolved = Resolved(disk), ![p].seen = Live(disk)]
    IN  /\ upd[p].pc = "resolving" /\ Live(disk)[1] = "file"
        /\ upd' = Disturbed(u, Sharing(p, name))
        /\ backups' = [backups EXCEPT ![name] = Torn]
        /\ clash' = (clash \/ backups[name] # Missing)
        /\ UNCHANGED <<disk, now, started, changes>>
\* A file that was written while it was copied may be a mix of both.
CopyEnds(p) ==
    LET source == disk[upd[p].resolved] IN
    /\ upd[p].pc = "copying"
    /\ \E copy \in {upd[p].seen} \union {f \in {source, Torn} : source # upd[p].seen /\ f[1] = "file"} :
         backups' = [backups EXCEPT ![upd[p].name] = copy]
    /\ upd' = Disturbed([upd EXCEPT ![p].pc = "reading", ![p].seen = Missing], Sharing(p, upd[p].name))
    /\ UNCHANGED <<disk, now, started, changes, clash>>
ReadChain(p) ==
    /\ upd[p].pc = "reading" /\ Live(disk)[1] # "link"
    /\ upd' = [upd EXCEPT ![p].pc = "launching", ![p].chain = Chain(disk)]
    /\ UNCHANGED <<disk, backups, now, started, changes, clash>>
SnapshotFails(p) ==
    /\ upd[p].pc \in {"resolving", "copying", "reading"}
    /\ upd' = [upd EXCEPT ![p] = Over("done", "refused")]
    /\ UNCHANGED <<disk, backups, now, started, changes, clash>>

-----------------------------------------------------------------------------
(* run_bounded around the update command.                                  *)
Launch(p) ==
    /\ upd[p].pc = "launching"
    /\ upd' = [upd EXCEPT ![p].pc = "waiting"]
    /\ started' = started \union {p}
    /\ UNCHANGED <<disk, backups, now, changes, clash>>
\* External: the command writes, replaces, links or removes something, at any
\* time from its start on: killpg takes the command after a timeout, but not a
\* process that left its group, and an exit leaves one as well.
CommandChanges(p, change) ==
    /\ p \in started /\ changes < MaxChanges
    /\ disk[change.name] # change.node
    /\ disk' = [disk EXCEPT ![change.name] = change.node]
    /\ changes' = changes + 1
    /\ upd' = Disturbed(upd, {q \in Updaters : q = p => upd[p].pc # "waiting"})
    /\ UNCHANGED <<backups, now, started, clash>>
\* The candidate is probed after an exit code of zero only; a command that
\* cannot be started is one that exits with 127.
CommandExits(p, code) ==
    /\ upd[p].pc = "waiting"
    /\ upd' = [upd EXCEPT ![p] = IF code = 0 THEN [@ EXCEPT !.pc = "probing", !.stage = "candidate"]
                                 ELSE Restoring(@)]
    /\ UNCHANGED <<disk, backups, now, started, changes, clash>>
TimesOut(p) ==
    /\ upd[p].pc = "waiting"
    /\ upd' = [upd EXCEPT ![p] = Restoring(@)]
    /\ UNCHANGED <<disk, backups, now, started, changes, clash>>

-----------------------------------------------------------------------------
(* restore_snapshot: each entry is made under a temporary name, which is   *)
(* nobody else's, and moved over its own.                                  *)
Made(u, entry) == IF entry.node = Missing THEN backups[u.name] ELSE entry.node
Puts(p, entry) ==
    /\ upd[p].pc = "restoring" /\ upd[p].todo # <<>>
    /\ disk' = [disk EXCEPT ![entry.name] = Made(upd[p], entry)]
    /\ upd' = Disturbed([upd EXCEPT ![p].todo = Tail(@)], Updaters \ {p})
    /\ UNCHANGED <<now, started, changes, clash>>
\* (Mutant: the backup itself is moved into place.)
ReplaceByMove(p) ==
    /\ Puts(p, Head(upd[p].todo))
    /\ backups' = IF Head(upd[p].todo).node = Missing THEN [backups EXCEPT ![upd[p].name] = Missing] ELSE backups
Replace(p) == Puts(p, Head(upd[p].todo)) /\ UNCHANGED backups
RestoreFails(p) ==
    /\ upd[p].pc = "restoring" /\ upd[p].todo # <<>>
    /\ upd' = [upd EXCEPT ![p] = Over("done", "error")]
    /\ UNCHANGED <<disk, backups, now, started, changes, clash>>
Restored(p) ==
    /\ upd[p].pc = "restoring" /\ upd[p].todo = <<>>
    /\ upd' = [upd EXCEPT ![p].pc = "probing", ![p].stage = "restored"]
    /\ UNCHANGED <<disk, backups, now, started, changes, clash>>

\* Killed, or interrupted from the terminal: nothing is put back, and the
\* command, which has a session of its own, goes on.
Die(p) ==
    /\ Active(p)
    /\ upd' = [upd EXCEPT ![p] = Over("dead", "none")]
    /\ UNCHANGED <<disk, backups, now, started, changes, clash>>

Next ==
    \/ Tick
    \/ \E p \in Updaters :
         \/ Begin(p) \/ ProbePasses(p) \/ ProbeFails(p)
         \/ CopyBegins(p) \/ CopyEnds(p) \/ ReadChain(p) \/ SnapshotFails(p)
         \/ Launch(p) \/ \E change \in Changes : CommandChanges(p, change)
         \/ \E code \in {0, 1} : CommandExits(p, code)
         \/ TimesOut(p)
         \/ Replace(p) \/ RestoreFails(p) \/ Restored(p)
         \/ Die(p)
Spec == Init /\ [][Next]_vars

-----------------------------------------------------------------------------
Kept(p) == backups[upd[p].name]

\* From the moment an update command runs there is a backup of a working
\* Codex, whatever dies, fails or hangs and however updaters overlap, unless
\* two backups took one name: same version, same second.
GoodCopyKept ==
    started # {} /\ ~clash =>
      \E b \in DOMAIN backups : backups[b] \in {File(c) : c \in Works}

\* What an undisturbed update answers is so: refused, it changed nothing;
\* updated, Codex works; rolled back, binary and links are what they were;
\* and an error leaves the working binary it started from in its backup.
AnswerIsTrue ==
    [][ \A p \in Updaters : Active(p) /\ upd'[p].pc = "done" /\ ~upd[p].disturbed =>
          CASE upd'[p].result = "refused" -> disk' = upd[p].was
            [] upd'[p].result = "updated" -> Healthy(disk')
            [] upd'[p].result = "rolled_back" ->
                 \A n \in {Walk(upd[p].was)[k] : k \in 0 .. Cardinality(Names)} : disk'[n] = upd[p].was[n]
            [] upd'[p].result = "error" -> Kept(p) = Live(upd[p].was) ]_vars

\* Putting back never breaks a Codex that works, at no step, so that a crash
\* in between leaves one.
RollbackNeverBreaks ==
    [][ \A p \in Updaters : Replace(p) /\ ~upd[p].disturbed /\ Healthy(disk) => Healthy(disk') ]_vars
=============================================================================
