--------------------------- MODULE ConfigEditProofs ---------------------------
(***************************************************************************)
(* Theorems about ConfigEdit, for every set of consoles and `rig config set`*)
(* runs, every schema, every catalog and every number of edits and failures:*)
(* the types, that the answer to an undisturbed edit says what is on disk,  *)
(* and that no config that cannot be reconciled is left behind unless edits *)
(* overlap or a rollback fails.                                             *)
(***************************************************************************)
EXTENDS ConfigEdit, TLAPS

(* From its restore point on, and from its plan on.                         *)
Captured(a) == at[a] \in {"truncate", "write", "gate", "rollback", "restore"}
Planned(a)  == a \in Clis /\ at[a] \in {"capture", "truncate", "write"}

(* Nothing the history records went wrong.                                  *)
Calm == ~ overlap /\ ~ stuck

(* Who does what: only the CLI plans first, only a console has gates.       *)
Paths ==
  \A a \in Actors :
    /\ at[a] = "plan" => a \in Clis
    /\ at[a] = "gate" => a \in Consoles
    /\ at[a] # "idle" /\ Target(a) = "repo" => edit[a].cascade

(* What the file of an edit holds while nobody else writes it.              *)
Alone(a) ==
  LET e == edit[a]
      now == file[Target(a)]
  IN
  /\ at[a] # "idle" => e.data = SetPath(DropScope(Read(e.before)), e.key, e.value) /\ e.before # Garbled
  /\ at[a] \in {"plan", "capture", "truncate", "rejected"} => now = e.before
  /\ Captured(a) => e.original = e.before
  /\ at[a] \in Open => now = Empty
  /\ at[a] \in {"gate", "accepted"} => now = e.data
  /\ at[a] \in {"rollback", "unrestored"} => MadeOfItsTexts(a)

Undisturbed == \A a \in Actors \ touched : Alone(a)

(* The files as they are once an edit has put back or put in its text.      *)
With(a, content) == [file EXCEPT ![Target(a)] = content]

(* The restore point and the planned text of an edit fit the other layer.   *)
Rests(a) ==
  /\ Captured(a) => Reconcilable(With(a, edit[a].original))
  /\ Planned(a) => Reconcilable(With(a, edit[a].data))
  /\ at[a] \in Open => file[Target(a)] = Empty

Settled ==
  Calm => /\ \A a \in Actors : Rests(a)
          /\ (\A a \in Actors : at[a] \notin Unsettled) => Reconcilable(file)

IInv == TypeOK /\ Paths /\ Undisturbed /\ Settled

-----------------------------------------------------------------------------
(* A layer that does not exist reads as an empty mapping, and setting a key *)
(* of a mapping gives a mapping.                                            *)
LEMMA MappingFacts ==
  /\ Empty \in Mapping
  /\ \A c \in Mapping \cup {Absent} : Read(c) \in Mapping
  /\ \A m \in Mapping : DropScope(m) \in Mapping
  /\ \A m \in Mapping : Cut(m) \subseteq Mapping \cup {Garbled}
  /\ \A m \in Mapping, k \in Keys, v \in Values : SetPath(m, k, v) \in Mapping
<1>1. Empty \in Mapping
  <2>1. Empty \in [{} -> Values]
    BY DEF Empty
  <2> QED BY <2>1 DEF Mapping
<1>2. \A c \in Mapping \cup {Absent} : Read(c) \in Mapping
  BY <1>1 DEF Read
<1>3. ASSUME NEW m \in Mapping, NEW k \in Keys, NEW v \in Values
      PROVE  SetPath(m, k, v) \in Mapping
  <2>1. PICK K \in SUBSET (Keys \cup {Scope}) : m \in [K -> Values]
    BY DEF Mapping
  <2>2. SetPath(m, k, v) \in [{k} \cup K -> Values]
    BY <2>1 DEF SetPath
  <2>3. {k} \cup K \in SUBSET (Keys \cup {Scope})
    OBVIOUS
  <2> QED BY <2>2, <2>3 DEF Mapping
<1>4. ASSUME NEW m \in Mapping PROVE DropScope(m) \in Mapping
  <2>1. PICK K \in SUBSET (Keys \cup {Scope}) : m \in [K -> Values]
    BY DEF Mapping
  <2>2. DropScope(m) \in [K \ {Scope} -> Values] /\ K \ {Scope} \in SUBSET (Keys \cup {Scope})
    BY <2>1 DEF DropScope
  <2> QED BY <2>2 DEF Mapping
<1>5. ASSUME NEW m \in Mapping PROVE Cut(m) \subseteq Mapping \cup {Garbled}
  <2>1. PICK K \in SUBSET (Keys \cup {Scope}) : m \in [K -> Values]
    BY DEF Mapping
  <2>2. ASSUME NEW L \in SUBSET K PROVE [key \in L |-> m[key]] \in Mapping
    <3>1. [key \in L |-> m[key]] \in [L -> Values] /\ L \in SUBSET (Keys \cup {Scope})
      BY <2>1
    <3> QED BY <3>1 DEF Mapping
  <2>3. m \notin {Absent, Garbled} /\ DOMAIN m = K
    BY <2>1, MarksAssumption
  <2> QED BY <2>2, <2>3 DEF Cut
<1> QED BY <1>1, <1>2, <1>3, <1>4, <1>5

(* What is left of a text that was cut off is part of that text.            *)
LEMMA CutIsPart ==
  ASSUME NEW text \in Mapping, NEW content \in Cut(text), content \in Mapping
  PROVE  \A key \in DOMAIN content : key \in DOMAIN text /\ content[key] = text[key]
<1>1. text \notin {Absent, Garbled} /\ content # Garbled
  BY MarksAssumption
<1>2. PICK K \in SUBSET DOMAIN text : content = [key \in K |-> text[key]]
  BY <1>1 DEF Cut
<1> QED BY <1>2

(* What can be written back: the text before the edit, if it was one.       *)
LEMMA CutIsContent ==
  ASSUME NEW text \in Content
  PROVE  Cut(text) \subseteq Content
BY MappingFacts DEF Cut, Content

(* The text of an edit, and part of it, is made of the text before it and   *)
(* its value, and so is what is left of the text before it.                 *)
LEMMA PartsAreMadeOfItsTexts ==
  ASSUME NEW e, NEW now \in Mapping, e.before \in Content \ {Garbled}, e.data \in Mapping,
         e.data = SetPath(DropScope(Read(e.before)), e.key, e.value),
         \/ now \in {e.before, e.data}
         \/ now \in Cut(e.data)
         \/ now \in Cut(e.before)
  PROVE  \A key \in DOMAIN now :
           \/ key = e.key /\ now[key] = e.value
           \/ key \in DOMAIN Read(e.before) /\ now[key] = Read(e.before)[key]
<1>1. e.before \in Mapping \cup {Absent} /\ Absent \notin Mapping
  BY MarksAssumption DEF Content
<1>2. \A key \in DOMAIN e.data :
        \/ key = e.key /\ e.data[key] = e.value
        \/ key \in DOMAIN Read(e.before) /\ e.data[key] = Read(e.before)[key]
  BY DEF SetPath, DropScope
<1>3. CASE now = e.data
  BY <1>2, <1>3
<1>4. CASE now = e.before
  BY <1>1, <1>4 DEF Read
<1>5. CASE now \in Cut(e.data)
  BY <1>2, <1>5, CutIsPart
<1>6. CASE now \in Cut(e.before) /\ e.before = Absent
  <2>1. now = Empty
    BY <1>6, MarksAssumption DEF Cut
  <2> QED BY <2>1 DEF Empty
<1>7. CASE now \in Cut(e.before) /\ e.before # Absent
  <2>1. \A key \in DOMAIN now : key \in DOMAIN e.before /\ now[key] = e.before[key]
    BY <1>1, <1>7, CutIsPart
  <2> QED BY <1>7, <2>1 DEF Read
<1> QED BY <1>3, <1>4, <1>5, <1>6, <1>7

(* Failures are counted up to the bound and a failed rollback stays on record.*)
Recorded == failures' \in 0..MaxFailures /\ stuck' \in BOOLEAN /\ (stuck => stuck')

LEMMA NothingFails ==
  ASSUME TypeOK, UNCHANGED <<failures, stuck>>
  PROVE  Recorded
BY DEF TypeOK, Recorded

LEMMA AFailure ==
  ASSUME TypeOK, Fails, UNCHANGED stuck \/ stuck' = TRUE
  PROVE  Recorded
<1>1. failures' \in 0..MaxFailures
  BY MarksAssumption DEF TypeOK, Fails
<1>2. stuck' \in BOOLEAN /\ (stuck => stuck')
  BY Zenon DEF TypeOK
<1> QED BY <1>1, <1>2 DEF Recorded

(* The layer an edit in progress is about.                                  *)
LEMMA TargetIsALayer ==
  ASSUME TypeOK, NEW a \in Actors, at[a] # "idle"
  PROVE  Target(a) \in Layers
BY LayersAssumption DEF TypeOK, Target

(* Who ignores the overlay asks less of the files.                          *)
LEMMA AskingLess ==
  ASSUME alone => alone', NEW files, Reconcilable(files)
  PROVE  Reconcilable(files)'
BY DEF Reconcilable

LEMMA InitIInv == Init => IInv
<1> SUFFICES ASSUME Init PROVE IInv
  OBVIOUS
<1>1. /\ file \in [Layers -> Content] /\ Reconcilable(file)
  BY InitialAssumption DEF Init, Reconcilable
<1>2. Idle \in [key : {Absent} \cup Keys, value : {Absent} \cup Values,
                cascade : BOOLEAN, data : Mapping, original : Content, before : Content]
  BY MappingFacts DEF Idle, Content
<1>3. TypeOK
  <2>1. edits \in 0..MaxEdits /\ failures \in 0..MaxFailures
    BY MarksAssumption DEF Init
  <2>2. /\ at \in [Actors -> Steps] /\ \A a \in Actors : at[a] = "idle"
        /\ edit \in [Actors -> [key : {Absent} \cup Keys, value : {Absent} \cup Values,
                               cascade : BOOLEAN, data : Mapping,
                               original : Content, before : Content]]
    BY <1>2 DEF Init, Steps
  <2>3. /\ touched \in SUBSET Actors
        /\ overlap \in BOOLEAN /\ stuck \in BOOLEAN /\ alone \in BOOLEAN
    BY DEF Init
  <2> QED BY <1>1, <2>1, <2>2, <2>3 DEF TypeOK
<1>4. Paths /\ Undisturbed
  BY DEF Init, Paths, Undisturbed, Alone, Captured, Open
<1>5. Settled
  BY <1>1 DEF Init, Settled, Calm, Rests, Captured, Planned, Open
<1> QED BY <1>3, <1>4, <1>5 DEF IInv

(* The start, the reads, a gate and the answer of one edit leave the files  *)
(* to the others as they were.                                              *)
LEMMA ReadFrame ==
  ASSUME IInv, NEW a \in Actors, UNCHANGED file,
         \A b \in Actors \ {a} : at'[b] = at[b] /\ edit'[b] = edit[b],
         touched \subseteq touched' \cup {a}, overlap => overlap', stuck => stuck', alone => alone'
  PROVE  /\ \A b \in Actors \ {a} : b \notin touched' => Alone(b)'
         /\ \A b \in Actors \ {a} : Calm' => Rests(b)'
         /\ Calm' /\ Reconcilable(file) => Reconcilable(file)'
<1>1. ASSUME NEW b \in Actors \ {a}, b \notin touched' PROVE Alone(b)'
  <2>1. Alone(b) /\ at'[b] = at[b] /\ edit'[b] = edit[b]
    BY <1>1 DEF IInv, Undisturbed
  <2> QED BY <2>1 DEF Alone, MadeOfItsTexts, Captured, Target
<1>2. ASSUME NEW b \in Actors \ {a}, Calm' PROVE Rests(b)'
  <2>1. Rests(b) /\ at'[b] = at[b] /\ edit'[b] = edit[b]
    BY <1>2 DEF IInv, Settled, Calm
  <2>2. /\ With(b, edit[b].original)' = With(b, edit[b].original)
        /\ With(b, edit[b].data)' = With(b, edit[b].data)
    BY <2>1 DEF With, Target
  <2> QED BY <2>1, <2>2 DEF Rests, Captured, Planned, Target, Reconcilable
<1>3. Reconcilable(file) => Reconcilable(file)'
  BY DEF Reconcilable
<1> QED BY <1>1, <1>2, <1>3

(* A write gets in nobody's way as long as nothing is said to overlap, and  *)
(* touches everybody who edits the same file.                               *)
LEMMA PutFrame ==
  ASSUME IInv, NEW a \in Actors, at[a] # "idle", NEW content \in Content, Put(a, content),
         NEW step \in Steps, Goto(a, step), UNCHANGED <<edit, edits, alone>>,
         Recorded
  PROVE  /\ TypeOK' /\ file' = With(a, content)
         /\ at'[a] = step /\ Target(a)' = Target(a) /\ file'[Target(a)] = content
         /\ a \notin touched' => a \notin touched
         /\ Calm' => Calm
         /\ \A x : With(a, x)' = With(a, x)
         /\ \A b \in Actors \ {a} : b \notin touched' => Alone(b)'
         /\ \A b \in Actors \ {a} : Calm' => Rests(b)'
<1>0. TypeOK /\ Undisturbed /\ Settled
  BY DEF IInv
<1>1. Target(a) \in Layers
  BY <1>0, TargetIsALayer
<1>2. /\ file' = [file EXCEPT ![Target(a)] = content]
      /\ touched' = touched \cup Others(a, Steps \ {"idle"})
      /\ overlap' = (\/ overlap
                     \/ Others(a, Open) # {}
                     \/ \E b \in Actors \ {a} : Relies(b) /\ Target(b) # Target(a))
      /\ at' = [at EXCEPT ![a] = step]
  BY DEF Put, Goto
<1>3. /\ file' = With(a, content) /\ file' \in [Layers -> Content]
      /\ file'[Target(a)] = content /\ \A x \in Layers \ {Target(a)} : file'[x] = file[x]
  BY <1>0, <1>1, <1>2 DEF TypeOK, With
<1>4. at'[a] = step /\ \A b \in Actors \ {a} : at'[b] = at[b]
  BY <1>0, <1>2 DEF TypeOK
<1>5. TypeOK'
  BY <1>0, <1>2, <1>3 DEF TypeOK, Others, Steps, Recorded
<1>6. \A b \in Actors : Target(b)' = Target(b) /\ edit'[b] = edit[b]
  BY DEF Target
<1>7. ASSUME NEW b \in Actors \ {a}, b \notin touched' PROVE Alone(b)'
  <2>1. Alone(b) /\ at'[b] = at[b] /\ at[b] \in Steps
    BY <1>0, <1>2, <1>4, <1>7 DEF Undisturbed, TypeOK
  <2>2. at[b] = "idle" \/ Target(b) # Target(a)
    BY <1>2, <1>7, <2>1 DEF Others
  <2>3. at[b] # "idle" => file'[Target(b)] = file[Target(b)]
    BY <1>0, <1>3, <2>2, TargetIsALayer
  <2> QED BY <1>6, <2>1, <2>3 DEF Alone, MadeOfItsTexts, Captured, Open
<1>8. \A x : With(a, x)' = With(a, x)
  BY <1>0, <1>1, <1>2, <1>6 DEF With, TypeOK
<1>9. ASSUME NEW b \in Actors \ {a}, Calm' PROVE Rests(b)'
  <2>1. Rests(b) /\ at'[b] = at[b]
    BY <1>0, <1>2, <1>4, <1>9 DEF Settled, Calm, Recorded
  <2>2. Captured(b) \/ Planned(b) => Target(b) = Target(a)
    BY <1>2, <1>9 DEF Relies, Captured, Planned, Calm
  <2>3. Target(b) = Target(a) => \A x : With(b, x)' = With(b, x)
    BY <1>6, <1>8 DEF With
  <2>4. at[b] \notin Open
    BY <1>2, <1>9, <2>2 DEF Others, Captured, Open, Calm
  <2>5. Captured(b) => Reconcilable(With(b, edit[b].original))'
    <3> SUFFICES ASSUME Captured(b) PROVE Reconcilable(With(b, edit[b].original))'
      OBVIOUS
    <3>1. Reconcilable(With(b, edit[b].original))
      BY <2>1 DEF Rests
    <3>2. With(b, edit[b].original)' = With(b, edit[b].original)
      BY <1>6, <2>2, <2>3
    <3> QED BY <3>1, <3>2 DEF Reconcilable
  <2>6. Planned(b) => Reconcilable(With(b, edit[b].data))'
    <3> SUFFICES ASSUME Planned(b) PROVE Reconcilable(With(b, edit[b].data))'
      OBVIOUS
    <3>1. Reconcilable(With(b, edit[b].data))
      BY <2>1 DEF Rests
    <3>2. With(b, edit[b].data)' = With(b, edit[b].data)
      BY <1>6, <2>2, <2>3
    <3> QED BY <3>1, <3>2 DEF Reconcilable
  <2> QED BY <2>1, <2>4, <2>5, <2>6 DEF Rests, Captured, Planned
<1>10. (a \notin touched' => a \notin touched) /\ (Calm' => Calm)
  BY <1>2 DEF Calm, Recorded
<1> QED BY <1>2, <1>3, <1>4, <1>5, <1>6, <1>7, <1>8, <1>9, <1>10

-----------------------------------------------------------------------------
(* The second half of write_text, in a file that is still empty and in one  *)
(* that is not.                                                             *)
LEMMA FillPuts ==
  ASSUME TypeOK, NEW a \in Actors, at[a] # "idle", NEW texts \in SUBSET Content, Fill(a, texts)
  PROVE  \E content \in Content :
           Put(a, content) /\ (file[Target(a)] = Empty => content \in texts)
<1> DEFINE now == file[Target(a)]
<1>1. now \in Content /\ Garbled \in Content /\ Empty # Absent
  BY TargetIsALayer, MappingFacts, MarksAssumption DEF TypeOK, Content
<1>2. PICK text \in texts :
        \E content \in (CASE now = Empty                     -> {text}
                          [] now = Absent \/ text = Empty      -> {now}
                          [] OTHER                            -> {text, Garbled, now}) :
          Put(a, content)
  BY DEF Fill
<1>3. PICK content \in (CASE now = Empty                     -> {text}
                          [] now = Absent \/ text = Empty      -> {now}
                          [] OTHER                            -> {text, Garbled, now}) :
        Put(a, content)
  BY <1>2
<1>4. content \in {text, Garbled, now} /\ (now = Empty => content = text)
  BY <1>1, <1>3
<1> QED BY <1>1, <1>3, <1>4

LEMMA BeginKeeps ==
  ASSUME IInv, NEW a \in Actors, NEW k \in Keys, NEW v \in Values, NEW cascade \in BOOLEAN,
         Begin(a, k, v, cascade), NEW step \in {"plan", "capture"}, Goto(a, step),
         IF step = "plan" THEN a \in Clis ELSE a \in Consoles
  PROVE  IInv'
<1>0. TypeOK /\ Paths /\ Undisturbed /\ Settled
  BY DEF IInv
<1> DEFINE layer == LayerOf[k]
           e == [key |-> k, value |-> v, cascade |-> cascade,
                 data |-> SetPath(DropScope(Read(file[layer])), k, v),
                 original |-> Absent, before |-> file[layer]]
<1>1. /\ at[a] = "idle" /\ edits < MaxEdits /\ file[layer] # Garbled
      /\ layer = "repo" => cascade
      /\ edits' = edits + 1 /\ touched' = touched \ {a}
      /\ edit' = [edit EXCEPT ![a] = e] /\ at' = [at EXCEPT ![a] = step]
      /\ UNCHANGED <<file, failures, overlap, stuck, alone>>
  BY DEF Begin, Goto
<1>2. /\ layer \in Layers /\ file[layer] \in Mapping \cup {Absent}
      /\ file[layer] \in Content /\ Absent \in Content
  BY <1>0, <1>1, LayersAssumption DEF TypeOK, Content
<1>3. e \in [key : {Absent} \cup Keys, value : {Absent} \cup Values,
             cascade : BOOLEAN, data : Mapping, original : Content, before : Content]
  BY <1>2, MappingFacts
<1>4. /\ e.key = k /\ e.value = v /\ e.cascade = cascade /\ e.before = file[layer]
      /\ e.data = SetPath(DropScope(Read(e.before)), k, v)
  OBVIOUS
<1> HIDE DEF e
<1>5. /\ at'[a] = step /\ edit'[a] = e /\ Target(a)' = layer
      /\ \A b \in Actors \ {a} : at'[b] = at[b] /\ edit'[b] = edit[b]
  BY <1>0, <1>1, <1>4 DEF TypeOK, Target
<1>6. TypeOK'
  <2>1. edits' \in 0..MaxEdits
    BY <1>0, <1>1, MarksAssumption DEF TypeOK
  <2>2. at' \in [Actors -> Steps]
    BY <1>0, <1>1 DEF TypeOK, Steps
  <2>3. edit' \in [Actors -> [key : {Absent} \cup Keys, value : {Absent} \cup Values,
                              cascade : BOOLEAN, data : Mapping,
                              original : Content, before : Content]]
    BY <1>0, <1>1, <1>3 DEF TypeOK
  <2>4. \A b \in Actors : at'[b] # "idle" => edit'[b].key \in Keys /\ edit'[b].value \in Values
    BY <1>0, <1>4, <1>5 DEF TypeOK
  <2>5. touched' \in SUBSET Actors
    BY <1>0, <1>1 DEF TypeOK
  <2> QED BY <1>0, <1>1, <2>1, <2>2, <2>3, <2>4, <2>5 DEF TypeOK
<1>7. Paths'
  BY <1>0, <1>1, <1>4, <1>5 DEF Paths, Target
<1>8. Alone(a)' /\ Rests(a)'
  <2>1. ~ Captured(a)' /\ ~ Planned(a)' /\ at'[a] \notin Open /\ at'[a] \in {"plan", "capture"}
    BY <1>5, ActorsAssumption DEF Captured, Planned, Open
  <2>2. Rests(a)'
    BY <2>1 DEF Rests
  <2> QED BY <1>1, <1>4, <1>5, <2>1, <2>2 DEF Alone
<1>9. /\ \A b \in Actors \ {a} : b \notin touched' => Alone(b)'
      /\ \A b \in Actors \ {a} : Calm' => Rests(b)'
      /\ Calm' /\ Reconcilable(file) => Reconcilable(file)'
  BY <1>1, <1>5, ReadFrame
<1>10. Undisturbed'
  BY <1>8, <1>9 DEF Undisturbed
<1>11. Settled'
  BY <1>0, <1>1, <1>5, <1>8, <1>9 DEF Settled, Calm, Unsettled, Open
<1> QED BY <1>6, <1>7, <1>10, <1>11 DEF IInv

(* A step of an edit that leaves the layers and its texts alone.            *)
LEMMA AdvanceFrame ==
  ASSUME IInv, NEW a \in Actors, at[a] # "idle",
         NEW step \in {"capture", "rejected", "rollback", "accepted", "unrestored"}, Goto(a, step),
         UNCHANGED <<file, edit, edits, touched>>,
         Recorded,
         overlap' \in BOOLEAN, alone' \in BOOLEAN, overlap => overlap', alone => alone',
         Alone(a) => Alone(a)', Calm' => Rests(a)',
         Calm' /\ (\A b \in Actors : at'[b] \notin Unsettled) => Reconcilable(file)'
  PROVE  IInv'
<1>0. TypeOK /\ Paths /\ Undisturbed
  BY DEF IInv
<1>1. /\ at' = [at EXCEPT ![a] = step] /\ at'[a] = step
      /\ \A b \in Actors \ {a} : at'[b] = at[b] /\ edit'[b] = edit[b]
  BY <1>0 DEF Goto, TypeOK
<1>2. TypeOK'
  BY <1>0, <1>1 DEF TypeOK, Steps, Recorded
<1>3. Paths'
  BY <1>0, <1>1 DEF Paths, Target
<1>4. /\ \A b \in Actors \ {a} : b \notin touched' => Alone(b)'
      /\ \A b \in Actors \ {a} : Calm' => Rests(b)'
  BY <1>1, ReadFrame DEF Recorded
<1>5. Undisturbed'
  BY <1>0, <1>4 DEF Undisturbed
<1>6. Settled'
  BY <1>4 DEF Settled, Calm
<1> QED BY <1>2, <1>3, <1>5, <1>6 DEF IInv

LEMMA CliPlanKeeps ==
  ASSUME IInv, NEW a \in Actors, CliPlan(a)
  PROVE  IInv'
<1>0. TypeOK /\ Paths /\ Settled
  BY DEF IInv
<1>1. /\ at[a] = "plan" /\ UNCHANGED <<file, edit, edits, failures, touched, stuck, alone>>
      /\ overlap' = (overlap \/ \E b \in Actors \ {a} : at[b] \in Unsettled)
  BY DEF CliPlan, ReadsUnsettled
<1>2. PICK step \in {"capture", "rejected"} :
        /\ Goto(a, step)
        /\ step = "capture" => GatesPass(Target(a), TRUE, With(a, edit[a].data))
  BY DEF CliPlan, With
<1>3. at'[a] = step /\ \A b \in Actors \ {a} : at'[b] = at[b]
  BY <1>0, <1>2 DEF Goto, TypeOK
<1>4. Target(a) \in Layers
  BY <1>0, <1>1, TargetIsALayer
<1>5. Calm' => Reconcilable(file)
  BY <1>0, <1>1 DEF Settled, Calm, Unsettled, Open, Calm
<1>6. Alone(a) => Alone(a)'
  BY <1>1, <1>3 DEF Alone, Captured, Target, Open
<1>7. ASSUME Calm', step = "capture" PROVE Reconcilable(With(a, edit[a].data))
  <2>1. Target(a) = "repo" => With(a, edit[a].data)["global"] = file["global"]
    BY <1>0 DEF With, TypeOK, Layers
  <2>2. Target(a) = "global" \/ Target(a) = "repo"
    BY <1>4 DEF Layers
  <2>3. GatesPass(Target(a), TRUE, With(a, edit[a].data))
    BY <1>2, <1>7
  <2> HIDE DEF With
  <2> QED BY <1>5, <1>7, <2>1, <2>2, <2>3 DEF GatesPass, Reconcilable
<1>8. Calm' => Rests(a)'
  <2> SUFFICES ASSUME Calm' PROVE Rests(a)'
    OBVIOUS
  <2>1. ~ Captured(a)' /\ at'[a] \notin Open /\ (Planned(a)' => step = "capture")
    BY <1>3 DEF Captured, Planned, Open
  <2>2. With(a, edit[a].data)' = With(a, edit[a].data)
    BY <1>1 DEF With, Target
  <2>3. step = "capture" => Reconcilable(With(a, edit[a].data))'
    BY <1>1, <1>7, <2>2 DEF Reconcilable
  <2> QED BY <2>1, <2>3 DEF Rests
<1>9. overlap' \in BOOLEAN /\ alone' \in BOOLEAN /\ (overlap => overlap') /\ (alone => alone')
  BY <1>0, <1>1 DEF TypeOK
<1>10. Calm' => Reconcilable(file)'
  BY <1>1, <1>5 DEF Reconcilable
<1>11. Recorded
  BY <1>0, <1>1, NothingFails
<1> QED BY <1>1, <1>2, <1>6, <1>8, <1>9, <1>10, <1>11, AdvanceFrame

LEMMA CaptureKeeps ==
  ASSUME IInv, NEW a \in Actors, Capture(a)
  PROVE  IInv'
<1>0. TypeOK /\ Paths /\ Undisturbed /\ Settled
  BY DEF IInv
<1> DEFINE e == [edit[a] EXCEPT !.original = file[Target(a)]]
<1>1. /\ at[a] = "capture" /\ UNCHANGED <<file, edits, failures, touched, stuck, alone>>
      /\ edit' = [edit EXCEPT ![a] = e] /\ at' = [at EXCEPT ![a] = "truncate"]
      /\ overlap' = (overlap \/ \E b \in Actors \ {a} : at[b] \in Unsettled)
  BY DEF Capture, ReadsUnsettled, Goto
<1>2. Target(a) \in Layers /\ file[Target(a)] \in Content
  BY <1>0, <1>1, TargetIsALayer DEF TypeOK
<1>3. /\ e \in [key : {Absent} \cup Keys, value : {Absent} \cup Values,
                cascade : BOOLEAN, data : Mapping, original : Content, before : Content]
      /\ e.key = edit[a].key /\ e.value = edit[a].value /\ e.cascade = edit[a].cascade
      /\ e.data = edit[a].data /\ e.before = edit[a].before /\ e.original = file[Target(a)]
  BY <1>0, <1>2 DEF TypeOK
<1> HIDE DEF e
<1>4. /\ at'[a] = "truncate" /\ edit'[a] = e /\ Target(a)' = Target(a)
      /\ \A b \in Actors \ {a} : at'[b] = at[b] /\ edit'[b] = edit[b]
  BY <1>0, <1>1, <1>3 DEF TypeOK, Target
<1>5. TypeOK'
  <2>1. at' \in [Actors -> Steps]
    BY <1>0, <1>1 DEF TypeOK, Steps
  <2>2. edit' \in [Actors -> [key : {Absent} \cup Keys, value : {Absent} \cup Values,
                              cascade : BOOLEAN, data : Mapping,
                              original : Content, before : Content]]
    BY <1>0, <1>1, <1>3 DEF TypeOK
  <2>3. \A b \in Actors : at'[b] # "idle" => edit'[b].key \in Keys /\ edit'[b].value \in Values
    BY <1>0, <1>1, <1>3, <1>4 DEF TypeOK
  <2>4. overlap' \in BOOLEAN
    BY <1>0, <1>1 DEF TypeOK
  <2> QED BY <1>0, <1>1, <2>1, <2>2, <2>3, <2>4 DEF TypeOK
<1>6. Paths'
  BY <1>0, <1>1, <1>3, <1>4 DEF Paths, Target
<1>7. Alone(a) => Alone(a)'
  BY <1>1, <1>3, <1>4 DEF Alone, Captured, Open
<1>8. ASSUME Calm' PROVE Rests(a)'
  <2>1. Calm /\ Reconcilable(file) /\ Rests(a)
    BY <1>0, <1>1, <1>8 DEF Settled, Calm, Unsettled, Open
  <2>2. With(a, edit[a].original)' = file
    BY <1>0, <1>1, <1>2, <1>3, <1>4 DEF With, TypeOK
  <2>3. Reconcilable(With(a, edit[a].original))'
    BY <1>1, <2>1, <2>2 DEF Reconcilable
  <2>4. With(a, edit[a].data)' = With(a, edit[a].data) /\ (Planned(a)' => Planned(a))
    BY <1>1, <1>3, <1>4 DEF With, Planned
  <2>5. Planned(a)' => Reconcilable(With(a, edit[a].data))'
    BY <1>1, <2>1, <2>4 DEF Rests, Reconcilable
  <2> QED BY <1>4, <2>3, <2>5 DEF Rests, Open
<1>9. /\ \A b \in Actors \ {a} : b \notin touched' => Alone(b)'
      /\ \A b \in Actors \ {a} : Calm' => Rests(b)'
      /\ Calm' /\ Reconcilable(file) => Reconcilable(file)'
  BY <1>1, <1>4, ReadFrame
<1>10. Undisturbed'
  BY <1>0, <1>1, <1>7, <1>9 DEF Undisturbed
<1>11. Settled'
  <2>1. Calm' => Reconcilable(file)
    BY <1>0, <1>1 DEF Settled, Calm, Unsettled, Open
  <2> QED BY <1>8, <1>9, <2>1 DEF Settled, Calm
<1> QED BY <1>5, <1>6, <1>10, <1>11 DEF IInv

(* A write takes an edit on its path, and what the file holds then fits.    *)
LEMMA PutKeeps ==
  ASSUME IInv, NEW a \in Actors, at[a] # "idle", NEW content \in Content, Put(a, content),
         NEW step \in Steps \ {"idle", "plan"}, Goto(a, step),
         step = "gate" => a \in Consoles, UNCHANGED <<edit, edits, alone>>,
         Recorded,
         Alone(a) /\ a \notin touched => Alone(a)', Calm' => Rests(a)',
         Calm' /\ step \notin Unsettled => Reconcilable(With(a, content))
  PROVE  IInv'
<1>0. TypeOK /\ Paths /\ Undisturbed
  BY DEF IInv
<1>1. step \in Steps
  BY DEF Steps
<1>2. /\ TypeOK' /\ file' = With(a, content) /\ at'[a] = step
      /\ a \notin touched' => a \notin touched
      /\ Calm' => Calm
      /\ \A b \in Actors \ {a} : b \notin touched' => Alone(b)'
      /\ \A b \in Actors \ {a} : Calm' => Rests(b)'
  BY <1>1, PutFrame
<1>3. Paths'
  <2>1. \A b \in Actors \ {a} : at'[b] = at[b]
    BY <1>0 DEF Goto, TypeOK
  <2> QED BY <1>0, <1>2, <2>1 DEF Paths, Target
<1>4. Undisturbed'
  BY <1>0, <1>2 DEF Undisturbed
<1>5. Settled'
  <2>1. ASSUME Calm', \A b \in Actors : at'[b] \notin Unsettled PROVE Reconcilable(file)'
    <3>1. step \notin Unsettled
      BY <1>2, <2>1
    <3>2. Reconcilable(With(a, content))
      BY <1>2, <2>1, <3>1
    <3> HIDE DEF With
    <3> QED BY <1>2, <3>2 DEF Reconcilable
  <2> QED BY <1>2, <2>1 DEF Settled, Calm
<1> QED BY <1>2, <1>3, <1>4, <1>5 DEF IInv

LEMMA TruncateKeeps ==
  ASSUME IInv, NEW a \in Actors, Truncate(a)
  PROVE  IInv'
<1>1. /\ at[a] = "truncate" /\ Put(a, Empty) /\ Goto(a, "write")
      /\ UNCHANGED <<edit, edits, alone>> /\ Recorded
      /\ Empty \in Content /\ "write" \in Steps
  BY MappingFacts, NothingFails DEF IInv, Truncate, Content, Steps
<1>2. /\ at'[a] = "write" /\ Target(a)' = Target(a) /\ file'[Target(a)] = Empty
      /\ Calm' => Calm
      /\ \A x : With(a, x)' = With(a, x)
  BY <1>1, PutFrame
<1>3. Alone(a) => Alone(a)'
  BY <1>1, <1>2 DEF Alone, Captured, Open
<1>4. ASSUME Calm' PROVE Rests(a)'
  <2>1. Rests(a)
    BY <1>2, <1>4 DEF IInv, Settled, Calm
  <2>2. Captured(a) /\ (Planned(a)' => Planned(a))
    BY <1>1, <1>2 DEF Captured, Planned
  <2>3. /\ With(a, edit[a].original)' = With(a, edit[a].original)
        /\ With(a, edit[a].data)' = With(a, edit[a].data)
    BY <1>1, <1>2 DEF With
  <2>4. Reconcilable(With(a, edit[a].original))'
    BY <1>1, <2>1, <2>2, <2>3 DEF Rests, Reconcilable
  <2>5. Planned(a)' => Reconcilable(With(a, edit[a].data))'
    BY <1>1, <2>1, <2>2, <2>3 DEF Rests, Reconcilable
  <2> QED BY <1>2, <2>4, <2>5 DEF Rests
<1> QED BY <1>1, <1>3, <1>4, PutKeeps DEF Unsettled, Open

LEMMA WriteKeeps ==
  ASSUME IInv, NEW a \in Actors, Write(a)
  PROVE  IInv'
<1>0. TypeOK /\ Settled
  BY DEF IInv
<1> DEFINE step == IF a \in Consoles THEN "gate" ELSE "accepted"
<1>1. /\ at[a] = "write" /\ Fill(a, {edit[a].data}) /\ Goto(a, step)
      /\ UNCHANGED <<edit, edits, alone>> /\ Recorded
      /\ edit[a].data \in Content /\ step \in Steps
  BY <1>0, NothingFails DEF Write, Content, Steps, TypeOK
<1>2. PICK content \in Content :
        Put(a, content) /\ (file[Target(a)] = Empty => content = edit[a].data)
  BY <1>0, <1>1, FillPuts
<1>3. /\ at'[a] = step /\ Target(a)' = Target(a) /\ file'[Target(a)] = content
      /\ Calm' => Calm
      /\ \A x : With(a, x)' = With(a, x)
  BY <1>1, <1>2, PutFrame
<1>4. Alone(a) => Alone(a)'
  BY <1>1, <1>2, <1>3 DEF Alone, Captured, Open
<1>5. ASSUME Calm PROVE Rests(a)
  BY <1>0, <1>5 DEF Settled, Calm
<1>6. ASSUME Calm' PROVE Rests(a)'
  <2>1. Rests(a) /\ Captured(a) /\ ~ Planned(a)' /\ at'[a] \notin Open
    BY <1>1, <1>3, <1>5, <1>6 DEF Captured, Planned, Open
  <2>2. With(a, edit[a].original)' = With(a, edit[a].original)
    BY <1>1, <1>3 DEF With
  <2> QED BY <1>1, <2>1, <2>2 DEF Rests, Reconcilable
<1>7. Calm' /\ step \notin Unsettled => Reconcilable(With(a, content))
  BY <1>1, <1>2, <1>3, <1>5 DEF Rests, Planned, Open, Unsettled, Actors
<1> QED BY <1>1, <1>2, <1>4, <1>6, <1>7, PutKeeps

(* An open or a gate that fails leaves the file as it was: at the restore    *)
(* point, or with the whole text.                                            *)
LEMMA OpenFailsKeeps ==
  ASSUME IInv, NEW a \in Actors, OpenFails(a)
  PROVE  IInv'
<1>0. TypeOK /\ Settled
  BY DEF IInv
<1>1. /\ at[a] \in {"truncate", "gate"} /\ Goto(a, "rollback")
      /\ Recorded
      /\ UNCHANGED <<file, edit, edits, touched, overlap, stuck, alone>>
  BY <1>0, AFailure DEF OpenFails
<1>2. at'[a] = "rollback"
  BY <1>0, <1>1 DEF TypeOK, Goto
<1>3. ASSUME Alone(a) PROVE Alone(a)'
  <2>1. MadeOfItsTexts(a)
    BY <1>0, <1>1, <1>3, PartsAreMadeOfItsTexts DEF Alone, MadeOfItsTexts, TypeOK
  <2>2. MadeOfItsTexts(a)'
    BY <1>1, <2>1 DEF MadeOfItsTexts, Target
  <2> QED BY <1>1, <1>2, <1>3, <2>2 DEF Alone, Captured, Open, Target
<1>4. Calm' => Rests(a)'
  <2>1. Calm' => Rests(a)
    BY <1>0, <1>1 DEF Settled, Calm
  <2>2. With(a, edit[a].original)' = With(a, edit[a].original)
    BY <1>1 DEF With, Target
  <2> QED BY <1>1, <1>2, <2>1, <2>2 DEF Rests, Captured, Planned, Open, Reconcilable
<1>5. at'[a] \in Unsettled
  BY <1>2 DEF Unsettled
<1> QED BY <1>0, <1>1, <1>3, <1>4, <1>5, AdvanceFrame DEF TypeOK

LEMMA WriteFailsKeeps ==
  ASSUME IInv, NEW a \in Actors, WriteFails(a)
  PROVE  IInv'
<1>0. TypeOK /\ Settled
  BY DEF IInv
<1>1. /\ at[a] = "write" /\ Fill(a, Cut(edit[a].data)) /\ Goto(a, "rollback")
      /\ Recorded
      /\ UNCHANGED <<edit, edits, stuck, alone>> /\ "rollback" \in Steps
  BY <1>0, AFailure DEF WriteFails, Steps
<1>2. edit[a].data \in Content /\ Cut(edit[a].data) \in SUBSET Content
  BY <1>0, CutIsContent DEF Content, TypeOK
<1>3. PICK content \in Content :
        Put(a, content) /\ (file[Target(a)] = Empty => content \in Cut(edit[a].data))
  BY <1>0, <1>1, <1>2, FillPuts
<1>4. /\ TypeOK' /\ at'[a] = "rollback" /\ Target(a)' = Target(a) /\ file'[Target(a)] = content
      /\ Calm' => Calm
      /\ \A x : With(a, x)' = With(a, x)
  BY <1>0, <1>1, <1>3, PutFrame DEF TypeOK
<1>5. ASSUME Alone(a) PROVE Alone(a)'
  <2>1. /\ edit[a].data = SetPath(DropScope(Read(edit[a].before)), edit[a].key, edit[a].value)
        /\ edit[a].before # Garbled /\ edit[a].original = edit[a].before
        /\ content \in Cut(edit[a].data)
    BY <1>1, <1>3, <1>5 DEF Alone, Captured, Open
  <2>2. MadeOfItsTexts(a)'
    BY <1>0, <1>1, <1>4, <2>1, PartsAreMadeOfItsTexts DEF MadeOfItsTexts, TypeOK
  <2> QED BY <1>1, <1>4, <2>1, <2>2 DEF Alone, Captured, Open
<1>6. Calm' => Rests(a)'
  <2>1. Calm' => Rests(a)
    BY <1>0, <1>4 DEF Settled, Calm
  <2>2. With(a, edit[a].original)' = With(a, edit[a].original)
    BY <1>1, <1>4 DEF With
  <2> QED BY <1>1, <1>4, <2>1, <2>2 DEF Rests, Captured, Planned, Open, Reconcilable
<1>7. "rollback" \in Unsettled
  BY DEF Unsettled
<1> QED BY <1>0, <1>1, <1>3, <1>5, <1>6, <1>7, PutKeeps DEF TypeOK

LEMMA WebGateKeeps ==
  ASSUME IInv, NEW a \in Actors, WebGate(a)
  PROVE  IInv'
<1>0. TypeOK /\ Paths /\ Settled
  BY DEF IInv
<1> DEFINE passes == GatesPass(Target(a), edit[a].cascade, file)
           step   == IF passes THEN "accepted" ELSE "rollback"
<1>1. /\ at[a] = "gate" /\ Goto(a, step)
      /\ alone' = (alone \/ (at'[a] = "accepted" /\ ~ edit[a].cascade))
      /\ UNCHANGED <<file, edit, edits, failures, touched, overlap, stuck>>
  BY DEF WebGate
<1>2. at'[a] = step
  BY <1>0, <1>1 DEF TypeOK, Goto
<1>3. overlap' \in BOOLEAN /\ alone' \in BOOLEAN /\ (alone => alone')
  BY <1>0, <1>1 DEF TypeOK
<1>4. ASSUME Alone(a) PROVE Alone(a)'
  <2>1. MadeOfItsTexts(a)
    BY <1>0, <1>1, <1>4, PartsAreMadeOfItsTexts DEF Alone, MadeOfItsTexts, TypeOK
  <2>2. MadeOfItsTexts(a)'
    BY <1>1, <2>1 DEF MadeOfItsTexts, Target
  <2> QED BY <1>1, <1>2, <1>4, <2>2 DEF Alone, Captured, Open, Target
<1>5. Calm' => Rests(a) /\ Captured(a)
  BY <1>0, <1>1 DEF Settled, Calm, Captured
<1>6. Calm' => Rests(a)'
  <2>1. ~ Planned(a)' /\ at'[a] \notin Open
    BY <1>2 DEF Planned, Open
  <2>2. With(a, edit[a].original)' = With(a, edit[a].original)
    BY <1>1 DEF With, Target
  <2> QED BY <1>1, <1>3, <1>5, <2>1, <2>2 DEF Rests, Reconcilable
<1>7. ASSUME Calm', passes PROVE Reconcilable(file)'
  <2>1. Target(a) \in {"global", "repo"}
    BY <1>0, <1>1, TargetIsALayer DEF Layers
  <2>2. Target(a) = "repo" => Buildable(Read(file["global"]))
    <3> SUFFICES ASSUME Target(a) = "repo" PROVE Buildable(Read(file["global"]))
      OBVIOUS
    <3>1. Reconcilable(With(a, edit[a].original))
      BY <1>1, <1>5, <1>7 DEF Rests
    <3>2. With(a, edit[a].original)["global"] = file["global"]
      BY <1>0 DEF With, TypeOK, Layers
    <3> QED BY <3>1, <3>2 DEF Reconcilable
  <2>3. Buildable(Read(file["global"]))
    BY <1>7, <2>1, <2>2 DEF GatesPass
  <2>4. ~ alone' => edit[a].cascade
    BY <1>0, <1>1, <1>2, <1>7 DEF TypeOK
  <2>5. edit[a].cascade => Buildable(Merged(file["global"], file["repo"]))
    BY <1>7 DEF GatesPass
  <2> QED BY <1>1, <2>3, <2>4, <2>5 DEF Reconcilable
<1>8. ~ passes => at'[a] \in Unsettled
  BY <1>2 DEF Unsettled
<1>9. Recorded
  BY <1>0, <1>1, NothingFails
<1> QED BY <1>1, <1>3, <1>4, <1>6, <1>7, <1>8, <1>9, AdvanceFrame

LEMMA RollbackKeeps ==
  ASSUME IInv, NEW a \in Actors, Rollback(a)
  PROVE  IInv'
<1>0. TypeOK /\ Settled
  BY DEF IInv
<1> DEFINE gone    == edit[a].original = Absent
           content == IF gone THEN Absent ELSE Empty
           step    == IF gone THEN "rejected" ELSE "restore"
<1>1. /\ at[a] = "rollback" /\ Put(a, content) /\ Goto(a, step)
      /\ UNCHANGED <<edit, edits, alone>> /\ Recorded
      /\ content \in Content /\ step \in Steps
  BY <1>0, MappingFacts, NothingFails DEF Rollback, Content, Steps
<1>2. /\ at'[a] = step /\ Target(a)' = Target(a) /\ file'[Target(a)] = content
      /\ Calm' => Calm
      /\ \A x : With(a, x)' = With(a, x)
  BY <1>1, PutFrame
<1>3. Alone(a) => Alone(a)'
  BY <1>1, <1>2 DEF Alone, Captured, Open
<1>4. Calm => Rests(a) /\ Captured(a)
  BY <1>0, <1>1 DEF Settled, Calm, Captured
<1>5. Calm' => Rests(a)'
  <2>1. ~ Planned(a)' /\ (at'[a] \in Open => file'[Target(a)'] = Empty)
    BY <1>2 DEF Planned, Open
  <2>2. With(a, edit[a].original)' = With(a, edit[a].original)
    BY <1>1, <1>2 DEF With
  <2> QED BY <1>1, <1>2, <1>4, <2>1, <2>2 DEF Rests, Reconcilable
<1>6. Calm' /\ step \notin Unsettled => Reconcilable(With(a, content))
  BY <1>2, <1>4 DEF Rests, Unsettled, Open
<1> QED BY <1>1, <1>3, <1>5, <1>6, PutKeeps

(* A rollback that fails leaves the file as it is and is on record.         *)
LEMMA RollbackFailsKeeps ==
  ASSUME IInv, NEW a \in Actors, RollbackFails(a)
  PROVE  IInv'
<1>0. TypeOK
  BY DEF IInv
<1>1. /\ at[a] = "rollback" /\ Goto(a, "unrestored") /\ stuck' = TRUE
      /\ Recorded
      /\ UNCHANGED <<file, edit, edits, touched, overlap, alone>>
  BY <1>0, AFailure DEF RollbackFails
<1>2. at'[a] = "unrestored" /\ ~ Calm'
  BY <1>0, <1>1 DEF TypeOK, Goto, Calm
<1>3. Alone(a) => Alone(a)'
  BY <1>1, <1>2 DEF Alone, MadeOfItsTexts, Captured, Open, Target
<1> QED BY <1>0, <1>1, <1>2, <1>3, AdvanceFrame DEF TypeOK

LEMMA RestoreKeeps ==
  ASSUME IInv, NEW a \in Actors, Restore(a)
  PROVE  IInv'
<1>0. TypeOK /\ Settled
  BY DEF IInv
<1>1. /\ at[a] = "restore" /\ Fill(a, {edit[a].original}) /\ Goto(a, "rejected")
      /\ UNCHANGED <<edit, edits, alone>> /\ Recorded
      /\ edit[a].original \in Content /\ "rejected" \in Steps
  BY <1>0, NothingFails DEF Restore, Steps, TypeOK
<1>2. PICK content \in Content :
        Put(a, content) /\ (file[Target(a)] = Empty => content = edit[a].original)
  BY <1>0, <1>1, FillPuts
<1>3. /\ at'[a] = "rejected" /\ Target(a)' = Target(a) /\ file'[Target(a)] = content
      /\ Calm' => Calm
  BY <1>1, <1>2, PutFrame
<1>4. Alone(a) => Alone(a)'
  BY <1>1, <1>2, <1>3 DEF Alone, Captured, Open
<1>5. Rests(a)'
  BY <1>3 DEF Rests, Captured, Planned, Open
<1>6. Calm' => Reconcilable(With(a, content))
  BY <1>0, <1>1, <1>2, <1>3 DEF Settled, Calm, Rests, Captured, Open
<1> QED BY <1>1, <1>2, <1>4, <1>5, <1>6, PutKeeps

LEMMA RestoreFailsKeeps ==
  ASSUME IInv, NEW a \in Actors, RestoreFails(a)
  PROVE  IInv'
<1>0. TypeOK
  BY DEF IInv
<1>1. /\ at[a] = "restore" /\ Fill(a, Cut(edit[a].original)) /\ Goto(a, "unrestored")
      /\ stuck' = TRUE /\ Recorded
      /\ UNCHANGED <<edit, edits, alone>> /\ "unrestored" \in Steps
  BY <1>0, AFailure DEF RestoreFails, Steps
<1>2. Cut(edit[a].original) \in SUBSET Content
  BY <1>0, CutIsContent DEF TypeOK
<1>3. PICK content \in Content :
        Put(a, content) /\ (file[Target(a)] = Empty => content \in Cut(edit[a].original))
  BY <1>0, <1>1, <1>2, FillPuts
<1>4. /\ TypeOK' /\ at'[a] = "unrestored" /\ Target(a)' = Target(a) /\ file'[Target(a)] = content
      /\ ~ Calm'
  BY <1>0, <1>1, <1>3, PutFrame DEF TypeOK, Calm
<1>5. ASSUME Alone(a) PROVE Alone(a)'
  <2>1. /\ edit[a].data = SetPath(DropScope(Read(edit[a].before)), edit[a].key, edit[a].value)
        /\ edit[a].before # Garbled /\ edit[a].original = edit[a].before
        /\ content \in Cut(edit[a].before)
    BY <1>1, <1>3, <1>5 DEF Alone, Captured, Open
  <2>2. MadeOfItsTexts(a)'
    BY <1>0, <1>1, <1>4, <2>1, PartsAreMadeOfItsTexts DEF MadeOfItsTexts, TypeOK
  <2> QED BY <1>1, <1>4, <2>1, <2>2 DEF Alone, Captured, Open
<1> QED BY <1>0, <1>1, <1>3, <1>4, <1>5, PutKeeps DEF TypeOK

LEMMA AnswerKeeps ==
  ASSUME IInv, NEW a \in Actors, Answer(a)
  PROVE  IInv'
<1>0. TypeOK /\ Paths /\ Undisturbed /\ Settled
  BY DEF IInv
<1>1. /\ at[a] \in {"accepted", "rejected", "unrestored"} /\ at' = [at EXCEPT ![a] = "idle"]
      /\ edit' = [edit EXCEPT ![a] = Idle] /\ touched' = touched \ {a}
      /\ UNCHANGED <<file, edits, failures, overlap, stuck, alone>>
  BY DEF Answer, Goto
<1>2. Idle \in [key : {Absent} \cup Keys, value : {Absent} \cup Values,
                cascade : BOOLEAN, data : Mapping, original : Content, before : Content]
  BY MappingFacts DEF Idle, Content
<1>3. /\ at'[a] = "idle"
      /\ \A b \in Actors \ {a} : at'[b] = at[b] /\ edit'[b] = edit[b]
  BY <1>0, <1>1 DEF TypeOK
<1>4. TypeOK'
  <2>1. at' \in [Actors -> Steps] /\ touched' \in SUBSET Actors
    BY <1>0, <1>1 DEF TypeOK, Steps
  <2>2. edit' \in [Actors -> [key : {Absent} \cup Keys, value : {Absent} \cup Values,
                              cascade : BOOLEAN, data : Mapping,
                              original : Content, before : Content]]
    BY <1>0, <1>1, <1>2 DEF TypeOK
  <2>3. \A b \in Actors : at'[b] # "idle" => edit'[b].key \in Keys /\ edit'[b].value \in Values
    BY <1>0, <1>3 DEF TypeOK
  <2> QED BY <1>0, <1>1, <2>1, <2>2, <2>3 DEF TypeOK
<1>5. Paths'
  BY <1>0, <1>3 DEF Paths, Target
<1>6. Alone(a)' /\ Rests(a)'
  BY <1>3 DEF Alone, Rests, Captured, Planned, Open
<1>7. /\ \A b \in Actors \ {a} : b \notin touched' => Alone(b)'
      /\ \A b \in Actors \ {a} : Calm' => Rests(b)'
      /\ Calm' /\ Reconcilable(file) => Reconcilable(file)'
  BY <1>1, <1>3, ReadFrame
<1>8. Undisturbed'
  BY <1>6, <1>7 DEF Undisturbed
<1>9. Settled'
  BY <1>0, <1>1, <1>3, <1>6, <1>7 DEF Settled, Calm, Unsettled, Open
<1> QED BY <1>4, <1>5, <1>8, <1>9 DEF IInv

-----------------------------------------------------------------------------
LEMMA NextIInv == IInv /\ [Next]_vars => IInv'
<1> SUFFICES ASSUME IInv, [Next]_vars PROVE IInv'
  OBVIOUS
<1>1. ASSUME NEW a \in Consoles, WebBegin(a) PROVE IInv'
  <2>1. PICK k \in Keys, v \in Values, include_repo \in IncludeRepo :
          Begin(a, k, v, include_repo) /\ Goto(a, "capture")
    BY <1>1 DEF WebBegin
  <2>2. a \in Actors /\ include_repo \in BOOLEAN
    BY TabsAssumption DEF Actors
  <2> QED BY <2>1, <2>2, BeginKeeps
<1>2. ASSUME NEW a \in Clis, CliBegin(a) PROVE IInv'
  <2>1. PICK k \in Keys, v \in Values : Begin(a, k, v, TRUE) /\ Goto(a, "plan")
    BY <1>2 DEF CliBegin
  <2>2. a \in Actors
    BY DEF Actors
  <2> QED BY <2>1, <2>2, BeginKeeps
<1>3. ASSUME NEW a \in Actors, Step(a) PROVE IInv'
  BY <1>3, CliPlanKeeps, CaptureKeeps, TruncateKeeps, OpenFailsKeeps, WriteKeeps, WriteFailsKeeps,
     WebGateKeeps, RollbackKeeps, RollbackFailsKeeps, RestoreKeeps, RestoreFailsKeeps, AnswerKeeps DEF Step
<1>4. CASE UNCHANGED vars
  BY <1>4 DEF IInv, vars, TypeOK, Paths, Undisturbed, Settled, Calm, Alone, MadeOfItsTexts,
              Rests, Captured, Planned, With, Target, Reconcilable
<1> QED BY <1>1, <1>2, <1>3, <1>4 DEF Next

(* Every reachable state satisfies the inductive invariant.                 *)
THEOREM Invariance == Spec => []IInv
BY InitIInv, NextIInv, PTL DEF Spec

(* TypeOK for every schema: what is written to a layer, and kept as its     *)
(* restore point, is a mapping of the schema's keys, no file or not YAML.   *)
THEOREM TypeCorrect == Spec => []TypeOK
BY Invariance, PTL DEF IInv

(* SoloEditIsExact for any number of consoles and CLIs: nobody else's write *)
(* to the file is enough for an edit to change its key or nothing.          *)
THEOREM UndisturbedEditIsExact == Spec => []SoloEditIsExact
<1>1. ASSUME IInv PROVE SoloEditIsExact
  <2> SUFFICES ASSUME NEW a \in Actors \ touched
               PROVE  LET e      == edit[a]
                          now    == file[Target(a)]
                          before == Read(e.before)
                      IN
                      /\ at[a] = "accepted" =>
                           /\ now \in Mapping
                           /\ DOMAIN now = (DOMAIN before \ {Scope}) \cup {e.key}
                           /\ \A key \in DOMAIN now :
                                now[key] = IF key = e.key THEN e.value ELSE before[key]
                      /\ at[a] = "rejected" => now = e.before
                      /\ at[a] = "unrestored" => MadeOfItsTexts(a)
    BY DEF SoloEditIsExact
  <2>1. Alone(a) /\ edit[a].data \in Mapping
    BY <1>1 DEF IInv, Undisturbed, TypeOK
  <2>2. LET after == SetPath(DropScope(Read(edit[a].before)), edit[a].key, edit[a].value) IN
        /\ DOMAIN after = (DOMAIN Read(edit[a].before) \ {Scope}) \cup {edit[a].key}
        /\ \A key \in DOMAIN after :
             after[key] = IF key = edit[a].key THEN edit[a].value ELSE Read(edit[a].before)[key]
    BY DEF SetPath, DropScope
  <2>3. at[a] = "accepted" =>
          /\ file[Target(a)] \in Mapping
          /\ file[Target(a)] = SetPath(DropScope(Read(edit[a].before)), edit[a].key, edit[a].value)
    BY <2>1 DEF Alone
  <2>4. /\ at[a] = "rejected" => file[Target(a)] = edit[a].before
        /\ at[a] = "unrestored" => MadeOfItsTexts(a)
    BY <2>1 DEF Alone
  <2> QED BY <2>2, <2>3, <2>4
<1> QED BY <1>1, Invariance, PTL

(* BrokenOnlyByOverlapOrFailedRollback for any number of consoles and CLIs and any catalog. *)
THEOREM LeftReconcilableBarOverlap == Spec => []BrokenOnlyByOverlapOrFailedRollback
<1>1. IInv => BrokenOnlyByOverlapOrFailedRollback
  BY DEF IInv, Settled, Calm, Unsettled, Open, BrokenOnlyByOverlapOrFailedRollback, Calm, NeverLeftUnreconcilable
<1> QED BY <1>1, Invariance, PTL
=============================================================================
