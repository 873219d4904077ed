------------------------ MODULE DailyWatermarksProofs ------------------------
(***************************************************************************)
(* Theorems about DailyWatermarks, for every set of repositories, pull      *)
(* requests and processes, every page size and lookback and any number of   *)
(* runs: no watermark passes a pull request that was not printed, as far as *)
(* a full page can be trusted, and undisturbed runs print nothing twice.    *)
(***************************************************************************)
EXTENDS DailyWatermarks, NaturalsInduction, WellFoundedInduction, FiniteSetTheorems, TLAPS

(* Every non-empty set of naturals has a least element. *)
LEMMA LeastElement ==
    ASSUME NEW S \in SUBSET Nat, S # {}
    PROVE  \E m \in S : \A k \in S : m <= k
<1>1. PICK m \in S : \A k \in S : <<k, m>> \notin OpToRel(<, Nat)
  BY NatLessThanWellFounded, WFMin
<1>2. ASSUME NEW k \in S PROVE m <= k
  <2>1. k \in Nat /\ m \in Nat /\ ~(k < m)
    BY <1>1 DEF OpToRel
  <2> QED BY <2>1
<1> QED BY <1>2

(* ... and every non-empty set of naturals up to a bound a greatest one. *)
LEMMA GreatestElement ==
    ASSUME NEW n \in Nat, NEW S \in SUBSET (0..n), S # {}
    PROVE  \E m \in S : \A k \in S : k <= m
<1> DEFINE Below == {d \in Nat : \E k \in S : d = n - k}
<1>1. \A k \in S : k \in 0..n /\ n - k \in Below
  OBVIOUS
<1>2. PICK d \in Below : \A e \in Below : d <= e
  <2>1. Below \in SUBSET Nat
    OBVIOUS
  <2> HIDE DEF Below
  <2>2. Below # {}
    BY <1>1
  <2> QED BY <2>1, <2>2, LeastElement
<1>3. PICK m \in S : d = n - m
  BY <1>2
<1>4. ASSUME NEW k \in S PROVE k <= m
  <2>1. k \in 0..n /\ m \in 0..n /\ d <= n - k
    BY <1>1, <1>2
  <2> QED BY <1>3, <2>1
<1> QED BY <1>4

Marks == UNION {[D -> Int] : D \in SUBSET Repos}

Runs ==
  [at : {"idle", "fetch", "save"}, todo : SUBSET Repos, now : Times, found : SUBSET PRs,
   saved : Marks, cursor : Marks, asked : Marks, base : Marks]

TypeOK ==
  /\ clock \in Times
  /\ mergedAt \in [PRs -> Times \cup {Unmerged}]
  /\ watermark \in Marks /\ from \in Marks
  /\ run \in [Procs -> Runs]
  /\ runs \in Nat
  /\ reported \in SUBSET PRs
  /\ calm \in BOOLEAN
  /\ DOMAIN watermark \subseteq DOMAIN from
  /\ \A r \in Procs : /\ DOMAIN run[r].saved \subseteq DOMAIN run[r].base
                      /\ DOMAIN run[r].cursor \subseteq DOMAIN run[r].asked
                      /\ run[r].todo \cap DOMAIN run[r].asked = {}

(* Nothing known to a run or to the state file is in the future.            *)
Past(marks) == \A repo \in DOMAIN marks : marks[repo] <= clock

TimeInv ==
  /\ \A p \in PRs : mergedAt[p] <= clock
  /\ Past(watermark)
  /\ \A r \in Procs :
       /\ run[r].now <= clock
       /\ \A repo \in DOMAIN run[r].saved : run[r].saved[repo] <= run[r].now
       /\ Past(run[r].saved) /\ Past(run[r].cursor)

(* The stretches that end at `marks` were printed.                          *)
Dealt(marks, starts) ==
  \A repo \in DOMAIN marks : \A p \in Merged(repo) :
    starts[repo] < mergedAt[p] /\ mergedAt[p] <= marks[repo] => p \in reported

(* A cursor ends a stretch that this run found whole, next to the one that  *)
(* ends at the saved watermark.                                             *)
Whole(r) ==
  \A repo \in DOMAIN run[r].cursor :
    /\ repo \in DOMAIN run[r].saved => run[r].asked[repo] = run[r].saved[repo]
    /\ \A p \in Merged(repo) :
         run[r].asked[repo] < mergedAt[p] /\ mergedAt[p] <= run[r].cursor[repo]
           => p \in run[r].found

StretchInv ==
  /\ Dealt(watermark, from)
  /\ \A r \in Procs :
       /\ Dealt(run[r].saved, run[r].base)
       /\ Whole(r)
       /\ run[r].at = "save" => run[r].found \subseteq reported

IInv == TypeOK /\ TimeInv /\ StretchInv

-----------------------------------------------------------------------------
(* Undisturbed runs *)

Behind(p, marks) == RepoOf[p] \in DOMAIN marks /\ mergedAt[p] <= marks[RepoOf[p]]

(* What an undisturbed run found is later than the watermark and not later  *)
(* than its cursor, and it has a cursor for every repository that answered. *)
Fresh(r) ==
  /\ DOMAIN run[r].asked = DOMAIN run[r].cursor
  /\ \A repo \in DOMAIN run[r].cursor \cap DOMAIN run[r].saved :
       run[r].saved[repo] <= run[r].cursor[repo]
  /\ \A p \in run[r].found : Behind(p, run[r].cursor) /\ ~ Behind(p, run[r].saved)

(* One run at a time, on the watermarks it loaded, and everything printed   *)
(* is behind them or about to be.                                           *)
OneRun == \A q, r \in Procs : run[q].at # "idle" /\ run[r].at # "idle" => q = r

FreshRuns ==
  \A r \in Procs :
    /\ run[r].at # "idle" => run[r].saved = watermark /\ Fresh(r)
    /\ run[r].at = "save" => DOMAIN run[r].cursor # {}

PrintedIsBehind ==
  \A p \in reported :
    \/ Behind(p, watermark)
    \/ \E r \in Procs : run[r].at = "save" /\ Behind(p, run[r].cursor)

CalmInv ==
  /\ \A p \in reported : mergedAt[p] # Unmerged
  /\ \A r \in Procs : \A p \in run[r].found : mergedAt[p] # Unmerged
  /\ calm => OneRun /\ FreshRuns /\ PrintedIsBehind

QuietInv == TypeOK /\ TimeInv /\ CalmInv

-----------------------------------------------------------------------------
(* What maps from repositories to seconds are built from.                   *)
LEMMA MarkFacts ==
  /\ \A f \in Marks : DOMAIN f \subseteq Repos /\ \A repo \in DOMAIN f : f[repo] \in Int
  /\ NoMarks \in Marks /\ DOMAIN NoMarks = {}
  /\ \A f \in Marks, repo \in Repos, v \in Int : With(f, repo, v) \in Marks
  /\ \A f, g \in Marks : Over(f, g) \in Marks
<1>1. \A f \in Marks : DOMAIN f \subseteq Repos /\ \A repo \in DOMAIN f : f[repo] \in Int
  BY DEF Marks
<1>2. NoMarks \in Marks /\ DOMAIN NoMarks = {}
  <2>1. NoMarks \in [{} -> Int] /\ {} \in SUBSET Repos
    BY DEF NoMarks
  <2> QED BY <2>1 DEF Marks, NoMarks
<1>3. ASSUME NEW f \in Marks, NEW repo \in Repos, NEW v \in Int
      PROVE  With(f, repo, v) \in Marks
  <2> DEFINE D == DOMAIN f \cup {repo}
  <2>1. D \in SUBSET Repos /\ With(f, repo, v) \in [D -> Int]
    BY <1>1 DEF With
  <2> QED BY <2>1 DEF Marks
<1>4. ASSUME NEW f \in Marks, NEW g \in Marks
      PROVE  Over(f, g) \in Marks
  <2> DEFINE D == DOMAIN f \cup DOMAIN g
  <2>1. D \in SUBSET Repos /\ Over(f, g) \in [D -> Int]
    BY <1>1 DEF Over
  <2> QED BY <2>1 DEF Marks
<1> QED BY <1>1, <1>2, <1>3, <1>4

LEMMA NoRunIsTyped == NoRun \in Runs
BY MarkFacts, TimeAssumption DEF NoRun, Runs, Times

LEMMA TypedValues ==
  ASSUME TypeOK
  PROVE  /\ clock \in Int /\ \A p \in PRs : mergedAt[p] \in Int
         /\ \A r \in Procs : /\ run[r] \in Runs /\ run[r].now \in Int
                            /\ run[r].saved \in Marks /\ run[r].cursor \in Marks
                            /\ run[r].asked \in Marks /\ run[r].base \in Marks
<1>1. \A t \in Times : t \in Int
  BY TimeAssumption DEF Times
<1>2. clock \in Times /\ mergedAt \in [PRs -> Times \cup {Unmerged}] /\ run \in [Procs -> Runs]
  BY DEF TypeOK
<1>3. ASSUME NEW p \in PRs PROVE mergedAt[p] \in Int
  BY <1>1, <1>2 DEF Unmerged
<1>4. ASSUME NEW r \in Procs
      PROVE  /\ run[r] \in Runs /\ run[r].now \in Int
             /\ run[r].saved \in Marks /\ run[r].cursor \in Marks
             /\ run[r].asked \in Marks /\ run[r].base \in Marks
  <2>1. run[r] \in Runs
    BY <1>2
  <2> QED BY <1>1, <2>1 DEF Runs
<1> QED BY <1>1, <1>2, <1>3, <1>4

(* A window begins at an instant, and so does a first run's stretch.        *)
LEMMA SinceIsTyped ==
  ASSUME TypeOK, NEW r \in Procs, NEW repo \in Repos
  PROVE  Since(r, repo) \in Int
BY MarkFacts, PageAssumption, TimeAssumption DEF TypeOK, Runs, Since, Times

LEMMA StartIsTyped ==
  ASSUME TypeOK, NEW r \in Procs
  PROVE  Start(r) \in Marks
<1> DEFINE D == DOMAIN run[r].cursor \cup DOMAIN run[r].saved
<1>1. run[r] \in Runs
  BY DEF TypeOK
<1>2. D \in SUBSET Repos /\ Start(r) \in [D -> Int]
  BY <1>1, MarkFacts DEF TypeOK, Runs, Start
<1> QED BY <1>2 DEF Marks

(* The cursor of a complete fetch is the newest merge it found, or the      *)
(* instant the run began.                                                   *)
LEMMA CursorFacts ==
  ASSUME TypeOK, TimeInv, NEW r \in Procs, NEW repo \in Repos,
         NEW found \in SUBSET Merged(repo)
  PROVE  /\ Cursor(r, found) \in Times /\ Cursor(r, found) <= clock
         /\ \A p \in found : mergedAt[p] <= Cursor(r, found)
         /\ found # {} => \E p \in found : Cursor(r, found) = mergedAt[p]
<1>1. run[r] \in Runs /\ run[r].now \in Times /\ run[r].now <= clock
  BY DEF TypeOK, TimeInv, Runs
<1>2. CASE found = {}
  BY <1>1, <1>2 DEF Cursor
<1>3. CASE found # {}
  <2> DEFINE S == {mergedAt[p] : p \in found}
  <2>1. \A p \in found : p \in PRs /\ mergedAt[p] \in Times /\ mergedAt[p] <= clock
    BY DEF TypeOK, TimeInv, Merged
  <2>2. S \in SUBSET (0..MaxTime) /\ S # {}
    BY <1>3, <2>1 DEF Times
  <2> HIDE DEF S
  <2>3. \E m \in S : \A k \in S : k <= m
    BY <2>2, TimeAssumption, GreatestElement
  <2>4. Max(S) \in S /\ \A k \in S : k <= Max(S)
    <3>1. \E m \in S : \A k \in S : m >= k
      BY <2>2, <2>3, TimeAssumption
    <3>2. Max(S) \in S /\ \A k \in S : Max(S) >= k
      BY <3>1 DEF Max
    <3> QED BY <2>2, <3>2, TimeAssumption
  <2>5. Cursor(r, found) = Max(S)
    BY <1>3 DEF Cursor, S
  <2> USE DEF S
  <2> QED BY <1>3, <2>1, <2>4, <2>5
<1> QED BY <1>2, <1>3

(* A page that is not full holds every merged pull request: of those that   *)
(* are missing, the one with the fewest younger ones would be on it.        *)
LEMMA ShortPageIsWhole ==
  ASSUME TypeOK, NEW repo \in Repos, ~ (Cardinality(Page(repo)) >= PageLimit)
  PROVE  Page(repo) = Merged(repo)
<1> DEFINE M == Merged(repo)
           Younger(p) == {q \in M : q > p}
           Missing == M \ Page(repo)
           Counts == {Cardinality(Younger(p)) : p \in Missing}
<1>1. M \in SUBSET PRs /\ IsFiniteSet(M) /\ Page(repo) \subseteq M
  BY PRsAssumption, FS_Subset DEF Merged, Page
<1>2. \A p \in M : Younger(p) \in SUBSET M /\ IsFiniteSet(Younger(p))
  BY <1>1, FS_Subset
<1>3. \A p \in M : Cardinality(Younger(p)) \in Nat
  BY <1>2, FS_CardinalityType
<1>4. Page(repo) = {p \in M : Cardinality(Younger(p)) < PageLimit}
  BY DEF Page
<1> HIDE DEF M, Younger
<1>5. SUFFICES ASSUME Missing # {} PROVE FALSE
  BY <1>1 DEF M
<1>6. PICK p \in Missing : \A q \in Missing : Cardinality(Younger(p)) <= Cardinality(Younger(q))
  <2>1. Counts \in SUBSET Nat /\ Counts # {}
    BY <1>3, <1>5
  <2>2. PICK m \in Counts : \A k \in Counts : m <= k
    BY <2>1, LeastElement
  <2>3. PICK p \in Missing : m = Cardinality(Younger(p))
    BY <2>2
  <2>4. \A q \in Missing : m <= Cardinality(Younger(q))
    BY <2>2
  <2> QED BY <2>3, <2>4
<1>7. ASSUME NEW q \in Younger(p) PROVE q \in Page(repo)
  <2>1. q \in M /\ p \in M /\ q > p /\ q \in Nat /\ p \in Nat
    BY <1>1, PRsAssumption DEF Younger
  <2>2. Younger(q) \in SUBSET Younger(p) /\ q \in Younger(p) /\ q \notin Younger(q)
    <3>1. \A o \in M : o \in Nat
      BY <1>1, PRsAssumption
    <3>2. q \in Younger(p) /\ q \notin Younger(q)
      BY <2>1 DEF Younger
    <3>3. ASSUME NEW o \in Younger(q) PROVE o \in Younger(p)
      <4>1. o \in M /\ o \in Nat /\ o > q
        BY <3>1 DEF Younger
      <4>2. o > p
        BY <2>1, <4>1
      <4> QED BY <4>1, <4>2 DEF Younger
    <3> QED BY <3>2, <3>3
  <2>3. Cardinality(Younger(q)) < Cardinality(Younger(p))
    <3>1. /\ Cardinality(Younger(q)) <= Cardinality(Younger(p))
          /\ Cardinality(Younger(q)) = Cardinality(Younger(p)) => Younger(p) = Younger(q)
      BY <1>2, <2>1, <2>2, FS_Subset
    <3> QED BY <1>3, <2>1, <2>2, <3>1
  <2> QED BY <1>3, <1>6, <2>1, <2>3
<1>8. Cardinality(Younger(p)) <= Cardinality(Page(repo))
  BY <1>1, <1>7, FS_Subset, Younger(p) \in SUBSET Page(repo)
<1>9. Cardinality(Page(repo)) \in Nat
  BY <1>1, FS_Subset, FS_CardinalityType
<1> QED BY <1>3, <1>4, <1>6, <1>8, <1>9, PageAssumption

(* A fetch that is complete found every pull request of its window.         *)
LEMMA CompleteFetchIsWhole ==
  ASSUME TypeOK, AgedPagesAreWhole, NEW r \in Procs, run[r].at = "fetch",
         NEW repo \in run[r].todo, NEW bad \in SUBSET Page(repo),
         Complete(Page(repo), bad, Since(r, repo)),
         NEW p \in Merged(repo), mergedAt[p] > Since(r, repo)
  PROVE  p \in Found(Page(repo), bad, Since(r, repo))
<1>1. repo \in Repos /\ p \in PRs
  BY DEF TypeOK, Runs, Merged
<1>2. mergedAt[p] \in Int /\ Since(r, repo) \in Int
  BY <1>1, SinceIsTyped, TimeAssumption DEF TypeOK, Times, Unmerged
<1>3. bad = {} /\ ~ MayBeTruncated(Page(repo), Since(r, repo))
  BY DEF Complete
<1>4. p \in Page(repo)
  <2>1. CASE ~ (Cardinality(Page(repo)) >= PageLimit)
    BY <1>1, <2>1, ShortPageIsWhole
  <2>2. CASE Cardinality(Page(repo)) >= PageLimit
    <3>1. p \notin Page(repo) => mergedAt[p] <= Since(r, repo)
      BY <1>3, <2>2 DEF AgedPagesAreWhole
    <3> QED BY <1>2, <3>1
  <2> QED BY <2>1, <2>2
<1> QED BY <1>2, <1>3, <1>4 DEF Found

-----------------------------------------------------------------------------
(* What the steps that do more than assign do to the run they are about.    *)
LEMMA BeginEffect ==
  ASSUME TypeOK, NEW r \in Procs, NEW repos \in SUBSET Repos, Begin(r, repos)
  PROVE  /\ run' \in [Procs -> Runs]
         /\ \A q \in Procs \ {r} : run'[q] = run[q]
         /\ run'[r].at = "fetch" /\ run'[r].found = {} /\ run'[r].now = clock
         /\ run'[r].saved = watermark /\ run'[r].base = from
         /\ run'[r].cursor = NoMarks /\ run'[r].asked = NoMarks
<1> DEFINE new == [at |-> "fetch", todo |-> repos, saved |-> watermark, now |-> clock,
                   found |-> {}, cursor |-> NoMarks, asked |-> NoMarks, base |-> from]
<1>1. run' = [run EXCEPT ![r] = new]
  BY DEF Begin
<1>2. new \in Runs
  BY MarkFacts DEF TypeOK, Runs
<1> QED BY <1>1, <1>2 DEF TypeOK

LEMMA FetchEffect ==
  ASSUME TypeOK, TimeInv, NEW r \in Procs, NEW repo \in Repos, NEW bad \in SUBSET Page(repo),
         Fetch(r, repo, bad)
  PROVE  LET since == Since(r, repo)
             found == Found(Page(repo), bad, since)
         IN
         /\ run' \in [Procs -> Runs]
         /\ \A q \in Procs \ {r} : run'[q] = run[q]
         /\ run'[r].at = "fetch" /\ run'[r].now = run[r].now /\ run'[r].todo = run[r].todo \ {repo}
         /\ run'[r].saved = run[r].saved /\ run'[r].base = run[r].base
         /\ run'[r].found = run[r].found \cup found /\ found \in SUBSET Merged(repo)
         /\ run'[r].cursor = IF Complete(Page(repo), bad, since)
                               THEN With(run[r].cursor, repo, Cursor(r, found))
                               ELSE run[r].cursor
         /\ run'[r].asked = With(run[r].asked, repo, since)
<1> DEFINE since == Since(r, repo)
           found == Found(Page(repo), bad, since)
           new == [run[r] EXCEPT
             !.todo   = @ \ {repo},
             !.found  = @ \cup found,
             !.cursor = IF Complete(Page(repo), bad, since)
                          THEN With(@, repo, Cursor(r, found)) ELSE @,
             !.asked  = With(@, repo, since)]
<1>1. run[r] \in Runs /\ run \in [Procs -> Runs] /\ run[r].at = "fetch"
  BY DEF TypeOK, Fetch
<1>2. run' = [run EXCEPT ![r] = new]
  BY <1>1 DEF Fetch
<1>3. found \in SUBSET Merged(repo) /\ found \in SUBSET PRs
  BY DEF Found, Page, Merged
<1>4. since \in Int /\ Cursor(r, found) \in Int
  BY <1>3, SinceIsTyped, CursorFacts, TimeAssumption DEF Times
<1>5. /\ With(run[r].cursor, repo, Cursor(r, found)) \in Marks
      /\ With(run[r].asked, repo, since) \in Marks
  BY <1>1, <1>4, MarkFacts DEF Runs
<1> HIDE DEF since, found
<1>6. new \in Runs
  BY <1>1, <1>3, <1>5 DEF Runs
<1>7. run' \in [Procs -> Runs] /\ \A q \in Procs \ {r} : run'[q] = run[q]
  BY <1>1, <1>2, <1>6
<1>8. run'[r] = new
  BY <1>1, <1>2
<1> USE DEF since, found
<1> QED BY <1>1, <1>3, <1>7, <1>8 DEF Runs

(* Ends a run without a trace, leaves its repository out, or prints.        *)
LEMMA EndEffect ==
  ASSUME TypeOK, NEW r \in Procs, run' = [run EXCEPT ![r] = NoRun]
  PROVE  /\ run' \in [Procs -> Runs]
         /\ \A q \in Procs \ {r} : run'[q] = run[q]
         /\ run'[r] = NoRun
BY NoRunIsTyped DEF TypeOK

LEMMA FailEffect ==
  ASSUME TypeOK, NEW r \in Procs, NEW repo \in Repos, FetchFails(r, repo)
  PROVE  /\ run' \in [Procs -> Runs]
         /\ \A q \in Procs \ {r} : run'[q] = run[q]
         /\ run'[r] = [run[r] EXCEPT !.todo = @ \ {repo}]
<1>1. run \in [Procs -> Runs] /\ run[r] \in Runs
  BY DEF TypeOK
<1>2. [run[r] EXCEPT !.todo = @ \ {repo}] \in Runs
  BY <1>1 DEF Runs
<1> QED BY <1>1, <1>2 DEF FetchFails

LEMMA ReportEffect ==
  ASSUME TypeOK, NEW r \in Procs, Report(r)
  PROVE  /\ run' \in [Procs -> Runs]
         /\ \A q \in Procs \ {r} : run'[q] = run[q]
         /\ run'[r] = [run[r] EXCEPT !.at = "save"]
<1>1. run \in [Procs -> Runs] /\ run[r] \in Runs
  BY DEF TypeOK
<1>2. [run[r] EXCEPT !.at = "save"] \in Runs
  BY <1>1 DEF Runs
<1> QED BY <1>1, <1>2 DEF Report

LEMMA InitTyped == Init => TypeOK /\ TimeInv
<1> SUFFICES ASSUME Init PROVE TypeOK /\ TimeInv
  OBVIOUS
<1>1. run = [r \in Procs |-> NoRun] /\ NoRun \in Runs
  BY NoRunIsTyped DEF Init
<1>2. 0 \in Times
  BY TimeAssumption DEF Times
<1>3. TypeOK
  BY <1>1, <1>2, MarkFacts DEF Init, TypeOK, NoRun
<1>4. TimeInv
  BY <1>1, MarkFacts DEF Init, TimeInv, Past, NoRun, Unmerged
<1> QED BY <1>3, <1>4

(* Nothing known is in the future, and the types.                           *)
LEMMA TypedStep ==
  ASSUME TypeOK, TimeInv, [Next]_vars
  PROVE  TypeOK' /\ TimeInv'
<1> USE TimeAssumption
<1>0. clock \in Times /\ clock \in Int /\ \A t \in Times : t \in Int
  BY DEF TypeOK, Times
<1>1. CASE Tick
  <2>1. clock' \in Times /\ clock' \in Int /\ clock <= clock'
    BY <1>0, <1>1 DEF Tick, Times
  <2>2. TypeOK'
    BY <1>1, <2>1 DEF TypeOK, Tick
  <2>3. /\ \A q \in PRs : mergedAt[q] \in Int
        /\ watermark \in Marks
        /\ \A r \in Procs : run[r].now \in Int /\ run[r].saved \in Marks /\ run[r].cursor \in Marks
    BY TypedValues DEF TypeOK
  <2>4. TimeInv'
    BY <1>0, <1>1, <2>1, <2>3, MarkFacts DEF TimeInv, Past, Tick
  <2> QED BY <2>2, <2>4
<1>2. ASSUME NEW p \in PRs, NEW second \in {clock, clock + 1}, Merge(p, second)
      PROVE  TypeOK' /\ TimeInv'
  <2>1. clock' = second /\ clock' \in Times /\ clock' \in Int /\ clock <= clock'
    BY <1>0, <1>2 DEF Merge
  <2>2. TypeOK'
    BY <1>2, <2>1 DEF TypeOK, Merge
  <2>3. /\ \A q \in PRs : mergedAt[q] \in Int
        /\ watermark \in Marks
        /\ \A r \in Procs : run[r].now \in Int /\ run[r].saved \in Marks /\ run[r].cursor \in Marks
    BY TypedValues DEF TypeOK
  <2>4. \A q \in PRs : mergedAt'[q] <= clock'
    BY <1>0, <1>2, <2>1, <2>3 DEF TimeInv, Merge, TypeOK
  <2>5. TimeInv'
    BY <1>0, <1>2, <2>1, <2>3, <2>4, MarkFacts DEF TimeInv, Past, Merge
  <2> QED BY <2>2, <2>5
<1>3. ASSUME NEW r \in Procs, NEW repos \in SUBSET Repos, Begin(r, repos)
      PROVE  TypeOK' /\ TimeInv'
  <2>1. /\ run' \in [Procs -> Runs]
        /\ \A q \in Procs \ {r} : run'[q] = run[q]
        /\ run'[r].now = clock /\ run'[r].saved = watermark /\ run'[r].base = from
        /\ run'[r].cursor = NoMarks /\ run'[r].asked = NoMarks
    BY <1>3, BeginEffect
  <2>2. UNCHANGED <<clock, mergedAt, watermark, reported, from>> /\ runs' \in Nat /\ calm' \in BOOLEAN
    BY <1>3 DEF Begin, TypeOK
  <2>3. TypeOK'
    BY <2>1, <2>2, MarkFacts DEF TypeOK
  <2>4. TimeInv'
    BY <1>0, <2>1, <2>2, MarkFacts DEF TimeInv, Past
  <2> QED BY <2>3, <2>4
<1>4. ASSUME NEW r \in Procs, NEW repo \in Repos, NEW bad \in SUBSET Page(repo),
             Fetch(r, repo, bad)
      PROVE  TypeOK' /\ TimeInv'
  <2> DEFINE since == Since(r, repo)
             found == Found(Page(repo), bad, since)
  <2>1. /\ run' \in [Procs -> Runs]
        /\ \A q \in Procs \ {r} : run'[q] = run[q]
        /\ run'[r].now = run[r].now /\ run'[r].todo = run[r].todo \ {repo}
        /\ run'[r].saved = run[r].saved /\ run'[r].base = run[r].base
        /\ found \in SUBSET Merged(repo)
        /\ \/ run'[r].cursor = With(run[r].cursor, repo, Cursor(r, found))
           \/ run'[r].cursor = run[r].cursor
        /\ run'[r].asked = With(run[r].asked, repo, since)
    BY <1>4, FetchEffect
  <2>2. Cursor(r, found) <= clock
    BY <2>1, CursorFacts
  <2>3. /\ DOMAIN run'[r].cursor \subseteq DOMAIN run'[r].asked
        /\ run'[r].todo \cap DOMAIN run'[r].asked = {}
        /\ Past(run[r].cursor) => \A x \in DOMAIN run'[r].cursor : run'[r].cursor[x] <= clock
    <3> HIDE DEF since, found
    <3>1. /\ DOMAIN run[r].cursor \subseteq DOMAIN run[r].asked
          /\ run[r].todo \cap DOMAIN run[r].asked = {}
      BY DEF TypeOK
    <3> QED BY <2>1, <2>2, <3>1 DEF With, Past
  <2>4. UNCHANGED <<clock, mergedAt, watermark, from, runs, reported>> /\ calm' \in BOOLEAN
    BY <1>4 DEF Fetch, TypeOK
  <2>5. TypeOK'
    <3> HIDE DEF since, found
    <3> QED BY <2>1, <2>3, <2>4 DEF TypeOK
  <2>6. TimeInv'
    <3> HIDE DEF since, found
    <3> QED BY <2>1, <2>3, <2>4 DEF TimeInv, Past
  <2> QED BY <2>5, <2>6
<1>5. ASSUME NEW r \in Procs, NEW repo \in Repos, FetchFails(r, repo)
      PROVE  TypeOK' /\ TimeInv'
  <2>1. /\ run' \in [Procs -> Runs] /\ run[r] \in Runs
        /\ \A q \in Procs \ {r} : run'[q] = run[q]
        /\ run'[r] = [run[r] EXCEPT !.todo = @ \ {repo}]
    BY <1>5, FailEffect DEF TypeOK
  <2>2. \A q \in Procs : /\ run'[q].now = run[q].now /\ run'[q].saved = run[q].saved
                         /\ run'[q].base = run[q].base /\ run'[q].cursor = run[q].cursor
                         /\ run'[q].asked = run[q].asked /\ run'[q].todo \subseteq run[q].todo
    BY <2>1 DEF Runs
  <2> QED BY <1>5, <2>1, <2>2 DEF FetchFails, TypeOK, TimeInv, Past
<1>6. ASSUME NEW r \in Procs, Report(r)
      PROVE  TypeOK' /\ TimeInv'
  <2>1. /\ run' \in [Procs -> Runs] /\ run[r] \in Runs
        /\ \A q \in Procs \ {r} : run'[q] = run[q]
        /\ run'[r] = [run[r] EXCEPT !.at = "save"]
    BY <1>6, ReportEffect DEF TypeOK
  <2>2. \A q \in Procs : /\ run'[q].now = run[q].now /\ run'[q].saved = run[q].saved
                         /\ run'[q].base = run[q].base /\ run'[q].cursor = run[q].cursor
                         /\ run'[q].asked = run[q].asked /\ run'[q].todo \subseteq run[q].todo
    BY <2>1 DEF Runs
  <2>3. reported' \in SUBSET PRs
    BY <1>6, <2>1 DEF Report, TypeOK, Runs
  <2> QED BY <1>6, <2>1, <2>2, <2>3 DEF Report, TypeOK, TimeInv, Past
<1>7. ASSUME NEW r \in Procs, run' = [run EXCEPT ![r] = NoRun],
             watermark' \in Marks, from' \in Marks, DOMAIN watermark' \subseteq DOMAIN from',
             \A repo \in DOMAIN watermark' : watermark'[repo] <= clock,
             UNCHANGED <<clock, mergedAt, runs, reported>>, calm' \in BOOLEAN
      PROVE  TypeOK' /\ TimeInv'
  <2>1. /\ run' \in [Procs -> Runs]
        /\ \A q \in Procs \ {r} : run'[q] = run[q]
        /\ run'[r] = NoRun
    BY <1>7, EndEffect
  <2>2. /\ run'[r].now <= clock /\ run'[r].todo = {}
        /\ DOMAIN run'[r].saved = {} /\ DOMAIN run'[r].cursor = {}
    BY <1>0, <2>1, MarkFacts DEF NoRun, Times
  <2>3. TypeOK'
    BY <1>7, <2>1, <2>2 DEF TypeOK
  <2>4. TimeInv'
    BY <1>7, <2>1, <2>2 DEF TimeInv, Past
  <2> QED BY <2>3, <2>4
<1>8. ASSUME NEW r \in Procs, NoReport(r) \/ Crash(r)
      PROVE  TypeOK' /\ TimeInv'
  BY <1>7, <1>8 DEF NoReport, Crash, TypeOK, TimeInv, Past
<1>9. ASSUME NEW r \in Procs, Save(r)
      PROVE  TypeOK' /\ TimeInv'
  <2>1. CASE DOMAIN run[r].cursor = {}
    BY <1>7, <1>9, <2>1 DEF Save, TypeOK, TimeInv, Past
  <2>2. CASE DOMAIN run[r].cursor # {}
    <3>1. run[r] \in Runs /\ Past(run[r].saved) /\ Past(run[r].cursor)
      BY DEF TypeOK, TimeInv
    <3>2. watermark' = Over(run[r].cursor, run[r].saved) /\ from' = Start(r)
      BY <1>9, <2>2 DEF Save
    <3>3. watermark' \in Marks /\ from' \in Marks
      BY <3>1, <3>2, MarkFacts, StartIsTyped DEF Runs
    <3>4. DOMAIN watermark' = DOMAIN from'
      BY <3>2 DEF Over, Start
    <3>5. \A repo \in DOMAIN watermark' : watermark'[repo] <= clock
      BY <3>1, <3>2 DEF Past, Over
    <3> QED BY <1>7, <1>9, <3>3, <3>4, <3>5 DEF Save, TypeOK
  <2> QED BY <2>1, <2>2
<1>10. CASE UNCHANGED vars
  BY <1>10 DEF vars, TypeOK, TimeInv, Past
<1> QED BY <1>1, <1>2, <1>3, <1>4, <1>5, <1>6, <1>8, <1>9, <1>10 DEF Next

-----------------------------------------------------------------------------
LEMMA InitStretch == Init => StretchInv
BY MarkFacts DEF Init, StretchInv, Dealt, Whole, NoRun

(* As long as nothing merges, the runs other than r keep what they have.    *)
LEMMA StretchKept ==
  ASSUME StretchInv, UNCHANGED mergedAt, reported \subseteq reported',
         NEW q \in Procs, run'[q] = run[q]
  PROVE  /\ Dealt(run[q].saved, run[q].base)'
         /\ Whole(q)'
         /\ run'[q].at = "save" => run'[q].found \subseteq reported'
BY DEF StretchInv, Dealt, Whole, Merged

(* No pull request falls between a stretch that is dealt with and the next. *)
LEMMA StretchStep ==
  ASSUME IInv, ~ SameSecond, AgedPagesAreWhole, [Next]_vars
  PROVE  StretchInv'
<1> USE DEF IInv
<1>1. CASE Tick
  BY <1>1 DEF Tick, StretchInv, Dealt, Whole, Merged
<1>2. ASSUME NEW p \in PRs, NEW second \in {clock, clock + 1}, Merge(p, second)
      PROVE  StretchInv'
  <2>1. /\ mergedAt' = [mergedAt EXCEPT ![p] = second] /\ second \in Int /\ second > clock
        /\ UNCHANGED <<watermark, run, reported, from>>
    BY <1>2, TypedValues DEF Merge
  <2>2. mergedAt \in [PRs -> Times \cup {Unmerged}]
    BY DEF TypeOK
  <2>3. \A repo \in Repos : Merged(repo)' \subseteq Merged(repo) \cup {p}
    BY <2>1, <2>2 DEF Merged
  <2>4. \A repo \in Repos : \A o \in Merged(repo)' :
          o # p => o \in Merged(repo) /\ mergedAt'[o] = mergedAt[o]
    BY <2>1, <2>2, <2>3 DEF Merged
  <2>5. mergedAt'[p] = second
    BY <2>1, <2>2
  <2>6. watermark \in Marks /\ \A r \in Procs : run[r].saved \in Marks /\ run[r].cursor \in Marks
    BY TypedValues DEF TypeOK
  <2>7. ASSUME NEW marks \in Marks, Past(marks), NEW repo \in DOMAIN marks,
               NEW o \in Merged(repo)', mergedAt'[o] <= marks[repo]
        PROVE  repo \in Repos /\ o \in Merged(repo) /\ mergedAt'[o] = mergedAt[o]
    <3>1. repo \in Repos /\ marks[repo] \in Int /\ marks[repo] <= clock /\ clock \in Int
      BY <2>7, MarkFacts, TypedValues DEF Past
    <3>2. o # p
      BY <2>1, <2>5, <2>7, <3>1
    <3> QED BY <2>4, <3>1, <3>2
  <2>8. Dealt(watermark, from)'
    BY <2>1, <2>6, <2>7 DEF Dealt, StretchInv, TimeInv
  <2>9. ASSUME NEW r \in Procs
        PROVE  Dealt(run[r].saved, run[r].base)' /\ Whole(r)'
    <3>1. Past(run[r].saved) /\ Past(run[r].cursor) /\ run[r].saved \in Marks /\ run[r].cursor \in Marks
      BY <2>6 DEF TimeInv
    <3>2. Dealt(run[r].saved, run[r].base)'
      BY <2>1, <2>7, <3>1 DEF Dealt, StretchInv
    <3>3. Whole(r)'
      BY <2>1, <2>7, <3>1 DEF Whole, StretchInv
    <3> QED BY <3>2, <3>3
  <2> QED BY <2>1, <2>8, <2>9 DEF StretchInv
<1>3. ASSUME NEW r \in Procs, NEW repos \in SUBSET Repos, Begin(r, repos)
      PROVE  StretchInv'
  <2>1. /\ \A q \in Procs \ {r} : run'[q] = run[q]
        /\ run'[r].at = "fetch"
        /\ run'[r].saved = watermark /\ run'[r].base = from
        /\ run'[r].cursor = NoMarks
    BY <1>3, BeginEffect
  <2>2. UNCHANGED <<mergedAt, watermark, reported, from>>
    BY <1>3 DEF Begin
  <2>3. Dealt(watermark, from)'
    BY <2>2 DEF Dealt, Merged, StretchInv
  <2>4. Dealt(run[r].saved, run[r].base)' /\ Whole(r)'
    BY <2>1, <2>2, MarkFacts DEF Dealt, Merged, StretchInv, Whole
  <2> QED BY <2>1, <2>2, <2>3, <2>4, StretchKept DEF StretchInv
<1>4. ASSUME NEW r \in Procs, NEW repo \in Repos, NEW bad \in SUBSET Page(repo),
             Fetch(r, repo, bad)
      PROVE  StretchInv'
  <2> DEFINE since == Since(r, repo)
             found == Found(Page(repo), bad, since)
             complete == Complete(Page(repo), bad, since)
  <2>1. /\ \A q \in Procs \ {r} : run'[q] = run[q]
        /\ run'[r].at = "fetch"
        /\ run'[r].saved = run[r].saved /\ run'[r].base = run[r].base
        /\ run'[r].found = run[r].found \cup found
        /\ run'[r].cursor = IF complete THEN With(run[r].cursor, repo, Cursor(r, found))
                                        ELSE run[r].cursor
        /\ run'[r].asked = With(run[r].asked, repo, since)
    BY <1>4, FetchEffect
  <2>2. UNCHANGED <<mergedAt, watermark, reported, from>> /\ repo \in run[r].todo /\ run[r].at = "fetch"
    BY <1>4 DEF Fetch
  <2>3. repo \in DOMAIN run[r].saved => since = run[r].saved[repo]
    BY DEF Since
  <2>4. complete => \A p \in Merged(repo) : since < mergedAt[p] => p \in found
    <3>1. \A p \in Merged(repo) : mergedAt[p] \in Int /\ since \in Int
      BY TypedValues, SinceIsTyped DEF Merged
    <3> QED BY <2>2, <3>1, CompleteFetchIsWhole
  <2>5. ASSUME NEW other \in DOMAIN run'[r].cursor, other # repo
        PROVE  /\ other \in DOMAIN run[r].cursor
               /\ run'[r].cursor[other] = run[r].cursor[other]
               /\ run'[r].asked[other] = run[r].asked[other]
    <3> HIDE DEF since, found, complete
    <3>1. other \in DOMAIN run[r].cursor /\ run'[r].cursor[other] = run[r].cursor[other]
      BY <2>1, <2>5 DEF With
    <3> QED BY <2>1, <2>5, <3>1 DEF With, TypeOK
  <2>6. repo \in DOMAIN run'[r].asked /\ run'[r].asked[repo] = since
    <3> HIDE DEF since, found, complete
    <3> QED BY <2>1 DEF With
  <2>7. Whole(r)'
    <3> HIDE DEF since, found, complete
    <3>1. ASSUME NEW other \in DOMAIN run'[r].cursor
          PROVE  /\ other \in DOMAIN run[r].saved => run'[r].asked[other] = run[r].saved[other]
                 /\ \A p \in Merged(other) :
                      run'[r].asked[other] < mergedAt[p] /\ mergedAt[p] <= run'[r].cursor[other]
                        => p \in run[r].found \cup found
      <4>1. CASE other # repo
        BY <2>5, <4>1 DEF StretchInv, Whole
      <4>2. CASE other = repo /\ complete
        BY <2>3, <2>4, <2>6, <4>2
      <4>3. CASE other = repo /\ ~ complete
        <5>1. other \in DOMAIN run[r].cursor /\ run'[r].cursor = run[r].cursor
          BY <2>1, <4>3
        <5>2. repo \notin DOMAIN run[r].asked
          BY <2>2 DEF TypeOK
        <5> QED BY <4>3, <5>1, <5>2 DEF TypeOK
      <4> QED BY <4>1, <4>2, <4>3
    <3> QED BY <2>1, <2>2, <3>1 DEF Whole, Merged
  <2>8. Dealt(watermark, from)' /\ Dealt(run[r].saved, run[r].base)'
    BY <2>1, <2>2 DEF Dealt, Merged, StretchInv
  <2> QED BY <2>1, <2>2, <2>7, <2>8, StretchKept DEF StretchInv
<1>5. ASSUME NEW r \in Procs, NEW repo \in Repos, FetchFails(r, repo)
      PROVE  StretchInv'
  <2>1. /\ run[r] \in Runs
        /\ \A q \in Procs \ {r} : run'[q] = run[q]
        /\ run'[r] = [run[r] EXCEPT !.todo = @ \ {repo}]
        /\ UNCHANGED <<mergedAt, watermark, reported, from>> /\ run[r].at = "fetch"
    BY <1>5, FailEffect DEF TypeOK, FetchFails
  <2>2. /\ run'[r].saved = run[r].saved /\ run'[r].base = run[r].base
        /\ run'[r].cursor = run[r].cursor /\ run'[r].asked = run[r].asked
        /\ run'[r].found = run[r].found /\ run'[r].at = run[r].at
    BY <2>1 DEF Runs
  <2>3. Dealt(watermark, from)' /\ Dealt(run[r].saved, run[r].base)'
    BY <2>1, <2>2 DEF Dealt, Merged, StretchInv
  <2>4. Whole(r)'
    BY <2>1, <2>2 DEF Whole, Merged, StretchInv
  <2> QED BY <2>1, <2>2, <2>3, <2>4, StretchKept DEF StretchInv
<1>6. ASSUME NEW r \in Procs, Report(r)
      PROVE  StretchInv'
  <2>1. /\ run[r] \in Runs
        /\ \A q \in Procs \ {r} : run'[q] = run[q]
        /\ run'[r] = [run[r] EXCEPT !.at = "save"]
        /\ UNCHANGED <<mergedAt, watermark, from>> /\ reported' = reported \cup run[r].found
    BY <1>6, ReportEffect DEF TypeOK, Report
  <2>2. /\ run'[r].saved = run[r].saved /\ run'[r].base = run[r].base
        /\ run'[r].cursor = run[r].cursor /\ run'[r].asked = run[r].asked
        /\ run'[r].found = run[r].found
    BY <2>1 DEF Runs
  <2>3. Dealt(watermark, from)' /\ Dealt(run[r].saved, run[r].base)'
    BY <2>1, <2>2 DEF Dealt, Merged, StretchInv
  <2>4. Whole(r)'
    BY <2>1, <2>2 DEF Whole, Merged, StretchInv
  <2> QED BY <2>1, <2>2, <2>3, <2>4, StretchKept DEF StretchInv
<1>7. ASSUME NEW r \in Procs, run' = [run EXCEPT ![r] = NoRun], UNCHANGED <<mergedAt, reported>>,
             Dealt(watermark, from)'
      PROVE  StretchInv'
  <2>1. /\ \A q \in Procs \ {r} : run'[q] = run[q]
        /\ run'[r] = NoRun
    BY <1>7, EndEffect
  <2>2. Dealt(run[r].saved, run[r].base)' /\ Whole(r)' /\ run'[r].at = "idle"
    BY <2>1, MarkFacts DEF NoRun, Dealt, Whole
  <2> QED BY <1>7, <2>1, <2>2, StretchKept DEF StretchInv
<1>8. ASSUME NEW r \in Procs, NoReport(r) \/ Crash(r)
      PROVE  StretchInv'
  <2>1. /\ run' = [run EXCEPT ![r] = NoRun]
        /\ UNCHANGED <<mergedAt, reported, watermark, from>>
    BY <1>8 DEF NoReport, Crash
  <2>2. Dealt(watermark, from)'
    BY <2>1 DEF Dealt, Merged, StretchInv
  <2> QED BY <1>7, <2>1, <2>2
<1>9. ASSUME NEW r \in Procs, Save(r)
      PROVE  StretchInv'
  <2>1. run' = [run EXCEPT ![r] = NoRun] /\ UNCHANGED <<mergedAt, reported>> /\ run[r].at = "save"
    BY <1>9 DEF Save
  <2>2. CASE DOMAIN run[r].cursor = {}
    <3>1. UNCHANGED <<watermark, from>>
      BY <1>9, <2>2 DEF Save
    <3>2. Dealt(watermark, from)'
      BY <2>1, <3>1 DEF Dealt, Merged, StretchInv
    <3> QED BY <1>7, <2>1, <3>2
  <2>3. CASE DOMAIN run[r].cursor # {}
    <3>1. watermark' = Over(run[r].cursor, run[r].saved) /\ from' = Start(r)
      BY <1>9, <2>3 DEF Save
    <3>2. ASSUME NEW repo \in DOMAIN watermark', NEW p \in Merged(repo),
                 from'[repo] < mergedAt[p], mergedAt[p] <= watermark'[repo]
          PROVE  p \in reported
      <4>1. repo \in DOMAIN run[r].cursor \cup DOMAIN run[r].saved
        BY <3>1 DEF Over
      <4>2. p \in PRs /\ mergedAt[p] \in Int
        BY TypedValues DEF Merged
      <4>3. run[r].found \subseteq reported
        BY <2>1 DEF StretchInv
      <4>4. CASE repo \notin DOMAIN run[r].cursor
        <5>1. from'[repo] = run[r].base[repo] /\ watermark'[repo] = run[r].saved[repo]
          BY <3>1, <4>1, <4>4 DEF Over, Start
        <5> QED BY <3>2, <4>1, <4>4, <5>1 DEF StretchInv, Dealt
      <4>5. CASE repo \in DOMAIN run[r].cursor /\ repo \notin DOMAIN run[r].saved
        <5>1. from'[repo] = run[r].asked[repo] /\ watermark'[repo] = run[r].cursor[repo]
          BY <3>1, <4>5 DEF Over, Start
        <5> QED BY <3>2, <4>3, <4>5, <5>1 DEF StretchInv, Whole
      <4>6. CASE repo \in DOMAIN run[r].cursor /\ repo \in DOMAIN run[r].saved
        <5>1. from'[repo] = run[r].base[repo] /\ watermark'[repo] = run[r].cursor[repo]
          BY <3>1, <4>6 DEF Over, Start
        <5>2. run[r].saved[repo] \in Int /\ run[r].asked[repo] = run[r].saved[repo]
          BY <4>6, TypedValues, MarkFacts DEF StretchInv, Whole
        <5>3. CASE mergedAt[p] <= run[r].saved[repo]
          BY <3>2, <4>6, <5>1, <5>3 DEF StretchInv, Dealt
        <5>4. CASE run[r].asked[repo] < mergedAt[p]
          BY <3>2, <4>3, <4>6, <5>1, <5>4 DEF StretchInv, Whole
        <5> QED BY <4>2, <5>2, <5>3, <5>4
      <4> QED BY <4>1, <4>4, <4>5, <4>6
    <3>3. Dealt(watermark, from)'
      BY <2>1, <3>2 DEF Dealt, Merged
    <3> QED BY <1>7, <2>1, <3>3
  <2> QED BY <2>2, <2>3
<1>10. CASE UNCHANGED vars
  BY <1>10 DEF vars, StretchInv, Dealt, Whole, Merged
<1> QED BY <1>1, <1>2, <1>3, <1>4, <1>5, <1>6, <1>8, <1>9, <1>10 DEF Next

(* No watermark passes a pull request that was not printed, whatever        *)
(* fetches fail, whatever records are malformed and however runs overlap    *)
(* and die, as long as an aged full page is what `_page_may_be_truncated`   *)
(* takes it for and nothing merges in a second that has been fetched.       *)
THEOREM NothingIsLost ==
  ASSUME ~ SameSecond
  PROVE  Spec /\ []AgedPagesAreWhole => []NothingLost
<1>1. Init => IInv
  BY InitTyped, InitStretch DEF IInv
<1>2. IInv /\ AgedPagesAreWhole /\ [Next]_vars => IInv'
  BY TypedStep, StretchStep DEF IInv
<1>3. IInv => NothingLost
  BY DEF IInv, StretchInv, Dealt, NothingLost
<1> QED BY <1>1, <1>2, <1>3, PTL DEF Spec

(* A page holds all of a repository that has no more pull requests than     *)
(* fit on it.                                                               *)
LEMMA SmallRepositoryIsWhole ==
  ASSUME \A repo \in Repos : Cardinality({p \in PRs : RepoOf[p] = repo}) <= PageLimit,
         NEW repo \in Repos
  PROVE  Page(repo) = Merged(repo)
<1> DEFINE All == {p \in PRs : RepoOf[p] = repo}
           Younger(p) == {q \in Merged(repo) : q > p}
<1>1. IsFiniteSet(All) /\ Merged(repo) \subseteq All
  BY PRsAssumption, FS_Subset DEF Merged
<1>2. ASSUME NEW p \in Merged(repo) PROVE Cardinality(Younger(p)) < PageLimit
  <2>1. p \in All /\ p \in Nat
    BY <1>1, PRsAssumption
  <2>2. Younger(p) \in SUBSET (All \ {p})
    BY <1>1, <2>1
  <2>3. IsFiniteSet(All \ {p}) /\ Cardinality(All \ {p}) = Cardinality(All) - 1
    BY <1>1, <2>1, FS_RemoveElement
  <2>4. Cardinality(Younger(p)) <= Cardinality(All \ {p}) /\ IsFiniteSet(Younger(p))
    BY <2>2, <2>3, FS_Subset
  <2>5. Cardinality(All) \in Nat /\ Cardinality(Younger(p)) \in Nat
    BY <1>1, <2>4, FS_CardinalityType
  <2>6. Cardinality(All) <= PageLimit
    OBVIOUS
  <2> QED BY <2>3, <2>4, <2>5, <2>6, PageAssumption
<1> QED BY <1>2 DEF Page

(* In particular nothing is lost of repositories that fit on a page.        *)
THEOREM SmallRepositoriesLoseNothing ==
  ASSUME ~ SameSecond,
         \A repo \in Repos : Cardinality({p \in PRs : RepoOf[p] = repo}) <= PageLimit
  PROVE  Spec => []NothingLost
<1>1. TypeOK => AgedPagesAreWhole
  BY SmallRepositoryIsWhole DEF TypeOK, Runs, AgedPagesAreWhole
<1>2. Init => TypeOK /\ TimeInv
  BY InitTyped
<1>3. TypeOK /\ TimeInv /\ [Next]_vars => TypeOK' /\ TimeInv'
  BY TypedStep
<1>4. Spec => []AgedPagesAreWhole
  BY <1>1, <1>2, <1>3, PTL DEF Spec
<1> QED BY <1>4, NothingIsLost, PTL

-----------------------------------------------------------------------------
LEMMA InitCalm == Init => CalmInv
BY DEF Init, CalmInv, OneRun, FreshRuns, PrintedIsBehind, NoRun

(* Undisturbed runs stay behind their watermarks.                           *)
LEMMA CalmStep ==
  ASSUME QuietInv, [Next]_vars
  PROVE  CalmInv'
<1> USE DEF QuietInv
<1>0. /\ mergedAt \in [PRs -> Times \cup {Unmerged}] /\ reported \in SUBSET PRs
      /\ \A r \in Procs : run[r].found \in SUBSET PRs
  BY TypedValues DEF TypeOK, Runs
<1>1. CASE Tick
  BY <1>1 DEF Tick, CalmInv, OneRun, FreshRuns, PrintedIsBehind, Fresh, Behind
<1>2. ASSUME NEW p \in PRs, NEW second \in {clock, clock + 1}, Merge(p, second)
      PROVE  CalmInv'
  <2>1. /\ mergedAt[p] = Unmerged /\ second \in Times
        /\ UNCHANGED <<watermark, run, reported, calm>>
        /\ \A o \in PRs \ {p} : mergedAt'[o] = mergedAt[o]
        /\ mergedAt'[p] = second
    BY <1>0, <1>2 DEF Merge
  <2>2. Unmerged \notin Times
    BY TimeAssumption DEF Times, Unmerged
  <2>3. \A o \in reported : o # p /\ mergedAt'[o] = mergedAt[o]
    BY <1>0, <2>1 DEF CalmInv
  <2>4. \A r \in Procs : \A o \in run[r].found : o # p /\ mergedAt'[o] = mergedAt[o]
    BY <1>0, <2>1 DEF CalmInv
  <2>5. ASSUME NEW r \in Procs, Fresh(r) PROVE Fresh(r)'
    BY <2>1, <2>4, <2>5 DEF Fresh, Behind
  <2> QED BY <2>1, <2>3, <2>4, <2>5 DEF CalmInv, OneRun, FreshRuns, PrintedIsBehind, Behind
<1>3. ASSUME NEW r \in Procs, NEW repos \in SUBSET Repos, Begin(r, repos)
      PROVE  CalmInv'
  <2>1. /\ \A q \in Procs \ {r} : run'[q] = run[q]
        /\ run'[r].at = "fetch" /\ run'[r].found = {}
        /\ run'[r].saved = watermark
        /\ run'[r].cursor = NoMarks /\ run'[r].asked = NoMarks
    BY <1>3, BeginEffect
  <2>2. /\ UNCHANGED <<mergedAt, watermark, reported>>
        /\ calm' = (calm /\ \A q \in Procs : run[q].at = "idle")
    BY <1>3 DEF Begin
  <2>3. Fresh(r)'
    BY <2>1, MarkFacts DEF Fresh
  <2>4. calm' => calm /\ \A q \in Procs : run[q].at = "idle"
    BY <2>2
  <2> QED BY <2>1, <2>2, <2>3, <2>4, MarkFacts
           DEF CalmInv, OneRun, FreshRuns, PrintedIsBehind, Behind
<1>4. ASSUME NEW r \in Procs, NEW repo \in Repos, NEW bad \in SUBSET Page(repo),
             Fetch(r, repo, bad)
      PROVE  CalmInv'
  <2> DEFINE since == Since(r, repo)
             found == Found(Page(repo), bad, since)
             complete == Complete(Page(repo), bad, since)
  <2>1. /\ \A q \in Procs \ {r} : run'[q] = run[q]
        /\ run'[r].at = "fetch"
        /\ run'[r].saved = run[r].saved
        /\ run'[r].found = run[r].found \cup found /\ found \in SUBSET Merged(repo)
        /\ run'[r].cursor = IF complete THEN With(run[r].cursor, repo, Cursor(r, found))
                                        ELSE run[r].cursor
        /\ run'[r].asked = With(run[r].asked, repo, since)
    BY <1>4, FetchEffect
  <2>2. /\ UNCHANGED <<mergedAt, watermark, reported>> /\ calm' = (calm /\ complete)
        /\ repo \in run[r].todo /\ run[r].at = "fetch"
    BY <1>4 DEF Fetch
  <2>3. /\ since \in Int /\ Cursor(r, found) \in Int
        /\ \A p \in found : mergedAt[p] <= Cursor(r, found)
        /\ found # {} => \E p \in found : Cursor(r, found) = mergedAt[p]
    BY <2>1, SinceIsTyped, CursorFacts, TimeAssumption DEF Times
  <2>4. \A p \in found : /\ p \in PRs /\ RepoOf[p] = repo /\ mergedAt[p] # Unmerged
                         /\ mergedAt[p] \in Int /\ mergedAt[p] > since
    BY <2>1, TypedValues DEF Merged, Found
  <2>5. repo \in DOMAIN run[r].saved => since = run[r].saved[repo]
    BY DEF Since
  <2>6. \A q \in Procs : \A p \in run'[q].found : mergedAt'[p] # Unmerged
    <3> HIDE DEF since, found, complete
    <3> QED BY <2>1, <2>2, <2>4 DEF CalmInv
  <2>7. repo \in DOMAIN run[r].saved => run[r].saved[repo] <= Cursor(r, found)
    <3>1. CASE found # {}
      BY <2>3, <2>4, <2>5, <3>1
    <3>2. CASE found = {}
      BY <3>2 DEF Cursor, TimeInv
    <3> QED BY <3>1, <3>2
  <2>8. ASSUME calm, complete PROVE Fresh(r)'
    <3> HIDE DEF since, found, complete
    <3>1. Fresh(r)
      BY <2>2, <2>8 DEF CalmInv, FreshRuns
    <3>2. /\ DOMAIN run'[r].asked = DOMAIN run[r].asked \cup {repo}
          /\ DOMAIN run'[r].cursor = DOMAIN run[r].cursor \cup {repo}
          /\ run'[r].cursor[repo] = Cursor(r, found)
          /\ \A other \in DOMAIN run[r].cursor \ {repo} : run'[r].cursor[other] = run[r].cursor[other]
      BY <2>1, <2>8 DEF With
    <3>3. \A x \in DOMAIN run'[r].cursor \cap DOMAIN run'[r].saved :
            run'[r].saved[x] <= run'[r].cursor[x]
      BY <2>1, <2>7, <3>1, <3>2 DEF Fresh
    <3>4. repo \notin DOMAIN run[r].cursor
      BY <2>2 DEF TypeOK
    <3>5. ASSUME NEW p \in run[r].found
          PROVE  Behind(p, run'[r].cursor) /\ ~ Behind(p, run[r].saved)
      BY <3>1, <3>2, <3>4 DEF Fresh, Behind
    <3>6. ASSUME NEW p \in found
          PROVE  Behind(p, run'[r].cursor) /\ ~ Behind(p, run[r].saved)
      BY <2>3, <2>4, <2>5, <3>2 DEF Behind
    <3> QED BY <2>1, <2>2, <3>1, <3>2, <3>3, <3>5, <3>6 DEF Fresh, Behind
  <2>9. calm' => calm /\ complete
    BY <2>2
  <2>10. ASSUME calm, complete PROVE (OneRun /\ FreshRuns /\ PrintedIsBehind)'
    <3> HIDE DEF since, found, complete
    <3>1. OneRun /\ FreshRuns /\ PrintedIsBehind
      BY <2>10 DEF CalmInv
    <3>2. OneRun'
      BY <2>1, <2>2, <3>1 DEF OneRun
    <3>3. FreshRuns'
      <4>1. ASSUME NEW q \in Procs \ {r}, Fresh(q) PROVE Fresh(q)'
        BY <2>1, <2>2, <4>1 DEF Fresh, Behind
      <4> QED BY <2>1, <2>2, <2>8, <2>10, <3>1, <4>1 DEF FreshRuns
    <3>4. PrintedIsBehind'
      BY <2>1, <2>2, <3>1 DEF PrintedIsBehind, Behind
    <3> QED BY <3>2, <3>3, <3>4
  <2> HIDE DEF complete
  <2> QED BY <2>2, <2>6, <2>9, <2>10 DEF CalmInv
<1>5. ASSUME NEW r \in Procs, NEW repo \in Repos, FetchFails(r, repo)
      PROVE  CalmInv'
  <2>1. /\ run[r] \in Runs
        /\ \A q \in Procs \ {r} : run'[q] = run[q]
        /\ run'[r] = [run[r] EXCEPT !.todo = @ \ {repo}]
        /\ UNCHANGED <<mergedAt, watermark, reported, calm>>
    BY <1>5, FailEffect DEF TypeOK, FetchFails
  <2>2. \A q \in Procs :
          /\ run'[q].saved = run[q].saved /\ run'[q].at = run[q].at
          /\ run'[q].cursor = run[q].cursor /\ run'[q].asked = run[q].asked
          /\ run'[q].found = run[q].found
    BY <2>1 DEF Runs
  <2> QED BY <2>1, <2>2 DEF CalmInv, OneRun, FreshRuns, PrintedIsBehind, Fresh, Behind
<1>6. ASSUME NEW r \in Procs, Report(r)
      PROVE  CalmInv'
  <2>1. /\ run[r] \in Runs /\ run[r].at = "fetch" /\ DOMAIN run[r].asked # {}
        /\ \A q \in Procs \ {r} : run'[q] = run[q]
        /\ run'[r] = [run[r] EXCEPT !.at = "save"]
        /\ UNCHANGED <<mergedAt, watermark, calm>> /\ reported' = reported \cup run[r].found
    BY <1>6, ReportEffect DEF TypeOK, Report, Reporting
  <2>2. \A q \in Procs :
          /\ run'[q].saved = run[q].saved
          /\ run'[q].cursor = run[q].cursor /\ run'[q].asked = run[q].asked
          /\ run'[q].found = run[q].found
          /\ q # r => run'[q].at = run[q].at
    BY <2>1 DEF Runs
  <2>3. run'[r].at = "save"
    BY <2>1 DEF Runs
  <2>4. calm => Fresh(r)
    BY <2>1 DEF CalmInv, FreshRuns
  <2>5. \A q \in Procs : Fresh(q) => Fresh(q)'
    BY <2>1, <2>2 DEF Fresh, Behind
  <2>6. ASSUME calm, NEW p \in reported'
        PROVE  Behind(p, watermark) \/ Behind(p, run[r].cursor)
    <3>1. CASE p \in run[r].found
      BY <2>4, <2>6, <3>1 DEF Fresh
    <3>2. CASE p \in reported
      <4>1. \A q \in Procs : run[q].at # "save"
        BY <2>1, <2>6 DEF CalmInv, OneRun
      <4> QED BY <2>6, <3>2, <4>1 DEF CalmInv, PrintedIsBehind
    <3> QED BY <2>1, <3>1, <3>2
  <2>7. ASSUME calm PROVE (OneRun /\ FreshRuns /\ PrintedIsBehind)'
    <3>1. OneRun /\ FreshRuns /\ Fresh(r)
      BY <2>4, <2>7 DEF CalmInv
    <3>2. OneRun'
      BY <2>1, <2>2, <3>1 DEF OneRun
    <3>3. DOMAIN run'[r].cursor # {}
      BY <2>1, <2>2, <3>1 DEF Fresh
    <3>4. FreshRuns'
      BY <2>1, <2>2, <2>5, <3>1, <3>3 DEF FreshRuns
    <3>5. PrintedIsBehind'
      BY <2>1, <2>2, <2>3, <2>6, <2>7 DEF PrintedIsBehind, Behind
    <3> QED BY <3>2, <3>4, <3>5
  <2>8. \A p \in reported' : mergedAt'[p] # Unmerged
    BY <2>1 DEF CalmInv
  <2>9. \A q \in Procs : \A p \in run'[q].found : mergedAt'[p] # Unmerged
    BY <2>1, <2>2 DEF CalmInv
  <2> QED BY <2>1, <2>7, <2>8, <2>9 DEF CalmInv
<1>7. ASSUME NEW r \in Procs, NoReport(r) \/ Crash(r)
      PROVE  CalmInv'
  <2>1. /\ \A q \in Procs \ {r} : run'[q] = run[q]
        /\ run'[r].at = "idle" /\ run'[r].found = {}
    BY <1>7, EndEffect DEF NoReport, Crash, NoRun
  <2>2. UNCHANGED <<mergedAt, watermark, reported>>
    BY <1>7 DEF NoReport, Crash
  <2>3. calm' => calm /\ run[r].at # "save"
    <3>1. CASE NoReport(r)
      BY <3>1 DEF NoReport
    <3>2. CASE Crash(r)
      BY <3>2, Zenon DEF Crash
    <3> QED BY <1>7, <3>1, <3>2
  <2>4. ASSUME NEW q \in Procs, Fresh(q), q # r PROVE Fresh(q)'
    BY <2>1, <2>2, <2>4 DEF Fresh, Behind
  <2>5. calm' => (OneRun /\ FreshRuns /\ PrintedIsBehind)'
    <3> SUFFICES ASSUME calm' PROVE (OneRun /\ FreshRuns /\ PrintedIsBehind)'
      OBVIOUS
    <3>1. OneRun /\ FreshRuns /\ PrintedIsBehind
      BY <2>3 DEF CalmInv
    <3> QED BY <2>1, <2>2, <2>3, <2>4, <3>1 DEF OneRun, FreshRuns, PrintedIsBehind, Behind
  <2>6. \A q \in Procs : \A p \in run'[q].found : mergedAt'[p] # Unmerged
    BY <2>1, <2>2 DEF CalmInv
  <2> QED BY <2>2, <2>5, <2>6 DEF CalmInv
<1>8. ASSUME NEW r \in Procs, Save(r)
      PROVE  CalmInv'
  <2>1. /\ \A q \in Procs \ {r} : run'[q] = run[q]
        /\ run'[r].at = "idle" /\ run'[r].found = {}
    BY <1>8, EndEffect DEF Save, NoRun
  <2>2. UNCHANGED <<mergedAt, reported, calm>> /\ run[r].at = "save"
    BY <1>8 DEF Save
  <2>3. ASSUME calm, NEW q \in Procs PROVE run'[q].at = "idle"
    BY <2>1, <2>2, <2>3 DEF CalmInv, OneRun
  <2>4. ASSUME calm PROVE watermark' = Over(run[r].cursor, watermark)
    <3>1. run[r].saved = watermark /\ DOMAIN run[r].cursor # {}
      BY <2>2, <2>4 DEF CalmInv, FreshRuns
    <3> QED BY <1>8, <3>1 DEF Save
  <2>5. ASSUME calm, NEW p \in reported PROVE Behind(p, watermark')
    <3>1. Fresh(r) /\ run[r].saved = watermark
      BY <2>2, <2>5 DEF CalmInv, FreshRuns
    <3>2. Behind(p, watermark) \/ Behind(p, run[r].cursor)
      BY <2>2, <2>5 DEF CalmInv, OneRun, PrintedIsBehind
    <3>3. /\ p \in PRs /\ mergedAt[p] \in Int /\ watermark \in Marks /\ run[r].cursor \in Marks
      BY <1>0, TypedValues DEF TypeOK
    <3>4. /\ \A repo \in DOMAIN run[r].cursor : watermark'[repo] = run[r].cursor[repo]
          /\ \A repo \in DOMAIN watermark \ DOMAIN run[r].cursor : watermark'[repo] = watermark[repo]
          /\ DOMAIN watermark' = DOMAIN watermark \cup DOMAIN run[r].cursor
      BY <2>4, <2>5 DEF Over
    <3>5. \A repo \in DOMAIN run[r].cursor \cap DOMAIN watermark :
            /\ watermark[repo] \in Int /\ run[r].cursor[repo] \in Int
            /\ watermark[repo] <= run[r].cursor[repo]
      BY <3>1, <3>3, MarkFacts DEF Fresh
    <3> QED BY <3>2, <3>3, <3>4, <3>5 DEF Behind
  <2> QED BY <2>1, <2>2, <2>3, <2>5 DEF CalmInv, OneRun, FreshRuns, PrintedIsBehind, Behind
<1>9. CASE UNCHANGED vars
  BY <1>9 DEF vars, CalmInv, OneRun, FreshRuns, PrintedIsBehind, Fresh, Behind
<1> QED BY <1>1, <1>2, <1>3, <1>4, <1>5, <1>6, <1>7, <1>8, <1>9 DEF Next

(* Runs that do not overlap, do not die between their report and their save *)
(* and see complete pages never print a pull request twice.                 *)
THEOREM CalmRunsDoNotRepeat == Spec => []RepeatsOnlyAfterTrouble
<1>1. Init => QuietInv
  BY InitTyped, InitCalm DEF QuietInv
<1>2. QuietInv /\ [Next]_vars => QuietInv'
  BY TypedStep, CalmStep DEF QuietInv
<1>3. QuietInv => RepeatsOnlyAfterTrouble
  <2> SUFFICES ASSUME QuietInv, NEW r \in Procs, Reporting(r), calm,
                      NEW p \in run[r].found, p \in reported
               PROVE  FALSE
    BY DEF RepeatsOnlyAfterTrouble
  <2>1. run[r].at = "fetch" /\ run[r].saved = watermark /\ Fresh(r)
    BY DEF Reporting, QuietInv, CalmInv, FreshRuns
  <2>2. Behind(p, watermark)
    BY <2>1 DEF QuietInv, CalmInv, OneRun, PrintedIsBehind
  <2> QED BY <2>1, <2>2 DEF Fresh
<1> QED BY <1>1, <1>2, <1>3, PTL DEF Spec
=============================================================================
