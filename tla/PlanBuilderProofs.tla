-------------------------- MODULE PlanBuilderProofs --------------------------
(***************************************************************************)
(* Theorems about PlanBuilder: whatever the catalog, the machine and the   *)
(* two configuration files are, a plan refers only to what it has planned  *)
(* before, its bridges read where its hooks land, and a block that is off  *)
(* pays for nothing.                                                       *)
(*                                                                         *)
(* The inductive invariant is IInv: what rig reads are the values a parser *)
(* and a catalog deliver, and the plan is the plan of them.  The rest is   *)
(* about `build' itself: one lemma per handler says which kinds of action  *)
(* it plans and what has to be on for that, and BuildIs puts them together.*)
(***************************************************************************)
EXTENDS PlanBuilder, FiniteSetTheorems, SequenceTheorems, WellFoundedInduction, TLAPS

(* Every non-empty set of naturals has a least element.                     *)
LEMMA LeastElement ==
    ASSUME NEW S \in SUBSET Nat, S # {}
    PROVE  \E m \in S : \A k \in S : m <= k
<1>1. PICK m \in S : \A k \in S : <<k, m>> \notin OpToRel(<, Nat)
  BY NatLessThanWellFounded, WFMin
<1>2. ASSUME NEW k \in S PROVE m <= k
  <2>1. k \in Nat /\ m \in Nat /\ ~(k < m)
    BY <1>1 DEF OpToRel
  <2> QED BY <2>1
<1> QED BY <1>2

-----------------------------------------------------------------------------
(* Sequences, made of those of a sequence.                                  *)
LEMMA Elements == \A s, a : a \in ToSet(s) <=> \E i \in DOMAIN s : a = s[i]
BY DEF ToSet

LEMMA SeqIsSeq ==
    ASSUME NEW S, NEW s \in Seq(S)
    PROVE  IsSeq(s) /\ ToSet(s) \subseteq S
<1>1. \A i \in 1 .. Len(s) : s[i] \in ToSet(s)
  BY DEF ToSet
<1>2. s = [i \in 1 .. Len(s) |-> s[i]] /\ Len(s) \in Nat
  OBVIOUS
<1>3. s \in Seq(ToSet(s))
  BY <1>1, <1>2, IsASeq
<1> QED BY <1>3 DEF IsSeq, ToSet

LEMMA OneIsSeq ==
    ASSUME NEW a
    PROVE  IsSeq(<<a>>) /\ ToSet(<<a>>) = {a}
BY SeqIsSeq DEF IsSeq, ToSet

LEMMA NoneIsSeq == IsSeq(<<>>) /\ ToSet(<<>>) = {}
<1>1. ToSet(<<>>) = {}
  BY DEF ToSet
<1> QED BY <1>1 DEF IsSeq

LEMMA ConcatIsSeq ==
    ASSUME NEW s, NEW t, IsSeq(s), IsSeq(t)
    PROVE  IsSeq(s \o t) /\ ToSet(s \o t) = ToSet(s) \union ToSet(t)
<1> DEFINE S == ToSet(s) \union ToSet(t)
<1>1. s \in Seq(S) /\ t \in Seq(S)
  BY SeqMonotonic DEF IsSeq
<1>2. s \o t \in Seq(S) /\ Len(s \o t) = Len(s) + Len(t) /\ Len(s) \in Nat /\ Len(t) \in Nat
  BY <1>1
<1>3. IsSeq(s \o t) /\ ToSet(s \o t) \subseteq S
  BY <1>2, SeqIsSeq
<1>4. ASSUME NEW i \in DOMAIN s PROVE s[i] \in ToSet(s \o t)
  <2>1. i \in DOMAIN (s \o t) /\ (s \o t)[i] = s[i]
    BY <1>1, <1>2
  <2> QED BY <2>1 DEF ToSet
<1>5. ASSUME NEW i \in DOMAIN t PROVE t[i] \in ToSet(s \o t)
  <2>1. Len(s) + i \in DOMAIN (s \o t) /\ (s \o t)[Len(s) + i] = t[i]
    BY <1>1, <1>2
  <2> QED BY <2>1 DEF ToSet
<1> QED BY <1>3, <1>4, <1>5 DEF ToSet

LEMMA PairIsSeq ==
    ASSUME NEW a, NEW b
    PROVE  /\ <<a>> \o <<b>> = <<a, b>> /\ IsSeq(<<a, b>>) /\ ToSet(<<a, b>>) = {a, b}
           /\ DOMAIN <<a, b>> = {1, 2} /\ <<a, b>>[1] = a /\ <<a, b>>[2] = b
<1> DEFINE s == <<a>> \o <<b>>
<1>1. IsSeq(s) /\ ToSet(s) = {a, b}
  BY OneIsSeq, ConcatIsSeq
<1>2. <<a>> \in Seq({a, b}) /\ <<b>> \in Seq({a, b}) /\ Len(<<a>>) = 1 /\ Len(<<b>>) = 1
  OBVIOUS
<1>3. s \in Seq({a, b}) /\ Len(s) = 2 /\ s[1] = a /\ s[2] = b
  BY <1>2
<1>4. <<a, b>> \in Seq({a, b}) /\ Len(<<a, b>>) = 2
  OBVIOUS
<1>5. s = <<a, b>>
  <2> HIDE DEF s
  <2>1. \A i \in 1 .. 2 : s[i] = <<a, b>>[i]
    BY <1>3
  <2> QED BY <1>3, <1>4, <2>1, SeqEqual
<1>6. DOMAIN <<a, b>> = {1, 2}
  OBVIOUS
<1> HIDE DEF s
<1>7. IsSeq(<<a, b>>) /\ ToSet(<<a, b>>) = {a, b}
  BY <1>1, <1>5
<1> QED BY <1>5, <1>6, <1>7 DEF s

LEMMA WhenIsSeq ==
    ASSUME NEW b \in BOOLEAN, NEW s, IsSeq(s)
    PROVE  IsSeq(When(b, s)) /\ ToSet(When(b, s)) = IF b THEN ToSet(s) ELSE {}
BY NoneIsSeq DEF When

(* FlattenSeq sticks the sequences together, one after another.             *)
Flattens(q, n, f) == f = [i \in 1 .. n |-> IF i = 1 THEN q[i] ELSE f[i - 1] \o q[i]]
LEMMA FlattensExists ==
    ASSUME NEW q, NEW n \in Nat
    PROVE  \E f : Flattens(q, n, f)
<1> DEFINE Stuck == {k \in Nat : ~ \E f : Flattens(q, k, f)}
<1>1. SUFFICES ASSUME Stuck # {} PROVE FALSE
  OBVIOUS
<1>2. PICK m \in Stuck : \A k \in Stuck : m <= k
  BY <1>1, LeastElement
<1>3. m # 0
  <2>1. Flattens(q, 0, [i \in 1 .. 0 |-> <<>>])
    BY DEF Flattens
  <2> QED BY <1>2, <2>1
<1>4. PICK f : Flattens(q, m - 1, f)
  BY <1>2, <1>3
<1> DEFINE g == [i \in 1 .. m |-> IF i < m THEN f[i] ELSE IF i = 1 THEN q[i] ELSE f[i - 1] \o q[i]]
<1>5. \A i \in 1 .. m : g[i] = IF i = 1 THEN q[i] ELSE g[i - 1] \o q[i]
  <2> SUFFICES ASSUME NEW i \in 1 .. m
               PROVE  g[i] = IF i = 1 THEN q[i] ELSE g[i - 1] \o q[i]
    OBVIOUS
  <2>1. i # 1 => i - 1 \in 1 .. m /\ i - 1 < m /\ g[i - 1] = f[i - 1]
    BY <1>2
  <2>2. i < m => g[i] = f[i] /\ i \in 1 .. m - 1
    BY <1>2
  <2>3. i < m => f[i] = IF i = 1 THEN q[i] ELSE f[i - 1] \o q[i]
    BY <1>4, <2>2 DEF Flattens
  <2>4. ~(i < m) => g[i] = IF i = 1 THEN q[i] ELSE f[i - 1] \o q[i]
    OBVIOUS
  <2> HIDE DEF g
  <2> QED BY <2>1, <2>2, <2>3, <2>4
<1>6. Flattens(q, m, g)
  <2> DEFINE h == [i \in 1 .. m |-> IF i = 1 THEN q[i] ELSE g[i - 1] \o q[i]]
  <2>1. g = h
    BY <1>5
  <2> QED BY <2>1 DEF Flattens
<1> QED BY <1>2, <1>6

LEMMA FlattenSteps ==
    ASSUME NEW q, Len(q) \in Nat \ {0}
    PROVE  \E f : /\ f[1] = q[1]
                  /\ \A i \in 2 .. Len(q) : f[i] = f[i - 1] \o q[i]
                  /\ FlattenSeq(q) = f[Len(q)]
<1> DEFINE f == CHOOSE f : Flattens(q, Len(q), f)
<1>1. Flattens(q, Len(q), f)
  BY FlattensExists
<1>2. FlattenSeq(q) = f[Len(q)]
  BY Zenon DEF FlattenSeq, Flattens
<1> HIDE DEF f
<1>3. \A i \in 1 .. Len(q) : f[i] = IF i = 1 THEN q[i] ELSE f[i - 1] \o q[i]
  BY <1>1 DEF Flattens
<1>4. f[1] = q[1]
  BY <1>3
<1>5. ASSUME NEW i \in 2 .. Len(q) PROVE f[i] = f[i - 1] \o q[i]
  <2>1. i \in 1 .. Len(q) /\ i # 1
    OBVIOUS
  <2> QED BY <1>3, <2>1
<1> QED BY <1>2, <1>4, <1>5

(* What comes before an element in its own sequence comes before it in all. *)
InOrder(s, q) ==
    \A x \in DOMAIN s : \E i \in DOMAIN q : \E j \in DOMAIN q[i] :
        /\ s[x] = q[i][j]
        /\ \A k \in 1 .. j - 1 : \E y \in 1 .. x - 1 : s[y] = q[i][k]

LEMMA ConcatInOrder ==
    ASSUME NEW s, NEW t, IsSeq(s), IsSeq(t), NEW q, NEW n \in DOMAIN q, q[n] = t, InOrder(s, q)
    PROVE  InOrder(s \o t, q)
<1> DEFINE u == s \o t
<1>1. /\ Len(s) \in Nat /\ Len(t) \in Nat /\ DOMAIN s = 1 .. Len(s) /\ DOMAIN t = 1 .. Len(t)
      /\ DOMAIN u = 1 .. Len(s) + Len(t)
      /\ \A i \in 1 .. Len(s) : u[i] = s[i]
      /\ \A i \in 1 .. Len(t) : u[Len(s) + i] = t[i]
  BY ConcatIsSeq DEF IsSeq
<1> HIDE DEF u
<1>2. ASSUME NEW x \in DOMAIN u
      PROVE  \E i \in DOMAIN q : \E j \in DOMAIN q[i] :
               u[x] = q[i][j] /\ \A k \in 1 .. j - 1 : \E y \in 1 .. x - 1 : u[y] = q[i][k]
  <2>1. CASE x <= Len(s)
    <3>1. x \in DOMAIN s /\ \A y \in 1 .. x - 1 : u[y] = s[y]
      BY <1>1, <2>1
    <3>2. PICK i \in DOMAIN q : \E j \in DOMAIN q[i] :
            s[x] = q[i][j] /\ \A k \in 1 .. j - 1 : \E y \in 1 .. x - 1 : s[y] = q[i][k]
      BY <3>1 DEF InOrder
    <3>3. PICK j \in DOMAIN q[i] :
            s[x] = q[i][j] /\ \A k \in 1 .. j - 1 : \E y \in 1 .. x - 1 : s[y] = q[i][k]
      BY <3>2
    <3>4. u[x] = s[x]
      BY <1>1, <2>1
    <3>5. \A k \in 1 .. j - 1 : \E y \in 1 .. x - 1 : u[y] = q[i][k]
      BY <3>1, <3>3
    <3> QED BY <3>3, <3>4, <3>5
  <2>2. CASE x > Len(s)
    <3> DEFINE j == x - Len(s)
    <3>1. j \in 1 .. Len(t) /\ u[x] = t[j]
      BY <1>1, <2>2
    <3>2. ASSUME NEW k \in 1 .. j - 1 PROVE \E y \in 1 .. x - 1 : u[y] = t[k]
      <4>1. k \in 1 .. Len(t) /\ Len(s) + k \in 1 .. x - 1
        BY <1>1, <3>1
      <4>2. u[Len(s) + k] = t[k]
        BY <1>1, <4>1
      <4> QED BY <4>1, <4>2
    <3> HIDE DEF j
    <3>3. j \in DOMAIN q[n] /\ u[x] = q[n][j]
      BY <1>1, <3>1
    <3>4. \A k \in 1 .. j - 1 : \E y \in 1 .. x - 1 : u[y] = q[n][k]
      BY <3>2
    <3> QED BY <3>3, <3>4
  <2> QED BY <1>1, <2>1, <2>2
<1> QED BY <1>2 DEF InOrder, u

LEMMA FlattenIsSeq ==
    ASSUME NEW q, IsSeq(q), \A i \in DOMAIN q : IsSeq(q[i])
    PROVE  /\ IsSeq(FlattenSeq(q))
           /\ ToSet(FlattenSeq(q)) = UNION {ToSet(q[i]) : i \in DOMAIN q}
           /\ InOrder(FlattenSeq(q), q)
<1>1. Len(q) \in Nat /\ DOMAIN q = 1 .. Len(q)
  BY DEF IsSeq
<1>2. CASE Len(q) = 0
  <2>1. q = <<>> /\ FlattenSeq(q) = <<>> /\ DOMAIN q = {}
    BY <1>2 DEF IsSeq, FlattenSeq
  <2> QED BY <2>1, NoneIsSeq DEF InOrder
<1>3. CASE Len(q) # 0
  <2>1. PICK f : /\ f[1] = q[1]
                 /\ \A i \in 2 .. Len(q) : f[i] = f[i - 1] \o q[i]
                 /\ FlattenSeq(q) = f[Len(q)]
    BY <1>1, <1>3, FlattenSteps
  <2> DEFINE Good(n) == IsSeq(f[n]) /\ ToSet(f[n]) = UNION {ToSet(q[i]) : i \in 1 .. n} /\ InOrder(f[n], q)
             Bad == {n \in 1 .. Len(q) : ~Good(n)}
  <2>2. Good(1)
    <3>1. 1 \in DOMAIN q /\ 1 .. 1 = {1}
      BY <1>1, <1>3
    <3>2. InOrder(q[1], q)
      <4>1. \A x \in DOMAIN q[1] : \A k \in 1 .. x - 1 : \E y \in 1 .. x - 1 : q[1][y] = q[1][k]
        OBVIOUS
      <4> QED BY <3>1, <4>1 DEF InOrder
    <3>3. UNION {ToSet(q[i]) : i \in 1 .. 1} = ToSet(q[1])
      BY <3>1
    <3> QED BY <2>1, <3>1, <3>2, <3>3
  <2>3. ASSUME NEW n \in 2 .. Len(q), Good(n - 1)
        PROVE  Good(n)
    <3>1. n \in DOMAIN q /\ 1 .. n = 1 .. (n - 1) \union {n}
      BY <1>1
    <3>2. f[n] = f[n - 1] \o q[n] /\ IsSeq(f[n - 1]) /\ IsSeq(q[n])
      BY <2>1, <2>3, <3>1
    <3>3. IsSeq(f[n]) /\ ToSet(f[n]) = ToSet(f[n - 1]) \union ToSet(q[n])
      BY <3>2, ConcatIsSeq
    <3>4. UNION {ToSet(q[i]) : i \in 1 .. n} = (UNION {ToSet(q[i]) : i \in 1 .. (n - 1)}) \union ToSet(q[n])
      BY <3>1
    <3>5. InOrder(f[n], q)
      BY <2>3, <3>1, <3>2, ConcatInOrder
    <3> QED BY <2>3, <3>3, <3>4, <3>5
  <2>4. Bad = {}
    <3> HIDE DEF Good
    <3> SUFFICES ASSUME Bad # {} PROVE FALSE
      OBVIOUS
    <3>1. PICK m \in Bad : \A k \in Bad : m <= k
      <4>1. Bad \in SUBSET Nat
        BY <1>1
      <4> HIDE DEF Bad
      <4> QED BY <4>1, LeastElement
    <3>2. m \in 2 .. Len(q)
      BY <1>1, <2>2, <3>1
    <3>3. Good(m - 1)
      BY <1>1, <3>1, <3>2
    <3> QED BY <2>3, <3>1, <3>2, <3>3
  <2>5. Good(Len(q))
    <3> HIDE DEF Good
    <3> QED BY <1>1, <1>3, <2>4
  <2> QED BY <1>1, <2>1, <2>5
<1> QED BY <1>2, <1>3
-----------------------------------------------------------------------------
(* What rig reads.                                                          *)

LEMMA FewerKeys ==
    ASSUME NEW c, IsConfig(c), NEW d, DOMAIN d \subseteq DOMAIN c, \A q \in DOMAIN d : d[q] = c[q]
    PROVE  IsConfig(d)
BY FS_Subset DEF IsConfig

LEMMA SetAtIsConfig ==
    ASSUME NEW c, IsConfig(c), NEW p, NEW v, IsValue(v)
    PROVE  IsConfig(SetAt(c, p, v))
<1> DEFINE kept == {q \in DOMAIN c : q # p /\ ~Under(q, p) /\ ~Under(p, q)}
           d == SetAt(c, p, v)
<1>1. kept \subseteq DOMAIN c
  OBVIOUS
<1> HIDE DEF kept
<1>2. DOMAIN d = kept \union {p} /\ \A q \in kept \union {p} : d[q] = IF q = p THEN v ELSE c[q]
  BY DEF SetAt, kept
<1>3. IsFiniteSet(kept \union {p})
  BY <1>1, FS_Subset, FS_AddElement DEF IsConfig
<1>4. \A q \in kept \union {p} : IsValue(d[q])
  BY <1>1, <1>2 DEF IsConfig
<1> HIDE DEF d
<1> QED BY <1>2, <1>3, <1>4 DEF IsConfig, d

LEMMA MergedIsConfig ==
    ASSUME NEW g, NEW r, IsConfig(g), IsConfig(r)
    PROVE  IsConfig(Merged(g, r))
<1> DEFINE kept == {q \in DOMAIN g :
                      /\ q \notin DOMAIN r
                      /\ \A s \in DOMAIN r : ~Under(s, q) /\ (Under(q, s) => r[s] = EmptyMap)}
           D == kept \union {s \in DOMAIN r : ~(r[s] = EmptyMap /\ HasMap(g, s))}
           d == Merged(g, r)
<1>1. d = [q \in D |-> IF q \in DOMAIN r THEN r[q] ELSE g[q]]
  BY DEF Merged
<1>2. D \subseteq DOMAIN g \union DOMAIN r
  OBVIOUS
<1>3. IsFiniteSet(DOMAIN g \union DOMAIN r)
  BY FS_Union DEF IsConfig
<1> HIDE DEF D, d
<1>4. IsFiniteSet(D)
  BY <1>2, <1>3, FS_Subset
<1>5. \A q \in D : IsValue(d[q])
  BY <1>1, <1>2 DEF IsConfig
<1>6. DOMAIN d = D
  BY <1>1
<1> QED BY <1>4, <1>5, <1>6 DEF IsConfig, d

LEMMA LoadedIsConfig ==
    ASSUME NEW g, NEW r, IsConfig(g), IsConfig(r)
    PROVE  IsConfig(Loaded(g, r))
<1>1. IsConfig(Merged(g, r))
  BY MergedIsConfig
<1> DEFINE c == Merged(g, r)
<1> HIDE DEF c
<1>2. Loaded(g, r) = [p \in {q \in DOMAIN c : q[1] # "scope"} |-> c[p]]
  BY DEF Loaded, c
<1>3. DOMAIN Loaded(g, r) \subseteq DOMAIN c /\ \A q \in DOMAIN Loaded(g, r) : Loaded(g, r)[q] = c[q]
  BY <1>2
<1> QED BY <1>1, <1>3, FewerKeys DEF c

(* What rig plans from is what the parser and the catalog delivered.        *)
Parsed == IsConfig(global) /\ IsConfig(repo) /\ IsWorld(world)

LEMMA ChangedParsed ==
    ASSUME Parsed, Changed
    PROVE  Parsed'
<1>1. ASSUME NEW p \in DOMAIN Edits, NEW v \in Edits[p], SetKey(p, v)
      PROVE  Parsed'
  <2>1. IsConfig(SetAt(repo, p, v))
    BY EditsAssumption, SetAtIsConfig DEF Parsed
  <2> QED BY <1>1, <2>1 DEF SetKey, Parsed
<1>2. ASSUME NEW p \in DOMAIN MachineEdits, NEW v \in MachineEdits[p], SetMachineKey(p, v)
      PROVE  Parsed'
  <2>1. IsConfig(SetAt(global, p, v))
    BY EditsAssumption, SetAtIsConfig DEF Parsed
  <2> QED BY <1>2, <2>1 DEF SetMachineKey, Parsed
<1>3. ASSUME NEW p, DeleteKey(p)
      PROVE  Parsed'
  <2>1. \A c : IsConfig(c) => IsConfig(Without(c, p))
    BY FewerKeys DEF Without
  <2> QED BY <1>3, <2>1 DEF DeleteKey, Parsed
<1>4. ASSUME NEW field \in DOMAIN Worlds, NEW v \in Worlds[field], WorldChanges(field, v)
      PROVE  Parsed'
  <2>1. world' = [world EXCEPT ![field] = v] /\ global' = global /\ repo' = repo
    BY <1>4 DEF WorldChanges
  <2>2. /\ {"items", "codexHome"} \subseteq DOMAIN world'
        /\ world'.items = IF field = "items" THEN v ELSE world.items
        /\ world'.codexHome = IF field = "codexHome" THEN v ELSE world.codexHome
    BY <2>1 DEF Parsed, IsWorld
  <2>3. IsCatalog(world'.items) /\ IsSeq(world'.codexHome)
    BY <2>2, WorldsAssumption DEF Parsed, IsWorld
  <2> QED BY <2>1, <2>2, <2>3 DEF Parsed, IsWorld
<1> QED BY <1>1, <1>2, <1>3, <1>4 DEF Changed

(* The plan on show is the plan of the files and the world as they are.     *)
Fresh == plan = PlanOf(global, repo, world)
IInv == Parsed /\ Fresh

LEMMA IInvIsInvariant == Spec => []IInv
<1>1. Init => IInv
  BY StartAssumption DEF Init, IInv, Parsed, Fresh
<1>2. IInv /\ [Next]_vars => IInv'
  <2>1. IInv /\ Next => IInv'
    BY ChangedParsed DEF Next, Planned, IInv, Fresh
  <2>2. IInv /\ UNCHANGED vars => IInv'
    BY DEF vars, IInv, Parsed, Fresh
  <2> QED BY <2>1, <2>2
<1> QED BY <1>1, <1>2, PTL DEF Spec

LEMMA ConfigIsConfig ==
    ASSUME Parsed
    PROVE  IsConfig(Config)
<1>1. IsConfig(Layer)
  <2>1. IsConfig([p \in {} |-> Null])
    BY FS_EmptySet DEF IsConfig
  <2> QED BY <2>1 DEF Parsed, Layer
<1> QED BY <1>1, LoadedIsConfig DEF Parsed, Config

-----------------------------------------------------------------------------
LEMMA MappedIsSeq ==
    ASSUME NEW s, IsSeq(s), NEW q, q = [i \in DOMAIN s |-> q[i]]
    PROVE  IsSeq(q) /\ DOMAIN q = DOMAIN s /\ ToSet(q) = {q[i] : i \in DOMAIN s}
<1>1. Len(s) \in Nat /\ DOMAIN s = 1 .. Len(s)
  BY DEF IsSeq
<1>2. DOMAIN q = DOMAIN s
  OBVIOUS
<1>3. ToSet(q) = {q[i] : i \in DOMAIN s}
  BY <1>2 DEF ToSet
<1>4. \A i \in 1 .. Len(s) : q[i] \in ToSet(q)
  BY <1>1, <1>3
<1>5. [i \in 1 .. Len(s) |-> q[i]] \in Seq(ToSet(q))
  BY <1>1, <1>4, IsASeq
<1>6. q = [i \in 1 .. Len(s) |-> q[i]]
  BY <1>1
<1> HIDE DEF IsSeq
<1>7. q \in Seq(ToSet(q))
  BY <1>5, <1>6
<1> QED BY <1>2, <1>3, <1>7 DEF IsSeq

(* `Where' and `Distinct' keep the elements at some of the places.          *)
Sieve(s, T) == FlattenSeq([i \in DOMAIN s |-> IF i \in T THEN <<s[i]>> ELSE <<>>])
LEMMA Sifted ==
    ASSUME NEW s, IsSeq(s), NEW T \in SUBSET DOMAIN s
    PROVE  /\ IsSeq(Sieve(s, T)) /\ ToSet(Sieve(s, T)) = {s[i] : i \in T}
           /\ ToSet(Sieve(s, T)) \subseteq ToSet(s)
<1> DEFINE q == [i \in DOMAIN s |-> IF i \in T THEN <<s[i]>> ELSE <<>>]
<1>1. \A i \in DOMAIN s : IsSeq(q[i]) /\ ToSet(q[i]) = IF i \in T THEN {s[i]} ELSE {}
  BY OneIsSeq, NoneIsSeq
<1>2. IsSeq(q) /\ DOMAIN q = DOMAIN s
  BY MappedIsSeq
<1> HIDE DEF q
<1>3. \A i \in DOMAIN q : IsSeq(q[i])
  BY <1>1, <1>2
<1>4. IsSeq(FlattenSeq(q)) /\ ToSet(FlattenSeq(q)) = UNION {ToSet(q[i]) : i \in DOMAIN q}
  BY <1>2, <1>3, FlattenIsSeq
<1>5. UNION {ToSet(q[i]) : i \in DOMAIN q} = {s[i] : i \in T}
  <2>1. ASSUME NEW i \in T PROVE s[i] \in UNION {ToSet(q[j]) : j \in DOMAIN q}
    BY <1>1, <1>2
  <2>2. ASSUME NEW i \in DOMAIN q, NEW a \in ToSet(q[i]) PROVE a \in {s[j] : j \in T}
    BY <1>1, <1>2
  <2> QED BY <2>1, <2>2
<1>6. {s[i] : i \in T} \subseteq ToSet(s)
  BY DEF ToSet
<1> QED BY <1>4, <1>5, <1>6 DEF Sieve, q

-----------------------------------------------------------------------------
(* The sequences the handlers run over.                                     *)
LEMMA ListIsSeq ==
    ASSUME NEW c, IsConfig(c), NEW p, TypeOf(At(c, p)) = "array"
    PROVE  IsSeq(At(c, p)[3])
<1>1. TypeOf(EmptyMap) # "array" /\ TypeOf(Absent) # "array"
  BY DEF TypeOf, EmptyMap, Absent
<1>2. p \in DOMAIN c /\ At(c, p) = c[p]
  BY <1>1 DEF At
<1> QED BY <1>2 DEF IsConfig, IsValue

LEMMA DistinctIsSeq ==
    ASSUME NEW s, IsSeq(s)
    PROVE  IsSeq(Distinct(s)) /\ ToSet(Distinct(s)) = ToSet(s)
<1> DEFINE T == {i \in DOMAIN s : \A j \in 1 .. i - 1 : s[j] # s[i]}
<1>1. Distinct(s) = Sieve(s, T)
  BY DEF Distinct, When, Sieve
<1>2. T \subseteq DOMAIN s
  OBVIOUS
<1>3. IsSeq(Distinct(s)) /\ ToSet(Distinct(s)) = {s[i] : i \in T}
  <2> HIDE DEF T
  <2> QED BY <1>1, <1>2, Sifted
<1>4. ASSUME NEW i \in DOMAIN s PROVE s[i] \in ToSet(Distinct(s))
  <2> DEFINE Same == {j \in DOMAIN s : s[j] = s[i]}
  <2>1. Len(s) \in Nat /\ DOMAIN s = 1 .. Len(s)
    BY DEF IsSeq
  <2>2. PICK m \in Same : \A k \in Same : m <= k
    <3>1. Same \in SUBSET Nat /\ i \in Same
      BY <2>1
    <3> HIDE DEF Same
    <3> QED BY <3>1, LeastElement
  <2>3. m \in T
    <3> SUFFICES ASSUME NEW j \in 1 .. m - 1, s[j] = s[m] PROVE FALSE
      BY <2>2
    <3>1. j \in Same /\ ~(m <= j)
      BY <2>1, <2>2
    <3> QED BY <2>2, <3>1
  <2> QED BY <1>3, <2>2, <2>3
<1> QED BY <1>3, <1>4 DEF ToSet

LEMMA KindsIsSeq ==
    ASSUME NEW c, IsConfig(c)
    PROVE  IsSeq(Kinds(c))
<1> DEFINE more == Knob(c, <<"harness">>, "kinds")
           s == <<Primary(c)>> \o (IF TypeOf(more) = "array" THEN more[3] ELSE <<>>)
<1>1. TypeOf(more) = "array" => IsSeq(more[3])
  BY ListIsSeq DEF Knob
<1>2. IsSeq(s)
  <2> HIDE DEF more
  <2> QED BY <1>1, OneIsSeq, NoneIsSeq, ConcatIsSeq
<1>3. Kinds(c) = Distinct(s)
  BY DEF Kinds
<1> HIDE DEF s
<1> QED BY <1>2, <1>3, DistinctIsSeq

LEMMA EachIsSeq ==
    ASSUME NEW s, IsSeq(s), NEW q, q = [i \in DOMAIN s |-> q[i]], \A i \in DOMAIN s : IsSeq(q[i])
    PROVE  /\ IsSeq(FlattenSeq(q)) /\ InOrder(FlattenSeq(q), q) /\ DOMAIN q = DOMAIN s
           /\ \A a : a \in ToSet(FlattenSeq(q)) <=> \E i \in DOMAIN s : a \in ToSet(q[i])
<1>1. IsSeq(q) /\ DOMAIN q = DOMAIN s
  BY MappedIsSeq
<1>2. \A i \in DOMAIN q : IsSeq(q[i])
  BY <1>1
<1>3. /\ IsSeq(FlattenSeq(q)) /\ InOrder(FlattenSeq(q), q)
      /\ ToSet(FlattenSeq(q)) = UNION {ToSet(q[i]) : i \in DOMAIN q}
  <2> DEFINE u == q
  <2>1. IsSeq(u) /\ \A i \in DOMAIN u : IsSeq(u[i])
    BY <1>1, <1>2
  <2> HIDE DEF u
  <2>2. /\ IsSeq(FlattenSeq(u)) /\ InOrder(FlattenSeq(u), u)
        /\ ToSet(FlattenSeq(u)) = UNION {ToSet(u[i]) : i \in DOMAIN u}
    BY <2>1, FlattenIsSeq
  <2> QED BY <2>2 DEF u
<1> QED BY <1>1, <1>3

LEMMA SetIsSeq ==
    ASSUME NEW S, IsFiniteSet(S)
    PROVE  IsSeq(SetToSeq(S)) /\ ToSet(SetToSeq(S)) \subseteq S
<1>1. Cardinality(S) \in Nat /\ \E f \in [1 .. Cardinality(S) -> S] : IsInjective(f)
  BY FS_CardinalityType DEF ExistsBijection, Bijection, Injection, IsInjective
<1>2. SetToSeq(S) \in [1 .. Cardinality(S) -> S]
  BY <1>1 DEF SetToSeq
<1>3. SetToSeq(S) \in Seq(S)
  BY <1>1, <1>2
<1> QED BY <1>3, SeqIsSeq

LEMMA EntriesAreFinite ==
    ASSUME NEW c, IsConfig(c), NEW p
    PROVE  IsFiniteSet(Entries(c, p))
<1> DEFINE S == {r \in DOMAIN c : Under(r, p)}
           f == [r \in S |-> Append(p, r[Len(p) + 1])]
<1>1. IsFiniteSet(S)
  BY FS_Subset DEF IsConfig
<1>2. Entries(c, p) = {Append(p, r[Len(p) + 1]) : r \in S}
  BY DEF Entries, Children
<1> HIDE DEF S
<1>3. f \in Surjection(S, Entries(c, p))
  BY <1>2 DEF Surjection
<1> QED BY <1>1, <1>3, FS_Surjection

LEMMA ItemsAre ==
    ASSUME NEW w, IsWorld(w), NEW category
    PROVE  IsSeq(Items(w, category)) /\ ToSet(Items(w, category)) \subseteq ToSet(w.items)
<1> DEFINE s == w.items
           T == {i \in DOMAIN s : s[i].category = category}
<1>1. IsSeq(s)
  BY DEF IsWorld, IsCatalog
<1>2. Items(w, category) = Sieve(s, T)
  BY DEF Items, Where, ForEach, When, Sieve
<1> QED BY <1>1, <1>2, Sifted

LEMMA SkillsAre ==
    ASSUME NEW c, NEW w, IsWorld(w)
    PROVE  /\ IsSeq(EnabledSkills(c, w))
           /\ \A item \in ToSet(EnabledSkills(c, w)) : On(c, <<"skills">>) /\ item \in ToSet(w.items)
<1> DEFINE s == Items(w, "skills")
           T == {i \in DOMAIN s : SkillOn(c, w, s[i])}
<1>1. IsSeq(s) /\ ToSet(s) \subseteq ToSet(w.items)
  BY ItemsAre
<1>2. EnabledSkills(c, w) = IF On(c, <<"skills">>) THEN Sieve(s, T) ELSE <<>>
  BY DEF EnabledSkills, Where, ForEach, When, Sieve
<1>3. IsSeq(Sieve(s, T)) /\ ToSet(Sieve(s, T)) \subseteq ToSet(s)
  BY <1>1, Sifted
<1> QED BY <1>1, <1>2, <1>3, NoneIsSeq

LEMMA HooksAre ==
    ASSUME NEW c, NEW w, IsWorld(w)
    PROVE  /\ IsSeq(EnabledHooks(c, w))
           /\ \A item \in ToSet(EnabledHooks(c, w)) :
                On(c, <<"agent_hooks">>) /\ IsSeq(item.descriptors)
<1> DEFINE s == Items(w, "agent_hooks")
           T == {i \in DOMAIN s : Selected(c, <<"agent_hooks">>, s[i], Bool(TRUE), TRUE)}
<1>1. IsSeq(s) /\ \A item \in ToSet(s) : IsSeq(item.descriptors)
  BY ItemsAre DEF IsWorld, IsCatalog
<1>2. EnabledHooks(c, w) = IF On(c, <<"agent_hooks">>) THEN Sieve(s, T) ELSE <<>>
  BY DEF EnabledHooks, Where, ForEach, When, Sieve
<1>3. IsSeq(Sieve(s, T)) /\ ToSet(Sieve(s, T)) \subseteq ToSet(s)
  BY <1>1, Sifted
<1> QED BY <1>1, <1>2, <1>3, NoneIsSeq

LEMMA EnabledAre ==
    ASSUME NEW c, NEW w, IsWorld(w), NEW category
    PROVE  /\ IsSeq(EnabledIn(c, w, category))
           /\ \A item \in ToSet(EnabledIn(c, w, category)) : On(c, <<category>>)
<1> DEFINE s == Items(w, category)
           T == {i \in DOMAIN s : Selected(c, <<category>>, s[i], Absent, FALSE)}
<1>1. EnabledIn(c, w, category) = IF On(c, <<category>>) THEN Sieve(s, T) ELSE <<>>
  BY DEF EnabledIn, Where, ForEach, When, Sieve
<1>2. IsSeq(Sieve(s, T))
  BY ItemsAre, Sifted
<1> QED BY <1>1, <1>2, NoneIsSeq

LEMMA LintersAre ==
    ASSUME NEW c, IsConfig(c)
    PROVE  /\ IsSeq(EnabledLinters(c))
           /\ \A e \in ToSet(EnabledLinters(c)) : On(c, <<"linters">>)
<1> DEFINE s == SetToSeq(Entries(c, LinterItems))
           T == {i \in DOMAIN s : ItemEnabled(c, s[i])}
<1>1. EnabledLinters(c) = IF On(c, <<"linters">>) THEN Sieve(s, T) ELSE <<>>
  BY DEF EnabledLinters, Where, ForEach, When, Sieve
<1>2. IsSeq(Sieve(s, T))
  BY EntriesAreFinite, SetIsSeq, Sifted
<1> QED BY <1>1, <1>2, NoneIsSeq

LEMMA PermissionKindsAre ==
    ASSUME NEW c, IsConfig(c)
    PROVE  IsSeq(PermissionKinds(c))
BY KindsIsSeq, OneIsSeq DEF PermissionKinds

-----------------------------------------------------------------------------
(* The handlers: the kinds of action each of them plans, and what has to be *)
(* on for it to plan any.                                                   *)
Acts(s, K, on) == IsSeq(s) /\ \A a \in ToSet(s) : a.kind \in K /\ on

LEMMA ActIs ==
    ASSUME NEW kind, NEW item, NEW target, NEW options
    PROVE  LET a == Act(kind, item, target, options) IN
           a.kind = kind /\ a.item = item /\ a.target = target /\ a.options = options
BY DEF Act

LEMMA DispatcherActs ==
    ASSUME NEW c, NEW w
    PROVE  Acts(DispatcherActions(c, w), {"install_dispatcher"}, TRUE)
BY OneIsSeq, NoneIsSeq, ActIs DEF DispatcherActions, When, Acts

LEMMA ModeActs ==
    ASSUME NEW c
    PROVE  Acts(ModeActions(c), {"record_mode"}, TRUE)
BY OneIsSeq, NoneIsSeq, ActIs DEF ModeActions, When, Acts

LEMMA ExecPolicyActs ==
    ASSUME NEW c, NEW w
    PROVE  Acts(ExecPolicyActions(c, w), {"provision_execpolicy"}, On(c, <<"permissions">>))
BY OneIsSeq, NoneIsSeq, ActIs DEF ExecPolicyActions, When, Acts

LEMMA ModelsActs ==
    ASSUME NEW c, NEW w
    PROVE  Acts(ModelsActions(c, w), {"provision_schedule"}, On(c, <<"models">>))
BY OneIsSeq, NoneIsSeq, ActIs DEF ModelsActions, When, Acts

LEMMA SymlinkActs ==
    ASSUME NEW c
    PROVE  Acts(SymlinkActions(c), {"provision_agents_symlink"}, On(c, <<"agents_md">>))
<1>1. \/ SymlinkActions(c) = <<>>
      \/ /\ On(c, <<"agents_md">>)
         /\ SymlinkActions(c) = <<Act("provision_agents_symlink", "symlink", <<".">>, NoOptions)>>
  BY DEF SymlinkActions, When
<1> QED BY <1>1, OneIsSeq, NoneIsSeq, ActIs DEF Acts

LEMMA TmuxActs ==
    ASSUME NEW c, NEW w
    PROVE  Acts(TmuxActions(c, w), {"provision_tmux"}, On(c, <<"tmux">>))
BY OneIsSeq, NoneIsSeq, ActIs DEF TmuxActions, When, Acts

LEMMA EnvActs ==
    ASSUME NEW c
    PROVE  Acts(EnvActions(c), {"provision_env"}, On(c, <<"env">>))
BY OneIsSeq, NoneIsSeq, ActIs DEF EnvActions, When, Acts

LEMMA ExcludesActs ==
    ASSUME NEW c
    PROVE  Acts(ExcludesActions(c), {"provision_global_excludes"}, On(c, <<"gitignore">>))
BY OneIsSeq, NoneIsSeq, ActIs DEF ExcludesActions, When, Acts

LEMMA TruthyIsOn ==
    ASSUME NEW c, NEW block, Truthy(Knob(c, block, "enabled"))
    PROVE  On(c, block)
BY DEF Truthy, On

LEMMA SpotlightActs ==
    ASSUME NEW c
    PROVE  Acts(SpotlightActions(c), {"provision_spotlight"}, On(c, <<"spotlight">>))
BY OneIsSeq, NoneIsSeq, ActIs, TruthyIsOn DEF SpotlightActions, When, Acts

LEMMA ToolsActs ==
    ASSUME NEW c
    PROVE  Acts(ToolsActions(c), {"provision_tools"}, On(c, <<"tools">>))
BY OneIsSeq, NoneIsSeq, ActIs, TruthyIsOn DEF ToolsActions, When, Acts

LEMMA TgCtlActs ==
    ASSUME NEW c
    PROVE  Acts(TgCtlActions(c), {"provision_tg_ctl"}, On(c, <<"tg_ctl">>))
BY OneIsSeq, NoneIsSeq, ActIs DEF TgCtlActions, When, Acts

LEMMA EachActs ==
    ASSUME NEW s, IsSeq(s), NEW K, NEW on, NEW q, q = [i \in DOMAIN s |-> q[i]],
           \A i \in DOMAIN s : Acts(q[i], K, on)
    PROVE  /\ Acts(FlattenSeq(q), K, on)
           /\ \A a : a \in ToSet(FlattenSeq(q)) <=> \E i \in DOMAIN s : a \in ToSet(q[i])
<1>1. /\ IsSeq(FlattenSeq(q))
      /\ \A a : a \in ToSet(FlattenSeq(q)) <=> \E i \in DOMAIN s : a \in ToSet(q[i])
  <2>1. \A i \in DOMAIN s : IsSeq(q[i])
    BY DEF Acts
  <2> QED BY <2>1, EachIsSeq
<1> QED BY <1>1 DEF Acts

LEMMA PermissionActs ==
    ASSUME NEW c, IsConfig(c)
    PROVE  Acts(PermissionActions(c), {"provision_permissions"}, On(c, <<"permissions">>))
<1> DEFINE s == AllowlistKinds(c)
           q == [i \in DOMAIN s |-> <<Allowlist(c, s[i])>>]
<1>1. IsSeq(s)
  <2> DEFINE all == PermissionKinds(c)
             kinds == Sieve(all, {i \in DOMAIN all : all[i] \in Allowlists})
  <2>1. s = kinds \/ s = <<kinds[1]>>
    BY DEF AllowlistKinds, Where, ForEach, When, Sieve
  <2>2. IsSeq(kinds)
    BY PermissionKindsAre, Sifted
  <2> QED BY <2>1, <2>2, OneIsSeq
<1>2. \A i \in DOMAIN s : Acts(q[i], {"provision_permissions"}, TRUE)
  BY OneIsSeq, ActIs DEF Acts, Allowlist
<1>3. Acts(FlattenSeq(q), {"provision_permissions"}, TRUE)
  <2>1. q = [i \in DOMAIN s |-> q[i]]
    OBVIOUS
  <2> HIDE DEF s, q
  <2> QED BY <1>1, <1>2, <2>1, EachActs
<1>4. PermissionActions(c) = IF On(c, <<"permissions">>) THEN FlattenSeq(q) ELSE <<>>
  BY DEF PermissionActions, ForEach, When
<1> QED BY <1>3, <1>4, NoneIsSeq DEF Acts

LEMMA HarnessActs ==
    ASSUME NEW c, IsConfig(c), NEW w
    PROVE  Acts(HarnessActions(c, w), {"apply_harness"}, On(c, <<"harness">>))
<1> DEFINE s == Kinds(c)
           q == [i \in DOMAIN s |-> ModeOf(c, w, s[i])]
<1>1. \A kind : Acts(ModeOf(c, w, kind), {"apply_harness"}, TRUE)
  <2>1. PrimaryClaude(c).kind = "apply_harness"
    BY ActIs DEF PrimaryClaude, ApplyMode
  <2>2. ASSUME NEW kind, kind \in {"claude-code", "codex", "opencode"}
        PROVE  OtherMode(c, w, kind).kind = "apply_harness"
    BY ActIs DEF OtherMode, ApplyMode
  <2> QED BY <2>1, <2>2, OneIsSeq, NoneIsSeq DEF ModeOf, When, Acts
<1>2. Acts(FlattenSeq(q), {"apply_harness"}, TRUE)
  <2>1. q = [i \in DOMAIN s |-> q[i]] /\ IsSeq(s) /\ \A i \in DOMAIN s : Acts(q[i], {"apply_harness"}, TRUE)
    BY <1>1, KindsIsSeq
  <2> HIDE DEF s, q
  <2> QED BY <2>1, EachActs
<1>3. HarnessActions(c, w) = IF HarnessOn(c) THEN FlattenSeq(q) ELSE <<>>
  BY DEF HarnessActions, ForEach, When
<1> QED BY <1>2, <1>3, NoneIsSeq DEF Acts, HarnessOn

LEMMA McpActs ==
    ASSUME NEW c, NEW w, IsWorld(w)
    PROVE  Acts(McpActions(c, w), {"register_mcp"}, On(c, <<"mcp">>))
<1> DEFINE s == EnabledIn(c, w, "mcp")
           q == [i \in DOMAIN s |-> <<RegisterMcp(c, s[i])>>]
<1>1. IsSeq(s) /\ \A i \in DOMAIN s : On(c, <<"mcp">>)
  BY EnabledAre DEF ToSet
<1>2. \A i \in DOMAIN s : Acts(q[i], {"register_mcp"}, On(c, <<"mcp">>))
  BY <1>1, OneIsSeq, ActIs DEF Acts, RegisterMcp
<1>3. Acts(FlattenSeq(q), {"register_mcp"}, On(c, <<"mcp">>))
  <2>1. q = [i \in DOMAIN s |-> q[i]]
    OBVIOUS
  <2> HIDE DEF s, q
  <2> QED BY <1>1, <1>2, <2>1, EachActs
<1>4. McpActions(c, w) = IF ~ExportOnly(c, "mcp") THEN FlattenSeq(q) ELSE <<>>
  BY DEF McpActions, ForEach, When
<1> QED BY <1>3, <1>4, NoneIsSeq DEF Acts

LEMMA CiActs ==
    ASSUME NEW c, NEW w, IsWorld(w)
    PROVE  /\ Acts(CiActions(c, w), {"install_ci"}, On(c, <<"ci">>))
           /\ ~ExportOnly(c, "ci") =>
                \A item \in ToSet(EnabledIn(c, w, "ci")) : InstallCi(c, item) \in ToSet(CiActions(c, w))
<1> DEFINE s == EnabledIn(c, w, "ci")
           q == [i \in DOMAIN s |-> <<InstallCi(c, s[i])>>]
<1>1. IsSeq(s) /\ \A i \in DOMAIN s : On(c, <<"ci">>)
  BY EnabledAre DEF ToSet
<1>2. \A i \in DOMAIN s : Acts(q[i], {"install_ci"}, On(c, <<"ci">>)) /\ InstallCi(c, s[i]) \in ToSet(q[i])
  BY <1>1, OneIsSeq, ActIs DEF Acts, InstallCi
<1>3. /\ Acts(FlattenSeq(q), {"install_ci"}, On(c, <<"ci">>))
      /\ \A a : a \in ToSet(FlattenSeq(q)) <=> \E i \in DOMAIN s : a \in ToSet(q[i])
  <2>1. q = [i \in DOMAIN s |-> q[i]]
    OBVIOUS
  <2> HIDE DEF s, q
  <2> QED BY <1>1, <1>2, <2>1, EachActs
<1>4. CiActions(c, w) = IF ~ExportOnly(c, "ci") THEN FlattenSeq(q) ELSE <<>>
  BY DEF CiActions, ForEach, When
<1>5. ASSUME NEW item \in ToSet(s) PROVE InstallCi(c, item) \in ToSet(FlattenSeq(q))
  <2>1. PICK i \in DOMAIN s : item = s[i]
    BY DEF ToSet
  <2> QED BY <1>2, <1>3, <2>1
<1> QED BY <1>3, <1>4, <1>5, NoneIsSeq DEF Acts

LEMMA BridgeActs ==
    ASSUME NEW c, IsConfig(c), NEW w
    PROVE  /\ Acts(BridgeActions(c, w), {"register_hook_bridge"}, On(c, <<"harness">>) /\ On(c, <<"agent_hooks">>))
           /\ \A b \in ToSet(BridgeActions(c, w)) :
                \E kind \in ToSet(Kinds(c)) : BridgeOn(c, w, kind) /\ b = Bridge(c, w, kind)
<1> DEFINE s == Kinds(c)
           q == [i \in DOMAIN s |-> When(BridgeOn(c, w, s[i]), <<Bridge(c, w, s[i])>>)]
<1>1. IsSeq(s)
  BY KindsIsSeq
<1>2. \A i \in DOMAIN s : Acts(q[i], {"register_hook_bridge"}, TRUE)
  BY OneIsSeq, NoneIsSeq, ActIs DEF Acts, Bridge, When
<1>3. \A i \in DOMAIN s : \A b \in ToSet(q[i]) : BridgeOn(c, w, s[i]) /\ b = Bridge(c, w, s[i])
  BY OneIsSeq, NoneIsSeq DEF When
<1>4. /\ Acts(FlattenSeq(q), {"register_hook_bridge"}, TRUE)
      /\ \A a : a \in ToSet(FlattenSeq(q)) <=> \E i \in DOMAIN s : a \in ToSet(q[i])
  <2>1. q = [i \in DOMAIN s |-> q[i]]
    OBVIOUS
  <2> HIDE DEF s, q
  <2> QED BY <1>1, <1>2, <2>1, EachActs
<1>5. BridgeActions(c, w) = IF HarnessOn(c) /\ On(c, <<"agent_hooks">>) THEN FlattenSeq(q) ELSE <<>>
  BY DEF BridgeActions, ForEach, When
<1>6. ASSUME NEW b \in ToSet(FlattenSeq(q))
      PROVE  \E kind \in ToSet(s) : BridgeOn(c, w, kind) /\ b = Bridge(c, w, kind)
  <2>1. PICK i \in DOMAIN s : b \in ToSet(q[i])
    BY <1>4
  <2> QED BY <1>3, <2>1 DEF ToSet
<1> QED BY <1>4, <1>5, <1>6, NoneIsSeq DEF Acts, HarnessOn

-----------------------------------------------------------------------------
(* An action that refers to another one, and the one it refers to.          *)
Refers(a, b) ==
    \/ a.kind = "link_skill_harness" /\ b.kind = "copy_skill" /\ Dir(b.target) = a.options["source"]
    \/ /\ a.kind = "provision_harness_approval"
       /\ b.kind = "install_harness_guard" /\ Dir(b.target) = a.options["guard_target"]
    \/ a.kind = "provision_gh_ship_alias" /\ b.kind = "provision_ship_delegator"
Referring == {"link_skill_harness", "provision_harness_approval", "provision_gh_ship_alias"}
Needs(a) ==
    a.kind \in Referring /\ (a.kind = "provision_gh_ship_alias" => a.options["canonical_ship"] = Null)
Resolved(s) == \A x \in DOMAIN s : Needs(s[x]) => \E y \in 1 .. x - 1 : Refers(s[x], s[y])

LEMMA FlattenResolves ==
    ASSUME NEW q, IsSeq(q), \A i \in DOMAIN q : IsSeq(q[i]) /\ Resolved(q[i])
    PROVE  Resolved(FlattenSeq(q))
<1> DEFINE s == FlattenSeq(q)
<1>1. InOrder(s, q)
  BY FlattenIsSeq
<1> HIDE DEF s
<1>2. ASSUME NEW x \in DOMAIN s, Needs(s[x]) PROVE \E y \in 1 .. x - 1 : Refers(s[x], s[y])
  <2>1. PICK i \in DOMAIN q : \E j \in DOMAIN q[i] :
          /\ s[x] = q[i][j]
          /\ \A k \in 1 .. j - 1 : \E y \in 1 .. x - 1 : s[y] = q[i][k]
    BY <1>1 DEF InOrder
  <2>2. PICK j \in DOMAIN q[i] :
          /\ s[x] = q[i][j]
          /\ \A k \in 1 .. j - 1 : \E y \in 1 .. x - 1 : s[y] = q[i][k]
    BY <2>1
  <2>3. PICK k \in 1 .. j - 1 : Refers(q[i][j], q[i][k])
    BY <1>2, <2>2 DEF Resolved
  <2>4. PICK y \in 1 .. x - 1 : s[y] = q[i][k]
    BY <2>2, <2>3
  <2> QED BY <2>2, <2>3, <2>4
<1> QED BY <1>2 DEF Resolved, s

LEMMA OthersResolve ==
    ASSUME NEW s, NEW K, NEW on, Acts(s, K, on), K \intersect Referring = {}
    PROVE  Resolved(s)
BY DEF Acts, Resolved, Needs, ToSet

LEMMA LinkDirsAre ==
    ASSUME NEW c, IsConfig(c), NEW w
    PROVE  IsSeq(LinkDirs(c, w))
<1> DEFINE s == Kinds(c)
           q == [i \in DOMAIN s |-> LinkDirsOf(c, w, s[i])]
<1>1. \A i \in DOMAIN s : IsSeq(q[i])
  BY OneIsSeq, NoneIsSeq DEF LinkDirsOf, When
<1>2. IsSeq(FlattenSeq(q))
  <2>1. q = [i \in DOMAIN s |-> q[i]] /\ IsSeq(s)
    BY KindsIsSeq
  <2> HIDE DEF s, q
  <2> QED BY <1>1, <2>1, EachIsSeq
<1>3. ForEach(Kinds(c), LAMBDA kind : LinkDirsOf(c, w, kind)) = FlattenSeq(q)
  BY DEF ForEach
<1> HIDE DEF q, s
<1> QED BY <1>2, <1>3, DistinctIsSeq, OneIsSeq, NoneIsSeq DEF LinkDirs

LEMMA SkillAndLinksActs ==
    ASSUME NEW c, IsConfig(c), NEW w, NEW item
    PROVE  /\ Acts(SkillAndLinks(c, w, item), {"copy_skill", "link_skill_harness"}, TRUE)
           /\ Resolved(SkillAndLinks(c, w, item))
<1> DEFINE s == LinkDirs(c, w)
           q == [i \in DOMAIN s |-> When(s[i] # SkillsTarget(c), <<LinkSkill(c, item, s[i])>>)]
           links == FlattenSeq(q)
           copy == CopySkill(c, item)
           all == <<copy>> \o links
<1>1. SkillAndLinks(c, w, item) = all
  BY DEF SkillAndLinks, ForEach
<1>2. copy.kind = "copy_skill" /\ copy.target = Append(SkillsTarget(c), item.leaf)
  BY DEF CopySkill, Act
<1>3. \A d : LET link == LinkSkill(c, item, d) IN
               link.kind = "link_skill_harness" /\ link.options["source"] = Dir(copy.target)
  BY <1>2, ActIs DEF LinkSkill, LinkSource
<1> HIDE DEF copy
<1>4. \A i \in DOMAIN s : /\ Acts(q[i], {"link_skill_harness"}, TRUE)
                          /\ \A a \in ToSet(q[i]) : a.options["source"] = Dir(copy.target)
  BY <1>3, OneIsSeq, NoneIsSeq DEF Acts, When
<1>5. /\ Acts(links, {"link_skill_harness"}, TRUE)
      /\ \A a \in ToSet(links) : a.options["source"] = Dir(copy.target)
  <2>1. q = [i \in DOMAIN s |-> q[i]] /\ IsSeq(s)
    BY LinkDirsAre
  <2> HIDE DEF s, q
  <2>2. \A i \in DOMAIN s : Acts(q[i], {"link_skill_harness"}, TRUE)
    BY <1>4
  <2>3. /\ Acts(FlattenSeq(q), {"link_skill_harness"}, TRUE)
        /\ \A a : a \in ToSet(FlattenSeq(q)) <=> \E i \in DOMAIN s : a \in ToSet(q[i])
    BY <2>1, <2>2, EachActs
  <2> QED BY <1>4, <2>3
<1> HIDE DEF links
<1>6. IsSeq(all) /\ ToSet(all) = {copy} \union ToSet(links)
  BY <1>5, OneIsSeq, ConcatIsSeq DEF Acts
<1>7. Len(links) \in Nat /\ all[1] = copy /\ DOMAIN all = 1 .. Len(links) + 1
  BY <1>5, ConcatIsSeq, OneIsSeq DEF Acts, IsSeq
<1>8. Acts(all, {"copy_skill", "link_skill_harness"}, TRUE)
  BY <1>2, <1>5, <1>6 DEF Acts
<1>9. ASSUME NEW x \in DOMAIN all, Needs(all[x]) PROVE \E y \in 1 .. x - 1 : Refers(all[x], all[y])
  <2>1. all[x] \in ToSet(all)
    BY DEF ToSet
  <2>2. x # 1 /\ all[x] \in ToSet(links)
    BY <1>2, <1>6, <1>7, <1>9, <2>1 DEF Needs, Referring
  <2>3. Refers(all[x], copy)
    BY <1>2, <1>5, <2>2 DEF Acts, Refers
  <2>4. 1 \in 1 .. x - 1
    BY <1>7, <2>2
  <2> QED BY <1>7, <2>3, <2>4
<1> QED BY <1>1, <1>8, <1>9 DEF Resolved

LEMMA SkillActs ==
    ASSUME NEW c, IsConfig(c), NEW w, IsWorld(w)
    PROVE  /\ Acts(SkillActions(c, w), {"copy_skill", "link_skill_harness"}, On(c, <<"skills">>))
           /\ Resolved(SkillActions(c, w))
<1> DEFINE s == EnabledSkills(c, w)
           q == [i \in DOMAIN s |-> SkillAndLinks(c, w, s[i])]
           K == {"copy_skill", "link_skill_harness"}
<1>1. IsSeq(s) /\ \A i \in DOMAIN s : On(c, <<"skills">>)
  BY SkillsAre DEF ToSet
<1>2. \A i \in DOMAIN s : Acts(q[i], K, On(c, <<"skills">>)) /\ Resolved(q[i])
  BY <1>1, SkillAndLinksActs DEF Acts
<1>3. SkillActions(c, w) = FlattenSeq(q)
  BY DEF SkillActions, ForEach
<1>4. q = [i \in DOMAIN s |-> q[i]] /\ IsSeq(q) /\ DOMAIN q = DOMAIN s
  BY <1>1, MappedIsSeq
<1> HIDE DEF s, q, K
<1>5. Acts(FlattenSeq(q), K, On(c, <<"skills">>))
  BY <1>1, <1>2, <1>4, EachActs
<1>6. Resolved(FlattenSeq(q))
  <2>1. \A i \in DOMAIN q : IsSeq(q[i]) /\ Resolved(q[i])
    BY <1>2, <1>4 DEF Acts
  <2> QED BY <1>4, <2>1, FlattenResolves
<1> QED BY <1>3, <1>5, <1>6 DEF K

LEMMA OwnHooksDirsAre ==
    ASSUME NEW c, IsConfig(c), NEW w
    PROVE  /\ IsSeq(OwnHooksDirs(c, w))
           /\ ToSet(OwnHooksDirs(c, w)) = {HooksDirs(w)[k] : k \in ToSet(Kinds(c)) \intersect DOMAIN HooksDirs(w)}
<1> DEFINE s == Kinds(c)
           f == HooksDirs(w)
           q == [i \in DOMAIN s |-> IF s[i] \in DOMAIN f THEN <<f[s[i]]>> ELSE <<>>]
<1>1. OwnHooksDirs(c, w) = FlattenSeq(q)
  BY DEF OwnHooksDirs, ForEach
<1>2. q = [i \in DOMAIN s |-> q[i]] /\ IsSeq(s)
  BY KindsIsSeq
<1> HIDE DEF f
<1>3. \A i \in DOMAIN s : IsSeq(q[i]) /\ ToSet(q[i]) = IF s[i] \in DOMAIN f THEN {f[s[i]]} ELSE {}
  BY OneIsSeq, NoneIsSeq
<1> HIDE DEF q, s
<1>4. IsSeq(FlattenSeq(q)) /\ \A a : a \in ToSet(FlattenSeq(q)) <=> \E i \in DOMAIN s : a \in ToSet(q[i])
  BY <1>2, <1>3, EachIsSeq
<1>5. \A a : a \in ToSet(FlattenSeq(q)) <=> \E k \in ToSet(s) \intersect DOMAIN f : a = f[k]
  <2>1. ASSUME NEW a \in ToSet(FlattenSeq(q)) PROVE \E k \in ToSet(s) \intersect DOMAIN f : a = f[k]
    <3>1. PICK i \in DOMAIN s : a \in ToSet(q[i])
      BY <1>4
    <3>2. s[i] \in ToSet(s) \intersect DOMAIN f /\ a = f[s[i]]
      BY <1>3, <3>1, Elements
    <3> QED BY <3>2
  <2>2. ASSUME NEW k \in ToSet(s) \intersect DOMAIN f PROVE f[k] \in ToSet(FlattenSeq(q))
    <3>1. PICK i \in DOMAIN s : s[i] = k
      BY Elements
    <3>2. f[k] \in ToSet(q[i])
      BY <1>3, <3>1
    <3> QED BY <1>4, <3>2
  <2> QED BY <2>1, <2>2
<1> QED BY <1>1, <1>4, <1>5 DEF s, f

LEMMA HookTargetsAre ==
    ASSUME NEW c, IsConfig(c), NEW w
    PROVE  /\ IsSeq(HookTargets(c, w))
           /\ Pinned(c) => ToSet(HookTargets(c, w)) = {HookTargets(c, w)[1]}
           /\ ~Pinned(c) => \A k \in ToSet(Kinds(c)) \intersect DOMAIN HooksDirs(w) :
                              HooksDirs(w)[k] \in ToSet(HookTargets(c, w))
<1>1. IsSeq(Distinct(OwnHooksDirs(c, w))) /\ ToSet(Distinct(OwnHooksDirs(c, w))) = ToSet(OwnHooksDirs(c, w))
  BY OwnHooksDirsAre, DistinctIsSeq
<1>2. CASE Pinned(c)
  <2>1. PICK d : HookTargets(c, w) = <<d>>
    BY <1>2 DEF HookTargets, Pinned
  <2> QED BY <1>2, <2>1, OneIsSeq
<1>3. CASE ~Pinned(c) /\ OwnHooksDirs(c, w) # <<>>
  <2>1. HookTargets(c, w) = Distinct(OwnHooksDirs(c, w))
    BY <1>3 DEF HookTargets, Pinned
  <2> QED BY <1>1, <1>3, <2>1, OwnHooksDirsAre
<1>4. CASE ~Pinned(c) /\ OwnHooksDirs(c, w) = <<>>
  <2>1. HookTargets(c, w) = <<ResolveTarget(c, "agent_hooks")>>
    BY <1>4 DEF HookTargets, Pinned
  <2>2. ToSet(Kinds(c)) \intersect DOMAIN HooksDirs(w) = {}
    BY <1>4, OwnHooksDirsAre, NoneIsSeq
  <2> QED BY <1>4, <2>1, <2>2, OneIsSeq
<1> QED BY <1>2, <1>3, <1>4

Installs(c, w, item, a) ==
    \E d \in ToSet(HookTargets(c, w)), x \in ToSet(item.descriptors) : a = InstallHook(c, item, d, x)
LEMMA HooksOfActs ==
    ASSUME NEW c, IsConfig(c), NEW w, NEW item, IsSeq(item.descriptors)
    PROVE  /\ Acts(HooksOf(c, w, item), {"install_agent_hook"}, TRUE)
           /\ \A a : a \in ToSet(HooksOf(c, w, item)) <=> Installs(c, w, item, a)
<1> DEFINE s == HookTargets(c, w)
           D == item.descriptors
           q == [i \in DOMAIN s |-> HookInto(c, item, s[i])]
<1>1. HooksOf(c, w, item) = FlattenSeq(q)
  BY DEF HooksOf, ForEach
<1>2. \A d, x : InstallHook(c, item, d, x).kind = "install_agent_hook"
  BY DEF InstallHook, Act
<1>3. ASSUME NEW d
      PROVE  /\ Acts(HookInto(c, item, d), {"install_agent_hook"}, TRUE)
             /\ ToSet(HookInto(c, item, d)) = {InstallHook(c, item, d, x) : x \in ToSet(D)}
  <2> DEFINE h == [i \in DOMAIN D |-> InstallHook(c, item, d, D[i])]
  <2>1. HookInto(c, item, d) = h
    BY DEF HookInto
  <2>2. IsSeq(h) /\ ToSet(h) = {h[i] : i \in DOMAIN D}
    BY MappedIsSeq
  <2>3. {h[i] : i \in DOMAIN D} = {InstallHook(c, item, d, x) : x \in ToSet(D)}
    BY DEF ToSet
  <2> HIDE DEF h
  <2>4. ToSet(h) = {InstallHook(c, item, d, x) : x \in ToSet(D)}
    BY <2>2, <2>3
  <2>5. Acts(h, {"install_agent_hook"}, TRUE)
    BY <1>2, <2>2, <2>4 DEF Acts
  <2> QED BY <2>1, <2>4, <2>5
<1>4. \A i \in DOMAIN s : /\ Acts(q[i], {"install_agent_hook"}, TRUE)
                          /\ ToSet(q[i]) = {InstallHook(c, item, s[i], x) : x \in ToSet(D)}
  BY <1>3
<1>5. q = [i \in DOMAIN s |-> q[i]] /\ IsSeq(s)
  BY HookTargetsAre
<1> HIDE DEF s, q, D
<1>6. /\ Acts(FlattenSeq(q), {"install_agent_hook"}, TRUE)
      /\ \A a : a \in ToSet(FlattenSeq(q)) <=> \E i \in DOMAIN s : a \in ToSet(q[i])
  <2>1. \A i \in DOMAIN s : Acts(q[i], {"install_agent_hook"}, TRUE)
    BY <1>4
  <2> QED BY <1>5, <2>1, EachActs
<1>7. \A a : a \in ToSet(FlattenSeq(q)) <=> \E d \in ToSet(s), x \in ToSet(D) : a = InstallHook(c, item, d, x)
  <2>1. ASSUME NEW a \in ToSet(FlattenSeq(q))
        PROVE  \E d \in ToSet(s), x \in ToSet(D) : a = InstallHook(c, item, d, x)
    <3>1. PICK i \in DOMAIN s : a \in ToSet(q[i])
      BY <1>6
    <3>2. s[i] \in ToSet(s)
      BY Elements
    <3>3. PICK x \in ToSet(D) : a = InstallHook(c, item, s[i], x)
      BY <1>4, <3>1
    <3> QED BY <3>2, <3>3
  <2>2. ASSUME NEW d \in ToSet(s), NEW x \in ToSet(D) PROVE InstallHook(c, item, d, x) \in ToSet(FlattenSeq(q))
    <3>1. PICK i \in DOMAIN s : s[i] = d
      BY Elements
    <3>2. InstallHook(c, item, d, x) \in ToSet(q[i])
      BY <1>4, <3>1
    <3> QED BY <1>6, <3>2
  <2> QED BY <2>1, <2>2
<1> QED BY <1>1, <1>6, <1>7 DEF s, D, Installs

LEMMA HookActs ==
    ASSUME NEW c, IsConfig(c), NEW w, IsWorld(w)
    PROVE  /\ Acts(HookActions(c, w), {"install_agent_hook"}, On(c, <<"agent_hooks">>))
           /\ \A a : a \in ToSet(HookActions(c, w)) <=>
                \E item \in ToSet(EnabledHooks(c, w)) : Installs(c, w, item, a)
<1> DEFINE s == EnabledHooks(c, w)
           q == [i \in DOMAIN s |-> HooksOf(c, w, s[i])]
           on == On(c, <<"agent_hooks">>)
           K == {"install_agent_hook"}
<1>1. IsSeq(s) /\ \A i \in DOMAIN s : on /\ IsSeq(s[i].descriptors)
  BY HooksAre DEF ToSet
<1>2. HookActions(c, w) = FlattenSeq(q)
  BY DEF HookActions, ForEach
<1>3. q = [i \in DOMAIN s |-> q[i]] /\ \A i \in DOMAIN s : q[i] = HooksOf(c, w, s[i])
  OBVIOUS
<1>4. \A item : IsSeq(item.descriptors) =>
                   /\ Acts(HooksOf(c, w, item), K, TRUE)
                   /\ \A a : a \in ToSet(HooksOf(c, w, item)) <=> Installs(c, w, item, a)
  BY HooksOfActs
<1> HIDE DEF s, on, q, K
<1>5. \A i \in DOMAIN s : Acts(q[i], K, on) /\ \A a : a \in ToSet(q[i]) <=> Installs(c, w, s[i], a)
  BY <1>1, <1>3, <1>4 DEF Acts
<1>6. /\ Acts(FlattenSeq(q), K, on)
      /\ \A a : a \in ToSet(FlattenSeq(q)) <=> \E i \in DOMAIN s : a \in ToSet(q[i])
  BY <1>1, <1>3, <1>5, EachActs
<1>7. \A a : a \in ToSet(FlattenSeq(q)) <=> \E item \in ToSet(s) : Installs(c, w, item, a)
  BY <1>5, <1>6, Elements
<1> QED BY <1>2, <1>6, <1>7 DEF s, on, K

LEMMA GuardsOfActs ==
    ASSUME NEW c, NEW kind
    PROVE  /\ Acts(GuardsOf(c, kind), {"install_harness_guard", "provision_harness_approval",
                                       "provision_instruction_policy"}, TRUE)
           /\ Resolved(GuardsOf(c, kind))
<1>1. CASE kind = "omp"
  <2> DEFINE g == Guard(kind)
             a == Approval(c, kind)
             s == <<g, a>>
  <2>1. /\ g.kind = "install_harness_guard" /\ g.target = GuardTarget
        /\ a.kind = "provision_harness_approval" /\ a.options["guard_target"] = Dir(GuardTarget)
    BY DEF Guard, Approval, Act
  <2> HIDE DEF g, a
  <2>2. GuardsOf(c, kind) = s
    BY <1>1 DEF GuardsOf, g, a
  <2>3. IsSeq(s) /\ ToSet(s) = {g, a} /\ DOMAIN s = {1, 2} /\ s[1] = g /\ s[2] = a
    BY PairIsSeq
  <2> HIDE DEF s
  <2>5. Refers(a, g)
    BY <2>1 DEF Refers
  <2>6. Resolved(s)
    BY <2>1, <2>3, <2>5 DEF Resolved, Needs, Referring
  <2> QED BY <2>1, <2>2, <2>3, <2>6 DEF Acts
<1>2. CASE kind # "omp"
  <2> DEFINE a == Act("provision_instruction_policy", kind, Instructions(kind), NoOptions)
  <2>1. a.kind = "provision_instruction_policy"
    BY ActIs
  <2> HIDE DEF a
  <2>2. GuardsOf(c, kind) \in {<<a>>, <<>>}
    BY <1>2 DEF GuardsOf, a
  <2>3. Acts(GuardsOf(c, kind), {"provision_instruction_policy"}, TRUE)
    BY <2>1, <2>2, OneIsSeq, NoneIsSeq DEF Acts
  <2>4. {"provision_instruction_policy"} \intersect Referring = {}
    BY DEF Referring
  <2>5. Resolved(GuardsOf(c, kind))
    BY <2>3, <2>4, OthersResolve
  <2> QED BY <2>3, <2>5 DEF Acts
<1> QED BY <1>1, <1>2

LEMMA GuardActs ==
    ASSUME NEW c, IsConfig(c)
    PROVE  /\ Acts(GuardActions(c), {"install_harness_guard", "provision_harness_approval",
                                     "provision_instruction_policy"}, On(c, <<"permissions">>))
           /\ Resolved(GuardActions(c))
<1> DEFINE s == PermissionKinds(c)
           q == [i \in DOMAIN s |-> GuardsOf(c, s[i])]
           K == {"install_harness_guard", "provision_harness_approval", "provision_instruction_policy"}
<1>1. IsSeq(s)
  BY PermissionKindsAre
<1>2. \A i \in DOMAIN s : Acts(q[i], K, TRUE) /\ Resolved(q[i])
  BY GuardsOfActs
<1>3. GuardActions(c) = IF On(c, <<"permissions">>) THEN FlattenSeq(q) ELSE <<>>
  BY DEF GuardActions, ForEach, When
<1>4. q = [i \in DOMAIN s |-> q[i]] /\ IsSeq(q) /\ DOMAIN q = DOMAIN s
  BY <1>1, MappedIsSeq
<1> HIDE DEF s, q, K
<1>5. Acts(FlattenSeq(q), K, TRUE)
  BY <1>1, <1>2, <1>4, EachActs
<1>6. Resolved(FlattenSeq(q))
  <2>1. \A i \in DOMAIN q : IsSeq(q[i]) /\ Resolved(q[i])
    BY <1>2, <1>4 DEF Acts
  <2> QED BY <1>4, <2>1, FlattenResolves
<1>7. Resolved(<<>>)
  BY DEF Resolved
<1> QED BY <1>3, <1>5, <1>6, <1>7, NoneIsSeq DEF K, Acts

LEMMA ShipActs ==
    ASSUME NEW c, NEW w, NEW before
    PROVE  /\ Acts(ShipActions(c, w, before), {"provision_ship_delegator", "provision_gh_ship_alias"}, TRUE)
           /\ \A a \in ToSet(ShipActions(c, w, before)) :
                a.kind = "provision_ship_delegator" => On(c, <<"ship_delegator">>)
           /\ Resolved(ShipActions(c, w, before))
<1> DEFINE on == On(c, <<"ship_delegator">>)
           d == Act("provision_ship_delegator", "delegator", <<".">>, [canonical_ship |-> Dir(ShipScript)])
           a == Act("provision_gh_ship_alias", "alias", Home(<<".config", "gh">>),
                    [canonical_ship |-> IF on THEN Null ELSE Dir(ShipScript)])
           s == ShipActions(c, w, before)
<1>1. d.kind = "provision_ship_delegator"
  BY ActIs
<1>2. a.kind = "provision_gh_ship_alias" /\ (a.options["canonical_ship"] = Null => on)
  <2>1. a.kind = "provision_gh_ship_alias" /\ a.options["canonical_ship"] = IF on THEN Null ELSE Dir(ShipScript)
    BY ActIs
  <2>2. Dir(ShipScript) # Null
    BY DEF Dir, Null
  <2> QED BY <2>1, <2>2
<1>3. s = <<>> \/ (on /\ s = <<d>> \o <<a>>) \/ (~on /\ s = <<>> \o <<a>>)
  BY Zenon DEF ShipActions, When
<1> HIDE DEF d, a, on, s
<1>4. CASE s = <<>>
  BY <1>4, NoneIsSeq DEF Acts, Resolved, s
<1>5. CASE on /\ s = <<d>> \o <<a>>
  <2>1. s = <<d, a>>
    BY <1>5, PairIsSeq, Zenon
  <2>2. IsSeq(s) /\ ToSet(s) = {d, a} /\ DOMAIN s = {1, 2} /\ s[1] = d /\ s[2] = a
    BY <2>1, PairIsSeq, Zenon
  <2>4. Refers(a, d)
    BY <1>1, <1>2 DEF Refers
  <2>5. Resolved(s)
    BY <1>1, <2>2, <2>4 DEF Resolved, Needs, Referring
  <2> QED BY <1>1, <1>2, <1>5, <2>2, <2>5 DEF Acts, s, on
<1>6. CASE ~on /\ s = <<>> \o <<a>>
  <2>1. s = <<a>>
    BY <1>6
  <2>2. IsSeq(s) /\ ToSet(s) = {a} /\ DOMAIN s = {1} /\ s[1] = a
    BY <2>1, OneIsSeq
  <2>3. ~Needs(a)
    BY <1>2, <1>6 DEF Needs
  <2>4. Resolved(s)
    BY <2>2, <2>3 DEF Resolved
  <2> QED BY <1>2, <2>2, <2>4 DEF Acts, s
<1> QED BY <1>3, <1>4, <1>5, <1>6

LinterKinds ==
    {"provision_linter_config", "provision_linter_bundle", "format_policy_blocked", "lint_policy_blocked"}
LEMMA LinterItemActs ==
    ASSUME NEW c, IsConfig(c)
    PROVE  /\ Acts(LinterItemActions(c), LinterKinds, On(c, <<"linters">>))
           /\ \A a \in ToSet(LinterItemActions(c)) : a.options["rig_owned"] = Bool(FALSE)
<1> DEFINE s == EnabledLinters(c)
           q == [i \in DOMAIN s |-> <<LinterItem(c, s[i])>>]
           on == On(c, <<"linters">>)
<1>1. IsSeq(s) /\ \A i \in DOMAIN s : on
  BY LintersAre DEF ToSet
<1>2. \A e : LinterItem(c, e).kind = "provision_linter_config" /\ LinterItem(c, e).options["rig_owned"] = Bool(FALSE)
  <2> TAKE e
  <2> DEFINE options == [source |-> Or(Knob(c, e, "source"), Null), rig_owned |-> Bool(FALSE)]
             path == Expand(Knob(c, e, "path")[2])
  <2>1. LinterItem(c, e) = Act("provision_linter_config", Last(e), path, options)
    BY DEF LinterItem, LinterFile
  <2>2. options["rig_owned"] = Bool(FALSE)
    OBVIOUS
  <2> HIDE DEF options, path
  <2>3. LinterItem(c, e).kind = "provision_linter_config" /\ LinterItem(c, e).options = options
    BY <2>1 DEF Act
  <2> QED BY <2>2, <2>3
<1>3. \A i \in DOMAIN s : Acts(q[i], LinterKinds, on) /\ \A a \in ToSet(q[i]) : a.options["rig_owned"] = Bool(FALSE)
  <2> SUFFICES ASSUME NEW i \in DOMAIN s
               PROVE  Acts(q[i], LinterKinds, on) /\ \A a \in ToSet(q[i]) : a.options["rig_owned"] = Bool(FALSE)
    OBVIOUS
  <2> DEFINE a == LinterItem(c, s[i])
  <2>1. on /\ a.kind = "provision_linter_config" /\ a.options["rig_owned"] = Bool(FALSE) /\ q[i] = <<a>>
    BY <1>1, <1>2
  <2> HIDE DEF a, q, on, s
  <2> QED BY <2>1, OneIsSeq DEF Acts, LinterKinds
<1>4. LinterItemActions(c) = FlattenSeq(q) /\ q = [i \in DOMAIN s |-> q[i]]
  BY DEF LinterItemActions, ForEach
<1> HIDE DEF s, q, on
<1>5. /\ Acts(FlattenSeq(q), LinterKinds, on)
      /\ \A a : a \in ToSet(FlattenSeq(q)) <=> \E i \in DOMAIN s : a \in ToSet(q[i])
  <2>1. \A i \in DOMAIN s : Acts(q[i], LinterKinds, on)
    BY <1>3
  <2> QED BY <1>1, <1>4, <2>1, EachActs
<1> QED BY <1>3, <1>4, <1>5 DEF on

LEMMA FormatActs ==
    ASSUME NEW c, NEW w
    PROVE  /\ Acts(FormatActions(c, w), LinterKinds, TRUE)
           /\ \A a \in ToSet(FormatActions(c, w)) : a.item # "rig-oxlint-policy"
<1> DEFINE a == LinterFile("rig-oxfmt-baseline", ".oxfmtrc.jsonc", Dir(OxfmtCarrier), TRUE)
           b == Act("format_policy_blocked", "formatter", <<".">>, NoOptions)
<1>1. a.kind \in LinterKinds /\ a.item # "rig-oxlint-policy"
  BY ActIs DEF LinterFile, LinterKinds
<1>2. b.kind \in LinterKinds /\ b.item # "rig-oxlint-policy"
  BY ActIs DEF LinterKinds
<1>3. FormatActions(c, w) \in {<<a>>, <<b>>, <<>>}
  BY Zenon DEF FormatActions, When
<1> HIDE DEF a, b
<1> QED BY <1>1, <1>2, <1>3, OneIsSeq, NoneIsSeq DEF Acts

(* The rules of the anti-slop plugin come with the plugin.                  *)
LEMMA PolicyActs ==
    ASSUME NEW c, NEW w
    PROVE  /\ Acts(PolicyActions(c, w), LinterKinds, TRUE)
           /\ \A a \in ToSet(PolicyActions(c, w)) :
                a.kind = "provision_linter_config" /\ AntiSlopRequired(c) =>
                  \E b \in ToSet(PolicyActions(c, w)) : b.kind = "provision_linter_bundle" /\ b.target = AntiSlopTarget
<1> DEFINE a == LinterFile("rig-oxlint-policy", "oxlint.config.ts", Null, TRUE)
           b == Act("provision_linter_bundle", "anti-slop", AntiSlopTarget, [source |-> Dir(AntiSlopCarrier)])
           n == Act("lint_policy_blocked", "rules", <<".">>, NoOptions)
           s == PolicyActions(c, w)
<1>1. a.kind \in LinterKinds
  BY ActIs DEF LinterFile, LinterKinds
<1>2. b.kind = "provision_linter_bundle" /\ b.target = AntiSlopTarget /\ b.kind \in LinterKinds
  BY ActIs DEF LinterKinds
<1>3. n.kind = "lint_policy_blocked" /\ n.kind \in LinterKinds
  BY ActIs DEF LinterKinds
<1>4. s = <<n>> \/ (AntiSlopRequired(c) /\ s = <<a>> \o <<b>>) \/ (~AntiSlopRequired(c) /\ s = <<a>> \o <<>>)
  BY Zenon DEF PolicyActions, When
<1> HIDE DEF a, b, n, s
<1>5. \/ IsSeq(s) /\ ToSet(s) = {n}
      \/ AntiSlopRequired(c) /\ IsSeq(s) /\ ToSet(s) = {a, b}
      \/ ~AntiSlopRequired(c) /\ IsSeq(s) /\ ToSet(s) = {a}
  <2>1. CASE s = <<n>>
    BY <2>1, OneIsSeq
  <2>2. CASE AntiSlopRequired(c) /\ s = <<a>> \o <<b>>
    <3>1. s = <<a, b>>
      BY <2>2, PairIsSeq, Zenon
    <3>2. IsSeq(s) /\ ToSet(s) = {a, b}
      BY <3>1, PairIsSeq, Zenon
    <3> QED BY <2>2, <3>2
  <2>3. CASE ~AntiSlopRequired(c) /\ s = <<a>> \o <<>>
    BY <2>3, OneIsSeq, NoneIsSeq, ConcatIsSeq
  <2> QED BY <1>4, <2>1, <2>2, <2>3
<1> QED BY <1>1, <1>2, <1>3, <1>5 DEF Acts, s

LEMMA LinterActs ==
    ASSUME NEW c, IsConfig(c), NEW w
    PROVE  /\ Acts(LinterActions(c, w), LinterKinds, On(c, <<"linters">>))
           /\ \A a \in ToSet(LinterActions(c, w)) :
                /\ a.kind = "provision_linter_config" /\ a.item = "rig-oxlint-policy"
                /\ a.options["rig_owned"] = Bool(TRUE) /\ AntiSlopRequired(c)
                => \E b \in ToSet(LinterActions(c, w)) : b.kind = "provision_linter_bundle" /\ b.target = AntiSlopTarget
<1> DEFINE s == LinterItemActions(c)
           f == FormatActions(c, w)
           p == PolicyActions(c, w)
           on == On(c, <<"linters">>)
           rest == IF HasRulePolicy(c) THEN f \o p ELSE <<>>
<1>1. LinterActions(c, w) = s \o rest
  BY DEF LinterActions, When
<1>2. HasRulePolicy(c) => on
  BY DEF HasRulePolicy
<1>3. Bool(TRUE) # Bool(FALSE)
  BY DEF Bool
<1>4. Acts(s, LinterKinds, on) /\ \A a \in ToSet(s) : a.options["rig_owned"] = Bool(FALSE)
  BY LinterItemActs
<1>5. Acts(f, LinterKinds, TRUE) /\ \A a \in ToSet(f) : a.item # "rig-oxlint-policy"
  BY FormatActs
<1>6. Acts(p, LinterKinds, TRUE) /\ \A a \in ToSet(p) : a.kind = "provision_linter_config" /\ AntiSlopRequired(c) =>
        \E b \in ToSet(p) : b.kind = "provision_linter_bundle" /\ b.target = AntiSlopTarget
  BY PolicyActs
<1> HIDE DEF s, f, p, on
<1>7. IsSeq(f \o p) /\ ToSet(f \o p) = ToSet(f) \union ToSet(p)
  BY <1>5, <1>6, ConcatIsSeq DEF Acts
<1>8. IsSeq(rest) /\ ToSet(rest) = IF HasRulePolicy(c) THEN ToSet(f) \union ToSet(p) ELSE {}
  BY <1>7, NoneIsSeq
<1> HIDE DEF rest
<1>9. IsSeq(s \o rest) /\ ToSet(s \o rest) = ToSet(s) \union ToSet(rest)
  BY <1>4, <1>8, ConcatIsSeq DEF Acts
<1>10. Acts(s \o rest, LinterKinds, on)
  BY <1>2, <1>4, <1>5, <1>6, <1>8, <1>9 DEF Acts
<1>11. ASSUME NEW a \in ToSet(s \o rest), a.kind = "provision_linter_config", a.item = "rig-oxlint-policy",
              a.options["rig_owned"] = Bool(TRUE), AntiSlopRequired(c)
       PROVE  \E b \in ToSet(s \o rest) : b.kind = "provision_linter_bundle" /\ b.target = AntiSlopTarget
  <2>1. HasRulePolicy(c) /\ a \in ToSet(p)
    BY <1>3, <1>4, <1>5, <1>8, <1>9, <1>11
  <2>2. PICK b \in ToSet(p) : b.kind = "provision_linter_bundle" /\ b.target = AntiSlopTarget
    BY <1>6, <1>11, <2>1
  <2> QED BY <1>8, <1>9, <2>1, <2>2
<1> QED BY <1>1, <1>10, <1>11 DEF on

LEMMA ToolFilesActs ==
    ASSUME NEW c, NEW name
    PROVE  Acts(ToolFiles(c, name), {"provision_project_tool"}, TRUE)
<1> DEFINE s == ToolEntries(c, name)
           q == [i \in DOMAIN s |-> <<ProjectTool(c, name, s[i])>>]
<1>1. IsSeq(s)
  <2>1. \A b, x : IsSeq(IF b THEN <<x>> ELSE <<>>)
    BY OneIsSeq, NoneIsSeq
  <2> QED BY <2>1, OneIsSeq, ConcatIsSeq DEF ToolEntries, When
<1>2. \A i \in DOMAIN s : Acts(q[i], {"provision_project_tool"}, TRUE)
  BY OneIsSeq, ActIs DEF Acts, ProjectTool
<1>3. Acts(FlattenSeq(q), {"provision_project_tool"}, TRUE)
  <2>1. q = [i \in DOMAIN s |-> q[i]]
    OBVIOUS
  <2> HIDE DEF s, q
  <2> QED BY <1>1, <1>2, <2>1, EachActs
<1>4. ToolFiles(c, name) = IF ToolOn(c, name) THEN FlattenSeq(q) ELSE <<>>
  BY DEF ToolFiles, ForEach, When
<1> QED BY <1>3, <1>4, NoneIsSeq DEF Acts

LEMMA ProjectToolActs ==
    ASSUME NEW c
    PROVE  Acts(ProjectToolActions(c), {"provision_project_tool"}, On(c, <<"project_tools">>))
<1> DEFINE s == <<"haft", "serena", "sverklo">>
           q == [i \in DOMAIN s |-> ToolFiles(c, s[i])]
           K == {"provision_project_tool"}
<1>1. IsSeq(s)
  <2>1. s \in Seq({"haft", "serena", "sverklo"})
    OBVIOUS
  <2> QED BY <2>1, SeqIsSeq
<1>2. \A i \in DOMAIN s : Acts(q[i], K, TRUE)
  BY ToolFilesActs
<1>3. Acts(FlattenSeq(q), K, TRUE)
  <2>1. q = [i \in DOMAIN s |-> q[i]]
    OBVIOUS
  <2> HIDE DEF s, q, K
  <2> QED BY <1>1, <1>2, <2>1, EachActs
<1>4. \/ ProjectToolActions(c) = <<>>
      \/ On(c, <<"project_tools">>) /\ ProjectToolActions(c) = FlattenSeq(q)
  BY DEF ProjectToolActions, ForEach, When
<1> QED BY <1>3, <1>4, NoneIsSeq DEF Acts

LEMMA GitHubActs ==
    ASSUME NEW c, NEW w
    PROVE  /\ Acts(GitHubActions(c, w), {"provision_github"}, TRUE)
           /\ \A a \in ToSet(GitHubActions(c, w)) :
                On(c, <<"github", a.item>>) /\ a = GitHub(c, w, a.item)
<1> DEFINE s == <<"ruleset", "merge", "actions", "ghas", "browser">>
           q == [i \in DOMAIN s |-> When(On(c, <<"github", s[i]>>), <<GitHub(c, w, s[i])>>)]
           K == {"provision_github"}
<1>1. IsSeq(s)
  <2>1. s \in Seq({"ruleset", "merge", "actions", "ghas", "browser"})
    OBVIOUS
  <2> QED BY <2>1, SeqIsSeq
<1>2. \A name : GitHub(c, w, name).kind = "provision_github" /\ GitHub(c, w, name).item = name
  BY ActIs DEF GitHub
<1> HIDE DEF s
<1>3. \A i \in DOMAIN s : /\ Acts(q[i], K, TRUE)
                          /\ \A a \in ToSet(q[i]) : On(c, <<"github", a.item>>) /\ a = GitHub(c, w, a.item)
  BY <1>2, OneIsSeq, NoneIsSeq DEF Acts, When
<1>4. GitHubActions(c, w) = FlattenSeq(q) /\ q = [i \in DOMAIN s |-> q[i]]
  BY DEF GitHubActions, ForEach, s
<1> HIDE DEF q, K
<1>5. Acts(FlattenSeq(q), K, TRUE) /\ \A a : a \in ToSet(FlattenSeq(q)) <=> \E i \in DOMAIN s : a \in ToSet(q[i])
  <2>1. \A i \in DOMAIN s : Acts(q[i], K, TRUE)
    BY <1>3
  <2> QED BY <1>1, <1>4, <2>1, EachActs
<1> QED BY <1>3, <1>4, <1>5 DEF K

-----------------------------------------------------------------------------
(* The whole plan.                                                          *)
LEMMA Parts ==
    ASSUME NEW q, IsSeq(q), \A s \in ToSet(q) : IsSeq(s) /\ Resolved(s)
    PROVE  /\ IsSeq(FlattenSeq(q)) /\ Resolved(FlattenSeq(q))
           /\ \A a : a \in ToSet(FlattenSeq(q)) <=> \E s \in ToSet(q) : a \in ToSet(s)
<1>1. \A i \in DOMAIN q : IsSeq(q[i]) /\ Resolved(q[i])
  BY DEF ToSet
<1>2. IsSeq(FlattenSeq(q)) /\ ToSet(FlattenSeq(q)) = UNION {ToSet(q[i]) : i \in DOMAIN q}
  BY <1>1, FlattenIsSeq
<1>3. Resolved(FlattenSeq(q))
  BY <1>1, FlattenResolves
<1>4. ASSUME NEW a \in ToSet(FlattenSeq(q)) PROVE \E s \in ToSet(q) : a \in ToSet(s)
  <2>1. PICK i \in DOMAIN q : a \in ToSet(q[i])
    BY <1>2
  <2> QED BY <2>1, Elements
<1>5. ASSUME NEW s \in ToSet(q), NEW a \in ToSet(s) PROVE a \in ToSet(FlattenSeq(q))
  <2>1. PICK i \in DOMAIN q : s = q[i]
    BY Elements
  <2> QED BY <1>2, <2>1
<1> QED BY <1>2, <1>3, <1>4, <1>5

LEMMA FiveAre ==
    ASSUME NEW x1, NEW x2, NEW x3, NEW x4, NEW x5
    PROVE  LET q == <<x1, x2, x3, x4, x5>> IN IsSeq(q) /\ ToSet(q) = {x1, x2, x3, x4, x5}
<1> DEFINE q == <<x1, x2, x3, x4, x5>>
<1>1. q \in Seq({x1, x2, x3, x4, x5}) /\ DOMAIN q = 1 .. 5
  OBVIOUS
<1>2. q[1] = x1 /\ q[2] = x2 /\ q[3] = x3 /\ q[4] = x4 /\ q[5] = x5
  OBVIOUS
<1> HIDE DEF q
<1>3. {x1, x2, x3, x4, x5} \subseteq ToSet(q)
  <2>1. \A i \in 1 .. 5 : q[i] \in ToSet(q)
    BY <1>1, Elements
  <2> QED BY <1>2, <2>1
<1>4. IsSeq(q) /\ ToSet(q) \subseteq {x1, x2, x3, x4, x5}
  BY <1>1, SeqIsSeq
<1> QED BY <1>3, <1>4 DEF q

LEMMA WiringIs ==
    ASSUME NEW c, IsConfig(c), NEW w, IsWorld(w)
    PROVE  /\ IsSeq(Wiring(c, w)) /\ Resolved(Wiring(c, w))
           /\ ToSet(Wiring(c, w)) =
                ToSet(SkillActions(c, w)) \union ToSet(HookActions(c, w)) \union ToSet(DispatcherActions(c, w))
                  \union ToSet(CiActions(c, w)) \union ToSet(McpActions(c, w))
<1> DEFINE x1 == SkillActions(c, w)
           x2 == HookActions(c, w)
           x3 == DispatcherActions(c, w)
           x4 == CiActions(c, w)
           x5 == McpActions(c, w)
           q == <<x1, x2, x3, x4, x5>>
<1>1. IsSeq(x1) /\ Resolved(x1)
  BY SkillActs DEF Acts
<1>2. IsSeq(x2) /\ Resolved(x2)
  <2>1. {"install_agent_hook"} \intersect Referring = {}
    BY DEF Referring
  <2>2. Acts(x2, {"install_agent_hook"}, On(c, <<"agent_hooks">>))
    BY HookActs
  <2> QED BY <2>1, <2>2, OthersResolve DEF Acts
<1>3. IsSeq(x3) /\ Resolved(x3)
  <2>1. {"install_dispatcher"} \intersect Referring = {}
    BY DEF Referring
  <2>2. Acts(x3, {"install_dispatcher"}, TRUE)
    BY DispatcherActs
  <2> QED BY <2>1, <2>2, OthersResolve DEF Acts
<1>4. IsSeq(x4) /\ Resolved(x4)
  <2>1. {"install_ci"} \intersect Referring = {}
    BY DEF Referring
  <2>2. Acts(x4, {"install_ci"}, On(c, <<"ci">>))
    BY CiActs
  <2> QED BY <2>1, <2>2, OthersResolve DEF Acts
<1>5. IsSeq(x5) /\ Resolved(x5)
  <2>1. {"register_mcp"} \intersect Referring = {}
    BY DEF Referring
  <2>2. Acts(x5, {"register_mcp"}, On(c, <<"mcp">>))
    BY McpActs
  <2> QED BY <2>1, <2>2, OthersResolve DEF Acts
<1>6. Wiring(c, w) = FlattenSeq(q)
  BY DEF Wiring
<1> HIDE DEF x1, x2, x3, x4, x5
<1>7. IsSeq(q) /\ ToSet(q) = {x1, x2, x3, x4, x5}
  BY FiveAre
<1>8. \A s \in ToSet(q) : IsSeq(s) /\ Resolved(s)
  BY <1>1, <1>2, <1>3, <1>4, <1>5, <1>7
<1> HIDE DEF q
<1>9. /\ IsSeq(FlattenSeq(q)) /\ Resolved(FlattenSeq(q))
      /\ \A a : a \in ToSet(FlattenSeq(q)) <=> \E s \in ToSet(q) : a \in ToSet(s)
  BY <1>7, <1>8, Parts
<1>10. ToSet(FlattenSeq(q)) = ToSet(x1) \union ToSet(x2) \union ToSet(x3) \union ToSet(x4) \union ToSet(x5)
  BY <1>7, <1>9
<1> QED BY <1>6, <1>9, <1>10 DEF x1, x2, x3, x4, x5

(* The handlers of `build', but for the wiring and for those whose actions  *)
(* refer to one another.                                                    *)
LEMMA OthersAre ==
    ASSUME NEW s, NEW K, NEW on, Acts(s, K, on), K \intersect Referring = {}
    PROVE  IsSeq(s) /\ Resolved(s)
BY OthersResolve DEF Acts

PartsOf(c, w) ==
    {Wiring(c, w), HarnessActions(c, w), ModeActions(c), PermissionActions(c), ExecPolicyActions(c, w),
     GuardActions(c), BridgeActions(c, w), ModelsActions(c, w), SymlinkActions(c),
     ShipActions(c, w, Wiring(c, w)), LinterActions(c, w), ProjectToolActions(c), GitHubActions(c, w),
     TmuxActions(c, w), EnvActions(c), ExcludesActions(c), SpotlightActions(c), ToolsActions(c),
     TgCtlActions(c)}

LEMMA BuildIs ==
    ASSUME NEW c, IsConfig(c), NEW w, IsWorld(w)
    PROVE  /\ IsSeq(Build(c, w)) /\ Resolved(Build(c, w))
           /\ \A a : a \in ToSet(Build(c, w)) <=> \E s \in PartsOf(c, w) : a \in ToSet(s)
<1> DEFINE q == <<Wiring(c, w), HarnessActions(c, w), ModeActions(c), PermissionActions(c), ExecPolicyActions(c, w),
                  GuardActions(c), BridgeActions(c, w), ModelsActions(c, w), SymlinkActions(c),
                  ShipActions(c, w, Wiring(c, w)), LinterActions(c, w), ProjectToolActions(c), GitHubActions(c, w),
                  TmuxActions(c, w), EnvActions(c), ExcludesActions(c), SpotlightActions(c), ToolsActions(c),
                  TgCtlActions(c)>>
           Fine(s) == IsSeq(s) /\ Resolved(s)
<1>1. Fine(Wiring(c, w))
  BY WiringIs
<1>2. Fine(HarnessActions(c, w))
  BY HarnessActs, OthersAre DEF Referring
<1>3. Fine(ModeActions(c))
  BY ModeActs, OthersAre DEF Referring
<1>4. Fine(PermissionActions(c))
  BY PermissionActs, OthersAre DEF Referring
<1>5. Fine(ExecPolicyActions(c, w))
  BY ExecPolicyActs, OthersAre DEF Referring
<1>6. Fine(GuardActions(c))
  BY GuardActs DEF Acts
<1>7. Fine(BridgeActions(c, w))
  BY BridgeActs, OthersAre DEF Referring
<1>8. Fine(ModelsActions(c, w))
  BY ModelsActs, OthersAre DEF Referring
<1>9. Fine(SymlinkActions(c))
  BY SymlinkActs, OthersAre DEF Referring
<1>10. Fine(ShipActions(c, w, Wiring(c, w)))
  BY ShipActs DEF Acts
<1>11. Fine(LinterActions(c, w))
  BY LinterActs, OthersAre DEF Referring, LinterKinds
<1>12. Fine(ProjectToolActions(c))
  BY ProjectToolActs, OthersAre DEF Referring
<1>13. Fine(GitHubActions(c, w))
  BY GitHubActs, OthersAre DEF Referring
<1>14. Fine(TmuxActions(c, w))
  BY TmuxActs, OthersAre DEF Referring
<1>15. Fine(EnvActions(c))
  BY EnvActs, OthersAre DEF Referring
<1>16. Fine(ExcludesActions(c))
  BY ExcludesActs, OthersAre DEF Referring
<1>17. Fine(SpotlightActions(c))
  BY SpotlightActs, OthersAre DEF Referring
<1>18. Fine(ToolsActions(c))
  BY ToolsActs, OthersAre DEF Referring
<1>19. Fine(TgCtlActions(c))
  BY TgCtlActs, OthersAre DEF Referring
<1>20. IsSeq(q) /\ ToSet(q) = PartsOf(c, w)
  <2>1. q \in Seq(PartsOf(c, w)) /\ DOMAIN q = 1 .. 19
    BY DEF PartsOf
  <2>2. /\ q[1] = Wiring(c, w) /\ q[2] = HarnessActions(c, w) /\ q[3] = ModeActions(c)
        /\ q[4] = PermissionActions(c) /\ q[5] = ExecPolicyActions(c, w) /\ q[6] = GuardActions(c)
        /\ q[7] = BridgeActions(c, w) /\ q[8] = ModelsActions(c, w) /\ q[9] = SymlinkActions(c)
        /\ q[10] = ShipActions(c, w, Wiring(c, w)) /\ q[11] = LinterActions(c, w) /\ q[12] = ProjectToolActions(c)
        /\ q[13] = GitHubActions(c, w) /\ q[14] = TmuxActions(c, w) /\ q[15] = EnvActions(c)
        /\ q[16] = ExcludesActions(c) /\ q[17] = SpotlightActions(c) /\ q[18] = ToolsActions(c)
        /\ q[19] = TgCtlActions(c)
    OBVIOUS
  <2> HIDE DEF q
  <2>3. IsSeq(q) /\ ToSet(q) \subseteq PartsOf(c, w)
    BY <2>1, SeqIsSeq
  <2>4. PartsOf(c, w) \subseteq ToSet(q)
    <3>1. \A i \in 1 .. 19 : q[i] \in ToSet(q)
      BY <2>1, Elements
    <3> QED BY <2>2, <3>1 DEF PartsOf
  <2> QED BY <2>3, <2>4
<1>21. Build(c, w) = FlattenSeq(q)
  BY DEF Build
<1> HIDE DEF q, Fine
<1>22. \A s \in ToSet(q) : Fine(s)
  BY <1>1, <1>2, <1>3, <1>4, <1>5, <1>6, <1>7, <1>8, <1>9, <1>10, <1>11, <1>12, <1>13, <1>14, <1>15,
     <1>16, <1>17, <1>18, <1>19, <1>20 DEF PartsOf
<1>23. \A s \in ToSet(q) : IsSeq(s) /\ Resolved(s)
  BY <1>22 DEF Fine
<1> QED BY <1>20, <1>21, <1>23, Parts

-----------------------------------------------------------------------------
(* What a block switches off.                                               *)
(* A kind of action and what has to be on for the plan to have one.         *)
Paid(c, k) ==
    /\ k \in {"copy_skill", "link_skill_harness"} => On(c, <<"skills">>)
    /\ k = "install_agent_hook" => On(c, <<"agent_hooks">>)
    /\ k = "install_ci" => On(c, <<"ci">>)
    /\ k = "register_mcp" => On(c, <<"mcp">>)
    /\ k = "apply_harness" => On(c, <<"harness">>)
    /\ k = "register_hook_bridge" =>
         On(c, <<"agent_hooks">>) /\ On(c, <<"harness">>) /\ On(c, <<"harness", "hook_bridge">>)
    /\ k \in {"provision_permissions", "provision_execpolicy", "install_harness_guard",
              "provision_harness_approval", "provision_instruction_policy"} => On(c, <<"permissions">>)
    /\ k = "provision_schedule" => On(c, <<"models">>)
    /\ k = "provision_agents_symlink" => On(c, <<"agents_md">>)
    /\ k = "provision_ship_delegator" => On(c, <<"ship_delegator">>)
    /\ k \in LinterKinds => On(c, <<"linters">>)
    /\ k = "provision_project_tool" => On(c, <<"project_tools">>)
    /\ k = "provision_tmux" => On(c, <<"tmux">>)
    /\ k = "provision_env" => On(c, <<"env">>)
    /\ k = "provision_global_excludes" => On(c, <<"gitignore">>)
    /\ k = "provision_spotlight" => On(c, <<"spotlight">>)
    /\ k = "provision_tools" => On(c, <<"tools">>)
    /\ k = "provision_tg_ctl" => On(c, <<"tg_ctl">>)
(* Where the actions some property looks at come from.                      *)
From(c, w, a) ==
    /\ a.kind = "install_agent_hook" => a \in ToSet(HookActions(c, w))
    /\ a.kind = "register_hook_bridge" => a \in ToSet(BridgeActions(c, w))
    /\ a.kind = "provision_github" => a \in ToSet(GitHubActions(c, w))
    /\ a.kind \in LinterKinds => a \in ToSet(LinterActions(c, w))
LEMMA PaidMeansOn ==
    ASSUME NEW c, NEW s \in Switches, NEW k \in s[2], Paid(c, k)
    PROVE  On(c, s[1])
BY DEF Switches, LinterKinds, Paid

LEMMA BlocksSwitched ==
    ASSUME NEW s \in Switches
    PROVE  IsSeq(s[1]) /\ Len(s[1]) > 0 /\ s[1][1] # "scope"
<1>1. \/ \E x : x # "scope" /\ s[1] = <<x>>
      \/ \E x, y : x # "scope" /\ s[1] = <<x, y>>
  BY DEF Switches
<1>2. ASSUME NEW x, x # "scope" PROVE IsSeq(<<x>>) /\ Len(<<x>>) > 0 /\ <<x>>[1] # "scope"
  BY <1>2, OneIsSeq
<1>3. ASSUME NEW x, NEW y, x # "scope" PROVE IsSeq(<<x, y>>) /\ Len(<<x, y>>) > 0 /\ <<x, y>>[1] # "scope"
  <2>1. IsSeq(<<x, y>>)
    BY PairIsSeq
  <2>2. Len(<<x, y>>) > 0 /\ <<x, y>>[1] = x
    OBVIOUS
  <2> QED BY <1>3, <2>1, <2>2
<1> QED BY <1>1, <1>2, <1>3

(* A block that is off pays for nothing.                                    *)
LEMMA PaidFor ==
    ASSUME NEW c, IsConfig(c), NEW w, IsWorld(w), NEW a \in ToSet(Build(c, w))
    PROVE  Paid(c, a.kind) /\ From(c, w, a)
<1> DEFINE k == a.kind
<1>1. PICK part \in PartsOf(c, w) : a \in ToSet(part)
  BY BuildIs
<1>2. CASE part = Wiring(c, w)
  <2>1. CASE a \in ToSet(SkillActions(c, w))
    <3>1. k \in {"copy_skill", "link_skill_harness"} /\ On(c, <<"skills">>)
      BY <2>1, SkillActs DEF Acts
    <3> QED BY <2>1, <3>1 DEF Paid, From, LinterKinds
  <2>2. CASE a \in ToSet(HookActions(c, w))
    <3>1. k \in {"install_agent_hook"} /\ On(c, <<"agent_hooks">>)
      BY <2>2, HookActs DEF Acts
    <3> QED BY <2>2, <3>1 DEF Paid, From, LinterKinds
  <2>3. CASE a \in ToSet(DispatcherActions(c, w))
    <3>1. k \in {"install_dispatcher"}
      BY <2>3, DispatcherActs DEF Acts
    <3> QED BY <2>3, <3>1 DEF Paid, From, LinterKinds
  <2>4. CASE a \in ToSet(CiActions(c, w))
    <3>1. k \in {"install_ci"} /\ On(c, <<"ci">>)
      BY <2>4, CiActs DEF Acts
    <3> QED BY <2>4, <3>1 DEF Paid, From, LinterKinds
  <2>5. CASE a \in ToSet(McpActions(c, w))
    <3>1. k \in {"register_mcp"} /\ On(c, <<"mcp">>)
      BY <2>5, McpActs DEF Acts
    <3> QED BY <2>5, <3>1 DEF Paid, From, LinterKinds
  <2> QED BY <1>1, <1>2, <2>1, <2>2, <2>3, <2>4, <2>5, WiringIs
<1>3. CASE part = HarnessActions(c, w)
  <2>1. k = "apply_harness" /\ On(c, <<"harness">>)
    BY <1>1, <1>3, HarnessActs DEF Acts
  <2> QED BY <1>1, <1>3, <2>1 DEF Paid, From, LinterKinds
<1>4. CASE part = ModeActions(c)
  <2>1. k = "record_mode"
    BY <1>1, <1>4, ModeActs DEF Acts
  <2> QED BY <1>1, <1>4, <2>1 DEF Paid, From, LinterKinds
<1>5. CASE part = PermissionActions(c)
  <2>1. k = "provision_permissions" /\ On(c, <<"permissions">>)
    BY <1>1, <1>5, PermissionActs DEF Acts
  <2> QED BY <1>1, <1>5, <2>1 DEF Paid, From, LinterKinds
<1>6. CASE part = ExecPolicyActions(c, w)
  <2>1. k = "provision_execpolicy" /\ On(c, <<"permissions">>)
    BY <1>1, <1>6, ExecPolicyActs DEF Acts
  <2> QED BY <1>1, <1>6, <2>1 DEF Paid, From, LinterKinds
<1>7. CASE part = GuardActions(c)
  <2>1. k \in {"install_harness_guard", "provision_harness_approval",
                "provision_instruction_policy"} /\ On(c, <<"permissions">>)
    BY <1>1, <1>7, GuardActs DEF Acts
  <2> QED BY <1>1, <1>7, <2>1 DEF Paid, From, LinterKinds
<1>8. CASE part = BridgeActions(c, w)
  <2>1. k = "register_hook_bridge" /\ On(c, <<"harness">>) /\ On(c, <<"agent_hooks">>)
    BY <1>1, <1>8, BridgeActs DEF Acts
  <2>2. On(c, <<"harness", "hook_bridge">>)
    BY <1>1, <1>8, BridgeActs DEF BridgeOn
  <2> QED BY <1>1, <1>8, <2>1, <2>2 DEF Paid, From, LinterKinds
<1>9. CASE part = ModelsActions(c, w)
  <2>1. k = "provision_schedule" /\ On(c, <<"models">>)
    BY <1>1, <1>9, ModelsActs DEF Acts
  <2> QED BY <1>1, <1>9, <2>1 DEF Paid, From, LinterKinds
<1>10. CASE part = SymlinkActions(c)
  <2>1. k = "provision_agents_symlink" /\ On(c, <<"agents_md">>)
    BY <1>1, <1>10, SymlinkActs DEF Acts
  <2> QED BY <1>1, <1>10, <2>1 DEF Paid, From, LinterKinds
<1>11. CASE part = ShipActions(c, w, Wiring(c, w))
  <2>1. /\ k \in {"provision_ship_delegator", "provision_gh_ship_alias"}
        /\ k = "provision_ship_delegator" => On(c, <<"ship_delegator">>)
    BY <1>1, <1>11, ShipActs DEF Acts
  <2> QED BY <1>1, <1>11, <2>1 DEF Paid, From, LinterKinds
<1>12. CASE part = LinterActions(c, w)
  <2>1. k \in LinterKinds /\ On(c, <<"linters">>)
    BY <1>1, <1>12, LinterActs DEF Acts
  <2> QED BY <1>1, <1>12, <2>1 DEF Paid, From, LinterKinds
<1>13. CASE part = ProjectToolActions(c)
  <2>1. k = "provision_project_tool" /\ On(c, <<"project_tools">>)
    BY <1>1, <1>13, ProjectToolActs DEF Acts
  <2> QED BY <1>1, <1>13, <2>1 DEF Paid, From, LinterKinds
<1>14. CASE part = GitHubActions(c, w)
  <2>1. k = "provision_github"
    BY <1>1, <1>14, GitHubActs DEF Acts
  <2> QED BY <1>1, <1>14, <2>1 DEF Paid, From, LinterKinds
<1>15. CASE part = TmuxActions(c, w)
  <2>1. k = "provision_tmux" /\ On(c, <<"tmux">>)
    BY <1>1, <1>15, TmuxActs DEF Acts
  <2> QED BY <1>1, <1>15, <2>1 DEF Paid, From, LinterKinds
<1>16. CASE part = EnvActions(c)
  <2>1. k = "provision_env" /\ On(c, <<"env">>)
    BY <1>1, <1>16, EnvActs DEF Acts
  <2> QED BY <1>1, <1>16, <2>1 DEF Paid, From, LinterKinds
<1>17. CASE part = ExcludesActions(c)
  <2>1. k = "provision_global_excludes" /\ On(c, <<"gitignore">>)
    BY <1>1, <1>17, ExcludesActs DEF Acts
  <2> QED BY <1>1, <1>17, <2>1 DEF Paid, From, LinterKinds
<1>18. CASE part = SpotlightActions(c)
  <2>1. k = "provision_spotlight" /\ On(c, <<"spotlight">>)
    BY <1>1, <1>18, SpotlightActs DEF Acts
  <2> QED BY <1>1, <1>18, <2>1 DEF Paid, From, LinterKinds
<1>19. CASE part = ToolsActions(c)
  <2>1. k = "provision_tools" /\ On(c, <<"tools">>)
    BY <1>1, <1>19, ToolsActs DEF Acts
  <2> QED BY <1>1, <1>19, <2>1 DEF Paid, From, LinterKinds
<1>20. CASE part = TgCtlActions(c)
  <2>1. k = "provision_tg_ctl" /\ On(c, <<"tg_ctl">>)
    BY <1>1, <1>20, TgCtlActs DEF Acts
  <2> QED BY <1>1, <1>20, <2>1 DEF Paid, From, LinterKinds
<1> QED
  BY <1>1, <1>2, <1>3, <1>4, <1>5, <1>6, <1>7, <1>8, <1>9, <1>10, <1>11, <1>12, <1>13, <1>14, <1>15,
     <1>16, <1>17, <1>18, <1>19, <1>20 DEF PartsOf

(* The plan on show is empty or what `build' makes of the configuration.    *)
LEMMA PlanIs ==
    ASSUME IInv
    PROVE  /\ IsConfig(Config) /\ IsWorld(world)
           /\ plan.actions = <<>> \/ plan.actions = Build(Config, world)
<1>1. IsConfig(Config) /\ IsWorld(world)
  BY ConfigIsConfig DEF IInv, Parsed
<1>2. PlanOf(global, repo, world).actions \in {<<>>, Build(Config, world)}
  BY DEF PlanOf, Config, Layer
<1> QED BY <1>1, <1>2 DEF IInv, Fresh

(* What the repository switches off is off, whatever the machine says.      *)
LEMMA OffIsOff ==
    ASSUME NEW block, IsSeq(block), Len(block) > 0, block[1] # "scope",
           Knob(Layer, block, "enabled") = Bool(FALSE)
    PROVE  ~On(Config, block)
<1> DEFINE p == Append(block, "enabled")
           off == Bool(FALSE)
<1>1. p[1] # "scope"
  BY DEF IsSeq
<1>2. off # EmptyMap /\ off # Absent
  BY DEF Bool, EmptyMap, Absent
<1>3. At(Layer, p) = off
  BY DEF Knob
<1> HIDE DEF p, off
<1>4. p \in DOMAIN Layer /\ Layer[p] = off
  BY <1>2, <1>3 DEF At
<1>5. p \in DOMAIN Merged(global, Layer) /\ Merged(global, Layer)[p] = off
  BY <1>2, <1>4 DEF Merged
<1>6. At(Config, p) = off
  BY <1>1, <1>5 DEF At, Config, Loaded
<1> QED BY <1>6 DEF On, Knob, p, off

(* A block that the repository switches off stays out of the plan, and the  *)
(* hook of the daemon goes with it.                                         *)
THEOREM SwitchedOffBlocksStayOut == Spec => []OptedOutStaysOut
<1>1. IInv => OptedOutStaysOut
  <2> SUFFICES ASSUME IInv PROVE OptedOutStaysOut
    OBVIOUS
  <2> DEFINE c == Config
             w == world
             github == {"ruleset", "merge", "actions", "ghas", "browser"}
  <2>1. IsConfig(c) /\ IsWorld(w) /\ \A a \in ToSet(plan.actions) : a \in ToSet(Build(c, w))
    BY PlanIs, NoneIsSeq
  <2> HIDE DEF c, w
  <2>2. ASSUME NEW s \in Switches, Knob(Layer, s[1], "enabled") = Bool(FALSE), NEW a \in Of(s[2])
        PROVE  FALSE
    <3>1. ~On(c, s[1])
      BY <2>2, BlocksSwitched, OffIsOff DEF c
    <3>2. a \in ToSet(Build(c, w)) /\ a.kind \in s[2]
      BY <2>1, <2>2 DEF Of
    <3>3. Paid(c, a.kind)
      BY <2>1, <3>2, PaidFor
    <3> QED BY <3>1, <3>2, <3>3, PaidMeansOn
  <2>3. ASSUME NEW name \in github, Knob(Layer, <<"github", name>>, "enabled") = Bool(FALSE),
               NEW a \in Of({"provision_github"}), a.item = name
        PROVE  FALSE
    <3>1. ~On(c, <<"github", name>>)
      <4>1. IsSeq(<<"github", name>>)
        BY PairIsSeq
      <4>2. Len(<<"github", name>>) > 0 /\ <<"github", name>>[1] # "scope"
        OBVIOUS
      <4> QED BY <2>3, <4>1, <4>2, OffIsOff DEF c
    <3>2. a \in ToSet(Build(c, w)) /\ a.kind = "provision_github"
      BY <2>1, <2>3 DEF Of
    <3>3. a \in ToSet(GitHubActions(c, w))
      BY <2>1, <3>2, PaidFor DEF From
    <3>4. On(c, <<"github", a.item>>)
      BY <3>3, GitHubActs
    <3> QED BY <2>3, <3>1, <3>4
  <2>4. ASSUME Knob(Layer, <<"tg_ctl">>, "enabled") = Bool(FALSE), NEW b \in Of({"register_hook_bridge"})
        PROVE  b.options["stop_hooks"] = Bool(FALSE)
    <3>1. ~On(c, <<"tg_ctl">>)
      <4>1. IsSeq(<<"tg_ctl">>)
        BY OneIsSeq
      <4>2. Len(<<"tg_ctl">>) > 0 /\ <<"tg_ctl">>[1] # "scope"
        OBVIOUS
      <4> QED BY <2>4, <4>1, <4>2, OffIsOff DEF c
    <3>2. b \in ToSet(Build(c, w)) /\ b.kind = "register_hook_bridge"
      BY <2>1, <2>4 DEF Of
    <3>3. b \in ToSet(BridgeActions(c, w))
      BY <2>1, <3>2, PaidFor DEF From
    <3>4. PICK kind \in ToSet(Kinds(c)) : b = Bridge(c, w, kind)
      BY <2>1, <3>3, BridgeActs
    <3>5. b.options["stop_hooks"] = Bool(kind = "codex" /\ StopHooks(c, w))
      BY <3>4 DEF Bridge, Act
    <3>6. ~StopHooks(c, w)
      BY <3>1 DEF StopHooks
    <3> QED BY <3>5, <3>6 DEF Bool
  <2> QED BY <2>2, <2>3, <2>4 DEF OptedOutStaysOut
<1> QED BY <1>1, IInvIsInvariant, PTL

-----------------------------------------------------------------------------
(* The bridges and the hooks.                                               *)
LEMMA AppendIs ==
    ASSUME NEW d, IsSeq(d), NEW x
    PROVE  IsSeq(Append(d, x)) /\ Last(Append(d, x)) = x
<1> DEFINE S == ToSet(d) \union {x}
<1>1. d \in Seq(S)
  BY SeqMonotonic DEF IsSeq
<1> HIDE DEF S
<1>2. Append(d, x) = d \o <<x>>
  BY <1>1
<1>3. IsSeq(d \o <<x>>)
  BY OneIsSeq, ConcatIsSeq
<1>4. Len(d) \in Nat /\ Len(Append(d, x)) = Len(d) + 1 /\ Append(d, x)[Len(d) + 1] = x
  BY <1>1
<1> QED BY <1>2, <1>3, <1>4 DEF Last

(* Every directory of hooks is a path.                                      *)
LEMMA PathsAre ==
    /\ \A v : IsSeq(PathOf(v))
    /\ \A w : IsWorld(w) => \A k \in DOMAIN HooksDirs(w) : IsSeq(HooksDirs(w)[k])
<1>1. \A s : IsSeq(Expand(s))
  <2> TAKE s
  <2>1. IsSeq(<<".", s>>)
    BY PairIsSeq
  <2> QED BY <2>1, PathsAssumption DEF Expand
<1>2. \A p : IsSeq(p) => IsSeq(Home(p))
  BY OneIsSeq, ConcatIsSeq DEF Home
<1>3. \A w : IsWorld(w) => IsSeq(CodexPath(w, <<"hooks">>))
  BY OneIsSeq, ConcatIsSeq DEF IsWorld, CodexPath
<1>4. IsSeq(LegacyHooks)
  BY <1>2, PairIsSeq DEF LegacyHooks
<1>5. IsSeq(OmpPath(<<"hooks">>))
  <2>1. IsSeq(Home(<<".omp", "agent">>))
    BY <1>2, PairIsSeq
  <2> QED BY <2>1, OneIsSeq, ConcatIsSeq DEF OmpPath
<1>6. IsSeq(Home(<<".config", "opencode", "hooks">>))
  <2>1. <<".config", "opencode", "hooks">> \in Seq({".config", "opencode", "hooks"})
    OBVIOUS
  <2> QED BY <1>2, <2>1, SeqIsSeq
<1>7. \A v : IsSeq(PathOf(v))
  BY <1>1 DEF PathOf
<1>8. ASSUME NEW w, IsWorld(w), NEW k \in DOMAIN HooksDirs(w)
      PROVE  IsSeq(HooksDirs(w)[k])
  <2>1. /\ k \in {"claude-code", "codex", "opencode", "omp"}
        /\ HooksDirs(w)[k] \in {LegacyHooks, CodexPath(w, <<"hooks">>),
                                Home(<<".config", "opencode", "hooks">>), OmpPath(<<"hooks">>)}
    BY DEF HooksDirs
  <2> QED BY <1>3, <1>4, <1>5, <1>6, <1>8, <2>1
<1> QED BY <1>7, <1>8

LEMMA TargetsArePaths ==
    ASSUME NEW c, IsConfig(c), NEW w, IsWorld(w), NEW d \in ToSet(HookTargets(c, w))
    PROVE  IsSeq(d)
<1>1. \/ HookTargets(c, w) = <<ResolveTarget(c, "agent_hooks")>>
      \/ HookTargets(c, w) = <<PathOf(Default(c, "agent_hooks"))>>
      \/ HookTargets(c, w) = Distinct(OwnHooksDirs(c, w))
  BY DEF HookTargets
<1>2. IsSeq(ResolveTarget(c, "agent_hooks")) /\ IsSeq(PathOf(Default(c, "agent_hooks")))
  BY PathsAre DEF ResolveTarget
<1>3. CASE HookTargets(c, w) = Distinct(OwnHooksDirs(c, w))
  <2>1. d \in ToSet(OwnHooksDirs(c, w))
    BY <1>3, OwnHooksDirsAre, DistinctIsSeq
  <2>2. PICK k \in DOMAIN HooksDirs(w) : d = HooksDirs(w)[k]
    BY <2>1, OwnHooksDirsAre
  <2> QED BY <2>2, PathsAre
<1> QED BY <1>1, <1>2, <1>3, OneIsSeq

(* What a dispatcher reads of its own accord is where rig installs the      *)
(* hooks of its harness, unless Codex has another home.                     *)
LEMMA OwnDirIsRead ==
    ASSUME NEW w, NEW k \in DOMAIN HooksDirs(w), k = "codex" => w.codexHome = Home(<<".codex">>)
    PROVE  DispatcherReads[k] = HooksDirs(w)[k]
<1>1. k \in {"claude-code", "codex", "opencode", "omp"}
  BY DEF HooksDirs
<1>2. CASE k = "codex"
  <2>1. CodexPath(w, <<"hooks">>) = Home(<<".codex", "hooks">>)
    <3> DEFINE S == {"~", ".codex", "hooks"}
               h == <<"~">>
               p == <<".codex">>
               q == <<"hooks">>
    <3>1. h \in Seq(S) /\ p \in Seq(S) /\ q \in Seq(S)
      OBVIOUS
    <3>2. CodexPath(w, q) = (h \o p) \o q
      BY <1>2 DEF CodexPath, Home
    <3>3. p \o q = <<".codex", "hooks">>
      BY PairIsSeq
    <3> HIDE DEF S, h, p, q
    <3>4. (h \o p) \o q = h \o (p \o q)
      BY <3>1, ConcatAssociative
    <3> QED BY <3>2, <3>3, <3>4 DEF Home, h, q
  <2> QED BY <1>2, <2>1 DEF DispatcherReads, HooksDirs
<1>3. CASE k # "codex"
  BY <1>1, <1>3 DEF DispatcherReads, HooksDirs
<1> QED BY <1>2, <1>3

LEMMA BridgeReadsTarget ==
    ASSUME NEW c, IsConfig(c), NEW w, NEW k \in ToSet(Kinds(c)) \intersect DOMAIN HooksDirs(w)
    PROVE  LET own == BridgeHooksDir(c, w, k) IN
           (IF own = Null THEN DispatcherReads[k] ELSE own[2]) \in ToSet(HookTargets(c, w))
<1> DEFINE own == BridgeHooksDir(c, w, k)
           dirs == ToSet(HookTargets(c, w))
<1>1. \A p : Dir(p) # Null /\ Dir(p)[2] = p
  BY DEF Dir, Null
<1>2. CASE Pinned(c)
  <2>1. own = Dir(HookTargets(c, w)[1])
    BY <1>2 DEF BridgeHooksDir
  <2>2. HookTargets(c, w)[1] \in dirs
    BY <1>2, HookTargetsAre
  <2> HIDE DEF own, dirs
  <2> QED BY <1>1, <2>1, <2>2 DEF own, dirs
<1>3. CASE ~Pinned(c)
  <2>1. HooksDirs(w)[k] \in dirs
    BY <1>3, HookTargetsAre
  <2>2. CASE k = "codex" /\ w.codexHome # Home(<<".codex">>)
    <3>1. own = Dir(CodexPath(w, <<"hooks">>))
      BY <1>3, <2>2 DEF BridgeHooksDir
    <3>2. HooksDirs(w)[k] = CodexPath(w, <<"hooks">>)
      BY <2>2 DEF HooksDirs
    <3> HIDE DEF own, dirs
    <3> QED BY <1>1, <2>1, <3>1, <3>2 DEF own, dirs
  <2>3. CASE ~(k = "codex" /\ w.codexHome # Home(<<".codex">>))
    <3>1. own = Null
      BY <1>3, <2>3 DEF BridgeHooksDir
    <3>2. DispatcherReads[k] = HooksDirs(w)[k]
      BY <2>3, OwnDirIsRead
    <3> HIDE DEF own, dirs
    <3> QED BY <2>1, <3>1, <3>2 DEF own, dirs
  <2> QED BY <2>2, <2>3
<1> QED BY <1>2, <1>3

(* A bridge of the plan reads the directory into which the plan installs    *)
(* every hook.                                                              *)
THEOREM BridgesReadTheHooks == Spec => []BridgeReadsWhereHooksLand
<1>1. IInv => BridgeReadsWhereHooksLand
  <2> SUFFICES ASSUME IInv, NEW b \in Of({"register_hook_bridge"}), NEW h \in Of({"install_agent_hook"})
               PROVE  LET own == b.options["hooks_dir"]
                          reads == IF own = Null THEN DispatcherReads[b.options["kind"][2]] ELSE own[2]
                      IN  [h EXCEPT !.target = Append(reads, Last(h.target))] \in Of({"install_agent_hook"})
    BY DEF BridgeReadsWhereHooksLand
  <2> DEFINE c == Config
             w == world
  <2>1. /\ IsConfig(c) /\ IsWorld(w) /\ plan.actions = Build(c, w)
    <3>1. b \in ToSet(plan.actions)
      BY DEF Of
    <3> QED BY <3>1, PlanIs, NoneIsSeq
  <2> HIDE DEF c, w
  <2>2. b \in ToSet(BridgeActions(c, w)) /\ h \in ToSet(HookActions(c, w))
    BY <2>1, PaidFor DEF From, Of
  <2>3. PICK k \in ToSet(Kinds(c)) : BridgeOn(c, w, k) /\ b = Bridge(c, w, k)
    BY <2>1, <2>2, BridgeActs
  <2>4. PICK item \in ToSet(EnabledHooks(c, w)) : Installs(c, w, item, h)
    BY <2>1, <2>2, HookActs
  <2>5. PICK d \in ToSet(HookTargets(c, w)), x \in ToSet(item.descriptors) : h = InstallHook(c, item, d, x)
    BY <2>4 DEF Installs
  <2> DEFINE own == BridgeHooksDir(c, w, k)
             reads == IF own = Null THEN DispatcherReads[k] ELSE own[2]
             g == InstallHook(c, item, reads, x)
  <2>6. b.options["hooks_dir"] = own /\ b.options["kind"][2] = k
    BY <2>3 DEF Bridge, Act, Str
  <2>7. reads \in ToSet(HookTargets(c, w))
    BY <2>1, <2>3, BridgeReadsTarget DEF BridgeOn
  <2> HIDE DEF reads, own
  <2>8. g \in ToSet(HookActions(c, w)) /\ g.kind = "install_agent_hook"
    <3>1. Installs(c, w, item, g)
      BY <2>5, <2>7 DEF Installs
    <3>2. g \in ToSet(HookActions(c, w))
      BY <2>1, <3>1, HookActs
    <3> QED BY <3>2 DEF InstallHook, Act
  <2>9. Last(h.target) = x
    <3>1. h.target = Append(d, x)
      BY <2>5 DEF InstallHook, Act
    <3>2. IsSeq(d)
      BY <2>1, TargetsArePaths
    <3> QED BY <3>1, <3>2, AppendIs
  <2>10. [h EXCEPT !.target = Append(reads, x)] = g
    <3> DEFINE options == [on_error |-> Get(c, <<"agent_hooks", "items", item.name>>, "on_error", Null)]
               target == Append(reads, x)
    <3>1. h = Act("install_agent_hook", item.name, Append(d, x), options)
      BY <2>5 DEF InstallHook
    <3>2. g = Act("install_agent_hook", item.name, target, options)
      BY DEF InstallHook
    <3> HIDE DEF options, target, g
    <3>3. [h EXCEPT !.target = target] = g
      BY <3>1, <3>2 DEF Act
    <3> QED BY <3>3 DEF target
  <2>11. g \in Of({"install_agent_hook"})
    <3> HIDE DEF g
    <3>1. g \in ToSet(Wiring(c, w))
      BY <2>1, <2>8, WiringIs
    <3>2. g \in ToSet(Build(c, w))
      BY <2>1, <3>1, BuildIs DEF PartsOf
    <3> QED BY <2>1, <2>8, <3>2 DEF Of
  <2> HIDE DEF g
  <2> QED BY <2>6, <2>9, <2>10, <2>11 DEF reads
<1> QED BY <1>1, IInvIsInvariant, PTL

-----------------------------------------------------------------------------
(* A check the ruleset requires is one a workflow of the plan reports.      *)
LEMMA DefaultCiTarget ==
    ASSUME NEW c, RawTarget(c, "ci") = Str(Builtin["ci"])
    PROVE  ~ExportOnly(c, "ci") /\ ResolveTarget(c, "ci") = <<".", ".github", "workflows">>
<1> DEFINE s == Str(Builtin["ci"])
           t == Knob(c, <<"ci">>, "target")
           d == Default(c, "ci")
<1>1. Builtin["ci"] = ".github/workflows" /\ DefaultsKey["ci"] = "ci_target"
  BY DEF Builtin, DefaultsKey
<1>2. s # Str("export-only") /\ s # EmptyStr
  BY <1>1, Zenon DEF Str, EmptyStr
<1>3. s = <<"string", ".github/workflows">>
  BY <1>1 DEF Str
<1>4. Truthy(s) /\ ~Truthy(Absent)
  <2>1. s \notin {Absent, Null, Bool(FALSE), Int_(0)} /\ TypeOf(s) # "array"
    BY <1>3 DEF Absent, Null, Bool, Int_, TypeOf
  <2> HIDE DEF s
  <2> QED BY <1>2, <2>1 DEF Truthy
<1>5. PathOf(s) = <<".", ".github", "workflows">>
  BY <1>3, PathsAssumption DEF PathOf, TypeOf, Expand
<1>6. t = s \/ (t = Absent /\ (d = s \/ d = Absent))
  BY <1>1 DEF RawTarget, Get, Given, Default
<1>7. ResolveTarget(c, "ci") = PathOf(Or(t, Or(d, s)))
  BY DEF ResolveTarget
<1> HIDE DEF s, t, d
<1>8. Or(t, Or(d, s)) = s
  BY <1>4, <1>6 DEF Or
<1>9. ~ExportOnly(c, "ci")
  BY <1>2 DEF ExportOnly, s
<1> QED BY <1>5, <1>7, <1>8, <1>9

LEMMA ChecksAreReported ==
    ASSUME NEW c, NEW w, IsWorld(w), ~Set_(c, <<"github", "ruleset">>, "required_status_checks"),
           NEW x \in RequiredChecks(c, w)
    PROVE  \E i \in ToSet(CiActions(c, w)) :
             i.item \in DOMAIN Contexts /\ i.target = <<".", ".github", "workflows">> /\ x = Contexts[i.item]
<1>1. TypeOf(Knob(c, <<"github", "ruleset">>, "required_status_checks")) # "array"
  BY DEF Set_, TypeOf, Absent, Null
<1>2. x \in CheckContexts(c, w)
  BY <1>1 DEF RequiredChecks
<1>3. RawTarget(c, "ci") = Str(Builtin["ci"])
  BY <1>2 DEF CheckContexts
<1>4. PICK item \in ToSet(EnabledIn(c, w, "ci")) : item.name \in DOMAIN Contexts /\ x = Contexts[item.name]
  BY <1>2, <1>3 DEF CheckContexts
<1>5. ~ExportOnly(c, "ci") /\ ResolveTarget(c, "ci") = <<".", ".github", "workflows">>
  BY <1>3, DefaultCiTarget
<1>6. InstallCi(c, item) \in ToSet(CiActions(c, w))
  BY <1>5, CiActs
<1>7. item.name # "ship"
  BY <1>4 DEF Contexts
<1>8. InstallCi(c, item).item = item.name /\ InstallCi(c, item).target = ResolveTarget(c, "ci")
  BY <1>7, ActIs DEF InstallCi
<1> QED BY <1>4, <1>5, <1>6, <1>8

(* What an action refers to is there because of an earlier action.          *)
THEOREM ActionsResolve == Spec => []ReferencesResolve
<1>1. IInv => ReferencesResolve
  <2> SUFFICES ASSUME IInv, NEW i \in DOMAIN plan.actions
               PROVE  LET s == plan.actions
                          a == s[i] IN
                      /\ a.kind = "link_skill_harness" =>
                           \E j \in 1 .. i - 1 : s[j].kind = "copy_skill" /\ Dir(s[j].target) = a.options["source"]
                      /\ a.kind = "provision_harness_approval" =>
                           \E j \in 1 .. i - 1 : s[j].kind = "install_harness_guard" /\ Dir(s[j].target) = a.options["guard_target"]
                      /\ a.kind = "provision_gh_ship_alias" /\ a.options["canonical_ship"] = Null =>
                           \E j \in 1 .. i - 1 : s[j].kind = "provision_ship_delegator"
                      /\ /\ a.kind = "provision_linter_config" /\ a.item = "rig-oxlint-policy"
                         /\ a.options["rig_owned"] = Bool(TRUE) /\ AntiSlopRequired(Config)
                         => \E b \in Of({"provision_linter_bundle"}) : b.target = AntiSlopTarget
                      /\ /\ a.kind = "provision_github" /\ a.item = "ruleset"
                         /\ ~Set_(Config, <<"github", "ruleset">>, "required_status_checks")
                         => a.options["required_status_checks"][2] \subseteq
                             {Contexts[w.item] : w \in {x \in Of({"install_ci"}) :
                                x.item \in DOMAIN Contexts /\ x.target = <<".", ".github", "workflows">>}}
    BY DEF ReferencesResolve, Before
  <2> DEFINE s == plan.actions
             a == s[i]
             c == Config
  <2>1. IsConfig(c) /\ IsWorld(world) /\ s = Build(c, world) /\ a \in ToSet(s)
    <3>1. a \in ToSet(s)
      BY Elements
    <3> QED BY <3>1, PlanIs, NoneIsSeq
  <2> HIDE DEF c
  <2>2. Needs(a) => \E j \in 1 .. i - 1 : Refers(a, s[j])
    BY <2>1, BuildIs DEF Resolved
  <2>3. From(c, world, a)
    BY <2>1, PaidFor
  <2>4. ASSUME a.kind = "link_skill_harness"
        PROVE  \E j \in 1 .. i - 1 : s[j].kind = "copy_skill" /\ Dir(s[j].target) = a.options["source"]
    <3>1. PICK j \in 1 .. i - 1 : Refers(a, s[j])
      BY <2>2, <2>4 DEF Needs, Referring
    <3>2. s[j].kind = "copy_skill" /\ Dir(s[j].target) = a.options["source"]
      BY <2>4, <3>1 DEF Refers
    <3> QED BY <3>2
  <2>5. ASSUME a.kind = "provision_harness_approval"
        PROVE  \E j \in 1 .. i - 1 : s[j].kind = "install_harness_guard" /\ Dir(s[j].target) = a.options["guard_target"]
    <3>1. PICK j \in 1 .. i - 1 : Refers(a, s[j])
      BY <2>2, <2>5 DEF Needs, Referring
    <3>2. s[j].kind = "install_harness_guard" /\ Dir(s[j].target) = a.options["guard_target"]
      BY <2>5, <3>1 DEF Refers
    <3> QED BY <3>2
  <2>6. ASSUME a.kind = "provision_gh_ship_alias", a.options["canonical_ship"] = Null
        PROVE  \E j \in 1 .. i - 1 : s[j].kind = "provision_ship_delegator"
    <3>1. PICK j \in 1 .. i - 1 : Refers(a, s[j])
      BY <2>2, <2>6 DEF Needs, Referring
    <3>2. s[j].kind = "provision_ship_delegator"
      BY <2>6, <3>1 DEF Refers
    <3> QED BY <3>2
  <2>7. ASSUME a.kind = "provision_linter_config", a.item = "rig-oxlint-policy",
               a.options["rig_owned"] = Bool(TRUE), AntiSlopRequired(c)
        PROVE  \E b \in Of({"provision_linter_bundle"}) : b.target = AntiSlopTarget
    <3>1. a \in ToSet(LinterActions(c, world))
      BY <2>3, <2>7 DEF From, LinterKinds
    <3>2. PICK b \in ToSet(LinterActions(c, world)) : b.kind = "provision_linter_bundle" /\ b.target = AntiSlopTarget
      BY <2>1, <2>7, <3>1, LinterActs
    <3>3. b \in ToSet(Build(c, world))
      BY <2>1, BuildIs DEF PartsOf
    <3> QED BY <2>1, <3>2, <3>3 DEF Of
  <2>8. ASSUME a.kind = "provision_github", a.item = "ruleset",
               ~Set_(c, <<"github", "ruleset">>, "required_status_checks"),
               NEW x \in a.options["required_status_checks"][2]
        PROVE  \E w \in Of({"install_ci"}) :
                 /\ w.item \in DOMAIN Contexts /\ w.target = <<".", ".github", "workflows">>
                 /\ x = Contexts[w.item]
    <3>1. a = GitHub(c, world, "ruleset")
      <4>1. a \in ToSet(GitHubActions(c, world))
        BY <2>3, <2>8 DEF From
      <4>2. a = GitHub(c, world, a.item)
        BY <4>1, GitHubActs
      <4> QED BY <2>8, <4>2
    <3>2. x \in RequiredChecks(c, world)
      BY <2>8, <3>1 DEF GitHub, Act, RuleSet
    <3>3. PICK w \in ToSet(CiActions(c, world)) :
            w.item \in DOMAIN Contexts /\ w.target = <<".", ".github", "workflows">> /\ x = Contexts[w.item]
      BY <2>1, <2>8, <3>2, ChecksAreReported
    <3>4. w \in ToSet(Build(c, world))
      <4>1. w \in ToSet(Wiring(c, world))
        BY <2>1, WiringIs
      <4> QED BY <2>1, <4>1, BuildIs DEF PartsOf
    <3>5. w.kind = "install_ci"
      BY <2>1, CiActs DEF Acts
    <3> QED BY <2>1, <3>3, <3>4, <3>5 DEF Of
  <2>9. /\ a.kind = "provision_github" /\ a.item = "ruleset"
        /\ ~Set_(c, <<"github", "ruleset">>, "required_status_checks")
        => a.options["required_status_checks"][2] \subseteq
             {Contexts[w.item] : w \in {x \in Of({"install_ci"}) :
                x.item \in DOMAIN Contexts /\ x.target = <<".", ".github", "workflows">>}}
    BY <2>8
  <2>10. /\ a.kind = "provision_linter_config" /\ a.item = "rig-oxlint-policy"
         /\ a.options["rig_owned"] = Bool(TRUE) /\ AntiSlopRequired(c)
         => \E b \in Of({"provision_linter_bundle"}) : b.target = AntiSlopTarget
    BY <2>7
  <2> HIDE DEF a, s
  <2> QED BY <2>4, <2>5, <2>6, <2>9, <2>10, Zenon DEF a, s, c
<1> QED BY <1>1, IInvIsInvariant, PTL

=============================================================================
