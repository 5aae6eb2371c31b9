-------------------------- MODULE ArtifactStoreProofs --------------------------
(***************************************************************************)
(* Theorems about an ArtifactStore, for every set of parameters the schema *)
(* of xrd.yaml allows, any number of edits and any number of restarts.     *)
(***************************************************************************)
EXTENDS ArtifactStore, FiniteSetTheorems, WellFoundedInduction, SequenceTheorems, TLAPS

--------------------------------------------------------------------------------
(* Induction.  The induction theorems of the library take a predicate; here a  *)
(* set of numbers stands for it.                                               *)

\* A set of natural numbers has a least element: take the shortest of the intervals 1..n.
LEMMA Least ==
  ASSUME NEW S \in SUBSET Nat, S # {}
  PROVE  \E m \in S : \A k \in S : m <= k
<1> DEFINE Intervals == {1 .. n : n \in S}
<1>1. Intervals \subseteq FiniteSubsetsOf(Nat) /\ Intervals # {}
  <2>1. \A n \in S : IsFiniteSet(1 .. n) /\ 1 .. n \subseteq Nat
    BY FS_Interval
  <2> QED
    BY <2>1 DEF FiniteSubsetsOf
<1>2. IsWellFoundedOn(StrictSubsetOrdering(Nat), FiniteSubsetsOf(Nat))
  BY FS_StrictSubsetOrderingWellFounded
<1>3. PICK I \in Intervals : \A J \in Intervals : <<J, I>> \notin StrictSubsetOrdering(Nat)
  <2> HIDE DEF Intervals
  <2> QED
    BY <1>1, <1>2, WFMin
<1>4. PICK m \in S : I = 1 .. m
  BY <1>3
<1>5. ASSUME NEW k \in S, k < m PROVE FALSE
  <2>1. 1 .. k \in Intervals /\ 1 .. k \subseteq 1 .. m /\ m \in 1 .. m /\ m \notin 1 .. k
    BY <1>5
  <2>2. <<1 .. k, 1 .. m>> \in StrictSubsetOrdering(Nat)
    BY <2>1 DEF StrictSubsetOrdering
  <2> QED
    BY <1>3, <1>4, <2>1, <2>2
<1> QED
  BY <1>5

LEMMA Induction ==
  ASSUME NEW a \in Nat, NEW b \in Nat, NEW S, a \in S,
         \A k \in a .. b - 1 : k \in S => k + 1 \in S
  PROVE  \A k \in a .. b : k \in S
<1> DEFINE Bad == {k \in a .. b : k \notin S}
<1>1. SUFFICES ASSUME Bad # {} PROVE FALSE
  OBVIOUS
<1>2. PICK m \in Bad : \A k \in Bad : m <= k
  BY <1>1, Least, Bad \in SUBSET Nat
<1>3. m - 1 \in a .. b - 1 /\ m - 1 \notin Bad
  BY <1>2
<1> QED
  BY <1>2, <1>3

--------------------------------------------------------------------------------
(* The functions of the patch engine, each as the code computes it: one step   *)
(* from what the steps before it left.                                         *)

\* The nodes along a path, from the root.
LEMMA NodesAre ==
  ASSUME NEW obj, NEW path, Len(path) \in Nat
  PROVE  Nodes(obj, path) = [i \in 0 .. Len(path) |->
           IF i = 0 THEN obj
           ELSE Child(Nodes(obj, path)[i - 1], path[i])]
<1> DEFINE After(u, i) == Child(u, path[i])
           Defines(f, n) ==
             f = [i \in 0 .. n |-> IF i = 0 THEN obj ELSE After(f[i - 1], i)]
           Defined == {n \in 0 .. Len(path) : \E f : Defines(f, n)}
<1>1. 0 \in Defined
  <2>1. Defines([i \in 0 .. 0 |-> obj], 0)
    OBVIOUS
  <2> HIDE DEF Defines
  <2> QED
    BY <2>1
<1>2. ASSUME NEW n \in 0 .. Len(path) - 1, n \in Defined PROVE n + 1 \in Defined
  <2>1. PICK f : Defines(f, n)
    BY <1>2
  <2> DEFINE g == [i \in 0 .. n + 1 |-> IF i = n + 1 THEN After(f[n], n + 1) ELSE f[i]]
  <2> HIDE DEF After
  <2>2. g = [i \in 0 .. n + 1 |-> IF i = 0 THEN obj ELSE After(g[i - 1], i)]
    <3>1. ASSUME NEW i \in 0 .. n + 1
          PROVE  g[i] = IF i = 0 THEN obj ELSE After(g[i - 1], i)
      <4>1. CASE i = 0
        BY <2>1, <4>1
      <4>2. CASE i \in 1 .. n
        BY <2>1, <4>2
      <4>3. CASE i = n + 1
        BY <4>3
      <4> QED
        BY <4>1, <4>2, <4>3
    <3> QED
      BY <3>1
  <2>3. Defines(g, n + 1)
    BY <2>2
  <2> HIDE DEF Defines
  <2> QED
    BY <2>3
<1>3. Len(path) \in Defined
  <2>1. \A n \in 0 .. Len(path) : n \in Defined
    <3> HIDE DEF Defined
    <3> QED
      BY <1>1, <1>2, Induction
  <2> HIDE DEF Defined
  <2> QED
    BY <2>1
<1>4. \E f : Defines(f, Len(path))
  <2> HIDE DEF Defines
  <2> QED
    BY <1>3
<1> QED
  BY <1>4 DEF Nodes

\* What set_path makes of them, from the value back.
LEMMA RebuiltAre ==
  ASSUME NEW obj, NEW path, NEW value, Len(path) \in Nat
  PROVE  Rebuilt(obj, path, value) = [i \in 0 .. Len(path) |->
           IF i = 0 THEN value
           ELSE With(Nodes(obj, path)[Len(path) - i], path[Len(path) - i + 1],
                     Rebuilt(obj, path, value)[i - 1], Filler(path, Len(path) - i + 1))]
<1> DEFINE After(u, i) == With(Nodes(obj, path)[Len(path) - i], path[Len(path) - i + 1],
                     u, Filler(path, Len(path) - i + 1))
           Defines(f, n) ==
             f = [i \in 0 .. n |-> IF i = 0 THEN value ELSE After(f[i - 1], i)]
           Defined == {n \in 0 .. Len(path) : \E f : Defines(f, n)}
<1>1. 0 \in Defined
  <2>1. Defines([i \in 0 .. 0 |-> value], 0)
    OBVIOUS
  <2> HIDE DEF Defines
  <2> QED
    BY <2>1
<1>2. ASSUME NEW n \in 0 .. Len(path) - 1, n \in Defined PROVE n + 1 \in Defined
  <2>1. PICK f : Defines(f, n)
    BY <1>2
  <2> DEFINE g == [i \in 0 .. n + 1 |-> IF i = n + 1 THEN After(f[n], n + 1) ELSE f[i]]
  <2> HIDE DEF After
  <2>2. g = [i \in 0 .. n + 1 |-> IF i = 0 THEN value ELSE After(g[i - 1], i)]
    <3>1. ASSUME NEW i \in 0 .. n + 1
          PROVE  g[i] = IF i = 0 THEN value ELSE After(g[i - 1], i)
      <4>1. CASE i = 0
        BY <2>1, <4>1
      <4>2. CASE i \in 1 .. n
        BY <2>1, <4>2
      <4>3. CASE i = n + 1
        BY <4>3
      <4> QED
        BY <4>1, <4>2, <4>3
    <3> QED
      BY <3>1
  <2>3. Defines(g, n + 1)
    BY <2>2
  <2> HIDE DEF Defines
  <2> QED
    BY <2>3
<1>3. Len(path) \in Defined
  <2>1. \A n \in 0 .. Len(path) : n \in Defined
    <3> HIDE DEF Defined
    <3> QED
      BY <1>1, <1>2, Induction
  <2> HIDE DEF Defined
  <2> QED
    BY <2>1
<1>4. \E f : Defines(f, Len(path))
  <2> HIDE DEF Defines
  <2> QED
    BY <1>3
<1> QED
  BY <1>4 DEF Rebuilt

\* The text of a format, verb by verb.
LEMMA FormattingIs ==
  ASSUME NEW fmt, NEW values, Len(fmt) \in Nat
  PROVE  Formatting(fmt, values) = [i \in 0 .. Len(fmt) |->
           IF i = 0 THEN [next |-> 1, text |-> <<>>]
           ELSE Formatted(Formatting(fmt, values)[i - 1], fmt[i], values)]
<1> DEFINE After(u, i) == Formatted(u, fmt[i], values)
           Defines(f, n) ==
             f = [i \in 0 .. n |-> IF i = 0 THEN [next |-> 1, text |-> <<>>] ELSE After(f[i - 1], i)]
           Defined == {n \in 0 .. Len(fmt) : \E f : Defines(f, n)}
<1>1. 0 \in Defined
  <2>1. Defines([i \in 0 .. 0 |-> [next |-> 1, text |-> <<>>]], 0)
    OBVIOUS
  <2> HIDE DEF Defines
  <2> QED
    BY <2>1
<1>2. ASSUME NEW n \in 0 .. Len(fmt) - 1, n \in Defined PROVE n + 1 \in Defined
  <2>1. PICK f : Defines(f, n)
    BY <1>2
  <2> DEFINE g == [i \in 0 .. n + 1 |-> IF i = n + 1 THEN After(f[n], n + 1) ELSE f[i]]
  <2> HIDE DEF After
  <2>2. g = [i \in 0 .. n + 1 |-> IF i = 0 THEN [next |-> 1, text |-> <<>>] ELSE After(g[i - 1], i)]
    <3>1. ASSUME NEW i \in 0 .. n + 1
          PROVE  g[i] = IF i = 0 THEN [next |-> 1, text |-> <<>>] ELSE After(g[i - 1], i)
      <4>1. CASE i = 0
        BY <2>1, <4>1
      <4>2. CASE i \in 1 .. n
        BY <2>1, <4>2
      <4>3. CASE i = n + 1
        BY <4>3
      <4> QED
        BY <4>1, <4>2, <4>3
    <3> QED
      BY <3>1
  <2>3. Defines(g, n + 1)
    BY <2>2
  <2> HIDE DEF Defines
  <2> QED
    BY <2>3
<1>3. Len(fmt) \in Defined
  <2>1. \A n \in 0 .. Len(fmt) : n \in Defined
    <3> HIDE DEF Defined
    <3> QED
      BY <1>1, <1>2, Induction
  <2> HIDE DEF Defined
  <2> QED
    BY <2>1
<1>4. \E f : Defines(f, Len(fmt))
  <2> HIDE DEF Defines
  <2> QED
    BY <1>3
<1> QED
  BY <1>4 DEF Formatting

\* A value, transform by transform.
LEMMA TransformingIs ==
  ASSUME NEW value, NEW transforms, Len(transforms) \in Nat
  PROVE  Transforming(value, transforms) = [i \in 0 .. Len(transforms) |->
           IF i = 0 THEN value
           ELSE Transformed(Transforming(value, transforms)[i - 1], transforms[i])]
<1> DEFINE After(u, i) == Transformed(u, transforms[i])
           Defines(f, n) ==
             f = [i \in 0 .. n |-> IF i = 0 THEN value ELSE After(f[i - 1], i)]
           Defined == {n \in 0 .. Len(transforms) : \E f : Defines(f, n)}
<1>1. 0 \in Defined
  <2>1. Defines([i \in 0 .. 0 |-> value], 0)
    OBVIOUS
  <2> HIDE DEF Defines
  <2> QED
    BY <2>1
<1>2. ASSUME NEW n \in 0 .. Len(transforms) - 1, n \in Defined PROVE n + 1 \in Defined
  <2>1. PICK f : Defines(f, n)
    BY <1>2
  <2> DEFINE g == [i \in 0 .. n + 1 |-> IF i = n + 1 THEN After(f[n], n + 1) ELSE f[i]]
  <2> HIDE DEF After
  <2>2. g = [i \in 0 .. n + 1 |-> IF i = 0 THEN value ELSE After(g[i - 1], i)]
    <3>1. ASSUME NEW i \in 0 .. n + 1
          PROVE  g[i] = IF i = 0 THEN value ELSE After(g[i - 1], i)
      <4>1. CASE i = 0
        BY <2>1, <4>1
      <4>2. CASE i \in 1 .. n
        BY <2>1, <4>2
      <4>3. CASE i = n + 1
        BY <4>3
      <4> QED
        BY <4>1, <4>2, <4>3
    <3> QED
      BY <3>1
  <2>3. Defines(g, n + 1)
    BY <2>2
  <2> HIDE DEF Defines
  <2> QED
    BY <2>3
<1>3. Len(transforms) \in Defined
  <2>1. \A n \in 0 .. Len(transforms) : n \in Defined
    <3> HIDE DEF Defined
    <3> QED
      BY <1>1, <1>2, Induction
  <2> HIDE DEF Defined
  <2> QED
    BY <2>1
<1>4. \E f : Defines(f, Len(transforms))
  <2> HIDE DEF Defines
  <2> QED
    BY <1>3
<1> QED
  BY <1>4 DEF Transforming

\* The target of a patch set, patch by patch.
LEMMA PatchingIs ==
  ASSUME NEW xr, NEW target, NEW set, Len(set) \in Nat
  PROVE  Patching(xr, target, set) = [i \in 0 .. Len(set) |->
           IF i = 0 THEN target
           ELSE Patched(xr, Patching(xr, target, set)[i - 1], set[i])]
<1> DEFINE After(u, i) == Patched(xr, u, set[i])
           Defines(f, n) ==
             f = [i \in 0 .. n |-> IF i = 0 THEN target ELSE After(f[i - 1], i)]
           Defined == {n \in 0 .. Len(set) : \E f : Defines(f, n)}
<1>1. 0 \in Defined
  <2>1. Defines([i \in 0 .. 0 |-> target], 0)
    OBVIOUS
  <2> HIDE DEF Defines
  <2> QED
    BY <2>1
<1>2. ASSUME NEW n \in 0 .. Len(set) - 1, n \in Defined PROVE n + 1 \in Defined
  <2>1. PICK f : Defines(f, n)
    BY <1>2
  <2> DEFINE g == [i \in 0 .. n + 1 |-> IF i = n + 1 THEN After(f[n], n + 1) ELSE f[i]]
  <2> HIDE DEF After
  <2>2. g = [i \in 0 .. n + 1 |-> IF i = 0 THEN target ELSE After(g[i - 1], i)]
    <3>1. ASSUME NEW i \in 0 .. n + 1
          PROVE  g[i] = IF i = 0 THEN target ELSE After(g[i - 1], i)
      <4>1. CASE i = 0
        BY <2>1, <4>1
      <4>2. CASE i \in 1 .. n
        BY <2>1, <4>2
      <4>3. CASE i = n + 1
        BY <4>3
      <4> QED
        BY <4>1, <4>2, <4>3
    <3> QED
      BY <3>1
  <2>3. Defines(g, n + 1)
    BY <2>2
  <2> HIDE DEF Defines
  <2> QED
    BY <2>3
<1>3. Len(set) \in Defined
  <2>1. \A n \in 0 .. Len(set) : n \in Defined
    <3> HIDE DEF Defined
    <3> QED
      BY <1>1, <1>2, Induction
  <2> HIDE DEF Defined
  <2> QED
    BY <2>1
<1>4. \E f : Defines(f, Len(set))
  <2> HIDE DEF Defines
  <2> QED
    BY <1>3
<1> QED
  BY <1>4 DEF Patching

\* The target of a list of patches, patch by patch.
LEMMA ApplyingIs ==
  ASSUME NEW xr, NEW target, NEW patches, NEW patch_sets, Len(patches) \in Nat
  PROVE  Applying(xr, target, patches, patch_sets) = [i \in 0 .. Len(patches) |->
           IF i = 0 THEN target
           ELSE Applied(xr, Applying(xr, target, patches, patch_sets)[i - 1], patches[i], patch_sets)]
<1> DEFINE After(u, i) == Applied(xr, u, patches[i], patch_sets)
           Defines(f, n) ==
             f = [i \in 0 .. n |-> IF i = 0 THEN target ELSE After(f[i - 1], i)]
           Defined == {n \in 0 .. Len(patches) : \E f : Defines(f, n)}
<1>1. 0 \in Defined
  <2>1. Defines([i \in 0 .. 0 |-> target], 0)
    OBVIOUS
  <2> HIDE DEF Defines
  <2> QED
    BY <2>1
<1>2. ASSUME NEW n \in 0 .. Len(patches) - 1, n \in Defined PROVE n + 1 \in Defined
  <2>1. PICK f : Defines(f, n)
    BY <1>2
  <2> DEFINE g == [i \in 0 .. n + 1 |-> IF i = n + 1 THEN After(f[n], n + 1) ELSE f[i]]
  <2> HIDE DEF After
  <2>2. g = [i \in 0 .. n + 1 |-> IF i = 0 THEN target ELSE After(g[i - 1], i)]
    <3>1. ASSUME NEW i \in 0 .. n + 1
          PROVE  g[i] = IF i = 0 THEN target ELSE After(g[i - 1], i)
      <4>1. CASE i = 0
        BY <2>1, <4>1
      <4>2. CASE i \in 1 .. n
        BY <2>1, <4>2
      <4>3. CASE i = n + 1
        BY <4>3
      <4> QED
        BY <4>1, <4>2, <4>3
    <3> QED
      BY <3>1
  <2>3. Defines(g, n + 1)
    BY <2>2
  <2> HIDE DEF Defines
  <2> QED
    BY <2>3
<1>3. Len(patches) \in Defined
  <2>1. \A n \in 0 .. Len(patches) : n \in Defined
    <3> HIDE DEF Defined
    <3> QED
      BY <1>1, <1>2, Induction
  <2> HIDE DEF Defined
  <2> QED
    BY <2>1
<1>4. \E f : Defines(f, Len(patches))
  <2> HIDE DEF Defines
  <2> QED
    BY <1>3
<1> QED
  BY <1>4 DEF Applying

--------------------------------------------------------------------------------
(* Paths of names: what set_path writes is read back, and nothing else changes. *)

LEMMA NodeKinds ==
  /\ \A name : ~IsIndex(Name(name)) /\ Name(name).name = name
  /\ \A f : IsDict(Dict(f)) /\ Dict(f).dict = f /\ ~IsList(Dict(f)) /\ Dict(f) # None
  /\ \A t : ~IsDict(Text(t)) /\ Text(t).text = t /\ Text(t) # None
  /\ \A b : ~IsDict(Flag(b)) /\ Flag(b).flag = b /\ Flag(b) # None
  /\ ~IsDict(None)
<1>1. \A name : DOMAIN Name(name) = {"name"} /\ Name(name).name = name
  BY DEF Name
<1>2. \A f : DOMAIN Dict(f) = {"dict"} /\ Dict(f).dict = f
  BY DEF Dict
<1>3. \A t : DOMAIN Text(t) = {"text"} /\ Text(t).text = t
  BY DEF Text
<1>4. \A b : DOMAIN Flag(b) = {"flag"} /\ Flag(b).flag = b
  BY DEF Flag
<1>5. DOMAIN None = {"none"}
  BY DEF None
<1> QED
  BY <1>1, <1>2, <1>3, <1>4, <1>5 DEF IsIndex, IsDict, IsList

LEMMA PathIs ==
  ASSUME NEW S, NEW names \in Seq(S)
  PROVE  /\ Len(Path(names)) = Len(names) /\ Len(names) \in Nat
         /\ \A i \in 1 .. Len(names) : Path(names)[i] = Name(names[i])
  BY DEF Path, Name

\* The children of a rebuilt node: the new one, and the others as they were.
LEMMA ChildOfWith ==
  ASSUME NEW node, NEW name, NEW other, NEW below, NEW filler
  PROVE  Child(With(node, Name(name), below, filler), Name(other))
           = IF other = name THEN below ELSE Child(node, Name(other))
<1> DEFINE f == [d \in DOMAIN Entries(node) \cup {name} |->
                   IF d = name THEN below ELSE Entries(node)[d]]
<1>1. With(node, Name(name), below, filler) = Dict(f)
  BY NodeKinds DEF With
<1>2. Child(Dict(f), Name(other)) = IF other \in DOMAIN f THEN f[other] ELSE None
  <2> HIDE DEF f
  <2> QED
    BY NodeKinds DEF Child
<1>3. CASE IsDict(node)
  <2>1. Entries(node) = node.dict
    BY <1>3 DEF Entries
  <2>2. Child(node, Name(other)) = IF other \in DOMAIN node.dict THEN node.dict[other] ELSE None
    BY <1>3, NodeKinds DEF Child
  <2> QED
    BY <1>1, <1>2, <2>1, <2>2
<1>4. CASE ~IsDict(node)
  <2>1. DOMAIN Entries(node) = {}
    BY <1>4 DEF Entries
  <2>2. Child(node, Name(other)) = None
    BY <1>4, NodeKinds DEF Child
  <2> QED
    BY <1>1, <1>2, <2>1, <2>2
<1> QED
  BY <1>3, <1>4

\* The nodes along a path of names, one child after the other.
LEMMA NodeStep ==
  ASSUME NEW obj, NEW S, NEW names \in Seq(S), NEW i \in 1 .. Len(names)
  PROVE  /\ Nodes(obj, Path(names))[0] = obj
         /\ Nodes(obj, Path(names))[i] = Child(Nodes(obj, Path(names))[i - 1], Name(names[i]))
<1> DEFINE node == Nodes(obj, Path(names))
<1>1. node = [j \in 0 .. Len(names) |->
                IF j = 0 THEN obj ELSE Child(node[j - 1], Path(names)[j])]
  BY NodesAre, PathIs
<1> HIDE DEF node
<1>2. node[0] = obj /\ node[i] = Child(node[i - 1], Path(names)[i])
  BY <1>1
<1> QED
  BY <1>2, PathIs DEF node

LEMMA RebuiltStep ==
  ASSUME NEW obj, NEW S, NEW names \in Seq(S), NEW value,
         NEW i \in 0 .. Len(names) - 1, NEW k, k = i + 1
  PROVE  Rebuilt(obj, Path(names), value)[Len(names) - i]
           = With(Nodes(obj, Path(names))[i], Name(names[k]),
                  Rebuilt(obj, Path(names), value)[Len(names) - k],
                  Filler(Path(names), k))
<1> DEFINE back == Rebuilt(obj, Path(names), value)
           n == Len(names)
           node == Nodes(obj, Path(names))
           filler == Filler(Path(names), k)
<1>0. n \in Nat /\ Len(Path(names)) = n /\ i \in 0 .. n - 1
  BY PathIs
<1>1. back = [j \in 0 .. n |-> IF j = 0 THEN value
                               ELSE With(node[n - j], Path(names)[n - j + 1], back[j - 1],
                                         Filler(Path(names), n - j + 1))]
  <2>1. back = [j \in 0 .. Len(Path(names)) |->
                  IF j = 0 THEN value
                  ELSE With(node[Len(Path(names)) - j], Path(names)[Len(Path(names)) - j + 1],
                            back[j - 1], Filler(Path(names), Len(Path(names)) - j + 1))]
    BY <1>0, RebuiltAre
  <2> HIDE DEF back, n, node
  <2> QED
    BY <1>0, <2>1
<1>2. Path(names)[k] = Name(names[k]) /\ k = i + 1
  BY PathIs
<1> HIDE DEF back, n, node
<1>3. n - (n - i) = i /\ n - i - 1 = n - k /\ n - i \in 1 .. n /\ n - (n - i) + 1 = k
  BY <1>0, <1>2
<1>4. back[n - i] = With(node[i], Path(names)[k], back[n - k], filler)
  BY <1>0, <1>1, <1>3
<1> QED
  BY <1>2, <1>4 DEF back, n, node

\* Along the path that was written, the new tree has the rebuilt nodes.
LEMMA NodesOfSet ==
  ASSUME NEW obj, NEW S, NEW names \in Seq(S), NEW value, NEW at \in 0 .. Len(names)
  PROVE  Nodes(set_path(obj, Path(names), value), Path(names))[at]
           = Rebuilt(obj, Path(names), value)[Len(names) - at]
<1> DEFINE n == Len(names)
           new == Nodes(set_path(obj, Path(names), value), Path(names))
           back == Rebuilt(obj, Path(names), value)
           Good == {i \in 0 .. n : new[i] = back[n - i]}
<1>0. n \in Nat
  BY PathIs
<1>1. 0 \in Good
  <2>1. set_path(obj, Path(names), value) = back[n]
    BY PathIs DEF set_path
  <2>2. new[0] = set_path(obj, Path(names), value)
    BY NodesAre, PathIs
  <2> HIDE DEF new, back
  <2> QED
    BY <1>0, <2>1, <2>2
<1>2. ASSUME NEW i \in 0 .. n - 1, i \in Good PROVE i + 1 \in Good
  <2>1. i + 1 \in 1 .. n
    BY <1>0
  <2>2. new[i + 1] = Child(new[i + 1 - 1], Name(names[i + 1]))
    BY <2>1, NodeStep
  <2>3. back[n - i] = With(Nodes(obj, Path(names))[i], Name(names[i + 1]),
                           back[n - (i + 1)], Filler(Path(names), i + 1))
    BY RebuiltStep
  <2>4. Child(back[n - i], Name(names[i + 1])) = back[n - (i + 1)]
    BY <2>3, ChildOfWith
  <2>5. new[i] = back[n - i] /\ i + 1 - 1 = i /\ i + 1 \in 0 .. n
    BY <1>0, <1>2
  <2> HIDE DEF new, back, n
  <2> QED
    BY <2>2, <2>4, <2>5
<1>3. \A i \in 0 .. n : i \in Good
  <2> HIDE DEF Good
  <2> QED
    BY <1>0, <1>1, <1>2, Induction
<1>4. at \in Good
  <2> HIDE DEF Good
  <2> QED
    BY <1>3
<1> QED
  BY <1>4

\* get_path reads back what set_path wrote at the same path.
LEMMA GetSame ==
  ASSUME NEW obj, NEW S, NEW names \in Seq(S), NEW value
  PROVE  get_path(set_path(obj, Path(names), value), Path(names)) = value
<1>1. Len(names) \in 0 .. Len(names) /\ Len(names) - Len(names) = 0
      /\ Len(Path(names)) = Len(names) /\ Len(names) \in Nat
  BY PathIs
<1>2. Rebuilt(obj, Path(names), value)[0] = value
  BY <1>1, RebuiltAre
<1>3. Nodes(set_path(obj, Path(names), value), Path(names))[Len(names)]
        = Rebuilt(obj, Path(names), value)[Len(names) - Len(names)]
  BY <1>1, NodesOfSet
<1> QED
  BY <1>1, <1>2, <1>3 DEF get_path

\* set_path leaves alone what a path reads that branches off.
LEMMA GetOther ==
  ASSUME NEW obj, NEW S, NEW names \in Seq(S), NEW value, NEW T, NEW others \in Seq(T),
         NEW k \in 1 .. Len(names), k <= Len(others), names[k] # others[k],
         \A i \in 1 .. k - 1 : names[i] = others[i]
  PROVE  get_path(set_path(obj, Path(names), value), Path(others)) = get_path(obj, Path(others))
<1> DEFINE n == Len(names)
           m == Len(others)
           tree == set_path(obj, Path(names), value)
           old == Nodes(obj, Path(others))
           new == Nodes(tree, Path(others))
           onold == Nodes(obj, Path(names))
           onnew == Nodes(tree, Path(names))
           Shared == {i \in 0 .. k - 1 : old[i] = onold[i] /\ new[i] = onnew[i]}
           Same == {i \in k .. m : old[i] = new[i]}
<1>0. n \in Nat /\ m \in Nat /\ k \in 1 .. n /\ k \in 1 .. m
  BY PathIs
<1>1. 0 \in Shared
  <2>1. Len(Path(names)) = n /\ Len(Path(others)) = m
    BY PathIs
  <2>2. old[0] = obj /\ onold[0] = obj /\ new[0] = tree /\ onnew[0] = tree
    BY <1>0, <2>1, NodesAre
  <2> HIDE DEF old, onold, new, onnew, tree
  <2> QED
    BY <1>0, <2>2
<1>2. ASSUME NEW i \in 0 .. k - 1 - 1, i \in Shared PROVE i + 1 \in Shared
  <2>1. i + 1 \in 1 .. n /\ i + 1 \in 1 .. m /\ i + 1 \in 1 .. k - 1 /\ i + 1 - 1 = i
    BY <1>0
  <2>2. /\ old[i + 1] = Child(old[i], Name(others[i + 1]))
        /\ new[i + 1] = Child(new[i], Name(others[i + 1]))
        /\ onold[i + 1] = Child(onold[i], Name(names[i + 1]))
        /\ onnew[i + 1] = Child(onnew[i], Name(names[i + 1]))
    <3> HIDE DEF tree
    <3> QED
      BY <2>1, NodeStep
  <2>3. names[i + 1] = others[i + 1] /\ old[i] = onold[i] /\ new[i] = onnew[i]
    BY <1>2, <2>1
  <2> HIDE DEF old, onold, new, onnew, tree
  <2> QED
    BY <1>0, <2>1, <2>2, <2>3
<1>3. \A i \in 0 .. k - 1 : i \in Shared
  <2> HIDE DEF Shared
  <2> QED
    BY <1>0, <1>1, <1>2, Induction, k - 1 \in Nat
<1>4. k \in Same
  <2>1. k - 1 \in Shared
    <3> HIDE DEF Shared
    <3> QED
      BY <1>0, <1>3
  <2>2. old[k - 1] = onold[k - 1] /\ new[k - 1] = onnew[k - 1]
    BY <2>1
  <2>3. old[k] = Child(old[k - 1], Name(others[k])) /\ new[k] = Child(new[k - 1], Name(others[k]))
    <3> HIDE DEF tree
    <3> QED
      BY <1>0, NodeStep
  <2>4. onnew[k - 1] = Rebuilt(obj, Path(names), value)[n - (k - 1)]
    <3>1. k - 1 \in 0 .. Len(names)
      BY <1>0
    <3> HIDE DEF n, m, tree, old, new, onold, onnew, Shared, Same
    <3>2. Nodes(set_path(obj, Path(names), value), Path(names))[k - 1]
            = Rebuilt(obj, Path(names), value)[Len(names) - (k - 1)]
      BY <3>1, NodesOfSet
    <3> QED
      BY <3>2 DEF onnew, tree, n
  <2>5. k - 1 \in 0 .. n - 1 /\ k - 1 + 1 = k
    BY <1>0
  <2>6. Rebuilt(obj, Path(names), value)[n - (k - 1)]
          = With(onold[k - 1], Name(names[k]), Rebuilt(obj, Path(names), value)[n - k],
                 Filler(Path(names), k))
    <3>1. k - 1 \in 0 .. Len(names) - 1 /\ k = k - 1 + 1
      BY <2>5
    <3> HIDE DEF n, m, tree, old, new, onold, onnew, Shared, Same
    <3>2. Rebuilt(obj, Path(names), value)[Len(names) - (k - 1)]
            = With(Nodes(obj, Path(names))[k - 1], Name(names[k]),
                   Rebuilt(obj, Path(names), value)[Len(names) - k], Filler(Path(names), k))
      BY <3>1, RebuiltStep
    <3> QED
      BY <3>2 DEF onold, n
  <2>7. Child(onnew[k - 1], Name(others[k])) = Child(onold[k - 1], Name(others[k]))
    BY <2>4, <2>5, <2>6, ChildOfWith
  <2> HIDE DEF old, onold, new, onnew, tree
  <2> QED
    BY <1>0, <2>2, <2>3, <2>7
<1>5. ASSUME NEW i \in k .. m - 1, i \in Same PROVE i + 1 \in Same
  <2>1. i + 1 \in 1 .. m /\ i + 1 - 1 = i /\ i + 1 \in k .. m
    BY <1>0
  <2>2. old[i + 1] = Child(old[i], Name(others[i + 1]))
        /\ new[i + 1] = Child(new[i], Name(others[i + 1]))
    <3> HIDE DEF tree
    <3> QED
      BY <2>1, NodeStep
  <2>3. old[i] = new[i]
    BY <1>5
  <2> HIDE DEF old, new
  <2> QED
    BY <2>1, <2>2, <2>3
<1>6. \A i \in k .. m : i \in Same
  <2>1. k \in Nat
    BY <1>0
  <2> HIDE DEF Same
  <2> QED
    BY <1>0, <1>4, <1>5, <2>1, Induction
<1>7. m \in Same
  <2> HIDE DEF Same
  <2> QED
    BY <1>0, <1>6
<1>8. Len(Path(others)) = m
  BY PathIs
<1>9. old[m] = new[m]
  BY <1>7
<1> QED
  BY <1>8, <1>9 DEF get_path

--------------------------------------------------------------------------------
(* The patch engine on the short lists of the composition.                      *)

LEMMA GetTwo ==
  ASSUME NEW obj, NEW a, NEW b
  PROVE  get_path(obj, Path(<<a, b>>)) = Child(Child(obj, Name(a)), Name(b))
<1>1. SUFFICES ASSUME NEW names, names = <<a, b>>
             PROVE  get_path(obj, Path(names)) = Child(Child(obj, Name(a)), Name(b))
  OBVIOUS
<1> DEFINE node == Nodes(obj, Path(names))
<1>2. names \in Seq({a, b})
  BY <1>1
<1>3. Len(names) = 2 /\ names[1] = a /\ names[2] = b
  BY <1>1
<1>4. Len(Path(names)) = 2
  BY <1>2, <1>3, PathIs
<1>5. 1 \in 1 .. Len(names) /\ 2 \in 1 .. Len(names)
  BY <1>3
<1>6. node[1] = Child(node[0], Name(a))
  <2>1. node[1] = Child(node[0], Name(names[1]))
    BY <1>2, <1>5, NodeStep
  <2> HIDE DEF node
  <2> QED
    BY <1>3, <2>1
<1>7. node[2] = Child(node[1], Name(b))
  <2>1. node[2] = Child(node[1], Name(names[2]))
    BY <1>2, <1>5, NodeStep
  <2> HIDE DEF node
  <2> QED
    BY <1>3, <2>1
<1>8. node[0] = obj
  BY <1>2, <1>5, NodeStep
<1>9. get_path(obj, Path(names)) = node[2]
  BY <1>4 DEF get_path
<1> QED
  BY <1>6, <1>7, <1>8, <1>9

LEMMA GetThree ==
  ASSUME NEW obj, NEW a, NEW b, NEW c
  PROVE  get_path(obj, Path(<<a, b, c>>)) = Child(Child(Child(obj, Name(a)), Name(b)), Name(c))
<1>1. SUFFICES ASSUME NEW names, names = <<a, b, c>>
             PROVE  get_path(obj, Path(names)) = Child(Child(Child(obj, Name(a)), Name(b)), Name(c))
  OBVIOUS
<1> DEFINE node == Nodes(obj, Path(names))
<1>2. names \in Seq({a, b, c})
  BY <1>1
<1>3. Len(names) = 3 /\ names[1] = a /\ names[2] = b /\ names[3] = c
  BY <1>1
<1>4. Len(Path(names)) = 3
  BY <1>2, <1>3, PathIs
<1>5. 1 \in 1 .. Len(names) /\ 2 \in 1 .. Len(names) /\ 3 \in 1 .. Len(names)
  BY <1>3
<1>6. node[1] = Child(node[0], Name(a))
  <2>1. node[1] = Child(node[0], Name(names[1]))
    BY <1>2, <1>5, NodeStep
  <2> HIDE DEF node
  <2> QED
    BY <1>3, <2>1
<1>7. node[2] = Child(node[1], Name(b))
  <2>1. node[2] = Child(node[1], Name(names[2]))
    BY <1>2, <1>5, NodeStep
  <2> HIDE DEF node
  <2> QED
    BY <1>3, <2>1
<1>8. node[3] = Child(node[2], Name(c))
  <2>1. node[3] = Child(node[2], Name(names[3]))
    BY <1>2, <1>5, NodeStep
  <2> HIDE DEF node
  <2> QED
    BY <1>3, <2>1
<1>9. node[0] = obj
  BY <1>2, <1>5, NodeStep
<1>10. get_path(obj, Path(names)) = node[3]
  BY <1>4 DEF get_path
<1> QED
  BY <1>6, <1>7, <1>8, <1>9, <1>10

\* A list of patches, one after the other.
LEMMA ApplyNext ==
  ASSUME NEW xr, NEW target, NEW patches, NEW sets, Len(patches) \in Nat,
         NEW i \in Nat, NEW j \in Nat, j = i + 1, j <= Len(patches)
  PROVE  Applying(xr, target, patches, sets)[j]
           = Applied(xr, Applying(xr, target, patches, sets)[i], patches[j], sets)
<1>1. j \in 1 .. Len(patches) /\ j # 0 /\ j - 1 = i /\ j \in 0 .. Len(patches)
  OBVIOUS
<1> DEFINE obj == Applying(xr, target, patches, sets)
<1>2. obj[j] = Applied(xr, obj[j - 1], patches[j], sets)
  BY <1>1, ApplyingIs
<1> HIDE DEF obj
<1>3. obj[j] = Applied(xr, obj[i], patches[j], sets)
  BY <1>1, <1>2
<1> QED
  BY <1>3 DEF obj

LEMMA ApplyFive ==
  ASSUME NEW xr, NEW target, NEW sets, NEW a, NEW b, NEW c, NEW d, NEW e
  PROVE  apply_patches(xr, target, <<a, b, c, d, e>>, sets)
           = Applied(xr, Applied(xr, Applied(xr, Applied(xr, Applied(xr, target, a, sets),
               b, sets), c, sets), d, sets), e, sets)
<1>0. SUFFICES ASSUME NEW patches, patches = <<a, b, c, d, e>>
             PROVE  apply_patches(xr, target, patches, sets)
                      = Applied(xr, Applied(xr, Applied(xr, Applied(xr, Applied(xr, target,
                          a, sets), b, sets), c, sets), d, sets), e, sets)
  OBVIOUS
<1> DEFINE obj == Applying(xr, target, patches, sets)
<1>1. Len(patches) = 5 /\ Len(patches) \in Nat
      /\ patches[1] = a /\ patches[2] = b /\ patches[3] = c /\ patches[4] = d /\ patches[5] = e
  BY <1>0
<1>2. Len(patches) \in Nat /\ 5 <= Len(patches)
  BY <1>1
<1>3. apply_patches(xr, target, patches, sets) = obj[5]
  BY <1>1 DEF apply_patches
<1>4. obj[0] = target
  BY <1>2, ApplyingIs
<1>5. obj[1] = Applied(xr, obj[0], a, sets)
  <2>1. obj[1] = Applied(xr, obj[0], patches[1], sets)
    BY <1>2, ApplyNext
  <2> HIDE DEF obj
  <2> QED
    BY <1>1, <2>1
<1>6. obj[2] = Applied(xr, obj[1], b, sets)
  <2>1. obj[2] = Applied(xr, obj[1], patches[2], sets)
    BY <1>2, ApplyNext
  <2> HIDE DEF obj
  <2> QED
    BY <1>1, <2>1
<1>7. obj[3] = Applied(xr, obj[2], c, sets)
  <2>1. obj[3] = Applied(xr, obj[2], patches[3], sets)
    BY <1>2, ApplyNext
  <2> HIDE DEF obj
  <2> QED
    BY <1>1, <2>1
<1>8. obj[4] = Applied(xr, obj[3], d, sets)
  <2>1. obj[4] = Applied(xr, obj[3], patches[4], sets)
    BY <1>2, ApplyNext
  <2> HIDE DEF obj
  <2> QED
    BY <1>1, <2>1
<1>9. obj[5] = Applied(xr, obj[4], e, sets)
  <2>1. obj[5] = Applied(xr, obj[4], patches[5], sets)
    BY <1>2, ApplyNext
  <2> HIDE DEF obj
  <2> QED
    BY <1>1, <2>1
<1> QED
  BY <1>3, <1>4, <1>5, <1>6, <1>7, <1>8, <1>9

LEMMA ApplyFour ==
  ASSUME NEW xr, NEW target, NEW sets, NEW a, NEW b, NEW c, NEW d
  PROVE  apply_patches(xr, target, <<a, b, c, d>>, sets)
           = Applied(xr, Applied(xr, Applied(xr, Applied(xr, target, a, sets),
               b, sets), c, sets), d, sets)
<1>0. SUFFICES ASSUME NEW patches, patches = <<a, b, c, d>>
             PROVE  apply_patches(xr, target, patches, sets)
                      = Applied(xr, Applied(xr, Applied(xr, Applied(xr, target, a, sets),
                          b, sets), c, sets), d, sets)
  OBVIOUS
<1> DEFINE obj == Applying(xr, target, patches, sets)
<1>1. Len(patches) = 4 /\ Len(patches) \in Nat
      /\ patches[1] = a /\ patches[2] = b /\ patches[3] = c /\ patches[4] = d
  BY <1>0
<1>2. Len(patches) \in Nat /\ 4 <= Len(patches)
  BY <1>1
<1>3. apply_patches(xr, target, patches, sets) = obj[4]
  BY <1>1 DEF apply_patches
<1>4. obj[0] = target
  BY <1>2, ApplyingIs
<1>5. obj[1] = Applied(xr, obj[0], a, sets)
  <2>1. obj[1] = Applied(xr, obj[0], patches[1], sets)
    BY <1>2, ApplyNext
  <2> HIDE DEF obj
  <2> QED
    BY <1>1, <2>1
<1>6. obj[2] = Applied(xr, obj[1], b, sets)
  <2>1. obj[2] = Applied(xr, obj[1], patches[2], sets)
    BY <1>2, ApplyNext
  <2> HIDE DEF obj
  <2> QED
    BY <1>1, <2>1
<1>7. obj[3] = Applied(xr, obj[2], c, sets)
  <2>1. obj[3] = Applied(xr, obj[2], patches[3], sets)
    BY <1>2, ApplyNext
  <2> HIDE DEF obj
  <2> QED
    BY <1>1, <2>1
<1>8. obj[4] = Applied(xr, obj[3], d, sets)
  <2>1. obj[4] = Applied(xr, obj[3], patches[4], sets)
    BY <1>2, ApplyNext
  <2> HIDE DEF obj
  <2> QED
    BY <1>1, <2>1
<1> QED
  BY <1>3, <1>4, <1>5, <1>6, <1>7, <1>8

LEMMA ApplyTwo ==
  ASSUME NEW xr, NEW target, NEW sets, NEW a, NEW b
  PROVE  apply_patches(xr, target, <<a, b>>, sets)
           = Applied(xr, Applied(xr, target, a, sets), b, sets)
<1>0. SUFFICES ASSUME NEW patches, patches = <<a, b>>
             PROVE  apply_patches(xr, target, patches, sets)
                      = Applied(xr, Applied(xr, target, a, sets), b, sets)
  OBVIOUS
<1> DEFINE obj == Applying(xr, target, patches, sets)
<1>1. Len(patches) = 2 /\ Len(patches) \in Nat /\ patches[1] = a /\ patches[2] = b
  BY <1>0
<1>2. Len(patches) \in Nat /\ 2 <= Len(patches)
  BY <1>1
<1>3. apply_patches(xr, target, patches, sets) = obj[2]
  BY <1>1 DEF apply_patches
<1>4. obj[0] = target
  BY <1>2, ApplyingIs
<1>5. obj[1] = Applied(xr, obj[0], a, sets)
  <2>1. obj[1] = Applied(xr, obj[0], patches[1], sets)
    BY <1>2, ApplyNext
  <2> HIDE DEF obj
  <2> QED
    BY <1>1, <2>1
<1>6. obj[2] = Applied(xr, obj[1], b, sets)
  <2>1. obj[2] = Applied(xr, obj[1], patches[2], sets)
    BY <1>2, ApplyNext
  <2> HIDE DEF obj
  <2> QED
    BY <1>1, <2>1
<1> QED
  BY <1>3, <1>4, <1>5, <1>6

LEMMA ApplyOne ==
  ASSUME NEW xr, NEW target, NEW sets, NEW a
  PROVE  apply_patches(xr, target, <<a>>, sets) = Applied(xr, target, a, sets)
<1>0. SUFFICES ASSUME NEW patches, patches = <<a>>
               PROVE  apply_patches(xr, target, patches, sets) = Applied(xr, target, a, sets)
  OBVIOUS
<1> DEFINE obj == Applying(xr, target, patches, sets)
<1>1. Len(patches) = 1 /\ patches[1] = a
  BY <1>0
<1>2. Len(patches) \in Nat /\ 1 <= Len(patches)
  BY <1>1
<1>3. apply_patches(xr, target, patches, sets) = obj[1]
  BY <1>1 DEF apply_patches
<1>4. obj[0] = target
  BY <1>2, ApplyingIs
<1>5. obj[1] = Applied(xr, obj[0], patches[1], sets)
  BY <1>2, ApplyNext
<1> HIDE DEF obj
<1> QED
  BY <1>1, <1>3, <1>4, <1>5

\* A patch set of one patch.
LEMMA PatchSetOfOne ==
  ASSUME NEW xr, NEW obj, NEW p, p.type = "PatchSet",
         NEW q, NEW sets, sets[p.patchSetName] = <<q>>
  PROVE  Applied(xr, obj, p, sets) = Patched(xr, obj, q)
<1>0. SUFFICES ASSUME NEW set, set = <<q>>, sets[p.patchSetName] = set
               PROVE  Applied(xr, obj, p, sets) = Patched(xr, obj, q)
  OBVIOUS
<1> DEFINE after == Patching(xr, obj, set)
<1>1. Len(set) = 1 /\ Len(set) \in Nat /\ set[1] = q
  BY <1>0
<1>2. after[0] = obj /\ after[1] = Patched(xr, after[0], set[1])
  BY <1>1, PatchingIs
<1>3. Applied(xr, obj, p, sets) = after[Len(set)]
  BY <1>0 DEF Applied
<1> HIDE DEF after
<1> QED
  BY <1>1, <1>2, <1>3

\* Patches of each type.
LEMMA PatchedFrom ==
  ASSUME NEW xr, NEW obj, NEW p, p.type = "FromCompositeFieldPath", NEW sets
  PROVE  /\ Applied(xr, obj, p, sets) = Patched(xr, obj, p)
         /\ get_path(xr, p.from) = None => Patched(xr, obj, p) = obj
         /\ get_path(xr, p.from) # None =>
              Patched(xr, obj, p)
                = set_path(obj, p.to, transform(get_path(xr, p.from), p.transforms))
  BY DEF Applied, Patched

LEMMA PatchedToXR ==
  ASSUME NEW xr, NEW obj, NEW sets
  PROVE  Applied(xr, obj, ToXR, sets) = obj
  BY DEF Applied, Patched, ToXR

\* A combination of two sources that are there.
LEMMA PatchedCombine ==
  ASSUME NEW xr, NEW obj, NEW p, p.type = "CombineFromComposite", NEW sets,
         NEW a, NEW b, p.variables = <<a, b>>,
         get_path(xr, a) # None, get_path(xr, b) # None
  PROVE  /\ Applied(xr, obj, p, sets) = Patched(xr, obj, p)
         /\ Patched(xr, obj, p)
              = set_path(obj, p.to, Text(go_format(p.fmt,
                  <<Str(get_path(xr, a)), Str(get_path(xr, b))>>)))
<1> DEFINE values == [i \in DOMAIN p.variables |-> get_path(xr, p.variables[i])]
           texts == [i \in DOMAIN values |-> Str(values[i])]
<1>1. DOMAIN p.variables = {1, 2} /\ p.variables[1] = a /\ p.variables[2] = b
  OBVIOUS
<1>2. DOMAIN values = {1, 2} /\ values[1] = get_path(xr, a) /\ values[2] = get_path(xr, b)
  BY <1>1
<1>3. \A i \in DOMAIN values : values[i] # None
  BY <1>2
<1>4. Patched(xr, obj, p) = IF \E i \in DOMAIN values : values[i] = None THEN obj
                            ELSE set_path(obj, p.to, Text(go_format(p.fmt, texts)))
  BY DEF Patched
<1>5. texts = <<Str(get_path(xr, a)), Str(get_path(xr, b))>>
  <2> HIDE DEF values
  <2> QED
    BY <1>2
<1>6. Applied(xr, obj, p, sets) = Patched(xr, obj, p)
  BY DEF Applied
<1> QED
  BY <1>3, <1>4, <1>5, <1>6

\* Without one of its sources a combination is left out.
LEMMA CombineSkipped ==
  ASSUME NEW xr, NEW obj, NEW p, p.type = "CombineFromComposite", NEW sets,
         NEW a, NEW b, p.variables = <<a, b>>, get_path(xr, a) = None \/ get_path(xr, b) = None
  PROVE  Applied(xr, obj, p, sets) = obj
<1> DEFINE values == [i \in DOMAIN p.variables |-> get_path(xr, p.variables[i])]
<1>1. DOMAIN p.variables = {1, 2} /\ p.variables[1] = a /\ p.variables[2] = b
  OBVIOUS
<1>2. \E i \in DOMAIN values : values[i] = None
  BY <1>1
<1> QED
  BY <1>2 DEF Applied, Patched

LEMMA TransformNone ==
  ASSUME NEW value
  PROVE  transform(value, <<>>) = value
<1>1. Len(<<>>) = 0 /\ Len(<<>>) \in Nat
  OBVIOUS
<1>2. Transforming(value, <<>>)[0] = value
  BY <1>1, TransformingIs
<1> QED
  BY <1>1, <1>2 DEF transform

LEMMA TransformOne ==
  ASSUME NEW value, NEW t
  PROVE  transform(value, <<t>>) = Transformed(value, t)
<1>0. SUFFICES ASSUME NEW ts, ts = <<t>> PROVE transform(value, ts) = Transformed(value, t)
  OBVIOUS
<1> DEFINE v == Transforming(value, ts)
<1>1. Len(ts) = 1 /\ Len(ts) \in Nat /\ ts[1] = t
  BY <1>0
<1>2. v[0] = value /\ v[1] = Transformed(v[0], ts[1])
  BY <1>1, TransformingIs
<1>3. transform(value, ts) = v[1]
  BY <1>1 DEF transform
<1> HIDE DEF v
<1> QED
  BY <1>1, <1>2, <1>3

--------------------------------------------------------------------------------
(* The formats of the composition.                                              *)

(* What has been formatted: the next position is k, the text so far is t. *)
Reached(s, k, t) == s = [next |-> k, text |-> t]

LEMMA FormattedWord ==
  ASSUME NEW s, NEW k, NEW t, Reached(s, k, t), NEW v, NEW w, v = Word(w), NEW values
  PROVE  Reached(Formatted(s, v, values), k, Append(t, w))
  BY DEF Formatted, Word, Reached

LEMMA FormattedArg ==
  ASSUME NEW s, NEW k \in Nat, NEW t, Reached(s, k, t), NEW v, v = Arg,
         NEW values, NEW u, u = values[k], NEW j, j = k + 1
  PROVE  Reached(Formatted(s, v, values), j, t \o u)
<1>1. DOMAIN Arg # {"word"} /\ Arg.arg = 0
  BY DEF Arg
<1> QED
  BY <1>1 DEF Formatted, Reached

LEMMA FormattedArgAt ==
  ASSUME NEW s, NEW k, NEW t, Reached(s, k, t), NEW i \in Nat \ {0}, NEW v, v = ArgAt(i),
         NEW values, NEW u, u = values[i], NEW j, j = i + 1
  PROVE  Reached(Formatted(s, v, values), j, t \o u)
<1>1. DOMAIN ArgAt(i) # {"word"} /\ ArgAt(i).arg = i
  BY DEF ArgAt
<1> QED
  BY <1>1 DEF Formatted, Reached

LEMMA FormattingNext ==
  ASSUME NEW fmt, NEW values, Len(fmt) \in Nat, NEW i \in Nat, NEW j \in Nat, j = i + 1,
         j <= Len(fmt)
  PROVE  /\ Reached(Formatting(fmt, values)[0], 1, <<>>)
         /\ Formatting(fmt, values)[j] = Formatted(Formatting(fmt, values)[i], fmt[j], values)
<1>1. j \in 1 .. Len(fmt) /\ j # 0 /\ j - 1 = i /\ j \in 0 .. Len(fmt) /\ 0 \in 0 .. Len(fmt)
  OBVIOUS
<1> DEFINE state == Formatting(fmt, values)
<1>2. state[0] = [next |-> 1, text |-> <<>>]
      /\ state[j] = Formatted(state[j - 1], fmt[j], values)
  BY <1>1, FormattingIs
<1> HIDE DEF state
<1>3. state[j] = Formatted(state[i], fmt[j], values)
  BY <1>1, <1>2
<1> QED
  BY <1>2, <1>3 DEF state, Reached

\* The name of a bucket: two values joined by a dash.
LEMMA FormatJoined ==
  ASSUME NEW S, "-" \in S, NEW x \in Seq(S), NEW y \in Seq(S)
  PROVE  go_format(<<Arg, Word("-"), Arg>>, <<x, y>>) = (x \o <<"-">>) \o y
<1>0. SUFFICES ASSUME NEW fmt, fmt = <<Arg, Word("-"), Arg>>, NEW values, values = <<x, y>>
               PROVE  go_format(fmt, values) = (x \o <<"-">>) \o y
  OBVIOUS
<1> DEFINE state == Formatting(fmt, values)
<1>1. Len(fmt) = 3 /\ fmt[1] = Arg /\ fmt[2] = Word("-") /\ fmt[3] = Arg
      /\ values[1] = x /\ values[2] = y
  BY <1>0
<1>2. Len(fmt) \in Nat /\ 3 <= Len(fmt)
  BY <1>1
<1>3. Reached(state[0], 1, <<>>) /\ state[1] = Formatted(state[0], fmt[1], values)
  BY <1>2, FormattingNext
<1>4. state[2] = Formatted(state[1], fmt[2], values)
  BY <1>2, FormattingNext
<1>5. state[3] = Formatted(state[2], fmt[3], values)
  BY <1>2, FormattingNext
<1>6. go_format(fmt, values) = state[3].text
  BY <1>1 DEF go_format
<1> HIDE DEF state
<1>7. <<>> \o x = x /\ Append(x, "-") = x \o <<"-">>
  BY ConcatEmptySeq, AppendIsConcat
<1>8. Reached(state[1], 2, x)
  BY <1>1, <1>3, <1>7, FormattedArg, 1 \in Nat, 2 = 1 + 1
<1>9. Reached(state[2], 2, x \o <<"-">>)
  BY <1>1, <1>4, <1>7, <1>8, FormattedWord
<1>10. Reached(state[3], 3, (x \o <<"-">>) \o y)
  BY <1>1, <1>5, <1>9, FormattedArg, 2 \in Nat, 3 = 2 + 1
<1> QED
  BY <1>6, <1>10 DEF Reached

\* A statement that names one value.
LEMMA FormatOne ==
  ASSUME NEW w, NEW x
  PROVE  go_format(<<Word(w), Arg>>, <<x>>) = <<w>> \o x
<1>0. SUFFICES ASSUME NEW fmt, fmt = <<Word(w), Arg>>, NEW values, values = <<x>>
               PROVE  go_format(fmt, values) = <<w>> \o x
  OBVIOUS
<1> DEFINE state == Formatting(fmt, values)
<1>1. Len(fmt) = 2 /\ fmt[1] = Word(w) /\ fmt[2] = Arg /\ values[1] = x
  BY <1>0
<1>2. Len(fmt) \in Nat /\ 2 <= Len(fmt)
  BY <1>1
<1>3. Reached(state[0], 1, <<>>) /\ state[1] = Formatted(state[0], fmt[1], values)
  BY <1>2, FormattingNext
<1>4. state[2] = Formatted(state[1], fmt[2], values)
  BY <1>2, FormattingNext
<1>5. go_format(fmt, values) = state[2].text
  BY <1>1 DEF go_format
<1> HIDE DEF state
<1>6. Append(<<>>, w) = <<w>>
  OBVIOUS
<1>7. Reached(state[1], 1, <<w>>)
  BY <1>1, <1>3, <1>6, FormattedWord
<1>8. Reached(state[2], 2, <<w>> \o x)
  BY <1>1, <1>4, <1>7, FormattedArg, 1 \in Nat, 2 = 1 + 1
<1> QED
  BY <1>5, <1>8 DEF Reached

\* A statement that names two values.
LEMMA FormatPair ==
  ASSUME NEW w, NEW x, NEW y
  PROVE  go_format(<<Word(w), Arg, Arg>>, <<x, y>>) = (<<w>> \o x) \o y
<1>0. SUFFICES ASSUME NEW fmt, fmt = <<Word(w), Arg, Arg>>, NEW values, values = <<x, y>>
               PROVE  go_format(fmt, values) = (<<w>> \o x) \o y
  OBVIOUS
<1> DEFINE state == Formatting(fmt, values)
<1>1. Len(fmt) = 3 /\ fmt[1] = Word(w) /\ fmt[2] = Arg /\ fmt[3] = Arg
      /\ values[1] = x /\ values[2] = y
  BY <1>0
<1>2. Len(fmt) \in Nat /\ 3 <= Len(fmt)
  BY <1>1
<1>3. Reached(state[0], 1, <<>>) /\ state[1] = Formatted(state[0], fmt[1], values)
  BY <1>2, FormattingNext
<1>4. state[2] = Formatted(state[1], fmt[2], values)
  BY <1>2, FormattingNext
<1>5. state[3] = Formatted(state[2], fmt[3], values)
  BY <1>2, FormattingNext
<1>6. go_format(fmt, values) = state[3].text
  BY <1>1 DEF go_format
<1> HIDE DEF state
<1>7. Append(<<>>, w) = <<w>>
  OBVIOUS
<1>8. Reached(state[1], 1, <<w>>)
  BY <1>1, <1>3, <1>7, FormattedWord
<1>9. Reached(state[2], 2, <<w>> \o x)
  BY <1>1, <1>4, <1>8, FormattedArg, 1 \in Nat, 2 = 1 + 1
<1>10. Reached(state[3], 3, (<<w>> \o x) \o y)
  BY <1>1, <1>5, <1>9, FormattedArg, 2 \in Nat, 3 = 2 + 1
<1> QED
  BY <1>6, <1>10 DEF Reached

\* The policy document: two statements that each name the joined pair.
LEMMA FormatPolicy ==
  ASSUME NEW S, "-" \in S, "ListBucket" \in S, "ObjectReadWrite" \in S, "/*" \in S,
         NEW x \in Seq(S), NEW y \in Seq(S)
  PROVE  LET name == (x \o <<"-">>) \o y
         IN  go_format(<<Word("ListBucket"), ArgAt(1), Word("-"), ArgAt(2),
                         Word("ObjectReadWrite"), ArgAt(1), Word("-"), ArgAt(2), Word("/*")>>,
                       <<x, y>>)
               = (((<<"ListBucket">> \o name) \o <<"ObjectReadWrite">>) \o name) \o <<"/*">>
<1> DEFINE name == (x \o <<"-">>) \o y
           one == <<"ListBucket">> \o name
           two == one \o <<"ObjectReadWrite">>
<1>0. SUFFICES ASSUME NEW fmt, fmt = <<Word("ListBucket"), ArgAt(1), Word("-"), ArgAt(2),
                         Word("ObjectReadWrite"), ArgAt(1), Word("-"), ArgAt(2), Word("/*")>>,
                      NEW values, values = <<x, y>>
               PROVE  go_format(fmt, values) = (two \o name) \o <<"/*">>
  OBVIOUS
<1> DEFINE state == Formatting(fmt, values)
<1>1. Len(fmt) = 9 /\ fmt[1] = Word("ListBucket") /\ fmt[2] = ArgAt(1) /\ fmt[3] = Word("-")
      /\ fmt[4] = ArgAt(2) /\ fmt[5] = Word("ObjectReadWrite") /\ fmt[6] = ArgAt(1)
      /\ fmt[7] = Word("-") /\ fmt[8] = ArgAt(2) /\ fmt[9] = Word("/*")
  BY <1>0
<1>2. values[1] = x /\ values[2] = y
  BY <1>0
<1>3. Len(fmt) \in Nat /\ 9 <= Len(fmt)
  BY <1>1
<1>4. Reached(state[0], 1, <<>>) /\ state[1] = Formatted(state[0], fmt[1], values)
  BY <1>3, FormattingNext
<1>5. state[2] = Formatted(state[1], fmt[2], values)
  BY <1>3, FormattingNext
<1>6. state[3] = Formatted(state[2], fmt[3], values)
  BY <1>3, FormattingNext
<1>7. state[4] = Formatted(state[3], fmt[4], values)
  BY <1>3, FormattingNext
<1>8. state[5] = Formatted(state[4], fmt[5], values)
  BY <1>3, FormattingNext
<1>9. state[6] = Formatted(state[5], fmt[6], values)
  BY <1>3, FormattingNext
<1>10. state[7] = Formatted(state[6], fmt[7], values)
  BY <1>3, FormattingNext
<1>11. state[8] = Formatted(state[7], fmt[8], values)
  BY <1>3, FormattingNext
<1>12. state[9] = Formatted(state[8], fmt[9], values)
  BY <1>3, FormattingNext
<1>13. go_format(fmt, values) = state[9].text
  BY <1>1 DEF go_format
<1> HIDE DEF state
<1>14. /\ state[1] = Formatted(state[0], Word("ListBucket"), values)
       /\ state[2] = Formatted(state[1], ArgAt(1), values)
       /\ state[3] = Formatted(state[2], Word("-"), values)
       /\ state[4] = Formatted(state[3], ArgAt(2), values)
       /\ state[5] = Formatted(state[4], Word("ObjectReadWrite"), values)
       /\ state[6] = Formatted(state[5], ArgAt(1), values)
       /\ state[7] = Formatted(state[6], Word("-"), values)
       /\ state[8] = Formatted(state[7], ArgAt(2), values)
       /\ state[9] = Formatted(state[8], Word("/*"), values)
  BY <1>1, <1>4, <1>5, <1>6, <1>7, <1>8, <1>9, <1>10, <1>11, <1>12
<1>15. <<"ListBucket">> \in Seq(S) /\ <<"-">> \in Seq(S)
       /\ <<"ObjectReadWrite">> \in Seq(S)
  OBVIOUS
<1>16. name \in Seq(S) /\ one \in Seq(S) /\ two \in Seq(S)
  BY <1>15
\* Writing x, the dash and y after a text is writing the name after it.
<1>17. ASSUME NEW t \in Seq(S) PROVE Append(t \o x, "-") \o y = t \o name
  <2>1. Append(t \o x, "-") = (t \o x) \o <<"-">>
    BY AppendIsConcat
  <2>2. (t \o x) \o <<"-">> = t \o (x \o <<"-">>) /\ x \o <<"-">> \in Seq(S)
    BY <1>15, ConcatAssociative
  <2>3. ASSUME NEW z \in Seq(S) PROVE (t \o z) \o y = t \o (z \o y)
    BY ConcatAssociative
  <2>4. (t \o (x \o <<"-">>)) \o y = t \o ((x \o <<"-">>) \o y)
    BY <2>2, <2>3
  <2> QED
    BY <2>1, <2>2, <2>4
<1>18. Append(<<>>, "ListBucket") = <<"ListBucket">>
       /\ Append(one, "ObjectReadWrite") = two
       /\ Append(two \o name, "/*") = (two \o name) \o <<"/*">>
  <2>1. two \o name \in Seq(S)
    BY <1>16
  <2> HIDE DEF name
  <2> QED
    BY <1>16, <2>1, AppendIsConcat
<1>19. Reached(state[1], 1, <<"ListBucket">>)
  BY <1>4, <1>14, <1>18, FormattedWord
<1>20. Reached(state[2], 2, <<"ListBucket">> \o x)
  <2>1. state[2] = Formatted(state[1], ArgAt(1), values)
    BY <1>14
  <2> QED
    BY <1>2, <1>19, <2>1, FormattedArgAt, 1 \in Nat, 2 = 1 + 1
<1>21. Reached(state[3], 2, Append(<<"ListBucket">> \o x, "-"))
  BY <1>14, <1>20, FormattedWord
<1>22. Reached(state[4], 3, one)
  <2>1. Reached(state[4], 3, Append(<<"ListBucket">> \o x, "-") \o y)
    <3>1. state[4] = Formatted(state[3], ArgAt(2), values)
      BY <1>14
    <3> QED
      BY <1>2, <1>21, <3>1, FormattedArgAt, 2 \in Nat, 3 = 2 + 1
  <2> QED
    BY <1>15, <1>17, <2>1
<1> HIDE DEF one
<1>23. Reached(state[5], 3, two)
  BY <1>14, <1>18, <1>22, FormattedWord
<1> HIDE DEF two
<1>24. Reached(state[6], 2, two \o x)
  <2>1. state[6] = Formatted(state[5], ArgAt(1), values)
    BY <1>14
  <2> QED
    BY <1>2, <1>23, <2>1, FormattedArgAt, 1 \in Nat, 2 = 1 + 1
<1>25. Reached(state[7], 2, Append(two \o x, "-"))
  BY <1>14, <1>24, FormattedWord
<1>26. Reached(state[8], 3, two \o name)
  <2>1. Reached(state[8], 3, Append(two \o x, "-") \o y)
    <3>1. state[8] = Formatted(state[7], ArgAt(2), values)
      BY <1>14
    <3> QED
      BY <1>2, <1>25, <3>1, FormattedArgAt, 2 \in Nat, 3 = 2 + 1
  <2> QED
    BY <1>16, <1>17, <2>1
<1> HIDE DEF name
<1>27. Reached(state[9], 3, (two \o name) \o <<"/*">>)
  BY <1>14, <1>18, <1>26, FormattedWord
<1> QED
  BY <1>13, <1>27 DEF Reached

--------------------------------------------------------------------------------
(* What the composition makes of a store, for all parameters.                   *)

(* The parameters of a version, typed as xrd.yaml does, with versioning decided. *)
Typed(p) ==
  /\ "versioning" \in DOMAIN p
  /\ \A name \in DOMAIN p :
       IF name = "versioning" THEN \E b \in BOOLEAN : p[name] = Flag(b)
       ELSE p[name].text \in Seq(STRING) /\ p[name] = Text(p[name].text)

LEMMA VersionsAreTyped ==
  ASSUME NEW p \in Parameters
  PROVE  Typed(Defaulted(p))
<1> DEFINE d == Defaulted(p)
<1>1. DOMAIN d = DOMAIN p \cup {"versioning"}
  BY DEF Defaulted
<1>2. ASSUME NEW name \in DOMAIN p PROVE d[name] = p[name]
  BY <1>2 DEF Defaulted
<1>3. "versioning" \notin DOMAIN p => d["versioning"] = Flag(TRUE)
  BY DEF Defaulted
<1>4. ASSUME NEW name \in DOMAIN d
      PROVE  IF name = "versioning" THEN \E b \in BOOLEAN : d[name] = Flag(b)
             ELSE d[name].text \in Seq(STRING) /\ d[name] = Text(d[name].text)
  <2> HIDE DEF d
  <2>1. CASE name \in DOMAIN p
    BY <1>2, <2>1, ParametersAssumption
  <2>2. CASE name \notin DOMAIN p
    BY <1>1, <1>3, <1>4, <2>2
  <2> QED
    BY <2>1, <2>2
<1> QED
  BY <1>1, <1>4 DEF Typed

LEMMA ChildOfDict ==
  ASSUME NEW f, NEW name
  PROVE  Child(Dict(f), Name(name)) = IF name \in DOMAIN f THEN f[name] ELSE None
  BY NodeKinds DEF Child

\* What the patches read from the composite resource.
LEMMA XRReads ==
  ASSUME NEW p
  PROVE  /\ get_path(XR(p), Path(<<"metadata", "name">>)) = Text(StoreName)
         /\ get_path(XR(p), Path(<<"metadata", "namespace">>)) = Text(<<"team">>)
         /\ get_path(XR(p), Path(<<"metadata", "uid">>)) = Text(StoreUid)
         /\ \A name : get_path(XR(p), Path(Parameter(name)))
                        = IF name \in DOMAIN p THEN p[name] ELSE None
<1> DEFINE metadata == [name |-> Text(StoreName), namespace |-> Text(<<"team">>),
                        uid |-> Text(StoreUid)]
           spec == [parameters |-> Dict(p)]
           xr == [metadata |-> Dict(metadata), spec |-> Dict(spec)]
<1>1. XR(p) = Dict(xr)
  BY DEF XR
<1>2. Child(XR(p), Name("metadata")) = Dict(metadata) /\ Child(XR(p), Name("spec")) = Dict(spec)
  <2>1. DOMAIN xr = {"metadata", "spec"}
        /\ xr["metadata"] = Dict(metadata) /\ xr["spec"] = Dict(spec)
    OBVIOUS
  <2> HIDE DEF xr
  <2> QED
    BY <1>1, <2>1, ChildOfDict
<1>3. /\ Child(Dict(metadata), Name("name")) = Text(StoreName)
      /\ Child(Dict(metadata), Name("namespace")) = Text(<<"team">>)
      /\ Child(Dict(metadata), Name("uid")) = Text(StoreUid)
  <2>1. DOMAIN metadata = {"name", "namespace", "uid"} /\ metadata["name"] = Text(StoreName)
        /\ metadata["namespace"] = Text(<<"team">>) /\ metadata["uid"] = Text(StoreUid)
    OBVIOUS
  <2> HIDE DEF metadata
  <2> QED
    BY <2>1, ChildOfDict
<1>4. Child(Dict(spec), Name("parameters")) = Dict(p)
  <2>1. DOMAIN spec = {"parameters"} /\ spec["parameters"] = Dict(p)
    OBVIOUS
  <2> HIDE DEF spec
  <2> QED
    BY <2>1, ChildOfDict
<1> HIDE DEF metadata, spec, xr
<1>5. ASSUME NEW name
      PROVE  get_path(XR(p), Path(Parameter(name))) = IF name \in DOMAIN p THEN p[name] ELSE None
  <2>1. get_path(XR(p), Path(Parameter(name)))
          = Child(Child(Child(XR(p), Name("spec")), Name("parameters")), Name(name))
    BY GetThree DEF Parameter
  <2> QED
    BY <1>2, <1>4, <2>1, ChildOfDict
<1> QED
  BY <1>2, <1>3, <1>5, GetTwo

(* The base of a resource with the name and namespace that main gives it. *)
Placed(res) ==
  set_path(set_path(res.base, Path(<<"metadata", "name">>), Text(StoreName \o <<"-", res.name>>)),
           Path(<<"metadata", "namespace">>), Text(<<"team">>))

LEMMA ComposeIs ==
  ASSUME NEW p, NEW res
  PROVE  compose(XR(p), res, PatchSets)
           = apply_patches(XR(p), Placed(res), res.patches, PatchSets)
  BY XRReads, NodeKinds DEF compose, Placed

LEMMA PlacedReads ==
  ASSUME NEW res, NEW S, NEW names \in Seq(S), Len(names) >= 1, names[1] # "metadata"
  PROVE  get_path(Placed(res), Path(names)) = get_path(res.base, Path(names))
<1> DEFINE named == set_path(res.base, Path(<<"metadata", "name">>),
                             Text(StoreName \o <<"-", res.name>>))
<1>1. ASSUME NEW obj, NEW b, NEW value
      PROVE  get_path(set_path(obj, Path(<<"metadata", b>>), value), Path(names))
               = get_path(obj, Path(names))
  <2>0. SUFFICES ASSUME NEW on, on = <<"metadata", b>>
                 PROVE  get_path(set_path(obj, Path(on), value), Path(names))
                          = get_path(obj, Path(names))
    OBVIOUS
  <2>1. on \in Seq({"metadata", b})
    BY <2>0
  <2>2. 1 \in 1 .. Len(on) /\ 1 <= Len(names) /\ on[1] # names[1]
    BY <2>0
  <2>3. \A i \in 1 .. 1 - 1 : on[i] = names[i]
    OBVIOUS
  <2> QED
    BY <2>1, <2>2, <2>3, GetOther
<1>2. get_path(Placed(res), Path(names)) = get_path(named, Path(names))
  BY <1>1 DEF Placed
<1> QED
  BY <1>1, <1>2


(* The paths that the composition writes. *)
ComponentPath == <<"spec", "forProvider", "tags", "component">>
StatusPath == <<"spec", "forProvider", "versioningConfiguration", "status">>

\* Every patch that copies the name of the store writes it as the component.
LEMMA ComponentPatch ==
  ASSUME NEW p, NEW obj
  PROVE  Applied(XR(p), obj, Component, PatchSets)
           = set_path(obj, Path(ComponentPath), Text(StoreName))
<1>1. Component.type = "FromCompositeFieldPath" /\ Component.from = Path(<<"metadata", "name">>)
      /\ Component.to = Path(ComponentPath) /\ Component.transforms = <<>>
  BY DEF Component, From, ComponentPath
<1>2. get_path(XR(p), Component.from) = Text(StoreName) /\ Text(StoreName) # None
  BY <1>1, XRReads, NodeKinds
<1>3. transform(Text(StoreName), Component.transforms) = Text(StoreName)
  BY <1>1, TransformNone
<1>4. Component.type = "FromCompositeFieldPath" /\ get_path(XR(p), Component.from) # None
  BY <1>1, <1>2
<1>5. Applied(XR(p), obj, Component, PatchSets)
        = set_path(obj, Component.to, transform(get_path(XR(p), Component.from),
                                                Component.transforms))
  <2>1. Applied(XR(p), obj, Component, PatchSets) = Patched(XR(p), obj, Component)
    BY <1>1, PatchedFrom
  <2>2. Patched(XR(p), obj, Component)
          = set_path(obj, Component.to, transform(get_path(XR(p), Component.from),
                                                  Component.transforms))
    BY <1>4, PatchedFrom
  <2> QED
    BY <2>1, <2>2
<1> QED
  BY <1>1, <1>2, <1>3, <1>5

\* A combination of two sources, and what Combine says of it.
LEMMA CombineIs ==
  ASSUME NEW a, NEW b, NEW fmt, NEW to
  PROVE  LET patch == Combine(<<a, b>>, fmt, to)
         IN  /\ patch.type = "CombineFromComposite" /\ patch.fmt = fmt /\ patch.to = Path(to)
             /\ patch.variables = <<Path(a), Path(b)>>
<1>1. [i \in DOMAIN <<a, b>> |-> Path(<<a, b>>[i])] = <<Path(a), Path(b)>>
  OBVIOUS
<1> QED
  BY <1>1 DEF Combine

LEMMA NamesAreText ==
  /\ Str(Text(StoreName)) = StoreName /\ Str(Text(StoreUid)) = StoreUid
  /\ \A t : Str(Text(t)) = t
  BY DEF Str, Text

(* The words of the names and documents of a store. *)
Words == {"store", "uid", "-", "ListBucket", "ObjectReadWrite", "/*"}

LEMMA StoreWords == StoreName \in Seq(Words) /\ StoreUid \in Seq(Words)
  BY DEF StoreName, StoreUid, Words

\* The external name of the bucket.
LEMMA NamePatch ==
  ASSUME NEW p, NEW obj
  PROVE  Applied(XR(p), obj, PatchSet("bucket-name"), PatchSets)
           = set_path(obj, Path(ExternalName), Text(bucket_name))
<1> DEFINE name == <<"metadata", "name">>
           uid == <<"metadata", "uid">>
           fmt == <<Arg, Word("-"), Arg>>
           patch == Combine(<<name, uid>>, fmt, ExternalName)
<1>1. /\ patch.type = "CombineFromComposite" /\ patch.fmt = fmt /\ patch.to = Path(ExternalName)
      /\ patch.variables = <<Path(name), Path(uid)>>
  BY CombineIs
<1>2. BucketNameSet = <<patch>>
  BY DEF BucketNameSet
<1> HIDE DEF patch
<1>3. PatchSet("bucket-name").type = "PatchSet"
      /\ PatchSets[PatchSet("bucket-name").patchSetName] = <<patch>>
  BY <1>2 DEF PatchSet, PatchSets
<1>4. Applied(XR(p), obj, PatchSet("bucket-name"), PatchSets) = Patched(XR(p), obj, patch)
  BY <1>3, PatchSetOfOne
<1>5. get_path(XR(p), Path(name)) = Text(StoreName) /\ get_path(XR(p), Path(uid)) = Text(StoreUid)
      /\ Text(StoreName) # None /\ Text(StoreUid) # None
  BY XRReads, NodeKinds
<1>6. go_format(fmt, <<StoreName, StoreUid>>) = bucket_name
  BY StoreWords, FormatJoined, "-" \in Words DEF bucket_name, Words
<1> HIDE DEF name, uid, fmt
<1>7. Patched(XR(p), obj, patch)
        = set_path(obj, patch.to, Text(go_format(patch.fmt,
            <<Str(Text(StoreName)), Str(Text(StoreUid))>>)))
  BY <1>1, <1>5, PatchedCombine
<1> QED
  BY <1>1, <1>4, <1>6, <1>7, NamesAreText

\* The document of the policy.
LEMMA PolicyPatch ==
  ASSUME NEW p, NEW obj
  PROVE  Applied(XR(p), obj, Policy.patches[2], PatchSets)
           = set_path(obj, Path(ForProvider("policy")), Access(bucket_name))
<1> DEFINE name == <<"metadata", "name">>
           uid == <<"metadata", "uid">>
           fmt == <<Word("ListBucket"), ArgAt(1), Word("-"), ArgAt(2),
                    Word("ObjectReadWrite"), ArgAt(1), Word("-"), ArgAt(2), Word("/*")>>
           patch == Combine(<<name, uid>>, fmt, ForProvider("policy"))
<1>1. /\ patch.type = "CombineFromComposite" /\ patch.fmt = fmt
      /\ patch.to = Path(ForProvider("policy"))
      /\ patch.variables = <<Path(name), Path(uid)>>
  BY CombineIs
<1>2. Policy.patches[2] = patch
  BY DEF Policy
<1> HIDE DEF patch
<1>3. get_path(XR(p), Path(name)) = Text(StoreName) /\ get_path(XR(p), Path(uid)) = Text(StoreUid)
      /\ Text(StoreName) # None /\ Text(StoreUid) # None
  BY XRReads, NodeKinds
<1>4. Text(go_format(fmt, <<StoreName, StoreUid>>)) = Access(bucket_name)
  <2>1. "-" \in Words /\ "ListBucket" \in Words /\ "ObjectReadWrite" \in Words /\ "/*" \in Words
    BY DEF Words
  <2> QED
    BY <2>1, StoreWords, FormatPolicy DEF bucket_name, Access
<1> HIDE DEF name, uid, fmt
<1>5. /\ Applied(XR(p), obj, patch, PatchSets) = Patched(XR(p), obj, patch)
      /\ Patched(XR(p), obj, patch)
           = set_path(obj, patch.to, Text(go_format(patch.fmt,
               <<Str(Text(StoreName)), Str(Text(StoreUid))>>)))
  <2>1. get_path(XR(p), Path(name)) # None /\ get_path(XR(p), Path(uid)) # None
    BY <1>3
  <2>2. /\ Applied(XR(p), obj, patch, PatchSets) = Patched(XR(p), obj, patch)
        /\ Patched(XR(p), obj, patch)
             = set_path(obj, patch.to, Text(go_format(patch.fmt,
                 <<Str(get_path(XR(p), Path(name))), Str(get_path(XR(p), Path(uid)))>>)))
    BY <1>1, <2>1, PatchedCombine
  <2> QED
    BY <1>3, <2>2
<1> QED
  BY <1>1, <1>2, <1>4, <1>5, NamesAreText

\* The trust in GitHub, when provider and repository are both given.
LEMMA OidcApplied ==
  ASSUME NEW p, Typed(p), NEW obj
  PROVE  Applied(XR(p), obj, OidcPatch, PatchSets)
           = IF Asks(p, "githubOidcProviderArn") /\ Asks(p, "githubRepository")
             THEN set_path(obj, Path(ForProvider("assumeRolePolicy")), Text(OidcStatement(p)))
             ELSE obj
<1> DEFINE provider == Parameter("githubOidcProviderArn")
           repository == Parameter("githubRepository")
           fmt == <<Word("GitHubActionsOIDC"), Arg, Arg>>
           to == ForProvider("assumeRolePolicy")
           patch == Combine(<<provider, repository>>, fmt, to)
           a == p["githubOidcProviderArn"]
           b == p["githubRepository"]
<1>1. /\ patch.type = "CombineFromComposite" /\ patch.fmt = fmt /\ patch.to = Path(to)
      /\ patch.variables = <<Path(provider), Path(repository)>>
  BY CombineIs
<1>2. OidcPatch = patch
  BY DEF OidcPatch
<1> HIDE DEF patch
<1>3. /\ get_path(XR(p), Path(provider)) = IF Asks(p, "githubOidcProviderArn") THEN a ELSE None
      /\ get_path(XR(p), Path(repository)) = IF Asks(p, "githubRepository") THEN b ELSE None
  BY XRReads DEF Asks
<1>4. /\ Asks(p, "githubOidcProviderArn") => a = Text(a.text) /\ a # None
      /\ Asks(p, "githubRepository") => b = Text(b.text) /\ b # None
  BY NodeKinds DEF Asks, Typed
<1> HIDE DEF provider, repository, to
<1>5. CASE Asks(p, "githubOidcProviderArn") /\ Asks(p, "githubRepository")
  <2>1. go_format(fmt, <<a.text, b.text>>) = OidcStatement(p)
    <3>1. OidcStatement(p) = (<<"GitHubActionsOIDC">> \o a.text) \o b.text
      BY <1>5 DEF OidcStatement
    <3>2. \A x, y : go_format(fmt, <<x, y>>) = (<<"GitHubActionsOIDC">> \o x) \o y
      BY FormatPair
    <3> HIDE DEF a, b, fmt
    <3> QED
      BY <3>1, <3>2
  <2>2. Str(a) = a.text /\ Str(b) = b.text
    BY <1>4, <1>5, NamesAreText
  <2> HIDE DEF a, b, fmt
  <2>3. /\ Applied(XR(p), obj, patch, PatchSets) = Patched(XR(p), obj, patch)
        /\ Patched(XR(p), obj, patch)
             = set_path(obj, patch.to, Text(go_format(patch.fmt, <<Str(a), Str(b)>>)))
    BY <1>1, <1>3, <1>4, <1>5, PatchedCombine
  <2> QED
    BY <1>1, <1>2, <1>5, <2>1, <2>2, <2>3 DEF to
<1>6. CASE ~(Asks(p, "githubOidcProviderArn") /\ Asks(p, "githubRepository"))
  <2> HIDE DEF a, b, fmt
  <2>1. Applied(XR(p), obj, patch, PatchSets) = obj
    <3>1. patch.type = "CombineFromComposite"
          /\ patch.variables = <<Path(provider), Path(repository)>>
      BY <1>1
    <3>2. CASE get_path(XR(p), Path(provider)) = None
      BY <3>1, <3>2, CombineSkipped
    <3>3. CASE get_path(XR(p), Path(repository)) = None
      BY <3>1, <3>3, CombineSkipped
    <3> QED
      BY <1>3, <1>6, <3>2, <3>3
  <2> QED
    BY <1>2, <1>6, <2>1
<1> QED
  BY <1>5, <1>6

\* The trust in a principal takes the place of whatever trust was written before.
LEMMA PrincipalApplied ==
  ASSUME NEW p, Typed(p), NEW obj
  PROVE  Applied(XR(p), obj, PrincipalPatch, PatchSets)
           = IF Asks(p, "trustedPrincipalArn")
             THEN set_path(obj, Path(ForProvider("assumeRolePolicy")), Text(PrincipalStatement(p)))
             ELSE obj
<1> DEFINE fmt == <<Word("TrustedPrincipals"), Arg>>
           t == [type |-> "string", fmt |-> fmt]
           a == p["trustedPrincipalArn"]
<1>1. /\ PrincipalPatch.type = "FromCompositeFieldPath"
      /\ PrincipalPatch.from = Path(Parameter("trustedPrincipalArn"))
      /\ PrincipalPatch.to = Path(ForProvider("assumeRolePolicy"))
      /\ PrincipalPatch.transforms = <<t>>
  BY DEF PrincipalPatch, From
<1>2. get_path(XR(p), PrincipalPatch.from) = IF Asks(p, "trustedPrincipalArn") THEN a ELSE None
  BY <1>1, XRReads DEF Asks
<1>3. CASE Asks(p, "trustedPrincipalArn")
  <2>1. a = Text(a.text) /\ a # None
    BY <1>3, NodeKinds DEF Asks, Typed
  <2>2. Str(a) = a.text
    BY <2>1, NamesAreText
  <2>3. go_format(fmt, <<a.text>>) = PrincipalStatement(p)
    BY <1>3, FormatOne DEF PrincipalStatement
  <2>4. Transformed(a, t) = Text(go_format(fmt, <<Str(a)>>))
    BY DEF Transformed
  <2>5. transform(a, <<t>>) = Transformed(a, t)
    BY TransformOne
  <2> HIDE DEF a, t, fmt
  <2>6. transform(a, PrincipalPatch.transforms) = Text(PrincipalStatement(p))
    BY <1>1, <2>2, <2>3, <2>4, <2>5
  <2>7. get_path(XR(p), PrincipalPatch.from) = a
    BY <1>2, <1>3
  <2>8. PrincipalPatch.type = "FromCompositeFieldPath"
        /\ get_path(XR(p), PrincipalPatch.from) # None
    BY <1>1, <2>1, <2>7
  <2>9. Applied(XR(p), obj, PrincipalPatch, PatchSets)
          = set_path(obj, PrincipalPatch.to,
                     transform(get_path(XR(p), PrincipalPatch.from), PrincipalPatch.transforms))
    BY <2>8, PatchedFrom
  <2> QED
    BY <1>1, <1>3, <2>6, <2>7, <2>9
<1>4. CASE ~Asks(p, "trustedPrincipalArn")
  BY <1>1, <1>2, <1>4, PatchedFrom
<1> QED
  BY <1>3, <1>4

\* The status of the versioning, from the flag.
LEMMA VersioningPatch ==
  ASSUME NEW p, Typed(p), NEW obj
  PROVE  Applied(XR(p), obj, BucketVersioning.patches[2], PatchSets)
           = set_path(obj, Path(StatusPath),
                      Text(IF p["versioning"].flag THEN <<"Enabled">> ELSE <<"Suspended">>))
<1> DEFINE patch == BucketVersioning.patches[2]
           map == [flag \in {<<"true">>, <<"false">>} |->
                     IF flag = <<"true">> THEN <<"Enabled">> ELSE <<"Suspended">>]
           t == [type |-> "map", map |-> map]
           v == p["versioning"]
<1>1. /\ patch.type = "FromCompositeFieldPath" /\ patch.from = Path(Parameter("versioning"))
      /\ patch.to = Path(StatusPath) /\ patch.transforms = <<t>>
  BY DEF BucketVersioning, From, StatusPath
<1>2. PICK b \in BOOLEAN : v = Flag(b)
  BY DEF Typed
<1>3. v # None /\ v.flag = b
  BY <1>2, NodeKinds
<1>4. get_path(XR(p), patch.from) = v
  BY <1>1, XRReads DEF Typed
<1>5. Key(v) = IF b THEN <<"true">> ELSE <<"false">>
  BY <1>2 DEF Key, Flag
<1>6. <<"true">> # <<"false">>
  OBVIOUS
<1>7. Transformed(v, t) = Text(IF b THEN <<"Enabled">> ELSE <<"Suspended">>)
  <2>1. t.type = "map" /\ t.map = map
    OBVIOUS
  <2>2. DOMAIN map = {<<"true">>, <<"false">>} /\ map[<<"true">>] = <<"Enabled">>
        /\ map[<<"false">>] = <<"Suspended">>
    BY <1>6
  <2> HIDE DEF map, t, v
  <2>3. Key(v) \in DOMAIN map /\ map[Key(v)] = IF b THEN <<"Enabled">> ELSE <<"Suspended">>
    BY <1>5, <2>2
  <2> QED
    BY <2>1, <2>3 DEF Transformed
<1>8. transform(v, <<t>>) = Transformed(v, t)
  BY TransformOne
<1> HIDE DEF patch, t
<1>9. Applied(XR(p), obj, patch, PatchSets)
        = set_path(obj, patch.to, transform(get_path(XR(p), patch.from), patch.transforms))
  <2>1. patch.type = "FromCompositeFieldPath" /\ get_path(XR(p), patch.from) # None
    BY <1>1, <1>3, <1>4
  <2> QED
    BY <2>1, PatchedFrom
<1>10. v.flag = b
  BY <1>3
<1> QED
  BY <1>1, <1>4, <1>7, <1>8, <1>9, <1>10 DEF patch


--------------------------------------------------------------------------------
(* The composed documents, as far as the properties read them.                  *)

Document(p, i) == compose(XR(p), Resources[i], PatchSets)
TrustPath    == ForProvider("assumeRolePolicy")
DocumentPath == ForProvider("policy")
SessionPath  == ForProvider("maxSessionDuration")

\* Paths that part: what is written at one is not read at the other.
LEMMA PathsPart ==
  ASSUME NEW obj, NEW value
  PROVE  /\ get_path(set_path(obj, Path(ComponentPath), value), Path(TrustPath))
              = get_path(obj, Path(TrustPath))
         /\ get_path(set_path(obj, Path(ComponentPath), value), Path(ExternalName))
              = get_path(obj, Path(ExternalName))
         /\ get_path(set_path(obj, Path(TrustPath), value), Path(ComponentPath))
              = get_path(obj, Path(ComponentPath))
         /\ get_path(set_path(obj, Path(DocumentPath), value), Path(ComponentPath))
              = get_path(obj, Path(ComponentPath))
<1>1. \E S : /\ ComponentPath \in Seq(S) /\ TrustPath \in Seq(S)
             /\ DocumentPath \in Seq(S) /\ ExternalName \in Seq(S)
  <2> DEFINE S == {"spec", "forProvider", "tags", "component", "assumeRolePolicy", "policy",
                   "metadata", "annotations", "crossplane.io/external-name"}
  <2>1. ComponentPath \in Seq(S) /\ TrustPath \in Seq(S)
        /\ DocumentPath \in Seq(S) /\ ExternalName \in Seq(S)
    BY DEF ComponentPath, TrustPath, DocumentPath, ExternalName, ForProvider
  <2> HIDE DEF S
  <2> QED
    BY <2>1
<1>2. PICK S : /\ ComponentPath \in Seq(S) /\ TrustPath \in Seq(S)
               /\ DocumentPath \in Seq(S) /\ ExternalName \in Seq(S)
  BY <1>1
<1>3. /\ Len(ComponentPath) = 4 /\ ComponentPath[1] = "spec" /\ ComponentPath[2] = "forProvider"
      /\ ComponentPath[3] = "tags"
  BY DEF ComponentPath
<1>4. /\ Len(TrustPath) = 3 /\ TrustPath[1] = "spec" /\ TrustPath[2] = "forProvider"
      /\ TrustPath[3] = "assumeRolePolicy"
  BY DEF TrustPath, ForProvider
<1>5. /\ Len(DocumentPath) = 3 /\ DocumentPath[1] = "spec" /\ DocumentPath[2] = "forProvider"
      /\ DocumentPath[3] = "policy"
  BY DEF DocumentPath, ForProvider
<1>6. Len(ExternalName) = 3 /\ ExternalName[1] = "metadata"
  BY DEF ExternalName
<1>7. get_path(set_path(obj, Path(ComponentPath), value), Path(TrustPath))
        = get_path(obj, Path(TrustPath))
  <2>1. 3 \in 1 .. Len(ComponentPath) /\ 3 <= Len(TrustPath) /\ ComponentPath[3] # TrustPath[3]
        /\ \A i \in 1 .. 3 - 1 : ComponentPath[i] = TrustPath[i]
    BY <1>3, <1>4
  <2> QED
    BY <1>2, <2>1, GetOther
<1>8. get_path(set_path(obj, Path(ComponentPath), value), Path(ExternalName))
        = get_path(obj, Path(ExternalName))
  <2>1. 1 \in 1 .. Len(ComponentPath) /\ 1 <= Len(ExternalName)
        /\ ComponentPath[1] # ExternalName[1]
        /\ \A i \in 1 .. 1 - 1 : ComponentPath[i] = ExternalName[i]
    BY <1>3, <1>6
  <2> QED
    BY <1>2, <2>1, GetOther
<1>9. get_path(set_path(obj, Path(TrustPath), value), Path(ComponentPath))
        = get_path(obj, Path(ComponentPath))
  <2>1. 3 \in 1 .. Len(TrustPath) /\ 3 <= Len(ComponentPath) /\ TrustPath[3] # ComponentPath[3]
        /\ \A i \in 1 .. 3 - 1 : TrustPath[i] = ComponentPath[i]
    BY <1>3, <1>4
  <2> QED
    BY <1>2, <2>1, GetOther
<1>10. get_path(set_path(obj, Path(DocumentPath), value), Path(ComponentPath))
         = get_path(obj, Path(ComponentPath))
  <2>1. 3 \in 1 .. Len(DocumentPath) /\ 3 <= Len(ComponentPath)
        /\ DocumentPath[3] # ComponentPath[3]
        /\ \A i \in 1 .. 3 - 1 : DocumentPath[i] = ComponentPath[i]
    BY <1>3, <1>5
  <2> QED
    BY <1>2, <2>1, GetOther
<1> QED
  BY <1>7, <1>8, <1>9, <1>10

LEMMA SessionParts ==
  ASSUME NEW obj, NEW value
  PROVE  /\ get_path(set_path(obj, Path(ComponentPath), value), Path(SessionPath))
              = get_path(obj, Path(SessionPath))
         /\ get_path(set_path(obj, Path(TrustPath), value), Path(SessionPath))
              = get_path(obj, Path(SessionPath))
<1>1. /\ Len(SessionPath) = 3 /\ SessionPath[1] = "spec" /\ SessionPath[2] = "forProvider"
      /\ SessionPath[3] = "maxSessionDuration"
  BY DEF SessionPath, ForProvider
<1>2. SUFFICES ASSUME NEW on \in {ComponentPath, TrustPath}
               PROVE  get_path(set_path(obj, Path(on), value), Path(SessionPath))
                        = get_path(obj, Path(SessionPath))
  OBVIOUS
<1>3. \E S : on \in Seq(S) /\ SessionPath \in Seq(S)
  <2> DEFINE S == {"spec", "forProvider", "tags", "component", "assumeRolePolicy",
                   "maxSessionDuration"}
  <2>1. ComponentPath \in Seq(S) /\ TrustPath \in Seq(S) /\ SessionPath \in Seq(S)
    BY DEF ComponentPath, TrustPath, SessionPath, ForProvider
  <2> HIDE DEF S
  <2> QED
    BY <2>1
<1>4. PICK S : on \in Seq(S) /\ SessionPath \in Seq(S)
  BY <1>3
<1>5. /\ 3 \in 1 .. Len(on) /\ 3 <= Len(SessionPath) /\ on[3] # SessionPath[3]
      /\ \A i \in 1 .. 3 - 1 : on[i] = SessionPath[i]
  <2>1. CASE on = ComponentPath
    BY <1>1, <2>1 DEF ComponentPath
  <2>2. CASE on = TrustPath
    BY <1>1, <2>2 DEF TrustPath, ForProvider
  <2> QED
    BY <2>1, <2>2
<1> QED
  BY <1>4, <1>5, GetOther

\* What is written is read back at the paths of the composition.
LEMMA PathsRead ==
  ASSUME NEW obj, NEW value
  PROVE  /\ get_path(set_path(obj, Path(ComponentPath), value), Path(ComponentPath)) = value
         /\ get_path(set_path(obj, Path(StatusPath), value), Path(StatusPath)) = value
         /\ get_path(set_path(obj, Path(ExternalName), value), Path(ExternalName)) = value
         /\ get_path(set_path(obj, Path(TrustPath), value), Path(TrustPath)) = value
         /\ get_path(set_path(obj, Path(DocumentPath), value), Path(DocumentPath)) = value
<1>1. ComponentPath \in Seq({"spec", "forProvider", "tags", "component"})
  BY DEF ComponentPath
<1>2. StatusPath \in Seq({"spec", "forProvider", "versioningConfiguration", "status"})
  BY DEF StatusPath
<1>3. ExternalName \in Seq({"metadata", "annotations", "crossplane.io/external-name"})
  BY DEF ExternalName
<1>4. TrustPath \in Seq({"spec", "forProvider", "assumeRolePolicy"})
  BY DEF TrustPath, ForProvider
<1>5. DocumentPath \in Seq({"spec", "forProvider", "policy"})
  BY DEF DocumentPath, ForProvider
<1>6. get_path(set_path(obj, Path(ComponentPath), value), Path(ComponentPath)) = value
  BY <1>1, GetSame
<1>7. get_path(set_path(obj, Path(StatusPath), value), Path(StatusPath)) = value
  BY <1>2, GetSame
<1>8. get_path(set_path(obj, Path(ExternalName), value), Path(ExternalName)) = value
  BY <1>3, GetSame
<1>9. get_path(set_path(obj, Path(TrustPath), value), Path(TrustPath)) = value
  BY <1>4, GetSame
<1>10. get_path(set_path(obj, Path(DocumentPath), value), Path(DocumentPath)) = value
  BY <1>5, GetSame
<1> QED
  BY <1>6, <1>7, <1>8, <1>9, <1>10

LEMMA ResourcesAre ==
  /\ DOMAIN Resources = 1 .. 7
  /\ Resources[1] = Bucket /\ Resources[2] = BucketVersioning
  /\ Resources[3] = BucketEncryption /\ Resources[4] = BucketPublicAccessBlock
  /\ Resources[5] = Role /\ Resources[6] = Policy
  BY DEF Resources

\* The bucket has the name of its store and belongs to its component.
LEMMA BucketDocument ==
  ASSUME NEW p
  PROVE  /\ get_path(Document(p, 1), Path(ExternalName)) = Text(bucket_name)
         /\ get_path(Document(p, 1), Path(ComponentPath)) = Text(StoreName)
<1> DEFINE region == Applied(XR(p), Placed(Bucket), PatchSet("region"), PatchSets)
           named == Applied(XR(p), region, PatchSet("bucket-name"), PatchSets)
           last == Applied(XR(p), named, Component, PatchSets)
<1>1. Document(p, 1) = apply_patches(XR(p), Placed(Bucket), Bucket.patches, PatchSets)
  BY ResourcesAre, ComposeIs DEF Document
<1>2. Bucket.patches = <<PatchSet("region"), PatchSet("bucket-name"), Component, ToXR, ToXR>>
  BY DEF Bucket
<1>3. Document(p, 1) = Applied(XR(p), Applied(XR(p), last, ToXR, PatchSets), ToXR, PatchSets)
  BY <1>1, <1>2, ApplyFive
<1> HIDE DEF region
<1>4. named = set_path(region, Path(ExternalName), Text(bucket_name))
  BY NamePatch
<1> HIDE DEF named
<1>5. last = set_path(named, Path(ComponentPath), Text(StoreName))
  BY ComponentPatch
<1> HIDE DEF last
<1>6. Document(p, 1) = last
  BY <1>3, PatchedToXR
<1> QED
  BY <1>4, <1>5, <1>6, PathsPart, PathsRead

\* The versioning of the bucket is what the parameters say.
LEMMA VersioningDocument ==
  ASSUME NEW p, Typed(p)
  PROVE  get_path(Document(p, 2), Path(StatusPath))
           = Text(IF p["versioning"].flag THEN <<"Enabled">> ELSE <<"Suspended">>)
<1> DEFINE region == Applied(XR(p), Placed(BucketVersioning), PatchSet("region"), PatchSets)
           last == BucketVersioning.patches[2]
<1>1. Document(p, 2) = apply_patches(XR(p), Placed(BucketVersioning), BucketVersioning.patches,
                                     PatchSets)
  BY ResourcesAre, ComposeIs DEF Document
<1>2. BucketVersioning.patches = <<PatchSet("region"), last>>
  BY DEF BucketVersioning
<1> HIDE DEF last
<1>3. Document(p, 2) = Applied(XR(p), region, last, PatchSets)
  BY <1>1, <1>2, ApplyTwo
<1> HIDE DEF region
<1>4. Document(p, 2)
        = set_path(region, Path(StatusPath),
                   Text(IF p["versioning"].flag THEN <<"Enabled">> ELSE <<"Suspended">>))
  BY <1>3, VersioningPatch DEF last
<1> QED
  BY <1>4, PathsRead

\* The policy grants access to the bucket of the store.
LEMMA PolicyDocument ==
  ASSUME NEW p
  PROVE  /\ get_path(Document(p, 6), Path(DocumentPath)) = Access(bucket_name)
         /\ get_path(Document(p, 6), Path(ComponentPath)) = Text(StoreName)
<1> DEFINE tagged == Applied(XR(p), Placed(Policy), Component, PatchSets)
           last == Policy.patches[2]
<1>1. Document(p, 6) = apply_patches(XR(p), Placed(Policy), Policy.patches, PatchSets)
  BY ResourcesAre, ComposeIs DEF Document
<1>2. Policy.patches = <<Component, last>>
  BY DEF Policy
<1> HIDE DEF last
<1>3. Document(p, 6) = Applied(XR(p), tagged, last, PatchSets)
  BY <1>1, <1>2, ApplyTwo
<1>4. tagged = set_path(Placed(Policy), Path(ComponentPath), Text(StoreName))
  BY ComponentPatch
<1> HIDE DEF tagged
<1>5. Document(p, 6) = set_path(tagged, Path(DocumentPath), Access(bucket_name))
  BY <1>3, PolicyPatch DEF last, DocumentPath
<1> QED
  BY <1>4, <1>5, PathsPart, PathsRead

\* What a base sets for its provider.
LEMMA BaseReads ==
  ASSUME NEW forProvider, NEW name, name \in DOMAIN forProvider
  PROVE  get_path(Base(forProvider), Path(ForProvider(name))) = forProvider[name]
<1> DEFINE spec == [forProvider |-> Dict(forProvider)]
           base == [spec |-> Dict(spec)]
<1>1. Base(forProvider) = Dict(base)
  BY DEF Base
<1>2. DOMAIN base = {"spec"} /\ base["spec"] = Dict(spec)
  OBVIOUS
<1>3. DOMAIN spec = {"forProvider"} /\ spec["forProvider"] = Dict(forProvider)
  OBVIOUS
<1> HIDE DEF base, spec
<1>4. get_path(Base(forProvider), Path(ForProvider(name)))
        = Child(Child(Child(Base(forProvider), Name("spec")), Name("forProvider")), Name(name))
  BY GetThree DEF ForProvider
<1> QED
  BY <1>1, <1>2, <1>3, <1>4, ChildOfDict

\* Name and namespace leave alone what a base sets for its provider.
LEMMA PlacedBase ==
  ASSUME NEW res, NEW forProvider, res.base = Base(forProvider),
         NEW name, name \in DOMAIN forProvider
  PROVE  get_path(Placed(res), Path(ForProvider(name))) = forProvider[name]
<1>1. ForProvider(name) \in Seq({"spec", "forProvider", name}) /\ Len(ForProvider(name)) >= 1
      /\ ForProvider(name)[1] # "metadata"
  BY DEF ForProvider
<1>2. get_path(Placed(res), Path(ForProvider(name))) = get_path(res.base, Path(ForProvider(name)))
  BY <1>1, PlacedReads
<1> QED
  BY <1>2, BaseReads

\* So does the region.
LEMMA RegionPart ==
  ASSUME NEW p, NEW obj, NEW name, name # "region"
  PROVE  get_path(Applied(XR(p), obj, PatchSet("region"), PatchSets), Path(ForProvider(name)))
           = get_path(obj, Path(ForProvider(name)))
<1> DEFINE patch == From(Parameter("region"), ForProvider("region"))
           to == ForProvider("region")
<1>1. PatchSet("region").type = "PatchSet"
      /\ PatchSets[PatchSet("region").patchSetName] = <<patch>>
  BY DEF PatchSet, PatchSets
<1>2. patch.type = "FromCompositeFieldPath" /\ patch.to = Path(to)
  BY DEF From
<1> HIDE DEF patch, to
<1>3. Applied(XR(p), obj, PatchSet("region"), PatchSets) = Patched(XR(p), obj, patch)
  BY <1>1, PatchSetOfOne
<1>4. Patched(XR(p), obj, patch) = obj
      \/ \E value : Patched(XR(p), obj, patch) = set_path(obj, Path(to), value)
  <2>1. CASE get_path(XR(p), patch.from) = None
    BY <1>2, <2>1, PatchedFrom
  <2>2. CASE get_path(XR(p), patch.from) # None
    BY <1>2, <2>2, PatchedFrom
  <2> QED
    BY <2>1, <2>2
<1>5. ASSUME NEW value
      PROVE  get_path(set_path(obj, Path(to), value), Path(ForProvider(name)))
               = get_path(obj, Path(ForProvider(name)))
  <2>1. to \in Seq({"spec", "forProvider", "region", name})
        /\ ForProvider(name) \in Seq({"spec", "forProvider", "region", name})
    BY DEF ForProvider, to
  <2>2. 3 \in 1 .. Len(to) /\ 3 <= Len(ForProvider(name)) /\ to[3] # ForProvider(name)[3]
        /\ \A i \in 1 .. 3 - 1 : to[i] = ForProvider(name)[i]
    BY DEF ForProvider, to
  <2> QED
    BY <2>1, <2>2, GetOther
<1> QED
  BY <1>3, <1>4, <1>5

\* A resource that only the region is patched into keeps its base.
LEMMA OnlyRegion ==
  ASSUME NEW p, NEW res, res.patches = <<PatchSet("region")>>, NEW forProvider,
         res.base = Base(forProvider), NEW name, name \in DOMAIN forProvider, name # "region"
  PROVE  get_path(compose(XR(p), res, PatchSets), Path(ForProvider(name))) = forProvider[name]
<1> DEFINE region == Applied(XR(p), Placed(res), PatchSet("region"), PatchSets)
<1>1. compose(XR(p), res, PatchSets) = apply_patches(XR(p), Placed(res), res.patches, PatchSets)
  BY ComposeIs
<1>2. apply_patches(XR(p), Placed(res), <<PatchSet("region")>>, PatchSets) = region
  BY ApplyOne
<1>3. get_path(region, Path(ForProvider(name))) = get_path(Placed(res), Path(ForProvider(name)))
  BY RegionPart
<1>4. get_path(Placed(res), Path(ForProvider(name))) = forProvider[name]
  BY PlacedBase
<1> QED
  BY <1>1, <1>2, <1>3, <1>4

\* The bucket is encrypted, and closed to the public, as the bases say.
LEMMA ProtectionDocuments ==
  ASSUME NEW p
  PROVE  /\ get_path(Document(p, 3), Path(ForProvider("rule")))
              = List(<<Dict([sseAlgorithm |-> Text(<<"AES256">>),
                             bucketKeyEnabled |-> Flag(TRUE)])>>)
         /\ \A access \in PublicAccess :
              get_path(Document(p, 4), Path(ForProvider(access))) = Flag(TRUE)
<1>1. get_path(Document(p, 3), Path(ForProvider("rule")))
        = List(<<Dict([sseAlgorithm |-> Text(<<"AES256">>), bucketKeyEnabled |-> Flag(TRUE)])>>)
  <2> DEFINE rule == List(<<Dict([sseAlgorithm |-> Text(<<"AES256">>),
                                  bucketKeyEnabled |-> Flag(TRUE)])>>)
             forProvider == [bucketSelector |-> Selector, rule |-> rule]
  <2>1. BucketEncryption.base = Base(forProvider)
        /\ BucketEncryption.patches = <<PatchSet("region")>>
    BY DEF BucketEncryption
  <2>2. "rule" \in DOMAIN forProvider /\ "rule" # "region" /\ forProvider["rule"] = rule
    OBVIOUS
  <2>3. Document(p, 3) = compose(XR(p), BucketEncryption, PatchSets)
    BY ResourcesAre DEF Document
  <2> HIDE DEF forProvider, rule
  <2>4. get_path(compose(XR(p), BucketEncryption, PatchSets), Path(ForProvider("rule")))
          = forProvider["rule"]
    BY <2>1, <2>2, OnlyRegion
  <2> QED
    BY <2>2, <2>3, <2>4 DEF rule
<1>2. ASSUME NEW access \in PublicAccess
      PROVE  get_path(Document(p, 4), Path(ForProvider(access))) = Flag(TRUE)
  <2> DEFINE forProvider == [bucketSelector |-> Selector, blockPublicAcls |-> Flag(TRUE),
                             blockPublicPolicy |-> Flag(TRUE), ignorePublicAcls |-> Flag(TRUE),
                             restrictPublicBuckets |-> Flag(TRUE)]
  <2>1. BucketPublicAccessBlock.base = Base(forProvider)
        /\ BucketPublicAccessBlock.patches = <<PatchSet("region")>>
    BY DEF BucketPublicAccessBlock
  <2>2. access \in DOMAIN forProvider /\ access # "region" /\ forProvider[access] = Flag(TRUE)
    <3>1. \/ access = "blockPublicAcls" \/ access = "blockPublicPolicy"
          \/ access = "ignorePublicAcls" \/ access = "restrictPublicBuckets"
      BY <1>2 DEF PublicAccess
    <3>2. DOMAIN forProvider = {"bucketSelector"} \cup PublicAccess
      BY DEF PublicAccess
    <3>3. CASE access = "blockPublicAcls"
      BY <3>2, <3>3
    <3>4. CASE access = "blockPublicPolicy"
      BY <3>2, <3>4
    <3>5. CASE access = "ignorePublicAcls"
      BY <3>2, <3>5
    <3>6. CASE access = "restrictPublicBuckets"
      BY <3>2, <3>6
    <3> QED
      BY <3>1, <3>3, <3>4, <3>5, <3>6
  <2>3. Document(p, 4) = compose(XR(p), BucketPublicAccessBlock, PatchSets)
    BY ResourcesAre DEF Document
  <2> HIDE DEF forProvider
  <2>4. \A name : name \in DOMAIN forProvider /\ name # "region" =>
          get_path(compose(XR(p), BucketPublicAccessBlock, PatchSets), Path(ForProvider(name)))
            = forProvider[name]
    BY <2>1, OnlyRegion
  <2> QED
    BY <2>2, <2>3, <2>4
<1> QED
  BY <1>1, <1>2

(* The trust that the two patches leave: the principal's, else GitHub's, else the base. *)
Trust(p) ==
  IF Asks(p, "trustedPrincipalArn") THEN PrincipalStatement(p)
  ELSE IF Asks(p, "githubOidcProviderArn") /\ Asks(p, "githubRepository") THEN OidcStatement(p)
  ELSE <<>>

LEMMA RoleDocument ==
  ASSUME NEW p, Typed(p)
  PROVE  /\ get_path(Document(p, 5), Path(TrustPath)) = Text(Trust(p))
         /\ get_path(Document(p, 5), Path(ComponentPath)) = Text(StoreName)
         /\ get_path(Document(p, 5), Path(SessionPath)) = Text(<<"3600">>)
<1> DEFINE tagged == Applied(XR(p), Placed(Role), Component, PatchSets)
           github == Applied(XR(p), tagged, OidcPatch, PatchSets)
           last == Applied(XR(p), github, PrincipalPatch, PatchSets)
<1>1. Document(p, 5) = apply_patches(XR(p), Placed(Role), Role.patches, PatchSets)
  BY ResourcesAre, ComposeIs DEF Document
<1>2. Role.patches = <<Component, OidcPatch, PrincipalPatch, ToXR>>
  BY DEF Role
<1>3. Document(p, 5) = Applied(XR(p), last, ToXR, PatchSets)
  BY <1>1, <1>2, ApplyFour
<1>4. tagged = set_path(Placed(Role), Path(ComponentPath), Text(StoreName))
  BY ComponentPatch
<1>5. /\ get_path(Placed(Role), Path(TrustPath)) = Text(<<>>)
      /\ get_path(Placed(Role), Path(SessionPath)) = Text(<<"3600">>)
  <2> DEFINE forProvider == [maxSessionDuration |-> Text(<<"3600">>), tags |-> Tags,
                             assumeRolePolicy |-> Text(<<>>)]
  <2>1. Role.base = Base(forProvider)
    BY DEF Role
  <2>2. /\ "assumeRolePolicy" \in DOMAIN forProvider /\ "maxSessionDuration" \in DOMAIN forProvider
        /\ forProvider["assumeRolePolicy"] = Text(<<>>)
        /\ forProvider["maxSessionDuration"] = Text(<<"3600">>)
    OBVIOUS
  <2> HIDE DEF forProvider
  <2> QED
    BY <2>1, <2>2, PlacedBase DEF TrustPath, SessionPath
<1> HIDE DEF tagged
<1>6. get_path(tagged, Path(TrustPath)) = Text(<<>>)
      /\ get_path(tagged, Path(ComponentPath)) = Text(StoreName)
      /\ get_path(tagged, Path(SessionPath)) = Text(<<"3600">>)
  BY <1>4, <1>5, PathsPart, SessionParts, PathsRead
<1>7. github = IF Asks(p, "githubOidcProviderArn") /\ Asks(p, "githubRepository")
               THEN set_path(tagged, Path(TrustPath), Text(OidcStatement(p))) ELSE tagged
  BY OidcApplied DEF TrustPath
<1> HIDE DEF github
<1>8. get_path(github, Path(TrustPath))
        = Text(IF Asks(p, "githubOidcProviderArn") /\ Asks(p, "githubRepository")
               THEN OidcStatement(p) ELSE <<>>)
      /\ get_path(github, Path(ComponentPath)) = Text(StoreName)
      /\ get_path(github, Path(SessionPath)) = Text(<<"3600">>)
  BY <1>6, <1>7, PathsPart, SessionParts, PathsRead
<1>9. last = IF Asks(p, "trustedPrincipalArn")
             THEN set_path(github, Path(TrustPath), Text(PrincipalStatement(p))) ELSE github
  BY PrincipalApplied DEF TrustPath
<1> HIDE DEF last
<1>10. Document(p, 5) = last
  BY <1>3, PatchedToXR
<1> QED
  BY <1>8, <1>9, <1>10, PathsPart, SessionParts, PathsRead DEF Trust


--------------------------------------------------------------------------------
(* The inductive invariant: whatever the interleaving of edits, restarts,       *)
(* applies and providers, each object and each resource is the document of some *)
(* version that was asked for, and a status never promises more than is there.  *)

(* Every resource is in the cloud once a status says ready, and the bucket has its name. *)
Honest(s) ==
  s.ready => /\ \A r \in ResourceNames : cloud[r] # None
             /\ s.bucketName = Text(bucket_name)

(* What a function of resource names holds: documents of versions asked for. *)
HoldsDocuments(f) ==
  /\ DOMAIN f = ResourceNames
  /\ f = [r \in ResourceNames |-> f[r]]
  /\ \A i \in DOMAIN Resources :
       f[Resources[i].name] # None =>
         \E p \in asked : f[Resources[i].name] = Rendered[p][i]

StoreInv ==
  /\ asked \subseteq DOMAIN Rendered
  /\ params # None => params \in asked
  /\ job.busy => /\ job = [busy |-> TRUE, xr |-> job.xr, next |-> job.next, status |-> job.status]
                 /\ job.xr \in asked /\ job.next \in 1 .. Len(Resources) + 1
                 /\ Honest(job.status)
  /\ HoldsDocuments(live) /\ HoldsDocuments(cloud)
  /\ Honest(status)

LEMMA NamesAre ==
  /\ DOMAIN Resources = 1 .. 7 /\ Len(Resources) = 7
  /\ ResourceNames = {Resources[i].name : i \in 1 .. 7}
  /\ Resources[1].name = "bucket" /\ Resources[2].name = "bucket-versioning"
  /\ Resources[3].name = "bucket-encryption"
  /\ Resources[4].name = "bucket-public-access-block"
  /\ Resources[5].name = "role" /\ Resources[6].name = "policy"
  /\ \A i, j \in 1 .. 7 : Resources[i].name = Resources[j].name => i = j
<1>1. DOMAIN Resources = 1 .. 7 /\ Len(Resources) = 7
  BY DEF Resources
<1>2. /\ Resources[1].name = "bucket" /\ Resources[2].name = "bucket-versioning"
      /\ Resources[3].name = "bucket-encryption"
      /\ Resources[4].name = "bucket-public-access-block"
      /\ Resources[5].name = "role" /\ Resources[6].name = "policy"
      /\ Resources[7].name = "role-policy-attachment"
  BY DEF Resources, Bucket, BucketVersioning, BucketEncryption, BucketPublicAccessBlock, Role,
         Policy, RolePolicyAttachment
<1>3. ASSUME NEW i \in 1 .. 7, NEW j \in 1 .. 7, Resources[i].name = Resources[j].name PROVE i = j
  <2>1. i \in {1, 2, 3, 4, 5, 6, 7} /\ j \in {1, 2, 3, 4, 5, 6, 7}
    OBVIOUS
  <2> QED
    BY <1>2, <1>3, <2>1
<1> QED
  BY <1>1, <1>2, <1>3 DEF ResourceNames

LEMMA RenderedIs ==
  ASSUME NEW p \in DOMAIN Rendered
  PROVE  /\ Typed(p)
         /\ \A i \in 1 .. 7 : Rendered[p][i] = Document(p, i)
         /\ BucketId[Rendered[p][1]] = Text(bucket_name)
<1>1. DOMAIN Rendered = {Defaulted(q) : q \in Parameters}
  BY DEF Rendered
<1>2. Rendered[p] = [i \in DOMAIN Resources |-> Document(p, i)]
  BY <1>1 DEF Rendered, Document
<1>3. DOMAIN Rendered[p] = 1 .. 7 /\ \A i \in 1 .. 7 : Rendered[p][i] = Document(p, i)
  BY <1>2, NamesAre
<1>4. Typed(p)
  BY <1>1, VersionsAreTyped
<1>5. Rendered[p][1] \in UNION {ToSet(Rendered[q]) : q \in DOMAIN Rendered}
  <2>1. Rendered[p][1] \in ToSet(Rendered[p])
    BY <1>3 DEF ToSet
  <2> QED
    BY <2>1
<1>6. BucketId[Rendered[p][1]] = get_path(Rendered[p][1], Path(ExternalName))
  BY <1>5 DEF BucketId
<1> QED
  BY <1>3, <1>4, <1>6, BucketDocument

\* What a resource holds, by its place in the composition.
LEMMA HeldDocument ==
  ASSUME NEW f, HoldsDocuments(f), asked \subseteq DOMAIN Rendered, NEW i \in 1 .. 7,
         f[Resources[i].name] # None
  PROVE  \E p \in asked : /\ Typed(p) /\ f[Resources[i].name] = Document(p, i)
                          /\ f[Resources[i].name] = Rendered[p][i] /\ p \in DOMAIN Rendered
<1>1. PICK p \in asked : f[Resources[i].name] = Rendered[p][i]
  BY NamesAre DEF HoldsDocuments
<1> QED
  BY <1>1, RenderedIs

LEMMA ObservedIsHonest ==
  ASSUME StoreInv
  PROVE  Honest(Observed)
<1> SUFFICES ASSUME Observed.ready
             PROVE  (\A r \in ResourceNames : cloud[r] # None)
                    /\ Observed.bucketName = Text(bucket_name)
  BY DEF Honest
<1>1. \A r \in ResourceNames : cloud[r] # None
  BY DEF Observed
<1>2. cloud["bucket"] # None
  BY <1>1, NamesAre
<1>3. PICK p \in DOMAIN Rendered : cloud["bucket"] = Rendered[p][1]
  BY <1>2, NamesAre, HeldDocument DEF StoreInv
<1>4. Observed.bucketName = BucketId[cloud["bucket"]]
  BY <1>2 DEF Observed
<1> QED
  BY <1>1, <1>3, <1>4, RenderedIs

LEMMA StoreInitially ==
  ASSUME Init
  PROVE  StoreInv
<1>1. live = [r \in ResourceNames |-> None] /\ cloud = [r \in ResourceNames |-> None]
      /\ asked = {} /\ params = None /\ ~job.busy /\ ~status.ready
  BY DEF Init, NoJob, NoStatus
<1>2. HoldsDocuments(live) /\ HoldsDocuments(cloud)
  BY <1>1, NamesAre DEF HoldsDocuments
<1> QED
  BY <1>1, <1>2 DEF StoreInv, Honest



LEMMA StoreStep ==
  ASSUME StoreInv, [Next]_vars
  PROVE  StoreInv'
<1>1. /\ asked \subseteq DOMAIN Rendered /\ (params # None => params \in asked)
      /\ HoldsDocuments(live) /\ HoldsDocuments(cloud) /\ Honest(status)
  BY DEF StoreInv
<1>2. job.busy => /\ job = [busy |-> TRUE, xr |-> job.xr, next |-> job.next, status |-> job.status]
                  /\ job.xr \in asked /\ job.next \in 1 .. 8 /\ Honest(job.status)
  BY NamesAre DEF StoreInv
\* More versions asked for, and resources that stay in the cloud, keep what holds of the others.
<1>3. ASSUME asked \subseteq asked', live' = live, cloud' = cloud
      PROVE  HoldsDocuments(live)' /\ HoldsDocuments(cloud)'
  BY <1>1, <1>3 DEF HoldsDocuments
<1>4. ASSUME NEW s, Honest(s), \A r \in ResourceNames : cloud[r] # None => cloud'[r] # None
      PROVE  s.ready => /\ \A r \in ResourceNames : cloud'[r] # None
                        /\ s.bucketName = Text(bucket_name)
  BY <1>4 DEF Honest
<1>5. CASE Submit
  <2>1. PICK p \in Parameters : params' = Defaulted(p) /\ asked' = asked \cup {Defaulted(p)}
    BY <1>5 DEF Submit
  <2>2. UNCHANGED <<job, live, cloud, status>>
    BY <1>5 DEF Submit
  <2>3. asked' \subseteq DOMAIN Rendered /\ asked \subseteq asked' /\ params' \in asked'
    BY <1>1, <2>1 DEF Rendered
  <2>4. HoldsDocuments(live)' /\ HoldsDocuments(cloud)'
    BY <1>3, <2>2, <2>3
  <2>5. Honest(status)' /\ (job.busy => Honest(job.status)')
    BY <1>1, <1>2, <2>2 DEF Honest
  <2> QED
    BY <1>2, <2>2, <2>3, <2>4, <2>5, NamesAre DEF StoreInv
<1>6. CASE Compose
  <2>1. job' = [busy |-> TRUE, xr |-> params, next |-> 1, status |-> Observed]
        /\ params # None /\ UNCHANGED <<params, asked, live, cloud, status>>
    BY <1>6 DEF Compose
  <2>2. Honest(job.status)' /\ Honest(status)'
    <3>1. Honest(Observed) /\ job'.status = Observed
      BY <2>1, ObservedIsHonest
    <3> QED
      BY <1>1, <2>1, <3>1 DEF Honest
  <2>3. HoldsDocuments(live)' /\ HoldsDocuments(cloud)'
    BY <1>3, <2>1
  <2>4. /\ job' = [busy |-> TRUE, xr |-> job'.xr, next |-> job'.next, status |-> job'.status]
        /\ job'.xr \in asked' /\ job'.next \in 1 .. 8
    BY <1>1, <2>1
  <2> QED
    BY <1>1, <2>1, <2>2, <2>3, <2>4, NamesAre DEF StoreInv
<1>7. CASE Apply
  <2>1. /\ job.busy /\ job.next <= 7
        /\ live' = [live EXCEPT ![Resources[job.next].name] = Rendered[job.xr][job.next]]
        /\ job' = [job EXCEPT !.next = @ + 1]
        /\ UNCHANGED <<params, asked, cloud, status>>
    BY <1>7, NamesAre DEF Apply
  <2>2. /\ job = [busy |-> TRUE, xr |-> job.xr, next |-> job.next, status |-> job.status]
        /\ job.xr \in asked /\ job.next \in 1 .. 7 /\ Honest(job.status)
    BY <1>2, <2>1
  <2>3. job' = [busy |-> TRUE, xr |-> job.xr, next |-> job.next + 1, status |-> job.status]
    <3> DEFINE x == job.xr  n == job.next  s == job.status
    <3>1. job = [busy |-> TRUE, xr |-> x, next |-> n, status |-> s]
          /\ job' = [job EXCEPT !.next = n + 1]
      BY <2>1, <2>2
    <3> HIDE DEF x, n, s
    <3>2. job' = [busy |-> TRUE, xr |-> x, next |-> n + 1, status |-> s]
      BY <3>1
    <3> QED
      BY <3>2 DEF x, n, s
  <2>4. HoldsDocuments(live)'
    <3> DEFINE at == Resources[job.next].name
    <3>1. at \in ResourceNames /\ DOMAIN live = ResourceNames
      BY <1>1, <2>2, NamesAre DEF HoldsDocuments
    <3>2. live' = [r \in ResourceNames |-> IF r = at THEN Rendered[job.xr][job.next] ELSE live[r]]
      BY <2>1, <3>1
    <3>3. ASSUME NEW i \in 1 .. 7, live'[Resources[i].name] # None
          PROVE  \E p \in asked : live'[Resources[i].name] = Rendered[p][i]
      <4>1. Resources[i].name \in ResourceNames
        BY NamesAre
      <4>2. CASE i = job.next
        BY <2>2, <3>2, <4>1, <4>2
      <4>3. CASE i # job.next
        <5>1. Resources[i].name # at
          BY <2>2, <4>3, NamesAre
        <5>2. live'[Resources[i].name] = live[Resources[i].name]
          BY <3>2, <4>1, <5>1
        <5>3. live[Resources[i].name] # None =>
                 \E p \in asked : live[Resources[i].name] = Rendered[p][i]
          BY <1>1, NamesAre DEF HoldsDocuments
        <5> QED
          BY <2>1, <3>3, <5>2, <5>3
      <4> QED
        BY <4>2, <4>3
    <3> HIDE DEF at
    <3>4. DOMAIN live' = ResourceNames /\ live' = [r \in ResourceNames |-> live'[r]]
      BY <3>2
    <3> QED
      BY <2>1, <3>3, <3>4, NamesAre DEF HoldsDocuments
  <2>5. HoldsDocuments(cloud)' /\ Honest(status)' /\ Honest(job.status)'
    <3>1. job'.status = job.status
      BY <2>3
    <3> QED
      BY <1>1, <2>1, <2>2, <3>1 DEF HoldsDocuments, Honest
  <2>6. /\ job' = [busy |-> TRUE, xr |-> job'.xr, next |-> job'.next, status |-> job'.status]
        /\ job'.xr \in asked' /\ job'.next \in 1 .. 8
    <3>1. job'.busy = TRUE /\ job'.xr = job.xr /\ job'.next = job.next + 1
          /\ job'.status = job.status
      BY <2>3
    <3>2. job'.xr \in asked' /\ job'.next \in 1 .. 8
      BY <2>1, <2>2, <3>1
    <3> QED
      BY <2>3, <3>1, <3>2
  <2> QED
    BY <1>1, <2>1, <2>4, <2>5, <2>6, NamesAre DEF StoreInv
<1>8. CASE Finish
  <2>1. status' = job.status /\ ~job'.busy /\ job.busy /\ UNCHANGED <<params, asked, live, cloud>>
    BY <1>8 DEF Finish, NoJob
  <2>2. Honest(status)'
    BY <1>2, <2>1 DEF Honest
  <2>3. HoldsDocuments(live)' /\ HoldsDocuments(cloud)'
    BY <1>3, <2>1
  <2> QED
    BY <1>1, <2>1, <2>2, <2>3 DEF StoreInv
<1>9. CASE Crash
  <2>1. ~job'.busy /\ UNCHANGED <<params, asked, live, cloud, status>>
    BY <1>9 DEF Crash, NoJob
  <2>2. Honest(status)'
    BY <1>1, <2>1 DEF Honest
  <2>3. HoldsDocuments(live)' /\ HoldsDocuments(cloud)'
    BY <1>3, <2>1
  <2> QED
    BY <1>1, <2>1, <2>2, <2>3 DEF StoreInv
<1>10. ASSUME NEW r \in ResourceNames, Provide(r) PROVE StoreInv'
  <2>1. live[r] # None /\ cloud' = [cloud EXCEPT ![r] = live[r]]
        /\ UNCHANGED <<params, asked, job, live, status>>
    BY <1>10 DEF Provide
  <2>2. cloud' = [q \in ResourceNames |-> IF q = r THEN live[r] ELSE cloud[q]]
    BY <1>1, <2>1 DEF HoldsDocuments
  <2>3. HoldsDocuments(cloud)'
    <3>1. ASSUME NEW i \in 1 .. 7, cloud'[Resources[i].name] # None
          PROVE  \E p \in asked : cloud'[Resources[i].name] = Rendered[p][i]
      <4>1. Resources[i].name \in ResourceNames
        BY NamesAre
      <4>2. cloud'[Resources[i].name] \in {live[Resources[i].name], cloud[Resources[i].name]}
        BY <2>2, <4>1
      <4>3. /\ live[Resources[i].name] # None =>
                 \E p \in asked : live[Resources[i].name] = Rendered[p][i]
            /\ cloud[Resources[i].name] # None =>
                 \E p \in asked : cloud[Resources[i].name] = Rendered[p][i]
        BY <1>1, NamesAre DEF HoldsDocuments
      <4> QED
        BY <2>1, <3>1, <4>2, <4>3
    <3>2. DOMAIN cloud' = ResourceNames /\ cloud' = [q \in ResourceNames |-> cloud'[q]]
      BY <2>2
    <3> QED
      BY <2>1, <3>1, <3>2, NamesAre DEF HoldsDocuments
  <2>4. HoldsDocuments(live)'
    BY <1>1, <2>1 DEF HoldsDocuments
  <2>5. \A q \in ResourceNames : cloud[q] # None => cloud'[q] # None
    BY <2>1, <2>2
  <2>6. Honest(status)' /\ (job.busy => Honest(job.status)')
    BY <1>1, <1>2, <1>4, <2>1, <2>5 DEF Honest
  <2> QED
    BY <1>1, <1>2, <2>1, <2>3, <2>4, <2>6, NamesAre DEF StoreInv
<1>11. CASE UNCHANGED vars
  <2>1. UNCHANGED <<params, asked, job, live, cloud, status>>
    BY <1>11 DEF vars
  <2>2. HoldsDocuments(live)' /\ HoldsDocuments(cloud)'
    BY <1>3, <2>1
  <2>3. Honest(status)' /\ (job.busy => Honest(job.status)')
    BY <1>1, <1>2, <2>1 DEF Honest
  <2> QED
    BY <1>1, <1>2, <2>1, <2>2, <2>3, NamesAre DEF StoreInv
<1> QED
  BY <1>5, <1>6, <1>7, <1>8, <1>9, <1>10, <1>11 DEF Next, Reconcile, ProvideSome

LEMMA StoreInvariant == Spec => []StoreInv
<1>1. Init => StoreInv
  BY StoreInitially
<1>2. StoreInv /\ [Next]_vars => StoreInv'
  BY StoreStep
<1> QED
  BY <1>1, <1>2, PTL DEF Spec


--------------------------------------------------------------------------------
(* The theorems. *)

\* What the cloud holds of a resource that is there, read from the document of its version.
LEMMA CloudReads ==
  ASSUME StoreInv
  PROVE  /\ cloud["bucket"] # None =>
              CloudBucketName = Text(bucket_name)
         /\ cloud["policy"] # None => CloudDocument = Access(bucket_name)
         /\ cloud["role"] # None =>
              \E p \in asked : Typed(p) /\ CloudTrust = Text(Trust(p))
<1>1. HoldsDocuments(cloud) /\ asked \subseteq DOMAIN Rendered
  BY DEF StoreInv
<1>2. ASSUME cloud["bucket"] # None PROVE CloudBucketName = Text(bucket_name)
  <2>1. \E p \in asked : cloud["bucket"] = Document(p, 1)
    BY <1>1, <1>2, NamesAre, HeldDocument
  <2>2. Setting("bucket", ExternalName) = Text(bucket_name)
    BY <2>1, BucketDocument DEF Setting
  <2> QED
    BY <2>2, NodeKinds DEF CloudBucketName, NameInCloud
<1>3. ASSUME cloud["policy"] # None PROVE CloudDocument = Access(bucket_name)
  <2>1. \E p \in asked : cloud["policy"] = Document(p, 6)
    BY <1>1, <1>3, NamesAre, HeldDocument
  <2> QED
    BY <2>1, PolicyDocument DEF CloudDocument, Setting, DocumentPath
<1>4. ASSUME cloud["role"] # None PROVE \E p \in asked : Typed(p) /\ CloudTrust = Text(Trust(p))
  <2>1. \E p \in asked : Typed(p) /\ cloud["role"] = Document(p, 5)
    BY <1>1, <1>4, NamesAre, HeldDocument
  <2> QED
    BY <2>1, RoleDocument DEF CloudTrust, Setting, TrustPath
<1> QED
  BY <1>2, <1>3, <1>4

\* For all parameters and every interleaving of edits, restarts, applies and providers, the policy
\* in the cloud grants access to the bucket of the store and to no other
\* (composition.yaml:34-44 and 213-227).
THEOREM PolicyGrantsTheBucket == Spec => []GrantsItsBucketOnly
<1>1. StoreInv => GrantsItsBucketOnly
  BY CloudReads, NodeKinds DEF GrantsItsBucketOnly
<1> QED
  BY <1>1, StoreInvariant, PTL

\* Of a store that asks for one trust or none the composition makes the planned document; of both
\* trusts it makes the principal's.
LEMMA ComposedTrust ==
  ASSUME NEW p, Typed(p)
  PROVE  /\ ~AsksBothTrusts(p) => Trust(p) = PrincipalStatement(p) \o OidcStatement(p)
         /\ AsksBothTrusts(p) => Trust(p) = PrincipalStatement(p)
<1>1. AsksBothTrusts(p) <=> Asks(p, "trustedPrincipalArn") /\ Asks(p, "githubOidcProviderArn")
                              /\ Asks(p, "githubRepository")
  BY DEF AsksBothTrusts, Asks
<1>2. CASE AsksBothTrusts(p)
  BY <1>1, <1>2 DEF Trust
<1>3. CASE ~AsksBothTrusts(p) /\ Asks(p, "trustedPrincipalArn")
  <2> DEFINE S == STRING \cup {"TrustedPrincipals"}
             t == p["trustedPrincipalArn"].text
  <2>1. OidcStatement(p) = <<>>
    BY <1>1, <1>3 DEF OidcStatement
  <2>2. t \in Seq(S)
    <3>1. t \in Seq(STRING)
      BY <1>3 DEF Asks, Typed
    <3> QED
      BY <3>1, SeqMonotonic
  <2>3. <<"TrustedPrincipals">> \in Seq(S)
    OBVIOUS
  <2> HIDE DEF S, t
  <2>4. (<<"TrustedPrincipals">> \o t) \in Seq(S)
    BY <2>2, <2>3
  <2>5. PrincipalStatement(p) = <<"TrustedPrincipals">> \o t
    BY <1>3 DEF PrincipalStatement, t
  <2>6. PrincipalStatement(p) \o <<>> = PrincipalStatement(p)
    BY <2>4, <2>5, ConcatEmptySeq
  <2> QED
    BY <1>3, <2>1, <2>6 DEF Trust
<1>4. CASE ~Asks(p, "trustedPrincipalArn") /\ Asks(p, "githubOidcProviderArn")
             /\ Asks(p, "githubRepository")
  <2> DEFINE S == STRING \cup {"GitHubActionsOIDC"}
             a == p["githubOidcProviderArn"].text
             b == p["githubRepository"].text
  <2>1. PrincipalStatement(p) = <<>>
    BY <1>4 DEF PrincipalStatement
  <2>2. a \in Seq(S) /\ b \in Seq(S)
    <3>1. a \in Seq(STRING) /\ b \in Seq(STRING)
      BY <1>4 DEF Asks, Typed
    <3> QED
      BY <3>1, SeqMonotonic
  <2>3. <<"GitHubActionsOIDC">> \in Seq(S)
    OBVIOUS
  <2> HIDE DEF S, a, b
  <2>4. (<<"GitHubActionsOIDC">> \o a) \o b \in Seq(S)
    BY <2>2, <2>3
  <2>5. OidcStatement(p) = (<<"GitHubActionsOIDC">> \o a) \o b
    BY <1>4 DEF OidcStatement, a, b
  <2>6. <<>> \o OidcStatement(p) = OidcStatement(p)
    BY <2>4, <2>5, ConcatEmptySeq
  <2> QED
    BY <1>1, <1>4, <2>1, <2>6 DEF Trust
<1>5. CASE ~Asks(p, "trustedPrincipalArn") /\ ~(Asks(p, "githubOidcProviderArn")
             /\ Asks(p, "githubRepository"))
  <2>1. PrincipalStatement(p) = <<>> /\ OidcStatement(p) = <<>> /\ <<>> \o <<>> = <<>>
    BY <1>5, ConcatEmptySeq DEF PrincipalStatement, OidcStatement
  <2> QED
    BY <1>1, <1>5, <2>1 DEF Trust
<1> QED
  BY <1>1, <1>2, <1>3, <1>4, <1>5

\* Nobody can assume the role whom no submitted version asked for: the trust in the cloud is made of
\* the statements of one version, never of the provider of one and the repository of another, and
\* none of them is missing, but that of a version that asks for both trusts, where xrd.yaml:42-45
\* promises both, only one may be there (composition.yaml:159-189).
THEOREM TrustIsAskedFor == Spec => []TrustWasAsked
<1>1. StoreInv => TrustWasAsked
  <2> SUFFICES ASSUME StoreInv, cloud["role"] # None
               PROVE  \E p \in asked :
                        \/ CloudTrust = Text(PrincipalStatement(p) \o OidcStatement(p))
                        \/ /\ AsksBothTrusts(p)
                           /\ CloudTrust \in {Text(PrincipalStatement(p)), Text(OidcStatement(p))}
    BY DEF TrustWasAsked
  <2>1. PICK p \in asked : Typed(p) /\ CloudTrust = Text(Trust(p))
    BY CloudReads
  <2> QED
    BY <2>1, ComposedTrust
<1> QED
  BY <1>1, StoreInvariant, PTL

\* A store that reports itself ready is whole: the seven resources are in the cloud, its policy is
\* not the empty base, and its status has the name of the bucket (composition.yaml:243-246).
THEOREM ReadyStoresAreWhole == Spec => []ReadyMeansWhole
<1>1. Access(bucket_name) # Text(<<>>)
  <2> DEFINE s == ((<<"ListBucket">> \o bucket_name) \o <<"ObjectReadWrite">>) \o bucket_name
  <2>1. bucket_name \in Seq(Words) /\ <<"ListBucket">> \in Seq(Words)
        /\ <<"ObjectReadWrite">> \in Seq(Words) /\ <<"/*">> \in Seq(Words)
    <3>1. <<"-">> \in Seq(Words) /\ <<"ListBucket">> \in Seq(Words)
          /\ <<"ObjectReadWrite">> \in Seq(Words) /\ <<"/*">> \in Seq(Words)
      BY DEF Words
    <3> QED
      BY <3>1, StoreWords DEF bucket_name
  <2>2. s \in Seq(Words)
    BY <2>1
  <2>3. Access(bucket_name) = Text(s \o <<"/*">>)
    BY DEF Access
  <2> HIDE DEF s
  <2>4. Len(s \o <<"/*">>) # 0 /\ Len(<<>>) = 0
    BY <2>1, <2>2
  <2>5. s \o <<"/*">> # <<>>
    BY <2>4
  <2>6. \A t, u : Text(t) = Text(u) => t = u
    BY NodeKinds
  <2> QED
    BY <2>3, <2>5, <2>6
<1>2. StoreInv => ReadyMeansWhole
  <2> SUFFICES ASSUME StoreInv, status.ready
               PROVE  /\ \A r \in ResourceNames : cloud[r] # None
                      /\ CloudDocument # Text(<<>>)
                      /\ status.bucketName = CloudBucketName
    BY DEF ReadyMeansWhole
  <2>1. (\A r \in ResourceNames : cloud[r] # None) /\ status.bucketName = Text(bucket_name)
    BY DEF StoreInv, Honest
  <2>2. cloud["bucket"] # None /\ cloud["policy"] # None
    BY <2>1, NamesAre
  <2> QED
    BY <1>1, <2>1, <2>2, CloudReads
<1> QED
  BY <1>2, StoreInvariant, PTL

(* The cloud holds what the composition makes of version p, all of it. *)
HoldsVersion(p) == \A i \in DOMAIN Resources : cloud[Resources[i].name] = Rendered[p][i]

\* The safety half of Settles: a cloud that holds the documents of one version has every setting
\* that the Terraform module plans for it, but for the ones Divergences names; where the version
\* asks for both trusts it has the principal's (composition.yaml:28-241, main.tf:10-129).
THEOREM HeldVersionsAreThePlanned ==
  Spec => [](\A p \in asked : HoldsVersion(p) =>
               /\ Differing(p) \subseteq Divergences(p)
               /\ AsksBothTrusts(p) => CloudTrust = Text(PrincipalStatement(p)))
<1>1. ASSUME StoreInv, NEW p \in asked, HoldsVersion(p)
      PROVE  /\ Differing(p) \subseteq Divergences(p)
             /\ AsksBothTrusts(p) => CloudTrust = Text(PrincipalStatement(p))
  <2> DEFINE here == CloudSettings
             plan == TerraformSettings(p)
  <2>1. p \in DOMAIN Rendered /\ Typed(p) /\ \A i \in 1 .. 7 : Rendered[p][i] = Document(p, i)
    BY <1>1, RenderedIs DEF StoreInv
  <2>2. /\ cloud["bucket"] = Document(p, 1) /\ cloud["bucket-versioning"] = Document(p, 2)
        /\ cloud["bucket-encryption"] = Document(p, 3)
        /\ cloud["bucket-public-access-block"] = Document(p, 4)
        /\ cloud["role"] = Document(p, 5) /\ cloud["policy"] = Document(p, 6)
    BY <1>1, <2>1, NamesAre DEF HoldsVersion
  <2>3. CloudTrust = Text(Trust(p))
    BY <2>1, <2>2, RoleDocument DEF CloudTrust, Setting, TrustPath
  <2>4. AsksBothTrusts(p) => CloudTrust = Text(PrincipalStatement(p))
    BY <2>1, <2>3, ComposedTrust
  <2>5. ~AsksBothTrusts(p) => here.trust = plan.trust
    BY <2>1, <2>3, ComposedTrust DEF CloudSettings, TerraformSettings
  <2>6. here.bucketName = plan.bucketName
    <3>1. Setting("bucket", ExternalName) = Text(bucket_name)
      BY <2>2, BucketDocument DEF Setting
    <3>2. CloudBucketName = Text(bucket_name)
      BY <3>1, NodeKinds DEF CloudBucketName, NameInCloud
    <3> QED
      BY <3>2 DEF CloudSettings, TerraformSettings
  <2>7. here.versioning = plan.versioning
    <3>1. Setting("bucket-versioning", StatusPath)
            = Text(IF p["versioning"].flag THEN <<"Enabled">> ELSE <<"Suspended">>)
      BY <2>1, <2>2, VersioningDocument DEF Setting
    <3> QED
      BY <3>1 DEF CloudSettings, TerraformSettings, StatusPath
  <2>8. here.encryption = plan.encryption
    <3>1. Setting("bucket-encryption", ForProvider("rule"))
            = List(<<Dict([sseAlgorithm |-> Text(<<"AES256">>), bucketKeyEnabled |-> Flag(TRUE)])>>)
      BY <2>2, ProtectionDocuments DEF Setting
    <3> QED
      BY <3>1 DEF CloudSettings, TerraformSettings
  <2>9. here.publicAccess = plan.publicAccess
    <3>1. \A access \in PublicAccess :
            Setting("bucket-public-access-block", ForProvider(access)) = Flag(TRUE)
      BY <2>2, ProtectionDocuments DEF Setting
    <3> QED
      BY <3>1 DEF CloudSettings, TerraformSettings
  <2>10. here.session = plan.session
    <3>1. Setting("role", SessionPath) = Text(<<"3600">>)
      BY <2>1, <2>2, RoleDocument DEF Setting
    <3> QED
      BY <3>1 DEF CloudSettings, TerraformSettings, SessionPath
  <2>11. here.document = plan.document
    <3>1. CloudDocument = Access(bucket_name)
      BY <2>2, PolicyDocument DEF CloudDocument, Setting, DocumentPath
    <3> QED
      BY <3>1 DEF CloudSettings, TerraformSettings
  <2>12. here.components = plan.components
    <3>1. \A r \in Tagged : Setting(r, ComponentPath) = Text(StoreName)
      BY <2>1, <2>2, BucketDocument, RoleDocument, PolicyDocument DEF Tagged, Setting
    <3> QED
      BY <3>1 DEF CloudSettings, TerraformSettings, ComponentPath
  <2>13. DOMAIN here = {"bucketName", "versioning", "encryption", "publicAccess", "ownership",
                        "roleName", "trust", "session", "policyName", "document", "components"}
    BY DEF CloudSettings
  <2>14. /\ here["trust"] = here.trust /\ plan["trust"] = plan.trust
         /\ here["bucketName"] = here.bucketName /\ plan["bucketName"] = plan.bucketName
    OBVIOUS
  <2>15. Differing(p) = {s \in DOMAIN here : here[s] # plan[s]}
    BY DEF Differing
  <2> HIDE DEF here, plan
  <2>16. ASSUME NEW s \in Differing(p) PROVE s \in Divergences(p)
    <3>1. s \in DOMAIN here /\ here[s] # plan[s]
      BY <2>15, <2>16
    <3>2. s \in {"ownership", "roleName", "policyName", "trust"}
      BY <2>6, <2>7, <2>8, <2>9, <2>10, <2>11, <2>12, <2>13, <3>1
    <3>3. s = "trust" => AsksBothTrusts(p)
      BY <2>5, <3>1
    <3> QED
      BY <3>2, <3>3 DEF Divergences
  <2> QED
    BY <2>4, <2>16
<1>2. StoreInv => \A p \in asked : HoldsVersion(p) =>
                    /\ Differing(p) \subseteq Divergences(p)
                    /\ AsksBothTrusts(p) => CloudTrust = Text(PrincipalStatement(p))
  BY <1>1
<1> QED
  BY <1>2, StoreInvariant, PTL
================================================================================
