------------------------ MODULE MigrationAnalyzerProofs ------------------------
(***************************************************************************)
(* Theorems about the migration-analyzer, for Jenkinsfiles of any length.   *)
(***************************************************************************)
EXTENDS MigrationAnalyzer, FiniteSetTheorems, WellFoundedInduction, TLAPS

--------------------------------------------------------------------------------
(* Numbers in order, and induction.  The induction theorems of the library     *)
(* take a predicate; here a set of numbers stands for it.                      *)

\* A set of natural numbers has a least element: take the shortest of the intervals 1..n.
LEMMA Least ==
  ASSUME NEW S \in SUBSET Nat, S # {}
  PROVE  \E m \in S : \A k \in S : m <= k
<1> DEFINE Intervals == {1 .. n : n \in S}
<1>1. Intervals \subseteq FiniteSubsetsOf(Nat) /\ Intervals # {}
  <2>1. \A n \in S : IsFiniteSet(1 .. n) /\ 1 .. n \subseteq Nat
    BY FS_Interval
  <2> QED
    BY <2>1 DEF FiniteSubsetsOf
<1>2. IsWellFoundedOn(StrictSubsetOrdering(Nat), FiniteSubsetsOf(Nat))
  BY FS_StrictSubsetOrderingWellFounded
<1>3. PICK I \in Intervals : \A J \in Intervals : <<J, I>> \notin StrictSubsetOrdering(Nat)
  <2> HIDE DEF Intervals
  <2> QED
    BY <1>1, <1>2, WFMin
<1>4. PICK m \in S : I = 1 .. m
  BY <1>3
<1>5. ASSUME NEW k \in S, k < m PROVE FALSE
  <2>1. 1 .. k \in Intervals /\ 1 .. k \subseteq 1 .. m /\ m \in 1 .. m /\ m \notin 1 .. k
    BY <1>5
  <2>2. <<1 .. k, 1 .. m>> \in StrictSubsetOrdering(Nat)
    BY <2>1 DEF StrictSubsetOrdering
  <2> QED
    BY <1>3, <1>4, <2>1, <2>2
<1> QED
  BY <1>5

LEMMA Induction ==
  ASSUME NEW a \in Nat, NEW b \in Nat, NEW S, a \in S,
         \A k \in a .. b - 1 : k \in S => k + 1 \in S
  PROVE  \A k \in a .. b : k \in S
<1> DEFINE Bad == {k \in a .. b : k \notin S}
<1>1. SUFFICES ASSUME Bad # {} PROVE FALSE
  OBVIOUS
<1>2. PICK m \in Bad : \A k \in Bad : m <= k
  BY <1>1, Least, Bad \in SUBSET Nat
<1>3. m - 1 \in a .. b - 1 /\ m - 1 \notin Bad
  BY <1>2
<1> QED
  BY <1>2, <1>3

LEMMA MinIs ==
  ASSUME NEW S \in SUBSET Nat, S # {}
  PROVE  Min(S) \in S /\ \A k \in S : Min(S) <= k
  BY Least DEF Min

\* A finite set of numbers can be put in order: each goes to the place that the number of
\* those up to it says.
LEMMA CanBeOrdered ==
  ASSUME NEW S \in SUBSET Nat, IsFiniteSet(S)
  PROVE  \E q \in [1 .. Cardinality(S) -> S] : \A j, k \in DOMAIN q : j < k => q[j] < q[k]
<1> DEFINE n == Cardinality(S)
           UpTo(e) == {d \in S : d <= e}
           place == [e \in S |-> Cardinality(UpTo(e))]
<1>0. \A e \in S : e \in Nat
  OBVIOUS
<1>1. n \in Nat
  BY FS_CardinalityType
<1>2. ASSUME NEW e \in S
      PROVE  IsFiniteSet(UpTo(e)) /\ place[e] \in 1 .. n /\ place[e] = Cardinality(UpTo(e))
  <2>1. IsFiniteSet(UpTo(e)) /\ Cardinality(UpTo(e)) <= n
    BY FS_Subset, UpTo(e) \in SUBSET S
  <2>2. Cardinality(UpTo(e)) \in Nat /\ Cardinality(UpTo(e)) # 0
    <3>1. e \in UpTo(e)
      OBVIOUS
    <3> HIDE DEF UpTo
    <3> QED
      BY <2>1, <3>1, FS_CardinalityType, FS_EmptySet
  <2> HIDE DEF UpTo
  <2> QED
    BY <1>1, <2>1, <2>2
<1>3. ASSUME NEW d \in S, NEW e \in S, d < e
      PROVE  place[d] < place[e]
  <2>1. UpTo(d) \in SUBSET UpTo(e) /\ e \in UpTo(e) /\ e \notin UpTo(d)
    <3>1. d \in Nat /\ e \in Nat /\ ~(e <= d) /\ e <= e
      BY <1>0, <1>3
    <3>2. \A c \in S : c <= d => c <= e
      BY <1>0, <1>3, <3>1
    <3> QED
      BY <3>1, <3>2
  <2> HIDE DEF UpTo
  <2>2. IsFiniteSet(UpTo(e)) /\ place[d] = Cardinality(UpTo(d)) /\ place[e] = Cardinality(UpTo(e))
        /\ place[d] \in Nat /\ place[e] \in Nat
    BY <1>2
  <2> HIDE DEF place
  <2>3. Cardinality(UpTo(d)) <= Cardinality(UpTo(e)) /\ Cardinality(UpTo(d)) # Cardinality(UpTo(e))
    BY <2>1, <2>2, FS_Subset
  <2> QED
    BY <2>2, <2>3
<1>4. place \in Injection(S, 1 .. n)
  <2>1. place \in [S -> 1 .. n]
    BY <1>2
  <2>2. ASSUME NEW d \in S, NEW e \in S, d # e PROVE place[d] # place[e]
    <3> HIDE DEF place, n
    <3> QED
      BY <1>2, <1>3, <2>1, <2>2
  <2> HIDE DEF place
  <2> QED
    BY <2>1, <2>2 DEF Injection, IsInjective
<1>5. \A k \in 1 .. n : \E e \in S : place[e] = k
  <2>1. IsFiniteSet(1 .. n) /\ Cardinality(1 .. n) = n
    BY <1>1, FS_Interval
  <2> HIDE DEF place
  <2>2. place \in Surjection(S, 1 .. n)
    BY <1>4, <2>1, FS_Injection
  <2> QED
    BY <2>2 DEF Surjection
<1> DEFINE q == [k \in 1 .. n |-> CHOOSE e \in S : place[e] = k]
<1>6. ASSUME NEW k \in 1 .. n PROVE q[k] \in S /\ place[q[k]] = k
  <2> HIDE DEF place
  <2> QED
    BY <1>5
<1>7. ASSUME NEW j \in 1 .. n, NEW k \in 1 .. n, j < k PROVE q[j] < q[k]
  <2>1. q[j] \in S /\ q[k] \in S /\ place[q[j]] = j /\ place[q[k]] = k
    BY <1>6
  <2> HIDE DEF place, q, n
  <2>2. j \in Nat /\ k \in Nat /\ q[j] \in Nat /\ q[k] \in Nat
    <3>1. j \in Nat /\ k \in Nat
      BY <1>1
    <3>2. q[j] \in Nat /\ q[k] \in Nat
      BY <1>0, <2>1
    <3> QED
      BY <3>1, <3>2
  <2>3. q[j] # q[k]
    BY <1>7, <2>1, <2>2
  <2>4. ~(q[k] < q[j])
    BY <1>3, <1>7, <2>1, <2>2
  <2> QED
    BY <2>2, <2>3, <2>4
<1>8. q \in [1 .. n -> S]
  BY <1>6
<1> HIDE DEF q
<1> QED
  BY <1>7, <1>8

LEMMA InOrderIs ==
  ASSUME NEW S \in SUBSET Nat, IsFiniteSet(S)
  PROVE  /\ Cardinality(S) \in Nat
         /\ InOrder(S) \in [1 .. Cardinality(S) -> S]
         /\ DOMAIN InOrder(S) = 1 .. Cardinality(S)
         /\ \A j, k \in 1 .. Cardinality(S) : j < k => InOrder(S)[j] < InOrder(S)[k]
         /\ \A e \in S : \E k \in 1 .. Cardinality(S) : InOrder(S)[k] = e
<1> DEFINE n == Cardinality(S)
           q == InOrder(S)
<1>0. \A e \in S : e \in Nat
  OBVIOUS
<1>1. n \in Nat
  BY FS_CardinalityType
<1>2. q \in [1 .. n -> S] /\ \A j, k \in DOMAIN q : j < k => q[j] < q[k]
  BY CanBeOrdered DEF InOrder
<1> HIDE DEF q
<1>3. DOMAIN q = 1 .. n
  BY <1>2
<1>4. q \in Injection(1 .. n, S)
  <2>1. ASSUME NEW j \in 1 .. n, NEW k \in 1 .. n, q[j] = q[k] PROVE j = k
    <3>1. j \in Nat /\ k \in Nat /\ q[j] \in Nat /\ q[k] \in Nat
      <4>1. j \in Nat /\ k \in Nat
        BY <1>1
      <4>2. q[j] \in S /\ q[k] \in S
        BY <1>2
      <4> QED
        BY <1>0, <4>1, <4>2
    <3>2. ~(j < k) /\ ~(k < j)
      BY <1>2, <1>3, <2>1, <3>1
    <3> QED
      BY <3>1, <3>2
  <2> QED
    BY <1>2, <1>3, <2>1 DEF Injection, IsInjective
<1>5. q \in Surjection(1 .. n, S)
  <2>1. IsFiniteSet(1 .. n) /\ Cardinality(1 .. n) = n
    BY <1>1, FS_Interval
  <2> QED
    BY <1>4, <2>1, FS_Injection
<1>6. \A e \in S : \E k \in 1 .. n : q[k] = e
  BY <1>5 DEF Surjection
<1> QED
  BY <1>1, <1>2, <1>3, <1>6 DEF q

\* What is picked out of a sequence is what it has at those positions.
LEMMA PickedIs ==
  ASSUME NEW seq, NEW P \in SUBSET Nat, IsFiniteSet(P)
  PROVE  /\ Cardinality(P) \in Nat
         /\ Picked(seq, P) \in Seq({seq[i] : i \in P})
         /\ Len(Picked(seq, P)) = Cardinality(P)
         /\ DOMAIN Picked(seq, P) = 1 .. Cardinality(P)
         /\ ToSet(Picked(seq, P)) = {seq[i] : i \in P}
<1> DEFINE n == Cardinality(P)
           at == InOrder(P)
           s == [k \in 1 .. n |-> seq[at[k]]]
<1>1. /\ n \in Nat /\ at \in [1 .. n -> P] /\ DOMAIN at = 1 .. n
      /\ \A i \in P : \E k \in 1 .. n : at[k] = i
  BY InOrderIs
<1>2. Picked(seq, P) = s
  BY <1>1 DEF Picked
<1> HIDE DEF n, at
<1>3. s \in [1 .. n -> {seq[i] : i \in P}]
  BY <1>1
<1>4. DOMAIN s = 1 .. n /\ {s[k] : k \in 1 .. n} = {seq[i] : i \in P}
  BY <1>1
<1> HIDE DEF s
<1>5. s \in Seq({seq[i] : i \in P}) /\ Len(s) = n
  BY <1>1, <1>3
<1> QED
  BY <1>1, <1>2, <1>4, <1>5 DEF n, ToSet

\* Sorting loses no finding, if no two have line and rule in common.
LEMMA SortedIs ==
  ASSUME NEW S, IsFiniteSet(S), \A f \in S : Key(f) \in Nat,
         \A f, g \in S : Key(f) = Key(g) => f = g
  PROVE  Sorted(S) \in Seq(S) /\ ToSet(Sorted(S)) = S
<1> DEFINE Keys == {Key(f) : f \in S}
           key == [f \in S |-> Key(f)]
           at == InOrder(Keys)
           n == Cardinality(Keys)
           s == [k \in 1 .. n |-> CHOOSE f \in S : Key(f) = at[k]]
<1>1. Keys \in SUBSET Nat
  OBVIOUS
<1>2. IsFiniteSet(Keys)
  <2>1. key \in Surjection(S, Keys)
    BY DEF Surjection
  <2> QED
    BY <2>1, FS_Surjection
<1>3. /\ n \in Nat /\ at \in [1 .. n -> Keys] /\ DOMAIN at = 1 .. n
      /\ \A x \in Keys : \E k \in 1 .. n : at[k] = x
  <2> HIDE DEF Keys
  <2> QED
    BY <1>1, <1>2, InOrderIs
<1>4. Sorted(S) = s
  BY <1>3 DEF Sorted
<1> HIDE DEF at, n
<1>5. ASSUME NEW k \in 1 .. n
      PROVE  s[k] \in S /\ Key(s[k]) = at[k]
  <2>1. PICK f \in S : Key(f) = at[k]
    BY <1>3
  <2> QED
    BY <2>1
<1>6. ASSUME NEW f \in S
      PROVE  \E k \in 1 .. n : s[k] = f
  <2>1. PICK k \in 1 .. n : at[k] = Key(f)
    BY <1>3
  <2>2. s[k] \in S /\ Key(s[k]) = Key(f)
    BY <1>5, <2>1
  <2> HIDE DEF s
  <2> QED
    BY <2>2
<1>7. s \in [1 .. n -> S] /\ DOMAIN s = 1 .. n
  BY <1>5
<1> HIDE DEF s
<1>8. s \in Seq(S)
  BY <1>3, <1>7
<1>9. ToSet(s) = S
  BY <1>5, <1>6, <1>7 DEF ToSet
<1> QED
  BY <1>4, <1>8, <1>9

--------------------------------------------------------------------------------
(* The two functions defined by recursion are what their definitions say       *)

Cleaned == Tokens \cup {Blank}

\* The mode before each token.
LEMMA ModeIs ==
  ASSUME NEW s \in Seq(Cleaned)
  PROVE  Mode(s) = [i \in 1 .. Len(s) + 1 |->
                      IF i = 1 THEN FirstMode(s) ELSE ModeAfter(Mode(s)[i - 1], s[i - 1])]
<1> DEFINE Defines(f, n) ==
             f = [i \in 1 .. n + 1 |-> IF i = 1 THEN FirstMode(s) ELSE ModeAfter(f[i - 1], s[i - 1])]
           Defined == {n \in 0 .. Len(s) : \E f : Defines(f, n)}
<1>0. Len(s) \in Nat
  OBVIOUS
<1>1. 0 \in Defined
  <2>1. Defines([i \in 1 .. 1 |-> FirstMode(s)], 0)
    OBVIOUS
  <2> HIDE DEF Defines
  <2> QED
    BY <1>0, <2>1
<1>2. ASSUME NEW n \in 0 .. Len(s) - 1, n \in Defined PROVE n + 1 \in Defined
  <2>1. PICK f : Defines(f, n)
    BY <1>2
  <2> DEFINE g == [i \in 1 .. n + 2 |->
                     IF i = n + 2 THEN ModeAfter(f[n + 1], s[n + 1]) ELSE f[i]]
  <2>2. g = [i \in 1 .. n + 2 |-> IF i = 1 THEN FirstMode(s) ELSE ModeAfter(g[i - 1], s[i - 1])]
    <3>1. ASSUME NEW i \in 1 .. n + 2
          PROVE  g[i] = IF i = 1 THEN FirstMode(s) ELSE ModeAfter(g[i - 1], s[i - 1])
      <4>1. CASE i = 1
        BY <2>1, <4>1
      <4>2. CASE i \in 2 .. n + 1
        BY <2>1, <4>2
      <4>3. CASE i = n + 2
        BY <4>3
      <4> QED
        BY <4>1, <4>2, <4>3
    <3> QED
      BY <3>1
  <2>3. Defines(g, n + 1)
    BY <2>2
  <2> HIDE DEF Defines
  <2> QED
    BY <2>3
<1>3. \A n \in 0 .. Len(s) : n \in Defined
  <2> HIDE DEF Defined
  <2> QED
    BY <1>0, <1>1, <1>2, Induction
<1>4. \E f : Defines(f, Len(s))
  BY <1>3
<1> QED
  BY <1>4 DEF Mode

\* The end of the last block comment that starts up to each token.
LEMMA CommentEndIs ==
  ASSUME NEW s \in Seq(Cleaned)
  PROVE  CommentEnd(s) = [i \in 0 .. Len(s) |->
           IF i = 0 THEN 0
           ELSE IF i > CommentEnd(s)[i - 1] /\ s[i] \in {"/*", Glob} /\ Ends(s, i) # {}
                THEN Min(Ends(s, i))
                ELSE CommentEnd(s)[i - 1]]
<1> DEFINE After(u, i) == IF i > u /\ s[i] \in {"/*", Glob} /\ Ends(s, i) # {}
                          THEN Min(Ends(s, i)) ELSE u
           Defines(f, n) == f = [i \in 0 .. n |-> IF i = 0 THEN 0 ELSE After(f[i - 1], i)]
           Defined == {n \in 0 .. Len(s) : \E f : Defines(f, n)}
<1>0. Len(s) \in Nat
  OBVIOUS
<1>1. 0 \in Defined
  <2>1. Defines([i \in 0 .. 0 |-> 0], 0)
    OBVIOUS
  <2> HIDE DEF Defines
  <2> QED
    BY <1>0, <2>1
<1>2. ASSUME NEW n \in 0 .. Len(s) - 1, n \in Defined PROVE n + 1 \in Defined
  <2>1. PICK f : Defines(f, n)
    BY <1>2
  <2> DEFINE g == [i \in 0 .. n + 1 |-> IF i = n + 1 THEN After(f[n], n + 1) ELSE f[i]]
  <2> HIDE DEF After
  <2>2. g = [i \in 0 .. n + 1 |-> IF i = 0 THEN 0 ELSE After(g[i - 1], i)]
    <3>1. ASSUME NEW i \in 0 .. n + 1
          PROVE  g[i] = IF i = 0 THEN 0 ELSE After(g[i - 1], i)
      <4>1. CASE i = 0
        BY <2>1, <4>1
      <4>2. CASE i \in 1 .. n
        BY <2>1, <4>2
      <4>3. CASE i = n + 1
        BY <4>3
      <4> QED
        BY <4>1, <4>2, <4>3
    <3> QED
      BY <3>1
  <2>3. Defines(g, n + 1)
    BY <2>2
  <2> HIDE DEF Defines
  <2> QED
    BY <2>3
<1>3. \A n \in 0 .. Len(s) : n \in Defined
  <2> HIDE DEF Defined
  <2> QED
    BY <1>0, <1>1, <1>2, Induction
<1>4. \E f : Defines(f, Len(s))
  <2>1. Len(s) \in Defined
    <3> HIDE DEF Defined
    <3> QED
      BY <1>0, <1>3
  <2> HIDE DEF Defines
  <2> QED
    BY <2>1
<1> QED
  BY <1>4 DEF CommentEnd

--------------------------------------------------------------------------------
(* What strip_comments removes is what Groovy takes for a comment              *)

LEMMA TextIs ==
  ASSUME NEW s \in Jenkinsfiles
  PROVE  s \in Seq(Tokens) /\ s \in Seq(Cleaned) /\ Legal(s)
<1>1. MaxTokens \in Nat
  BY AnalyzerAssumption
<1> QED
  BY <1>1 DEF Jenkinsfiles, SeqOf, Cleaned

LEMMA ModeAfterIs ==
  ASSUME NEW s \in Seq(Cleaned)
  PROVE  /\ Mode(s)[1] = FirstMode(s)
         /\ \A i \in DOMAIN s : Mode(s)[i + 1] = ModeAfter(Mode(s)[i], s[i])
<1>1. Len(s) \in Nat /\ DOMAIN s = 1 .. Len(s)
  OBVIOUS
<1> DEFINE m == Mode(s)
<1>2. m = [i \in 1 .. Len(s) + 1 |-> IF i = 1 THEN FirstMode(s) ELSE ModeAfter(m[i - 1], s[i - 1])]
  BY ModeIs
<1> HIDE DEF m
<1>3. m[1] = FirstMode(s)
  BY <1>1, <1>2
<1>4. ASSUME NEW i \in DOMAIN s PROVE m[i + 1] = ModeAfter(m[i], s[i])
  <2>1. i + 1 \in 1 .. Len(s) + 1 /\ i + 1 # 1 /\ (i + 1) - 1 = i
    BY <1>1
  <2> QED
    BY <1>2, <2>1
<1> QED
  BY <1>3, <1>4 DEF m

LEMMA CommentEndAfterIs ==
  ASSUME NEW s \in Seq(Cleaned)
  PROVE  /\ CommentEnd(s)[0] = 0
         /\ \A i \in DOMAIN s :
               CommentEnd(s)[i] =
                 IF i > CommentEnd(s)[i - 1] /\ s[i] \in {"/*", Glob} /\ Ends(s, i) # {}
                 THEN Min(Ends(s, i))
                 ELSE CommentEnd(s)[i - 1]
<1>1. Len(s) \in Nat /\ DOMAIN s = 1 .. Len(s)
  OBVIOUS
<1> DEFINE u == CommentEnd(s)
<1>2. u = [i \in 0 .. Len(s) |->
             IF i = 0 THEN 0
             ELSE IF i > u[i - 1] /\ s[i] \in {"/*", Glob} /\ Ends(s, i) # {}
                  THEN Min(Ends(s, i))
                  ELSE u[i - 1]]
  BY CommentEndIs
<1> HIDE DEF u
<1>3. u[0] = 0
  BY <1>1, <1>2
<1>4. ASSUME NEW i \in DOMAIN s
      PROVE  u[i] = IF i > u[i - 1] /\ s[i] \in {"/*", Glob} /\ Ends(s, i) # {}
                    THEN Min(Ends(s, i))
                    ELSE u[i - 1]
  <2>1. i \in 0 .. Len(s) /\ i # 0
    BY <1>1
  <2> QED
    BY <1>2, <2>1
<1> QED
  BY <1>3, <1>4 DEF u

\* A block comment ends: from its mark there is an end, or the text would end inside it.
LEMMA BlockEnds ==
  ASSUME NEW s \in Seq(Cleaned), CommentsEnd(s),
         NEW i \in DOMAIN s, Mode(s)[i + 1] = "block"
  PROVE  Ends(s, i) # {}
<1>1. Len(s) \in Nat /\ DOMAIN s = 1 .. Len(s) /\ i + 1 \in Nat /\ Len(s) + 1 \in Nat
  OBVIOUS
<1> SUFFICES ASSUME Ends(s, i) = {} PROVE FALSE
  OBVIOUS
<1> DEFINE InBlock == {k \in i + 1 .. Len(s) + 1 : Mode(s)[k] = "block"}
<1>2. i + 1 \in InBlock
  BY <1>1
<1>3. ASSUME NEW k \in i + 1 .. Len(s), k \in InBlock PROVE k + 1 \in InBlock
  <2>1. k \in DOMAIN s /\ s[k] \notin {"*/", Glob} /\ Mode(s)[k] = "block"
    BY <1>1, <1>3 DEF Ends
  <2>2. Mode(s)[k + 1] = ModeAfter("block", s[k])
    BY <2>1, ModeAfterIs
  <2>3. Mode(s)[k + 1] = "block"
    BY <2>1, <2>2 DEF ModeAfter
  <2> QED
    BY <1>1, <2>3
<1>4. Len(s) + 1 \in InBlock
  <2> HIDE DEF InBlock
  <2>1. (Len(s) + 1) - 1 = Len(s) /\ Len(s) + 1 \in i + 1 .. Len(s) + 1
    BY <1>1
  <2> QED
    BY <1>1, <1>2, <1>3, <2>1, Induction
<1> QED
  BY <1>4 DEF CommentsEnd

\* Before each token: inside a block comment the scanner's end is the next one of the text, and
\* outside of it the scanner's last comment is over.
LEMMA ScannerFollowsLexer ==
  ASSUME NEW s \in Seq(Cleaned), CommentsEnd(s), MarksAreMarks(s), FirstMode(s) = "code",
         NEW i \in 1 .. Len(s) + 1
  PROVE  /\ Mode(s)[i] \in {"code", "block", "line"}
         /\ CommentEnd(s)[i - 1] \in Nat
         /\ Mode(s)[i] # "block" => CommentEnd(s)[i - 1] < i
         /\ Mode(s)[i] = "block" =>
               /\ CommentEnd(s)[i - 1] >= i
               /\ s[CommentEnd(s)[i - 1]] = "*/"
               /\ \A k \in i .. CommentEnd(s)[i - 1] - 1 : s[k] # "*/"
<1> DEFINE m == Mode(s)
           u == CommentEnd(s)
           Follows(k) == /\ m[k] \in {"code", "block", "line"}
                         /\ u[k - 1] \in Nat
                         /\ m[k] # "block" => u[k - 1] < k
                         /\ m[k] = "block" => /\ u[k - 1] >= k
                                              /\ s[u[k - 1]] = "*/"
                                              /\ \A j \in k .. u[k - 1] - 1 : s[j] # "*/"
           Good == {k \in 1 .. Len(s) + 1 : Follows(k)}
<1>1. Len(s) \in Nat /\ DOMAIN s = 1 .. Len(s) /\ Len(s) + 1 \in Nat /\ 1 \in Nat
  OBVIOUS
<1>2. 1 \in Good
  BY <1>1, ModeAfterIs, CommentEndAfterIs
<1>3. ASSUME NEW k \in 1 .. Len(s), k \in Good PROVE k + 1 \in Good
  <2>1. k \in DOMAIN s /\ k \in Nat /\ (k + 1) - 1 = k /\ k + 1 \in 1 .. Len(s) + 1
    BY <1>1
  <2>2. m[k + 1] = ModeAfter(m[k], s[k])
    BY <2>1, ModeAfterIs
  <2>3. u[k] = IF k > u[k - 1] /\ s[k] \in {"/*", Glob} /\ Ends(s, k) # {}
               THEN Min(Ends(s, k)) ELSE u[k - 1]
    BY <2>1, CommentEndAfterIs
  <2>4. /\ s[k] # Glob
        /\ s[k] \in {"/*", "*/"} => m[k] # "line"
        /\ s[k] = "*/" => m[k] # "code"
    BY <2>1 DEF MarksAreMarks, CommentsEnd
  <2>5. k \in 1 .. Len(s) + 1 /\ Follows(k)
    BY <1>3
  <2>6. m[k + 1] = "block" /\ m[k] = "code" => Ends(s, k) # {}
    BY <2>1, BlockEnds
  <2>7. Ends(s, k) # {} => /\ Min(Ends(s, k)) \in Nat
                           /\ Min(Ends(s, k)) >= k + 1
                           /\ s[Min(Ends(s, k))] \in {"*/", Glob}
                           /\ \A j \in k + 1 .. Min(Ends(s, k)) - 1 : s[j] # "*/"
    <3>1. Ends(s, k) \in SUBSET Nat
      BY <1>1, <2>1 DEF Ends
    <3>2. ASSUME Ends(s, k) # {}
          PROVE  Min(Ends(s, k)) \in Ends(s, k) /\ \A j \in Ends(s, k) : Min(Ends(s, k)) <= j
      BY <3>1, <3>2, MinIs
    <3> DEFINE e == Min(Ends(s, k))
    <3>3. ASSUME e \in Ends(s, k), \A j \in Ends(s, k) : e <= j
          PROVE  /\ e \in k + 1 .. Len(s) /\ s[e] \in {"*/", Glob}
                 /\ \A j \in k + 1 .. e - 1 : s[j] # "*/"
      <4> HIDE DEF e
      <4> QED
        BY <1>1, <2>1, <3>3 DEF Ends
    <3> QED
      BY <1>1, <2>1, <3>2, <3>3
  <2>8. \A j \in Nat : s[j] # Glob \/ j \notin DOMAIN s
    BY DEF MarksAreMarks
  <2>9. Follows(k + 1)
    <3> HIDE DEF m, u
    <3>1. CASE m[k] = "block"
      <4>1. u[k] = u[k - 1]
        BY <2>1, <2>3, <2>5, <3>1
      <4>2. CASE s[k] = "*/"
        <5>1. m[k + 1] = "code"
          BY <2>2, <3>1, <4>2 DEF ModeAfter
        <5>2. u[k - 1] = k
          BY <2>1, <2>5, <3>1, <4>2
        <5> QED
          BY <2>1, <4>1, <5>1, <5>2
      <4>3. CASE s[k] # "*/"
        <5>1. m[k + 1] = "block"
          BY <2>2, <2>4, <3>1, <4>3 DEF ModeAfter
        <5>2. u[k - 1] # k
          BY <2>5, <3>1, <4>3
        <5> QED
          BY <2>1, <2>5, <3>1, <4>1, <5>1, <5>2
      <4> QED
        BY <4>2, <4>3
    <3>2. CASE m[k] = "line"
      <4>1. u[k] = u[k - 1]
        BY <2>3, <2>4, <3>2
      <4>2. m[k + 1] \in {"line", "code"}
        BY <2>2, <3>2 DEF ModeAfter
      <4> QED
        BY <2>1, <2>5, <3>2, <4>1, <4>2
    <3>3. CASE m[k] = "code" /\ s[k] = "/*"
      <4>1. m[k + 1] = "block"
        BY <2>2, <3>3 DEF ModeAfter, Glued
      <4>2. u[k] = Min(Ends(s, k)) /\ Ends(s, k) # {}
        BY <2>1, <2>3, <2>5, <2>6, <3>3, <4>1
      <4>3. s[u[k]] = "*/"
        <5>1. Min(Ends(s, k)) \in DOMAIN s
          <6>1. Ends(s, k) \in SUBSET Nat /\ Ends(s, k) \subseteq DOMAIN s
            BY <1>1, <2>1 DEF Ends
          <6> QED
            BY <4>2, <6>1, MinIs
        <5> QED
          BY <2>7, <2>8, <4>2, <5>1
      <4> QED
        BY <2>1, <2>7, <4>1, <4>2, <4>3
    <3>4. CASE m[k] = "code" /\ s[k] # "/*"
      <4>1. u[k] = u[k - 1]
        BY <2>3, <2>4, <3>4
      <4>2. m[k + 1] \in {"line", "code"}
        BY <2>2, <3>4 DEF ModeAfter
      <4> QED
        BY <2>1, <2>5, <3>4, <4>1, <4>2
    <3> QED
      BY <2>5, <3>1, <3>2, <3>3, <3>4
  <2> QED
    BY <2>1, <2>9
<1>4. i \in Good
  <2> HIDE DEF Good
  <2>1. (Len(s) + 1) - 1 = Len(s)
    BY <1>1
  <2> QED
    BY <1>1, <1>2, <1>3, <2>1, Induction
<1> QED
  BY <1>4

\* The lexer is in a line comment exactly when a mark of one that is code, or in one, comes before
\* it on its line.
LEMMA LineCommentStarts ==
  ASSUME NEW s \in Seq(Cleaned), MarksAreMarks(s), FirstMode(s) = "code",
         NEW i \in 1 .. Len(s) + 1, Mode(s)[i] = "line"
  PROVE  \E j \in 1 .. i - 1 :
            s[j] = "//" /\ Mode(s)[j] = "code" /\ \A k \in j .. i - 1 : s[k] # NL
<1> DEFINE m == Mode(s)
           Started(n) == \E j \in 1 .. n - 1 :
                            s[j] = "//" /\ m[j] = "code" /\ \A k \in j .. n - 1 : s[k] # NL
           Good == {n \in 1 .. Len(s) + 1 : m[n] = "line" => Started(n)}
<1>1. Len(s) \in Nat /\ DOMAIN s = 1 .. Len(s) /\ Len(s) + 1 \in Nat /\ 1 \in Nat
  OBVIOUS
<1>2. 1 \in Good
  BY <1>1, ModeAfterIs
<1>3. ASSUME NEW n \in 1 .. Len(s), n \in Good PROVE n + 1 \in Good
  <2>1. n \in DOMAIN s /\ n \in Nat /\ n + 1 \in 1 .. Len(s) + 1 /\ (n + 1) - 1 = n
    BY <1>1
  <2>2. m[n + 1] = ModeAfter(m[n], s[n])
    BY <2>1, ModeAfterIs
  <2> HIDE DEF m
  <2>3. ASSUME m[n + 1] = "line" PROVE Started(n + 1)
    <3>1. CASE m[n] = "line"
      <4>1. s[n] # NL
        BY <2>2, <2>3, <3>1 DEF ModeAfter
      <4>2. PICK j \in 1 .. n - 1 :
               s[j] = "//" /\ m[j] = "code" /\ \A k \in j .. n - 1 : s[k] # NL
        BY <1>3, <3>1
      <4>3. j \in 1 .. (n + 1) - 1 /\ \A k \in j .. (n + 1) - 1 : s[k] # NL
        BY <2>1, <4>1, <4>2
      <4> QED
        BY <4>2, <4>3
    <3>2. CASE m[n] # "line"
      <4>1. m[n] = "code" /\ s[n] = "//"
        <5>1. m[n] = "code" /\ s[n] \in {"//", Glued}
          BY <2>2, <2>3, <3>2 DEF ModeAfter
        <5>2. s[n] # Glued
          BY <2>1, <5>1 DEF MarksAreMarks, m
        <5> QED
          BY <5>1, <5>2
      <4>2. n \in 1 .. (n + 1) - 1 /\ \A k \in n .. (n + 1) - 1 : s[k] # NL
        BY <2>1, <4>1 DEF NL
      <4> QED
        BY <4>1, <4>2
    <3> QED
      BY <3>1, <3>2
  <2> QED
    BY <2>1, <2>3
<1>4. i \in Good
  <2> HIDE DEF Good
  <2>1. (Len(s) + 1) - 1 = Len(s)
    BY <1>1
  <2> QED
    BY <1>1, <1>2, <1>3, <2>1, Induction
<1> QED
  BY <1>4

LEMMA LineCommentLasts ==
  ASSUME NEW s \in Seq(Cleaned), NEW i \in DOMAIN s, NEW j \in 1 .. i,
         Mode(s)[j] = "line" \/ (Mode(s)[j] = "code" /\ s[j] = "//"), \A k \in j .. i : s[k] # NL
  PROVE  s[i] # NL /\ (Mode(s)[i] = "line" \/ (Mode(s)[i] = "code" /\ s[i] = "//"))
<1> DEFINE m == Mode(s)
           AfterMark == {n \in j + 1 .. i : m[n] = "line"}
<1>1. Len(s) \in Nat /\ DOMAIN s = 1 .. Len(s) /\ i \in Nat /\ j \in Nat /\ j \in DOMAIN s /\ i \in j .. i
  OBVIOUS
<1>2. m[j + 1] = "line"
  <2>1. m[j + 1] = ModeAfter(m[j], s[j])
    BY <1>1, ModeAfterIs
  <2> HIDE DEF m
  <2>2. (m[j] = "line" \/ (m[j] = "code" /\ s[j] = "//")) /\ s[j] # NL
    BY <1>1 DEF m
  <2> QED
    BY <2>1, <2>2 DEF ModeAfter, NL
<1>3. CASE i = j
  BY <1>1, <1>3
<1>4. CASE i # j
  <2>1. j + 1 \in AfterMark
    BY <1>1, <1>2, <1>4
  <2>2. ASSUME NEW n \in j + 1 .. i - 1, n \in AfterMark PROVE n + 1 \in AfterMark
    <3>1. n \in DOMAIN s /\ n \in j .. i /\ n + 1 \in j + 1 .. i
      BY <1>1
    <3>2. m[n + 1] = ModeAfter("line", s[n]) /\ s[n] # NL
      BY <2>2, <3>1, ModeAfterIs
    <3>3. m[n + 1] = "line"
      BY <3>2 DEF ModeAfter
    <3> QED
      BY <3>1, <3>3
  <2>3. i \in AfterMark
    <3> HIDE DEF AfterMark
    <3>1. j + 1 \in Nat /\ i \in j + 1 .. i
      BY <1>1, <1>4
    <3> QED
      BY <1>1, <2>1, <2>2, <3>1, Induction
  <2> QED
    BY <1>1, <2>3
<1> QED
  BY <1>3, <1>4

\* Block comments are blanked, and their marks.
LEMMA StripBlocksIs ==
  ASSUME NEW s \in Seq(Cleaned), CommentsEnd(s), MarksAreMarks(s), FirstMode(s) = "code"
  PROVE  StripBlocks(s) =
           [i \in DOMAIN s |->
              IF s[i] # NL /\ (Mode(s)[i] = "block" \/ s[i] = "/*") THEN Blank ELSE s[i]]
<1> DEFINE m == Mode(s)
           u == CommentEnd(s)
<1>1. Len(s) \in Nat /\ DOMAIN s = 1 .. Len(s)
  OBVIOUS
<1>2. ASSUME NEW i \in DOMAIN s
      PROVE  i <= u[i] <=> (m[i] = "block" \/ s[i] = "/*")
  <2>1. i \in Nat /\ i \in 1 .. Len(s) + 1 /\ i + 1 \in 1 .. Len(s) + 1 /\ (i + 1) - 1 = i
    BY <1>1
  <2>2. /\ m[i] \in {"code", "block", "line"} /\ u[i - 1] \in Nat
        /\ m[i] # "block" => u[i - 1] < i
        /\ m[i] = "block" => u[i - 1] >= i
    BY <2>1, ScannerFollowsLexer
  <2>3. /\ u[i] \in Nat
        /\ m[i + 1] = "block" => u[i] >= i + 1
    BY <2>1, ScannerFollowsLexer
  <2>4. m[i + 1] = ModeAfter(m[i], s[i])
    BY ModeAfterIs
  <2>5. u[i] = IF i > u[i - 1] /\ s[i] \in {"/*", Glob} /\ Ends(s, i) # {}
               THEN Min(Ends(s, i)) ELSE u[i - 1]
    BY CommentEndAfterIs
  <2>6. s[i] # Glob /\ (s[i] = "/*" => m[i] # "line")
    BY DEF MarksAreMarks
  <2> HIDE DEF m, u
  <2>7. CASE m[i] = "block"
    BY <2>1, <2>2, <2>3, <2>5, <2>7
  <2>8. CASE m[i] # "block" /\ s[i] # "/*"
    <3>1. u[i] = u[i - 1]
      BY <2>5, <2>6, <2>8
    <3> QED
      BY <2>1, <2>2, <2>8, <3>1
  <2>9. CASE m[i] # "block" /\ s[i] = "/*"
    <3>1. m[i] = "code"
      BY <2>2, <2>6, <2>9
    <3>2. m[i + 1] = "block"
      BY <2>4, <2>9, <3>1 DEF ModeAfter, Glued
    <3> QED
      BY <2>1, <2>3, <2>9, <3>2
  <2> QED
    BY <2>7, <2>8, <2>9
<1> QED
  BY <1>2 DEF StripBlocks

\* Block comments first and then line comments: what Groovy takes for code is left.
LEMMA StripsLeaveTheCode ==
  ASSUME NEW s \in Seq(Cleaned), CommentsEnd(s), MarksAreMarks(s), FirstMode(s) = "code"
  PROVE  StripLines(StripBlocks(s)) = CodeAtItsLine(s)
<1> DEFINE m == Mode(s)
           b == StripBlocks(s)
           marks == {j \in DOMAIN b : b[j] \in {"//", Text}}
           Hidden(i) == \E j \in marks : j <= i /\ \A k \in j .. i : b[k] # NL
<1>1. Len(s) \in Nat /\ DOMAIN s = 1 .. Len(s)
  OBVIOUS
<1>2. b = [i \in DOMAIN s |-> IF s[i] # NL /\ (m[i] = "block" \/ s[i] = "/*") THEN Blank ELSE s[i]]
  BY StripBlocksIs
<1>3. \A i \in DOMAIN s : m[i] \in {"code", "block", "line"}
  <2>1. \A i \in DOMAIN s : i \in 1 .. Len(s) + 1
    BY <1>1
  <2> QED
    BY <2>1, ScannerFollowsLexer
<1>4. \A i \in DOMAIN s : /\ b[i] = NL <=> s[i] = NL
                          /\ b[i] = "//" <=> s[i] = "//" /\ m[i] # "block"
                          /\ b[i] = Text => s[i] = Text /\ m[i] # "block"
  BY <1>2 DEF NL, Blank, Text
<1>m. \A j \in marks : j \in DOMAIN s /\ (m[j] = "line" \/ (m[j] = "code" /\ s[j] = "//"))
  <2>1. \A j \in DOMAIN s : s[j] = Text => m[j] # "code"
    BY DEF MarksAreMarks
  <2> QED
    BY <1>2, <1>3, <1>4, <2>1
<1>5. ASSUME NEW i \in DOMAIN s
      PROVE  Hidden(i) <=> s[i] # NL /\ (m[i] = "line" \/ (m[i] = "code" /\ s[i] = "//"))
  <2>1. i \in Nat /\ i \in 1 .. Len(s) + 1 /\ i \in 1 .. i /\ \A j \in 1 .. i : j \in DOMAIN s /\ j \in Nat
    BY <1>1
  <2>2. ASSUME NEW j \in marks, j <= i, \A k \in j .. i : b[k] # NL
        PROVE  s[i] # NL /\ (m[i] = "line" \/ (m[i] = "code" /\ s[i] = "//"))
    <3>1. j \in 1 .. i /\ (m[j] = "line" \/ (m[j] = "code" /\ s[j] = "//"))
      BY <1>1, <1>m, <2>1, <2>2
    <3>2. \A k \in j .. i : s[k] # NL
      <4>1. \A k \in j .. i : k \in DOMAIN s
        BY <1>1, <2>1, <3>1
      <4> QED
        BY <1>4, <2>2, <4>1
    <3> QED
      BY <3>1, <3>2, LineCommentLasts
  <2>3. ASSUME s[i] # NL, m[i] = "line" PROVE Hidden(i)
    <3>1. PICK j \in 1 .. i - 1 : s[j] = "//" /\ m[j] = "code" /\ \A k \in j .. i - 1 : s[k] # NL
      BY <2>1, <2>3, LineCommentStarts
    <3>2. j \in DOMAIN s /\ j <= i /\ \A k \in j .. i : s[k] # NL /\ k \in DOMAIN s
      BY <1>1, <2>1, <2>3, <3>1
    <3>3. j \in marks
      BY <1>2, <1>4, <3>1, <3>2
    <3>4. \A k \in j .. i : b[k] # NL
      BY <1>4, <3>2
    <3> QED
      BY <3>2, <3>3, <3>4
  <2>4. ASSUME m[i] = "code", s[i] = "//" PROVE Hidden(i)
    <3>1. i \in marks /\ i <= i /\ \A k \in i .. i : b[k] # NL
      BY <1>2, <1>4, <2>1, <2>4 DEF NL
    <3> QED
      BY <2>1, <3>1
  <2> QED
    BY <2>2, <2>3, <2>4
<1>6. DOMAIN b = DOMAIN s
  BY <1>2
<1>7. StripLines(b) = [i \in DOMAIN s |-> IF Hidden(i) THEN Blank ELSE b[i]]
  BY <1>6 DEF StripLines, StripFrom
<1>8. CodeAtItsLine(s) =
        [i \in DOMAIN s |->
           IF s[i] = NL \/ (m[i] = "code" /\ s[i] \notin {"/*", "//"}) THEN s[i] ELSE Blank]
  BY DEF CodeAtItsLine
<1>9. ASSUME NEW i \in DOMAIN s
      PROVE  (IF Hidden(i) THEN Blank ELSE b[i])
             = IF s[i] = NL \/ (m[i] = "code" /\ s[i] \notin {"/*", "//"}) THEN s[i] ELSE Blank
  <2>1. b[i] = IF s[i] # NL /\ (m[i] = "block" \/ s[i] = "/*") THEN Blank ELSE s[i]
    BY <1>2
  <2>2. m[i] \in {"code", "block", "line"}
    BY <1>3
  <2> HIDE DEF Hidden, b, m
  <2> QED
    BY <1>5, <2>1, <2>2
<1> QED
  BY <1>7, <1>8, <1>9

\* In a file whose marks are marks only a shebang on the first line goes.
LEMMA ShebangsAre ==
  ASSUME NEW s \in Seq(Cleaned), CommentsEnd(s), MarksAreMarks(s)
  PROVE  StripShebangs(s) =
           [i \in DOMAIN s |->
              IF FirstMode(s) = "line" /\ \A k \in 1 .. i : s[k] # NL THEN Blank ELSE s[i]]
<1> DEFINE m == Mode(s)
           marks == {j \in DOMAIN s : s[j] = Shebang /\ (j > 1 => s[j - 1] = NL)}
<1>1. Len(s) \in Nat /\ DOMAIN s = 1 .. Len(s)
  OBVIOUS
<1>2. ASSUME NEW j \in marks, j > 1 PROVE FALSE
  <2>1. j - 1 \in DOMAIN s /\ j \in Nat /\ (j - 1) + 1 = j /\ s[j] = Shebang /\ s[j - 1] = NL
    BY <1>1, <1>2
  <2>2. m[j] # "code" /\ m[j] # "block"
    BY <1>2, <2>1 DEF MarksAreMarks, CommentsEnd
  <2>3. m[j] = ModeAfter(m[j - 1], NL)
    <3>1. m[(j - 1) + 1] = ModeAfter(m[j - 1], s[j - 1])
      BY <2>1, ModeAfterIs
    <3> QED
      BY <2>1, <3>1
  <2> HIDE DEF m
  <2>4. m[j] = m[j - 1] /\ m[j - 1] # "line"
    BY <2>2, <2>3 DEF ModeAfter, NL, Glued, Glob
  <2>5. \A i \in 1 .. Len(s) + 1 : m[i] \in {"code", "block", "line"}
    <3> DEFINE Good == {i \in 1 .. Len(s) + 1 : m[i] \in {"code", "block", "line"}}
    <3>1. 1 \in Good
      BY <1>1, ModeAfterIs DEF FirstMode, m
    <3>2. ASSUME NEW k \in 1 .. Len(s), k \in Good PROVE k + 1 \in Good
      <4>1. k \in DOMAIN s /\ k + 1 \in 1 .. Len(s) + 1 /\ m[k + 1] = ModeAfter(m[k], s[k])
        BY <1>1, ModeAfterIs DEF m
      <4> QED
        BY <3>2, <4>1 DEF ModeAfter
    <3> HIDE DEF Good
    <3>3. \A i \in 1 .. Len(s) + 1 : i \in Good
      BY <1>1, <3>1, <3>2, Induction, (Len(s) + 1) - 1 = Len(s), 1 \in Nat, Len(s) + 1 \in Nat
    <3> QED
      BY <3>3 DEF Good
  <2> QED
    BY <1>1, <2>1, <2>2, <2>4, <2>5
<1>3. ASSUME NEW i \in DOMAIN s
      PROVE  (\E j \in marks : j <= i /\ \A k \in j .. i : s[k] # NL)
             <=> (FirstMode(s) = "line" /\ \A k \in 1 .. i : s[k] # NL)
  <2>1. FirstMode(s) = "line" <=> 1 \in marks
    <3>1. 1 \in DOMAIN s /\ s # <<>>
      BY <1>1
    <3> QED
      BY <3>1 DEF FirstMode
  <2>2. \A j \in marks : j = 1
    BY <1>1, <1>2
  <2>3. 1 <= i
    BY <1>1
  <2> HIDE DEF marks
  <2> QED
    BY <2>1, <2>2, <2>3
<1> QED
  BY <1>3 DEF StripShebangs, StripFrom

\* Without it, everything else is as before.
LEMMA WithoutShebang ==
  ASSUME NEW s \in Seq(Cleaned), CommentsEnd(s), MarksAreMarks(s), NEW t, t = StripShebangs(s)
  PROVE  /\ t \in Seq(Cleaned) /\ CommentsEnd(t) /\ MarksAreMarks(t) /\ FirstMode(t) = "code"
         /\ CodeAtItsLine(t) = CodeAtItsLine(s)
<1> DEFINE m == Mode(s)
           n == Mode(t)
           First(i) == FirstMode(s) = "line" /\ \A k \in 1 .. i - 1 : s[k] # NL
           Same(i) == IF First(i) THEN n[i] = "code" /\ m[i] = "line" ELSE n[i] = m[i]
           Good == {i \in 1 .. Len(s) + 1 : Same(i)}
<1>1. Len(s) \in Nat /\ DOMAIN s = 1 .. Len(s) /\ \A i \in DOMAIN s : s[i] \in Cleaned
  OBVIOUS
<1>2. ASSUME NEW i \in DOMAIN s PROVE (\A k \in 1 .. i : s[k] # NL) <=> (\A k \in 1 .. i - 1 : s[k] # NL) /\ s[i] # NL
  <2>1. 1 .. i = (1 .. i - 1) \cup {i}
    BY <1>1
  <2> QED
    BY <2>1
<1>3. t = [i \in DOMAIN s |-> IF First(i) /\ s[i] # NL THEN Blank ELSE s[i]]
  <2>1. t = [i \in DOMAIN s |->
              IF FirstMode(s) = "line" /\ \A k \in 1 .. i : s[k] # NL THEN Blank ELSE s[i]]
    BY ShebangsAre
  <2> QED
    BY <1>2, <2>1
<1>4. t \in Seq(Cleaned) /\ DOMAIN t = 1 .. Len(s) /\ Len(t) = Len(s)
  <2>1. t \in [1 .. Len(s) -> Cleaned]
    BY <1>1, <1>3 DEF Cleaned
  <2> QED
    BY <1>1, <2>1
<1>5. FirstMode(s) \in {"code", "line"} /\ FirstMode(t) = "code"
  <2>1. CASE s = <<>>
    BY <1>1, <1>4, <2>1 DEF FirstMode
  <2>2. CASE s # <<>>
    <3>1. 1 \in DOMAIN s /\ 1 .. 1 - 1 = {}
      BY <1>1, <2>2
    <3>2. First(1) <=> s[1] = Shebang
      BY <2>2, <3>1 DEF FirstMode
    <3>3. t[1] # Shebang
      BY <1>3, <3>1, <3>2 DEF Blank, Shebang, NL
    <3> QED
      BY <3>3 DEF FirstMode
  <2> QED
    BY <2>1, <2>2
<1>6. 1 \in Good
  <2>1. m[1] = FirstMode(s) /\ n[1] = FirstMode(t)
    BY <1>4, ModeAfterIs
  <2>2. First(1) <=> FirstMode(s) = "line"
    OBVIOUS
  <2> HIDE DEF m, n, First
  <2> QED
    BY <1>1, <1>5, <2>1, <2>2
<1>7. ASSUME NEW i \in 1 .. Len(s), i \in Good PROVE i + 1 \in Good
  <2>1. i \in DOMAIN s /\ i \in DOMAIN t /\ i + 1 \in 1 .. Len(s) + 1 /\ (i + 1) - 1 = i
    BY <1>1, <1>4
  <2>2. m[i + 1] = ModeAfter(m[i], s[i]) /\ n[i + 1] = ModeAfter(n[i], t[i])
    BY <1>4, <2>1, ModeAfterIs
  <2>3. First(i + 1) <=> First(i) /\ s[i] # NL
    BY <1>2, <2>1
  <2>4. t[i] = IF First(i) /\ s[i] # NL THEN Blank ELSE s[i]
    BY <1>3, <2>1
  <2> HIDE DEF m, n, First
  <2>5. CASE First(i) /\ s[i] # NL
    BY <1>7, <2>1, <2>2, <2>3, <2>4, <2>5 DEF ModeAfter, Blank, Glued, Glob, NL
  <2>6. CASE First(i) /\ s[i] = NL
    BY <1>7, <2>1, <2>2, <2>3, <2>4, <2>6 DEF ModeAfter, NL, Glued, Glob
  <2>7. CASE ~First(i)
    BY <1>7, <2>1, <2>2, <2>3, <2>4, <2>7
  <2> QED
    BY <2>5, <2>6, <2>7
<1>8. \A i \in 1 .. Len(s) + 1 : Same(i)
  <2>1. (Len(s) + 1) - 1 = Len(s) /\ 1 \in Nat /\ Len(s) + 1 \in Nat
    BY <1>1
  <2>2. \A i \in 1 .. Len(s) + 1 : i \in Good
    <3> HIDE DEF Good
    <3> QED
      BY <1>6, <1>7, <2>1, Induction
  <2> QED
    BY <2>2
<1>9. ASSUME NEW i \in DOMAIN s
      PROVE  /\ Same(i) /\ t[i] = IF First(i) /\ s[i] # NL THEN Blank ELSE s[i]
             /\ i > 1 => t[i - 1] = NL <=> s[i - 1] = NL
  <2>1. i \in 1 .. Len(s) + 1
    BY <1>1
  <2>2. i > 1 => i - 1 \in DOMAIN s
    BY <1>1
  <2> QED
    BY <1>3, <1>8, <2>1, <2>2 DEF Blank, NL
<1>10. CommentsEnd(t)
  <2>1. n[Len(t) + 1] # "block"
    <3>1. Same(Len(s) + 1) /\ m[Len(s) + 1] # "block"
      BY <1>1, <1>8 DEF CommentsEnd
    <3> HIDE DEF m, n, First
    <3> QED
      BY <1>4, <3>1
  <2>2. ASSUME NEW i \in DOMAIN t
        PROVE  (t[i] \in {"*/", Shebang} => n[i] # "code") /\ (t[i] = Glob => n[i] # "block")
    <3>1. /\ Same(i) /\ t[i] = IF First(i) /\ s[i] # NL THEN Blank ELSE s[i]
          /\ (s[i] \in {"*/", Shebang} => m[i] # "code") /\ (s[i] = Glob => m[i] # "block")
      BY <1>1, <1>4, <1>9 DEF CommentsEnd
    <3> HIDE DEF m, n, First
    <3> QED
      BY <3>1 DEF Blank, Shebang, Glob, NL
  <2> QED
    BY <2>1, <2>2 DEF CommentsEnd
<1>11. MarksAreMarks(t)
  <2>1. ASSUME NEW i \in DOMAIN t
        PROVE  /\ t[i] # Glob
               /\ t[i] \in {"/*", "*/"} => n[i] # "line"
               /\ t[i] \in {Text, Glued} => n[i] # "code"
               /\ t[i] = Shebang /\ n[i] = "block" => t[i - 1] # NL
    <3>1. /\ Same(i) /\ t[i] = IF First(i) /\ s[i] # NL THEN Blank ELSE s[i]
          /\ s[i] # Glob
          /\ s[i] \in {"/*", "*/"} => m[i] # "line"
          /\ s[i] \in {Text, Glued} => m[i] # "code"
          /\ s[i] = Shebang /\ m[i] = "block" => s[i - 1] # NL
      BY <1>1, <1>4, <1>9 DEF MarksAreMarks
    <3>2. i > 1 => (t[i - 1] = NL <=> s[i - 1] = NL)
      BY <1>1, <1>4, <1>9
    <3>3. i = 1 => n[i] = "code"
      BY <1>4, <1>5, ModeAfterIs
    <3>4. i = 1 \/ i > 1
      BY <1>4
    <3> HIDE DEF m, n, First
    <3> QED
      BY <3>1, <3>2, <3>3, <3>4 DEF Blank, Shebang, Glob, NL, Text, Glued
  <2> QED
    BY <2>1 DEF MarksAreMarks
<1>12. CodeAtItsLine(t) = CodeAtItsLine(s)
  <2>1. ASSUME NEW i \in DOMAIN s
        PROVE  (IF t[i] = NL \/ (n[i] = "code" /\ t[i] \notin {"/*", "//"}) THEN t[i] ELSE Blank)
               = IF s[i] = NL \/ (m[i] = "code" /\ s[i] \notin {"/*", "//"}) THEN s[i] ELSE Blank
    <3>1. Same(i) /\ t[i] = IF First(i) /\ s[i] # NL THEN Blank ELSE s[i]
      BY <1>9
    <3> HIDE DEF m, n, First
    <3> QED
      BY <3>1
  <2>2. CodeAtItsLine(t) = [i \in DOMAIN s |->
          IF t[i] = NL \/ (n[i] = "code" /\ t[i] \notin {"/*", "//"}) THEN t[i] ELSE Blank]
    BY <1>1, <1>4 DEF CodeAtItsLine
  <2>3. CodeAtItsLine(s) = [i \in DOMAIN s |->
          IF s[i] = NL \/ (m[i] = "code" /\ s[i] \notin {"/*", "//"}) THEN s[i] ELSE Blank]
    BY DEF CodeAtItsLine
  <2> HIDE DEF m, n, First
  <2> QED
    BY <2>1, <2>2, <2>3
<1> QED
  BY <1>4, <1>5, <1>10, <1>11, <1>12

\* In a file whose marks are marks, the scanner keeps what Groovy takes for code.
LEMMA ScannerKeepsTheCode ==
  ASSUME NEW s \in Seq(Cleaned), Legal(s), MarksAreMarks(s)
  PROVE  StripComments(s) = CodeAtItsLine(s)
<1>1. CommentsEnd(s)
  BY DEF Legal
<1>2. /\ StripShebangs(s) \in Seq(Cleaned) /\ CommentsEnd(StripShebangs(s))
      /\ MarksAreMarks(StripShebangs(s)) /\ FirstMode(StripShebangs(s)) = "code"
      /\ CodeAtItsLine(StripShebangs(s)) = CodeAtItsLine(s)
  BY <1>1, WithoutShebang
<1> QED
  BY <1>2, StripsLeaveTheCode DEF StripComments

--------------------------------------------------------------------------------
(* Lines, and the findings of a rule                                           *)

\* What is stripped leaves a blank, and line ends stay.
Keeps(s, c) ==
    /\ c \in Seq(Cleaned) /\ DOMAIN c = DOMAIN s
    /\ \A i \in DOMAIN s : c[i] \in {s[i], Blank} /\ (c[i] = NL <=> s[i] = NL)

LEMMA StripFromKeeps ==
  ASSUME NEW s \in Seq(Cleaned), NEW marks \in SUBSET DOMAIN s
  PROVE  Keeps(s, StripFrom(s, marks))
<1> DEFINE c == StripFrom(s, marks)
           Hidden(i) == \E j \in marks : j <= i /\ \A k \in j .. i : s[k] # NL
<1>1. Len(s) \in Nat /\ DOMAIN s = 1 .. Len(s) /\ \A i \in DOMAIN s : s[i] \in Cleaned
  OBVIOUS
<1>2. c = [i \in DOMAIN s |-> IF Hidden(i) THEN Blank ELSE s[i]]
  BY DEF StripFrom
<1>3. \A i \in DOMAIN s : Hidden(i) => s[i] # NL
  BY <1>1
<1> HIDE DEF c, Hidden
<1>4. \A i \in DOMAIN s : c[i] \in {s[i], Blank} /\ (c[i] = NL <=> s[i] = NL)
  BY <1>2, <1>3 DEF NL, Blank
<1>5. c \in [1 .. Len(s) -> Cleaned]
  BY <1>1, <1>2 DEF Cleaned
<1>6. c \in Seq(Cleaned)
  BY <1>1, <1>5
<1> QED
  BY <1>2, <1>4, <1>6 DEF Keeps, c

LEMMA StripBlocksKeeps ==
  ASSUME NEW s \in Seq(Cleaned)
  PROVE  Keeps(s, StripBlocks(s))
<1> DEFINE c == StripBlocks(s)
<1>1. Len(s) \in Nat /\ DOMAIN s = 1 .. Len(s) /\ \A i \in DOMAIN s : s[i] \in Cleaned
  OBVIOUS
<1>2. DOMAIN c = DOMAIN s /\ c = [i \in DOMAIN s |-> c[i]]
      /\ \A i \in DOMAIN s : c[i] \in {s[i], Blank} /\ (c[i] = NL <=> s[i] = NL)
  BY DEF StripBlocks, NL, Blank
<1> HIDE DEF c
<1>3. c \in [1 .. Len(s) -> Cleaned]
  BY <1>1, <1>2 DEF Cleaned
<1>4. c \in Seq(Cleaned)
  BY <1>1, <1>3
<1> QED
  BY <1>2, <1>4 DEF Keeps, c

\* The scanner moves nothing and removes no line end.
LEMMA StripCommentsIs ==
  ASSUME NEW s \in Seq(Cleaned)
  PROVE  /\ StripComments(s) \in Seq(Cleaned)
         /\ DOMAIN StripComments(s) = DOMAIN s
         /\ \A i \in DOMAIN s : /\ StripComments(s)[i] \in {s[i], Blank}
                                /\ StripComments(s)[i] = NL <=> s[i] = NL
<1> DEFINE a == StripShebangs(s)
           b == StripBlocks(a)
           c == StripLines(b)
<1>1. Keeps(s, a)
  <2>1. {j \in DOMAIN s : s[j] = Shebang /\ (j > 1 => s[j - 1] = NL)} \in SUBSET DOMAIN s
    OBVIOUS
  <2> QED
    BY <2>1, StripFromKeeps DEF StripShebangs
<1> HIDE DEF a
<1>2. Keeps(a, b)
  BY <1>1, StripBlocksKeeps DEF Keeps
<1> HIDE DEF b
<1>3. Keeps(b, c)
  <2>1. {j \in DOMAIN b : b[j] \in {"//", Text}} \in SUBSET DOMAIN b
    OBVIOUS
  <2> QED
    BY <1>2, <2>1, StripFromKeeps DEF StripLines, Keeps
<1> HIDE DEF c
<1>4. /\ c \in Seq(Cleaned) /\ DOMAIN c = DOMAIN s
      /\ \A i \in DOMAIN s : c[i] \in {s[i], Blank} /\ (c[i] = NL <=> s[i] = NL)
  BY <1>1, <1>2, <1>3 DEF Keeps
<1> QED
  BY <1>4 DEF StripComments, a, b, c

LEMMA LineOfIs ==
  ASSUME NEW A, NEW s \in Seq(A), NEW i \in DOMAIN s
  PROVE  LineOf(s, i) \in Nat
<1> DEFINE before == {j \in 1 .. i - 1 : s[j] = NL}
<1>1. IsFiniteSet(1 .. i - 1)
  BY FS_Interval
<1>2. IsFiniteSet(before)
  BY <1>1, FS_Subset, before \in SUBSET (1 .. i - 1)
<1> HIDE DEF before
<1>3. Cardinality(before) \in Nat
  BY <1>2, FS_CardinalityType
<1>4. 1 + Cardinality(before) \in Nat
  BY <1>3
<1> QED
  BY <1>4 DEF LineOf, before

LEMMA MatchesAre ==
  ASSUME NEW A, NEW s \in Seq(A), NEW tokens, NEW between
  PROVE  /\ Matches(s, tokens, between) \in SUBSET DOMAIN s
         /\ Matches(s, tokens, between) \in SUBSET Nat
         /\ IsFiniteSet(Matches(s, tokens, between))
         /\ \A i \in Matches(s, tokens, between) : s[i] \in tokens
<1> DEFINE at == Matches(s, tokens, between)
<1>1. Len(s) \in Nat /\ DOMAIN s = 1 .. Len(s)
  OBVIOUS
<1>2. IsFiniteSet(DOMAIN s)
  BY <1>1, FS_Interval
<1>3. at \in SUBSET DOMAIN s /\ \A i \in at : s[i] \in tokens
  BY DEF Matches
<1> HIDE DEF at
<1>4. IsFiniteSet(at)
  BY <1>2, <1>3, FS_Subset
<1>5. at \in SUBSET Nat
  BY <1>1, <1>3
<1> QED
  BY <1>3, <1>4, <1>5 DEF at

\* What is captured is the name that follows, and a name on the same line if the pattern looks no
\* further.
LEMMA CapturedIs ==
  ASSUME NEW A, NEW s \in Seq(A), NEW i \in DOMAIN s, s[i] \in Openers,
         NEW between \in {InLine, InText}, NEW j \in Argument(s, i, between)
  PROVE  /\ j \in DOMAIN s /\ s[j] \in Arguments /\ Captured(s, i) = s[j]
         /\ j \in Argument(s, i, InText)
         /\ between = InLine => LineOf(s, j) = LineOf(s, i)
<1> DEFINE all == Argument(s, i, InText)
<1>1. Len(s) \in Nat /\ DOMAIN s = 1 .. Len(s) /\ i \in Nat
  OBVIOUS
<1>2. /\ j \in i + 1 .. Len(s) /\ s[j] \in Arguments
      /\ \A k \in i + 1 .. j - 1 : s[k] \in between
  BY DEF Argument
<1>3. between \subseteq InText
  BY DEF InLine, InText
<1>4. j \in all /\ all \in SUBSET Nat
  BY <1>1, <1>2, <1>3 DEF Argument
<1>5. \A e \in all : e \in i + 1 .. Len(s) /\ s[e] \in Arguments
  BY DEF Argument
<1>6. Arguments \cap InText = {}
  BY DEF Arguments, InText, Blank, NL
<1>7. Min(all) = j
  <2> HIDE DEF all
  <2>1. Min(all) \in all /\ \A e \in all : Min(all) <= e
    BY <1>4, MinIs
  <2> DEFINE e == Min(all)
  <2>2. e \in all /\ e <= j /\ e \in i + 1 .. Len(s) /\ s[e] \in Arguments
    BY <1>4, <1>5, <2>1
  <2> HIDE DEF e
  <2>3. ~(e < j)
    <3>1. SUFFICES ASSUME e < j PROVE FALSE
      OBVIOUS
    <3>2. e \in i + 1 .. j - 1
      BY <1>1, <1>2, <2>2, <3>1
    <3> QED
      BY <1>2, <1>3, <1>6, <2>2, <3>2
  <2>4. e = j
    BY <1>1, <1>2, <2>2, <2>3
  <2> QED
    BY <2>4 DEF e
<1>8. ASSUME between = InLine PROVE LineOf(s, j) = LineOf(s, i)
  <2>1. s[i] # NL
    BY DEF Openers, Secrets, HelperTokens, IdTokens, NL
  <2>2. \A k \in i + 1 .. j - 1 : s[k] # NL
    BY <1>2, <1>8 DEF InLine, Blank, NL
  <2>3. \A k \in 1 .. j - 1 : k \in 1 .. i - 1 \/ k = i \/ k \in i + 1 .. j - 1
    BY <1>1, <1>2
  <2>4. \A k \in 1 .. i - 1 : k \in 1 .. j - 1
    BY <1>1, <1>2
  <2>5. {k \in 1 .. j - 1 : s[k] = NL} = {k \in 1 .. i - 1 : s[k] = NL}
    BY <2>1, <2>2, <2>3, <2>4
  <2> QED
    BY <2>5 DEF LineOf
<1> QED
  BY <1>1, <1>2, <1>4, <1>7, <1>8 DEF Captured

\* What matches on its line matches in the text.
LEMMA MatchesOfALine ==
  ASSUME NEW A, NEW s \in Seq(A), NEW tokens
  PROVE  Matches(s, tokens, InLine) \subseteq Matches(s, tokens, InText)
<1>1. ASSUME NEW i \in DOMAIN s, s[i] \in Openers, Argument(s, i, InLine) # {}
      PROVE  Argument(s, i, InText) # {}
  <2>1. PICK j \in Argument(s, i, InLine) : TRUE
    BY <1>1
  <2>2. j \in Argument(s, i, InText)
    BY <1>1, <2>1, CapturedIs
  <2> QED
    BY <2>2
<1> QED
  BY <1>1 DEF Matches

LEMMA LinesWithIs ==
  ASSUME NEW A, NEW s \in Seq(A), NEW tokens
  PROVE  LinesWith(s, tokens) \in SUBSET Nat /\ IsFiniteSet(LinesWith(s, tokens))
<1> DEFINE at == Matches(s, tokens, InLine)
           line == [i \in at |-> LineOf(s, i)]
<1>3. IsFiniteSet(at) /\ at \in SUBSET DOMAIN s
  BY MatchesAre
<1>4. LinesWith(s, tokens) = {LineOf(s, i) : i \in at}
  BY DEF LinesWith
<1>5. line \in Surjection(at, LinesWith(s, tokens))
  BY <1>4 DEF Surjection
<1>6. IsFiniteSet(LinesWith(s, tokens))
  <2> HIDE DEF at, line
  <2> QED
    BY <1>3, <1>5, FS_Surjection
<1>7. LinesWith(s, tokens) \in SUBSET Nat
  BY <1>3, <1>4, LineOfIs
<1> QED
  BY <1>6, <1>7

\* What the scanned text has it has at its line.
LEMMA LinesOfTheText ==
  ASSUME NEW s \in Seq(Cleaned), NEW i \in DOMAIN s
  PROVE  LineOf(StripComments(s), i) = LineOf(s, i)
<1> DEFINE c == StripComments(s)
<1>1. DOMAIN s = 1 .. Len(s) /\ Len(s) \in Nat
  OBVIOUS
<1>2. DOMAIN c = DOMAIN s /\ \A k \in DOMAIN s : c[k] \in {s[k], Blank} /\ (c[k] = NL <=> s[k] = NL)
  BY StripCommentsIs
<1> HIDE DEF c
<1>3. \A j \in 1 .. i - 1 : j \in DOMAIN s
  BY <1>1
<1>4. {j \in 1 .. i - 1 : c[j] = NL} = {j \in 1 .. i - 1 : s[j] = NL}
  BY <1>2, <1>3
<1> QED
  BY <1>4 DEF LineOf, c

LEMMA HitsAre ==
  ASSUME NEW rule, NEW lines \in SUBSET Nat
  PROVE  /\ Hits(rule, lines) \subseteq lines
         /\ ~rule.once => Hits(rule, lines) = lines
  BY MinIs DEF Hits

\* The detail is what the pattern captures at a match on the line.
LEMMA DetailIs ==
  ASSUME NEW A, NEW s \in Seq(A), NEW tokens, NEW line \in LinesWith(s, tokens)
  PROVE  \E i \in Matches(s, tokens, InLine) : /\ LineOf(s, i) = line
                                              /\ Detail(s, tokens, line) = Captured(s, i)
<1> DEFINE at == {i \in Matches(s, tokens, InLine) : LineOf(s, i) = line}
<1>1. at \in SUBSET Nat /\ at # {}
  <2>1. Matches(s, tokens, InLine) \in SUBSET Nat
    BY MatchesAre
  <2> QED
    BY <2>1 DEF LinesWith
<1> HIDE DEF at
<1>2. Min(at) \in at
  BY <1>1, MinIs
<1> QED
  BY <1>2 DEF Detail, at

LEMMA RulesAre ==
  /\ Len(Rules) = 6 /\ DOMAIN Rules = 1 .. 6 /\ IsFiniteSet(ToSet(Rules))
  /\ \A r \in ToSet(Rules) :
        /\ r.id \in ToSet(Ids) /\ r.id # LibraryRule.id
        /\ r.category \in Categories
        /\ r.of \subseteq Statements
        /\ TokenOf(r.id) = r.of
        /\ r.id \in {"credentials-helper", "credentials-id"} =>
              r.category = "review" /\ ~r.once /\ r.of \subseteq Secrets
  /\ \A q, r \in ToSet(Rules) : q.id = r.id => q = r
  /\ \E r \in ToSet(Rules) : r.id = "credentials-helper" /\ r.of = HelperTokens
  /\ \E r \in ToSet(Rules) : r.id = "credentials-id" /\ r.of = IdTokens
<1> DEFINE library == Rule("shared-library", {"@Library"}, "manual", TRUE)
           stage == Rule("stage", {"stage("}, "auto", FALSE)
           helper == Rule("credentials-helper", HelperTokens, "review", FALSE)
           id == Rule("credentials-id", IdTokens, "review", FALSE)
           input == Rule("input-gate", {"input"}, "manual", FALSE)
           timestamps == Rule("timestamps", {"timestamps"}, "drop", FALSE)
           R == {library, stage, helper, id, input, timestamps}
<1>0. Rules = <<library, stage, helper, id, input, timestamps>>
  BY DEF Rules
<1>1. Len(Rules) = 6 /\ DOMAIN Rules = 1 .. 6 /\ ToSet(Rules) = R /\ Rules = [k \in 1 .. 6 |-> Rules[k]]
  <2> HIDE DEF library, stage, helper, id, input, timestamps
  <2> QED
    BY <1>0 DEF ToSet
<1>2. ToSet(Rules) = R
  BY <1>1
<1>3. IsFiniteSet(ToSet(Rules))
  <2>1. IsFiniteSet(1 .. 6)
    <3>1. \A n \in Nat : IsFiniteSet(1 .. n)
      <4>1. ASSUME NEW n \in Nat PROVE IsFiniteSet(1 .. n)
        BY FS_Interval
      <4> QED
        BY <4>1
    <3> QED
      BY <3>1
  <2>2. Rules \in Surjection(1 .. 6, ToSet(Rules))
    <3>1. DOMAIN Rules = 1 .. 6 /\ Rules = [k \in 1 .. 6 |-> Rules[k]]
      BY <1>1
    <3> QED
      BY <3>1 DEF Surjection, ToSet
  <2> QED
    BY <2>1, <2>2, FS_Surjection
<1>4. ToSet(Ids) = {"credentials-helper", "credentials-id", "input-gate", "shared-library",
                    "shared-library-step", "stage", "timestamps"}
  BY DEF Ids, ToSet
<1>f. /\ library.id = "shared-library" /\ library.of = {"@Library"} /\ library.category = "manual"
      /\ stage.id = "stage" /\ stage.of = {"stage("} /\ stage.category = "auto"
      /\ helper.id = "credentials-helper" /\ helper.of = HelperTokens
      /\ helper.category = "review" /\ helper.once = FALSE
      /\ id.id = "credentials-id" /\ id.of = IdTokens /\ id.category = "review" /\ id.once = FALSE
      /\ input.id = "input-gate" /\ input.of = {"input"} /\ input.category = "manual"
      /\ timestamps.id = "timestamps" /\ timestamps.of = {"timestamps"} /\ timestamps.category = "drop"
      /\ LibraryRule.id = "shared-library-step"
  BY DEF Rule, LibraryRule
<1> HIDE DEF library, stage, helper, id, input, timestamps
<1>5. \A r \in R :
        /\ r.id \in ToSet(Ids) /\ r.id # LibraryRule.id
        /\ r.category \in Categories
        /\ r.of \subseteq Statements
        /\ r.id \in {"credentials-helper", "credentials-id"} =>
              r.category = "review" /\ ~r.once /\ r.of \subseteq Secrets
  <2>1. \A r \in R : r.id \in ToSet(Ids) /\ r.id # LibraryRule.id
    BY <1>4, <1>f
  <2>2. \A r \in R : r.category \in Categories
    BY <1>f DEF Categories
  <2>3. \A r \in R : r.of \subseteq Statements
    <3>1. /\ {"@Library"} \subseteq Statements /\ {"stage("} \subseteq Statements
          /\ HelperTokens \subseteq Statements /\ IdTokens \subseteq Statements
          /\ {"input"} \subseteq Statements /\ {"timestamps"} \subseteq Statements
      BY DEF Statements, Calls, Secrets
    <3> QED
      BY <1>f, <3>1
  <2>4. \A r \in R : r.id \in {"credentials-helper", "credentials-id"} => r \in {helper, id}
    BY <1>f
  <2>5. \A r \in {helper, id} :
           r.category = "review" /\ ~r.once /\ r.of \subseteq Secrets
    BY <1>f DEF Secrets
  <2> QED
    BY <2>1, <2>2, <2>3, <2>4, <2>5
<1>6. \A q, r \in R : q.id = r.id => q = r
  BY <1>f
<1>7. \A r \in R : TokenOf(r.id) = r.of
  <2>1. ASSUME NEW r \in R PROVE TokenOf(r.id) = r.of
    <3> HIDE DEF R
    <3>1. r = CHOOSE q \in ToSet(Rules) : q.id = r.id
      BY <1>2, <1>6
    <3> QED
      BY <1>5, <3>1 DEF TokenOf
  <2> QED
    BY <2>1
<1>8. /\ \E r \in R : r.id = "credentials-helper" /\ r.of = HelperTokens
      /\ \E r \in R : r.id = "credentials-id" /\ r.of = IdTokens
  BY <1>f
<1> HIDE DEF R
<1> QED
  BY <1>1, <1>2, <1>3, <1>5, <1>6, <1>7, <1>8

\* Line and rule are in the key.
LEMMA KeyIs ==
  ASSUME NEW f, f.line \in Nat, f.rule \in ToSet(Ids)
  PROVE  /\ Key(f) \in Nat
         /\ \A g : g.line \in Nat /\ g.rule \in ToSet(Ids) /\ Key(f) = Key(g) =>
               f.line = g.line /\ f.rule = g.rule
<1>1. Len(Ids) = 7 /\ DOMAIN Ids = 1 .. 7
  BY DEF Ids
<1>2. ASSUME NEW id \in ToSet(Ids)
      PROVE  IdRank(id) \in 1 .. 7 /\ Ids[IdRank(id)] = id
  BY <1>1 DEF IdRank, ToSet
<1>3. ASSUME NEW g, g.line \in Nat, g.rule \in ToSet(Ids)
      PROVE  Key(g) = 7 * g.line + IdRank(g.rule) /\ IdRank(g.rule) \in 1 .. 7
  BY <1>1, <1>2, <1>3 DEF Key
<1>4. Key(f) \in Nat
  BY <1>3
<1>5. ASSUME NEW g, g.line \in Nat, g.rule \in ToSet(Ids), Key(f) = Key(g)
      PROVE  f.line = g.line /\ f.rule = g.rule
  <2>1. \A l, m \in Nat, q, r \in 1 .. 7 : 7 * l + q = 7 * m + r => l = m /\ q = r
    OBVIOUS
  <2>2. f.line = g.line /\ IdRank(f.rule) = IdRank(g.rule)
    BY <1>3, <1>5, <2>1
  <2> QED
    BY <1>2, <1>5, <2>2
<1> QED
  BY <1>4, <1>5

RuleFindings(s) == UNION {FindingsOf(r, s) : r \in ToSet(Rules)}
LibraryFindings(s) ==
    {Finding(LibraryRule, Min(LinesWith(s, {name})), name) : name \in LibraryCalls(s)}

LEMMA FindingsOfAre ==
  ASSUME NEW A, NEW s \in Seq(A), NEW r \in ToSet(Rules), NEW f \in FindingsOf(r, s)
  PROVE  /\ f.line \in LinesWith(s, r.of) /\ f.line \in Nat
         /\ f = Finding(r, f.line, Detail(s, r.of, f.line))
         /\ f.rule = r.id /\ f.category = r.category /\ f.detail = Detail(s, r.of, f.line)
<1>1. PICK l \in Hits(r, LinesWith(s, r.of)) : f = Finding(r, l, Detail(s, r.of, l))
  BY DEF FindingsOf
<1>2. l \in LinesWith(s, r.of) /\ l \in Nat
  BY LinesWithIs, HitsAre
<1>3. f.line = l
  BY <1>1 DEF Finding
<1> QED
  BY <1>1, <1>2, <1>3 DEF Finding

LEMMA LibraryCallsAre ==
  ASSUME NEW A, NEW s \in Seq(A)
  PROVE  LibraryCalls(s) = IF Contains(s, "deployHelm") /\ ~Contains(s, "def deployHelm")
                           THEN {"deployHelm"} ELSE {}
<1>1. DOMAIN s = 1 .. Len(s)
  OBVIOUS
<1>2. "deployHelm" \in ToSet(s) <=> Contains(s, "deployHelm")
  BY <1>1 DEF ToSet, Contains
<1>3. \A t \in Calls : t \notin KnownSteps <=> t = "deployHelm"
  BY DEF Calls, KnownSteps
<1>4. "deployHelm" \in Calls
  BY DEF Calls
<1> QED
  BY <1>2, <1>3, <1>4 DEF LibraryCalls

LEMMA LinesOfAContained ==
  ASSUME NEW A, NEW s \in Seq(A), NEW t, t \notin Openers, Contains(s, t)
  PROVE  LinesWith(s, {t}) # {}
<1>1. PICK i \in DOMAIN s : s[i] = t
  BY DEF Contains
<1>2. i \in Matches(s, {t}, InLine)
  BY <1>1 DEF Matches
<1> QED
  BY <1>2 DEF LinesWith

LEMMA LibraryFindingsAre ==
  ASSUME NEW A, NEW s \in Seq(A), NEW f \in LibraryFindings(s)
  PROVE  /\ f.line \in LinesWith(s, {"deployHelm"}) /\ f.line \in Nat
         /\ LibraryFindings(s) = {f}
         /\ f.rule = "shared-library-step" /\ f.category = "manual"
<1> DEFINE lines == LinesWith(s, {"deployHelm"})
<1>1. LibraryCalls(s) = {"deployHelm"} /\ Contains(s, "deployHelm")
  BY LibraryCallsAre DEF LibraryFindings
<1>2. f = Finding(LibraryRule, Min(lines), "deployHelm") /\ LibraryFindings(s) = {f}
  BY <1>1 DEF LibraryFindings
<1>3. lines # {}
  <2>1. "deployHelm" \notin Openers
    BY DEF Openers, Secrets, HelperTokens, IdTokens
  <2> QED
    BY <1>1, <2>1, LinesOfAContained
<1>4. lines \in SUBSET Nat
  BY LinesWithIs
<1> HIDE DEF lines
<1>5. Min(lines) \in lines /\ Min(lines) \in Nat
  BY <1>3, <1>4, MinIs
<1> QED
  BY <1>2, <1>5 DEF Finding, LibraryRule, Rule, lines

\* A finding is the only one of its rule on its line, so that sorting keeps all of them.
LEMMA SortingKeepsFindings ==
  ASSUME NEW A, NEW s \in Seq(A), NEW S \in SUBSET (RuleFindings(s) \cup LibraryFindings(s))
  PROVE  IsFiniteSet(S) /\ Sorted(S) \in Seq(S) /\ ToSet(Sorted(S)) = S
<1>1. ASSUME NEW f \in S
      PROVE  /\ f.line \in Nat /\ f.rule \in ToSet(Ids)
             /\ f.rule = LibraryRule.id => LibraryFindings(s) = {f}
             /\ f.rule # LibraryRule.id =>
                   \E r \in ToSet(Rules) : f.rule = r.id /\ f = Finding(r, f.line, Detail(s, r.of, f.line))
  <2>1. LibraryRule.id = "shared-library-step" /\ LibraryRule.id \in ToSet(Ids)
    BY DEF LibraryRule, Rule, Ids, ToSet
  <2>2. CASE f \in LibraryFindings(s)
    BY <2>1, <2>2, LibraryFindingsAre
  <2>3. CASE f \in RuleFindings(s)
    <3>1. PICK r \in ToSet(Rules) : f \in FindingsOf(r, s)
      BY <2>3 DEF RuleFindings
    <3> QED
      BY <3>1, FindingsOfAre, RulesAre
  <2> QED
    BY <2>2, <2>3
<1>2. \A f \in S : Key(f) \in Nat
  BY <1>1, KeyIs
<1>3. ASSUME NEW f \in S, NEW g \in S, Key(f) = Key(g) PROVE f = g
  <2>1. f.line = g.line /\ f.rule = g.rule
    BY <1>1, <1>3, KeyIs
  <2>2. CASE f.rule = LibraryRule.id
    BY <1>1, <2>1, <2>2
  <2>3. CASE f.rule # LibraryRule.id
    <3>1. PICK q \in ToSet(Rules) : f.rule = q.id /\ f = Finding(q, f.line, Detail(s, q.of, f.line))
      BY <1>1, <2>3
    <3>2. PICK r \in ToSet(Rules) : g.rule = r.id /\ g = Finding(r, g.line, Detail(s, r.of, g.line))
      BY <1>1, <2>1, <2>3
    <3>3. q = r
      BY <2>1, <3>1, <3>2, RulesAre
    <3> QED
      BY <2>1, <3>1, <3>2, <3>3
  <2> QED
    BY <2>2, <2>3
<1>4. IsFiniteSet(S)
  <2>1. ASSUME NEW r \in ToSet(Rules) PROVE IsFiniteSet(FindingsOf(r, s))
    <3> DEFINE lines == Hits(r, LinesWith(s, r.of))
               found == [l \in lines |-> Finding(r, l, Detail(s, r.of, l))]
    <3>1. IsFiniteSet(lines)
      BY LinesWithIs, HitsAre, FS_Subset
    <3>2. found \in Surjection(lines, FindingsOf(r, s))
      BY DEF Surjection, FindingsOf
    <3> HIDE DEF lines, found
    <3> QED
      BY <3>1, <3>2, FS_Surjection
  <2>2. IsFiniteSet(RuleFindings(s))
    <3> DEFINE of == [r \in ToSet(Rules) |-> FindingsOf(r, s)]
               Sets == {FindingsOf(r, s) : r \in ToSet(Rules)}
    <3>1. of \in Surjection(ToSet(Rules), Sets)
      BY DEF Surjection
    <3>2. IsFiniteSet(Sets)
      <4> HIDE DEF of, Sets
      <4> QED
        BY <3>1, RulesAre, FS_Surjection
    <3>3. \A T \in Sets : IsFiniteSet(T)
      BY <2>1
    <3> HIDE DEF Sets
    <3>4. IsFiniteSet(UNION Sets)
      BY <3>2, <3>3, FS_UNION
    <3> QED
      BY <3>4 DEF Sets, RuleFindings
  <2>3. IsFiniteSet(LibraryFindings(s))
    <3>1. LibraryFindings(s) = {} \/ \E f \in LibraryFindings(s) : LibraryFindings(s) = {f}
      BY LibraryFindingsAre
    <3>2. \A x : IsFiniteSet({x})
      BY FS_Singleton
    <3>3. IsFiniteSet({})
      BY FS_EmptySet
    <3> QED
      BY <3>1, <3>2, <3>3
  <2> QED
    BY <2>2, <2>3, FS_Union, FS_Subset
<1> QED
  BY <1>2, <1>3, <1>4, SortedIs

--------------------------------------------------------------------------------
(* What the lists name                                                         *)

\* The elements of two sequences, one after the other.
LEMMA AppendedSet ==
  ASSUME NEW A, NEW s \in Seq(A), NEW t \in Seq(A)
  PROVE  s \o t \in Seq(A) /\ ToSet(s \o t) = ToSet(s) \cup ToSet(t)
<1>1. Len(s) \in Nat /\ Len(t) \in Nat /\ DOMAIN s = 1 .. Len(s) /\ DOMAIN t = 1 .. Len(t)
      /\ s \o t \in Seq(A) /\ Len(s \o t) = Len(s) + Len(t) /\ DOMAIN (s \o t) = 1 .. Len(s) + Len(t)
      /\ \A i \in 1 .. Len(s) + Len(t) : (s \o t)[i] = IF i <= Len(s) THEN s[i] ELSE t[i - Len(s)]
  OBVIOUS
<1> DEFINE u == s \o t
<1> HIDE DEF u
<1>2. \A x \in ToSet(u) : x \in ToSet(s) \cup ToSet(t)
  <2>1. ASSUME NEW i \in DOMAIN u PROVE u[i] \in ToSet(s) \cup ToSet(t)
    <3>1. CASE i <= Len(s)
      BY <1>1, <3>1 DEF ToSet, u
    <3>2. CASE ~(i <= Len(s))
      <4>1. i - Len(s) \in DOMAIN t /\ u[i] = t[i - Len(s)]
        BY <1>1, <3>2 DEF u
      <4> QED
        BY <4>1 DEF ToSet
    <3> QED
      BY <3>1, <3>2
  <2> QED
    BY <2>1 DEF ToSet
<1>3. \A x \in ToSet(s) : x \in ToSet(u)
  <2>1. ASSUME NEW i \in 1 .. Len(s) PROVE i \in DOMAIN u /\ u[i] = s[i]
    BY <1>1 DEF u
  <2> QED
    BY <1>1, <2>1 DEF ToSet
<1>4. \A x \in ToSet(t) : x \in ToSet(u)
  <2>1. ASSUME NEW i \in 1 .. Len(t)
        PROVE  Len(s) + i \in DOMAIN u /\ u[Len(s) + i] = t[i]
    BY <1>1 DEF u
  <2> QED
    BY <1>1, <2>1 DEF ToSet
<1> QED
  BY <1>1, <1>2, <1>3, <1>4 DEF u

LEMMA CapturesAre ==
  ASSUME NEW A, NEW s \in Seq(A), NEW tokens
  PROVE  /\ \E n \in Nat : DOMAIN Captures(s, tokens) = 1 .. n /\ Len(Captures(s, tokens)) = n
         /\ \E B : Captures(s, tokens) \in Seq(B)
         /\ ToSet(Captures(s, tokens)) = {Captured(s, i) : i \in Matches(s, tokens, InText)}
<1> DEFINE found == Matches(s, tokens, InText)
           at == InOrder(found)
           c == Captures(s, tokens)
           n == Cardinality(found)
<1>1. found \in SUBSET Nat /\ IsFiniteSet(found)
  BY MatchesAre
<1>2. /\ n \in Nat /\ at \in [1 .. n -> found] /\ DOMAIN at = 1 .. n
      /\ \A i \in found : \E k \in 1 .. n : at[k] = i
  <2> HIDE DEF found
  <2> QED
    BY <1>1, InOrderIs
<1>3. c = [k \in 1 .. n |-> Captured(s, at[k])]
  BY <1>2 DEF Captures
<1> HIDE DEF found, at, n, c
<1>4. ToSet(c) = {Captured(s, i) : i \in found}
  <2>1. \A k \in 1 .. n : c[k] = Captured(s, at[k]) /\ at[k] \in found
    BY <1>2, <1>3
  <2>2. DOMAIN c = 1 .. n
    BY <1>3
  <2> QED
    BY <1>2, <2>1, <2>2 DEF ToSet
<1>5. c \in [1 .. n -> ToSet(c)]
  <2>1. DOMAIN c = 1 .. n /\ c = [k \in 1 .. n |-> c[k]]
    BY <1>3
  <2> QED
    BY <2>1 DEF ToSet
<1>6. c \in Seq(ToSet(c)) /\ Len(c) = n /\ DOMAIN c = 1 .. n
  BY <1>2, <1>5
<1> QED
  BY <1>2, <1>4, <1>6 DEF c, found

\* Both ways to name a credential are listed, and each credential once.
LEMMA CredentialIdsAre ==
  ASSUME NEW A, NEW s \in Seq(A)
  PROVE  /\ \E n \in Nat : DOMAIN CredentialIds(s) = 1 .. n /\ Len(CredentialIds(s)) = n
         /\ ToSet(CredentialIds(s)) = {Captured(s, i) : i \in Matches(s, Secrets, InText)}
         /\ IsInjective(CredentialIds(s))
<1> DEFINE g == Captures(s, HelperTokens)
           h == Captures(s, IdTokens)
           ids == g \o h
           first == {i \in DOMAIN ids : \A j \in 1 .. i - 1 : ids[j] # ids[i]}
           at == InOrder(first)
           n == Cardinality(first)
           p == Picked(ids, first)
<1>1. PICK B, C : g \in Seq(B) /\ h \in Seq(C)
  BY CapturesAre
<1>2. ToSet(g) = {Captured(s, i) : i \in Matches(s, HelperTokens, InText)}
      /\ ToSet(h) = {Captured(s, i) : i \in Matches(s, IdTokens, InText)}
  BY CapturesAre
<1> HIDE DEF g, h
<1>3. ids \in Seq(B \cup C) /\ Len(ids) \in Nat /\ DOMAIN ids = 1 .. Len(ids)
  <2>1. g \in Seq(B \cup C) /\ h \in Seq(B \cup C)
    BY <1>1
  <2>2. ids \in Seq(B \cup C)
    BY <2>1
  <2> QED
    BY <2>2
<1>4. ToSet(ids) = ToSet(g) \cup ToSet(h)
  <2>1. g \in Seq(B \cup C) /\ h \in Seq(B \cup C)
    BY <1>1
  <2> QED
    BY <2>1, AppendedSet
<1> HIDE DEF ids
<1>5. first \in SUBSET Nat /\ IsFiniteSet(first)
  <2>1. IsFiniteSet(DOMAIN ids)
    BY <1>3, FS_Interval
  <2> QED
    BY <1>3, <2>1, FS_Subset, first \in SUBSET DOMAIN ids
<1>6. ASSUME NEW i \in DOMAIN ids
      PROVE  \E k \in first : ids[k] = ids[i]
  <2> DEFINE same == {k \in DOMAIN ids : ids[k] = ids[i]}
  <2>1. same \in SUBSET Nat /\ same # {}
    BY <1>3
  <2>2. PICK k \in same : \A j \in same : k <= j
    BY <2>1, Least
  <2>3. ASSUME NEW j \in 1 .. k - 1 PROVE ids[j] # ids[k]
    <3>1. j \in DOMAIN ids /\ ~(k <= j)
      BY <1>3, <2>2
    <3> QED
      BY <2>2, <3>1
  <2> QED
    BY <2>2, <2>3
<1>7. {ids[i] : i \in first} = ToSet(ids)
  BY <1>6 DEF ToSet
<1>8. /\ n \in Nat /\ DOMAIN p = 1 .. n /\ Len(p) = n /\ ToSet(p) = {ids[i] : i \in first}
      /\ at \in [1 .. n -> first] /\ DOMAIN at = 1 .. n
      /\ \A j, k \in 1 .. n : j < k => at[j] < at[k]
  <2> HIDE DEF first
  <2>1. n \in Nat /\ DOMAIN p = 1 .. n /\ Len(p) = n /\ ToSet(p) = {ids[i] : i \in first}
    BY <1>5, PickedIs
  <2>2. /\ at \in [1 .. n -> first] /\ DOMAIN at = 1 .. n
        /\ \A j, k \in 1 .. n : j < k => at[j] < at[k]
    BY <1>5, InOrderIs
  <2> QED
    BY <2>1, <2>2
<1>9. \A k \in 1 .. n : p[k] = ids[at[k]]
  BY <1>8 DEF Picked
<1>10. ASSUME NEW j \in 1 .. n, NEW k \in 1 .. n, j < k PROVE p[j] # p[k]
  <2>1. at[j] \in first /\ at[k] \in first /\ at[j] < at[k]
    BY <1>8, <1>10
  <2>2. at[j] \in 1 .. at[k] - 1
    BY <1>3, <2>1
  <2>3. ids[at[j]] # ids[at[k]]
    BY <2>1, <2>2
  <2> QED
    BY <1>9, <2>3
<1> HIDE DEF n, at, p, first
<1>11. IsInjective(p)
  <2>1. ASSUME NEW j \in 1 .. n, NEW k \in 1 .. n, p[j] = p[k] PROVE j = k
    <3>1. j \in Nat /\ k \in Nat
      BY <1>8
    <3>2. ~(j < k) /\ ~(k < j)
      BY <1>10, <2>1
    <3> QED
      BY <3>1, <3>2
  <2> QED
    BY <1>8, <2>1 DEF IsInjective
<1>12. CredentialIds(s) = p
  BY DEF CredentialIds, p, first, ids, g, h
<1>13. ToSet(p) = {Captured(s, i) : i \in Matches(s, Secrets, InText)}
  <2>1. Matches(s, Secrets, InText)
          = Matches(s, HelperTokens, InText) \cup Matches(s, IdTokens, InText)
    BY DEF Matches, Secrets
  <2> QED
    BY <1>2, <1>4, <1>7, <1>8, <2>1
<1> QED
  BY <1>8, <1>11, <1>12, <1>13

LEMMA AlphabeticalIs ==
  ASSUME NEW calls \in SUBSET Calls
  PROVE  ToSet(Alphabetical(calls)) = calls /\ (Alphabetical(calls) # <<>> <=> calls # {})
<1> DEFINE at == {i \in DOMAIN CallsInOrder : CallsInOrder[i] \in calls}
           p == Alphabetical(calls)
<1>1. DOMAIN CallsInOrder = 1 .. 5 /\ ToSet(CallsInOrder) = Calls
  BY DEF CallsInOrder, Calls, ToSet
<1>2. at \in SUBSET Nat /\ IsFiniteSet(at)
  <2>1. IsFiniteSet(1 .. 5)
    <3>1. \A n \in Nat : IsFiniteSet(1 .. n)
      <4>1. ASSUME NEW n \in Nat PROVE IsFiniteSet(1 .. n)
        BY FS_Interval
      <4> QED
        BY <4>1
    <3> QED
      BY <3>1
  <2>2. IsFiniteSet(DOMAIN CallsInOrder) /\ at \in SUBSET DOMAIN CallsInOrder /\ at \in SUBSET Nat
    BY <1>1, <2>1
  <2> HIDE DEF at
  <2> QED
    BY <2>2, FS_Subset
<1>3. {CallsInOrder[i] : i \in at} = calls
  BY <1>1 DEF ToSet
<1>4. /\ p \in Seq({CallsInOrder[i] : i \in at})
      /\ ToSet(p) = {CallsInOrder[i] : i \in at}
  <2> HIDE DEF at
  <2> QED
    BY <1>2, PickedIs DEF at, Alphabetical
<1> HIDE DEF p, at
<1>5. p \in Seq(calls) /\ ToSet(p) = calls
  BY <1>3, <1>4
<1>6. p # <<>> <=> ToSet(p) # {}
  BY <1>5 DEF ToSet
<1> QED
  BY <1>5, <1>6 DEF p

--------------------------------------------------------------------------------
(* The inductive invariant: what the text has become at each step              *)

\* Nothing is known of the text yet, or there is no file.
Unread ==
    /\ (step = "scan" /\ exit = 0) \/ (step = "done" /\ exit = 1)
    /\ findings = <<>> /\ next = 1
    /\ lists = [stages |-> <<>>, library |-> FALSE, credentials |-> <<>>,
                librarySteps |-> <<>>, plugins |-> <<>>]

\* The scanned text is that of the file, and the lists are made from it.
Listed ==
    /\ cleaned = StripComments(text)
    /\ DOMAIN lists = {"stages", "library", "credentials", "librarySteps", "plugins"}
    /\ lists.stages = Captures(cleaned, {"stage("})
    /\ lists.library = Contains(cleaned, "@Library")
    /\ lists.credentials = CredentialIds(cleaned)
    /\ step \in {"render", "exit", "done"} =>
          /\ lists.librarySteps = Alphabetical(LibraryCalls(cleaned))
          /\ lists.plugins = Alphabetical(ToSet(cleaned) \cap PluginSteps)

\* The findings are those of the rules applied so far, and in the end of the library's steps.
Found ==
    /\ findings \in Seq(RuleFindings(cleaned) \cup LibraryFindings(cleaned))
    /\ step = "rules" =>
          /\ next \in 1 .. Len(Rules)
          /\ ToSet(findings) = UNION {FindingsOf(Rules[k], cleaned) : k \in 1 .. next - 1}
    /\ step = "steps" => ToSet(findings) = RuleFindings(cleaned)
    /\ step \in {"render", "exit", "done"} =>
          ToSet(findings) = RuleFindings(cleaned) \cup LibraryFindings(cleaned)

\* The report and the exit code are made from these findings.
Told ==
    /\ step \in {"exit", "done"} => output = Markdown
    /\ step = "done" =>
          exit = IF failOn # "none" /\ \E i \in DOMAIN findings : Reaches(findings[i], failOn)
                 THEN 2 ELSE 0

AnalyzerInvariant ==
    /\ text \in Jenkinsfiles
    /\ \/ Unread
       \/ /\ step \in {"rules", "steps", "render", "exit", "done"} /\ exit # 1
          /\ Listed /\ Found /\ Told

\* What is told and listed does not change by itself.
LEMMA MarkdownStays ==
  ASSUME UNCHANGED <<lists, findings>>
  PROVE  Markdown' = Markdown
  BY DEF Markdown, Items, Shown, Summary

LEMMA CleanedIs ==
  ASSUME text \in Jenkinsfiles, cleaned = StripComments(text)
  PROVE  cleaned \in Seq(Cleaned) /\ DOMAIN cleaned = DOMAIN text
  BY TextIs, StripCommentsIs

LEMMA InvariantInitially == Init => AnalyzerInvariant
  BY DEF Init, AnalyzerInvariant, Unread

LEMMA ScanKeeps ==
  ASSUME AnalyzerInvariant, Scan
  PROVE  AnalyzerInvariant'
<1>1. Unread /\ step = "scan" /\ text \in Jenkinsfiles
  BY DEF AnalyzerInvariant, Scan
<1>2. /\ cleaned' = StripComments(text)
      /\ lists' = [lists EXCEPT !.stages = Captures(cleaned', {"stage("}),
                                !.library = Contains(cleaned', "@Library"),
                                !.credentials = CredentialIds(cleaned')]
      /\ step' = "rules"
      /\ text' = text /\ next' = next /\ findings' = findings /\ exit' = exit
  BY DEF Scan
<1>3. Listed'
  BY <1>1, <1>2 DEF Unread, Listed
<1>4. Found'
  <2>1. findings' = <<>> /\ next' = 1
    BY <1>1, <1>2 DEF Unread
  <2>2. next' \in 1 .. Len(Rules)
    BY <2>1, RulesAre
  <2>3. ToSet(findings') = {} /\ UNION {FindingsOf(Rules[k], cleaned') : k \in 1 .. next' - 1} = {}
    BY <2>1 DEF ToSet
  <2>4. findings' \in Seq(RuleFindings(cleaned') \cup LibraryFindings(cleaned'))
    BY <2>1
  <2> QED
    BY <1>2, <2>2, <2>3, <2>4 DEF Found
<1>5. Told'
  BY <1>2 DEF Told
<1>6. exit' # 1
  BY <1>1, <1>2 DEF Unread
<1> QED
  BY <1>1, <1>2, <1>3, <1>4, <1>5, <1>6 DEF AnalyzerInvariant

LEMMA NoSuchFileKeeps ==
  ASSUME AnalyzerInvariant, NoSuchFile
  PROVE  AnalyzerInvariant'
  BY DEF AnalyzerInvariant, NoSuchFile, Unread

LEMMA ApplyRuleKeeps ==
  ASSUME AnalyzerInvariant, ApplyRule
  PROVE  AnalyzerInvariant'
<1>1. step = "rules" /\ text \in Jenkinsfiles /\ exit # 1 /\ Listed /\ Found
  BY DEF AnalyzerInvariant, ApplyRule, Unread
<1>2. /\ findings' = findings \o Sorted(FindingsOf(Rules[next], cleaned))
      /\ next' = next + 1
      /\ step' = IF next = Len(Rules) THEN "steps" ELSE "rules"
      /\ text' = text /\ cleaned' = cleaned /\ lists' = lists /\ exit' = exit
  BY DEF ApplyRule
<1>3. cleaned \in Seq(Cleaned)
  BY <1>1, CleanedIs DEF Listed
<1>4. next \in 1 .. 6 /\ Rules[next] \in ToSet(Rules) /\ Len(Rules) = 6 /\ DOMAIN Rules = 1 .. 6
  BY <1>1, RulesAre DEF Found, ToSet
<1> DEFINE new == FindingsOf(Rules[next], cleaned)
           all == RuleFindings(cleaned) \cup LibraryFindings(cleaned)
<1>5. new \in SUBSET all
  BY <1>4 DEF RuleFindings
<1>6. Sorted(new) \in Seq(all) /\ ToSet(Sorted(new)) = new
  <2> HIDE DEF new
  <2>1. Sorted(new) \in Seq(new) /\ ToSet(Sorted(new)) = new
    BY <1>3, <1>5, SortingKeepsFindings
  <2> QED
    BY <1>5, <2>1
<1>7. findings' \in Seq(all) /\ ToSet(findings') = ToSet(findings) \cup new
  <2> HIDE DEF new, all
  <2>1. findings \in Seq(all)
    BY <1>1 DEF Found, all
  <2> QED
    BY <1>2, <1>6, <2>1, AppendedSet DEF new
<1>8. ToSet(findings') = UNION {FindingsOf(Rules[k], cleaned) : k \in 1 .. next}
  <2>1. ToSet(findings) = UNION {FindingsOf(Rules[k], cleaned) : k \in 1 .. next - 1}
    BY <1>1 DEF Found
  <2>2. 1 .. next = (1 .. next - 1) \cup {next}
    BY <1>4
  <2> QED
    BY <1>7, <2>1, <2>2
<1>9. next = 6 => ToSet(findings') = RuleFindings(cleaned)
  <2>1. ToSet(Rules) = {Rules[k] : k \in 1 .. 6}
    BY <1>4 DEF ToSet
  <2> QED
    BY <1>8, <2>1 DEF RuleFindings
<1>10. Found'
  <2>1. step' = "rules" => next' \in 1 .. Len(Rules) /\ next' - 1 = next
    BY <1>2, <1>4
  <2> QED
    BY <1>2, <1>4, <1>7, <1>8, <1>9, <2>1 DEF Found
<1>11. Listed'
  BY <1>1, <1>2 DEF Listed
<1>12. Told'
  BY <1>2 DEF Told
<1> QED
  BY <1>1, <1>2, <1>10, <1>11, <1>12 DEF AnalyzerInvariant

LEMMA LibraryStepsKeeps ==
  ASSUME AnalyzerInvariant, LibrarySteps
  PROVE  AnalyzerInvariant'
<1>1. step = "steps" /\ text \in Jenkinsfiles /\ exit # 1 /\ Listed /\ Found
  BY DEF AnalyzerInvariant, LibrarySteps, Unread
<1> DEFINE all == RuleFindings(cleaned) \cup LibraryFindings(cleaned)
<1>2. /\ findings' = Sorted(all)
      /\ lists' = [lists EXCEPT
             !.librarySteps = Alphabetical(LibraryCalls(cleaned)),
             !.plugins = Alphabetical(ToSet(cleaned) \cap PluginSteps)]
      /\ step' = "render"
      /\ text' = text /\ cleaned' = cleaned /\ exit' = exit
  BY <1>1 DEF LibrarySteps, Found, LibraryFindings
<1>3. cleaned \in Seq(Cleaned)
  BY <1>1, CleanedIs DEF Listed
<1>4. Sorted(all) \in Seq(all) /\ ToSet(Sorted(all)) = all
  BY <1>3, SortingKeepsFindings
<1>5. Found'
  BY <1>2, <1>4 DEF Found
<1>6. Listed'
  BY <1>1, <1>2 DEF Listed
<1>7. Told'
  BY <1>2 DEF Told
<1> QED
  BY <1>1, <1>2, <1>5, <1>6, <1>7 DEF AnalyzerInvariant

LEMMA RenderKeeps ==
  ASSUME AnalyzerInvariant, Render
  PROVE  AnalyzerInvariant'
<1>1. step = "render" /\ text \in Jenkinsfiles /\ exit # 1 /\ Listed /\ Found
  BY DEF AnalyzerInvariant, Render, Unread
<1>2. /\ output' = Markdown /\ step' = "exit"
      /\ text' = text /\ cleaned' = cleaned /\ lists' = lists /\ findings' = findings /\ exit' = exit
  BY DEF Render
<1>3. Listed' /\ Found'
  BY <1>1, <1>2 DEF Listed, Found
<1>4. Told'
  BY <1>2, MarkdownStays DEF Told
<1> QED
  BY <1>1, <1>2, <1>3, <1>4 DEF AnalyzerInvariant

LEMMA ExitKeeps ==
  ASSUME AnalyzerInvariant, Exit
  PROVE  AnalyzerInvariant'
<1>1. step = "exit" /\ text \in Jenkinsfiles /\ Listed /\ Found /\ Told
  BY DEF AnalyzerInvariant, Exit, Unread
<1>2. /\ exit' = IF failOn' # "none" /\ \E i \in DOMAIN findings : Reaches(findings[i], failOn')
                 THEN 2 ELSE 0
      /\ step' = "done"
      /\ text' = text /\ cleaned' = cleaned /\ lists' = lists /\ findings' = findings /\ output' = output
  BY DEF Exit
<1>3. Listed' /\ Found'
  BY <1>1, <1>2 DEF Listed, Found
<1>4. Told'
  BY <1>1, <1>2, MarkdownStays DEF Told
<1>5. exit' # 1
  BY <1>2
<1> QED
  BY <1>1, <1>2, <1>3, <1>4, <1>5 DEF AnalyzerInvariant

LEMMA InvariantKept == AnalyzerInvariant /\ [Next]_vars => AnalyzerInvariant'
<1> SUFFICES ASSUME AnalyzerInvariant, [Next]_vars PROVE AnalyzerInvariant'
  OBVIOUS
<1>1. CASE UNCHANGED vars
  <2>1. Unread => Unread'
    BY <1>1 DEF vars, Unread
  <2>2. Listed /\ Found => Listed' /\ Found'
    BY <1>1 DEF vars, Listed, Found
  <2>3. Told => Told'
    BY <1>1, MarkdownStays DEF vars, Told
  <2> QED
    BY <1>1, <2>1, <2>2, <2>3 DEF vars, AnalyzerInvariant
<1> QED
  BY <1>1, ScanKeeps, NoSuchFileKeeps, ApplyRuleKeeps, LibraryStepsKeeps, RenderKeeps, ExitKeeps
     DEF Next

LEMMA InvariantAlways == Spec => []AnalyzerInvariant
  BY InvariantInitially, InvariantKept, PTL DEF Spec

--------------------------------------------------------------------------------
(* The theorems                                                                *)

\* Each finding is of a rule or of a call of the library, on a line of the scanned text.
LEMMA FindingIs ==
  ASSUME AnalyzerInvariant, NEW f \in ToSet(findings)
  PROVE  /\ ~Unread /\ cleaned = StripComments(text) /\ cleaned \in Seq(Cleaned)
         /\ \/ \E r \in ToSet(Rules) : f \in FindingsOf(r, cleaned)
            \/ f \in LibraryFindings(cleaned)
<1>1. findings # <<>>
  BY DEF ToSet
<1>2. ~Unread /\ Listed /\ Found
  BY <1>1 DEF AnalyzerInvariant, Unread
<1>3. cleaned = StripComments(text) /\ cleaned \in Seq(Cleaned)
  BY <1>2, CleanedIs DEF AnalyzerInvariant, Listed
<1>4. f \in RuleFindings(cleaned) \cup LibraryFindings(cleaned)
  BY <1>2 DEF Found, ToSet
<1> QED
  BY <1>2, <1>3, <1>4 DEF RuleFindings

\* A finding of a rule is of a match on its line of the scanned text, and what matched and the name
\* in the detail are on that line of the original.
LEMMA ShownOfARule ==
  ASSUME NEW s \in Seq(Cleaned), NEW r \in ToSet(Rules),
         NEW f \in FindingsOf(r, StripComments(s))
  PROVE  \E i \in Matches(StripComments(s), r.of, InLine) :
            /\ i \in DOMAIN s /\ s[i] \in r.of /\ LineOf(s, i) = f.line
            /\ f.detail = Captured(StripComments(s), i)
            /\ f.detail # "" => \E j \in DOMAIN s : s[j] = f.detail /\ LineOf(s, j) = f.line
<1> DEFINE c == StripComments(s)
<1>1. /\ c \in Seq(Cleaned) /\ DOMAIN c = DOMAIN s
      /\ \A i \in DOMAIN s : c[i] \in {s[i], Blank} /\ LineOf(c, i) = LineOf(s, i)
  BY StripCommentsIs, LinesOfTheText
<1> HIDE DEF c
<1>2. f.line \in LinesWith(c, r.of) /\ f.detail = Detail(c, r.of, f.line)
  BY <1>1, FindingsOfAre DEF c
<1>3. PICK i \in Matches(c, r.of, InLine) : LineOf(c, i) = f.line /\ f.detail = Captured(c, i)
  BY <1>1, <1>2, DetailIs
<1>4. i \in DOMAIN s /\ c[i] \in r.of
  BY <1>1, <1>3, MatchesAre
<1>5. Blank \notin r.of
  <2>1. r.of \subseteq Statements
    BY RulesAre
  <2> QED
    BY <2>1 DEF Blank, Statements, Calls, Secrets, HelperTokens, IdTokens
<1>6. s[i] \in r.of /\ LineOf(s, i) = f.line
  BY <1>1, <1>3, <1>4, <1>5
<1>7. ASSUME f.detail # "" PROVE \E j \in DOMAIN s : s[j] = f.detail /\ LineOf(s, j) = f.line
  <2>1. c[i] \in Openers
    BY <1>3, <1>7 DEF Captured
  <2>2. PICK j \in Argument(c, i, InLine) : TRUE
    BY <1>3, <2>1 DEF Matches
  <2>3. j \in DOMAIN c /\ c[j] \in Arguments /\ Captured(c, i) = c[j] /\ LineOf(c, j) = LineOf(c, i)
    BY <1>1, <1>4, <2>1, <2>2, CapturedIs
  <2>4. Blank \notin Arguments
    BY DEF Blank, Arguments
  <2>5. c[j] = s[j] /\ LineOf(c, j) = LineOf(s, j)
    BY <1>1, <2>3, <2>4
  <2> QED
    BY <1>1, <1>3, <2>3, <2>5
<1> QED
  BY <1>3, <1>4, <1>6, <1>7 DEF c

\* The line of a finding is one of the original text that has the construct of its rule and the name
\* in its detail, for every Jenkinsfile: stripping comments never moves a statement to another line
\* (parser.py:41-47, analyzer.py:25-31).
THEOREM SnippetsShowTheirConstruct == Spec => []SnippetShowsConstruct
<1>1. AnalyzerInvariant => SnippetShowsConstruct
  <2> SUFFICES ASSUME AnalyzerInvariant, NEW k \in DOMAIN findings
               PROVE  LET shown == {text[i] : i \in {j \in DOMAIN text : LineOf(text, j) = findings[k].line}}
                      IN shown \cap TokenOf(findings[k].rule) # {}
                         /\ findings[k].detail \in shown \cup {""}
    BY DEF SnippetShowsConstruct
  <2> DEFINE f == findings[k]
             shown == {text[i] : i \in {j \in DOMAIN text : LineOf(text, j) = f.line}}
  <2>1. f \in ToSet(findings)
    BY DEF ToSet
  <2> HIDE DEF f
  <2>2. cleaned = StripComments(text) /\ cleaned \in Seq(Cleaned) /\ text \in Seq(Cleaned)
    BY <2>1, FindingIs, TextIs DEF AnalyzerInvariant
  <2>3. CASE \E r \in ToSet(Rules) : f \in FindingsOf(r, cleaned)
    <3>1. PICK r \in ToSet(Rules) : f \in FindingsOf(r, cleaned)
      BY <2>3
    <3>2. TokenOf(f.rule) = r.of
      BY <2>2, <3>1, FindingsOfAre, RulesAre
    <3>3. PICK i \in DOMAIN text :
             /\ text[i] \in r.of /\ LineOf(text, i) = f.line
             /\ f.detail # "" => \E j \in DOMAIN text : text[j] = f.detail /\ LineOf(text, j) = f.line
      BY <2>2, <3>1, ShownOfARule
    <3>4. text[i] \in shown /\ f.detail \in shown \cup {""}
      BY <3>3
    <3> HIDE DEF shown
    <3>5. shown \cap TokenOf(f.rule) # {}
      BY <3>2, <3>3, <3>4
    <3> QED
      BY <3>4, <3>5 DEF f, shown
  <2>4. CASE f \in LibraryFindings(cleaned)
    <3>1. f.line \in LinesWith(cleaned, {"deployHelm"}) /\ f.rule = "shared-library-step"
      BY <2>2, <2>4, LibraryFindingsAre
    <3>2. TokenOf(f.rule) = {"deployHelm"} /\ f.detail = "deployHelm"
      <4>1. TokenOf(f.rule) = {"deployHelm"}
        BY <3>1 DEF TokenOf, LibraryRule, Rule
      <4>2. f.detail = "deployHelm"
        <5>1. PICK name \in LibraryCalls(cleaned) : f = Finding(LibraryRule, Min(LinesWith(cleaned, {name})), name)
          BY <2>4 DEF LibraryFindings
        <5>2. name = "deployHelm"
          BY <2>2, <5>1, LibraryCallsAre
        <5> QED
          BY <5>1, <5>2 DEF Finding
      <4> QED
        BY <4>1, <4>2
    <3>3. PICK i \in Matches(cleaned, {"deployHelm"}, InLine) : LineOf(cleaned, i) = f.line
      BY <3>1 DEF LinesWith
    <3>4. i \in DOMAIN cleaned /\ cleaned[i] = "deployHelm"
      BY <2>2, <3>3, MatchesAre
    <3>5. i \in DOMAIN text /\ text[i] = "deployHelm" /\ LineOf(text, i) = f.line
      <4>1. DOMAIN cleaned = DOMAIN text /\ cleaned[i] \in {text[i], Blank} /\ LineOf(cleaned, i) = LineOf(text, i)
        BY <2>2, <3>4, StripCommentsIs, LinesOfTheText
      <4> QED
        BY <3>3, <3>4, <4>1 DEF Blank
    <3>6. "deployHelm" \in shown
      BY <3>5
    <3> HIDE DEF shown
    <3> QED
      BY <3>2, <3>6 DEF f, shown
  <2> QED
    BY <2>1, <2>3, <2>4, FindingIs
<1> QED
  BY <1>1, InvariantAlways, PTL

\* Every secret on the list has an open box on a line that shows its name, unless a mention of it
\* runs over a line end, and every secret that a box names is on the list, for every Jenkinsfile
\* (parser.py:18-19, 62-67; analyzer.py:21-25).
THEOREM SecretsHaveBoxes == Spec => []SecretsAreCovered
<1>1. AnalyzerInvariant => SecretsAreCovered
  <2> SUFFICES ASSUME AnalyzerInvariant, step = "done" PROVE SecretsAreCovered
    BY DEF SecretsAreCovered
  <2>1. CASE Unread
    <3>1. ToSet(lists.credentials) = {} /\ ToSet(findings) = {}
      BY <2>1 DEF Unread, ToSet
    <3> QED
      BY <3>1 DEF SecretsAreCovered
  <2>2. CASE ~Unread
    <3>1. /\ text \in Seq(Cleaned) /\ cleaned = StripComments(text) /\ cleaned \in Seq(Cleaned)
          /\ DOMAIN cleaned = DOMAIN text /\ lists.credentials = CredentialIds(cleaned)
          /\ ToSet(findings) = RuleFindings(cleaned) \cup LibraryFindings(cleaned)
      BY <2>2, TextIs, CleanedIs DEF AnalyzerInvariant, Listed, Found
    <3>2. /\ ToSet(lists.credentials) = {Captured(cleaned, i) : i \in Matches(cleaned, Secrets, InText)}
          /\ \E n \in Nat : DOMAIN lists.credentials = 1 .. n /\ Len(lists.credentials) = n
      BY <3>1, CredentialIdsAre
    <3>3. \A x : x \in ToSet(lists.credentials) <=> Contains(lists.credentials, x)
      BY <3>2 DEF ToSet, Contains
    <3>4. Blank \notin Secrets /\ Blank \notin Arguments /\ Secrets \subseteq Openers
      BY DEF Blank, Secrets, HelperTokens, IdTokens, Arguments, Openers
    <3>5. \A i \in DOMAIN text : /\ cleaned[i] \in {text[i], Blank}
                                 /\ LineOf(cleaned, i) = LineOf(text, i)
      BY <3>1, StripCommentsIs, LinesOfTheText
    <3>6. ASSUME NEW i \in Matches(cleaned, Secrets, InText),
                 ~(i \in Matches(cleaned, Secrets, InText) \ Matches(cleaned, Secrets, InLine))
          PROVE  \E f \in ToSet(findings) :
                    /\ f.category = "review"
                    /\ \E j \in DOMAIN text : text[j] = Captured(cleaned, i) /\ LineOf(text, j) = f.line
      <4>1. i \in Matches(cleaned, Secrets, InLine) /\ i \in DOMAIN text /\ cleaned[i] \in Secrets
        BY <3>1, <3>6, MatchesAre
      <4>2. PICK r \in ToSet(Rules) : /\ r.id \in {"credentials-helper", "credentials-id"}
                                      /\ cleaned[i] \in r.of
        BY <4>1, RulesAre DEF Secrets
      <4> DEFINE l == LineOf(cleaned, i)
                 f == Finding(r, l, Detail(cleaned, r.of, l))
      <4>3. l \in LinesWith(cleaned, r.of)
        <5>1. i \in Matches(cleaned, r.of, InLine)
          BY <4>1, <4>2 DEF Matches
        <5> QED
          BY <5>1 DEF LinesWith
      <4>4. ~r.once /\ r.category = "review"
        BY <4>2, RulesAre
      <4>5. l \in Hits(r, LinesWith(cleaned, r.of))
        BY <4>3, <4>4 DEF Hits
      <4>6. f \in ToSet(findings)
        <5>1. f \in FindingsOf(r, cleaned)
          BY <4>5 DEF FindingsOf
        <5>2. FindingsOf(r, cleaned) \subseteq RuleFindings(cleaned)
          BY DEF RuleFindings
        <5> HIDE DEF f
        <5> QED
          BY <3>1, <5>1, <5>2
      <4>7. f.category = "review" /\ f.line = l
        BY <4>4 DEF Finding
      <4>8. PICK j \in Argument(cleaned, i, InLine) : TRUE
        BY <3>4, <4>1 DEF Matches
      <4>9. /\ j \in DOMAIN cleaned /\ cleaned[j] \in Arguments /\ Captured(cleaned, i) = cleaned[j]
            /\ LineOf(cleaned, j) = l
        BY <3>1, <3>4, <4>1, <4>8, CapturedIs
      <4>10. j \in DOMAIN text /\ text[j] = Captured(cleaned, i) /\ LineOf(text, j) = l
        BY <3>1, <3>4, <3>5, <4>9
      <4> HIDE DEF l, f
      <4> QED
        BY <4>6, <4>7, <4>10
    <3>7. ASSUME NEW f \in ToSet(findings), f.rule \in {"credentials-helper", "credentials-id"}
          PROVE  Contains(lists.credentials, f.detail)
      <4>1. f \notin LibraryFindings(cleaned)
        BY <3>1, <3>7, LibraryFindingsAre
      <4>2. PICK r \in ToSet(Rules) : f \in FindingsOf(r, cleaned)
        BY <4>1, FindingIs
      <4>3. f.rule = r.id
        BY <3>1, <4>2, FindingsOfAre
      <4>4. PICK i \in Matches(cleaned, r.of, InLine) : f.detail = Captured(cleaned, i)
        BY <3>1, <4>2, ShownOfARule
      <4>5. r.of \subseteq Secrets
        BY <3>7, <4>3, RulesAre
      <4>6. i \in Matches(cleaned, Secrets, InLine)
        BY <4>4, <4>5 DEF Matches
      <4>7. i \in Matches(cleaned, Secrets, InText)
        BY <3>1, <4>6, MatchesOfALine
      <4>8. f.detail \in ToSet(lists.credentials)
        BY <3>2, <4>4, <4>7
      <4> QED
        BY <3>3, <4>8
    <3>8. ASSUME NEW id \in ToSet(lists.credentials)
          PROVE  \/ \E f \in ToSet(findings) :
                       /\ f.category = "review"
                       /\ \E i \in DOMAIN text : text[i] = id /\ LineOf(text, i) = f.line
                 \/ \E i \in Matches(cleaned, Secrets, InText) \ Matches(cleaned, Secrets, InLine) :
                       Captured(cleaned, i) = id
      <4>1. PICK i \in Matches(cleaned, Secrets, InText) : Captured(cleaned, i) = id
        BY <3>2
      <4> QED
        BY <3>6, <4>1
    <3> QED
      BY <3>7, <3>8 DEF SecretsAreCovered
  <2> QED
    BY <2>1, <2>2
<1> QED
  BY <1>1, InvariantAlways, PTL

\* In a file whose marks are marks, what Groovy takes for code is reported, line by line and rule by
\* rule, and nothing else is; and the lists are those of the code
\* (parser.py:39-74, analyzer.py:19-64).
THEOREM ReportsTheCode == Spec => []ReportIsTheCode
<1>1. AnalyzerInvariant => ReportIsTheCode
  <2> SUFFICES ASSUME AnalyzerInvariant, step = "done", exit # 1, MarksAreMarks(text)
               PROVE  ReportIsTheCode
    BY DEF ReportIsTheCode
  <2> DEFINE code == CodeAtItsLine(text)
             fromLibrary == Contains(code, "deployHelm") /\ ~Contains(code, "def deployHelm")
             names(tokens) == {Captured(code, i) : i \in {j \in DOMAIN code : code[j] \in tokens}}
  <2>1. Listed /\ Found /\ text \in Jenkinsfiles
    BY DEF AnalyzerInvariant, Unread
  <2>2. cleaned = code /\ code \in Seq(Cleaned)
    BY <2>1, TextIs, ScannerKeepsTheCode, CleanedIs DEF Listed
  <2>n. ASSUME NEW tokens \in SUBSET Openers
        PROVE  {Captured(code, i) : i \in Matches(code, tokens, InText)} = names(tokens)
    <3>1. NamesFollow(code)
      BY <2>1, TextIs DEF Legal
    <3> HIDE DEF code
    <3>2. Matches(code, tokens, InText) = {j \in DOMAIN code : code[j] \in tokens}
      BY <3>1 DEF NamesFollow, Matches
    <3> QED
      BY <3>2
  <2> HIDE DEF code
  <2>3. LibraryCalls(code) = IF fromLibrary THEN {"deployHelm"} ELSE {}
    BY <2>2, LibraryCallsAre
  <2>4. LibraryFindings(code) =
          {Finding(LibraryRule, l, "deployHelm") : l \in
              IF fromLibrary THEN Hits(LibraryRule, LinesWith(code, {"deployHelm"})) ELSE {}}
    <3>1. CASE fromLibrary
      <4> DEFINE lines == LinesWith(code, {"deployHelm"})
      <4>1. lines # {}
        <5>1. "deployHelm" \notin Openers
          BY DEF Openers, Secrets, HelperTokens, IdTokens
        <5> QED
          BY <2>2, <3>1, <5>1, LinesOfAContained
      <4>2. Hits(LibraryRule, lines) = {Min(lines)}
        BY <4>1 DEF Hits, LibraryRule, Rule
      <4>3. LibraryFindings(code) = {Finding(LibraryRule, Min(lines), "deployHelm")}
        BY <2>3, <3>1 DEF LibraryFindings
      <4> HIDE DEF lines
      <4>4. LibraryFindings(code) = {Finding(LibraryRule, l, "deployHelm") : l \in Hits(LibraryRule, lines)}
        BY <4>2, <4>3
      <4> QED
        BY <3>1, <4>4 DEF lines
    <3>2. CASE ~fromLibrary
      <4>1. LibraryFindings(code) = {}
        BY <2>3, <3>2 DEF LibraryFindings
      <4> QED
        BY <3>2, <4>1
    <3> QED
      BY <3>1, <3>2
  <2>5. ToSet(findings) = RuleFindings(code) \cup LibraryFindings(code)
    BY <2>1, <2>2 DEF Found
  <2>6. /\ lists.stages = Captures(code, {"stage("}) /\ ToSet(lists.stages) = names({"stage("})
        /\ lists.library <=> Contains(code, "@Library")
    <3>1. lists.stages = Captures(code, {"stage("}) /\ (lists.library <=> Contains(code, "@Library"))
      BY <2>1, <2>2 DEF Listed
    <3>2. {"stage("} \in SUBSET Openers
      BY DEF Openers
    <3>3. ToSet(lists.stages) = {Captured(code, i) : i \in Matches(code, {"stage("}, InText)}
      BY <2>2, <3>1, CapturesAre
    <3> QED
      BY <2>n, <3>1, <3>2, <3>3
  <2>7. ToSet(lists.credentials) = names(Secrets) /\ IsInjective(lists.credentials)
    <3>1. Secrets \in SUBSET Openers
      BY DEF Openers
    <3>2. /\ ToSet(lists.credentials) = {Captured(code, i) : i \in Matches(code, Secrets, InText)}
          /\ IsInjective(lists.credentials)
      BY <2>1, <2>2, CredentialIdsAre DEF Listed
    <3> QED
      BY <2>n, <3>1, <3>2
  <2>8. ToSet(lists.plugins) = ToSet(code) \cap PluginSteps
    <3>1. ToSet(code) \cap PluginSteps \in SUBSET Calls
      BY DEF PluginSteps, Calls
    <3> QED
      BY <2>1, <2>2, <3>1, AlphabeticalIs DEF Listed
  <2>9. lists.librarySteps # <<>> <=> fromLibrary
    <3>1. LibraryCalls(code) \in SUBSET Calls /\ (LibraryCalls(code) # {} <=> fromLibrary)
      BY <2>3 DEF Calls
    <3> QED
      BY <2>1, <2>2, <3>1, AlphabeticalIs DEF Listed
  <2> DEFINE ofRules == UNION {FindingsOf(r, code) : r \in ToSet(Rules)}
             ofLibrary == {Finding(LibraryRule, l, "deployHelm") : l \in
                IF fromLibrary THEN Hits(LibraryRule, LinesWith(code, {"deployHelm"})) ELSE {}}
  <2>10. ToSet(findings) = ofRules \cup ofLibrary
    <3>1. RuleFindings(code) = ofRules
      BY DEF RuleFindings
    <3>2. LibraryFindings(code) = ofLibrary
      BY <2>4
    <3> HIDE DEF ofRules, ofLibrary
    <3> QED
      BY <2>5, <3>1, <3>2
  <2> QED
    BY <2>6, <2>7, <2>8, <2>9, <2>10, Zenon DEF ReportIsTheCode, code
<1> QED
  BY <1>1, InvariantAlways, PTL

--------------------------------------------------------------------------------
(* Boxes                                                                       *)

Of(category) == {i \in DOMAIN findings : findings[i].category = category}

LEMMA ItemsAre ==
  ASSUME findings \in Seq(ToSet(findings)), NEW category
  PROVE  /\ Items(category) \in Seq(ToSet(Items(category)))
         /\ Len(Items(category)) = Cardinality(Of(category))
         /\ IsFiniteSet(Of(category)) /\ Cardinality(Of(category)) \in Nat
         /\ \A item \in ToSet(Items(category)) : item.open <=> category \in {"manual", "review"}
         /\ {item.finding : item \in ToSet(Items(category))} = {findings[i] : i \in Of(category)}
<1> DEFINE n == Cardinality(Of(category))
           p == Picked(findings, Of(category))
           q == Items(category)
<1>1. Of(category) \in SUBSET Nat /\ IsFiniteSet(Of(category))
  <2>1. DOMAIN findings = 1 .. Len(findings) /\ Len(findings) \in Nat
    OBVIOUS
  <2>2. IsFiniteSet(DOMAIN findings) /\ Of(category) \in SUBSET DOMAIN findings
    BY <2>1, FS_Interval DEF Of
  <2> QED
    BY <2>1, <2>2, FS_Subset
<1>2. n \in Nat /\ DOMAIN p = 1 .. n /\ ToSet(p) = {findings[i] : i \in Of(category)}
  BY <1>1, PickedIs
<1>3. q = [k \in 1 .. n |-> [finding |-> p[k], open |-> category \in {"manual", "review"}]]
  BY <1>2 DEF Items, Of
<1> HIDE DEF n, p, q
<1>4. DOMAIN q = 1 .. n /\ q \in [1 .. n -> ToSet(q)]
  <2>1. DOMAIN q = 1 .. n /\ q = [k \in 1 .. n |-> q[k]]
    BY <1>3
  <2> QED
    BY <2>1 DEF ToSet
<1>5. q \in Seq(ToSet(q)) /\ Len(q) = n
  BY <1>2, <1>4
<1>6. \A item \in ToSet(q) : item.open <=> category \in {"manual", "review"}
  <2>1. ASSUME NEW k \in 1 .. n PROVE q[k].open <=> category \in {"manual", "review"}
    BY <1>3, Zenon
  <2> QED
    BY <1>4, <2>1 DEF ToSet
<1>7. {item.finding : item \in ToSet(q)} = ToSet(p)
  <2>1. \A k \in 1 .. n : q[k].finding = p[k]
    BY <1>3
  <2> QED
    BY <1>2, <1>4, <2>1, SMTT(30) DEF ToSet
<1> QED
  BY <1>1, <1>2, <1>5, <1>6, <1>7 DEF n, q

LEMMA JoinedIs ==
  ASSUME NEW A, NEW s \in Seq(A), NEW t \in Seq(A)
  PROVE  /\ s \o t \in Seq(A) /\ Len(s) \in Nat /\ Len(t) \in Nat
         /\ Len(s \o t) = Len(s) + Len(t)
         /\ ToSet(s \o t) = ToSet(s) \cup ToSet(t)
         /\ \A i \in 1 .. Len(s) : (s \o t)[i] = s[i] /\ s[i] \in ToSet(s)
         /\ \A i \in Len(s) + 1 .. Len(s) + Len(t) : (s \o t)[i] \in ToSet(t)
<1>1. \A i \in 1 .. Len(s) : (s \o t)[i] = s[i] /\ s[i] \in ToSet(s)
  BY DEF ToSet
<1>2. ASSUME NEW i \in Len(s) + 1 .. Len(s) + Len(t) PROVE (s \o t)[i] \in ToSet(t)
  <2>1. (s \o t)[i] = t[i - Len(s)] /\ i - Len(s) \in DOMAIN t
    OBVIOUS
  <2> QED
    BY <2>1 DEF ToSet
<1> QED
  BY <1>1, <1>2, AppendedSet

\* The open boxes come first.
LEMMA OpenBoxesFirst ==
  ASSUME NEW A, NEW a \in Seq(A), NEW b \in Seq(A), NEW c \in Seq(A), NEW d \in Seq(A),
         \A item \in ToSet(a) \cup ToSet(b) : item.open,
         \A item \in ToSet(c) \cup ToSet(d) : ~item.open
  PROVE  /\ a \o b \o c \o d \in Seq(A)
         /\ Len(a \o b \o c \o d) = Len(a) + Len(b) + Len(c) + Len(d)
         /\ ToSet(a \o b \o c \o d) = ToSet(a) \cup ToSet(b) \cup ToSet(c) \cup ToSet(d)
         /\ {i \in DOMAIN (a \o b \o c \o d) : (a \o b \o c \o d)[i].open} = 1 .. Len(a) + Len(b)
<1> DEFINE p == a \o b
           r == p \o c
           q == r \o d
<1>1. /\ p \in Seq(A) /\ Len(p) = Len(a) + Len(b) /\ ToSet(p) = ToSet(a) \cup ToSet(b)
      /\ Len(a) \in Nat /\ Len(b) \in Nat
  BY JoinedIs
<1> HIDE DEF p
<1>2. /\ r \in Seq(A) /\ Len(r) = Len(p) + Len(c) /\ ToSet(r) = ToSet(p) \cup ToSet(c) /\ Len(c) \in Nat
      /\ \A i \in 1 .. Len(p) : r[i] = p[i] /\ p[i] \in ToSet(p)
      /\ \A i \in Len(p) + 1 .. Len(p) + Len(c) : r[i] \in ToSet(c)
  BY <1>1, JoinedIs
<1> HIDE DEF r
<1>3. /\ q \in Seq(A) /\ Len(q) = Len(r) + Len(d) /\ ToSet(q) = ToSet(r) \cup ToSet(d) /\ Len(d) \in Nat
      /\ \A i \in 1 .. Len(r) : q[i] = r[i]
      /\ \A i \in Len(r) + 1 .. Len(r) + Len(d) : q[i] \in ToSet(d)
  BY <1>2, JoinedIs
<1> HIDE DEF q
<1>4. DOMAIN q = 1 .. Len(q)
  BY <1>3
<1>5. ASSUME NEW i \in 1 .. Len(q) PROVE q[i].open <=> i \in 1 .. Len(p)
  <2>1. CASE i \in 1 .. Len(p)
    <3>1. i \in 1 .. Len(r)
      BY <1>1, <1>2, <2>1
    <3>2. q[i] \in ToSet(p)
      BY <1>2, <1>3, <2>1, <3>1
    <3> QED
      BY <1>1, <2>1, <3>2
  <2>2. CASE i \in Len(p) + 1 .. Len(r)
    <3>1. i \in 1 .. Len(r) /\ i \in Len(p) + 1 .. Len(p) + Len(c) /\ i \notin 1 .. Len(p)
      BY <1>1, <1>2, <2>2
    <3>2. q[i] \in ToSet(c)
      BY <1>2, <1>3, <3>1
    <3> QED
      BY <3>1, <3>2
  <2>3. CASE i \in Len(r) + 1 .. Len(q)
    <3>1. i \notin 1 .. Len(p) /\ q[i] \in ToSet(d)
      BY <1>1, <1>2, <1>3, <2>3
    <3> QED
      BY <3>1
  <2> QED
    BY <1>1, <1>2, <1>3, <2>1, <2>2, <2>3
<1>6. {i \in DOMAIN q : q[i].open} = 1 .. Len(p)
  <2>1. \A i \in 1 .. Len(p) : i \in 1 .. Len(q)
    BY <1>1, <1>2, <1>3
  <2> QED
    BY <1>4, <1>5, <2>1
<1>7. Len(q) = Len(a) + Len(b) + Len(c) + Len(d)
  BY <1>1, <1>2, <1>3
<1> QED
  BY <1>1, <1>2, <1>3, <1>6, <1>7 DEF q, r, p

LEMMA DisjointCount ==
  ASSUME NEW S, NEW T, IsFiniteSet(S), IsFiniteSet(T), S \cap T = {}
  PROVE  IsFiniteSet(S \cup T) /\ Cardinality(S \cup T) = Cardinality(S) + Cardinality(T)
<1>1. Cardinality(S) \in Nat /\ Cardinality(T) \in Nat
  BY FS_CardinalityType
<1>2. Cardinality(S \cap T) = 0
  BY FS_EmptySet
<1>3. IsFiniteSet(S \cup T)
      /\ Cardinality(S \cup T) = Cardinality(S) + Cardinality(T) - Cardinality(S \cap T)
  BY FS_Union
<1> QED
  BY <1>1, <1>2, <1>3

\* The categories divide the findings.
LEMMA CategoriesCount ==
  ASSUME findings \in Seq(ToSet(findings)), \A f \in ToSet(findings) : f.category \in Categories
  PROVE  /\ Len(findings) = Cardinality(Of("manual")) + Cardinality(Of("review"))
                            + Cardinality(Of("auto")) + Cardinality(Of("drop"))
         /\ DOMAIN findings = Of("manual") \cup Of("review") \cup Of("auto") \cup Of("drop")
<1>1. DOMAIN findings = 1 .. Len(findings) /\ Len(findings) \in Nat
      /\ \A i \in DOMAIN findings : findings[i].category \in Categories
  BY DEF ToSet
<1>2. DOMAIN findings = Of("manual") \cup Of("review") \cup Of("auto") \cup Of("drop")
  BY <1>1 DEF Of, Categories
<1>3. /\ Of("manual") \cap Of("review") = {}
      /\ (Of("manual") \cup Of("review")) \cap Of("auto") = {}
      /\ (Of("manual") \cup Of("review") \cup Of("auto")) \cap Of("drop") = {}
  BY DEF Of
<1>4. \A category : IsFiniteSet(Of(category)) /\ Cardinality(Of(category)) \in Nat
  BY ItemsAre
<1> DEFINE m == Of("manual")
           r == Of("review")
           a == Of("auto")
           d == Of("drop")
<1>5. m \cap r = {} /\ (m \cup r) \cap a = {} /\ (m \cup r \cup a) \cap d = {}
      /\ IsFiniteSet(m) /\ IsFiniteSet(r) /\ IsFiniteSet(a) /\ IsFiniteSet(d)
  BY <1>3, <1>4
<1> HIDE DEF m, r, a, d
<1>6. IsFiniteSet(m \cup r) /\ Cardinality(m \cup r) = Cardinality(m) + Cardinality(r)
  BY <1>5, DisjointCount
<1>7. IsFiniteSet(m \cup r \cup a)
      /\ Cardinality(m \cup r \cup a) = Cardinality(m) + Cardinality(r) + Cardinality(a)
  BY <1>5, <1>6, DisjointCount
<1>8. Cardinality(m \cup r \cup a \cup d)
        = Cardinality(m) + Cardinality(r) + Cardinality(a) + Cardinality(d)
  BY <1>5, <1>7, DisjointCount
<1>9. Cardinality(DOMAIN findings) = Len(findings)
  <2>1. ASSUME NEW n \in Nat PROVE Cardinality(1 .. n) = n
    BY FS_Interval
  <2> QED
    BY <1>1, <2>1
<1> QED
  BY <1>2, <1>8, <1>9 DEF m, r, a, d

\* Every finding has its box, the counts at the top are those of the boxes, and the exit code agrees
\* with the boxes, for every Jenkinsfile (report.py:26-31, 65-79; cli.py:33, 54-57).
THEOREM ExitCodesAgree == Spec => []ExitAgreesWithBoxes
<1>1. AnalyzerInvariant => ExitAgreesWithBoxes
  <2> SUFFICES ASSUME AnalyzerInvariant, step = "done", exit # 1
               PROVE  ExitAgreesWithBoxes
    BY DEF ExitAgreesWithBoxes
  <2>1. Found /\ Told
    BY DEF AnalyzerInvariant, Unread
  <2>2. findings \in Seq(ToSet(findings)) /\ DOMAIN findings = 1 .. Len(findings) /\ Len(findings) \in Nat
    <3>1. findings \in Seq(RuleFindings(cleaned) \cup LibraryFindings(cleaned))
      BY <2>1 DEF Found
    <3>2. DOMAIN findings = 1 .. Len(findings) /\ Len(findings) \in Nat
          /\ \A i \in 1 .. Len(findings) : findings[i] \in ToSet(findings)
      BY <3>1 DEF ToSet
    <3> QED
      BY <3>1, <3>2
  <2>3. \A f \in ToSet(findings) : f.category \in Categories
    <3>1. ASSUME NEW f \in ToSet(findings) PROVE f.category \in Categories
      <4>1. cleaned \in Seq(Cleaned)
        BY FindingIs
      <4>2. CASE f \in LibraryFindings(cleaned)
        BY <4>1, <4>2, LibraryFindingsAre DEF Categories
      <4>3. CASE \E r \in ToSet(Rules) : f \in FindingsOf(r, cleaned)
        BY <4>1, <4>3, FindingsOfAre, RulesAre
      <4> QED
        BY <4>2, <4>3, FindingIs
    <3> QED
      BY <3>1
  <2> DEFINE manual == Items("manual")
             review == Items("review")
             auto == Items("auto")
             drop == Items("drop")
             items == manual \o review \o auto \o drop
             A == ToSet(manual) \cup ToSet(review) \cup ToSet(auto) \cup ToSet(drop)
             count(category) == Cardinality(Of(category))
             open == Cardinality({i \in DOMAIN items : items[i].open})
  <2>4. output.items = items /\ output.summary = Summary
    BY <2>1 DEF Told, Markdown
  <2>5. /\ Summary["manual"] = count("manual") /\ Summary["review"] = count("review")
        /\ Summary["auto"] = count("auto") /\ Summary["drop"] = count("drop")
    BY DEF Summary, Categories, Of
  <2>6. /\ Len(manual) = count("manual") /\ Len(review) = count("review")
        /\ Len(auto) = count("auto") /\ Len(drop) = count("drop")
        /\ count("manual") \in Nat /\ count("review") \in Nat /\ count("auto") \in Nat /\ count("drop") \in Nat
    BY <2>2, ItemsAre
  <2>7. manual \in Seq(A) /\ review \in Seq(A) /\ auto \in Seq(A) /\ drop \in Seq(A)
    <3>1. /\ manual \in Seq(ToSet(manual)) /\ review \in Seq(ToSet(review))
          /\ auto \in Seq(ToSet(auto)) /\ drop \in Seq(ToSet(drop))
      BY <2>2, ItemsAre
    <3> HIDE DEF manual, review, auto, drop
    <3> QED
      BY <3>1
  <2>8. /\ \A item \in ToSet(manual) \cup ToSet(review) : item.open
        /\ \A item \in ToSet(auto) \cup ToSet(drop) : ~item.open
    <3>1. /\ \A item \in ToSet(manual) : item.open
          /\ \A item \in ToSet(review) : item.open
          /\ \A item \in ToSet(auto) : ~item.open
          /\ \A item \in ToSet(drop) : ~item.open
      BY <2>2, ItemsAre
    <3> QED
      BY <3>1
  <2>9. /\ {item.finding : item \in ToSet(manual)} = {findings[i] : i \in Of("manual")}
        /\ {item.finding : item \in ToSet(review)} = {findings[i] : i \in Of("review")}
        /\ {item.finding : item \in ToSet(auto)} = {findings[i] : i \in Of("auto")}
        /\ {item.finding : item \in ToSet(drop)} = {findings[i] : i \in Of("drop")}
    BY <2>2, ItemsAre
  <2>10. /\ Len(findings) = count("manual") + count("review") + count("auto") + count("drop")
         /\ DOMAIN findings = Of("manual") \cup Of("review") \cup Of("auto") \cup Of("drop")
    BY <2>2, <2>3, CategoriesCount
  <2> HIDE DEF manual, review, auto, drop, A
  <2>11. /\ items \in Seq(A)
         /\ Len(items) = Len(manual) + Len(review) + Len(auto) + Len(drop)
         /\ ToSet(items) = A
         /\ {i \in DOMAIN items : items[i].open} = 1 .. Len(manual) + Len(review)
    <3>1. /\ items \in Seq(A)
          /\ Len(items) = Len(manual) + Len(review) + Len(auto) + Len(drop)
          /\ ToSet(items) = ToSet(manual) \cup ToSet(review) \cup ToSet(auto) \cup ToSet(drop)
          /\ {i \in DOMAIN items : items[i].open} = 1 .. Len(manual) + Len(review)
      BY <2>7, <2>8, OpenBoxesFirst, SMTT(30)
    <3> QED
      BY <3>1 DEF A
  <2>12. open = count("manual") + count("review")
    <3>1. \A n \in Nat : Cardinality(1 .. n) = n
      <4>1. ASSUME NEW n \in Nat PROVE Cardinality(1 .. n) = n
        BY FS_Interval
      <4> QED
        BY <4>1
    <3>2. Len(manual) + Len(review) \in Nat
      BY <2>6
    <3> QED
      BY <2>6, <2>11, <3>1, <3>2
  <2> HIDE DEF items, count
  <2>13. {items[i].finding : i \in DOMAIN items} = ToSet(findings)
    <3>1. {items[i].finding : i \in DOMAIN items} = {item.finding : item \in A}
      BY <2>11 DEF ToSet
    <3>2. {item.finding : item \in A}
            = {item.finding : item \in ToSet(manual)} \cup {item.finding : item \in ToSet(review)}
              \cup {item.finding : item \in ToSet(auto)} \cup {item.finding : item \in ToSet(drop)}
      BY DEF A
    <3>3. ToSet(findings)
            = {findings[i] : i \in Of("manual")} \cup {findings[i] : i \in Of("review")}
              \cup {findings[i] : i \in Of("auto")} \cup {findings[i] : i \in Of("drop")}
      BY <2>10 DEF ToSet
    <3> QED
      BY <2>9, <3>1, <3>2, <3>3
  <2>14. exit = IF failOn # "none" /\ \E i \in DOMAIN findings : Reaches(findings[i], failOn)
                THEN 2 ELSE 0
    BY <2>1 DEF Told
  <2>15. \A category : count(category) > 0 <=> \E i \in DOMAIN findings : findings[i].category = category
    <3>1. ASSUME NEW category
          PROVE  count(category) > 0 <=> Of(category) # {}
      <4>1. IsFiniteSet(Of(category)) /\ Cardinality(Of(category)) \in Nat
        BY <2>2, ItemsAre
      <4>2. Cardinality(Of(category)) = 0 <=> Of(category) = {}
        BY <4>1, FS_EmptySet
      <4> QED
        BY <4>1, <4>2 DEF count
    <3> QED
      BY <3>1 DEF Of
  <2>16. \A i \in DOMAIN findings : findings[i].category \in Categories
    BY <2>3 DEF ToSet
  <2>17. failOn = "review" => (exit = 2 <=> open > 0)
    <3>1. ASSUME failOn = "review"
          PROVE  exit = 2 <=> \E i \in DOMAIN findings : findings[i].category \in {"manual", "review"}
      <4>1. \A i \in DOMAIN findings :
               Reaches(findings[i], "review") <=> findings[i].category \in {"manual", "review"}
        BY <2>16 DEF Reaches, Severity, Categories
      <4> QED
        BY <2>14, <3>1, <4>1
    <3> QED
      BY <2>6, <2>12, <2>15, <3>1
  <2>18. failOn = "manual" /\ exit = 2 => open > 0
    <3>1. ASSUME failOn = "manual", exit = 2
          PROVE  \E i \in DOMAIN findings : findings[i].category = "manual"
      <4>1. \A i \in DOMAIN findings : Reaches(findings[i], "manual") <=> findings[i].category = "manual"
        BY <2>16 DEF Reaches, Severity, Categories
      <4> QED
        BY <2>14, <3>1, <4>1
    <3> QED
      BY <2>6, <2>12, <2>15, <3>1
  <2>19. Len(items) = Len(findings)
    BY <2>6, <2>10, <2>11
  <2>20. failOn = "drop" => (exit = 2 <=> items # <<>>)
    <3>1. items # <<>> <=> DOMAIN findings # {}
      BY <2>2, <2>11, <2>19
    <3>2. \A i \in DOMAIN findings : Reaches(findings[i], "drop")
      BY <2>16 DEF Reaches, Severity, Categories
    <3> QED
      BY <2>14, <3>1, <3>2
  <2>21. /\ output.summary["manual"] + output.summary["review"] = open
         /\ output.summary["auto"] + output.summary["drop"] = Len(items) - open
    BY <2>4, <2>5, <2>6, <2>10, <2>12, <2>19
  <2>22. Cardinality({i \in DOMAIN output.items : output.items[i].open}) = open
    BY <2>4
  <2> HIDE DEF open
  <2> QED
    BY <2>4, <2>13, <2>17, <2>18, <2>19, <2>20, <2>21, <2>22 DEF ExitAgreesWithBoxes
<1> QED
  BY <1>1, InvariantAlways, PTL
================================================================================
