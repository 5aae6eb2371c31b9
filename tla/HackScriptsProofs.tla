------------------------- MODULE HackScriptsProofs -------------------------
(***************************************************************************)
(* The invariants of the two scripts.  CrdSchemas: for any schemas, values *)
(* and documents that meet its assumptions.  BackstageSchemas: for any     *)
(* list of schemas, any files, any number of runs and any revisions of     *)
(* upstream's master.                                                      *)
(*                                                                         *)
(* The converter rests on one fact, ConversionAgrees: in the structure of  *)
(* a CRD the strict schema of a node accepts what the server knows and     *)
(* lets pass, and no more if the schema is tight; below a junctor it       *)
(* accepts what the checks let pass, as nothing is closed there.  It goes  *)
(* by the height of a node; so does the existence of the recursive         *)
(* functions it is about.                                                  *)
(*                                                                         *)
(* In the validation three parts carry each other.  RegistryInv:           *)
(* fetch_schemas has registered the first schemas of the list, each once,  *)
(* and all of them when a run judges.  JudgeInv: the sum is zero exactly   *)
(* if the files judged so far are valid.  CacheInv: a cache only runs for  *)
(* the tag have used holds the tag's revision or a cut file.               *)
(***************************************************************************)
EXTENDS HackScripts, FiniteSetTheorems, WellFoundedInduction, TLAPS

-----------------------------------------------------------------------------
(* Induction.  The induction theorems of the library take a predicate; here a  *)
(* set of numbers stands for it.                                               *)

\* A set of natural numbers has a least element: the end of the shortest interval 1..n.
LEMMA Least ==
  ASSUME NEW S \in SUBSET Nat, S # {}
  PROVE  \E m \in S : \A k \in S : m <= k
<1> DEFINE Intervals == {1 .. n : n \in S}
<1>1. Intervals \subseteq FiniteSubsetsOf(Nat) /\ Intervals # {}
  <2>1. \A n \in S : IsFiniteSet(1 .. n) /\ 1 .. n \subseteq Nat
    BY FS_Interval
  <2> QED
    BY <2>1 DEF FiniteSubsetsOf
<1>2. IsWellFoundedOn(StrictSubsetOrdering(Nat), FiniteSubsetsOf(Nat))
  BY FS_StrictSubsetOrderingWellFounded
<1>3. PICK I \in Intervals : \A J \in Intervals : <<J, I>> \notin StrictSubsetOrdering(Nat)
  <2> HIDE DEF Intervals
  <2> QED
    BY <1>1, <1>2, WFMin
<1>4. PICK m \in S : I = 1 .. m
  BY <1>3
<1>5. ASSUME NEW k \in S, k < m PROVE FALSE
  <2>1. 1 .. k \in Intervals /\ 1 .. k \subseteq 1 .. m /\ m \in 1 .. m /\ m \notin 1 .. k
    BY <1>5
  <2>2. <<1 .. k, 1 .. m>> \in StrictSubsetOrdering(Nat)
    BY <2>1 DEF StrictSubsetOrdering
  <2> QED
    BY <1>3, <1>4, <2>1, <2>2
<1> QED
  BY <1>5

LEMMA Induction ==
  ASSUME NEW a \in Nat, NEW b \in Nat, NEW S, a \in S,
         \A k \in a .. b - 1 : k \in S => k + 1 \in S
  PROVE  \A k \in a .. b : k \in S
<1> DEFINE Bad == {k \in a .. b : k \notin S}
<1>1. SUFFICES ASSUME Bad # {} PROVE FALSE
  OBVIOUS
<1>2. PICK m \in Bad : \A k \in Bad : m <= k
  BY <1>1, Least, Bad \in SUBSET Nat
<1>3. m - 1 \in a .. b - 1 /\ m - 1 \notin Bad
  BY <1>2
<1> QED
  BY <1>2, <1>3

-----------------------------------------------------------------------------
(* Recursion over schemas: the nodes by height, and what every recursive      *)
(* function of the model is at a node.                                        *)
Height == Len(Levels)
Lower(i) == UNION {Levels[j] : j \in 1 .. i}
Below(node) == Shape(node) \cup Checks(node)

\* The nodes by height: none below the first set, all at the top, and what lies below a node
\* lies below its height.
LEMMA LowerSets ==
  /\ Height \in Nat /\ Lower(0) = {} /\ Lower(Height) = Nodes
  /\ \A i \in 0 .. Height : Lower(i) \subseteq Nodes
  /\ \A i \in 0 .. Height - 1 : \A node \in Lower(i + 1) : Below(node) \subseteq Lower(i)
<1>1. Height \in Nat /\ DOMAIN Levels = 1 .. Height /\ \A i \in 1 .. Height : Levels[i] \subseteq Nodes
  BY NodesAssumption DEF Height
<1>2. Lower(0) = {}
  BY DEF Lower
<1>3. Lower(Height) = Nodes
  BY <1>1 DEF Lower, Nodes, Range
<1>4. \A i \in 0 .. Height : Lower(i) \subseteq Nodes
  BY <1>1 DEF Lower
<1>5. ASSUME NEW i \in 0 .. Height - 1, NEW node \in Lower(i + 1) PROVE Below(node) \subseteq Lower(i)
  <2>1. PICK j \in 1 .. i + 1 : node \in Levels[j]
    BY DEF Lower
  <2>2. j \in DOMAIN Levels
    BY <1>1
  <2>3. Below(node) \subseteq UNION {Levels[k] : k \in 1 .. j - 1}
    BY <2>1, <2>2, NodesAssumption DEF Below
  <2>4. \A k \in 1 .. j - 1 : k \in 1 .. i
    BY <1>1
  <2> QED
    BY <2>3, <2>4 DEF Lower
<1> QED
  BY <1>1, <1>2, <1>3, <1>4, <1>5

\* What a node becomes depends on what the nodes below it become.
LEMMA ConvertedFromBelow ==
  ASSUME NEW node, NEW f, NEW g, \A c \in Below(node) : f[c] = g[c]
  PROVE  Converted(node, f) = Converted(node, g)
<1>1. ASSUME NEW key \in DOMAIN node \ Extensions PROVE ConvertedValue(node, f, key) = ConvertedValue(node, g, key)
  <2>1. CASE key = "properties"
    <3>1. \A x \in Named(node) : f[node[key][x]] = g[node[key][x]]
      BY <2>1 DEF Below, Shape
    <3> QED
      BY <2>1, <3>1 DEF ConvertedValue, Junctors
  <2>2. CASE key \in {"items", "additionalProperties", "not"}
    <3>1. f[node[key]] = g[node[key]]
      BY <2>2 DEF Below, Shape, Checks
    <3> QED
      BY <2>2, <3>1 DEF ConvertedValue, Junctors
  <2>3. CASE key \in Junctors
    <3>1. \A i \in DOMAIN node[key] : f[node[key][i]] = g[node[key][i]]
      BY <2>3 DEF Below, Checks, Range
    <3> QED
      BY <2>3, <3>1 DEF ConvertedValue, Junctors
  <2>4. CASE key \notin {"properties", "items", "additionalProperties", "not"} \cup Junctors
    BY <2>4 DEF ConvertedValue
  <2> QED
    BY <2>1, <2>2, <2>3, <2>4
<1>2. [key \in DOMAIN node \ Extensions |-> ConvertedValue(node, f, key)]
      = [key \in DOMAIN node \ Extensions |-> ConvertedValue(node, g, key)]
  BY <1>1
<1> QED
  BY <1>2 DEF Converted

\* The converter is a function on the nodes: it ends on every schema.
LEMMA ToJsonSchema ==
  to_json_schema = [node \in Nodes |-> Converted(node, to_json_schema)]
<1> DEFINE Defines(f, i) == f = [node \in Lower(i) |-> Converted(node, f)]
           Defined == {i \in 0 .. Height : \E f : Defines(f, i)}
<1>1. 0 \in Defined
  <2>1. Defines([node \in Lower(0) |-> node], 0)
    BY LowerSets
  <2> HIDE DEF Defines
  <2> QED
    BY <2>1, LowerSets
<1>2. ASSUME NEW i \in 0 .. Height - 1, i \in Defined PROVE i + 1 \in Defined
  <2>1. PICK f : Defines(f, i)
    BY <1>2
  <2> DEFINE g == [node \in Lower(i + 1) |-> Converted(node, f)]
  <2>2. ASSUME NEW node \in Lower(i + 1) PROVE Converted(node, f) = Converted(node, g)
    <3>1. ASSUME NEW c \in Below(node) PROVE f[c] = g[c]
      <4>1. c \in Lower(i) /\ c \in Lower(i + 1)
        BY LowerSets DEF Lower
      <4> QED
        BY <4>1, <2>1
    <3> HIDE DEF g
    <3> QED
      BY <3>1, ConvertedFromBelow
  <2>3. Defines(g, i + 1)
    BY <2>2
  <2>4. i + 1 \in 0 .. Height
    BY LowerSets
  <2> HIDE DEF Defines
  <2> QED
    BY <2>3, <2>4
<1>3. Height \in Defined
  <2> HIDE DEF Defined
  <2> QED
    BY <1>1, <1>2, LowerSets, Induction
<1>4. \E f : f = [node \in Nodes |-> Converted(node, f)]
  BY <1>3, LowerSets
<1> QED
  BY <1>4 DEF to_json_schema

\* Whether a schema fits a value depends on what those below it say.
LEMMA FitsFromBelow ==
  ASSUME NEW js, NEW v, NEW f, NEW g, \A c \in Below(js) : f[c] = g[c]
  PROVE  /\ Fits(js, f, v) = Fits(js, g, v)
         /\ ItemsFit(js, f, v) <=> ItemsFit(js, g, v)
<1>1. FieldsFit(js, f, v) <=> FieldsFit(js, g, v)
  <2>1. \A x \in Named(js) : f[js["properties"][x]] = g[js["properties"][x]]
    BY DEF Below, Shape
  <2>2. Has(js, "additionalProperties") => f[js["additionalProperties"]] = g[js["additionalProperties"]]
    BY DEF Below, Shape, Has
  <2> QED
    BY <2>1, <2>2 DEF FieldsFit
<1>2. ItemsFit(js, f, v) <=> ItemsFit(js, g, v)
  <2>1. Has(js, "items") => f[js["items"]] = g[js["items"]]
    BY DEF Below, Shape, Has
  <2> QED
    BY <2>1 DEF ItemsFit
<1>3. ChecksHold(js, f, v) <=> ChecksHold(js, g, v)
  <2>1. Has(js, "not") => f[js["not"]] = g[js["not"]]
    BY DEF Below, Checks, Has
  <2>2. \A key \in Junctors : Has(js, key) => \A i \in DOMAIN js[key] : f[js[key][i]] = g[js[key][i]]
    BY DEF Below, Checks, Has, Range
  <2>3. \A key \in {"allOf", "anyOf", "oneOf"} :
          Has(js, key) => \A i \in DOMAIN js[key] : f[js[key][i]] = g[js[key][i]]
    BY <2>2 DEF Junctors
  <2> QED
    BY <2>1, <2>3 DEF ChecksHold
<1> QED
  BY <1>1, <1>2, <1>3 DEF Fits

\* The two passes of the server are functions on the nodes and values.
LEMMA KnownIs ==
  Known = [node \in Nodes |-> [v \in Values |-> KnownGiven(node, Known, v)]]
<1> DEFINE Defines(f, i) == f = [node \in Lower(i) |-> [v \in Values |-> KnownGiven(node, f, v)]]
           Defined == {i \in 0 .. Height : \E f : Defines(f, i)}
<1>1. 0 \in Defined
  <2>1. Defines([node \in Lower(0) |-> node], 0)
    BY LowerSets
  <2> HIDE DEF Defines
  <2> QED
    BY <2>1, LowerSets
<1>2. ASSUME NEW i \in 0 .. Height - 1, i \in Defined PROVE i + 1 \in Defined
  <2>1. PICK f : Defines(f, i)
    BY <1>2
  <2> DEFINE g == [node \in Lower(i + 1) |-> [v \in Values |-> KnownGiven(node, f, v)]]
  <2>2. ASSUME NEW node \in Lower(i + 1), NEW v \in Values
        PROVE  KnownGiven(node, f, v) = KnownGiven(node, g, v)
    <3>1. ASSUME NEW c \in Below(node) PROVE f[c] = g[c]
      <4>1. c \in Lower(i) /\ c \in Lower(i + 1)
        BY LowerSets DEF Lower
      <4> QED
        BY <4>1, <2>1
    <3> HIDE DEF g
    <3>2. ItemsFit(node, f, v) <=> ItemsFit(node, g, v)
      BY <3>1, FitsFromBelow
    <3>3. \A x \in Named(node) : f[node["properties"][x]] = g[node["properties"][x]]
      BY <3>1 DEF Below, Shape
    <3>4. Has(node, "additionalProperties") =>
            f[node["additionalProperties"]] = g[node["additionalProperties"]]
      BY <3>1 DEF Below, Shape, Has
    <3> QED
      BY <3>2, <3>3, <3>4 DEF KnownGiven
  <2>3. Defines(g, i + 1)
    <3>1. \A node \in Lower(i + 1) :
            [v \in Values |-> KnownGiven(node, f, v)] = [v \in Values |-> KnownGiven(node, g, v)]
      BY <2>2
    <3> HIDE DEF g
    <3>2. g = [node \in Lower(i + 1) |-> [v \in Values |-> KnownGiven(node, g, v)]]
      BY <3>1 DEF g
    <3> QED
      BY <3>2
  <2>4. i + 1 \in 0 .. Height
    BY LowerSets
  <2> HIDE DEF Defines
  <2> QED
    BY <2>3, <2>4
<1>3. Height \in Defined
  <2> HIDE DEF Defined
  <2> QED
    BY <1>1, <1>2, LowerSets, Induction
<1>4. \E f : f = [node \in Nodes |-> [v \in Values |-> KnownGiven(node, f, v)]]
  BY <1>3, LowerSets
<1> QED
  BY <1>4 DEF Known

LEMMA SatisfiedIs ==
  Satisfied = [node \in Nodes |-> [v \in Values |-> SatisfiedGiven(node, Satisfied, v)]]
<1> DEFINE Defines(f, i) == f = [node \in Lower(i) |-> [v \in Values |-> SatisfiedGiven(node, f, v)]]
           Defined == {i \in 0 .. Height : \E f : Defines(f, i)}
<1>1. 0 \in Defined
  <2>1. Defines([node \in Lower(0) |-> node], 0)
    BY LowerSets
  <2> HIDE DEF Defines
  <2> QED
    BY <2>1, LowerSets
<1>2. ASSUME NEW i \in 0 .. Height - 1, i \in Defined PROVE i + 1 \in Defined
  <2>1. PICK f : Defines(f, i)
    BY <1>2
  <2> DEFINE g == [node \in Lower(i + 1) |-> [v \in Values |-> SatisfiedGiven(node, f, v)]]
  <2>2. ASSUME NEW node \in Lower(i + 1), NEW v \in Values
        PROVE  SatisfiedGiven(node, f, v) = SatisfiedGiven(node, g, v)
    <3>1. ASSUME NEW c \in Below(node) PROVE f[c] = g[c]
      <4>1. c \in Lower(i) /\ c \in Lower(i + 1)
        BY LowerSets DEF Lower
      <4> QED
        BY <4>1, <2>1
    <3> HIDE DEF g
    <3> QED
      BY <3>1, FitsFromBelow DEF SatisfiedGiven
  <2>3. Defines(g, i + 1)
    <3>1. \A node \in Lower(i + 1) :
            [v \in Values |-> SatisfiedGiven(node, f, v)] = [v \in Values |-> SatisfiedGiven(node, g, v)]
      BY <2>2
    <3> HIDE DEF g
    <3>2. g = [node \in Lower(i + 1) |-> [v \in Values |-> SatisfiedGiven(node, g, v)]]
      BY <3>1 DEF g
    <3> QED
      BY <3>2
  <2>4. i + 1 \in 0 .. Height
    BY LowerSets
  <2> HIDE DEF Defines
  <2> QED
    BY <2>3, <2>4
<1>3. Height \in Defined
  <2> HIDE DEF Defined
  <2> QED
    BY <1>1, <1>2, LowerSets, Induction
<1>4. \E f : f = [node \in Nodes |-> [v \in Values |-> SatisfiedGiven(node, f, v)]]
  BY <1>3, LowerSets
<1> QED
  BY <1>4 DEF Satisfied

LEMMA TightIs ==
  Tight = [node \in Nodes |-> TightGiven(node, Tight)]
<1> DEFINE Defines(f, i) == f = [node \in Lower(i) |-> TightGiven(node, f)]
           Defined == {i \in 0 .. Height : \E f : Defines(f, i)}
<1>1. 0 \in Defined
  <2>1. Defines([node \in Lower(0) |-> node], 0)
    BY LowerSets
  <2> HIDE DEF Defines
  <2> QED
    BY <2>1, LowerSets
<1>2. ASSUME NEW i \in 0 .. Height - 1, i \in Defined PROVE i + 1 \in Defined
  <2>1. PICK f : Defines(f, i)
    BY <1>2
  <2> DEFINE g == [node \in Lower(i + 1) |-> TightGiven(node, f)]
  <2>2. ASSUME NEW node \in Lower(i + 1) PROVE TightGiven(node, f) = TightGiven(node, g)
    <3>1. ASSUME NEW c \in Below(node) PROVE f[c] = g[c]
      <4>1. c \in Lower(i) /\ c \in Lower(i + 1)
        BY LowerSets DEF Lower
      <4> QED
        BY <4>1, <2>1
    <3> HIDE DEF g
    <3>2. \A c \in Shape(node) : f[c] = g[c]
      BY <3>1 DEF Below
    <3> QED
      BY <3>2 DEF TightGiven
  <2>3. Defines(g, i + 1)
    BY <2>2
  <2>4. i + 1 \in 0 .. Height
    BY LowerSets
  <2> HIDE DEF Defines
  <2> QED
    BY <2>3, <2>4
<1>3. Height \in Defined
  <2> HIDE DEF Defined
  <2> QED
    BY <1>1, <1>2, LowerSets, Induction
<1>4. \E f : f = [node \in Nodes |-> TightGiven(node, f)]
  BY <1>3, LowerSets
<1> QED
  BY <1>4 DEF Tight

-----------------------------------------------------------------------------
(* Keyword by keyword, what becomes of a node. *)
Conv(node) == to_json_schema[node]

\* The value of each keyword, converted.
LEMMA ConvertedValues ==
  ASSUME NEW node
  PROVE  /\ ConvertedValue(node, to_json_schema, "properties")
            = [f \in Named(node) |-> Conv(node["properties"][f])]
         /\ \A key \in {"items", "additionalProperties", "not"} :
              ConvertedValue(node, to_json_schema, key) = Conv(node[key])
         /\ \A key \in Junctors :
              ConvertedValue(node, to_json_schema, key) = [i \in DOMAIN node[key] |-> Conv(node[key][i])]
         /\ \A key \in {"type", "required", "bool"} :
              ConvertedValue(node, to_json_schema, key) = node[key]
BY DEF ConvertedValue, Junctors, Conv

\* A boolean schema stays as it is.
LEMMA BooleanStays ==
  ASSUME NEW node \in Nodes, IsBool(node)
  PROVE  IsBool(Conv(node)) /\ Conv(node)["bool"] = node["bool"] /\ node["bool"] \in BOOLEAN
<1>1. Conv(node) = Converted(node, to_json_schema)
  BY ToJsonSchema DEF Conv
<1>2. Conv(node) = [key \in {"bool"} |-> node["bool"]]
  <2>1. DOMAIN node \ Extensions = {"bool"}
    BY DEF IsBool, Extensions, Preserve, IntOrString, Rules
  <2>2. ConvertedValue(node, to_json_schema, "bool") = node["bool"]
    BY DEF ConvertedValue, Junctors
  <2>3. ~IsTrue(node, IntOrString) /\ \A out : DOMAIN out = {"bool"} => ~Closes(node, out)
    BY DEF IsBool, IsTrue, Has, IntOrString, Closes
  <2> QED
    BY <1>1, <2>1, <2>2, <2>3 DEF Converted
<1> QED
  BY <1>2, NodesAssumption DEF IsBool

\* The keywords of a converted node: those of the node, but for the extensions, for the type and
\* the oneOf of an int-or-string, and for the additionalProperties that close an object.
LEMMA ConvertedNode ==
  ASSUME NEW node \in Nodes, ~IsBool(node)
  PROVE  /\ DOMAIN Conv(node) \subseteq Keywords \ Extensions
         /\ \A key \in {"required", "properties", "items", "not", "allOf", "anyOf"} :
              /\ Has(Conv(node), key) <=> Has(node, key)
              /\ Has(node, key) => Conv(node)[key] = ConvertedValue(node, to_json_schema, key)
         /\ IF IsTrue(node, IntOrString)
            THEN /\ ~Has(Conv(node), "type")
                 /\ Has(Conv(node), "oneOf") /\ Conv(node)["oneOf"] = <<Text, Integer>>
            ELSE \A key \in {"type", "oneOf"} :
              /\ Has(Conv(node), key) <=> Has(node, key)
              /\ Has(node, key) => Conv(node)[key] = ConvertedValue(node, to_json_schema, key)
         /\ IF Has(node, "additionalProperties")
            THEN /\ Has(Conv(node), "additionalProperties")
                 /\ Conv(node)["additionalProperties"] = to_json_schema[node["additionalProperties"]]
            ELSE /\ Has(Conv(node), "additionalProperties") <=>
                      /\ ~IsTrue(node, IntOrString) /\ ~IsTrue(node, Preserve)
                      /\ Has(node, "type") /\ node["type"] = "object" /\ Has(node, "properties")
                 /\ Has(Conv(node), "additionalProperties") =>
                      Conv(node)["additionalProperties"] = Nothing
<1> DEFINE out   == [key \in DOMAIN node \ Extensions |-> ConvertedValue(node, to_json_schema, key)]
           typed == IF IsTrue(node, IntOrString)
                    THEN With(Without(out, {"type"}), "oneOf", <<Text, Integer>>) ELSE out
<1>1. Conv(node) = IF Closes(node, typed) THEN With(typed, "additionalProperties", Nothing) ELSE typed
  BY ToJsonSchema DEF Conv, Converted
<1>2. DOMAIN node \subseteq Keywords
  BY NodesAssumption
<1>3. /\ DOMAIN out \subseteq Keywords \ Extensions
      /\ \A key \in Keywords \ Extensions :
           /\ Has(out, key) <=> Has(node, key)
           /\ Has(node, key) => out[key] = ConvertedValue(node, to_json_schema, key)
  BY <1>2 DEF Has
<1> HIDE DEF out
<1>4. /\ DOMAIN typed \subseteq Keywords \ Extensions
      /\ \A key \in Keywords \ (Extensions \cup {"type", "oneOf"}) :
           /\ Has(typed, key) <=> Has(node, key)
           /\ Has(node, key) => typed[key] = ConvertedValue(node, to_json_schema, key)
      /\ IF IsTrue(node, IntOrString)
         THEN ~Has(typed, "type") /\ Has(typed, "oneOf") /\ typed["oneOf"] = <<Text, Integer>>
         ELSE \A key \in {"type", "oneOf"} :
                /\ Has(typed, key) <=> Has(node, key)
                /\ Has(node, key) => typed[key] = ConvertedValue(node, to_json_schema, key)
  <2>0. {"type", "oneOf"} \subseteq Keywords \ Extensions
    BY DEF Keywords, Junctors, Extensions, Preserve, IntOrString, Rules
  <2>1. CASE IsTrue(node, IntOrString)
    BY <1>3, <2>0, <2>1 DEF With, Without, Has
  <2>2. CASE ~IsTrue(node, IntOrString)
    BY <1>3, <2>0, <2>2
  <2> QED
    BY <2>1, <2>2
<1> HIDE DEF typed
<1>5. ConvertedValue(node, to_json_schema, "type") = node["type"]
      /\ ConvertedValue(node, to_json_schema, "additionalProperties")
         = to_json_schema[node["additionalProperties"]]
  BY DEF ConvertedValue, Junctors
<1>6. Closes(node, typed) <=>
        /\ ~IsTrue(node, IntOrString) /\ ~IsTrue(node, Preserve)
        /\ Has(node, "type") /\ node["type"] = "object" /\ Has(node, "properties")
        /\ ~Has(node, "additionalProperties")
  <2>1. {"properties", "additionalProperties"} \subseteq Keywords \ (Extensions \cup {"type", "oneOf"})
    BY DEF Keywords, Junctors, Extensions, Preserve, IntOrString, Rules
  <2> QED
    BY <1>4, <1>5, <2>1 DEF Closes
<1>7. {"required", "properties", "items", "not", "allOf", "anyOf", "additionalProperties"}
      \subseteq Keywords \ (Extensions \cup {"type", "oneOf"})
  BY DEF Keywords, Junctors, Extensions, Preserve, IntOrString, Rules
<1>8. CASE Closes(node, typed)
  <2>1. /\ DOMAIN Conv(node) = DOMAIN typed \cup {"additionalProperties"}
        /\ \A key \in DOMAIN typed : key # "additionalProperties" => Conv(node)[key] = typed[key]
        /\ Conv(node)["additionalProperties"] = Nothing
    BY <1>1, <1>8 DEF With
  <2>2. "additionalProperties" \in Keywords \ Extensions
    BY <1>7
  <2> QED
    BY <1>4, <1>6, <1>7, <1>8, <2>1, <2>2 DEF Has
<1>9. CASE ~Closes(node, typed)
  <2>1. Conv(node) = typed
    BY <1>1, <1>9
  <2> QED
    BY <1>4, <1>5, <1>6, <1>7, <1>9, <2>1 DEF Has
<1> QED
  BY <1>8, <1>9

\* The schemas the code adds.
Added == {Text, Integer, Nothing}
JsonLower(i) == {Conv(node) : node \in Lower(i)} \cup Added

\* A schema with a type alone, and a boolean one, have nothing below them.
LEMMA Leaf ==
  ASSUME NEW node, DOMAIN node \in {{"type"}, {"bool"}}
  PROVE  Below(node) = {}
<1>1. Named(node) = {} /\ DOMAIN node \cap {"items", "additionalProperties"} = {}
      /\ DOMAIN node \cap {"not"} = {} /\ DOMAIN node \cap Junctors = {}
  BY DEF Named, Has, Junctors
<1> QED
  BY <1>1 DEF Below, Shape, Checks

\* So it is with those the code adds.
LEMMA AddedAreLeaves ==
  \A js \in Added : Below(js) = {}
<1>1. DOMAIN Text = {"type"} /\ DOMAIN Integer = {"type"} /\ DOMAIN Nothing = {"bool"}
  BY DEF Text, Integer, Nothing
<1> QED
  BY <1>1, Leaf DEF Added

\* What lies below a converted node: the nodes below it, converted, and what the code adds.
LEMMA BelowConverted ==
  ASSUME NEW node \in Nodes
  PROVE  Below(Conv(node)) \subseteq {Conv(c) : c \in Below(node)} \cup Added
<1> DEFINE Js == Conv(node)
           Target == {Conv(c) : c \in Below(node)} \cup Added
<1>1. CASE IsBool(node)
  <2>1. DOMAIN Js = {"bool"}
    BY <1>1, BooleanStays DEF IsBool
  <2> QED
    BY <2>1, Leaf
<1>2. CASE ~IsBool(node)
  <2>1. \A f \in Named(Js) : Js["properties"][f] \in Target
    <3>1. CASE Has(Js, "properties")
      <4>1. Has(node, "properties") /\ Js["properties"] = [f \in Named(node) |-> Conv(node["properties"][f])]
        BY <1>2, <3>1, ConvertedNode, ConvertedValues
      <4>2. \A f \in Named(node) : node["properties"][f] \in Below(node)
        BY DEF Below, Shape
      <4> QED
        BY <3>1, <4>1, <4>2 DEF Named
    <3> QED
      BY <3>1 DEF Named
  <2>2. \A key \in {"items", "not"} : Has(Js, key) => Js[key] \in Target
    <3>1. \A key \in {"items", "not"} :
            Has(Js, key) => Has(node, key) /\ Js[key] = Conv(node[key])
      BY <1>2, ConvertedNode, ConvertedValues
    <3>2. \A key \in {"items", "not"} : Has(node, key) => node[key] \in Below(node)
      BY DEF Below, Shape, Checks, Has
    <3> QED
      BY <3>1, <3>2
  <2>3. Has(Js, "additionalProperties") => Js["additionalProperties"] \in Target
    <3>1. Has(node, "additionalProperties") => node["additionalProperties"] \in Below(node)
      BY DEF Below, Shape, Has
    <3> QED
      BY <1>2, <3>1, ConvertedNode DEF Conv, Added
  <2>4. \A key \in Junctors : Has(Js, key) => Range(Js[key]) \subseteq Target
    <3>1. ASSUME NEW key \in Junctors, Has(Js, key),
                 Has(node, key) /\ Js[key] = ConvertedValue(node, to_json_schema, key)
          PROVE  Range(Js[key]) \subseteq Target
      <4>1. Js[key] = [i \in DOMAIN node[key] |-> Conv(node[key][i])]
        BY <3>1, ConvertedValues
      <4>2. \A i \in DOMAIN node[key] : node[key][i] \in Below(node)
        BY <3>1 DEF Below, Checks, Has, Range
      <4> QED
        BY <4>1, <4>2 DEF Range
    <3>2. Range(<<Text, Integer>>) \subseteq Target
      BY DEF Range, Added
    <3> QED
      BY <1>2, <3>1, <3>2, ConvertedNode DEF Junctors
  <2> HIDE DEF Js, Target
  <2>5. Shape(Js) \subseteq Target
    BY <2>1, <2>2, <2>3 DEF Shape, Has
  <2>6. Checks(Js) \subseteq Target
    BY <2>2, <2>4 DEF Checks, Has
  <2> QED
    BY <2>5, <2>6 DEF Below, Js, Target
<1> QED
  BY <1>1, <1>2

\* The JSON schemas by height, as LowerSets has it for the nodes.
LEMMA JsonLowerSets ==
  /\ JsonLower(Height) = JsonNodes
  /\ \A i \in 0 .. Height : JsonLower(i) \subseteq JsonNodes
  /\ \A js \in JsonLower(0) : Below(js) = {}
  /\ \A i \in 0 .. Height - 1 : \A js \in JsonLower(i + 1) : Below(js) \subseteq JsonLower(i)
  /\ \A i \in 0 .. Height - 1 : JsonLower(i) \subseteq JsonLower(i + 1)
<1>1. JsonLower(Height) = JsonNodes /\ \A i \in 0 .. Height : JsonLower(i) \subseteq JsonNodes
  BY LowerSets DEF JsonLower, JsonNodes, Conv, Added
<1>2. \A js \in JsonLower(0) : Below(js) = {}
  BY LowerSets, AddedAreLeaves DEF JsonLower
<1>3. ASSUME NEW i \in 0 .. Height - 1, NEW js \in JsonLower(i + 1)
      PROVE  Below(js) \subseteq JsonLower(i)
  <2>1. CASE js \in Added
    BY <2>1, AddedAreLeaves
  <2>2. ASSUME NEW node \in Lower(i + 1), js = Conv(node) PROVE Below(js) \subseteq JsonLower(i)
    <3>1. node \in Nodes /\ Below(node) \subseteq Lower(i)
      BY LowerSets
    <3> QED
      BY <2>2, <3>1, BelowConverted DEF JsonLower
  <2> QED
    BY <2>1, <2>2 DEF JsonLower
<1>4. \A i \in 0 .. Height - 1 : Lower(i) \subseteq Lower(i + 1)
  BY LowerSets DEF Lower
<1> QED
  BY <1>1, <1>2, <1>3, <1>4 DEF JsonLower

\* What a JSON schema accepts is a function on the schemas and values.
LEMMA AcceptsIs ==
  Accepts = [js \in JsonNodes |-> [v \in Values |-> Fits(js, Accepts, v)]]
<1> DEFINE Defines(f, i) == f = [js \in JsonLower(i) |-> [v \in Values |-> Fits(js, f, v)]]
           Defined == {i \in 0 .. Height : \E f : Defines(f, i)}
<1>1. 0 \in Defined
  <2> DEFINE g == [js \in JsonLower(0) |-> [v \in Values |-> Fits(js, <<>>, v)]]
  <2>1. \A js \in JsonLower(0), v \in Values : Fits(js, <<>>, v) = Fits(js, g, v)
    <3> HIDE DEF g
    <3> QED
      BY JsonLowerSets, FitsFromBelow
  <2>2. Defines(g, 0)
    <3>1. \A js \in JsonLower(0) :
            [v \in Values |-> Fits(js, <<>>, v)] = [v \in Values |-> Fits(js, g, v)]
      BY <2>1
    <3> HIDE DEF g
    <3>2. g = [js \in JsonLower(0) |-> [v \in Values |-> Fits(js, g, v)]]
      BY <3>1 DEF g
    <3> QED
      BY <3>2
  <2> HIDE DEF Defines
  <2> QED
    BY <2>2, LowerSets
<1>2. ASSUME NEW i \in 0 .. Height - 1, i \in Defined PROVE i + 1 \in Defined
  <2>1. PICK f : Defines(f, i)
    BY <1>2
  <2> DEFINE g == [js \in JsonLower(i + 1) |-> [v \in Values |-> Fits(js, f, v)]]
  <2>2. ASSUME NEW js \in JsonLower(i + 1), NEW v \in Values
        PROVE  Fits(js, f, v) = Fits(js, g, v)
    <3>1. ASSUME NEW c \in Below(js) PROVE f[c] = g[c]
      <4>1. c \in JsonLower(i) /\ c \in JsonLower(i + 1)
        BY JsonLowerSets
      <4> QED
        BY <4>1, <2>1
    <3> HIDE DEF g
    <3> QED
      BY <3>1, FitsFromBelow
  <2>3. Defines(g, i + 1)
    <3>1. \A js \in JsonLower(i + 1) :
            [v \in Values |-> Fits(js, f, v)] = [v \in Values |-> Fits(js, g, v)]
      BY <2>2
    <3> HIDE DEF g
    <3>2. g = [js \in JsonLower(i + 1) |-> [v \in Values |-> Fits(js, g, v)]]
      BY <3>1 DEF g
    <3> QED
      BY <3>2
  <2>4. i + 1 \in 0 .. Height
    BY LowerSets
  <2> HIDE DEF Defines
  <2> QED
    BY <2>3, <2>4
<1>3. Height \in Defined
  <2> HIDE DEF Defined
  <2> QED
    BY <1>1, <1>2, LowerSets, Induction
<1>4. \E f : f = [js \in JsonNodes |-> [v \in Values |-> Fits(js, f, v)]]
  BY <1>3, JsonLowerSets
<1> QED
  BY <1>4 DEF Accepts

-----------------------------------------------------------------------------
(* The strict schema of a node against what the server reads in it. *)

\* The three functions, at a node and a value.
LEMMA AtAValue ==
  ASSUME NEW v \in Values
  PROVE  /\ \A js \in JsonNodes : Accepts[js][v] <=> Fits(js, Accepts, v)
         /\ \A node \in Nodes : /\ Conv(node) \in JsonNodes
                                /\ Known[node][v] <=> KnownGiven(node, Known, v)
                                /\ Satisfied[node][v] <=> SatisfiedGiven(node, Satisfied, v)
                                /\ Tight[node] <=> TightGiven(node, Tight)
<1>1. \A js \in JsonNodes : Accepts[js][v] <=> Fits(js, Accepts, v)
  BY AcceptsIs
<1>2. ASSUME NEW node \in Nodes
      PROVE  /\ Conv(node) \in JsonNodes
             /\ Known[node][v] <=> KnownGiven(node, Known, v)
             /\ Satisfied[node][v] <=> SatisfiedGiven(node, Satisfied, v)
  BY KnownIs, SatisfiedIs DEF JsonNodes, Conv
<1>3. ASSUME NEW node \in Nodes PROVE Tight[node] = TightGiven(node, Tight)
  <2> DEFINE G(n) == TightGiven(n, Tight)
  <2>1. Tight = [n \in Nodes |-> G(n)]
    BY TightIs
  <2> HIDE DEF G
  <2>2. Tight[node] = G(node)
    BY <2>1
  <2> QED
    BY <2>2 DEF G
<1> QED
  BY <1>1, <1>2, <1>3

\* The two types line 56 puts in the place of the extension.
LEMMA AcceptsAType ==
  ASSUME NEW v \in Values
  PROVE  (Accepts[Text][v] <=> v.type = "string") /\ (Accepts[Integer][v] <=> v.type = "integer")
<1>1. ASSUME NEW t, NEW js \in JsonNodes, js = [type |-> t] PROVE Accepts[js][v] <=> v.type = t
  <2>1. \A key : Has(js, key) <=> key = "type"
    BY <1>1 DEF Has
  <2>2. ~IsBool(js) /\ js["type"] = t
    BY <1>1 DEF IsBool
  <2>3. FieldsFit(js, Accepts, v) /\ ItemsFit(js, Accepts, v) /\ ChecksHold(js, Accepts, v)
    BY <2>1 DEF FieldsFit, ItemsFit, ChecksHold, Named
  <2>4. Fits(js, Accepts, v) <=> v.type = t
    BY <2>1, <2>2, <2>3 DEF Fits
  <2> QED
    BY <2>4, AtAValue
<1>2. Text \in JsonNodes /\ Integer \in JsonNodes
  BY DEF JsonNodes
<1> QED
  BY <1>1, <1>2 DEF Text, Integer

\* Under junctors the conversion changes nothing that a value could tell.
LEMMA ChecksAgree ==
  ASSUME NEW node \in Nodes, ~IsBool(node), NEW v \in Values,
         \A c \in Checks(node) : Accepts[Conv(c)][v] <=> Satisfied[c][v],
         IsTrue(node, IntOrString) => ~Has(node, "oneOf")
  PROVE  ChecksHold(Conv(node), Accepts, v) <=>
           /\ ChecksHold(node, Satisfied, v)
           /\ IsTrue(node, IntOrString) => v.type \in {"string", "integer"}
<1> DEFINE js == Conv(node)
<1>1. Has(node, "not") => (Accepts[Conv(node["not"])][v] <=> Satisfied[node["not"]][v])
  BY DEF Checks, Has
<1>2. \A key \in Junctors : Has(node, key) => \A i \in DOMAIN node[key] :
        Accepts[Conv(node[key][i])][v] <=> Satisfied[node[key][i]][v]
  BY DEF Checks, Has, Range
<1>3. (Has(js, "not") <=> Has(node, "not")) /\ (Has(node, "not") => js["not"] = Conv(node["not"]))
  BY ConvertedNode, ConvertedValues
<1>4. ASSUME NEW key \in Junctors, Has(js, key) <=> Has(node, key),
             Has(node, key) => js[key] = ConvertedValue(node, to_json_schema, key)
      PROVE  Has(node, key) =>
               /\ DOMAIN js[key] = DOMAIN node[key]
               /\ \A i \in DOMAIN node[key] : Accepts[js[key][i]][v] <=> Satisfied[node[key][i]][v]
  <2>1. Has(node, key) => js[key] = [i \in DOMAIN node[key] |-> Conv(node[key][i])]
    BY <1>4, ConvertedValues
  <2> HIDE DEF js
  <2> QED
    BY <2>1, <1>2
<1>5. \A key \in {"allOf", "anyOf"} :
        /\ Has(js, key) <=> Has(node, key)
        /\ Has(node, key) =>
             /\ DOMAIN js[key] = DOMAIN node[key]
             /\ \A i \in DOMAIN node[key] : Accepts[js[key][i]][v] <=> Satisfied[node[key][i]][v]
  BY <1>4, ConvertedNode DEF Junctors
<1>6. CASE ~IsTrue(node, IntOrString)
  <2>1. /\ Has(js, "oneOf") <=> Has(node, "oneOf")
        /\ Has(node, "oneOf") =>
             /\ DOMAIN js["oneOf"] = DOMAIN node["oneOf"]
             /\ \A i \in DOMAIN node["oneOf"] :
                  Accepts[js["oneOf"][i]][v] <=> Satisfied[node["oneOf"][i]][v]
    BY <1>4, <1>6, ConvertedNode DEF Junctors
  <2> HIDE DEF js
  <2>2. ChecksHold(js, Accepts, v) <=> ChecksHold(node, Satisfied, v)
    BY <1>1, <1>3, <1>5, <2>1 DEF ChecksHold
  <2> QED
    BY <1>6, <2>2 DEF js
<1>7. CASE IsTrue(node, IntOrString)
  <2>1. Has(js, "oneOf") /\ js["oneOf"] = <<Text, Integer>>
    BY <1>7, ConvertedNode
  <2>2. (\E i \in DOMAIN <<Text, Integer>> : \A j \in DOMAIN <<Text, Integer>> :
           Accepts[<<Text, Integer>>[j]][v] <=> i = j) <=> v.type \in {"string", "integer"}
    BY AcceptsAType
  <2> HIDE DEF js
  <2>3. ChecksHold(js, Accepts, v) <=> ChecksHold(node, Satisfied, v) /\ v.type \in {"string", "integer"}
    BY <1>1, <1>3, <1>5, <1>7, <2>1, <2>2 DEF ChecksHold
  <2> QED
    BY <1>7, <2>3 DEF js
<1> QED
  BY <1>6, <1>7

\* A closed object takes no other field.
LEMMA NothingIsAccepted ==
  ASSUME NEW v \in Values
  PROVE  ~Accepts[Nothing][v]
<1>1. Nothing \in JsonNodes /\ IsBool(Nothing) /\ Nothing["bool"] = FALSE
  BY DEF JsonNodes, Nothing, IsBool
<1> QED
  BY <1>1, AtAValue DEF Fits

\* A boolean schema means the same to all three.
LEMMA BooleanAgrees ==
  ASSUME NEW node \in Nodes, IsBool(node), NEW v \in Values
  PROVE  Known[node][v] /\ (Accepts[Conv(node)][v] <=> Satisfied[node][v])
<1>1. ~IsTrue(node, IntOrString) /\ ~Has(node, Rules)
  BY DEF IsBool, IsTrue, Has, IntOrString, Rules
<1>2. Fits(Conv(node), Accepts, v) = node["bool"] /\ Fits(node, Satisfied, v) = node["bool"]
  BY BooleanStays DEF Fits
<1> QED
  BY <1>1, <1>2, AtAValue, BooleanStays DEF KnownGiven, SatisfiedGiven

\* Below a junctor no object is closed and no extension is left out: the conversion accepts
\* what the checks of the server let pass.
LEMMA ValidationAgrees ==
  ASSUME NEW node \in Validations, NEW v \in Values,
         \A c \in Below(node) : \A w \in Values : Accepts[Conv(c)][w] <=> Satisfied[c][w]
  PROVE  Accepts[Conv(node)][v] <=> Satisfied[node][v]
<1> DEFINE js == Conv(node)
<1>1. /\ node \in Nodes /\ ~IsTrue(node, IntOrString) /\ ~Has(node, Rules)
      /\ Has(node, "type") => node["type"] # "object"
  BY StructuralAssumption
<1>2. CASE IsBool(node)
  BY <1>1, <1>2, BooleanAgrees
<1>3. CASE ~IsBool(node)
  <2>1. ~IsBool(js)
    <3>1. "bool" \notin Keywords
      BY DEF Keywords, Extensions, Junctors, Preserve, IntOrString, Rules
    <3> QED
      BY <1>1, <1>3, <3>1, ConvertedNode DEF IsBool
  <2>2. \A key \in {"type", "required"} :
          (Has(js, key) <=> Has(node, key)) /\ (Has(node, key) => js[key] = node[key])
    BY <1>1, <1>3, ConvertedNode, ConvertedValues
  <2>3. FieldsFit(js, Accepts, v) <=> FieldsFit(node, Satisfied, v)
    <3>1. (Has(js, "properties") <=> Has(node, "properties")) /\ Named(js) = Named(node)
          /\ \A f \in Named(node) : js["properties"][f] = Conv(node["properties"][f])
      BY <1>1, <1>3, ConvertedNode, ConvertedValues DEF Named
    <3>2. /\ Has(js, "additionalProperties") <=> Has(node, "additionalProperties")
          /\ Has(node, "additionalProperties") =>
               js["additionalProperties"] = Conv(node["additionalProperties"])
      BY <1>1, <1>3, ConvertedNode DEF Conv
    <3>3. \A f \in Fields(v) : v.fields[f] \in Values
      BY ValuesAssumption
    <3>4. \A f \in Named(node) : node["properties"][f] \in Below(node)
      BY DEF Below, Shape
    <3>5. Has(node, "additionalProperties") => node["additionalProperties"] \in Below(node)
      BY DEF Below, Shape, Has
    <3> HIDE DEF js
    <3> QED
      BY <3>1, <3>2, <3>3, <3>4, <3>5 DEF FieldsFit
  <2>4. ItemsFit(js, Accepts, v) <=> ItemsFit(node, Satisfied, v)
    <3>1. (Has(js, "items") <=> Has(node, "items")) /\ (Has(node, "items") => js["items"] = Conv(node["items"]))
      BY <1>3, <1>1, ConvertedNode, ConvertedValues
    <3>2. \A i \in Items(v) : v.items[i] \in Values
      BY ValuesAssumption
    <3>3. Has(node, "items") => node["items"] \in Below(node)
      BY DEF Below, Shape, Has
    <3> HIDE DEF js
    <3> QED
      BY <3>1, <3>2, <3>3 DEF ItemsFit
  <2>5. ChecksHold(js, Accepts, v) <=> ChecksHold(node, Satisfied, v)
    BY <1>1, <1>3, ChecksAgree DEF Below
  <2> HIDE DEF js
  <2>6. Fits(js, Accepts, v) <=> Fits(node, Satisfied, v)
    BY <1>3, <2>1, <2>2, <2>3, <2>4, <2>5 DEF Fits
  <2> QED
    BY <1>1, <2>6, AtAValue DEF SatisfiedGiven, js
<1> QED
  BY <1>2, <1>3

\* What becomes of the keywords that no case below changes.
LEMMA ConvertedShape ==
  ASSUME NEW node \in Nodes, ~IsBool(node)
  PROVE  /\ ~IsBool(Conv(node))
         /\ Has(Conv(node), "properties") <=> Has(node, "properties")
         /\ Named(Conv(node)) = Named(node)
         /\ \A f \in Named(node) : Conv(node)["properties"][f] = Conv(node["properties"][f])
         /\ Has(node, "additionalProperties") =>
              /\ Has(Conv(node), "additionalProperties")
              /\ Conv(node)["additionalProperties"] = Conv(node["additionalProperties"])
         /\ Has(Conv(node), "items") <=> Has(node, "items")
         /\ Has(node, "items") => Conv(node)["items"] = Conv(node["items"])
         /\ Has(Conv(node), "required") <=> Has(node, "required")
         /\ Has(node, "required") => Conv(node)["required"] = node["required"]
<1> DEFINE js == Conv(node)
<1>1. ~IsBool(js)
  <2>1. "bool" \notin Keywords
    BY DEF Keywords, Extensions, Junctors, Preserve, IntOrString, Rules
  <2> QED
    BY <2>1, ConvertedNode DEF IsBool
<1>2. (Has(js, "properties") <=> Has(node, "properties")) /\ Named(js) = Named(node)
      /\ \A f \in Named(node) : js["properties"][f] = Conv(node["properties"][f])
  BY ConvertedNode, ConvertedValues DEF Named
<1>3. Has(node, "additionalProperties") =>
        /\ Has(js, "additionalProperties")
        /\ js["additionalProperties"] = Conv(node["additionalProperties"])
  BY ConvertedNode DEF Conv
<1>4. (Has(js, "items") <=> Has(node, "items")) /\ (Has(node, "items") => js["items"] = Conv(node["items"]))
  BY ConvertedNode, ConvertedValues
<1>5. (Has(js, "required") <=> Has(node, "required"))
      /\ (Has(node, "required") => js["required"] = node["required"])
  BY ConvertedNode, ConvertedValues
<1> QED
  BY <1>1, <1>2, <1>3, <1>4, <1>5

\* What the two verdicts on a node consist of.
LEMMA VerdictsOnANode ==
  ASSUME NEW node \in Structure, ~IsBool(node), NEW v \in Values,
         \A c \in Checks(node) : \A w \in Values : Accepts[Conv(c)][w] <=> Satisfied[c][w]
  PROVE  LET scalar  == IsTrue(node, IntOrString) => v.type \in {"string", "integer"}
             typed   == Has(node, "type") => v.type = node["type"]
             whole   == Has(node, "required") /\ v.type = "object" => node["required"] \subseteq Fields(v)
             checked == ChecksHold(node, Satisfied, v)
         IN  /\ Satisfied[node][v] <=>
                  /\ typed /\ scalar /\ whole /\ checked /\ (Has(node, Rules) => v \notin node[Rules])
                  /\ FieldsFit(node, Satisfied, v) /\ ItemsFit(node, Satisfied, v)
             /\ Accepts[Conv(node)][v] <=>
                  /\ typed /\ scalar /\ whole /\ checked
                  /\ FieldsFit(Conv(node), Accepts, v) /\ ItemsFit(Conv(node), Accepts, v)
<1> DEFINE js == Conv(node)
           Scalar == IsTrue(node, IntOrString) => v.type \in {"string", "integer"}
           Typed == Has(node, "type") => v.type = node["type"]
           Whole == Has(node, "required") /\ v.type = "object" => node["required"] \subseteq Fields(v)
<1>1. node \in Nodes /\ (IsTrue(node, IntOrString) => ~Has(node, "type") /\ ~Has(node, "oneOf"))
  BY StructuralAssumption
<1>2. (Has(js, "type") => v.type = js["type"]) <=> Typed
  BY <1>1, ConvertedNode, ConvertedValues
<1>3. (Has(js, "required") /\ v.type = "object" => js["required"] \subseteq Fields(v)) <=> Whole
  BY <1>1, ConvertedShape
<1>4. ChecksHold(js, Accepts, v) <=> ChecksHold(node, Satisfied, v) /\ Scalar
  BY <1>1, ChecksAgree
<1>5. ~IsBool(js) /\ js \in JsonNodes
  BY <1>1, ConvertedShape, AtAValue
<1> HIDE DEF js, Scalar, Typed, Whole
<1>6. Accepts[js][v] <=>
        /\ Typed /\ Whole /\ Scalar /\ ChecksHold(node, Satisfied, v)
        /\ FieldsFit(js, Accepts, v) /\ ItemsFit(js, Accepts, v)
  <2>1. Accepts[js][v] <=> Fits(js, Accepts, v)
    BY <1>5, AtAValue
  <2> QED
    BY <1>2, <1>3, <1>4, <1>5, <2>1 DEF Fits
<1>7. Satisfied[node][v] <=>
        /\ Typed /\ Scalar /\ Whole /\ ChecksHold(node, Satisfied, v)
        /\ Has(node, Rules) => v \notin node[Rules]
        /\ FieldsFit(node, Satisfied, v) /\ ItemsFit(node, Satisfied, v)
  BY <1>1, AtAValue DEF SatisfiedGiven, Fits, Typed, Scalar, Whole
<1> QED
  BY <1>6, <1>7 DEF js, Scalar, Typed, Whole

\* Which fields beyond those it names the strict schema of an object takes.
LEMMA OtherFields ==
  ASSUME NEW node \in Structure, ~IsBool(node), NEW v \in Values, v.type = "object",
         Has(node, "type") => v.type = node["type"],
         IsTrue(node, IntOrString) => v.type \in {"string", "integer"},
         ~Has(node, "additionalProperties")
  PROVE  /\ Has(Conv(node), "additionalProperties") =>
              Conv(node)["additionalProperties"] = Nothing
         /\ Has(Conv(node), "additionalProperties") <=>
              Has(node, "properties") /\ ~IsTrue(node, Preserve)
<1>1. ~IsTrue(node, IntOrString) /\ (Has(node, "type") => node["type"] = "object")
  OBVIOUS
<1>2. node \in Nodes /\ (Has(node, "properties") =>
        Has(node, "type") \/ IsTrue(node, Preserve) \/ IsTrue(node, IntOrString))
  BY StructuralAssumption
<1> QED
  BY <1>1, <1>2, ConvertedNode

\* In the structure the strict schema accepts what the server knows and lets pass.
LEMMA AdmittedIsAccepted ==
  ASSUME NEW node \in Structure, NEW v \in Values,
         \A c \in Checks(node) : \A w \in Values : Accepts[Conv(c)][w] <=> Satisfied[c][w],
         \A c \in Shape(node) : \A w \in Values :
           Known[c][w] /\ Satisfied[c][w] => Accepts[Conv(c)][w],
         Known[node][v], Satisfied[node][v]
  PROVE  Accepts[Conv(node)][v]
<1> DEFINE js == Conv(node)
<1>1. node \in Nodes
  BY StructuralAssumption
<1>2. CASE IsBool(node)
  BY <1>1, <1>2, BooleanAgrees
<1>3. CASE ~IsBool(node)
  <2>1. /\ Has(node, "type") => v.type = node["type"]
        /\ IsTrue(node, IntOrString) => v.type \in {"string", "integer"}
        /\ FieldsFit(node, Satisfied, v) /\ ItemsFit(node, Satisfied, v)
    BY <1>3, VerdictsOnANode
  <2>2. KnownGiven(node, Known, v)
    BY <1>1, AtAValue
  <2>3. /\ Named(js) = Named(node)
        /\ \A f \in Named(node) : js["properties"][f] = Conv(node["properties"][f])
        /\ Has(node, "additionalProperties") =>
              /\ Has(js, "additionalProperties")
              /\ js["additionalProperties"] = Conv(node["additionalProperties"])
        /\ Has(js, "items") <=> Has(node, "items")
        /\ Has(node, "items") => js["items"] = Conv(node["items"])
    BY <1>1, <1>3, ConvertedShape
  <2>4. FieldsFit(js, Accepts, v)
    <3>1. ASSUME v.type = "object", ~Has(node, "additionalProperties"), IsTrue(node, Preserve)
          PROVE  ~Has(js, "additionalProperties")
      BY <1>3, <2>1, <3>1, OtherFields
    <3>2. \A f \in Fields(v) : v.fields[f] \in Values /\ v.type = "object"
      BY ValuesAssumption DEF Fields
    <3>3. \A f \in Named(node) : node["properties"][f] \in Shape(node)
      BY DEF Shape
    <3>4. Has(node, "additionalProperties") => node["additionalProperties"] \in Shape(node)
      BY DEF Shape, Has
    <3> HIDE DEF js
    <3> QED
      BY <1>3, <2>1, <2>2, <2>3, <3>1, <3>2, <3>3, <3>4 DEF FieldsFit, KnownGiven
  <2>5. ItemsFit(js, Accepts, v)
    <3>1. \A i \in Items(v) : v.items[i] \in Values
      BY ValuesAssumption
    <3>2. Has(node, "items") => node["items"] \in Shape(node)
      BY DEF Shape, Has
    <3> HIDE DEF js
    <3> QED
      BY <1>3, <2>1, <2>2, <2>3, <3>1, <3>2 DEF ItemsFit, KnownGiven
  <2> QED
    BY <1>3, <2>4, <2>5, VerdictsOnANode
<1> QED
  BY <1>2, <1>3

\* And nothing else, if the converter overlooks nothing.
LEMMA AcceptedIsAdmitted ==
  ASSUME NEW node \in Structure, NEW v \in Values,
         \A c \in Checks(node) : \A w \in Values : Accepts[Conv(c)][w] <=> Satisfied[c][w],
         \A c \in Shape(node) : \A w \in Values :
           Tight[c] /\ Accepts[Conv(c)][w] => Known[c][w] /\ Satisfied[c][w],
         Tight[node], Accepts[Conv(node)][v]
  PROVE  Known[node][v] /\ Satisfied[node][v]
<1> DEFINE js == Conv(node)
<1>1. node \in Nodes
  BY StructuralAssumption
<1>2. CASE IsBool(node)
  BY <1>1, <1>2, BooleanAgrees
<1>3. CASE ~IsBool(node)
  <2>1. /\ Has(node, "type") => v.type = node["type"]
        /\ IsTrue(node, IntOrString) => v.type \in {"string", "integer"}
        /\ FieldsFit(js, Accepts, v) /\ ItemsFit(js, Accepts, v)
    BY <1>3, VerdictsOnANode
  <2>2. /\ \/ Has(node, "properties") \/ Has(node, "additionalProperties")
           \/ IsTrue(node, Preserve) \/ IsTrue(node, IntOrString)
           \/ Has(node, "type") /\ node["type"] # "object"
        /\ ~Has(node, Rules) /\ \A n \in Shape(node) : Tight[n]
    <3>1. TightGiven(node, Tight)
      BY <1>1, AtAValue
    <3> QED
      BY <1>3, <3>1 DEF TightGiven
  <2>3. /\ Named(js) = Named(node)
        /\ \A f \in Named(node) : js["properties"][f] = Conv(node["properties"][f])
        /\ Has(node, "additionalProperties") =>
              /\ Has(js, "additionalProperties")
              /\ js["additionalProperties"] = Conv(node["additionalProperties"])
        /\ Has(js, "items") <=> Has(node, "items")
        /\ Has(node, "items") => js["items"] = Conv(node["items"])
    BY <1>1, <1>3, ConvertedShape
  <2>4. \A f \in Named(node) : node["properties"][f] \in Shape(node)
    BY DEF Shape
  <2>5. Has(node, "additionalProperties") => node["additionalProperties"] \in Shape(node)
    BY DEF Shape, Has
  <2>6. Has(node, "items") => node["items"] \in Shape(node)
    BY DEF Shape, Has
  <2>7. ASSUME NEW f \in Fields(v)
        PROVE  /\ f \in Named(node) => /\ Known[node["properties"][f]][v.fields[f]]
                                       /\ Satisfied[node["properties"][f]][v.fields[f]]
               /\ f \notin Named(node) /\ Has(node, "additionalProperties") =>
                    /\ Known[node["additionalProperties"]][v.fields[f]]
                    /\ Satisfied[node["additionalProperties"]][v.fields[f]]
               /\ f \notin Named(node) /\ ~Has(node, "additionalProperties") => IsTrue(node, Preserve)
    <3>1. v.fields[f] \in Values /\ v.type = "object"
      BY ValuesAssumption DEF Fields
    <3>2. CASE f \in Named(node)
      <4>1. Accepts[Conv(node["properties"][f])][v.fields[f]]
        BY <2>1, <2>3, <3>2 DEF FieldsFit
      <4> QED
        BY <2>2, <2>4, <3>1, <3>2, <4>1
    <3>3. CASE f \notin Named(node) /\ Has(node, "additionalProperties")
      <4>1. Accepts[Conv(node["additionalProperties"])][v.fields[f]]
        BY <2>1, <2>3, <3>3 DEF FieldsFit
      <4> QED
        BY <2>2, <2>5, <3>1, <3>3, <4>1
    <3>4. CASE f \notin Named(node) /\ ~Has(node, "additionalProperties")
      <4>1. ~(Has(js, "additionalProperties") /\ js["additionalProperties"] = Nothing)
        BY <2>1, <2>3, <3>1, <3>4, NothingIsAccepted DEF FieldsFit
      <4>2. Has(node, "properties") => IsTrue(node, Preserve)
        BY <1>3, <2>1, <3>1, <3>4, <4>1, OtherFields
      <4> QED
        BY <2>1, <2>2, <3>1, <3>4, <4>2
    <3> QED
      BY <3>2, <3>3, <3>4
  <2>8. ASSUME NEW i \in Items(v), Has(node, "items")
        PROVE  Known[node["items"]][v.items[i]] /\ Satisfied[node["items"]][v.items[i]]
    <3>1. v.items[i] \in Values
      BY ValuesAssumption
    <3>2. Accepts[Conv(node["items"])][v.items[i]]
      BY <2>1, <2>3, <2>8 DEF ItemsFit
    <3> QED
      BY <2>2, <2>6, <2>8, <3>1, <3>2
  <2>9. Known[node][v]
    <3>1. KnownGiven(node, Known, v)
      BY <2>7, <2>8 DEF KnownGiven, ItemsFit
    <3> QED
      BY <1>1, <3>1, AtAValue
  <2>10. FieldsFit(node, Satisfied, v) /\ ItemsFit(node, Satisfied, v)
    BY <2>7, <2>8 DEF FieldsFit, ItemsFit
  <2>11. Satisfied[node][v]
    BY <1>3, <2>2, <2>10, VerdictsOnANode
  <2> QED
    BY <2>9, <2>11
<1> QED
  BY <1>2, <1>3

\* The strict schema of a node accepts what the server knows and lets pass, and no more if it is
\* tight.
LEMMA ConversionAgrees ==
  ASSUME NEW node \in Structure, NEW v \in Values
  PROVE  /\ Known[node][v] /\ Satisfied[node][v] => Accepts[Conv(node)][v]
         /\ Tight[node] /\ Accepts[Conv(node)][v] => Known[node][v] /\ Satisfied[node][v]
<1> DEFINE Agree(n) == \A w \in Values : Accepts[Conv(n)][w] <=> Satisfied[n][w]
           Takes(n) == \A w \in Values : Known[n][w] /\ Satisfied[n][w] => Accepts[Conv(n)][w]
           Refuses(n) == \A w \in Values :
                           Tight[n] /\ Accepts[Conv(n)][w] => Known[n][w] /\ Satisfied[n][w]
           Agreeing == {i \in 0 .. Height : \A n \in Lower(i) :
                          /\ n \in Validations => Agree(n)
                          /\ n \in Structure => Takes(n) /\ Refuses(n)}
<1>1. 0 \in Agreeing
  BY LowerSets
<1>2. ASSUME NEW i \in 0 .. Height - 1, i \in Agreeing PROVE i + 1 \in Agreeing
  <2>1. i + 1 \in 0 .. Height
    BY LowerSets
  <2>2. ASSUME NEW n \in Lower(i + 1)
        PROVE  (n \in Validations => Agree(n)) /\ (n \in Structure => Takes(n) /\ Refuses(n))
    <3>1. Below(n) \subseteq Lower(i)
      BY LowerSets
    <3>2. ASSUME n \in Validations PROVE Agree(n)
      <4>1. \A c \in Below(n) : Agree(c)
        BY <1>2, <3>1, <3>2, StructuralAssumption DEF Below
      <4> QED
        BY <3>2, <4>1, ValidationAgrees
    <3>3. ASSUME n \in Structure PROVE Takes(n) /\ Refuses(n)
      <4>1. \A c \in Checks(n) : Agree(c)
        BY <1>2, <3>1, <3>3, StructuralAssumption DEF Below
      <4>2. \A c \in Shape(n) : Takes(c) /\ Refuses(c)
        BY <1>2, <3>1, <3>3, StructuralAssumption DEF Below
      <4>3. Takes(n)
        BY <3>3, <4>1, <4>2, AdmittedIsAccepted
      <4>4. Refuses(n)
        BY <3>3, <4>1, <4>2, AcceptedIsAdmitted
      <4> QED
        BY <4>3, <4>4
    <3> QED
      BY <3>2, <3>3
  <2> QED
    BY <2>1, <2>2
<1>3. Height \in Agreeing
  <2> HIDE DEF Agreeing
  <2> QED
    BY <1>1, <1>2, LowerSets, Induction
<1>4. node \in Lower(Height)
  BY LowerSets, StructuralAssumption
<1> QED
  BY <1>3, <1>4

\* Setting two keywords in either order comes to the same.
LEMMA WithCommutes ==
  ASSUME NEW f, NEW key, NEW x
  PROVE  /\ \A k, y : k # key => With(With(f, k, y), key, x) = With(With(f, key, x), k, y)
         /\ \A keys : key \notin keys => Without(With(f, key, x), keys) = With(Without(f, keys), key, x)
<1>1. ASSUME NEW k, NEW y, k # key PROVE With(With(f, k, y), key, x) = With(With(f, key, x), k, y)
  BY <1>1 DEF With
<1>2. ASSUME NEW keys, key \notin keys PROVE Without(With(f, key, x), keys) = With(Without(f, keys), key, x)
  BY <1>2 DEF With, Without
<1> QED
  BY <1>1, <1>2

\* Relaxing the metadata of a strict schema is converting what the server reads.
LEMMA RelaxedIsServerView ==
  ASSUME NEW schema, Described(schema)
  PROVE  Relaxed(Conv(schema)) = Conv(ServerView(schema))
<1> DEFINE view == ServerView(schema)
           meta == With(Anything, Preserve, TRUE)
           fields == schema["properties"]
           strict == With(Conv(schema)["properties"], "metadata", Anything)
<1>1. /\ schema \in Nodes /\ view \in Structure /\ view \in Nodes /\ schema \in Structure
      /\ ~IsBool(schema) /\ Has(schema, "properties")
      /\ "metadata" \in DOMAIN fields /\ Named(schema) = DOMAIN fields /\ ~IsBool(fields["metadata"])
  BY StructuralAssumption DEF Described, Named
<1>2. /\ DOMAIN view = DOMAIN schema
      /\ \A key : key # "properties" /\ key \in DOMAIN schema => view[key] = schema[key]
      /\ view["properties"] = With(fields, "metadata", meta)
  BY <1>1 DEF ServerView, With, Has
<1>3. /\ DOMAIN view["properties"] = DOMAIN fields
      /\ \A f \in DOMAIN fields :
           view["properties"][f] = IF f = "metadata" THEN meta ELSE fields[f]
  BY <1>1, <1>2 DEF With
<1> HIDE DEF view
<1>4. Has(Conv(schema), "properties")
      /\ Conv(schema)["properties"] = [f \in DOMAIN fields |-> Conv(fields[f])]
  BY <1>1, ConvertedNode, ConvertedValues
<1>5. Relaxed(Conv(schema)) = With(Conv(schema), "properties", strict)
  <2>1. fields["metadata"] \in Nodes
    BY <1>1, StructuralAssumption DEF Shape
  <2>2. "bool" \notin Keywords
    BY DEF Keywords, Extensions, Junctors, Preserve, IntOrString, Rules
  <2>3. ~IsBool(Conv(fields["metadata"]))
    BY <1>1, <2>1, <2>2, ConvertedNode DEF IsBool
  <2>4. "metadata" \in Named(Conv(schema)) /\ ~IsBool(Conv(schema)["properties"]["metadata"])
    BY <1>1, <1>4, <2>3 DEF Named
  <2> QED
    BY <2>4 DEF Relaxed
<1>6. Conv(meta) = Anything
  <2>1. meta \in Nodes
    <3>1. meta = view["properties"]["metadata"] /\ "metadata" \in Named(view)
      BY <1>1, <1>2, <1>3 DEF Named, Has
    <3>2. meta \in Shape(view)
      BY <3>1 DEF Shape
    <3> QED
      BY <1>1, <3>2, StructuralAssumption
  <2>2. DOMAIN meta = {"type", Preserve} /\ meta["type"] = "object"
    BY DEF With, Anything, Preserve
  <2> HIDE DEF meta
  <2>3. DOMAIN meta \ Extensions = {"type"} /\ ~IsTrue(meta, IntOrString)
    BY <2>2 DEF Extensions, Preserve, IntOrString, Rules, IsTrue, Has
  <2>4. ConvertedValue(meta, to_json_schema, "type") = "object"
    BY <2>2, ConvertedValues
  <2>5. ~Closes(meta, [key \in {"type"} |-> "object"])
    BY DEF Closes, Has
  <2>6. [key \in DOMAIN meta \ Extensions |-> ConvertedValue(meta, to_json_schema, key)]
        = [key \in {"type"} |-> "object"]
    BY <2>3, <2>4
  <2>7. Conv(meta) = [key \in {"type"} |-> "object"]
    BY <2>1, <2>3, <2>5, <2>6, ToJsonSchema DEF Conv, Converted
  <2> QED
    BY <2>7 DEF Anything
<1> HIDE DEF meta
<1>7. ConvertedValue(view, to_json_schema, "properties") = strict
  <2>1. ConvertedValue(view, to_json_schema, "properties")
        = [f \in DOMAIN fields |-> Conv(view["properties"][f])]
    BY <1>1, <1>2, <1>3, ConvertedValues DEF Named, Has
  <2>2. strict = [f \in DOMAIN fields |-> IF f = "metadata" THEN Anything ELSE Conv(fields[f])]
    BY <1>1, <1>4 DEF With
  <2> HIDE DEF strict
  <2> QED
    BY <1>3, <1>6, <2>1, <2>2
<1>8. \A key \in DOMAIN schema : key # "properties" =>
        ConvertedValue(view, to_json_schema, key) = ConvertedValue(schema, to_json_schema, key)
  BY <1>2 DEF ConvertedValue
<1> DEFINE Out(node) == [key \in DOMAIN node \ Extensions |-> ConvertedValue(node, to_json_schema, key)]
           Typed(node) == IF IsTrue(node, IntOrString)
                          THEN With(Without(Out(node), {"type"}), "oneOf", <<Text, Integer>>)
                          ELSE Out(node)
<1> HIDE DEF strict
<1>9. Out(view) = With(Out(schema), "properties", strict)
  <2>1. "properties" \in DOMAIN schema \ Extensions
    BY <1>1 DEF Has, Extensions, Preserve, IntOrString, Rules
  <2> QED
    BY <1>2, <1>7, <1>8, <2>1 DEF With
<1>10. (IsTrue(view, IntOrString) <=> IsTrue(schema, IntOrString))
       /\ (IsTrue(view, Preserve) <=> IsTrue(schema, Preserve))
  BY <1>2 DEF IsTrue, Has, IntOrString, Preserve
<1> HIDE DEF Out
<1>11. Typed(view) = With(Typed(schema), "properties", strict)
  <2>1. Without(With(Out(schema), "properties", strict), {"type"})
        = With(Without(Out(schema), {"type"}), "properties", strict)
    BY WithCommutes
  <2>2. \A f : With(With(f, "properties", strict), "oneOf", <<Text, Integer>>)
               = With(With(f, "oneOf", <<Text, Integer>>), "properties", strict)
    BY WithCommutes
  <2> QED
    BY <1>9, <1>10, <2>1, <2>2
<1>12. Has(Typed(schema), "properties")
  <2>1. Has(Out(schema), "properties")
    BY <1>1 DEF Out, Has, Extensions, Preserve, IntOrString, Rules
  <2> QED
    BY <2>1 DEF Has, With, Without
<1>13. Closes(view, Typed(view)) <=> Closes(schema, Typed(schema))
  <2> HIDE DEF Typed
  <2> QED
    BY <1>10, <1>11, <1>12 DEF Closes, Has, With
<1>14. /\ Conv(view) = IF Closes(view, Typed(view))
                       THEN With(Typed(view), "additionalProperties", Nothing) ELSE Typed(view)
       /\ Conv(schema) = IF Closes(schema, Typed(schema))
                         THEN With(Typed(schema), "additionalProperties", Nothing) ELSE Typed(schema)
  BY <1>1, ToJsonSchema DEF Conv, Converted, Out
<1> HIDE DEF Typed
<1>15. Conv(view) = With(Conv(schema), "properties", strict)
  <2>1. \A f : With(With(f, "properties", strict), "additionalProperties", Nothing)
               = With(With(f, "additionalProperties", Nothing), "properties", strict)
    BY WithCommutes
  <2> QED
    BY <1>11, <1>13, <1>14, <2>1
<1> QED
  BY <1>5, <1>15 DEF view

-----------------------------------------------------------------------------
(* crd-schemas.py: the types, what each file holds, and what a verdict says of it. *)

CrdTypesInv ==
  /\ crds \in Seq(Range(crds))
  /\ \A i \in DOMAIN crds : \A path \in PathsOf(crds[i]) : Described(SchemaOf(crds[i], path))
  /\ converted \in 0 .. Len(crds)
  /\ crdExit \in {"running", "ok", "failed"} /\ verdict \in {"none", "valid", "invalid"}
  /\ crdExit # "failed" => manifest \in Manifests

FilesInv ==
  /\ DOMAIN schemaFiles = UNION {PathsOf(crds[i]) : i \in 1 .. converted}
  /\ \A path \in DOMAIN schemaFiles : \E i \in 1 .. converted :
       /\ path \in PathsOf(crds[i])
       /\ \A j \in 1 .. converted : path \in PathsOf(crds[j]) => j <= i
       /\ schemaFiles[path] = Relaxed(to_json_schema[SchemaOf(crds[i], path)])

VerdictInv ==
  /\ crdExit = "ok" => converted = Len(crds) /\ DOMAIN schemaFiles # {}
  /\ verdict # "none" =>
       /\ crdExit = "ok"
       /\ verdict = "valid" <=>
            /\ manifest.crd \in DOMAIN schemaFiles
            /\ Accepts[schemaFiles[manifest.crd]][manifest.value]

CrdInv == CrdTypesInv /\ FilesInv /\ VerdictInv

\* Nothing is converted when the converter starts.
LEMMA CrdInitHolds == CrdInit => CrdInv
<1> SUFFICES ASSUME CrdInit PROVE CrdInv
  OBVIOUS
<1>1. DOMAIN schemaFiles = {}
  <2>1. schemaFiles = <<>> /\ Len(schemaFiles) = 0
    BY DEF CrdInit
  <2> QED
    BY <2>1
<1>2. CrdTypesInv
  BY DocumentsAssumption DEF CrdInit, CrdTypesInv
<1>3. FilesInv
  BY <1>1 DEF CrdInit, FilesInv
<1>4. VerdictInv
  BY DEF CrdInit, VerdictInv
<1> QED
  BY <1>2, <1>3, <1>4 DEF CrdInv

\* A document more is converted: its files are new, or written over.
LEMMA ConvertKeepsFiles == CrdInv /\ Convert => FilesInv'
<1> SUFFICES ASSUME CrdInv, Convert PROVE FilesInv'
  OBVIOUS
<1> DEFINE doc == crds[converted + 1]
<1>1. /\ converted \in Nat /\ converted + 1 \in 1 .. Len(crds) /\ converted' = converted + 1
      /\ crds' = crds /\ 1 .. converted' = (1 .. converted) \cup {converted + 1}
  BY DEF CrdInv, CrdTypesInv, Convert
<1>2. /\ DOMAIN schemaFiles' = DOMAIN schemaFiles \cup PathsOf(doc)
      /\ \A path \in DOMAIN schemaFiles' :
           schemaFiles'[path] = IF path \in PathsOf(doc)
                                THEN Relaxed(to_json_schema[SchemaOf(doc, path)])
                                ELSE schemaFiles[path]
  BY DEF Convert
<1>3. DOMAIN schemaFiles = UNION {PathsOf(crds[i]) : i \in 1 .. converted}
  BY DEF CrdInv, FilesInv
<1>4. DOMAIN schemaFiles' = UNION {PathsOf(crds[i]) : i \in 1 .. converted'}
  BY <1>1, <1>2, <1>3
<1>5. ASSUME NEW path \in DOMAIN schemaFiles'
      PROVE  \E i \in 1 .. converted' :
               /\ path \in PathsOf(crds[i])
               /\ \A j \in 1 .. converted' : path \in PathsOf(crds[j]) => j <= i
               /\ schemaFiles'[path] = Relaxed(to_json_schema[SchemaOf(crds[i], path)])
  <2>1. CASE path \in PathsOf(doc)
    <3>1. \A j \in 1 .. converted' : j <= converted + 1
      BY <1>1
    <3>2. converted + 1 \in 1 .. converted'
      BY <1>1
    <3> QED
      BY <1>2, <2>1, <3>1, <3>2
  <2>2. CASE path \notin PathsOf(doc)
    <3>1. PICK i \in 1 .. converted :
            /\ path \in PathsOf(crds[i])
            /\ \A j \in 1 .. converted : path \in PathsOf(crds[j]) => j <= i
            /\ schemaFiles[path] = Relaxed(to_json_schema[SchemaOf(crds[i], path)])
      BY <1>2, <2>2 DEF CrdInv, FilesInv
    <3>2. schemaFiles'[path] = schemaFiles[path]
      BY <1>2, <2>2
    <3> QED
      BY <1>1, <2>2, <3>1, <3>2
  <2> QED
    BY <2>1, <2>2
<1> QED
  BY <1>1, <1>4, <1>5 DEF FilesInv

\* Every action keeps the invariant of the converter.
LEMMA CrdStep == CrdInv /\ [CrdNext]_crdVars => CrdInv'
<1> SUFFICES ASSUME CrdInv, [CrdNext]_crdVars PROVE CrdInv'
  OBVIOUS
<1>1. CASE Convert
  <2>1. CrdTypesInv'
    BY <1>1 DEF CrdInv, CrdTypesInv, Convert
  <2>2. crdExit = "running" /\ UNCHANGED <<crdExit, verdict>> /\ verdict = "none"
    BY <1>1 DEF CrdInv, VerdictInv, CrdTypesInv, Convert
  <2>3. VerdictInv'
    BY <2>2 DEF VerdictInv
  <2> QED
    BY <1>1, <2>1, <2>3, ConvertKeepsFiles DEF CrdInv
<1>2. CASE LoadFails
  BY <1>2 DEF LoadFails, CrdInv, CrdTypesInv, FilesInv, VerdictInv
<1>3. CASE ConverterExit
  <2>1. UNCHANGED <<crds, converted, schemaFiles, manifest, verdict>>
        /\ crdExit = "running" /\ converted = Len(crds) /\ verdict = "none"
    BY <1>3 DEF ConverterExit, CrdInv, VerdictInv, CrdTypesInv
  <2>2. crdExit' \in {"ok", "failed"} /\ (crdExit' = "ok" => DOMAIN schemaFiles # {})
    BY <1>3 DEF ConverterExit
  <2>3. CrdTypesInv'
    BY <2>1, <2>2 DEF CrdInv, CrdTypesInv
  <2>4. FilesInv'
    BY <2>1 DEF CrdInv, FilesInv
  <2>5. VerdictInv'
    BY <2>1, <2>2 DEF VerdictInv
  <2> QED
    BY <2>3, <2>4, <2>5 DEF CrdInv
<1>4. CASE Kubeconform
  BY <1>4 DEF Kubeconform, CrdInv, CrdTypesInv, FilesInv, VerdictInv
<1>5. CASE UNCHANGED crdVars
  BY <1>5 DEF crdVars, CrdInv, CrdTypesInv, FilesInv, VerdictInv
<1> QED
  BY <1>1, <1>2, <1>3, <1>4, <1>5 DEF CrdNext

\* A file holds what the server reads, converted.
LEMMA FileIsServerView ==
  ASSUME CrdInv, NEW path \in DOMAIN schemaFiles
  PROVE  \E i \in 1 .. converted :
           /\ path \in PathsOf(crds[i])
           /\ \A j \in 1 .. converted : path \in PathsOf(crds[j]) => j <= i
           /\ ServerView(SchemaOf(crds[i], path)) \in Structure
           /\ schemaFiles[path] = Conv(ServerView(SchemaOf(crds[i], path)))
<1>1. PICK i \in 1 .. converted :
        /\ path \in PathsOf(crds[i])
        /\ \A j \in 1 .. converted : path \in PathsOf(crds[j]) => j <= i
        /\ schemaFiles[path] = Relaxed(to_json_schema[SchemaOf(crds[i], path)])
  BY DEF CrdInv, FilesInv
<1>2. i \in DOMAIN crds
  BY DEF CrdInv, CrdTypesInv
<1>3. Described(SchemaOf(crds[i], path))
  BY <1>1, <1>2 DEF CrdInv, CrdTypesInv
<1>4. ServerView(SchemaOf(crds[i], path)) \in Structure
      /\ schemaFiles[path] = Conv(ServerView(SchemaOf(crds[i], path)))
  BY <1>1, <1>3, RelaxedIsServerView DEF Described, Conv
<1> QED
  BY <1>1, <1>4

\* It gives the types.
LEMMA CrdTypesHold == CrdInv => CrdTypeOK
<1> SUFFICES ASSUME CrdInv PROVE CrdTypeOK
  OBVIOUS
<1>1. \A path \in DOMAIN schemaFiles : schemaFiles[path] \in JsonNodes
  BY FileIsServerView, StructuralAssumption DEF JsonNodes, Conv
<1> QED
  BY <1>1 DEF CrdInv, CrdTypesInv, FilesInv, VerdictInv, CrdTypeOK

\* And the verdict: a file was written from the last CRD with its version, and that is the one
\* the server serves the version from, if it does.
LEMMA VerdictIsTheServers == CrdInv => PassesWhatTheServerAdmits
<1> DEFINE path == manifest.crd
           v == manifest.value
           Admitted(i) == Admits(SchemaOf(crds[i], path), v)
           TightAt(i) == Tight[ServerView(SchemaOf(crds[i], path))]
<1> SUFFICES ASSUME CrdInv, verdict # "none"
             PROVE  /\ (\E i \in DOMAIN crds : Offers(i, path) /\ Admitted(i)) => verdict = "valid"
                    /\ verdict = "valid" =>
                         \E i \in DOMAIN crds :
                           Writes(i, path) /\ (Offers(i, path) /\ TightAt(i) => Admitted(i))
  BY DEF PassesWhatTheServerAdmits
<1>1. /\ DOMAIN crds = 1 .. converted /\ converted \in Nat /\ v \in Values
      /\ verdict = "valid" <=> path \in DOMAIN schemaFiles /\ Accepts[schemaFiles[path]][v]
  BY DocumentsAssumption DEF CrdInv, CrdTypesInv, VerdictInv
<1> HIDE DEF path, v
<1>2. ASSUME path \in DOMAIN schemaFiles
      PROVE  \E i \in DOMAIN crds :
               /\ Writes(i, path)
               /\ Admitted(i) => Accepts[schemaFiles[path]][v]
               /\ TightAt(i) /\ Accepts[schemaFiles[path]][v] => Admitted(i)
  <2>1. PICK i \in 1 .. converted :
          /\ path \in PathsOf(crds[i])
          /\ \A j \in 1 .. converted : path \in PathsOf(crds[j]) => j <= i
          /\ ServerView(SchemaOf(crds[i], path)) \in Structure
          /\ schemaFiles[path] = Conv(ServerView(SchemaOf(crds[i], path)))
    BY <1>2, FileIsServerView
  <2>2. Writes(i, path)
    BY <1>1, <2>1 DEF Writes
  <2>3. /\ Admitted(i) => Accepts[schemaFiles[path]][v]
        /\ TightAt(i) /\ Accepts[schemaFiles[path]][v] => Admitted(i)
    BY <1>1, <2>1, ConversionAgrees DEF Admits
  <2> QED
    BY <1>1, <2>2, <2>3
<1>3. ASSUME NEW i \in DOMAIN crds, Offers(i, path)
      PROVE  path \in DOMAIN schemaFiles /\ \A k \in DOMAIN crds : Writes(k, path) => k = i
  <2>1. path \in PathsOf(crds[i]) /\ \A j \in DOMAIN crds : OfKind(crds[j], path) => j <= i
    BY <1>3 DEF Offers, Decides
  <2>2. \A j \in DOMAIN crds : path \in PathsOf(crds[j]) => OfKind(crds[j], path)
    BY DEF PathsOf, OfKind
  <2>3. path \in DOMAIN schemaFiles
    BY <1>1, <2>1 DEF CrdInv, FilesInv
  <2>4. ASSUME NEW k \in DOMAIN crds, Writes(k, path) PROVE k = i
    <3>1. i <= k /\ k <= i
      BY <2>1, <2>2, <2>4 DEF Writes
    <3> QED
      BY <1>1, <3>1
  <2> QED
    BY <2>3, <2>4
<1> HIDE DEF Admitted, TightAt
<1>4. ASSUME NEW i \in DOMAIN crds, Offers(i, path), Admitted(i) PROVE verdict = "valid"
  BY <1>1, <1>2, <1>3, <1>4
<1>5. ASSUME verdict = "valid"
      PROVE  \E i \in DOMAIN crds :
               Writes(i, path) /\ (Offers(i, path) /\ TightAt(i) => Admitted(i))
  BY <1>1, <1>2, <1>5
<1> QED
  BY <1>4, <1>5

(* Types, and: a file stands for a version of a CRD converted so far, and no  *)
(* manifest is judged before all of them are or in an empty directory         *)
(* (crd-schemas.py:65-89), for any documents.                                 *)
THEOREM CrdTypes == CrdSpec => []CrdTypeOK
BY CrdInitHolds, CrdStep, CrdTypesHold, PTL DEF CrdSpec

(* For any CRDs with structural schemas of any height and any manifest: what  *)
(* the server admits passes, and a manifest passes only by the file of the    *)
(* last CRD with its version; if the server serves the version from that CRD, *)
(* and the converter overlooks nothing in its schema (an object that declares *)
(* nothing, a rule), it knows all fields of the manifest and admits its       *)
(* values (crd-schemas.py:36-59, 69-86).                                      *)
THEOREM AdmittedManifestsPass == CrdSpec => []PassesWhatTheServerAdmits
BY CrdInitHolds, CrdStep, VerdictIsTheServers, PTL DEF CrdSpec

-----------------------------------------------------------------------------
(* validate-backstage.py *)
Judged == {"judging", "ok", "errors"}

TypesInv ==
  /\ master \in 1 .. MaxRevision /\ started \in 0 .. MaxRuns
  /\ cache \in [Range(SCHEMAS) -> 0 .. Cut]
  /\ args \in [ref : {"none", "master", "tag"}, useCache : BOOLEAN, files : Files \cup {<<>>}]
  /\ \A s \in DOMAIN registry : registry[s] \in 1 .. MaxRevision
  /\ total \in Nat /\ judged \in Nat

Loaded == Cardinality(DOMAIN registry)

RegistryInv ==
  /\ IsFiniteSet(DOMAIN registry)
  /\ Loaded <= Len(SCHEMAS)
  /\ DOMAIN registry = {SCHEMAS[i] : i \in 1 .. Loaded}
  /\ phase = "fetching" => Loaded < Len(SCHEMAS) /\ total = 0 /\ judged = 0
  /\ phase \in Judged => Loaded = Len(SCHEMAS)

Valid(docs) ==
  \A doc \in Range(docs) : doc.schema # "none" =>
    \A s \in Shared \cup {doc.schema} : <<s, registry[s]>> \notin doc.breaks

JudgeInv ==
  phase \in Judged =>
    /\ judged <= Len(args.files)
    /\ total = 0 <=> \A k \in 1 .. judged : Valid(args.files[k])
    /\ phase \in {"ok", "errors"} => judged = Len(args.files) /\ (phase = "ok" <=> total = 0)

CacheInv ==
  /\ args.useCache => args.ref \in cachedFor
  /\ cachedFor \subseteq {"tag"} => \A s \in Range(SCHEMAS) : cache[s] \in {0, 1, Cut}

BackstageInv == TypesInv /\ RegistryInv /\ JudgeInv /\ CacheInv /\ PinnedToItsTag

-----------------------------------------------------------------------------
(* The list of schemas is finite, and so are its names and its positions. *)
LEMMA SchemaList ==
  /\ SCHEMAS \in Seq(Range(SCHEMAS)) /\ Len(SCHEMAS) \in Nat \ {0}
  /\ DOMAIN SCHEMAS = 1 .. Len(SCHEMAS)
  /\ Range(SCHEMAS) = {SCHEMAS[i] : i \in 1 .. Len(SCHEMAS)}
  /\ IsFiniteSet(Range(SCHEMAS))
<1>1. /\ SCHEMAS \in Seq(Range(SCHEMAS)) /\ Len(SCHEMAS) \in Nat \ {0}
      /\ DOMAIN SCHEMAS = 1 .. Len(SCHEMAS)
  BY BackstageAssumption
<1>2. Range(SCHEMAS) = {SCHEMAS[i] : i \in 1 .. Len(SCHEMAS)}
  BY <1>1 DEF Range
<1>3. SCHEMAS \in Surjection(1 .. Len(SCHEMAS), Range(SCHEMAS))
  BY <1>1, <1>2 DEF Surjection
<1>4. IsFiniteSet(1 .. Len(SCHEMAS))
  BY <1>1, FS_Interval
<1> QED
  BY <1>1, <1>2, <1>3, <1>4, FS_Surjection

(* validate_file counts no error exactly for a valid file. *)
LEMMA NoErrorMeansValid ==
  ASSUME NEW docs \in Seq(Documents)
  PROVE  validate_file(docs) \in Nat /\ (validate_file(docs) = 0 <=> Valid(docs))
<1> DEFINE Errors == {error \in (DOMAIN docs) \X Range(SCHEMAS) : Breaks(docs[error[1]], error[2])}
<1>1. IsFiniteSet((DOMAIN docs) \X Range(SCHEMAS))
  <2>1. DOMAIN docs = 1 .. Len(docs) /\ Len(docs) \in Nat
    OBVIOUS
  <2>2. IsFiniteSet(1 .. Len(docs))
    BY <2>1, FS_Interval
  <2> HIDE DEF Errors
  <2> QED
    BY <2>1, <2>2, SchemaList, FS_Product
<1>2. IsFiniteSet(Errors)
  BY <1>1, FS_Subset, Errors \in SUBSET ((DOMAIN docs) \X Range(SCHEMAS))
<1>3. Errors = {} <=> \A i \in DOMAIN docs, s \in Range(SCHEMAS) : ~Breaks(docs[i], s)
  <2>1. ASSUME NEW i \in DOMAIN docs, NEW s \in Range(SCHEMAS), Breaks(docs[i], s)
        PROVE  <<i, s>> \in Errors
    BY <2>1
  <2>2. ASSUME NEW error \in Errors
        PROVE  /\ error[1] \in DOMAIN docs /\ error[2] \in Range(SCHEMAS)
               /\ Breaks(docs[error[1]], error[2])
    BY <2>2
  <2> QED
    BY <2>1, <2>2
<1>4. (\A i \in DOMAIN docs, s \in Range(SCHEMAS) : ~Breaks(docs[i], s)) <=> Valid(docs)
  <2>1. ASSUME NEW i \in DOMAIN docs, docs[i].schema # "none"
        PROVE  Shared \cup {docs[i].schema} \subseteq Range(SCHEMAS)
    <3>1. docs[i] \in Documents
      BY <2>1
    <3>2. docs[i].schema \in Range(SCHEMAS)
      BY <2>1, <3>1 DEF Documents
    <3> QED
      BY <3>2, BackstageAssumption
  <2> QED
    BY <2>1 DEF Valid, Breaks, Range
<1> QED
  BY <1>2, <1>3, <1>4, FS_CardinalityType, FS_EmptySet DEF validate_file

(* One schema more is registered, and it was not registered before. *)
LEMMA RegisteredOneMore ==
  ASSUME RegistryInv, phase = "fetching", NEW revision, Registered(revision), FetchedAll
  PROVE  /\ NextSchema \in Range(SCHEMAS)
         /\ DOMAIN registry' = DOMAIN registry \cup {NextSchema}
         /\ registry'[NextSchema] = revision
         /\ \A s \in DOMAIN registry : registry'[s] = registry[s]
         /\ IsFiniteSet(DOMAIN registry') /\ Cardinality(DOMAIN registry') = Loaded + 1
         /\ DOMAIN registry' = {SCHEMAS[i] : i \in 1 .. Loaded + 1}
         /\ phase' = IF Loaded + 1 = Len(SCHEMAS) THEN "judging" ELSE "fetching"
<1>1. Loaded \in Nat /\ Loaded < Len(SCHEMAS) /\ Loaded + 1 \in 1 .. Len(SCHEMAS)
  BY FS_CardinalityType, SchemaList DEF RegistryInv, Loaded
<1>2. NextSchema = SCHEMAS[Loaded + 1] /\ NextSchema \in Range(SCHEMAS)
  BY <1>1, SchemaList DEF NextSchema, Loaded
<1>3. NextSchema \notin DOMAIN registry
  <2>1. \A i \in 1 .. Loaded : SCHEMAS[i] # SCHEMAS[Loaded + 1]
    BY <1>1, SchemaList, BackstageAssumption DEF IsInjective
  <2> QED
    BY <1>2, <2>1 DEF RegistryInv
<1>4. /\ DOMAIN registry' = DOMAIN registry \cup {NextSchema}
      /\ registry'[NextSchema] = revision
      /\ \A s \in DOMAIN registry : registry'[s] = registry[s]
  BY <1>3 DEF Registered
<1>5. IsFiniteSet(DOMAIN registry') /\ Cardinality(DOMAIN registry') = Loaded + 1
  BY <1>3, <1>4, FS_AddElement DEF RegistryInv, Loaded
<1>6. DOMAIN registry' = {SCHEMAS[i] : i \in 1 .. Loaded + 1}
  <2>1. 1 .. Loaded + 1 = (1 .. Loaded) \cup {Loaded + 1}
    BY <1>1
  <2> QED
    BY <1>2, <1>4, <2>1 DEF RegistryInv
<1> QED
  BY <1>2, <1>4, <1>5, <1>6 DEF FetchedAll

-----------------------------------------------------------------------------
(* No file is judged yet, no schema loaded and nothing cached at the start. *)
AtRest ==
  /\ master = 1 /\ cache = [s \in Range(SCHEMAS) |-> 0] /\ cachedFor = {}
  /\ args = NoArgs /\ registry = <<>> /\ total = 0 /\ judged = 0
  /\ phase = "idle" /\ started \in 0 .. MaxRuns

LEMMA RestHolds == AtRest => BackstageInv
<1> SUFFICES ASSUME AtRest PROVE BackstageInv
  OBVIOUS
<1>1. DOMAIN registry = {}
  <2>1. registry = <<>> /\ Len(registry) = 0
    BY DEF AtRest
  <2> QED
    BY <2>1
<1>2. IsFiniteSet(DOMAIN registry) /\ Loaded = 0
  BY <1>1, FS_EmptySet DEF Loaded
<1>3. TypesInv
  BY <1>1, BackstageAssumption DEF AtRest, TypesInv, NoArgs, Cut
<1>4. RegistryInv
  BY <1>1, <1>2, SchemaList DEF AtRest, RegistryInv, Judged
<1>5. JudgeInv /\ CacheInv /\ PinnedToItsTag
  BY <1>1 DEF AtRest, JudgeInv, Judged, CacheInv, PinnedToItsTag, NoArgs
<1> QED
  BY <1>3, <1>4, <1>5 DEF BackstageInv

LEMMA InitHolds == BackstageInit => BackstageInv
<1>1. BackstageInit => AtRest
  BY BackstageAssumption DEF BackstageInit, AtRest
<1> QED
  BY <1>1, RestHolds

(* Every action keeps the types. *)
LEMMA TypesKept == BackstageInv /\ [BackstageNext]_backstageVars => TypesInv'
<1> SUFFICES ASSUME BackstageInv, [BackstageNext]_backstageVars PROVE TypesInv'
  OBVIOUS
<1> USE BackstageAssumption DEF BackstageInv, TypesInv
<1>1. CASE Push
  BY <1>1 DEF Push
<1>2. CASE Invoke
  <2>1. DOMAIN registry' = {}
    <3>1. registry' = <<>> /\ Len(registry') = 0
      BY <1>2 DEF Invoke
    <3> QED
      BY <3>1
  <2> QED
    BY <1>2, <2>1 DEF Invoke
<1>3. CASE ReadCached
  <2>1. CASE cache[NextSchema] = Cut
    BY <1>3, <2>1 DEF ReadCached
  <2>2. CASE cache[NextSchema] # Cut
    <3>1. Registered(cache[NextSchema]) /\ FetchedAll /\ phase = "fetching" /\ cache[NextSchema] # 0
      BY <1>3, <2>2 DEF ReadCached, FromCache
    <3>2. NextSchema \in Range(SCHEMAS)
      BY <3>1, RegisteredOneMore
    <3>3. cache[NextSchema] \in 1 .. MaxRevision
      <4>1. cache[NextSchema] \in 0 .. MaxRevision + 1
        BY <3>2 DEF Cut
      <4>2. cache[NextSchema] # 0 /\ cache[NextSchema] # MaxRevision + 1
        BY <2>2, <3>1 DEF Cut
      <4> HIDE DEF BackstageInv, TypesInv
      <4> QED
        BY <4>1, <4>2
    <3>4. \A s \in DOMAIN registry' : registry'[s] \in 1 .. MaxRevision
      BY <3>1, <3>3, RegisteredOneMore
    <3> QED
      BY <1>3, <3>4 DEF ReadCached
  <2> QED
    BY <2>1, <2>2
<1>4. CASE Download
  <2>1. Registered(RevisionAt(args.ref)) /\ FetchedAll /\ phase = "fetching"
    BY <1>4 DEF Download
  <2>2. NextSchema \in Range(SCHEMAS)
    BY <2>1, RegisteredOneMore
  <2>3. RevisionAt(args.ref) \in 1 .. MaxRevision
    BY DEF RevisionAt
  <2>4. \A s \in DOMAIN registry' : registry'[s] \in 1 .. MaxRevision
    <3>1. /\ DOMAIN registry' = DOMAIN registry \cup {NextSchema}
          /\ registry'[NextSchema] = RevisionAt(args.ref)
          /\ \A s \in DOMAIN registry : registry'[s] = registry[s]
      BY <2>1, RegisteredOneMore
    <3>2. \A s \in DOMAIN registry : registry[s] \in 1 .. MaxRevision
      OBVIOUS
    <3> QED
      BY <2>3, <3>1, <3>2
  <2>5. cache' \in [Range(SCHEMAS) -> 0 .. Cut]
    BY <1>4, <2>2, <2>3 DEF Download, Cut
  <2> QED
    BY <1>4, <2>4, <2>5 DEF Download
<1>5. CASE DownloadFails
  BY <1>5, SMTT(30) DEF DownloadFails, Cut
<1>6. CASE Judge
  <2>1. args.files \in Seq(Seq(Documents))
    <3>1. <<>> \in Seq(Seq(Documents))
      OBVIOUS
    <3> QED
      BY <3>1
  <2>2. args.files[judged + 1] \in Seq(Documents)
    BY <1>6, <2>1 DEF Judge
  <2>3. total' \in Nat
    BY <1>6, <2>2, NoErrorMeansValid, SMTT(30) DEF Judge
  <2> QED
    BY <1>6, <2>3 DEF Judge
<1>7. CASE Exit
  BY <1>7 DEF Exit
<1>8. CASE UNCHANGED backstageVars
  BY <1>8 DEF backstageVars
<1> QED
  BY <1>1, <1>2, <1>3, <1>4, <1>5, <1>6, <1>7, <1>8 DEF BackstageNext

(* A run registers the schemas in their order and judges with all of them. *)
LEMMA RegistryKept == BackstageInv /\ [BackstageNext]_backstageVars => RegistryInv'
<1> SUFFICES ASSUME BackstageInv, [BackstageNext]_backstageVars PROVE RegistryInv'
  OBVIOUS
<1> USE DEF BackstageInv
<1>1. CASE Invoke
  <2>1. DOMAIN registry' = {}
    <3>1. registry' = <<>> /\ Len(registry') = 0
      BY <1>1 DEF Invoke
    <3> QED
      BY <3>1
  <2>2. IsFiniteSet(DOMAIN registry') /\ Loaded' = 0
    BY <2>1, FS_EmptySet DEF Loaded
  <2> QED
    BY <1>1, <2>1, <2>2, SchemaList DEF Invoke, RegistryInv, Judged
<1>2. ASSUME NEW revision, Registered(revision), FetchedAll, phase = "fetching",
             UNCHANGED <<total, judged>>
      PROVE  RegistryInv'
  <2>1. Loaded \in Nat /\ Loaded < Len(SCHEMAS) /\ total = 0 /\ judged = 0
    BY <1>2, FS_CardinalityType DEF RegistryInv, Loaded
  <2>2. Loaded' = Loaded + 1
    BY <1>2, RegisteredOneMore DEF Loaded
  <2>3. IsFiniteSet(DOMAIN registry') /\ DOMAIN registry' = {SCHEMAS[i] : i \in 1 .. Loaded'}
    BY <1>2, <2>2, RegisteredOneMore
  <2>4. phase' = IF Loaded' = Len(SCHEMAS) THEN "judging" ELSE "fetching"
    BY <1>2, <2>2, RegisteredOneMore
  <2>5. Loaded' <= Len(SCHEMAS)
    BY <2>1, <2>2, SchemaList
  <2>6. phase' = "fetching" => Loaded' < Len(SCHEMAS) /\ total' = 0 /\ judged' = 0
    <3>1. phase' = "fetching" => Loaded' # Len(SCHEMAS)
      BY <2>4
    <3>2. Len(SCHEMAS) \in Nat /\ Loaded' \in Nat /\ Loaded' <= Len(SCHEMAS)
      BY <2>1, <2>2, <2>5, SchemaList
    <3> QED
      BY <1>2, <2>1, <3>1, <3>2
  <2>7. phase' \in Judged => Loaded' = Len(SCHEMAS)
    BY <2>4 DEF Judged
  <2> QED
    BY <2>3, <2>5, <2>6, <2>7 DEF RegistryInv
<1>3. CASE ReadCached
  <2>1. CASE cache[NextSchema] = Cut
    BY <1>3, <2>1 DEF ReadCached, RegistryInv, Judged, Loaded
  <2>2. CASE cache[NextSchema] # Cut
    BY <1>2, <1>3, <2>2 DEF ReadCached
  <2> QED
    BY <2>1, <2>2
<1>4. CASE Download
  BY <1>2, <1>4 DEF Download
<1>5. CASE DownloadFails
  BY <1>5 DEF DownloadFails, RegistryInv, Judged, Loaded
<1>6. CASE Judge
  BY <1>6 DEF Judge, RegistryInv, Judged, Loaded
<1>7. CASE Exit
  BY <1>7 DEF Exit, RegistryInv, Judged, Loaded
<1>8. CASE Push \/ UNCHANGED backstageVars
  BY <1>8 DEF Push, backstageVars, RegistryInv, Judged, Loaded
<1> QED
  BY <1>1, <1>3, <1>4, <1>5, <1>6, <1>7, <1>8 DEF BackstageNext

(* The sum stays zero as long as the files are valid. *)
LEMMA JudgeKept == BackstageInv /\ [BackstageNext]_backstageVars => JudgeInv'
<1> SUFFICES ASSUME BackstageInv, [BackstageNext]_backstageVars PROVE JudgeInv'
  OBVIOUS
<1> USE DEF BackstageInv
<1>1. args.files \in Seq(Seq(Documents)) /\ Len(args.files) \in Nat /\ total \in Nat /\ judged \in Nat
  <2>1. <<>> \in Seq(Seq(Documents))
    OBVIOUS
  <2>2. args.files \in Seq(Seq(Documents))
    BY <2>1, BackstageAssumption DEF TypesInv
  <2> QED
    BY <2>2 DEF TypesInv
<1>2. CASE phase = "fetching" /\ UNCHANGED <<args, total, judged>> /\ phase' \notin {"ok", "errors"}
  BY <1>1, <1>2 DEF RegistryInv, JudgeInv
<1>3. ASSUME phase = "fetching", FetchedAll
      PROVE  phase' \notin {"ok", "errors"}
  BY <1>3 DEF FetchedAll
<1>4. CASE Invoke
  BY <1>4 DEF Invoke, JudgeInv, Judged
<1>5. CASE ReadCached
  BY <1>2, <1>3, <1>5 DEF ReadCached
<1>6. CASE Download
  BY <1>2, <1>3, <1>6 DEF Download
<1>7. CASE DownloadFails
  BY <1>2, <1>7 DEF DownloadFails
<1>8. CASE Judge
  <2> DEFINE docs == args.files[judged + 1]
  <2>1. /\ phase = "judging" /\ phase' = "judging" /\ judged < Len(args.files)
        /\ judged' = judged + 1 /\ total' = total + validate_file(docs)
        /\ UNCHANGED <<args, registry>>
    BY <1>8 DEF Judge
  <2>2. docs \in Seq(Documents)
    BY <1>1, <2>1
  <2>3. validate_file(docs) \in Nat /\ (validate_file(docs) = 0 <=> Valid(docs))
    BY <2>2, NoErrorMeansValid
  <2>4. total = 0 <=> \A k \in 1 .. judged : Valid(args.files[k])
    BY <2>1 DEF JudgeInv, Judged
  <2>5. total' = 0 <=> \A k \in 1 .. judged + 1 : Valid(args.files[k])
    <3>1. total' = 0 <=> total = 0 /\ validate_file(docs) = 0
      BY <1>1, <2>1, <2>3
    <3>2. 1 .. judged + 1 = (1 .. judged) \cup {judged + 1}
      BY <1>1
    <3> QED
      BY <2>3, <2>4, <3>1, <3>2
  <2>6. total' = 0 <=> \A k \in 1 .. judged' : Valid(args.files[k])'
    BY <2>1, <2>5 DEF Valid
  <2>7. judged' <= Len(args'.files) /\ phase' \notin {"ok", "errors"}
    BY <1>1, <2>1
  <2> QED
    BY <2>1, <2>6, <2>7 DEF JudgeInv
<1>9. CASE Exit
  <2>1. /\ phase = "judging" /\ judged = Len(args.files)
        /\ phase' = IF total > 0 THEN "errors" ELSE "ok"
        /\ UNCHANGED <<args, registry, total, judged>>
    BY <1>9 DEF Exit
  <2> QED
    BY <1>1, <2>1 DEF JudgeInv, Judged, Valid
<1>10. CASE Push \/ UNCHANGED backstageVars
  BY <1>10 DEF Push, backstageVars, JudgeInv, Valid
<1> QED
  BY <1>4, <1>5, <1>6, <1>7, <1>8, <1>9, <1>10 DEF BackstageNext

(* Only a run for the tag writes into a cache that no other run has used. *)
LEMMA CacheKept == BackstageInv /\ [BackstageNext]_backstageVars => CacheInv'
<1> SUFFICES ASSUME BackstageInv, [BackstageNext]_backstageVars PROVE CacheInv'
  OBVIOUS
<1> USE DEF BackstageInv, CacheInv
<1>1. CASE Invoke
  BY <1>1 DEF Invoke
<1>2. CASE ReadCached
  BY <1>2 DEF ReadCached
<1>3. CASE Download
  <2>1. UNCHANGED <<cachedFor, args>>
    BY <1>3 DEF Download
  <2>2. CASE cachedFor \subseteq {"tag"} /\ args.useCache
    <3>1. args.ref = "tag"
      BY <2>2
    <3>2. cache' = [cache EXCEPT ![NextSchema] = 1]
      BY <1>3, <2>2, <3>1 DEF Download, RevisionAt
    <3> QED
      BY <2>1, <3>2 DEF TypesInv
  <2>3. CASE ~args.useCache
    BY <1>3, <2>1, <2>3 DEF Download
  <2> QED
    BY <2>1, <2>2, <2>3
<1>4. CASE DownloadFails
  BY <1>4 DEF DownloadFails, TypesInv
<1>5. CASE Push \/ Judge \/ Exit \/ UNCHANGED backstageVars
  BY <1>5 DEF Push, Judge, Exit, backstageVars
<1> QED
  BY <1>1, <1>2, <1>3, <1>4, <1>5 DEF BackstageNext

(* A run for the tag only registers what is at the tag. *)
LEMMA PinKept == BackstageInv /\ [BackstageNext]_backstageVars => PinnedToItsTag'
<1> SUFFICES ASSUME BackstageInv, [BackstageNext]_backstageVars PROVE PinnedToItsTag'
  OBVIOUS
<1> USE DEF BackstageInv
<1>1. CASE Invoke
  <2>1. DOMAIN registry' = {}
    <3>1. registry' = <<>> /\ Len(registry') = 0
      BY <1>1 DEF Invoke
    <3> QED
      BY <3>1
  <2> QED
    BY <2>1 DEF PinnedToItsTag
<1>2. ASSUME NEW revision, Registered(revision), FetchedAll, phase = "fetching",
             UNCHANGED <<args, cachedFor>>,
             args.ref = "tag" /\ (args.useCache => cachedFor = {"tag"}) => revision = 1
      PROVE  PinnedToItsTag'
  BY <1>2, RegisteredOneMore DEF PinnedToItsTag
<1>3. CASE ReadCached
  <2>1. CASE cache[NextSchema] = Cut
    BY <1>3, <2>1 DEF ReadCached, PinnedToItsTag
  <2>2. CASE cache[NextSchema] # Cut
    <3>1. Registered(cache[NextSchema]) /\ FetchedAll /\ phase = "fetching"
          /\ args.useCache /\ cache[NextSchema] # 0 /\ UNCHANGED <<args, cachedFor>>
      BY <1>3, <2>2 DEF ReadCached, FromCache
    <3>2. NextSchema \in Range(SCHEMAS)
      BY <3>1, RegisteredOneMore
    <3>3. args.ref = "tag" /\ (args.useCache => cachedFor = {"tag"}) => cache[NextSchema] = 1
      BY <2>2, <3>1, <3>2 DEF CacheInv
    <3> QED
      BY <1>2, <3>1, <3>3
  <2> QED
    BY <2>1, <2>2
<1>4. CASE Download
  BY <1>2, <1>4 DEF Download, RevisionAt
<1>5. CASE DownloadFails
  BY <1>5 DEF DownloadFails, PinnedToItsTag
<1>6. CASE Push \/ Judge \/ Exit \/ UNCHANGED backstageVars
  BY <1>6 DEF Push, Judge, Exit, backstageVars, PinnedToItsTag
<1> QED
  BY <1>1, <1>3, <1>4, <1>5, <1>6 DEF BackstageNext

-----------------------------------------------------------------------------
(* Every action keeps the five parts. *)
LEMMA BackstageStep == BackstageInv /\ [BackstageNext]_backstageVars => BackstageInv'
BY TypesKept, RegistryKept, JudgeKept, CacheKept, PinKept DEF BackstageInv

(* The strengthened invariant holds of every run of the script, whatever    *)
(* upstream does between two downloads and wherever a run before it was     *)
(* killed.                                                                  *)
THEOREM BackstageInvariant == BackstageSpec => []BackstageInv
BY InitHolds, BackstageStep, PTL DEF BackstageSpec

(* It gives the types. *)
LEMMA BackstageTypesHold == BackstageInv => BackstageTypeOK
<1> SUFFICES ASSUME BackstageInv PROVE BackstageTypeOK
  OBVIOUS
<1>1. phase \in {"judging", "ok", "errors"} => DOMAIN registry = Range(SCHEMAS)
  BY SchemaList DEF BackstageInv, RegistryInv, Judged
<1> QED
  BY <1>1 DEF BackstageInv, TypesInv, BackstageTypeOK

(* Types, and a verdict rests on a registry that holds every schema whole    *)
(* (validate-backstage.py:53-68): no schema an earlier run was killed over.  *)
THEOREM JudgesWithEverySchema == BackstageSpec => []BackstageTypeOK
BY BackstageInvariant, BackstageTypesHold, PTL

(* It gives the verdict: file by file, then document by document. *)
LEMMA GreenHolds == BackstageInv => GreenMeansValid
<1> SUFFICES ASSUME BackstageInv, phase \in {"ok", "errors"}
             PROVE  phase = "ok" <=> \A docs \in Range(args.files) : Valid(docs)
  BY DEF GreenMeansValid, Valid
<1>1. args.files \in Seq(Seq(Documents))
  <2>1. <<>> \in Seq(Seq(Documents))
    OBVIOUS
  <2> QED
    BY <2>1, BackstageAssumption DEF BackstageInv, TypesInv
<1>2. phase = "ok" <=> \A k \in 1 .. Len(args.files) : Valid(args.files[k])
  BY DEF BackstageInv, JudgeInv, Judged
<1>3. DOMAIN args.files = 1 .. Len(args.files)
  BY <1>1
<1>4. Range(args.files) = {args.files[k] : k \in 1 .. Len(args.files)}
  BY <1>3 DEF Range
<1> QED
  BY <1>2, <1>4

(* A run ends green exactly if every document of every file that has a       *)
(* schema breaks neither that one nor one it refers to (validate-backstage.  *)
(* py:75-111), however many files there are.                                 *)
THEOREM GreenIsValid == BackstageSpec => []GreenMeansValid
BY BackstageInvariant, GreenHolds, PTL

(* A run for a tag that takes no cache, or one no run has used for another   *)
(* ref, only ever registers what is at that tag (validate-backstage.py:55-65),*)
(* whatever upstream's master does meanwhile.                                *)
THEOREM TagPinsTheSchemas == BackstageSpec => []PinnedToItsTag
<1>1. BackstageInv => PinnedToItsTag
  BY DEF BackstageInv
<1> QED
  BY BackstageInvariant, <1>1, PTL

-----------------------------------------------------------------------------
(* Both scripts, each in its job. *)
HackInv == CrdInv /\ BackstageInv

(* A script that does not run rests where its invariant holds. *)
LEMMA HackInitHolds == Init => HackInv
<1>1. ASSUME CrdInit, Idle("manifests") PROVE HackInv
  <2>1. AtRest
    BY <1>1, BackstageAssumption DEF Idle, AtRest
  <2> QED
    BY <1>1, <2>1, CrdInitHolds, RestHolds DEF HackInv
<1>2. ASSUME BackstageInit, Idle("backstage") PROVE HackInv
  <2>1. crds = <<>> /\ Len(crds) = 0 /\ converted = 0 /\ crdExit = "failed" /\ verdict = "none"
    BY <1>2 DEF Idle
  <2>2. DOMAIN schemaFiles = {}
    <3>1. schemaFiles = <<>> /\ Len(schemaFiles) = 0
      BY <1>2 DEF Idle
    <3> QED
      BY <3>1
  <2>3. DOMAIN crds = {}
    BY <2>1
  <2>4. CrdTypesInv /\ FilesInv /\ VerdictInv
    BY <2>1, <2>2, <2>3 DEF CrdTypesInv, FilesInv, VerdictInv
  <2> QED
    BY <1>2, <2>4, InitHolds DEF CrdInv, HackInv
<1> QED
  BY <1>1, <1>2 DEF Init

(* A step of one job leaves the other as it is. *)
LEMMA HackStep == HackInv /\ [Next]_<<crdVars, backstageVars>> => HackInv'
<1> SUFFICES ASSUME HackInv, [Next]_<<crdVars, backstageVars>> PROVE HackInv'
  OBVIOUS
<1>1. [CrdNext]_crdVars /\ [BackstageNext]_backstageVars
  BY DEF Next
<1> QED
  BY <1>1, CrdStep, BackstageStep DEF HackInv

(* Types of both scripts, whichever job runs: nothing is judged in an empty  *)
(* directory or by a schema an earlier run was killed over (crd-schemas.py:  *)
(* 89, validate-backstage.py:63).                                            *)
THEOREM BothScriptsKeepTheirTypes == Spec => []TypeOK
<1>1. HackInv => TypeOK
  BY CrdTypesHold, BackstageTypesHold DEF HackInv, TypeOK
<1> QED
  BY HackInitHolds, HackStep, <1>1, PTL DEF Spec

(* And what both are for: a manifest the API server admits passes, and one    *)
(* that passes is admitted where its schema is tight and its version served  *)
(* (crd-schemas.py:36-59), green means valid, and a run for a tag judges by  *)
(* that tag (validate-backstage.py:55-111).                                  *)
THEOREM BothVerdictsAreRight ==
  Spec => [](PassesWhatTheServerAdmits /\ GreenMeansValid /\ PinnedToItsTag)
<1>1. HackInv => PassesWhatTheServerAdmits /\ GreenMeansValid /\ PinnedToItsTag
  BY VerdictIsTheServers, GreenHolds DEF HackInv, BackstageInv
<1> QED
  BY HackInitHolds, HackStep, <1>1, PTL DEF Spec

=============================================================================
