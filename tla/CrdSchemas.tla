----------------------------- MODULE CrdSchemas -----------------------------
(***************************************************************************)
(* hack/crd-schemas.py: CustomResourceDefinitions converted to the strict  *)
(* JSON schemas that kubeconform judges the repository's manifests by, in  *)
(* the manifests job of .github/workflows/ci.yml.                          *)
(*                                                                         *)
(* A schema node is a function from its keywords to their values, a        *)
(* boolean schema is [bool |-> b].  A value is an object, an array, a      *)
(* string or an integer; what a string or an integer says is left out.     *)
(* Kinds are carried in lower case, as in file names.  What the code       *)
(* computes by recursion over a schema is a function on the nodes.         *)
(***************************************************************************)
EXTENDS Naturals, Sequences, Functions

CONSTANTS
  Levels,       \* the schema nodes of the CRDs: what lies below one is in an earlier set
  Structure,    \* the nodes that give a value its shape,
  Validations,  \* and those below allOf, anyOf, oneOf and not
  Values,       \* the values in the manifests, down to the last field and item
  Sources,      \* the documents the converter may be given, in order
  Manifests     \* the documents to judge: [crd |-> <<kind, group, version>>, value |-> ...]

VARIABLES
  crds,         \* the documents the converter was started with
  converted,    \* how many of them it has converted
  schemaFiles,  \* the files written: path |-> JSON schema
  crdExit,      \* "running", or how the converter ended: "ok", "failed"
  manifest,     \* the document to be judged
  verdict       \* kubeconform's: "none", "valid", "invalid"

crdVars == <<crds, converted, schemaFiles, crdExit, manifest, verdict>>

-----------------------------------------------------------------------------
Preserve    == "x-kubernetes-preserve-unknown-fields"
IntOrString == "x-kubernetes-int-or-string"
Rules       == "x-kubernetes-validations"    \* as the set of the values they refuse
Extensions  == {Preserve, IntOrString, Rules}
Junctors    == {"allOf", "anyOf", "oneOf"}
Keywords    == Extensions \cup Junctors
               \cup {"type", "required", "properties", "additionalProperties", "items", "not"}

Has(node, key)    == key \in DOMAIN node
IsTrue(node, key) == Has(node, key) /\ node[key] = TRUE
IsBool(node)      == DOMAIN node = {"bool"}
Without(f, keys)  == [k \in DOMAIN f \ keys |-> f[k]]
With(f, key, x)   == [k \in DOMAIN f \cup {key} |-> IF k = key THEN x ELSE f[k]]

Text    == [type |-> "string"]
Integer == [type |-> "integer"]
Anything == [type |-> "object"]
Nothing == [bool |-> FALSE]

(* Extensions that refuse values, list types for one, stand under Rules.      *)
(* x-kubernetes-embedded-resource, which makes three fields known without     *)
(* declaring them, is left out: the schemas considered do not have it.        *)

(* What lies below a node: the shape of fields and items, and validations. *)
Named(node) == IF Has(node, "properties") THEN DOMAIN node["properties"] ELSE {}
Shape(node) ==
  {node["properties"][f] : f \in Named(node)}
  \cup {node[key] : key \in DOMAIN node \cap {"items", "additionalProperties"}}
Checks(node) ==
  {node[key] : key \in DOMAIN node \cap {"not"}}
  \cup UNION {Range(node[key]) : key \in DOMAIN node \cap Junctors}

Nodes == UNION Range(Levels)

ASSUME NodesAssumption ==
  /\ Levels \in Seq(SUBSET Nodes)
  /\ \A i \in DOMAIN Levels : \A node \in Levels[i] :
       Shape(node) \cup Checks(node) \subseteq UNION {Levels[j] : j \in 1 .. i - 1}
  /\ \A node \in Nodes :
       IF IsBool(node) THEN node["bool"] \in BOOLEAN ELSE DOMAIN node \subseteq Keywords

(* The API server takes structural schemas only: every node that declares    *)
(* fields has a type, unless an extension stands for it, and validations     *)
(* carry neither the extensions nor the type of an object.  And an           *)
(* int-or-string has no oneOf of its own: line 56 would overwrite it.        *)
ASSUME StructuralAssumption ==
  /\ Structure \subseteq Nodes /\ Validations \subseteq Nodes
  /\ \A node \in Structure :
       /\ Shape(node) \subseteq Structure /\ Checks(node) \subseteq Validations
       /\ Has(node, "properties") =>
            Has(node, "type") \/ IsTrue(node, Preserve) \/ IsTrue(node, IntOrString)
       /\ IsTrue(node, IntOrString) => ~Has(node, "type") /\ ~Has(node, "oneOf")
  /\ \A node \in Validations :
       /\ Shape(node) \cup Checks(node) \subseteq Validations
       /\ ~IsTrue(node, IntOrString) /\ ~Has(node, Rules)
       /\ Has(node, "type") => node["type"] # "object"

Fields(v) == IF v.type = "object" THEN DOMAIN v.fields ELSE {}
Items(v)  == IF v.type = "array" THEN DOMAIN v.items ELSE {}

ASSUME ValuesAssumption ==
  \A v \in Values : /\ \A f \in Fields(v) : v.fields[f] \in Values
                    /\ \A i \in Items(v) : v.items[i] \in Values

-----------------------------------------------------------------------------
MutatedCloses(node, out) ==  \* Mutated form of Closes: a node without a type is closed too
  Has(out, "properties") /\ ~Has(out, "additionalProperties") /\ ~IsTrue(node, Preserve)
Closes(node, out) ==
  /\ Has(out, "type") /\ out["type"] = "object"
  /\ Has(out, "properties") /\ ~Has(out, "additionalProperties")
  /\ ~IsTrue(node, Preserve)

(* The value of a keyword, given what the nodes below become. *)
ConvertedValue(node, below, key) ==
  CASE key = "properties" -> [f \in Named(node) |-> below[node[key][f]]]
    [] key \in {"items", "additionalProperties", "not"} -> below[node[key]]
    [] key \in Junctors -> [i \in DOMAIN node[key] |-> below[node[key][i]]]
    [] OTHER -> node[key]

(* One node: the extensions go, and an object that declares properties is    *)
(* closed unless it preserves the rest.                                      *)
Converted(node, below) ==
  LET out   == [key \in DOMAIN node \ Extensions |-> ConvertedValue(node, below, key)]
      typed == IF IsTrue(node, IntOrString)
               THEN With(Without(out, {"type"}), "oneOf", <<Text, Integer>>) ELSE out
  IN  IF Closes(node, typed) THEN With(typed, "additionalProperties", Nothing) ELSE typed

to_json_schema[node \in Nodes] == Converted(node, to_json_schema)

(* The API server checks metadata itself: the schema's is relaxed. *)
Relaxed(js) ==
  IF "metadata" \in Named(js) /\ ~IsBool(js["properties"]["metadata"])
  THEN With(js, "properties", With(js["properties"], "metadata", Anything))
  ELSE js

(* The files one CRD is written to: one per version that has a schema.  A    *)
(* version is a record of its schema and whether the server serves it, which  *)
(* the code does not ask.                                                     *)
NoSchema == <<>>
PathsOf(doc) ==
  IF doc.isCrd
  THEN {<<doc.kind, doc.group, v>> :
          v \in {u \in DOMAIN doc.versions : doc.versions[u].schema # NoSchema}}
  ELSE {}
SchemaOf(doc, path) == doc.versions[path[3]].schema

-----------------------------------------------------------------------------
(* Whether a JSON schema accepts a value, given what the schemas below it accept. *)
FieldsFit(js, below, v) ==
  \A f \in Fields(v) :
    IF f \in Named(js) THEN below[js["properties"][f]][v.fields[f]]
    ELSE Has(js, "additionalProperties") => below[js["additionalProperties"]][v.fields[f]]

ItemsFit(js, below, v) ==
  Has(js, "items") => \A i \in Items(v) : below[js["items"]][v.items[i]]

ChecksHold(js, below, v) ==
  /\ Has(js, "not") => ~below[js["not"]][v]
  /\ Has(js, "allOf") => \A i \in DOMAIN js["allOf"] : below[js["allOf"][i]][v]
  /\ Has(js, "anyOf") => \E i \in DOMAIN js["anyOf"] : below[js["anyOf"][i]][v]
  /\ Has(js, "oneOf") =>
       \E i \in DOMAIN js["oneOf"] :
         \A j \in DOMAIN js["oneOf"] : below[js["oneOf"][j]][v] <=> i = j

Fits(js, below, v) ==
  IF IsBool(js) THEN js["bool"]
  ELSE /\ Has(js, "type") => v.type = js["type"]
       /\ Has(js, "required") /\ v.type = "object" => js["required"] \subseteq Fields(v)
       /\ FieldsFit(js, below, v) /\ ItemsFit(js, below, v) /\ ChecksHold(js, below, v)

(* kubeconform, on the JSON schemas it may be given. *)
JsonNodes == {to_json_schema[node] : node \in Nodes} \cup {Text, Integer, Nothing}
Accepts[js \in JsonNodes] == [v \in Values |-> Fits(js, Accepts, v)]

-----------------------------------------------------------------------------
CrdInit ==
  /\ crds \in Sources /\ converted = 0
  /\ schemaFiles = <<>> /\ crdExit = "running"
  /\ manifest \in Manifests /\ verdict = "none"

(* One document of a source: a CRD adds its files, another kind is ignored. *)
Convert ==
  /\ crdExit = "running" /\ converted < Len(crds)
  /\ LET doc == crds[converted + 1]
     IN  schemaFiles' = [path \in DOMAIN schemaFiles \cup PathsOf(doc) |->
                           IF path \in PathsOf(doc)
                           THEN Relaxed(to_json_schema[SchemaOf(doc, path)])
                           ELSE schemaFiles[path]]
  /\ converted' = converted + 1
  /\ UNCHANGED <<crds, crdExit, manifest, verdict>>

(* A source that cannot be downloaded ends the converter with a traceback. *)
LoadFails ==
  /\ crdExit = "running" /\ converted < Len(crds)
  /\ crdExit' = "failed"
  /\ UNCHANGED <<crds, converted, schemaFiles, manifest, verdict>>

ConverterExit ==
  /\ crdExit = "running" /\ converted = Len(crds)
  /\ crdExit' = IF DOMAIN schemaFiles # {} THEN "ok" ELSE "failed"
  /\ UNCHANGED <<crds, converted, schemaFiles, manifest, verdict>>

(* kubeconform runs in the same step of the job, if the converter succeeded; *)
(* a document without a schema is an error to it.                            *)
Kubeconform ==
  /\ crdExit = "ok" /\ verdict = "none"
  /\ verdict' = IF manifest.crd \in DOMAIN schemaFiles
                   /\ Accepts[schemaFiles[manifest.crd]][manifest.value]
                THEN "valid" ELSE "invalid"
  /\ UNCHANGED <<crds, converted, schemaFiles, crdExit, manifest>>

CrdNext == Convert \/ LoadFails \/ ConverterExit \/ Kubeconform

CrdSpec == CrdInit /\ [][CrdNext]_crdVars

-----------------------------------------------------------------------------
(* The API server under strict field validation, read from the CRD itself in *)
(* two passes.  Known: no field but those the schema nodes declare or an     *)
(* extension preserves, going down the structure alone; of an object that    *)
(* declares nothing no field is known.  Satisfied: every check passes, those *)
(* under junctors included, whatever other fields there are, and no rule     *)
(* refuses the value.                                                        *)
KnownGiven(node, below, v) ==
  IsBool(node) \/
    /\ \A f \in Fields(v) :
         IF f \in Named(node) THEN below[node["properties"][f]][v.fields[f]]
         ELSE IF Has(node, "additionalProperties")
         THEN below[node["additionalProperties"]][v.fields[f]]
         ELSE IsTrue(node, Preserve)
    /\ ItemsFit(node, below, v)
Known[node \in Nodes] == [v \in Values |-> KnownGiven(node, Known, v)]

SatisfiedGiven(node, below, v) ==
  /\ Fits(node, below, v)
  /\ IsTrue(node, IntOrString) => v.type \in {"string", "integer"}
  /\ Has(node, Rules) => v \notin node[Rules]
Satisfied[node \in Nodes] == [v \in Values |-> SatisfiedGiven(node, Satisfied, v)]

(* metadata is the server's own business, whatever the CRD says about it. *)
ServerView(schema) ==
  With(schema, "properties",
       With(schema["properties"], "metadata", With(Anything, Preserve, TRUE)))

Admits(schema, v) == Known[ServerView(schema)][v] /\ Satisfied[ServerView(schema)][v]

(* A schema in which the converter overlooks nothing: no object declares      *)
(* nothing, which the converter leaves open (lines 13-14), and there are no   *)
(* rules, which it drops (line 44).                                           *)
TightGiven(node, below) ==
  IsBool(node) \/
    /\ \/ Has(node, "properties") \/ Has(node, "additionalProperties")
       \/ IsTrue(node, Preserve) \/ IsTrue(node, IntOrString)
       \/ Has(node, "type") /\ node["type"] # "object"
    /\ ~Has(node, Rules)
    /\ \A n \in Shape(node) : below[n]
Tight[node \in Nodes] == TightGiven(node, Tight)

(* A CRD describes the metadata of its kind, if only as an object. *)
Described(schema) ==
  /\ schema \in Structure /\ ServerView(schema) \in Structure
  /\ ~IsBool(schema) /\ "metadata" \in Named(schema)
  /\ ~IsBool(schema["properties"]["metadata"])

ASSUME DocumentsAssumption ==
  /\ \A given \in Sources :
       /\ given \in Seq(Range(given))
       /\ \A i \in DOMAIN given :
            \A path \in PathsOf(given[i]) : Described(SchemaOf(given[i], path))
  /\ \A m \in Manifests : m.value \in Values

(* The CRD a file was last written from, and the CRD the server has of a kind *)
(* after all of them were applied in order: the last of each.                 *)
Writes(i, path) ==
  /\ path \in PathsOf(crds[i])
  /\ \A j \in DOMAIN crds : path \in PathsOf(crds[j]) => j <= i

OfKind(doc, path) == doc.isCrd /\ doc.kind = path[1] /\ doc.group = path[2]
Decides(i, path) ==
  /\ OfKind(crds[i], path)
  /\ \A j \in DOMAIN crds : OfKind(crds[j], path) => j <= i

(* apiextensions v1 wants a schema for every version that is served. *)
Offers(i, path) ==
  /\ Decides(i, path) /\ path \in PathsOf(crds[i])
  /\ crds[i].versions[path[3]].served

(* Types, and: a file stands for a version of a CRD converted so far, and     *)
(* nothing is judged before all are converted or in an empty directory        *)
(* (line 89).                                                                 *)
CrdTypeOK ==
  /\ converted \in 0 .. Len(crds)
  /\ crdExit \in {"running", "ok", "failed"} /\ verdict \in {"none", "valid", "invalid"}
  /\ DOMAIN schemaFiles = UNION {PathsOf(crds[i]) : i \in 1 .. converted}
  /\ \A path \in DOMAIN schemaFiles : schemaFiles[path] \in JsonNodes
  /\ verdict # "none" => crdExit = "ok" /\ converted = Len(crds) /\ DOMAIN schemaFiles # {}

(* A manifest the API server would admit with strict field validation passes  *)
(* the job, whatever the schemas look like.  A manifest that passes is judged *)
(* by the last CRD that has its version and, if this is the CRD the server    *)
(* has and serves the version from, and the converter overlooks nothing in    *)
(* its schema, would be admitted: no field the CRD leaves undeclared and no   *)
(* value it refuses (crd-schemas.py:36-59, 69-86).                            *)
PassesWhatTheServerAdmits ==
  verdict # "none" =>
    LET path        == manifest.crd
        admitted(i) == Admits(SchemaOf(crds[i], path), manifest.value)
        tight(i)    == Tight[ServerView(SchemaOf(crds[i], path))]
    IN  /\ (\E i \in DOMAIN crds : Offers(i, path) /\ admitted(i)) => verdict = "valid"
        /\ verdict = "valid" =>
             \E i \in DOMAIN crds :
               Writes(i, path) /\ (Offers(i, path) /\ tight(i) => admitted(i))
=============================================================================
