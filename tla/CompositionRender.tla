------------------------- MODULE CompositionRender -------------------------
(***************************************************************************)
(* hack/render-composition.py: how a Composition's patches turn the base   *)
(* of a resource and a composite resource (XR) into the composed object.   *)
(*                                                                         *)
(* YAML is a tree.  A node is a dict, a list, a piece of text or a flag,   *)
(* tagged by its kind so that nodes of different kinds can be compared.    *)
(* Text is a sequence of words: the code formats strings, and what the     *)
(* properties ask of a string is which values it was built from.  A path   *)
(* is a sequence of segments, names or list indexes.                       *)
(***************************************************************************)
EXTENDS Naturals, Sequences, SequencesExt, TLC

Dict(f) == [dict |-> f]
List(s) == [list |-> s]
Text(t) == [text |-> t]
Flag(b) == [flag |-> b]
None    == [none |-> TRUE]

IsDict(n) == DOMAIN n = {"dict"}
IsList(n) == DOMAIN n = {"list"}

(* Segments, and the path of a sequence of names. *)
Name(s)  == [name |-> s]
Index(i) == [index |-> i]
IsIndex(seg) == DOMAIN seg = {"index"}
Path(names)  == [i \in DOMAIN names |-> Name(names[i])]

-----------------------------------------------------------------------------
(* get_path: the nodes along the path, None from the first missing segment  *)
(* on, and the last of them.                                                *)
Child(cur, seg) ==
  IF IsIndex(seg)
  THEN IF IsList(cur) /\ seg.index < Len(cur.list) THEN cur.list[seg.index + 1] ELSE None
  ELSE IF IsDict(cur) /\ seg.name \in DOMAIN cur.dict THEN cur.dict[seg.name] ELSE None

Nodes(obj, path) ==
  LET node[i \in 0 .. Len(path)] == IF i = 0 THEN obj ELSE Child(node[i - 1], path[i])
  IN  node

get_path(obj, path) == Nodes(obj, path)[Len(path)]

(* set_path, from the last segment back: the nodes along the path, each with *)
(* the next one in its place.  A dict or a list that is missing on the way   *)
(* is made, and a list extended up to the index it needs.  A path through    *)
(* text is an error in the code; no patch of the repository has one.         *)
Entries(node)  == IF IsDict(node) THEN node.dict ELSE <<>>
Elements(node) == IF IsList(node) THEN node.list ELSE <<>>

With(node, seg, below, filler) ==
  IF IsIndex(seg)
  THEN LET list   == Elements(node)
           length == IF seg.index < Len(list) THEN Len(list) ELSE seg.index + 1
       IN  List([k \in 1 .. length |-> IF k = seg.index + 1 THEN below
                                       ELSE IF k \in DOMAIN list THEN list[k] ELSE filler])
  ELSE LET dict == Entries(node)
       IN  Dict([name \in DOMAIN dict \cup {seg.name} |->
                  IF name = seg.name THEN below ELSE dict[name]])

Filler(path, i) == IF i < Len(path) /\ ~IsIndex(path[i + 1]) THEN Dict(<<>>) ELSE List(<<>>)

(* What set_path leaves j segments before the end of the path: the value at the end itself. *)
Rebuilt(obj, path, value) ==
  LET n == Len(path)
      back[j \in 0 .. n] ==
        IF j = 0 THEN value
        ELSE With(Nodes(obj, path)[n - j], path[n - j + 1], back[j - 1], Filler(path, n - j + 1))
  IN  back

set_path(obj, path, value) == Rebuilt(obj, path, value)[Len(path)]

-----------------------------------------------------------------------------
(* go_format: a format is a sequence of words and verbs.  A verb without an *)
(* index takes the value after the last one taken, an explicit index moves  *)
(* that position.                                                           *)
Word(w) == [word |-> w]
Arg     == [arg |-> 0]
ArgAt(i) == [arg |-> i]

Formatted(s, verb, values) ==
  IF DOMAIN verb = {"word"}
  THEN [s EXCEPT !.text = Append(@, verb.word)]
  ELSE LET i == IF verb.arg = 0 THEN s.next ELSE verb.arg
       IN  [next |-> i + 1, text |-> s.text \o values[i]]

Formatting(fmt, values) ==
  LET state[i \in 0 .. Len(fmt)] ==
        IF i = 0 THEN [next |-> 1, text |-> <<>>] ELSE Formatted(state[i - 1], fmt[i], values)
  IN  state

go_format(fmt, values) == Formatting(fmt, values)[Len(fmt)].text

(* transform: a map falls back to the value it was given.  Python names a   *)
(* flag with a capital; only the key of a map is its lower-case name.       *)
Str(value) == IF DOMAIN value = {"flag"}
              THEN IF value.flag THEN <<"True">> ELSE <<"False">>
              ELSE value.text
Key(value) == IF DOMAIN value = {"flag"}
              THEN IF value.flag THEN <<"true">> ELSE <<"false">>
              ELSE Str(value)

Transformed(v, t) ==
  IF t.type = "map"
  THEN IF Key(v) \in DOMAIN t.map THEN Text(t.map[Key(v)]) ELSE v
  ELSE Text(go_format(t.fmt, <<Str(v)>>))

Transforming(value, transforms) ==
  LET v[i \in 0 .. Len(transforms)] ==
        IF i = 0 THEN value ELSE Transformed(v[i - 1], transforms[i])
  IN  v

transform(value, transforms) == Transforming(value, transforms)[Len(transforms)]

-----------------------------------------------------------------------------
(* One patch.  A patch whose source is missing leaves the target alone, a   *)
(* combination needs all its sources, and a patch towards the composite has *)
(* nothing to do with the target.                                           *)
Patched(xr, obj, p) ==
  CASE p.type = "FromCompositeFieldPath" ->
         LET value == get_path(xr, p.from)
         IN  IF value = None THEN obj
             ELSE set_path(obj, p.to, transform(value, p.transforms))
    [] p.type = "CombineFromComposite" ->
         LET values == [i \in DOMAIN p.variables |-> get_path(xr, p.variables[i])]
         IN  IF \E i \in DOMAIN values : values[i] = None THEN obj
             ELSE set_path(obj, p.to,
                    Text(go_format(p.fmt, [i \in DOMAIN values |-> Str(values[i])])))
    [] p.type = "ToCompositeFieldPath" -> obj

(* apply_patches, in the order of the list; Crossplane allows no patch set  *)
(* inside a patch set.                                                      *)
Patching(xr, target, set) ==
  LET obj[i \in 0 .. Len(set)] == IF i = 0 THEN target ELSE Patched(xr, obj[i - 1], set[i])
  IN  obj

Applied(xr, obj, p, patch_sets) ==
  IF p.type = "PatchSet"
  THEN LET set == patch_sets[p.patchSetName] IN Patching(xr, obj, set)[Len(set)]
  ELSE Patched(xr, obj, p)

Applying(xr, target, patches, patch_sets) ==
  LET obj[i \in 0 .. Len(patches)] ==
        IF i = 0 THEN target ELSE Applied(xr, obj[i - 1], patches[i], patch_sets)
  IN  obj

apply_patches(xr, target, patches, patch_sets) ==
  Applying(xr, target, patches, patch_sets)[Len(patches)]

(* The loop body of main: a copy of the base, named and placed like the XR, *)
(* then patched.  A resource is a record of its name, base and patches.     *)
compose(xr, res, patch_sets) ==
  LET xrName == get_path(xr, Path(<<"metadata", "name">>))
      xrNs   == get_path(xr, Path(<<"metadata", "namespace">>))
      named  == set_path(res.base, Path(<<"metadata", "name">>),
                         Text(xrName.text \o <<"-", res.name>>))
      placed == IF xrNs = None THEN named
                ELSE set_path(named, Path(<<"metadata", "namespace">>), xrNs)
  IN  apply_patches(xr, placed, res.patches, patch_sets)
=============================================================================
