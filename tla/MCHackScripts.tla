---------------------------- MODULE MCHackScripts ----------------------------
(* crd-schemas.py and validate-backstage.py on small inputs. *)
EXTENDS HackScripts

\* Schemas of a Task's spec: closed, open, a map, with an int-or-string, with a property
\* literally named "properties", with validations under anyOf and not, a map of anything, one that
\* declares nothing, and one with a rule.
Object(properties) == [type |-> "object", properties |-> properties]
Root(spec) == Object([metadata |-> Object([name |-> Text]), spec |-> spec])
Closed  == Object([a |-> Text, b |-> Object([a |-> Text])])
Open    == With(Closed, Preserve, TRUE)
Map     == [type |-> "object", additionalProperties |-> Closed]
Number  == Object([a |-> With([anyOf |-> <<Integer, Text>>], IntOrString, TRUE)])
Params  == Object([properties |-> [type |-> "array", items |-> Object([a |-> Text])]])
Either  == With(With(Closed, "not", [required |-> {"a", "b"}]), "anyOf",
                <<[properties |-> [b |-> Text], required |-> {"a"}], [required |-> {"b"}]>>)
Free    == [type |-> "object", additionalProperties |-> [bool |-> TRUE]]

AString   == [type |-> "string"]
AnInteger == [type |-> "integer"]
Obj(fields) == [type |-> "object", fields |-> fields]
Arr(items)  == [type |-> "array", items |-> items]
Ruled   == With(Closed, Rules, {Obj([a |-> AString])})
Roots   == {Root(spec) : spec \in {Closed, Open, Map, Number, Params, Either, Free, Anything, Ruled}}

\* The nodes of these schemas, at most five below each other.
Height == 5
Below(nodes) == UNION {Shape(node) \cup Checks(node) : node \in nodes}
Down[i \in 0 .. Height] ==
  IF i = 0 THEN Roots \cup {ServerView(root) : root \in Roots}
  ELSE LET above == Down[i - 1] IN above \cup Below(above)
Shaped[i \in 0 .. Height] ==
  IF i = 0 THEN Roots \cup {ServerView(root) : root \in Roots}
  ELSE LET above == Shaped[i - 1] IN above \cup UNION {Shape(node) : node \in above}
Checked[i \in 0 .. Height] ==
  IF i = 0 THEN UNION {Checks(node) : node \in Shaped[Height]}
  ELSE LET above == Checked[i - 1] IN above \cup Below(above)
AllNodes == Down[Height]
Up[i \in 0 .. Height] ==
  IF i = 0 THEN {}
  ELSE LET lower == Up[i - 1] IN {node \in AllNodes : Below({node}) \subseteq lower}

TheLevels      == [i \in 1 .. Height |-> Up[i]]
TheStructure   == Shaped[Height]
TheValidations == Checked[Height]

Crd(kind, versions) == [isCrd |-> TRUE, kind |-> kind, group |-> "g", versions |-> versions]
Served(schema)   == [schema |-> schema, served |-> TRUE]
Unserved(schema) == [schema |-> schema, served |-> FALSE]
Other == [isCrd |-> FALSE]
\* One CRD, its second version not served and without a schema or with one; two CRDs of a kind, of
\* which the second changes a version, or drops one; no CRD.
TheSources ==
  {<<Crd("task", [v1 |-> Served(root), v2 |-> Unserved(NoSchema)]), Other>> : root \in Roots}
  \cup {<<Crd("task", [v1 |-> Served(Root(Closed)), v2 |-> Unserved(Root(Closed))])>>,
        <<Crd("task", [v1 |-> Served(Root(Open))]), Crd("task", [v1 |-> Served(Root(Closed))])>>,
        <<Crd("task", [v1 |-> Served(Root(Closed)), v2 |-> Served(Root(Open))]),
          Crd("task", [v1 |-> Served(Root(Closed))])>>,
        <<Other>>}

Leaves == {AString, AnInteger, Obj([a |-> AString]), Obj([x |-> AString])}
Specs == {Obj(<<>>), Obj([x |-> AString])}
         \cup {Obj([a |-> v]) : v \in Leaves} \cup {Obj([b |-> v]) : v \in Leaves}
         \cup {Obj([a |-> v, b |-> w]) : v, w \in Leaves}
         \cup {Obj([properties |-> Arr(<<v>>)]) : v \in Leaves}
TheManifests ==
  {[crd   |-> <<"task", "g", v>>,
    value |-> Obj([metadata |-> Obj([namespace |-> AString]), spec |-> spec])]
     : v \in {"v1", "v2"}, spec \in Specs}
  \cup {[crd |-> <<"pipeline", "g", "v1">>, value |-> Obj([spec |-> Obj([a |-> AString])])]}
Within(values) ==
  UNION {{v.fields[f] : f \in Fields(v)} \cup {v.items[i] : i \in Items(v)} : v \in values}
Parts[i \in 0 .. Height] ==
  IF i = 0 THEN {m.value : m \in TheManifests}
  ELSE LET whole == Parts[i - 1] IN whole \cup Within(whole)
TheValues == Parts[Height]

\* Two kinds, a shared schema; a document that is always right, one that breaks revision 2 of
\* what is shared, one that breaks its own schema at revision 1, one of an unknown kind.
Doc(schema, breaks) == [schema |-> schema, breaks |-> breaks]
Right   == Doc("Component", {})
Behind  == Doc("Template", {<<"common", 2>>})
Ahead   == Doc("Component", {<<"Component", 1>>})
Unknown == Doc("none", {<<"common", 1>>, <<"common", 2>>})
TheSchemas == <<"common", "Component", "Template">>
TheFiles == {<< <<Right, Unknown>>, <<Behind>> >>, << <<Ahead>>, <<Right>> >>}
==============================================================================
