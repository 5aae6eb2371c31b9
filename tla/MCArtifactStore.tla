--------------------------- MODULE MCArtifactStore ---------------------------
(* Finite instances of ArtifactStore: the parameter records a team submits. *)
EXTENDS ArtifactStore

Region     == [region |-> Text(<<"eu-west-1">>)]
Principal  == [trustedPrincipalArn |-> Text(<<"ci-role">>)]
Provider   == [githubOidcProviderArn |-> Text(<<"oidc">>)]
Repository == [githubRepository |-> Text(<<"orders-api">>)]
Suspended  == [versioning |-> Flag(FALSE)]

\* The repository alone, which trusts nobody, the provider alone, which Terraform refuses, the
\* pair, a principal, and both trusts.
Versions ==
  {Region @@ Suspended @@ Repository, Region @@ Provider, Region @@ Provider @@ Repository,
   Region @@ Principal, Region @@ Principal @@ Provider @@ Repository}

\* Paths of render-composition.py on a tree with a list: what set_path writes get_path reads
\* back, other paths keep their value, and a list grows up to the index that is written.
Tree == Dict([a |-> List(<<Text(<<"x">>), Dict([b |-> Text(<<"y">>)])>>)])
Paths == {<<Name("a"), Index(0)>>, <<Name("a"), Index(1), Name("b")>>, <<Name("a"), Index(3), Name("c")>>,
          <<Name("d"), Index(1)>>, <<Name("e"), Name("f")>>}
ASSUME PathsOnATree ==
  \A p, q \in Paths : LET t == set_path(Tree, p, Text(<<"new">>))
                      IN  /\ get_path(t, p) = Text(<<"new">>)
                          /\ p # q => get_path(t, q) = get_path(Tree, q)

\* No patch writes through text: every node on its way is a dict or not there.
ASSUME PatchesWriteIntoDicts ==
  \A p \in DOMAIN Rendered, r \in DOMAIN Resources :
    \A j \in DOMAIN Resources[r].patches :
      LET patch == Resources[r].patches[j]
          nodes == Nodes(Rendered[p][r], patch.to)
      IN  "to" \in DOMAIN patch =>
            \A i \in 0 .. Len(patch.to) - 1 : IsDict(nodes[i]) \/ nodes[i] = None
=============================================================================
