-------------------------- MODULE MCActionsPipeline --------------------------
(* Finite instances of ActionsPipeline: the requests runs are triggered with. *)
EXTENDS ActionsPipeline

Ask(branch, environment, skipTests, override) ==
    [branch |-> branch, environment |-> environment, skipTests |-> skipTests,
     override |-> override]

\* A release to production under a named tag, one to staging with skipped tests, and a feature
\* branch that pushes under the same name.
Mixed == {Ask("main", "production", FALSE, "name"), Ask("main", "staging", TRUE, ""),
          Ask("feature", "production", FALSE, "name")}

\* The operator gives the full SHA of the commit as image-tag-override.
FullSha == {Ask("main", "production", FALSE, "sha")}
==============================================================================
