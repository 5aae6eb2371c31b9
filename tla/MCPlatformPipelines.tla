------------------------- MODULE MCPlatformPipelines -------------------------
(* Finite instances of PlatformPipelines: the requests runs are triggered with. *)
EXTENDS PlatformPipelines

Ask(platform, branch, environment, skipTests, override) ==
    [platform |-> platform, branch |-> branch, environment |-> environment,
     skipTests |-> skipTests, override |-> override]

\* On Jenkins a production build under a named tag, an untested staging build and an untested
\* feature build that pushes the same name; on Tekton and on Argo a tested production run and
\* an untested one.
Mixed ==
    {Ask("jenkins", "main", "production", FALSE, "name"),
     Ask("jenkins", "main", "staging", TRUE, ""),
     Ask("jenkins", "feature", "production", TRUE, "name"),
     Ask("tekton", "main", "production", FALSE, ""),
     Ask("tekton", "feature", "production", TRUE, ""),
     Ask("argo", "main", "production", FALSE, ""), Ask("argo", "main", "staging", TRUE, "")}
==============================================================================
