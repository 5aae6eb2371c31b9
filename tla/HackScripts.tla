----------------------------- MODULE HackScripts -----------------------------
(***************************************************************************)
(* The two scripts of hack/ that decide a verdict of the CI.  They run in  *)
(* jobs of their own and share nothing, so a behaviour is a run of one     *)
(* job, beside an upstream that moves on.                                  *)
(***************************************************************************)
EXTENDS CrdSchemas, BackstageSchemas

Idle(job) ==
  \/ /\ job = "manifests"
     /\ master = 1 /\ cache = [s \in Range(SCHEMAS) |-> 0] /\ cachedFor = {}
     /\ args = NoArgs /\ registry = <<>> /\ total = 0 /\ judged = 0
     /\ phase = "idle" /\ started = MaxRuns
  \/ /\ job = "backstage"
     /\ crds = <<>> /\ converted = 0 /\ schemaFiles = <<>> /\ crdExit = "failed"
     /\ manifest = [crd |-> <<>>] /\ verdict = "none"

Init == (CrdInit /\ Idle("manifests")) \/ (BackstageInit /\ Idle("backstage"))

Next == \/ CrdNext /\ UNCHANGED backstageVars
        \/ BackstageNext /\ UNCHANGED crdVars

Spec == Init /\ [][Next]_<<crdVars, backstageVars>>

(* The types of both scripts, and that nothing is judged in an empty directory *)
(* or by a schema an earlier run was killed over (crd-schemas.py:89,           *)
(* validate-backstage.py:63).                                                  *)
TypeOK == CrdTypeOK /\ BackstageTypeOK
==============================================================================
