---------------------------- MODULE ArtifactStore ----------------------------
(***************************************************************************)
(* An ArtifactStore of infra/crossplane: the resources composition.yaml    *)
(* composes from the parameters a team submits and edits, Crossplane's     *)
(* reconciler that renders and applies them one by one, the providers that *)
(* bring each to the cloud, and infra/terraform's module as the reference  *)
(* for what the cloud should hold.                                         *)
(*                                                                         *)
(* Crossplane, its functions and the providers are not in the repository:  *)
(* the patch engine is the one of hack/render-composition.py, the rest is  *)
(* the least that xrd.yaml and composition.yaml rely on.                   *)
(***************************************************************************)
EXTENDS CompositionRender

CONSTANTS
  Parameters,   \* the parameter records a team may submit, optional ones left out
  MaxEdits,     \* bound: submissions, the first one included
  MaxCrashes    \* bound: restarts of Crossplane in the middle of a reconcile

ASSUME BoundsAssumption == MaxEdits \in Nat /\ MaxCrashes \in Nat

(* The types of xrd.yaml:32-51: versioning is a boolean, the others are strings. *)
ASSUME ParametersAssumption ==
  \A p \in Parameters : \A name \in DOMAIN p :
    IF name = "versioning" THEN \E b \in BOOLEAN : p[name] = Flag(b)
    ELSE p[name].text \in Seq(STRING) /\ p[name] = Text(p[name].text)

VARIABLES
  params,       \* the XR's parameters, None before the first submission
  asked,        \* history: every parameter record submitted so far
  job,          \* the reconcile in flight: parameters it read, next resource, status to write
  live,         \* managed resource objects in the cluster, by resource name
  cloud,        \* what each managed resource last made of the cloud
  status,       \* the XR's status
  edits, crashes

vars == <<params, asked, job, live, cloud, status, edits, crashes>>

-----------------------------------------------------------------------------
(* composition.yaml: patch sets, bases and patches. *)
From(from, to) == [type |-> "FromCompositeFieldPath", from |-> Path(from), to |-> Path(to),
                   transforms |-> <<>>]
PatchSet(name) == [type |-> "PatchSet", patchSetName |-> name]
ToXR == [type |-> "ToCompositeFieldPath"]
Combine(variables, fmt, to) ==
  [type |-> "CombineFromComposite", fmt |-> fmt, to |-> Path(to),
   variables |-> [i \in DOMAIN variables |-> Path(variables[i])]]

Parameter(name) == <<"spec", "parameters", name>>
ForProvider(name) == <<"spec", "forProvider", name>>
Component == From(<<"metadata", "name">>, <<"spec", "forProvider", "tags", "component">>)
ExternalName == <<"metadata", "annotations", "crossplane.io/external-name">>

Base(forProvider) == Dict([spec |-> Dict([forProvider |-> Dict(forProvider)])])
Selector == Dict([matchControllerRef |-> Flag(TRUE)])
Tags == Dict([tag \in {"managed-by"} |-> Text(<<"crossplane">>)])

MutatedBucketNameSet ==  \* Mutated form of BucketNameSet: the name without the uid
  <<Combine(<< <<"metadata", "name">> >>, <<Arg>>, ExternalName)>>
BucketNameSet ==
  <<Combine(<< <<"metadata", "name">>, <<"metadata", "uid">> >>,
            <<Arg, Word("-"), Arg>>, ExternalName)>>

PatchSets ==
  [name \in {"region", "bucket-name"} |->
     IF name = "region" THEN <<From(Parameter("region"), ForProvider("region"))>>
     ELSE BucketNameSet]

Bucket == [name |-> "bucket", base |-> Base([tags |-> Tags]),
           patches |-> <<PatchSet("region"), PatchSet("bucket-name"), Component, ToXR, ToXR>>]

MutatedBucketVersioning ==  \* Mutated form of BucketVersioning: the keys of the map unquoted
  [name |-> "bucket-versioning",
   base |-> Base([bucketSelector |-> Selector,
                  versioningConfiguration |-> Dict([status |-> Text(<<"Enabled">>)])]),
   patches |-> <<PatchSet("region"),
     [From(Parameter("versioning"),
           <<"spec", "forProvider", "versioningConfiguration", "status">>)
        EXCEPT !.transforms =
          <<[type |-> "map",
             map |-> [flag \in {<<"True">>, <<"False">>} |->
                        IF flag = <<"True">> THEN <<"Enabled">> ELSE <<"Suspended">>]]>>]>>]
BucketVersioning ==
  [name |-> "bucket-versioning",
   base |-> Base([bucketSelector |-> Selector,
                  versioningConfiguration |-> Dict([status |-> Text(<<"Enabled">>)])]),
   patches |-> <<PatchSet("region"),
     [From(Parameter("versioning"),
           <<"spec", "forProvider", "versioningConfiguration", "status">>)
        EXCEPT !.transforms =
          <<[type |-> "map",
             map |-> [flag \in {<<"true">>, <<"false">>} |->
                        IF flag = <<"true">> THEN <<"Enabled">> ELSE <<"Suspended">>]]>>]>>]

BucketEncryption ==
  [name |-> "bucket-encryption",
   base |-> Base([bucketSelector |-> Selector,
                  rule |-> List(<<Dict([sseAlgorithm |-> Text(<<"AES256">>),
                                        bucketKeyEnabled |-> Flag(TRUE)])>>)]),
   patches |-> <<PatchSet("region")>>]

BucketPublicAccessBlock ==
  [name |-> "bucket-public-access-block",
   base |-> Base([bucketSelector |-> Selector, blockPublicAcls |-> Flag(TRUE),
                  blockPublicPolicy |-> Flag(TRUE), ignorePublicAcls |-> Flag(TRUE),
                  restrictPublicBuckets |-> Flag(TRUE)]),
   patches |-> <<PatchSet("region")>>]

(* A policy document is the words of its statements, each opened by its Sid; *)
(* the empty document has no statement.                                      *)
OidcPatch ==
  Combine(<<Parameter("githubOidcProviderArn"), Parameter("githubRepository")>>,
          <<Word("GitHubActionsOIDC"), Arg, Arg>>, ForProvider("assumeRolePolicy"))
PrincipalPatch ==
  [From(Parameter("trustedPrincipalArn"), ForProvider("assumeRolePolicy"))
     EXCEPT !.transforms = <<[type |-> "string", fmt |-> <<Word("TrustedPrincipals"), Arg>>]>>]

MutatedRole ==  \* Mutated form of Role: the provider and the repository in each other's place
  [name |-> "role",
   base |-> Base([maxSessionDuration |-> Text(<<"3600">>), tags |-> Tags,
                  assumeRolePolicy |-> Text(<<>>)]),
   patches |-> <<Component, [OidcPatch EXCEPT !.variables = Reverse(@)], PrincipalPatch, ToXR>>]
Role ==
  [name |-> "role",
   base |-> Base([maxSessionDuration |-> Text(<<"3600">>), tags |-> Tags,
                  assumeRolePolicy |-> Text(<<>>)]),
   patches |-> <<Component, OidcPatch, PrincipalPatch, ToXR>>]

Policy ==
  [name |-> "policy",
   base |-> Base([tags |-> Tags, policy |-> Text(<<>>)]),
   patches |-> <<Component,
     Combine(<< <<"metadata", "name">>, <<"metadata", "uid">> >>,
             <<Word("ListBucket"), ArgAt(1), Word("-"), ArgAt(2),
               Word("ObjectReadWrite"), ArgAt(1), Word("-"), ArgAt(2), Word("/*")>>,
             ForProvider("policy"))>>]

RolePolicyAttachment ==
  [name |-> "role-policy-attachment",
   base |-> Base([roleSelector |-> Selector, policyArnSelector |-> Selector]),
   patches |-> <<>>]

Resources == <<Bucket, BucketVersioning, BucketEncryption, BucketPublicAccessBlock,
               Role, Policy, RolePolicyAttachment>>
ResourceNames == {Resources[i].name : i \in DOMAIN Resources}

(* What a provider waits for: the objects that a resource's selectors find. *)
WaitsFor ==
  [r \in ResourceNames |->
     LET base == (CHOOSE i \in DOMAIN Resources : Resources[i].name = r)
         has(key) == get_path(Resources[base].base, Path(ForProvider(key))) # None
     IN  (IF has("bucketSelector") THEN {"bucket"} ELSE {})
           \cup (IF has("roleSelector") THEN {"role"} ELSE {})
           \cup (IF has("policyArnSelector") THEN {"policy"} ELSE {})]

-----------------------------------------------------------------------------
(* The XR the reconciler reads.  xrd.yaml defaults versioning to true. *)
StoreName == <<"store">>
StoreUid  == <<"uid">>

Defaulted(p) ==
  [name \in DOMAIN p \cup {"versioning"} |-> IF name \in DOMAIN p THEN p[name] ELSE Flag(TRUE)]

XR(p) == Dict([metadata |-> Dict([name |-> Text(StoreName), namespace |-> Text(<<"team">>),
                                  uid |-> Text(StoreUid)]),
               spec |-> Dict([parameters |-> Dict(p)])])

(* The documents rendered from each version of the parameters. *)
Rendered == [p \in {Defaulted(q) : q \in Parameters} |->
               [i \in DOMAIN Resources |-> compose(XR(p), Resources[i], PatchSets)]]

(* The provider's status.atProvider.id is the external name. *)
BucketId == [doc \in UNION {ToSet(Rendered[p]) : p \in DOMAIN Rendered} |->
               get_path(doc, Path(ExternalName))]

(* ToCompositeFieldPath and function-auto-ready, from what was observed; the  *)
(* ARNs of bucket and role are copied like the name of the bucket.            *)
NoStatus == [bucketName |-> None, ready |-> FALSE]

MutatedObserved ==  \* Mutated form of Observed: composed is taken for ready
  [bucketName |-> IF cloud["bucket"] = None THEN None ELSE BucketId[cloud["bucket"]],
   ready |-> \A r \in ResourceNames : live[r] # None]
Observed ==
  [bucketName |-> IF cloud["bucket"] = None THEN None ELSE BucketId[cloud["bucket"]],
   ready |-> \A r \in ResourceNames : cloud[r] # None]

-----------------------------------------------------------------------------
NoJob == [busy |-> FALSE]

Init ==
  /\ params = None /\ asked = {}
  /\ job = NoJob
  /\ live = [r \in ResourceNames |-> None]
  /\ cloud = [r \in ResourceNames |-> None]
  /\ status = NoStatus
  /\ edits = 0 /\ crashes = 0

(* A team creates the XR or replaces its parameters. *)
Submit ==
  /\ edits < MaxEdits
  /\ \E p \in Parameters :
       /\ params' = Defaulted(p)
       /\ asked' = asked \cup {Defaulted(p)}
  /\ edits' = edits + 1
  /\ UNCHANGED <<job, live, cloud, status, crashes>>

(* A reconcile reads the XR and the observed resources once, and runs the pipeline on them. *)
Compose ==
  /\ ~job.busy /\ params # None
  /\ job' = [busy |-> TRUE, xr |-> params, next |-> 1, status |-> Observed]
  /\ UNCHANGED <<params, asked, live, cloud, status, edits, crashes>>

(* It applies the composed documents one after the other ... *)
Apply ==
  /\ job.busy /\ job.next <= Len(Resources)
  /\ live' = [live EXCEPT ![Resources[job.next].name] = Rendered[job.xr][job.next]]
  /\ job' = [job EXCEPT !.next = @ + 1]
  /\ UNCHANGED <<params, asked, cloud, status, edits, crashes>>

(* ... and then writes the status the pipeline returned. *)
Finish ==
  /\ job.busy /\ job.next > Len(Resources)
  /\ status' = job.status
  /\ job' = NoJob
  /\ UNCHANGED <<params, asked, live, cloud, edits, crashes>>

(* A restart loses the reconcile in flight; the XR is queued again. *)
Crash ==
  /\ job.busy /\ crashes < MaxCrashes
  /\ job' = NoJob
  /\ crashes' = crashes + 1
  /\ UNCHANGED <<params, asked, live, cloud, status, edits>>

(* A provider brings one managed resource to the cloud, once the objects its *)
(* selectors name are there.                                                 *)
Provide(r) ==
  /\ live[r] # None /\ cloud[r] # live[r]
  /\ \A d \in WaitsFor[r] : cloud[d] # None
  /\ cloud' = [cloud EXCEPT ![r] = live[r]]
  /\ UNCHANGED <<params, asked, job, live, status, edits, crashes>>

Reconcile == Compose \/ Apply \/ Finish
ProvideSome == \E r \in ResourceNames : Provide(r)

Next == Submit \/ Reconcile \/ Crash \/ ProvideSome

(* The reconciler's worker and the providers keep going; no team has to edit. *)
Fairness == WF_vars(Reconcile) /\ WF_vars(ProvideSome)

Spec == Init /\ [][Next]_vars /\ Fairness

-----------------------------------------------------------------------------
(* The Terraform module on the same parameters: what it would make of every  *)
(* setting.  Its random suffix stands for the uid; the tag that says which   *)
(* of the two tools manages a resource is left out.                          *)
Asks(p, name) == name \in DOMAIN p

PrincipalStatement(p) ==
  IF Asks(p, "trustedPrincipalArn")
  THEN <<"TrustedPrincipals">> \o p["trustedPrincipalArn"].text ELSE <<>>
OidcStatement(p) ==
  IF Asks(p, "githubOidcProviderArn") /\ Asks(p, "githubRepository")
  THEN <<"GitHubActionsOIDC">> \o p["githubOidcProviderArn"].text \o p["githubRepository"].text
  ELSE <<>>

(* The module refuses a provider without a repository: a null in a template. *)
Plannable(p) == Asks(p, "githubOidcProviderArn") => Asks(p, "githubRepository")

bucket_name == StoreName \o <<"-">> \o StoreUid

Access(bucket) ==
  Text(<<"ListBucket">> \o bucket \o <<"ObjectReadWrite">> \o bucket \o <<"/*">>)

PublicAccess ==
  {"blockPublicAcls", "blockPublicPolicy", "ignorePublicAcls", "restrictPublicBuckets"}
Tagged == {"bucket", "role", "policy"}

TerraformSettings(p) ==
  [bucketName   |-> Text(bucket_name),
   versioning   |-> Text(IF p["versioning"].flag THEN <<"Enabled">> ELSE <<"Suspended">>),
   encryption   |-> List(<<Dict([sseAlgorithm |-> Text(<<"AES256">>),
                                 bucketKeyEnabled |-> Flag(TRUE)])>>),
   publicAccess |-> [access \in PublicAccess |-> Flag(TRUE)],
   ownership    |-> {Text(<<"BucketOwnerEnforced">>)},
   roleName     |-> Text(StoreName \o <<"-", "artifact-store">>),
   trust        |-> Text(PrincipalStatement(p) \o OidcStatement(p)),
   session      |-> Text(<<"3600">>),
   policyName   |-> Text(StoreName \o <<"-", "artifact-store">>),
   document     |-> Access(bucket_name),
   components   |-> [r \in Tagged |-> Text(StoreName)]]

(* The same settings, as the cloud has them.  A resource without an external *)
(* name is called like its object.                                           *)
Setting(r, path) == get_path(cloud[r], Path(path))
NameInCloud(r) ==
  LET external == Setting(r, ExternalName)
  IN  IF external = None THEN Setting(r, <<"metadata", "name">>) ELSE external

CloudBucketName == NameInCloud("bucket")
CloudTrust      == Setting("role", ForProvider("assumeRolePolicy"))
CloudDocument   == Setting("policy", ForProvider("policy"))
CloudSettings ==
  [bucketName   |-> CloudBucketName,
   versioning   |-> Setting("bucket-versioning",
                            <<"spec", "forProvider", "versioningConfiguration", "status">>),
   encryption   |-> Setting("bucket-encryption", ForProvider("rule")),
   publicAccess |-> [access \in PublicAccess |->
                       Setting("bucket-public-access-block", ForProvider(access))],
   ownership    |-> {Setting(r, <<"spec", "forProvider", "rule", "objectOwnership">>) :
                       r \in ResourceNames} \ {None},
   roleName     |-> NameInCloud("role"),
   trust        |-> CloudTrust,
   session      |-> Setting("role", ForProvider("maxSessionDuration")),
   policyName   |-> NameInCloud("policy"),
   document     |-> CloudDocument,
   components   |-> [r \in Tagged |->
                       Setting(r, <<"spec", "forProvider", "tags", "component">>)]]

Differing(p) ==
  {s \in DOMAIN CloudSettings : CloudSettings[s] # TerraformSettings(p)[s]}

(* Where the two sides differ, although main.tf:3 and composition.yaml:3 say  *)
(* they match one for one: no composed resource controls the ownership of     *)
(* objects, role and policy have names of their own, and of two trusts that   *)
(* are asked for at once only the principal's is made, although xrd.yaml:42   *)
(* says that GitHub's is added to it.                                         *)
AsksBothTrusts(p) ==
  {"trustedPrincipalArn", "githubOidcProviderArn", "githubRepository"} \subseteq DOMAIN p
Divergences(p) ==
  {"ownership", "roleName", "policyName"} \cup (IF AsksBothTrusts(p) THEN {"trust"} ELSE {})

-----------------------------------------------------------------------------
(* The policy in the cloud grants access to the bucket of this very store    *)
(* and to no other, at every moment of every reconcile, although bucket and  *)
(* policy are named by two patches (composition.yaml:34-44 and 213-227) and  *)
(* provided by two providers, one possibly before the other.                 *)
GrantsItsBucketOnly ==
  cloud["bucket"] # None /\ cloud["policy"] # None =>
    CloudDocument = Access(CloudBucketName.text)

(* Nobody can assume the role whom no submitted version of the parameters     *)
(* asked for, however edits, restarts and applies interleave: every statement *)
(* of the trust in the cloud is one of a single version, never a provider of  *)
(* one with a repository of another.  Nor is a trust lost that every version  *)
(* asked for: a version's statements are all there, except that a version     *)
(* that asks for both trusts may be left with one of them, where              *)
(* xrd.yaml:42-45 promises both (composition.yaml:159-189).                   *)
TrustWasAsked ==
  cloud["role"] # None =>
    \E p \in asked :
      LET principal == PrincipalStatement(p)
          github    == OidcStatement(p)
      IN  \/ CloudTrust = Text(principal \o github)
          \/ AsksBothTrusts(p) /\ CloudTrust \in {Text(principal), Text(github)}

(* A store that reports itself ready (composition.yaml:243-246) is whole: all *)
(* seven resources are in the cloud, its policy is not the empty base, and    *)
(* its status names the bucket.                                               *)
ReadyMeansWhole ==
  status.ready =>
    /\ \A r \in ResourceNames : cloud[r] # None
    /\ CloudDocument # Text(<<>>)
    /\ status.bucketName = CloudBucketName

(* Once the team stops editing, the store reports itself ready and the cloud  *)
(* comes to hold every setting that the Terraform module would plan for the   *)
(* last parameters, but for the ones Divergences names.  What an earlier      *)
(* version asked for and the last one does not is gone: removing a parameter  *)
(* brings back the base of composition.yaml:157-158.                          *)
Settles ==
  <>[](params # None /\ Plannable(params) =>
         /\ \A r \in ResourceNames : cloud[r] # None
         /\ Differing(params) = Divergences(params)
         /\ AsksBothTrusts(params) => CloudTrust = Text(PrincipalStatement(params))
         /\ status.ready)
=============================================================================
