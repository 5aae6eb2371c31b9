-------------------------- MODULE BackstageSchemas --------------------------
(***************************************************************************)
(* hack/validate-backstage.py: runs of the script one after the other on   *)
(* one checkout, each fetching the schemas from the upstream repository or *)
(* from a cache directory it shares with the others, then judging the      *)
(* documents.  Upstream's master moves on between two downloads; a tag     *)
(* stays at its revision.                                                  *)
(*                                                                         *)
(* The text of a schema is the revision it was downloaded at.  A document  *)
(* is the schema of its kind, if it has one, and the schemas and revisions *)
(* it breaks; placeholders are already rendered.                           *)
(***************************************************************************)
EXTENDS Naturals, Sequences, FiniteSets, Functions

CONSTANTS
  SCHEMAS,      \* the schema names, in the order they are fetched
  Shared,       \* those the schema of any kind refers to (Entity, EntityMeta, common)
  Files,        \* the files a run may be given: sequences of sequences of documents
  MaxRevision,  \* bound: revisions of upstream's master; the tag is at revision 1
  MaxRuns       \* bound: runs of the script

Documents == [schema : Range(SCHEMAS) \cup {"none"},
              breaks : SUBSET (Range(SCHEMAS) \X (1 .. MaxRevision))]

(* SCHEMAS is a dictionary that is not empty: no name is there twice. *)
ASSUME BackstageAssumption ==
  /\ MaxRevision \in Nat \ {0} /\ MaxRuns \in Nat
  /\ SCHEMAS \in Seq(Range(SCHEMAS)) /\ SCHEMAS # <<>> /\ IsInjective(SCHEMAS)
  /\ Shared \subseteq Range(SCHEMAS)
  /\ Files \subseteq Seq(Seq(Documents))

VARIABLES
  master,       \* revision of upstream's master
  cache,        \* schema name -> revision of the cached file, 0 if none, Cut if truncated
  cachedFor,    \* history: the refs of the runs that used the cache
  args,         \* the arguments of this run: ref, useCache, files
  registry,     \* schema name -> revision, for the schemas loaded so far
  total,        \* schema errors so far, and the files judged so far
  judged,
  phase,        \* "idle", "fetching", "judging", or the exit: "ok", "errors", "traceback"
  started       \* runs started

backstageVars == <<master, cache, cachedFor, args, registry, total, judged, phase, started>>

Cut == MaxRevision + 1
NoArgs == [ref |-> "none", useCache |-> FALSE, files |-> <<>>]

BackstageInit ==
  /\ master = 1
  /\ cache = [s \in Range(SCHEMAS) |-> 0] /\ cachedFor = {}
  /\ args = NoArgs /\ registry = <<>>
  /\ total = 0 /\ judged = 0 /\ phase = "idle" /\ started = 0

(* Upstream moves on, whatever this script is doing. *)
Push ==
  /\ master < MaxRevision /\ master' = master + 1
  /\ UNCHANGED <<cache, cachedFor, args, registry, total, judged, phase, started>>

(* main, up to fetch_schemas. *)
Invoke ==
  /\ phase \notin {"fetching", "judging"} /\ started < MaxRuns
  /\ \E ref \in {"master", "tag"}, useCache \in BOOLEAN, files \in Files :
       /\ args' = [ref |-> ref, useCache |-> useCache, files |-> files]
       /\ cachedFor' = IF useCache THEN cachedFor \cup {ref} ELSE cachedFor
  /\ registry' = <<>> /\ total' = 0 /\ judged' = 0 /\ phase' = "fetching"
  /\ started' = started + 1
  /\ UNCHANGED <<master, cache>>

-----------------------------------------------------------------------------
(* fetch_schemas, one schema at a time. *)
NextSchema == SCHEMAS[Cardinality(DOMAIN registry) + 1]
FromCache  == args.useCache /\ cache[NextSchema] # 0
MutatedRevisionAt(ref) ==  \* Mutated form of RevisionAt: the ref is not part of the address
  master
RevisionAt(ref) == IF ref = "tag" THEN 1 ELSE master

Registered(revision) ==
  registry' = [s \in DOMAIN registry \cup {NextSchema} |->
                 IF s = NextSchema THEN revision ELSE registry[s]]
FetchedAll == phase' = IF Cardinality(DOMAIN registry') = Len(SCHEMAS) THEN "judging" ELSE "fetching"

(* A cached file is taken whatever the ref; one that is cut does not parse. *)
MutatedReadCached ==  \* Mutated form of ReadCached: takes whatever the file holds
  /\ phase = "fetching" /\ FromCache
  /\ Registered(cache[NextSchema]) /\ FetchedAll
  /\ UNCHANGED <<master, cache, cachedFor, args, total, judged, started>>
ReadCached ==
  /\ phase = "fetching" /\ FromCache
  /\ IF cache[NextSchema] = Cut
     THEN phase' = "traceback" /\ UNCHANGED registry
     ELSE Registered(cache[NextSchema]) /\ FetchedAll
  /\ UNCHANGED <<master, cache, cachedFor, args, total, judged, started>>

Download ==
  /\ phase = "fetching" /\ ~FromCache
  /\ Registered(RevisionAt(args.ref)) /\ FetchedAll
  /\ cache' = IF args.useCache THEN [cache EXCEPT ![NextSchema] = RevisionAt(args.ref)] ELSE cache
  /\ UNCHANGED <<master, cachedFor, args, total, judged, started>>

(* No answer within 30 seconds, or the process is killed while it writes. *)
DownloadFails ==
  /\ phase = "fetching" /\ ~FromCache
  /\ phase' = "traceback"
  /\ \/ UNCHANGED cache
     \/ args.useCache /\ cache' = [cache EXCEPT ![NextSchema] = Cut]
  /\ UNCHANGED <<master, cachedFor, args, registry, total, judged, started>>

-----------------------------------------------------------------------------
(* validate_file: a document with a schema breaks that one, or one it refers to. *)
Breaks(doc, s) ==
  /\ doc.schema # "none"
  /\ s \in Shared \cup {doc.schema}
  /\ <<s, registry[s]>> \in doc.breaks

validate_file(docs) ==
  Cardinality({error \in (DOMAIN docs) \X Range(SCHEMAS) : Breaks(docs[error[1]], error[2])})

MutatedJudge ==  \* Mutated form of Judge: the last file decides
  /\ phase = "judging" /\ judged < Len(args.files)
  /\ total' = validate_file(args.files[judged + 1])
  /\ judged' = judged + 1
  /\ UNCHANGED <<master, cache, cachedFor, args, registry, phase, started>>
Judge ==
  /\ phase = "judging" /\ judged < Len(args.files)
  /\ total' = total + validate_file(args.files[judged + 1])
  /\ judged' = judged + 1
  /\ UNCHANGED <<master, cache, cachedFor, args, registry, phase, started>>

Exit ==
  /\ phase = "judging" /\ judged = Len(args.files)
  /\ phase' = IF total > 0 THEN "errors" ELSE "ok"
  /\ UNCHANGED <<master, cache, cachedFor, args, registry, total, judged, started>>

BackstageNext ==
  Push \/ Invoke \/ ReadCached \/ Download \/ DownloadFails \/ Judge \/ Exit

BackstageSpec == BackstageInit /\ [][BackstageNext]_backstageVars

-----------------------------------------------------------------------------
(* Types, and: a run judges with a whole registry of whole schemas, so a file *)
(* an earlier run was killed over is never part of a verdict (line 63).       *)
BackstageTypeOK ==
  /\ master \in 1 .. MaxRevision /\ started \in 0 .. MaxRuns
  /\ cache \in [Range(SCHEMAS) -> 0 .. Cut]
  /\ \A s \in DOMAIN registry : registry[s] \in 1 .. MaxRevision
  /\ phase \in {"judging", "ok", "errors"} => DOMAIN registry = Range(SCHEMAS)

(* A green run has found every document with a schema free of errors, in the  *)
(* first file as in the last, and a red one has found an error (lines 75-111).*)
(* Documents of other kinds are skipped and decide nothing.                   *)
GreenMeansValid ==
  phase \in {"ok", "errors"} =>
    (phase = "ok" <=> \A docs \in Range(args.files) : \A doc \in Range(docs) :
       doc.schema # "none" =>
         \A s \in Shared \cup {doc.schema} : <<s, registry[s]>> \notin doc.breaks)

(* "Pinned to a ref" (lines 4-5) holds for a tag without a cache, and for a   *)
(* cache no run has used with another ref: every schema is then the tag's,    *)
(* whatever upstream pushes between the downloads and however many runs       *)
(* failed half way before.                                                    *)
PinnedToItsTag ==
  args.ref = "tag" /\ (args.useCache => cachedFor = {"tag"}) =>
    \A s \in DOMAIN registry : registry[s] = 1
=============================================================================
