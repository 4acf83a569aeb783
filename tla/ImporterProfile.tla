--------------------------- MODULE ImporterProfile ---------------------------
(***************************************************************************)
(* An importer outside its onboarding (api/v1/importers.py, lines 365-675):*)
(* the versions of its profile, and the documents uploaded for it, whose   *)
(* bytes are in a blob store that no transaction covers.  A request reads, *)
(* awaits and commits; a blob is written or deleted before the commit of   *)
(* the row that names it.                                                  *)
(***************************************************************************)
EXTENDS Naturals, Sequences, FiniteSets

CONSTANTS
  Edits,     \* ids of requests, each served once
  Fields,    \* the profile fields told apart
  NoBytes

ASSUME ProfileAssumption ==
  /\ "panel_layouts" \in Fields /\ NoBytes \notin Edits
  /\ IsFiniteSet(Edits) /\ "empty" \notin Edits

VARIABLES
  profiles,   \* the ImporterProfileModel rows by version
  docs,       \* the ImporterDocument rows of one type
  blobs,      \* the blob store; a key names a version, the file names agree
  edit        \* the requests: what they read and what they will write

fvars == <<profiles, docs, blobs, edit>>

-----------------------------------------------------------------------------
\* A field's value and a file's bytes are named by the request that brought
\* them.  fields and version are what will be inserted, doc the row a delete
\* has chosen, saw the document rows that were read.
Versions == 1..Cardinality(Edits)
NoEdit   == [pc |-> "none", fields |-> {}, version |-> 0, doc |-> <<>>, saw |-> {}]
Doc      == [version : Versions, by : Edits]

FInit ==
  /\ profiles = <<>> /\ docs = {}
  /\ blobs = [n \in Versions |-> NoBytes]
  /\ edit = [e \in Edits |-> NoEdit]

Goes(e, from, to) == edit[e].pc = from /\ edit' = [edit EXCEPT ![e] = to]
Ended == [NoEdit EXCEPT !.pc = "done"]

-----------------------------------------------------------------------------
\* update_importer: the fields given replace those of the latest version.
BeginUpdateImporter(e, fs) ==
  /\ Goes(e, "none", [NoEdit EXCEPT !.pc = "insert", !.fields = fs,
                                    !.version = Len(profiles) + 1])
  /\ UNCHANGED <<profiles, docs, blobs>>

\* sanitize_panel_layouts: the layouts without what is no field's name.
BeginSanitize(e) ==
  /\ profiles # <<>> /\ profiles[Len(profiles)]["panel_layouts"] # "empty"
  /\ Goes(e, "none", [NoEdit EXCEPT !.pc = "insert", !.fields = {"panel_layouts"},
                                    !.version = Len(profiles) + 1])
  /\ UNCHANGED <<profiles, docs, blobs>>

\* The new version, made when the previous one was read.  The version is
\* unique: a request that read the same latest version fails as a whole.
Made(e) == [f \in Fields |-> IF f \in edit[e].fields THEN e
                             ELSE IF edit[e].version = 1 THEN "empty"
                             ELSE profiles[edit[e].version - 1][f]]
InsertAnyway(e) ==    \* mutant: no unique constraint
  /\ Goes(e, "insert", Ended)
  /\ profiles' = Append(profiles, Made(e))
  /\ UNCHANGED <<docs, blobs>>
InsertProfile(e) ==
  /\ Goes(e, "insert", Ended)
  /\ profiles' = IF edit[e].version = Len(profiles) + 1 THEN Append(profiles, Made(e))
                 ELSE profiles
  /\ UNCHANGED <<docs, blobs>>

-----------------------------------------------------------------------------
\* upload_importer_document: the version after the highest one.
NextVersion(ds) == IF ds = {} THEN 1
                   ELSE 1 + CHOOSE v \in {d.version : d \in ds} : \A d \in ds : d.version <= v
BeginUploadDoc(e) ==
  /\ Goes(e, "none", [NoEdit EXCEPT !.pc = "put", !.version = NextVersion(docs), !.saw = docs])
  /\ UNCHANGED <<profiles, docs, blobs>>
PutBlob(e) ==
  /\ Goes(e, "put", [edit[e] EXCEPT !.pc = "row"])
  /\ blobs' = [blobs EXCEPT ![edit[e].version] = e]
  /\ UNCHANGED <<profiles, docs>>
CommitDoc(e) ==
  /\ Goes(e, "row", Ended)
  /\ docs' = docs \cup {[version |-> edit[e].version, by |-> e]}
  /\ UNCHANGED <<profiles, blobs>>

\* delete_importer_document: a row of the highest version, its blob first;
\* a blob that cannot be deleted is left.  Deleting a row that is gone fails.
BeginDelete(e) ==
  /\ docs # {}
  /\ \E d \in docs : /\ \A o \in docs : o.version <= d.version
                     /\ Goes(e, "none", [NoEdit EXCEPT !.pc = "unlink", !.doc = d, !.saw = docs,
                                                       !.version = d.version])
  /\ UNCHANGED <<profiles, docs, blobs>>
DeleteBlob(e) ==
  /\ Goes(e, "unlink", [edit[e] EXCEPT !.pc = "unrow"])
  /\ \/ blobs' = [blobs EXCEPT ![edit[e].version] = NoBytes]
     \/ UNCHANGED blobs
  /\ UNCHANGED <<profiles, docs>>
CommitDelete(e) ==
  /\ Goes(e, "unrow", Ended)
  /\ docs' = docs \ {edit[e].doc}
  /\ UNCHANGED <<profiles, blobs>>

FNext ==
  \E e \in Edits :
    \/ \E fs \in (SUBSET Fields) \ {{}} : BeginUpdateImporter(e, fs)
    \/ BeginSanitize(e) \/ InsertProfile(e)
    \/ BeginUploadDoc(e) \/ PutBlob(e) \/ CommitDoc(e)
    \/ BeginDelete(e) \/ DeleteBlob(e) \/ CommitDelete(e)

FSpec == FInit /\ [][FNext]_fvars

-----------------------------------------------------------------------------
\* The types of the variables.
FTypeOK ==
  /\ \A n \in DOMAIN profiles : profiles[n] \in [Fields -> Edits \cup {"empty"}]
  /\ docs \subseteq Doc
  /\ blobs \in [Versions -> Edits \cup {NoBytes}]
  /\ \A e \in Edits : edit[e].version \in 0..Cardinality(Edits) /\ edit[e].saw \subseteq Doc

\* No edit of a profile is lost: each version is its predecessor with fields
\* of a single request, although requests read the latest version long before
\* they insert theirs.
VersionsBuildOnEachOther ==
  \A n \in 2..Len(profiles) :
    LET changed == {f \in Fields : profiles[n][f] # profiles[n - 1][f]}
    IN /\ Cardinality({profiles[n][f] : f \in changed}) = 1
       /\ \A m \in 1..(n - 1), f \in changed, g \in Fields : profiles[m][g] # profiles[n][f]

\* The bytes behind a stored document change only while that document is
\* deleted, or by a request that chose its key before the document was
\* stored, or by one that found two documents of one version.
BytesChangeByARace ==
  \A d \in docs :
    d \in docs' /\ blobs[d.version] = d.by /\ blobs'[d.version] # d.by =>
      \E e \in Edits : /\ edit'[e] # edit[e] /\ edit[e].version = d.version
                       /\ \/ edit[e].doc = d
                          \/ d \notin edit[e].saw
                          \/ \E o \in edit[e].saw \ {d} : o.version = d.version

\* What importers entrust is kept: the edits of their profile, and, but for
\* these races, the bytes of their documents.
ProfilesAreKept == [][VersionsBuildOnEachOther' /\ BytesChangeByARace]_fvars
=============================================================================
