---------------------------- MODULE KnowledgeBase ----------------------------
(***************************************************************************)
(* Uploading, indexing and deleting the documents of a knowledge base      *)
(* (src/service/knowledge_base.ts, routes/storage_routes.ts): the file in  *)
(* S3, the Markdown copy of its text next to it, and its chunks in         *)
(* PostgreSQL.  No lock covers the three, and requests overlap: each       *)
(* awaited call is a step of its own.                                      *)
(*                                                                         *)
(* A document has versions 1, 2, ..; its text in version v makes the       *)
(* chunks {0, v}: 0 is the part no version changes, whose id, a hash of    *)
(* the content, stays the same.                                            *)
(***************************************************************************)
EXTENDS Integers, FiniteSets

CONSTANTS
  Documents,    \* uploaded files
  KbJobs,       \* requests that may be at work at one time
  LastVersion,  \* versions a document goes through
  MaxKbJobs,    \* how many requests there are (bounds the model)
  MaxKbFaults   \* how many calls fail (bounds the model)

ASSUME KbAssumption ==
  /\ LastVersion \in Nat \ {0} /\ MaxKbJobs \in Nat /\ MaxKbFaults \in Nat
  /\ \A d \in Documents : <<d, "md">> \notin Documents    \* the name of a copy is no document's

VARIABLES
  stored,    \* S3: the version of each key, 0 for none
  index,     \* the chunks of each key in the vector table
  job,       \* each request: [op, key, at, text, ids]
  kbJobs,    \* how many requests there have been
  kbFaults,
  \* history
  alone,     \* the request has had its key to itself
  heldBefore,    \* the chunks of the key when its last request began
  outcome    \* what the last request on the key answered, if all of it worked

kbVars == <<stored, index, job, kbJobs, kbFaults, alone, heldBefore, outcome>>

CopyOf(d) == <<d, "md">>
IsCopy(key) == key \notin Documents
FileKeys == Documents \union {CopyOf(d) : d \in Documents}
TextKey(key) == IF IsCopy(key) THEN key ELSE CopyOf(key)
Chunks(v) == IF v = 0 THEN {} ELSE {0, v}
NoJob == [op |-> "none", key |-> CHOOSE d \in Documents : TRUE, at |-> "idle", text |-> 0, ids |-> {}]

KbInit ==
  /\ stored = [key \in FileKeys |-> 0] /\ index = [key \in FileKeys |-> {}]
  /\ job = [j \in KbJobs |-> NoJob] /\ kbJobs = 0 /\ kbFaults = 0
  /\ alone = [j \in KbJobs |-> FALSE]
  /\ heldBefore = [key \in FileKeys |-> {}] /\ outcome = [key \in FileKeys |-> "unknown"]

\* The calls to the vector table: upsertMany(), delete(), deleteStaleChunks()
\* and deleteBySourceFile(), each one transaction.
Upsert(key, ids) == index' = [index EXCEPT ![key] = @ \union ids]
DeleteVectors(key, ids) == index' = [index EXCEPT ![key] = @ \ ids]
DeleteOthers(key, keepIds) == index' = [index EXCEPT ![key] = @ \intersect keepIds]
DeleteBySourceFile(key) == index' = [index EXCEPT ![key] = {}]
\* The calls to S3.
PutObjects(keys, v) == stored' = [key \in FileKeys |-> IF key \in keys THEN v ELSE stored[key]]
DeleteObject(key) == stored' = [stored EXCEPT ![key] = 0]
DeleteFolder == stored' = [key \in FileKeys |-> 0]

JobAt(j, op, place) == job[j].op = op /\ job[j].at = place
Fails == kbFaults < MaxKbFaults /\ kbFaults' = kbFaults + 1
Works == UNCHANGED kbFaults
JobStep(j, place) == job' = [job EXCEPT ![j].at = place] /\ UNCHANGED <<kbJobs, heldBefore>>
StepWith(j, place, text, ids) ==
  /\ job' = [job EXCEPT ![j] = [@ EXCEPT !.at = place, !.text = text, !.ids = ids]]
  /\ UNCHANGED <<kbJobs, heldBefore>>

\* The request is answered.
Answer(j, what) ==
  /\ job' = [job EXCEPT ![j] = NoJob]
  /\ outcome' = [outcome EXCEPT ![job[j].key] = IF alone[j] THEN what ELSE "unknown"]
  /\ UNCHANGED <<kbJobs, heldBefore, alone>>

-----------------------------------------------------------------------------
\* ragStatuses(): how a stored file shows in the list.
RagStatus(key) ==
  CASE index[key] # {} -> "indexed"
    [] IsCopy(key) /\ (stored[key[1]] # 0 \/ index[key[1]] # {}) -> "copy"
    [] OTHER -> "not_indexed"

\* A request comes in: an upload of the next version, one file of index_files
\* (chosen by the user, or found by unindexedKeys()), a deletion, or the script
\* that re-indexes every document of the table, or the deletion of the
\* workspace the knowledge base belongs to.
Request(j, op, key, v) ==
  LET meets(k) == op = "clear" \/ TextKey(k) = TextKey(key)
      others == {i \in KbJobs \ {j} : job[i].op = "clear" \/ (job[i].op # "none" /\ meets(job[i].key))}
  IN /\ job[j].op = "none" /\ kbJobs < MaxKbJobs /\ kbJobs' = kbJobs + 1
     /\ CASE op = "upload" -> ~IsCopy(key) /\ v \in 1 .. LastVersion
          [] op = "index" -> stored[key] # 0 /\ v = 0 /\ (IsCopy(key) => RagStatus(key) = "not_indexed")
          [] op = "delete" -> stored[key] # 0 /\ v = 0
          [] op = "reindex" -> index[key] # {} /\ v = 0
          [] op = "clear" -> ~IsCopy(key) /\ v = 0
     /\ job' = [job EXCEPT ![j] = [op |-> op, key |-> key, at |-> "begin", text |-> v, ids |-> {}]]
     /\ alone' = [i \in KbJobs |-> IF i = j THEN others = {} ELSE alone[i] /\ i \notin others]
     /\ heldBefore' = [heldBefore EXCEPT ![key] = index[key]]
     /\ outcome' = [k \in FileKeys |-> IF meets(k) THEN "unknown" ELSE outcome[k]]
     /\ UNCHANGED <<stored, index, kbFaults>>

\* uploadAndIndex(): the conversion; a file it fails on is stored all the same.
Convert(j) ==
  /\ JobAt(j, "upload", "begin")
  /\ \/ Works /\ StepWith(j, "embed", job[j].text, Chunks(job[j].text))
     \/ Fails /\ JobStep(j, "put")
  /\ UNCHANGED <<stored, index, alone, outcome>>

\* embedAndStore(): the chunks are embedded, then upserted in one transaction.
EmbedAndStore(j) ==
  LET key == job[j].key IN
  /\ job[j].at = "embed"
  /\ \/ /\ Works
        /\ Upsert(key, job[j].ids)
        /\ JobStep(j, IF job[j].op = "upload" THEN "put" ELSE "stale")
        /\ UNCHANGED <<alone, outcome>>
     \/ Fails /\ Answer(j, "failed") /\ UNCHANGED index
  /\ UNCHANGED stored

\* uploadAndGetUrls(): the file and its copy, at once; either may fail, and
\* then the chunks just stored are deleted again.
Put(j) ==
  LET key == job[j].key
      files == {key} \union (IF job[j].ids = {} THEN {} ELSE {CopyOf(key)})
  IN /\ JobAt(j, "upload", "put")
     /\ \/ Works /\ PutObjects(files, job[j].text) /\ JobStep(j, "stale")
        \/ /\ Fails
           /\ \E S \in SUBSET files : (S # files /\ PutObjects(S, job[j].text))
           /\ JobStep(j, "roll back")
     /\ UNCHANGED <<index, alone, outcome>>

\* What a request has done once its chunks are in; the script that rebuilds a
\* document from its own chunks reads no text.
Outcome(j) ==
  CASE job[j].op = "upload" -> IF job[j].ids = {} THEN "stored" ELSE "uploaded"
    [] job[j].text = 0 -> "unknown"
    [] OTHER -> "indexed"

\* Faulty variant, for mutation checks: what the new version dropped stays.
KeepStaleChunks(j) ==
  /\ job[j].at = "stale"
  /\ Works /\ UNCHANGED index
  /\ Answer(j, Outcome(j))
  /\ UNCHANGED stored

\* dropStaleChunks(): every chunk of the key that is not of this version.  An
\* error is only logged (the script's is not caught).
DropStaleChunks(j) ==
  LET key == job[j].key ids == job[j].ids IN
  /\ job[j].at = "stale"
  /\ \/ /\ Works
        /\ IF ids = {} THEN UNCHANGED index ELSE DeleteOthers(key, ids)
        /\ Answer(j, Outcome(j))
     \/ Fails /\ ids # {} /\ UNCHANGED index /\ Answer(j, "unknown")
  /\ UNCHANGED stored

\* The catch of uploadAndIndex(): all chunks of this version go, also those
\* the version before it had.
RollBack(j) ==
  /\ JobAt(j, "upload", "roll back")
  /\ \/ Works /\ DeleteVectors(job[j].key, job[j].ids)
     \/ Fails /\ job[j].ids # {} /\ UNCHANGED index
  /\ Answer(j, IF kbFaults' = kbFaults THEN "failed" ELSE "unknown")
  /\ UNCHANGED stored

-----------------------------------------------------------------------------
\* indexStoredFile(): the copy next to the file, else the file itself, which is
\* converted and its copy kept (an error of that is only logged).
ReadStored(j) ==
  LET key == job[j].key copy == stored[TextKey(key)] IN
  /\ JobAt(j, "index", "begin")
  /\ \/ /\ copy # 0 /\ Works
        /\ StepWith(j, "embed", copy, Chunks(copy))
        /\ UNCHANGED <<stored, alone, outcome>>
     \/ /\ copy = 0 /\ stored[key] # 0 /\ Works
        /\ StepWith(j, "copy", stored[key], Chunks(stored[key]))
        /\ UNCHANGED <<stored, alone, outcome>>
     \/ /\ copy = 0 /\ (Fails \/ (stored[key] = 0 /\ Works))
        /\ Answer(j, "failed") /\ UNCHANGED stored
  /\ UNCHANGED index

KeepCopy(j) ==
  /\ JobAt(j, "index", "copy")
  /\ \/ Works /\ PutObjects({TextKey(job[j].key)}, job[j].text)
     \/ Fails /\ UNCHANGED stored
  /\ JobStep(j, "embed")
  /\ UNCHANGED <<index, alone, outcome>>

\* reindexDocument(): from the copy, else from the chunks themselves.
ReadForReindex(j) ==
  LET key == job[j].key copy == stored[TextKey(key)] IN
  /\ JobAt(j, "reindex", "begin") /\ Works
  /\ IF copy = 0 /\ index[key] = {} THEN Answer(j, "unknown")
     ELSE /\ StepWith(j, "embed", copy, IF copy # 0 THEN Chunks(copy) ELSE index[key])
          /\ UNCHANGED <<alone, outcome>>
  /\ UNCHANGED <<stored, index>>

\* DELETE /delete: the file, then its chunks, whose error is only logged.  The
\* copy is a file of its own and stays.
RemoveFile(j) ==
  /\ JobAt(j, "delete", "begin")
  /\ \/ Works /\ DeleteObject(job[j].key) /\ JobStep(j, "unindex")
        /\ UNCHANGED <<alone, outcome>>
     \/ Fails /\ Answer(j, "unknown") /\ UNCHANGED stored
  /\ UNCHANGED index

Unindex(j) ==
  /\ JobAt(j, "delete", "unindex")
  /\ \/ Works /\ DeleteBySourceFile(job[j].key) /\ Answer(j, "deleted")
     \/ Fails /\ UNCHANGED index /\ Answer(j, "unknown")
  /\ UNCHANGED stored

\* deleteWorkspaceFiles(): the whole folder, then the chunks of every file the
\* table still lists; an error ends it.
ClearFolder(j) ==
  /\ JobAt(j, "clear", "begin")
  /\ \/ Works /\ DeleteFolder /\ JobStep(j, "clear index") /\ UNCHANGED <<alone, outcome>>
     \/ Fails /\ Answer(j, "unknown") /\ UNCHANGED stored
  /\ UNCHANGED index

ClearIndex(j) ==
  /\ JobAt(j, "clear", "clear index")
  /\ \/ /\ Works /\ \A key \in FileKeys : index[key] = {}
        /\ Answer(j, "deleted") /\ UNCHANGED index
     \/ /\ Works /\ \E key \in FileKeys : (index[key] # {} /\ DeleteBySourceFile(key))
        /\ JobStep(j, "clear index") /\ UNCHANGED <<alone, outcome>>
     \/ Fails /\ Answer(j, "unknown") /\ UNCHANGED index
  /\ UNCHANGED stored

KbNext ==
  \E j \in KbJobs :
    \/ \E op \in {"upload", "index", "delete", "reindex", "clear"}, key \in FileKeys, v \in 0 .. LastVersion :
         Request(j, op, key, v)
    \/ Convert(j) \/ EmbedAndStore(j) \/ Put(j) \/ DropStaleChunks(j) \/ RollBack(j)
    \/ ReadStored(j) \/ KeepCopy(j) \/ ReadForReindex(j)
    \/ RemoveFile(j) \/ Unindex(j) \/ ClearFolder(j) \/ ClearIndex(j)

KbSpec == KbInit /\ [][KbNext]_kbVars

-----------------------------------------------------------------------------
\* What a request that had its document to itself and was answered without an
\* error leaves: after an upload the search finds exactly the text of the
\* stored version; after indexing, exactly the text that is read; a file whose
\* text cannot be read keeps the index it had; a deleted one is not found, nor
\* anything in a folder that is cleared; and
\* a failed upload or indexing adds nothing to what is found.
SearchFollowsStorage ==
  \A key \in FileKeys :
    LET text == IF stored[TextKey(key)] # 0 THEN stored[TextKey(key)] ELSE stored[key] IN
    CASE outcome[key] = "uploaded" -> stored[key] # 0 /\ text = stored[key] /\ index[key] = Chunks(text)
      [] outcome[key] = "indexed"  -> text # 0 => index[key] = Chunks(text)
      [] outcome[key] = "stored"   -> stored[key] # 0 /\ index[key] = heldBefore[key]
      [] outcome[key] = "deleted"  -> stored[key] = 0 /\ index[key] = {}
      [] outcome[key] = "failed"   -> index[key] \subseteq heldBefore[key]
      [] OTHER -> TRUE

\* What storage_routes.ts says of chunks that outlive their file: "stale search
\* entries are dropped on the next re-index".
StaleEntriesAreDropped ==
  \A key \in FileKeys : outcome[key] = "indexed" /\ stored[key] = 0 => index[key] = {}
=============================================================================
