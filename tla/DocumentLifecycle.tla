-------------------------- MODULE DocumentLifecycle --------------------------
(***************************************************************************)
(* The life of a document: upload (ingestion), processing (chunking and    *)
(* embedding) and deletion, as HTTP requests that run concurrently.        *)
(*                                                                         *)
(* Every request works in ONE database transaction, opened by get_db and   *)
(* ended by get_db_session: commit when the endpoint returns, rollback     *)
(* when anything is raised.  A request's own writes are kept in tx[r]      *)
(* until then; the shared tables (row, chunks, embs) change only at a      *)
(* commit.  The file storage and the in-memory vector store are outside    *)
(* the transaction: they change at once and no rollback undoes them.       *)
(*                                                                         *)
(* One step of this specification is the code between two awaits that can  *)
(* let another request run: a statement sent to the database, the call to  *)
(* the embedding provider, a file operation in a worker thread.            *)
(*                                                                         *)
(* Identifiers are uuid4 values; a document is named by the upload request *)
(* that created it and a batch of chunks by the process request that       *)
(* inserted it.  create_with_version is the only code that inserts a       *)
(* version, so a document and its version 1 are one row here, together     *)
(* with the ingestion job the upload created for it.                       *)
(***************************************************************************)
EXTENDS Naturals, FiniteSets

CONSTANTS
  Requests,     \* the HTTP requests of a behaviour, each served at most once
  Tenants,      \* tenant identifiers
  Hashes,       \* SHA-256 digests of uploaded contents
  Admin,        \* the caller that may act for every tenant
  Nil,          \* an attribute that has no value
  InMemory      \* TRUE: the singleton in-memory vector store; FALSE: pgvector

ASSUME ConstantsOK ==
  /\ Admin \notin Tenants
  /\ Nil \notin Requests \cup Tenants \cup Hashes \cup {Admin}
  /\ InMemory \in BOOLEAN

VARIABLES
  req,       \* what each request is, where it stands and what it answers
  tx,        \* the uncommitted writes of each request's transaction
  row,       \* committed document + version + job: their two status columns
  chunks,    \* committed document_chunks: the batches present for a document
  embs,      \* committed chunk_embeddings (pgvector): the batches embedded
  vectors,   \* batches in the in-memory vector store of the process
  files      \* documents whose uploaded file is on the disk

db   == <<row, chunks, embs>>
vars == <<req, tx, row, chunks, embs, vectors, files>>

-----------------------------------------------------------------------------
(* The values of the columns and of the program counters.                  *)

VersionStatus == {"ABSENT", "PROCESSING", "PARSED", "FAILED", "CHUNKED", "EMBEDDED"}
JobStatus     == {"ABSENT", "QUEUED", "PROCESSING", "CHUNKED", "COMPLETED", "FAILED"}

\* What the parser makes of a file: text that yields chunks, sections whose
\* content is blank (the chunker yields nothing), or no section at all.
Shapes == {"text", "blank", "bare"}

UploadPc  == {"resolve", "save", "create", "job", "parse", "finish"}
ProcessPc == {"chunk", "purge", "insert", "mark", "progress", "fetch",
              "embed", "upsert", "refs"}
DeletePc  == {"unlink", "select", "rows", "jobrow", "version", "cascade"}
Working   == UploadPc \cup ProcessPc \cup DeletePc \cup {"commit"}
Pc        == Working \cup {"idle", "unwind", "done"}

\* POST /process answers "EMBEDDED" either way: with the chunks it has embedded
\* ("processed"), or with none where the document has no text ("no_text").
Outcomes == {"none", "created", "duplicate", "processed", "no_text", "deleted", "not_found",
             "forbidden", "conflict", "parse_failed", "error", "crashed"}

RowType == [status : VersionStatus, job : JobStatus]
TxType  == [status : VersionStatus, job : JobStatus, snap : SUBSET Requests,
            del : SUBSET Requests, ins : SUBSET Requests, emb : SUBSET Requests,
            did : SUBSET {"version", "job", "rows"}]
ReqType == [kind : {"none", "upload", "process", "delete"}, pc : Pc,
            tenant : Tenants \cup {Admin, Nil}, hash : Hashes \cup {Nil},
            doc : Requests \cup {Nil}, shape : Shapes \cup {"none"}, out : Outcomes]

Absent == [status |-> "ABSENT", job |-> "ABSENT"]
NoTx   == [status |-> "ABSENT", job |-> "ABSENT", snap |-> {}, del |-> {},
           ins |-> {}, emb |-> {}, did |-> {}]
Idle   == [kind |-> "none", pc |-> "idle", tenant |-> Nil, hash |-> Nil,
           doc |-> Nil, shape |-> "none", out |-> "none"]

Present(d) == row[d].status # "ABSENT"
Active(r)  == req[r].pc \notin {"idle", "done"}

\* An administrator may act on every document, a tenant on its own.
MayTouch(caller, d) == caller = Admin \/ caller = req[d].tenant

-----------------------------------------------------------------------------
(* Moves of the control.                                                   *)

Goto(r, pc)     == req' = [req EXCEPT ![r].pc = pc]
Finish(r, out)  == req' = [req EXCEPT ![r].pc = "commit", ![r].out = out]
Unwind(r, out)  == req' = [req EXCEPT ![r].pc = "unwind", ![r].out = out]

-----------------------------------------------------------------------------
(* Row locks of the database, for the statements these requests send.      *)
(*                                                                         *)
(* tx[r].did names the tables in which r has written the rows of its       *)
(* document ("version" also stands for the key-share lock an inserted      *)
(* chunk takes on its version); tx[r].del and tx[r].ins are the batches it *)
(* has deleted and inserted.  Blockers(r) are the requests whose           *)
(* transaction must end before the next statement of r can.                *)

Others(r) == {q \in Requests \ {r} : req[q].doc = req[r].doc}

Deleting(r, batches) == {q \in Others(r) : tx[q].del \cap batches # {}}
Holding(r, table)    == {q \in Others(r) : table \in tx[q].did}

Blockers(r) ==
  LET pc == req[r].pc
      d  == req[r].doc
  IN  IF pc \in {"purge", "rows"} THEN Deleting(r, tx[r].snap)
      ELSE IF pc = "insert" THEN Deleting(r, chunks[d]) \cup Holding(r, "version")
      ELSE IF pc = "mark" /\ tx[r].status # "CHUNKED" THEN Holding(r, "version")
      ELSE IF pc = "version" THEN Holding(r, "version")
      ELSE IF pc \in {"progress", "jobrow"} THEN Holding(r, "job")
      ELSE IF pc = "cascade" THEN Deleting(r, chunks[d])
      ELSE {}

\* Everyone in some set that contains r waits for a member of the set.
Deadlocked(r) == \E S \in SUBSET Requests :
                    r \in S /\ \A q \in S : Blockers(q) \cap S # {}

-----------------------------------------------------------------------------
(* Upload: POST /documents.                                                *)

\* Mutant: the lookup of a hash before it was scoped to a tenant (SEC-09).
SameContentAnyTenant(t, h) == {d \in Requests : Present(d) /\ req[d].hash = h}

\* get_by_content_hash, scoped to the tenant of the upload.
SameContent(t, h) == {d \in Requests : /\ Present(d)
                                       /\ req[d].tenant = t
                                       /\ req[d].hash = h}

\* The duplicate check is a read; nothing keeps it true afterwards.
BeginUpload(r) ==
  /\ req[r].pc = "idle"
  /\ \E t \in Tenants, h \in Hashes :
       LET new == [Idle EXCEPT !.kind = "upload", !.tenant = t, !.hash = h]
       IN  \/ /\ SameContent(t, h) = {}
              /\ req' = [req EXCEPT ![r] = [new EXCEPT !.pc = "save", !.doc = r]]
           \/ \E d \in SameContent(t, h) :
                req' = [req EXCEPT ![r] = [new EXCEPT !.pc = "resolve", !.doc = d]]
  /\ UNCHANGED <<tx, db, vectors, files>>

\* The parent of the version found is fetched by a second query.
ResolveDuplicate(r) ==
  /\ req[r].pc = "resolve"
  /\ IF Present(req[r].doc) THEN Finish(r, "duplicate") ELSE Unwind(r, "not_found")
  /\ UNCHANGED <<tx, db, vectors, files>>

\* Written under a name of its own and renamed into place: all or nothing.
SaveFile(r) ==
  /\ req[r].pc = "save"
  /\ files' = files \cup {r}
  /\ Goto(r, "create")
  /\ UNCHANGED <<tx, db, vectors>>

CreateDocument(r) ==
  /\ req[r].pc = "create"
  /\ tx' = [tx EXCEPT ![r].status = "PROCESSING", ![r].did = {"version"}]
  /\ Goto(r, "job")
  /\ UNCHANGED <<db, vectors, files>>

\* The job is queued and at once moved to PROCESSING (stage "storage").
CreateJob(r) ==
  /\ req[r].pc = "job"
  /\ tx' = [tx EXCEPT ![r].job = "PROCESSING", ![r].did = {"version", "job"}]
  /\ Goto(r, "parse")
  /\ UNCHANGED <<db, vectors, files>>

Parse(r) ==
  /\ req[r].pc = "parse"
  /\ \E s \in Shapes :
       req' = [req EXCEPT ![r].pc = "finish", ![r].shape = s]
  /\ UNCHANGED <<tx, db, vectors, files>>

\* Parsing or normalisation raises: job and version are marked FAILED in the
\* open transaction and the exception goes on to get_db_session.
FailIngestion(r) ==
  /\ req[r].pc \in {"parse", "finish"}
  /\ tx' = [tx EXCEPT ![r].status = "FAILED", ![r].job = "FAILED"]
  /\ Unwind(r, IF req[r].pc = "parse" THEN "parse_failed" ELSE "error")
  /\ UNCHANGED <<db, vectors, files>>

FinishIngestion(r) ==
  /\ req[r].pc = "finish"
  /\ tx' = [tx EXCEPT ![r].status = "PARSED", ![r].job = "COMPLETED"]
  /\ Finish(r, "created")
  /\ UNCHANGED <<db, vectors, files>>

-----------------------------------------------------------------------------
(* Process: POST /documents/{id}/process.                                  *)

\* The identifiers a client can know: those an upload answered with.
Known(d) == req[d].pc = "done" /\ req[d].out = "created"

\* Mutant: the endpoint does not call authorize_document.
OpenUnchecked(r, kind, pc) ==
  /\ req[r].pc = "idle"
  /\ \E d \in Requests, caller \in Tenants \cup {Admin} :
       /\ Known(d) /\ Present(d)
       /\ req' = [req EXCEPT ![r] = [Idle EXCEPT !.kind = kind, !.tenant = caller,
                                                !.doc = d, !.pc = pc]]
       /\ tx' = [tx EXCEPT ![r].status = row[d].status, ![r].job = row[d].job]
  /\ UNCHANGED <<db, vectors, files>>

\* The common head of the endpoints that name a document: fetch it, answer 404
\* or 403, or go on with the columns read.
Open(r, kind, pc) ==
  /\ req[r].pc = "idle"
  /\ \E d \in Requests, caller \in Tenants \cup {Admin} :
       LET new == [Idle EXCEPT !.kind = kind, !.tenant = caller, !.doc = d]
           answer(out) == [new EXCEPT !.pc = "unwind", !.out = out]
       IN  /\ Known(d)
           /\ \/ /\ ~Present(d)
                 /\ req' = [req EXCEPT ![r] = answer("not_found")]
                 /\ UNCHANGED tx
              \/ /\ Present(d) /\ ~MayTouch(caller, d)
                 /\ req' = [req EXCEPT ![r] = answer("forbidden")]
                 /\ UNCHANGED tx
              \/ /\ Present(d) /\ MayTouch(caller, d)
                 /\ req' = [req EXCEPT ![r] = [new EXCEPT !.pc = pc]]
                 /\ tx' = [tx EXCEPT ![r].status = row[d].status, ![r].job = row[d].job]
  /\ UNCHANGED <<db, vectors, files>>

BeginProcess(r) == Open(r, "process", "chunk")

\* Document and version are fetched again; a version without sections is
\* marked, any other has its old chunks deleted: the DELETE sees the batches
\* committed when the statement starts.
ChunkVersion(r) ==
  /\ req[r].pc = "chunk"
  /\ LET d == req[r].doc IN
     \/ /\ ~Present(d) \/ tx[r].status = "FAILED"
        /\ Unwind(r, IF Present(d) THEN "error" ELSE "not_found") /\ UNCHANGED tx
     \/ /\ Present(d) /\ tx[r].status # "FAILED" /\ req[d].shape = "bare"
        /\ Goto(r, "mark") /\ UNCHANGED tx
     \/ /\ Present(d) /\ tx[r].status # "FAILED" /\ req[d].shape # "bare"
        /\ Goto(r, "purge") /\ tx' = [tx EXCEPT ![r].snap = chunks[d]]
  /\ UNCHANGED <<db, vectors, files>>

\* The DELETE has waited for the rows it saw; those gone meanwhile are skipped.
PurgeChunks(r) ==
  /\ req[r].pc = "purge"
  /\ Blockers(r) = {}
  /\ tx' = [tx EXCEPT ![r].del = tx[r].snap \cap chunks[req[r].doc]]
  /\ Goto(r, IF req[req[r].doc].shape = "blank" THEN "mark" ELSE "insert")
  /\ UNCHANGED <<db, vectors, files>>

\* Mutant: document_chunks without uq_chunk_version_index.
InsertChunksNotUnique(r) ==
  /\ req[r].pc = "insert"
  /\ Blockers(r) = {}
  /\ IF Present(req[r].doc)
     THEN /\ tx' = [tx EXCEPT ![r].ins = {r}, ![r].status = "CHUNKED", ![r].did = {"version"}]
          /\ Goto(r, "progress")
     ELSE Unwind(r, "conflict") /\ UNCHANGED tx
  /\ UNCHANGED <<db, vectors, files>>

\* bulk_create_chunks and the move to CHUNKED.  The foreign key needs the
\* version, uq_chunk_version_index that no other chunk 0, 1, ... is left.
InsertChunks(r) ==
  /\ req[r].pc = "insert"
  /\ Blockers(r) = {}
  /\ LET d == req[r].doc IN
     \/ /\ ~Present(d) \/ chunks[d] \ tx[r].del # {}
        /\ Unwind(r, "conflict") /\ UNCHANGED tx
     \/ /\ Present(d) /\ chunks[d] \ tx[r].del = {}
        /\ tx' = [tx EXCEPT ![r].ins = {r}, ![r].status = "CHUNKED", ![r].did = {"version"}]
        /\ Goto(r, "progress")
  /\ UNCHANGED <<db, vectors, files>>

\* update_status when there is nothing to insert: fetches the version again and
\* sends an UPDATE only if the status it loaded differs; a version deleted in
\* between makes the fetch find nothing or the flush fail.
MarkChunked(r) ==
  /\ req[r].pc = "mark"
  /\ Blockers(r) = {}
  /\ LET d == req[r].doc
         next == IF req[d].shape = "bare" THEN "fetch" ELSE "progress" IN
     \/ /\ ~Present(d)
        /\ \E out \in {"not_found", "error"} : Unwind(r, out)
        /\ UNCHANGED tx
     \/ /\ Present(d)
        /\ tx' = IF tx[r].status = "CHUNKED" THEN tx
                 ELSE [tx EXCEPT ![r].status = "CHUNKED", ![r].did = {"version"}]
        /\ Goto(r, next)
  /\ UNCHANGED <<db, vectors, files>>

\* The newest job, if there still is one, is moved to CHUNKED; a job deleted
\* between its fetch and the UPDATE makes the flush fail.
ReportChunked(r) ==
  /\ req[r].pc = "progress"
  /\ Blockers(r) = {}
  /\ \/ /\ Present(req[r].doc)
        /\ tx' = [tx EXCEPT ![r].job = "CHUNKED", ![r].did = @ \cup {"job"}]
        /\ Goto(r, "fetch")
     \/ /\ ~Present(req[r].doc)
        /\ Goto(r, "fetch") \/ Unwind(r, "error")
        /\ UNCHANGED tx
  /\ UNCHANGED <<db, vectors, files>>

\* embed_document_version: without chunks it returns and the job keeps its
\* status; with chunks the job is PROCESSING and the provider is called.
FetchChunks(r) ==
  /\ req[r].pc = "fetch"
  /\ LET d == req[r].doc
         visible == (chunks[d] \ tx[r].del) \cup tx[r].ins IN
     \/ /\ ~Present(d)
        /\ Unwind(r, "not_found") /\ UNCHANGED tx
     \/ /\ Present(d) /\ visible = {}
        /\ Finish(r, "no_text") /\ UNCHANGED tx
     \/ /\ Present(d) /\ visible # {}
        /\ tx' = [tx EXCEPT ![r].job = "PROCESSING"]
        /\ Goto(r, "embed")
  /\ UNCHANGED <<db, vectors, files>>

EmbedDocuments(r) ==
  /\ req[r].pc = "embed"
  /\ Goto(r, "upsert")
  /\ UNCHANGED <<tx, db, vectors, files>>

\* Mutant: the records are built and never handed to the store.
UpsertVectorsForgotten(r) ==
  /\ req[r].pc = "upsert"
  /\ Goto(r, "refs")
  /\ UNCHANGED <<tx, db, vectors, files>>

\* The in-memory store takes the vectors at once, pgvector in the transaction.
UpsertVectors(r) ==
  /\ req[r].pc = "upsert"
  /\ IF InMemory
     THEN vectors' = vectors \cup tx[r].ins /\ UNCHANGED tx
     ELSE tx' = [tx EXCEPT ![r].emb = tx[r].ins] /\ UNCHANGED vectors
  /\ Goto(r, "refs")
  /\ UNCHANGED <<db, files>>

UpdateReferences(r) ==
  /\ req[r].pc = "refs"
  /\ tx' = [tx EXCEPT ![r].status = "EMBEDDED", ![r].job = "COMPLETED"]
  /\ Finish(r, "processed")
  /\ UNCHANGED <<db, vectors, files>>

\* Mutant: the handler marks the job and does not raise again.
FailEmbeddingSwallowed(r) ==
  /\ req[r].pc \in {"embed", "upsert", "refs"}
  /\ tx' = [tx EXCEPT ![r].job = "FAILED"]
  /\ Finish(r, "error")
  /\ UNCHANGED <<db, vectors, files>>

\* The provider, the upsert or a reference update raises: the job is marked
\* FAILED in the open transaction and the exception goes on.
FailEmbedding(r) ==
  /\ req[r].pc \in {"embed", "upsert", "refs"}
  /\ tx' = [tx EXCEPT ![r].job = "FAILED"]
  /\ Unwind(r, "error")
  /\ UNCHANGED <<db, vectors, files>>

-----------------------------------------------------------------------------
(* Delete: DELETE /documents/{id}.                                         *)

BeginDelete(r) == Open(r, "delete", "unlink")

\* The file goes first, outside the transaction; a failure is only logged.
RemoveFile(r) ==
  /\ req[r].pc = "unlink"
  /\ files' \in {files \ {req[r].doc}, files}
  /\ Goto(r, "select")
  /\ UNCHANGED <<tx, db, vectors>>

\* get_by_id and session.delete: the rows of the document are loaded, to be
\* deleted one table after the other.  Nothing orders the chunks and the job.
SelectRows(r) ==
  /\ req[r].pc = "select"
  /\ LET d == req[r].doc IN
     \/ /\ ~Present(d)
        /\ Unwind(r, "not_found") /\ UNCHANGED tx
     \/ /\ Present(d)
        /\ tx' = [tx EXCEPT ![r].snap = chunks[d]]
        /\ \E pc \in {"rows", "jobrow"} : Goto(r, pc)
  /\ UNCHANGED <<db, vectors, files>>

DeleteChunkRows(r) ==
  /\ req[r].pc = "rows"
  /\ Blockers(r) = {}
  /\ tx' = [tx EXCEPT ![r].del = tx[r].snap \cap chunks[req[r].doc],
                      ![r].did = @ \cup {"rows"}]
  /\ Goto(r, IF "job" \in tx[r].did THEN "version" ELSE "jobrow")
  /\ UNCHANGED <<db, vectors, files>>

DeleteJobRow(r) ==
  /\ req[r].pc = "jobrow"
  /\ Blockers(r) = {}
  /\ tx' = [tx EXCEPT ![r].job = "ABSENT", ![r].did = @ \cup {"job"}]
  /\ Goto(r, IF "rows" \in tx[r].did THEN "version" ELSE "rows")
  /\ UNCHANGED <<db, vectors, files>>

\* Mutant: the version is deleted without waiting for those who hold its row.
LockVersionAtOnce(r) ==
  /\ req[r].pc = "version"
  /\ tx' = [tx EXCEPT ![r].status = "ABSENT", ![r].did = @ \cup {"version"}]
  /\ Goto(r, "cascade")
  /\ UNCHANGED <<db, vectors, files>>

\* The DELETE of the version waits for the requests that hold its row; if
\* another delete was first it deletes nothing, which is only a warning.
LockVersion(r) ==
  /\ req[r].pc = "version"
  /\ Blockers(r) = {}
  /\ tx' = [tx EXCEPT ![r].status = "ABSENT", ![r].did = @ \cup {"version"}]
  /\ Goto(r, "cascade")
  /\ UNCHANGED <<db, vectors, files>>

\* Mutant: only the chunks the session loaded are deleted (no ondelete).
CascadeLoadedOnly(r) ==
  /\ req[r].pc = "cascade"
  /\ Blockers(r) = {}
  /\ Finish(r, "deleted")
  /\ UNCHANGED <<tx, db, vectors, files>>

\* ondelete="CASCADE" takes the chunks committed since SelectRows as well.
Cascade(r) ==
  /\ req[r].pc = "cascade"
  /\ Blockers(r) = {}
  /\ tx' = [tx EXCEPT ![r].del = chunks[req[r].doc]]
  /\ Finish(r, "deleted")
  /\ UNCHANGED <<db, vectors, files>>

-----------------------------------------------------------------------------
(* The end of a request: get_db_session, failures, a crash.                *)

\* Only what the transaction wrote reaches the tables.
CommitSession(r) ==
  /\ req[r].pc = "commit"
  /\ LET d == req[r].doc
         w == tx[r] IN
     /\ row' = [row EXCEPT ![d].status = IF "version" \in w.did THEN w.status ELSE @,
                           ![d].job = IF "job" \in w.did THEN w.job ELSE @]
     /\ chunks' = [chunks EXCEPT ![d] = (@ \ w.del) \cup w.ins]
     /\ embs' = [embs EXCEPT ![d] = (@ \ w.del) \cup w.emb]
  /\ tx' = [tx EXCEPT ![r] = NoTx]
  /\ Goto(r, "done")
  /\ UNCHANGED <<vectors, files>>

\* Mutant: the session is closed by a commit on every path.
RollbackSessionCommits(r) ==
  /\ req[r].pc = "unwind"
  /\ LET d == req[r].doc
         w == tx[r] IN
     /\ row' = [row EXCEPT ![d].status = IF "version" \in w.did THEN w.status ELSE @,
                           ![d].job = IF "job" \in w.did THEN w.job ELSE @]
     /\ chunks' = [chunks EXCEPT ![d] = (@ \ w.del) \cup w.ins]
     /\ embs' = [embs EXCEPT ![d] = (@ \ w.del) \cup w.emb]
  /\ tx' = [tx EXCEPT ![r] = NoTx]
  /\ Goto(r, "done")
  /\ UNCHANGED <<vectors, files>>

\* Mutant: the session is never closed, so that its locks stay.
RollbackSessionLeaks(r) ==
  /\ req[r].pc = "unwind"
  /\ Goto(r, "done")
  /\ UNCHANGED <<tx, db, vectors, files>>

RollbackSession(r) ==
  /\ req[r].pc = "unwind"
  /\ tx' = [tx EXCEPT ![r] = NoTx]
  /\ Goto(r, "done")
  /\ UNCHANGED <<db, vectors, files>>

\* A statement, a file operation or the commit raises, or the request is
\* cancelled.  The compensating delete after create_with_version may fail too;
\* a worker thread finishes its file operation whatever becomes of the request.
Fail(r) ==
  /\ req[r].pc \in Working
  /\ Unwind(r, "error")
  /\ \/ UNCHANGED files
     \/ req[r].pc = "save" /\ files' = files \cup {r}
     \/ req[r].pc = "create" /\ files' = files \ {r}
     \/ req[r].pc = "unlink" /\ files' = files \ {req[r].doc}
  /\ UNCHANGED <<tx, db, vectors>>

\* The server process stops and starts again: the open transactions are rolled
\* back by the database and the in-memory vectors are gone.
Restart ==
  /\ \E r \in Requests : Active(r)
  /\ req' = [r \in Requests |-> IF Active(r) THEN [req[r] EXCEPT !.pc = "done", !.out = "crashed"]
                              ELSE req[r]]
  /\ tx' = [r \in Requests |-> NoTx]
  /\ vectors' = {}
  /\ UNCHANGED <<db, files>>

-----------------------------------------------------------------------------
(* The specification.                                                      *)

Init ==
  /\ req = [r \in Requests |-> Idle]
  /\ tx = [r \in Requests |-> NoTx]
  /\ row = [d \in Requests |-> Absent]
  /\ chunks = [d \in Requests |-> {}]
  /\ embs = [d \in Requests |-> {}]
  /\ vectors = {}
  /\ files = {}

Upload(r) == \/ ResolveDuplicate(r) \/ SaveFile(r) \/ CreateDocument(r) \/ CreateJob(r)
             \/ Parse(r) \/ FailIngestion(r) \/ FinishIngestion(r)

Process(r) == \/ ChunkVersion(r) \/ PurgeChunks(r) \/ InsertChunks(r) \/ MarkChunked(r)
              \/ ReportChunked(r) \/ FetchChunks(r) \/ EmbedDocuments(r)
              \/ UpsertVectors(r) \/ UpdateReferences(r) \/ FailEmbedding(r)

Delete(r) == \/ RemoveFile(r) \/ SelectRows(r) \/ DeleteChunkRows(r) \/ DeleteJobRow(r)
             \/ LockVersion(r) \/ Cascade(r)

Begin(r) == BeginUpload(r) \/ BeginProcess(r) \/ BeginDelete(r)
Serve(r) == Upload(r) \/ Process(r) \/ Delete(r) \/ CommitSession(r) \/ RollbackSession(r)

Next == Restart \/ \E r \in Requests : Begin(r) \/ Serve(r) \/ Fail(r)

Spec == Init /\ [][Next]_vars

\* The event loop resumes every request that can run, and PostgreSQL's
\* deadlock detector (deadlock_timeout) aborts a statement in a wait cycle.
Fairness == \A r \in Requests : /\ WF_vars(Serve(r))
                                /\ WF_vars(Deadlocked(r) /\ Fail(r))

FairSpec == Spec /\ Fairness

-----------------------------------------------------------------------------
(* Properties.                                                             *)

\* The columns hold the values the code writes, and a transaction only names
\* batches of requests.
TypeOK == /\ req \in [Requests -> ReqType] /\ tx \in [Requests -> TxType]
          /\ row \in [Requests -> RowType]
          /\ chunks \in [Requests -> SUBSET Requests]
          /\ embs \in [Requests -> SUBSET Requests]
          /\ vectors \subseteq Requests /\ files \subseteq Requests

\* However many process requests overlap, the chunks of a version come from
\* one run of the chunker (the idempotency the test of re-chunking asks for).
OneRunPerVersion == \A d \in Requests : \A a, b \in chunks[d] : a = b

\* No chunk outlives its version and no embedding its chunk, whatever is
\* processed, deleted or aborted in the meantime.
NoOrphanRows == \A d \in Requests : /\ ~Present(d) => chunks[d] = {} /\ row[d].job = "ABSENT"
                                    /\ embs[d] \subseteq chunks[d]

\* A version reported EMBEDDED has chunks, and with pgvector an embedding for
\* every one of them.
EmbeddedMeansSearchable ==
  \A d \in Requests : row[d].status = "EMBEDDED" =>
                        /\ chunks[d] # {}
                        /\ ~InMemory => embs[d] = chunks[d]

\* Other requests never see an unfinished status, nor a version whose job tells
\* another story: what is committed has been parsed or embedded, has failed, or
\* has been chunked where there is no text to embed.
OnlySettledVisible ==
  \A d \in Requests :
    Present(d) => \/ row[d] \in [status : {"PARSED", "EMBEDDED"}, job : {"COMPLETED"}]
                  \/ row[d] = [status |-> "FAILED", job |-> "FAILED"]
                  \/ /\ req[d].shape = "bare"
                     /\ row[d] = [status |-> "CHUNKED", job |-> "COMPLETED"]
                  \/ /\ req[d].shape = "blank"
                     /\ row[d] = [status |-> "CHUNKED", job |-> "CHUNKED"]

\* docs/TESTING_MATRIX.md: a parsing failure "updates IngestionJob to FAILED with
\* specific error message, marks version FAILED".  Once it has been answered, the
\* two are on record.
FailureOnRecord ==
  \A r \in Requests : req[r].pc = "done" /\ req[r].out = "parse_failed" =>
    row[r] = [status |-> "FAILED", job |-> "FAILED"]

\* The file of a document on record is missing only because somebody who may
\* delete the document began to.
FileKept ==
  \A d \in Requests : Present(d) /\ d \notin files =>
    \E r \in Requests : /\ req[r].kind = "delete" /\ req[r].doc = d
                        /\ MayTouch(req[r].tenant, d)

\* A tenant is told of, re-chunks and deletes its own documents only.
TenantIsolation ==
  \A r \in Requests :
    req[r].out \in {"duplicate", "processed", "no_text", "deleted"} =>
      MayTouch(req[r].tenant, req[r].doc)

\* A document whose deletion was answered does not come back, not even by a
\* process request that was already running.
DeletedStaysDeleted ==
  \A r \in Requests : req[r].pc = "done" /\ req[r].out = "deleted" => ~Present(req[r].doc)

\* Re-processing replaces a searchable batch or leaves it: a version that is
\* EMBEDDED stays EMBEDDED, with chunks, until it is deleted.
EmbeddedNeverRegresses ==
  [][\A d \in Requests : row[d].status = "EMBEDDED" /\ Present(d)' =>
       row'[d].status = "EMBEDDED" /\ chunks'[d] # {}]_vars

\* Every request ends: nobody waits for ever on another one's rows.
RequestsTerminate == \A r \in Requests : Active(r) ~> ~Active(r)

=============================================================================
