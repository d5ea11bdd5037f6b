-------------------------- MODULE DocumentInvariant --------------------------
(***************************************************************************)
(* The inductive invariant behind the safety properties of                 *)
(* DocumentLifecycle, in named parts.  No single table tells why overlap-  *)
(* ping requests leave a document in order: it is the row locks (LockInv)  *)
(* that make what a request has seen stay true until it commits (Relies).  *)
(*                                                                         *)
(* The parts about one request r take its program counter, its answer and  *)
(* its transaction as arguments, so that they can also be said of the      *)
(* values a step is about to give them.                                    *)
(***************************************************************************)
EXTENDS DocumentLifecycle

\* The program counter and the answer belong to the kind of the request; only
\* a commit leads to an answer that something was created or deleted.
Program(r, pc, out) ==
  /\ pc \in UploadPc => req[r].kind = "upload" /\ (req[r].doc = r <=> pc # "resolve")
  /\ pc \in ProcessPc => req[r].kind = "process"
  /\ pc \in DeletePc => req[r].kind = "delete"
  /\ out = "deleted" => req[r].kind = "delete" /\ pc # "unwind"
  /\ out = "created" => req[r].kind = "upload" /\ req[r].doc = r /\ pc # "unwind"
  /\ pc = "commit" /\ req[r].kind = "upload" /\ req[r].doc = r => out = "created"

\* A request that has not begun is blank; any other names its own upload or a
\* document some upload has answered for.
Identity(r) ==
  IF req[r].pc = "idle" THEN req[r] = Idle
  ELSE \/ req[r].kind = "upload" /\ req[r].doc = r
       \/ /\ req[r].kind \in {"upload", "process", "delete"}
          /\ req[r].doc \in Requests \ {r}
          /\ Known(req[r].doc)

\* What each kind of request has in its transaction.
NothingOpen(pc, w) == pc \in {"idle", "done", "resolve"} => w = NoTx

UploadWrites(r, pc, w) ==
  req[r].kind = "upload" =>
    /\ w.ins = {} /\ w.emb = {} /\ w.del = {}
    /\ req[r].doc # r => w.did = {}
    /\ "version" \in w.did => w.status # "ABSENT"
    /\ "job" \in w.did => w.job # "ABSENT"
    /\ pc \in {"job", "parse", "finish"} => "version" \in w.did
    /\ pc \in {"parse", "finish"} => "job" \in w.did
    /\ pc = "commit" /\ req[r].doc = r => {"version", "job"} \subseteq w.did

ProcessWrites(r, w) ==
  req[r].kind = "process" =>
    /\ w.emb \subseteq w.ins
    /\ w.ins # {} => w.ins = {r} /\ "version" \in w.did
    /\ "version" \in w.did => w.status # "ABSENT"
    /\ "job" \in w.did => w.job # "ABSENT"

DeleteWrites(r, pc, w) ==
  req[r].kind = "delete" =>
    /\ w.ins = {} /\ w.emb = {}
    /\ "job" \in w.did => w.job = "ABSENT"
    /\ "version" \in w.did => w.status = "ABSENT" /\ "job" \in w.did
    /\ pc = "version" => "job" \in w.did
    /\ pc \in {"cascade", "commit"} => "version" \in w.did

\* What a request that holds rows relies on until it commits: a process that
\* its version is there and the old chunks are its to replace, a delete that
\* no chunk is left.
Relies(r, pc, w) ==
  /\ req[r].kind = "process" =>
       /\ "version" \in w.did \/ "job" \in w.did => Present(req[r].doc)
       /\ w.ins # {} => chunks[req[r].doc] \subseteq w.del
  /\ req[r].kind = "delete" /\ pc = "commit" => chunks[req[r].doc] \subseteq w.del

InOrder(r, pc, out, w) ==
  /\ Program(r, pc, out) /\ NothingOpen(pc, w) /\ Relies(r, pc, w)
  /\ UploadWrites(r, pc, w) /\ ProcessWrites(r, w) /\ DeleteWrites(r, pc, w)

LocalInv == \A r \in Requests : Identity(r) /\ InOrder(r, req[r].pc, req[r].out, tx[r])

\* Two requests never hold the version, or the job, of one document.
LockInv ==
  \A q, r \in Requests : q # r /\ req[q].doc = req[r].doc =>
    /\ ~("version" \in tx[q].did /\ "version" \in tx[r].did)
    /\ ~("job" \in tx[q].did /\ "job" \in tx[r].did)

\* There is nothing on record for a document no upload has answered for.
OnlyKnownStored ==
  \A d \in Requests : ~Known(d) => row[d] = Absent /\ chunks[d] = {} /\ embs[d] = {}

IInv == /\ TypeOK /\ LocalInv /\ LockInv /\ OnlyKnownStored
        /\ OneRunPerVersion /\ NoOrphanRows /\ DeletedStaysDeleted

-----------------------------------------------------------------------------
(* What the columns and the answers mean needs a second invariant, on top  *)
(* of the first: a request answers for what its caller may touch, and      *)
(* writes what the shape of the document calls for.                        *)

\* Program points and answers that only a permitted request comes to.
Touching(pc, out) ==
  pc \in ProcessPc \cup DeletePc \cup {"resolve"} \/ out \in {"duplicate", "processed", "no_text", "deleted"}

Permitted(r, pc, out) == Touching(pc, out) => MayTouch(req[r].tenant, req[r].doc)

\* A document has its shape before its upload ends, and ends parsed; a process
\* request writes the status that goes with the chunks its answer counts.
Parsed(r, pc, out, w) ==
  /\ (req[r].kind = "upload" /\ pc = "finish") \/ out = "created" => req[r].shape \in Shapes
  /\ pc = "commit" /\ out = "created" => w.status = "PARSED" /\ w.job = "COMPLETED"
  /\ pc = "commit" /\ out = "processed" => w.status = "EMBEDDED" /\ "version" \in w.did
  /\ pc = "commit" /\ out = "no_text" => w.status = "CHUNKED"
  /\ pc = "unwind" => out \notin {"processed", "no_text"}

AfterInsert == {"progress", "fetch", "embed", "upsert", "refs", "commit"}

\* With text, a process run has its batch before it goes on, reports the job and
\* commits a version that is embedded.
IndexesText(r, pc, w) ==
  req[r].kind = "process" /\ req[req[r].doc].shape = "text" =>
    /\ pc # "mark"
    /\ pc \in AfterInsert => w.ins = {r}
    /\ pc \in AfterInsert \ {"progress"} => "job" \in w.did
    /\ pc \in {"refs", "commit"} /\ ~InMemory => w.emb = w.ins
    /\ pc = "commit" => w.status = "EMBEDDED" /\ w.job = "COMPLETED"

\* Without text nothing is inserted, and the version is CHUNKED, by this run or
\* since before it began; only blank sections reach the job.
FindsEmpty(r, pc, w) ==
  LET d == req[r].doc IN
  req[r].kind = "process" /\ req[d].shape # "text" =>
    /\ w.ins = {} /\ pc \notin {"insert", "embed", "upsert", "refs"}
    /\ req[d].shape = "bare" => "job" \notin w.did /\ pc \notin {"purge", "progress"}
    /\ w.status = "CHUNKED" /\ "version" \notin w.did => row[d].status \in {"CHUNKED", "ABSENT"}
    /\ pc \in AfterInsert => w.status = "CHUNKED"
    /\ req[d].shape = "blank" /\ pc \in {"fetch", "commit"} /\ Present(d) => "job" \in w.did
    /\ "job" \in w.did => pc \in {"unwind", "done"} \/ w.job = "CHUNKED"

Means(r, pc, out, w) ==
  /\ Permitted(r, pc, out) /\ Parsed(r, pc, out, w) /\ IndexesText(r, pc, w)
  /\ FindsEmpty(r, pc, w)

\* The rows of a document that is on record, for each shape.
RowsOf(shape) ==
  {[status |-> "PARSED", job |-> "COMPLETED"]} \cup
  CASE shape = "text"  -> {[status |-> "EMBEDDED", job |-> "COMPLETED"]}
    [] shape = "bare"  -> {[status |-> "CHUNKED", job |-> "COMPLETED"]}
    [] shape = "blank" -> {[status |-> "CHUNKED", job |-> "CHUNKED"]}
    [] OTHER           -> {}

RowMeans(d) ==
  /\ row[d] \in RowsOf(req[d].shape)
  /\ chunks[d] # {} => req[d].shape = "text"
  /\ chunks[d] # {} <=> row[d].status = "EMBEDDED"
  /\ ~InMemory => embs[d] = chunks[d]

RowsMean == \A d \in Requests : Present(d) => RowMeans(d)

\* A batch is on record only once the request that inserted it is over.
BatchesDone == \A d \in Requests : \A b \in chunks[d] : req[b].pc = "done"

SInv == /\ \A r \in Requests : Means(r, req[r].pc, req[r].out, tx[r])
        /\ RowsMean /\ BatchesDone

-----------------------------------------------------------------------------
(* The files need a third: an upload that is writing its rows, or about to *)
(* commit them, has its file.                                              *)

WithFile == {"create", "job", "parse", "finish", "commit"}

UploadHasFile ==
  \A r \in Requests :
    req[r].kind = "upload" /\ req[r].doc = r /\ req[r].pc \in WithFile => r \in files

FInv == UploadHasFile /\ FileKept

=============================================================================
