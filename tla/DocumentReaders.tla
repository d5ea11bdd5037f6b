--------------------------- MODULE DocumentReaders ---------------------------
(***************************************************************************)
(* A client that reads while others upload, process and delete: it walks   *)
(* through the pages of the document list, or asks for one document, its   *)
(* jobs, its chunks or its file.                                           *)
(*                                                                         *)
(* A reading request writes nothing and takes no row lock; each of its     *)
(* statements sees what is committed when it starts, so writers run        *)
(* between any two of them.  Its transaction ends without an effect.       *)
(*                                                                         *)
(* The walk goes on until a page is not full.  It does not stop at         *)
(* total_pages: the count is an earlier statement than the list, and an    *)
(* upload that commits between them makes the last page it allows too low; *)
(* the count is only reported, so it is no step here.  Nothing tells the   *)
(* client that a page it has read has lost a document, so it goes on.      *)
(***************************************************************************)
EXTENDS DocumentLifecycle, Integers, Sequences

CONSTANT PageSize   \* page_size

ASSUME ReaderConstants == PageSize \in Nat \ {0}

VARIABLES
  born,     \* documents in the order of created_at, which the insert sets
  reader    \* the client: who it is, what it asked, where that stands, what it knows

rvars == <<vars, born, reader>>

Callers == Tenants \cup {Admin}

\* page is the next one of a walk, missing what it still owes the client and
\* shifted (a history) how many documents of the pages it has read were deleted
\* meanwhile; batches is the last answer, embedded what the client was told is
\* EMBEDDED and has chunks.
Nobody == [caller |-> Nil, scope |-> Nil, pc |-> "idle", doc |-> Nil, page |-> 0,
           missing |-> {}, shifted |-> 0, batches |-> {}, embedded |-> {}]

\* The next request of the client, which forgets the answer of the last one.
Request(caller, pc) == [Nobody EXCEPT !.caller = caller, !.pc = pc, !.embedded = reader.embedded]

-----------------------------------------------------------------------------
(* The repositories.                                                       *)

InScope(d, scope) == scope = Admin \/ req[d].tenant = scope

\* What list and count, or list_by_tenant and count_by_tenant, find.
OnRecord(scope) == {d \in Requests : Present(d) /\ InScope(d, scope)}

\* Documents created after d come before it: created_at descending.
Newer(d) == {e \in Requests : \E i, j \in 1..Len(born) : i < j /\ born[i] = d /\ born[j] = e}

\* How many documents of a list come before d.
Place(d, scope) == Cardinality(Newer(d) \cap OnRecord(scope))

\* Mutant: the page is cut first and filtered by the tenant afterwards.
PageCutFirst(scope, page) ==
  {d \in OnRecord(scope) :
     Place(d, Admin) \in (page - 1) * PageSize .. page * PageSize - 1}

\* The documents from offset (page - 1) * page_size on, at most page_size.
Page(scope, page) ==
  {d \in OnRecord(scope) :
     Place(d, scope) \in (page - 1) * PageSize .. page * PageSize - 1}

-----------------------------------------------------------------------------
(* list_documents, page after page.                                        *)

Resting == reader.pc \in {"idle", "chunked", "walked"}

\* A tenant reads its own list, an administrator any or all.
BeginWalk ==
  /\ Resting
  /\ \E caller \in Callers, scope \in Callers :
       /\ reader.caller \in {Nil, caller}
       /\ caller = Admin \/ scope = caller
       /\ reader' = [Request(caller, "list") EXCEPT !.scope = scope, !.page = 1,
                                                   !.missing = OnRecord(scope)]
  /\ UNCHANGED <<vars, born>>

ListDocuments ==
  /\ reader.pc = "list"
  /\ LET items == Page(reader.scope, reader.page)
         full == Cardinality(items) = PageSize IN
       reader' = [reader EXCEPT !.missing = @ \ items,
                                !.pc = IF full THEN "list" ELSE "walked",
                                !.page = IF full THEN @ + 1 ELSE 0,
                                !.scope = IF full THEN @ ELSE Nil]
  /\ UNCHANGED <<vars, born>>

-----------------------------------------------------------------------------
(* One document.                                                           *)

\* What the answers to the process requests of a caller said: the documents told
\* EMBEDDED with chunks ("processed"), or EMBEDDED with none ("no_text").
ProcessTold(caller, out) ==
  {req[r].doc : r \in {q \in Requests : /\ req[q].kind = "process" /\ req[q].pc = "done"
                                       /\ req[q].tenant = caller /\ req[q].out = out}}

\* get_by_id, then authorize_document: 404 and 403 tell the client nothing.
Ask(pc) ==
  /\ Resting
  /\ \E d \in Requests, caller \in Callers :
       /\ Known(d) /\ Present(d) /\ MayTouch(caller, d)
       /\ reader.caller \in {Nil, caller}
       /\ reader' = [Request(caller, pc) EXCEPT !.doc = d,
                                               !.embedded = @ \cup ProcessTold(caller, "processed")]
  /\ UNCHANGED <<vars, born>>

AskDocument == Ask("versions")
AskJobs     == Ask("jobs")
AskChunks   == Ask("version")
AskContent  == Ask("file")

\* The answer is read; what it said is forgotten but for an EMBEDDED status.
Told == Request(reader.caller, "idle")

\* Mutant: the answer takes a COMPLETED job for an EMBEDDED version.
LoadVersionsByJob ==
  /\ reader.pc = "versions"
  /\ reader' = [Told EXCEPT !.embedded = IF row[reader.doc].job = "COMPLETED"
                                         THEN @ \cup {reader.doc} ELSE @]
  /\ UNCHANGED <<vars, born>>

\* get_with_versions: the versions are loaded by a second statement.
LoadVersions ==
  /\ reader.pc = "versions"
  /\ reader' = [Told EXCEPT !.embedded = IF row[reader.doc].status = "EMBEDDED"
                                         THEN @ \cup {reader.doc} ELSE @]
  /\ UNCHANGED <<vars, born>>

\* get_jobs_by_document: no job when the document has gone meanwhile.
LoadJobs == reader.pc = "jobs" /\ reader' = Told /\ UNCHANGED <<vars, born>>

\* get_latest_version: an empty list when there is none any more.
LoadVersion ==
  /\ reader.pc = "version"
  /\ reader' = IF Present(reader.doc) THEN [reader EXCEPT !.pc = "chunks"] ELSE Told
  /\ UNCHANGED <<vars, born>>

LoadChunks ==
  /\ reader.pc = "chunks"
  /\ reader' = [Request(reader.caller, "chunked") EXCEPT !.doc = reader.doc,
                                                      !.batches = chunks[reader.doc]]
  /\ UNCHANGED <<vars, born>>

\* storage.read: 404 when it raises, whatever it raises.
ReadFile ==
  /\ reader.pc = "file"
  /\ reader' = Told
  /\ UNCHANGED <<vars, born>>

Reading ==
  \/ BeginWalk \/ ListDocuments
  \/ AskDocument \/ AskJobs \/ AskChunks \/ AskContent
  \/ LoadVersions \/ LoadJobs \/ LoadVersion \/ LoadChunks \/ ReadFile

\* Where the next page begins.
Floor == (reader.page - 1) * PageSize

\* A document of a page the client has read is deleted: the next pages begin one
\* document too late.
Shifts ==
  /\ reader.pc = "list"
  /\ \E d \in OnRecord(reader.scope) : /\ ~Present(d)'
                                       /\ Place(d, reader.scope) < Floor

\* A step of a writer; the insert of a document sets its created_at.
Writing ==
  /\ Next
  /\ born' = IF \E r \in Requests : req[r].pc = "create" /\ req'[r].pc = "job"
             THEN Append(born, CHOOSE r \in Requests : req[r].pc = "create" /\ req'[r].pc = "job")
             ELSE born
  /\ reader' = IF Shifts THEN [reader EXCEPT !.shifted = @ + 1] ELSE reader

RInit == Init /\ born = <<>> /\ reader = Nobody

RSpec == RInit /\ [][Writing \/ Reading]_rvars

-----------------------------------------------------------------------------
(* Properties.                                                             *)

\* Pages are cut by offset, so a deletion can make a walk skip a document that is
\* still there; but nothing else can.  Whoever reads page after page until one is
\* not full has seen every document that was on record when the walk began and
\* still is, except for one at most for each document deleted from the pages
\* already read: not for uploads, nor for deletions further on.
Unseen == {d \in reader.missing : Present(d)}

PagesMissOnlyShifted == reader.pc = "walked" => Cardinality(Unseen) <= reader.shifted

\* A client that asks for chunks gets those of one run of the chunker.  If it was
\* told before that the document is EMBEDDED, by get_document or by its own
\* process request, it gets some, unless the document has been deleted; and it
\* gets none where that process request said EMBEDDED with zero chunks.
EmbeddedReadable ==
  reader.pc = "chunked" =>
    /\ \A a, b \in reader.batches : a = b
    /\ reader.doc \in reader.embedded /\ Present(reader.doc) => reader.batches # {}
    /\ reader.doc \in ProcessTold(reader.caller, "no_text") => reader.batches = {}

-----------------------------------------------------------------------------
(* The inductive invariant behind them, on top of the one of the documents. *)

AskingPc == {"versions", "jobs", "version", "chunks", "chunked", "file"}

ReaderType ==
  [caller : Callers \cup {Nil}, scope : Callers \cup {Nil}, doc : Requests \cup {Nil},
   pc : AskingPc \cup {"idle", "list", "walked"}, page : Nat, missing : SUBSET Requests,
   shifted : Nat, batches : SUBSET Requests, embedded : SUBSET Requests]

ReaderTypeOK == born \in Seq(Requests) /\ reader \in ReaderType

Inserted(r) == \E i \in 1..Len(born) : born[i] = r

\* created_at orders the documents: each is inserted once, and none is on record,
\* or answered for, that was not.
BornInv ==
  /\ \A i, j \in 1..Len(born) : born[i] = born[j] => i = j
  /\ \A r \in Requests : req[r].pc \in {"idle", "save", "create"} => ~Inserted(r)
  /\ \A r \in Requests : req[r].pc \in {"job", "parse", "finish"} \/ req[r].out = "created" =>
                          Inserted(r)

\* Who asks about a document has been told its name; what the client was told is
\* EMBEDDED still is, or has gone.
AskedInv ==
  /\ reader.pc \in AskingPc => reader.doc \in Requests /\ Known(reader.doc)
  /\ \A d \in reader.embedded : Known(d) /\ (Present(d) => row[d].status = "EMBEDDED")
  /\ \A d \in reader.missing : Known(d)

\* What a process request has answered is so for as long as there is the document.
AnswersInv ==
  \A r \in Requests : req[r].kind = "process" /\ req[r].pc = "done" =>
    LET d == req[r].doc IN
    /\ req[r].out = "processed" /\ Present(d) => row[d].status = "EMBEDDED"
    /\ req[r].out = "no_text" => req[d].shape # "text"

\* Only a document with text has chunks to be shown.
ShownInv == reader.pc = "chunked" /\ reader.batches # {} => req[reader.doc].shape = "text"

\* What a walk has passed by without the client having seen it.
Passed == {d \in Unseen : Place(d, reader.scope) < Floor}

\* It is only what deletions have moved into the pages already read: an upload
\* moves a document back, a deletion moves those behind it forth by one.
WalkInv ==
  reader.pc = "list" =>
    /\ reader.scope \in Callers /\ reader.page >= 1
    /\ \A d \in reader.missing : InScope(d, reader.scope)
    /\ Cardinality(Passed) <= reader.shifted

ReaderInv == /\ ReaderTypeOK /\ BornInv /\ AskedInv /\ AnswersInv /\ ShownInv /\ WalkInv
             /\ PagesMissOnlyShifted /\ EmbeddedReadable

=============================================================================
