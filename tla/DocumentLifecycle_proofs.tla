----------------------- MODULE DocumentLifecycle_proofs -----------------------
(***************************************************************************)
(* Proofs about DocumentLifecycle, for every number of requests, tenants   *)
(* and contents and for both vector stores, and at the end about the       *)
(* clients of DocumentReaders.                                             *)
(***************************************************************************)
EXTENDS DocumentRefinement, DocumentReaders, Collections_proofs, TLAPS

-----------------------------------------------------------------------------
(* A step of one request that leaves the tables alone.                     *)

\* Request r, which is being served, moves to pc with the answer out and the
\* transaction w; nothing else that the invariant speaks of changes.
Moved(r, pc, out, w) ==
  /\ req[r].pc \notin {"idle", "done"}
  /\ req' \in [Requests -> ReqType]
  /\ \A q \in Requests \ {r} : req'[q] = req[q]
  /\ req'[r].kind = req[r].kind /\ req'[r].doc = req[r].doc
  /\ req'[r].pc = pc /\ req'[r].out = out
  /\ tx' = [tx EXCEPT ![r] = w]
  /\ row' = row /\ chunks' = chunks /\ embs' = embs
  /\ vectors' \subseteq Requests /\ files' \subseteq Requests

\* w holds no row that r did not hold and another request does.
Free(r, w) == /\ "version" \in w.did => "version" \in tx[r].did \/ Holding(r, "version") = {}
              /\ "job" \in w.did => "job" \in tx[r].did \/ Holding(r, "job") = {}

\* The invariant survives such a step if the new values are in order.
LEMMA MoveStep ==
  ASSUME IInv, NEW r \in Requests, NEW pc \in Pc \ {"idle"}, NEW out \in Outcomes,
         NEW w \in TxType, Moved(r, pc, out, w), InOrder(r, pc, out, w), Free(r, w),
         pc = "done" => out \notin {"created", "deleted"}
  PROVE  IInv'
<1>1. TypeOK'
  BY DEF IInv, TypeOK, Moved
<1>2. \A q \in Requests \ {r} : req'[q] = req[q] /\ tx'[q] = tx[q]
  BY DEF IInv, TypeOK, Moved
<1>3. tx'[r] = w
  BY DEF IInv, TypeOK, Moved
<1>4. \A d \in Requests : Known(d)' <=> Known(d)
  BY <1>2 DEF Known, Moved
<1>5. LocalInv'
  <2>1. SUFFICES ASSUME NEW q \in Requests
                 PROVE  Identity(q)' /\ InOrder(q, req[q].pc, req[q].out, tx[q])'
    BY DEF LocalInv
  <2>2. Identity(q) /\ InOrder(q, req[q].pc, req[q].out, tx[q])
    BY DEF IInv, LocalInv
  <2>3. CASE q = r
    <3>1. Identity(r)'
      BY <1>4, <2>2, <2>3 DEF Identity, Moved
    <3>2. InOrder(r, req[r].pc, req[r].out, tx[r])'
      BY <1>3 DEF InOrder, Program, NothingOpen, Relies, UploadWrites, ProcessWrites,
                  DeleteWrites, Moved, Present
    <3> QED BY <2>3, <3>1, <3>2
  <2>4. CASE q # r
    <3>1. Identity(q)'
      BY <1>2, <1>4, <2>2, <2>4 DEF Identity
    <3>2. InOrder(q, req[q].pc, req[q].out, tx[q])'
      BY <1>2, <2>2, <2>4 DEF InOrder, Program, NothingOpen, Relies, UploadWrites,
                              ProcessWrites, DeleteWrites, Moved, Present
    <3> QED BY <3>1, <3>2
  <2> QED BY <2>3, <2>4
<1>6. LockInv'
  <2>1. SUFFICES ASSUME NEW p \in Requests, NEW q \in Requests, p # q,
                        req'[p].doc = req'[q].doc
                 PROVE  /\ ~("version" \in tx'[p].did /\ "version" \in tx'[q].did)
                        /\ ~("job" \in tx'[p].did /\ "job" \in tx'[q].did)
    BY DEF LockInv
  <2>2. req[p].doc = req[q].doc
    BY <1>2, <2>1 DEF Moved
  <2>3. /\ ~("version" \in tx[p].did /\ "version" \in tx[q].did)
        /\ ~("job" \in tx[p].did /\ "job" \in tx[q].did)
    BY <2>1, <2>2 DEF IInv, LockInv
  <2>4. CASE p # r /\ q # r
    BY <1>2, <2>3, <2>4
  <2>5. CASE p = r
    BY <1>2, <1>3, <2>1, <2>2, <2>3, <2>5 DEF Free, Holding, Others
  <2>6. CASE q = r
    BY <1>2, <1>3, <2>1, <2>2, <2>3, <2>6 DEF Free, Holding, Others
  <2> QED BY <2>4, <2>5, <2>6
<1>7. OnlyKnownStored'
  BY <1>4 DEF IInv, OnlyKnownStored, Moved
<1>8. OneRunPerVersion' /\ NoOrphanRows'
  BY DEF IInv, OneRunPerVersion, NoOrphanRows, Present, Moved
<1>9. DeletedStaysDeleted'
  BY <1>2 DEF IInv, DeletedStaysDeleted, Present, Moved
<1> QED BY <1>1, <1>5, <1>6, <1>7, <1>8, <1>9 DEF IInv

-----------------------------------------------------------------------------
(* One lemma for every action: it is such a step.                             *)

LEMMA GotoMoves ==
  ASSUME TypeOK, NEW r \in Requests, NEW pc \in Pc, NEW w \in TxType, Goto(r, pc),
         req[r].pc \notin {"idle", "done"}, tx' = [tx EXCEPT ![r] = w],
         UNCHANGED db, vectors' \subseteq Requests, files' \subseteq Requests
  PROVE  Moved(r, pc, req[r].out, w)
<1>1. req[r] \in ReqType BY DEF TypeOK
<1>2. [req[r] EXCEPT !.pc = pc] \in ReqType BY <1>1 DEF ReqType
<1>3. req' = [req EXCEPT ![r] = [req[r] EXCEPT !.pc = pc]] BY DEF Goto
<1> QED BY <1>1, <1>2, <1>3 DEF TypeOK, Moved, db, ReqType

LEMMA FinishMoves ==
  ASSUME TypeOK, NEW r \in Requests, NEW out \in Outcomes, NEW w \in TxType,
         Finish(r, out), req[r].pc \notin {"idle", "done"}, tx' = [tx EXCEPT ![r] = w],
         UNCHANGED db, vectors' \subseteq Requests, files' \subseteq Requests
  PROVE  Moved(r, "commit", out, w)
<1>1. req[r] \in ReqType BY DEF TypeOK
<1>2. [req[r] EXCEPT !.pc = "commit", !.out = out] \in ReqType
  BY <1>1 DEF ReqType, Pc, Working
<1>3. req' = [req EXCEPT ![r] = [req[r] EXCEPT !.pc = "commit", !.out = out]] BY DEF Finish
<1> QED BY <1>1, <1>2, <1>3 DEF TypeOK, Moved, db, ReqType

LEMMA UnwindMoves ==
  ASSUME TypeOK, NEW r \in Requests, NEW out \in Outcomes, NEW w \in TxType,
         Unwind(r, out), req[r].pc \notin {"idle", "done"}, tx' = [tx EXCEPT ![r] = w],
         UNCHANGED db, vectors' \subseteq Requests, files' \subseteq Requests
  PROVE  Moved(r, "unwind", out, w)
<1>1. req[r] \in ReqType BY DEF TypeOK
<1>2. [req[r] EXCEPT !.pc = "unwind", !.out = out] \in ReqType
  BY <1>1 DEF ReqType, Pc
<1>3. req' = [req EXCEPT ![r] = [req[r] EXCEPT !.pc = "unwind", !.out = out]] BY DEF Unwind
<1> QED BY <1>1, <1>2, <1>3 DEF TypeOK, Moved, db, ReqType

LEMMA NoTxIsEmpty ==
  NoTx \in TxType /\ NoTx.did = {} /\ NoTx.ins = {} /\ NoTx.emb = {} /\ NoTx.del = {}
BY DEF NoTx, TxType, VersionStatus, JobStatus

\* What the invariant says of the request that takes a step.
LEMMA Serving ==
  ASSUME IInv, NEW r \in Requests
  PROVE  /\ TypeOK /\ req[r] \in ReqType /\ tx[r] \in TxType
         /\ tx' = tx => tx' = [tx EXCEPT ![r] = tx[r]]
         /\ vectors \subseteq Requests /\ files \subseteq Requests
         /\ req[r].out \in Outcomes
         /\ req[r].pc # "idle" => req[r].doc \in Requests /\ chunks[req[r].doc] \subseteq Requests
         /\ Identity(r) /\ InOrder(r, req[r].pc, req[r].out, tx[r])
<1>1. TypeOK BY DEF IInv
<1>2. req[r] \in ReqType /\ tx[r] \in TxType BY <1>1 DEF TypeOK
<1>3. tx' = tx => tx' = [tx EXCEPT ![r] = tx[r]] BY <1>1 DEF TypeOK
<1>4. vectors \subseteq Requests /\ files \subseteq Requests BY <1>1 DEF TypeOK
<1>5. Identity(r) /\ InOrder(r, req[r].pc, req[r].out, tx[r]) BY DEF IInv, LocalInv
<1>6. req[r].out \in Outcomes BY <1>2 DEF ReqType
<1>7. req[r].pc # "idle" => req[r].doc \in Requests BY <1>5 DEF Identity
<1>8. req[r].pc # "idle" => chunks[req[r].doc] \subseteq Requests BY <1>1, <1>7 DEF TypeOK
<1> QED BY <1>1, <1>2, <1>3, <1>4, <1>5, <1>6, <1>7, <1>8

\* Nobody else names a document before its upload has been answered.
LEMMA Alone ==
  ASSUME IInv, NEW r \in Requests, req[r].doc = r, req[r].pc # "done"
  PROVE  Others(r) = {}
<1>1. SUFFICES ASSUME NEW q \in Requests \ {r}, req[q].doc = r PROVE FALSE
  BY DEF Others
<1>2. Identity(q) BY DEF IInv, LocalInv
<1> QED BY <1>1, <1>2, ConstantsOK DEF Identity, Known, Idle

\* A request that is given up, whatever it has written, disturbs nobody.
LEMMA UnwindStep ==
  ASSUME IInv, NEW r \in Requests, NEW out \in Outcomes \ {"created", "deleted"},
         NEW w \in TxType, Unwind(r, out), req[r].pc \in Working,
         tx' = [tx EXCEPT ![r] = w], UNCHANGED db,
         vectors' \subseteq Requests, files' \subseteq Requests,
         w.did = tx[r].did, w.ins = tx[r].ins, w.emb = tx[r].emb, w.del = tx[r].del,
         w = tx[r] \/ /\ req[r].kind # "delete" /\ w.job # "ABSENT"
                      /\ w.status = tx[r].status \/ w.status # "ABSENT"
  PROVE  IInv'
<1>1. /\ TypeOK /\ InOrder(r, req[r].pc, req[r].out, tx[r])
  BY Serving
<1>2. "unwind" \in Pc \ {"idle"} /\ req[r].pc \notin {"idle", "done"}
  BY DEF Pc, Working, UploadPc, ProcessPc, DeletePc
<1>3. Moved(r, "unwind", out, w)
  BY <1>1, <1>2, UnwindMoves
<1>4. InOrder(r, "unwind", out, w)
  <2>1. Program(r, "unwind", out) /\ NothingOpen("unwind", w)
    BY DEF Program, NothingOpen, UploadPc, ProcessPc, DeletePc
  <2>2. Relies(r, "unwind", w)
    BY <1>1 DEF InOrder, Relies
  <2>3. UploadWrites(r, "unwind", w)
    BY <1>1 DEF InOrder, UploadWrites
  <2>4. ProcessWrites(r, w)
    BY <1>1 DEF InOrder, ProcessWrites
  <2>5. DeleteWrites(r, "unwind", w)
    BY <1>1 DEF InOrder, DeleteWrites
  <2> QED
    BY <2>1, <2>2, <2>3, <2>4, <2>5 DEF InOrder
<1>5. Free(r, w)
  BY DEF Free
<1> QED BY <1>2, <1>3, <1>4, <1>5, MoveStep


LEMMA ResolveDuplicateStep == ASSUME IInv, NEW r \in Requests, ResolveDuplicate(r) PROVE IInv'
<1>0. /\ TypeOK /\ req[r] \in ReqType /\ tx[r] \in TxType
      /\ tx' = tx => tx' = [tx EXCEPT ![r] = tx[r]]
      /\ vectors \subseteq Requests /\ files \subseteq Requests
      /\ req[r].out \in Outcomes
      /\ Identity(r) /\ InOrder(r, req[r].pc, req[r].out, tx[r])
  BY Serving
<1>1. CASE Finish(r, "duplicate") /\ UNCHANGED tx
  <2>3. InOrder(r, "commit", "duplicate", tx[r])
    BY <1>0, <1>1 DEF ResolveDuplicate, InOrder, Program, NothingOpen, Relies, UploadWrites,
                ProcessWrites, DeleteWrites, UploadPc, ProcessPc, DeletePc
  <2>4. Free(r, tx[r])
    BY <1>0, <1>1 DEF ResolveDuplicate, Free
  <2>5. Moved(r, "commit", "duplicate", tx[r])
    BY <1>0, <1>1, FinishMoves DEF ResolveDuplicate, Working, UploadPc, ProcessPc, DeletePc, Outcomes
  <2> QED
    BY <1>0, <2>3, <2>4, <2>5, MoveStep DEF Pc, Working, UploadPc, ProcessPc, DeletePc, Outcomes
<1>2. CASE Unwind(r, "not_found") /\ UNCHANGED tx
  <2> QED BY <1>0, <1>2, UnwindStep DEF ResolveDuplicate, Outcomes, Working, UploadPc, ProcessPc, DeletePc
<1> QED BY <1>1, <1>2 DEF ResolveDuplicate

LEMMA SaveFileStep == ASSUME IInv, NEW r \in Requests, SaveFile(r) PROVE IInv'
<1>0. /\ TypeOK /\ req[r] \in ReqType /\ tx[r] \in TxType
      /\ tx' = tx => tx' = [tx EXCEPT ![r] = tx[r]]
      /\ vectors \subseteq Requests /\ files \subseteq Requests
      /\ req[r].out \in Outcomes
      /\ Identity(r) /\ InOrder(r, req[r].pc, req[r].out, tx[r])
  BY Serving
<1>3. InOrder(r, "create", req[r].out, tx[r])
  BY <1>0 DEF SaveFile, InOrder, Program, NothingOpen, Relies, UploadWrites,
              ProcessWrites, DeleteWrites, UploadPc, ProcessPc, DeletePc
<1>4. Free(r, tx[r])
  BY <1>0 DEF SaveFile, Free
<1>5. Moved(r, "create", req[r].out, tx[r])
  BY <1>0, GotoMoves DEF SaveFile, Pc, Working, UploadPc, ProcessPc, DeletePc
<1> QED
  BY <1>0, <1>3, <1>4, <1>5, MoveStep DEF Pc, Working, UploadPc, ProcessPc, DeletePc

LEMMA CreateDocumentStep == ASSUME IInv, NEW r \in Requests, CreateDocument(r) PROVE IInv'
<1>0. /\ TypeOK /\ req[r] \in ReqType /\ tx[r] \in TxType
      /\ tx' = tx => tx' = [tx EXCEPT ![r] = tx[r]]
      /\ vectors \subseteq Requests /\ files \subseteq Requests
      /\ req[r].out \in Outcomes
      /\ Identity(r) /\ InOrder(r, req[r].pc, req[r].out, tx[r])
  BY Serving
<1> DEFINE w == [tx[r] EXCEPT !.status = "PROCESSING", !.did = {"version"}]
<1>1. w \in TxType
  BY <1>0 DEF TxType, VersionStatus, JobStatus
<1>2. tx' = [tx EXCEPT ![r] = w]
  BY <1>0 DEF CreateDocument
<1>3. InOrder(r, "job", req[r].out, w)
  BY <1>0 DEF CreateDocument, InOrder, Program, NothingOpen, Relies, UploadWrites,
              ProcessWrites, DeleteWrites, UploadPc, ProcessPc, DeletePc, TxType
<1>4. Free(r, w)
  BY <1>0, Alone DEF CreateDocument, Free, Holding, InOrder, Program, UploadPc
<1> HIDE DEF w
<1>5. Moved(r, "job", req[r].out, w)
  BY <1>0, <1>1, <1>2, GotoMoves DEF CreateDocument, Pc, Working, UploadPc, ProcessPc, DeletePc
<1> QED
  BY <1>0, <1>1, <1>2, <1>3, <1>4, <1>5, MoveStep DEF Pc, Working, UploadPc, ProcessPc, DeletePc

LEMMA CreateJobStep == ASSUME IInv, NEW r \in Requests, CreateJob(r) PROVE IInv'
<1>0. /\ TypeOK /\ req[r] \in ReqType /\ tx[r] \in TxType
      /\ tx' = tx => tx' = [tx EXCEPT ![r] = tx[r]]
      /\ vectors \subseteq Requests /\ files \subseteq Requests
      /\ req[r].out \in Outcomes
      /\ Identity(r) /\ InOrder(r, req[r].pc, req[r].out, tx[r])
  BY Serving
<1> DEFINE w == [tx[r] EXCEPT !.job = "PROCESSING", !.did = {"version", "job"}]
<1>1. w \in TxType
  BY <1>0 DEF TxType, VersionStatus, JobStatus
<1>2. tx' = [tx EXCEPT ![r] = w]
  BY <1>0 DEF CreateJob
<1>3. InOrder(r, "parse", req[r].out, w)
  BY <1>0 DEF CreateJob, InOrder, Program, NothingOpen, Relies, UploadWrites,
              ProcessWrites, DeleteWrites, UploadPc, ProcessPc, DeletePc, TxType
<1>4. Free(r, w)
  BY <1>0, Alone DEF CreateJob, Free, Holding, InOrder, Program, UploadPc
<1> HIDE DEF w
<1>5. Moved(r, "parse", req[r].out, w)
  BY <1>0, <1>1, <1>2, GotoMoves DEF CreateJob, Pc, Working, UploadPc, ProcessPc, DeletePc
<1> QED
  BY <1>0, <1>1, <1>2, <1>3, <1>4, <1>5, MoveStep DEF Pc, Working, UploadPc, ProcessPc, DeletePc

LEMMA FailIngestionStep == ASSUME IInv, NEW r \in Requests, FailIngestion(r) PROVE IInv'
<1>0. /\ TypeOK /\ req[r] \in ReqType /\ tx[r] \in TxType
      /\ tx' = tx => tx' = [tx EXCEPT ![r] = tx[r]]
      /\ vectors \subseteq Requests /\ files \subseteq Requests
      /\ req[r].out \in Outcomes
      /\ Identity(r) /\ InOrder(r, req[r].pc, req[r].out, tx[r])
  BY Serving
<1>1. CASE Unwind(r, "parse_failed")
  <2> DEFINE w == [tx[r] EXCEPT !.status = "FAILED", !.job = "FAILED"]
  <2>1. w \in TxType BY <1>0 DEF TxType, VersionStatus, JobStatus
  <2>2. tx' = [tx EXCEPT ![r] = w] BY <1>0, <1>1 DEF FailIngestion
  <2> QED BY <1>0, <1>1, <2>1, <2>2, UnwindStep DEF FailIngestion, TxType, Outcomes, Working, UploadPc, ProcessPc, DeletePc, InOrder, Program
<1>2. CASE Unwind(r, "error")
  <2> DEFINE w == [tx[r] EXCEPT !.status = "FAILED", !.job = "FAILED"]
  <2>1. w \in TxType BY <1>0 DEF TxType, VersionStatus, JobStatus
  <2>2. tx' = [tx EXCEPT ![r] = w] BY <1>0, <1>2 DEF FailIngestion
  <2> QED BY <1>0, <1>2, <2>1, <2>2, UnwindStep DEF FailIngestion, TxType, Outcomes, Working, UploadPc, ProcessPc, DeletePc, InOrder, Program
<1> QED BY <1>1, <1>2 DEF FailIngestion

LEMMA FinishIngestionStep == ASSUME IInv, NEW r \in Requests, FinishIngestion(r) PROVE IInv'
<1>0. /\ TypeOK /\ req[r] \in ReqType /\ tx[r] \in TxType
      /\ tx' = tx => tx' = [tx EXCEPT ![r] = tx[r]]
      /\ vectors \subseteq Requests /\ files \subseteq Requests
      /\ req[r].out \in Outcomes
      /\ Identity(r) /\ InOrder(r, req[r].pc, req[r].out, tx[r])
  BY Serving
<1> DEFINE w == [tx[r] EXCEPT !.status = "PARSED", !.job = "COMPLETED"]
<1>1. w \in TxType
  BY <1>0 DEF TxType, VersionStatus, JobStatus
<1>2. tx' = [tx EXCEPT ![r] = w]
  BY <1>0 DEF FinishIngestion
<1>3. InOrder(r, "commit", "created", w)
  BY <1>0 DEF FinishIngestion, InOrder, Program, NothingOpen, Relies, UploadWrites,
              ProcessWrites, DeleteWrites, UploadPc, ProcessPc, DeletePc, TxType
<1>4. Free(r, w)
  BY <1>0 DEF FinishIngestion, Free, TxType, Blockers
<1> HIDE DEF w
<1>5. Moved(r, "commit", "created", w)
  BY <1>0, <1>1, <1>2, FinishMoves DEF FinishIngestion, Working, UploadPc, ProcessPc, DeletePc, Outcomes
<1> QED
  BY <1>0, <1>1, <1>2, <1>3, <1>4, <1>5, MoveStep DEF Pc, Working, UploadPc, ProcessPc, DeletePc, Outcomes

LEMMA ChunkVersionStep == ASSUME IInv, NEW r \in Requests, ChunkVersion(r) PROVE IInv'
<1>0. /\ TypeOK /\ req[r] \in ReqType /\ tx[r] \in TxType
      /\ tx' = tx => tx' = [tx EXCEPT ![r] = tx[r]]
      /\ vectors \subseteq Requests /\ files \subseteq Requests
      /\ req[r].out \in Outcomes
      /\ Identity(r) /\ InOrder(r, req[r].pc, req[r].out, tx[r])
  BY Serving
<1>1. CASE UNCHANGED tx /\ Unwind(r, "not_found")
  <2> QED BY <1>0, <1>1, UnwindStep DEF ChunkVersion, Outcomes, Working, UploadPc, ProcessPc, DeletePc
<1>2. CASE UNCHANGED tx /\ Unwind(r, "error")
  <2> QED BY <1>0, <1>2, UnwindStep DEF ChunkVersion, Outcomes, Working, UploadPc, ProcessPc, DeletePc
<1>3. CASE UNCHANGED tx /\ Goto(r, "mark")
  <2>3. InOrder(r, "mark", req[r].out, tx[r])
    BY <1>0, <1>3 DEF ChunkVersion, InOrder, Program, NothingOpen, Relies, UploadWrites,
                ProcessWrites, DeleteWrites, UploadPc, ProcessPc, DeletePc
  <2>4. Free(r, tx[r])
    BY <1>0, <1>3 DEF ChunkVersion, Free
  <2>5. Moved(r, "mark", req[r].out, tx[r])
    BY <1>0, <1>3, GotoMoves DEF ChunkVersion, Pc, Working, UploadPc, ProcessPc, DeletePc
  <2> QED
    BY <1>0, <2>3, <2>4, <2>5, MoveStep DEF Pc, Working, UploadPc, ProcessPc, DeletePc
<1>4. CASE tx' = [tx EXCEPT ![r].snap = chunks[req[r].doc]] /\ Goto(r, "purge")
  <2> DEFINE w == [tx[r] EXCEPT !.snap = chunks[req[r].doc]]
  <2>1. w \in TxType
    BY <1>0, Serving DEF TxType, VersionStatus, JobStatus, ChunkVersion
  <2>2. tx' = [tx EXCEPT ![r] = w]
    BY <1>0, <1>4 DEF ChunkVersion
  <2>3. InOrder(r, "purge", req[r].out, w)
    BY <1>0, <1>4 DEF ChunkVersion, InOrder, Program, NothingOpen, Relies, UploadWrites,
                ProcessWrites, DeleteWrites, UploadPc, ProcessPc, DeletePc, TxType
  <2>4. Free(r, w)
    BY <1>0, <1>4 DEF ChunkVersion, Free, TxType, Blockers
  <2> HIDE DEF w
  <2>5. Moved(r, "purge", req[r].out, w)
    BY <1>0, <1>4, <2>1, <2>2, GotoMoves DEF ChunkVersion, Pc, Working, UploadPc, ProcessPc, DeletePc
  <2> QED
    BY <1>0, <2>1, <2>2, <2>3, <2>4, <2>5, MoveStep DEF Pc, Working, UploadPc, ProcessPc, DeletePc
<1> QED BY <1>1, <1>2, <1>3, <1>4 DEF ChunkVersion

LEMMA PurgeChunksStep == ASSUME IInv, NEW r \in Requests, PurgeChunks(r) PROVE IInv'
<1>0. /\ TypeOK /\ req[r] \in ReqType /\ tx[r] \in TxType
      /\ tx' = tx => tx' = [tx EXCEPT ![r] = tx[r]]
      /\ vectors \subseteq Requests /\ files \subseteq Requests
      /\ req[r].out \in Outcomes
      /\ Identity(r) /\ InOrder(r, req[r].pc, req[r].out, tx[r])
  BY Serving
<1>1. CASE Goto(r, "mark")
  <2> DEFINE w == [tx[r] EXCEPT !.del = tx[r].snap \cap chunks[req[r].doc]]
  <2>1. w \in TxType
    BY <1>0 DEF TxType, VersionStatus, JobStatus
  <2>2. tx' = [tx EXCEPT ![r] = w]
    BY <1>0, <1>1 DEF PurgeChunks
  <2>3. InOrder(r, "mark", req[r].out, w)
    BY <1>0, <1>1 DEF PurgeChunks, InOrder, Program, NothingOpen, Relies, UploadWrites,
                ProcessWrites, DeleteWrites, UploadPc, ProcessPc, DeletePc, TxType
  <2>4. Free(r, w)
    BY <1>0, <1>1 DEF PurgeChunks, Free, TxType, Blockers
  <2> HIDE DEF w
  <2>5. Moved(r, "mark", req[r].out, w)
    BY <1>0, <1>1, <2>1, <2>2, GotoMoves DEF PurgeChunks, Pc, Working, UploadPc, ProcessPc, DeletePc
  <2> QED
    BY <1>0, <2>1, <2>2, <2>3, <2>4, <2>5, MoveStep DEF Pc, Working, UploadPc, ProcessPc, DeletePc
<1>2. CASE Goto(r, "insert")
  <2> DEFINE w == [tx[r] EXCEPT !.del = tx[r].snap \cap chunks[req[r].doc]]
  <2>1. w \in TxType
    BY <1>0 DEF TxType, VersionStatus, JobStatus
  <2>2. tx' = [tx EXCEPT ![r] = w]
    BY <1>0, <1>2 DEF PurgeChunks
  <2>3. InOrder(r, "insert", req[r].out, w)
    BY <1>0, <1>2 DEF PurgeChunks, InOrder, Program, NothingOpen, Relies, UploadWrites,
                ProcessWrites, DeleteWrites, UploadPc, ProcessPc, DeletePc, TxType
  <2>4. Free(r, w)
    BY <1>0, <1>2 DEF PurgeChunks, Free, TxType, Blockers
  <2> HIDE DEF w
  <2>5. Moved(r, "insert", req[r].out, w)
    BY <1>0, <1>2, <2>1, <2>2, GotoMoves DEF PurgeChunks, Pc, Working, UploadPc, ProcessPc, DeletePc
  <2> QED
    BY <1>0, <2>1, <2>2, <2>3, <2>4, <2>5, MoveStep DEF Pc, Working, UploadPc, ProcessPc, DeletePc
<1> QED BY <1>1, <1>2 DEF PurgeChunks

LEMMA InsertChunksStep == ASSUME IInv, NEW r \in Requests, InsertChunks(r) PROVE IInv'
<1>0. /\ TypeOK /\ req[r] \in ReqType /\ tx[r] \in TxType
      /\ tx' = tx => tx' = [tx EXCEPT ![r] = tx[r]]
      /\ vectors \subseteq Requests /\ files \subseteq Requests
      /\ req[r].out \in Outcomes
      /\ Identity(r) /\ InOrder(r, req[r].pc, req[r].out, tx[r])
  BY Serving
<1>1. CASE UNCHANGED tx /\ Unwind(r, "conflict")
  <2> QED BY <1>0, <1>1, UnwindStep DEF InsertChunks, Outcomes, Working, UploadPc, ProcessPc, DeletePc
<1>2. CASE /\ tx' = [tx EXCEPT ![r].ins = {r}, ![r].status = "CHUNKED", ![r].did = {"version"}]
            /\ Goto(r, "progress")
            /\ Present(req[r].doc) /\ chunks[req[r].doc] \ tx[r].del = {}
  <2> DEFINE w == [tx[r] EXCEPT !.ins = {r}, !.status = "CHUNKED", !.did = {"version"}]
  <2>1. w \in TxType
    BY <1>0 DEF TxType, VersionStatus, JobStatus
  <2>2. tx' = [tx EXCEPT ![r] = w]
    BY <1>0, <1>2 DEF InsertChunks
  <2>3. InOrder(r, "progress", req[r].out, w)
    BY <1>0, <1>2 DEF InsertChunks, InOrder, Program, NothingOpen, Relies, UploadWrites,
                ProcessWrites, DeleteWrites, UploadPc, ProcessPc, DeletePc, TxType
  <2>4. Free(r, w)
    BY <1>0, <1>2 DEF InsertChunks, Free, TxType, Blockers
  <2> HIDE DEF w
  <2>5. Moved(r, "progress", req[r].out, w)
    BY <1>0, <1>2, <2>1, <2>2, GotoMoves DEF InsertChunks, Pc, Working, UploadPc, ProcessPc, DeletePc
  <2> QED
    BY <1>0, <2>1, <2>2, <2>3, <2>4, <2>5, MoveStep DEF Pc, Working, UploadPc, ProcessPc, DeletePc
<1> QED BY <1>1, <1>2 DEF InsertChunks

LEMMA MarkChunkedStep == ASSUME IInv, NEW r \in Requests, MarkChunked(r) PROVE IInv'
<1>0. /\ TypeOK /\ req[r] \in ReqType /\ tx[r] \in TxType
      /\ tx' = tx => tx' = [tx EXCEPT ![r] = tx[r]]
      /\ vectors \subseteq Requests /\ files \subseteq Requests
      /\ req[r].out \in Outcomes
      /\ Identity(r) /\ InOrder(r, req[r].pc, req[r].out, tx[r])
  BY Serving
<1>1. CASE UNCHANGED tx /\ Unwind(r, "not_found")
  <2> QED BY <1>0, <1>1, UnwindStep DEF MarkChunked, Outcomes, Working, UploadPc, ProcessPc, DeletePc
<1>2. CASE UNCHANGED tx /\ Unwind(r, "error")
  <2> QED BY <1>0, <1>2, UnwindStep DEF MarkChunked, Outcomes, Working, UploadPc, ProcessPc, DeletePc
<1>3. CASE UNCHANGED tx /\ Goto(r, "fetch")
  <2>3. InOrder(r, "fetch", req[r].out, tx[r])
    BY <1>0, <1>3 DEF MarkChunked, InOrder, Program, NothingOpen, Relies, UploadWrites,
                ProcessWrites, DeleteWrites, UploadPc, ProcessPc, DeletePc
  <2>4. Free(r, tx[r])
    BY <1>0, <1>3 DEF MarkChunked, Free
  <2>5. Moved(r, "fetch", req[r].out, tx[r])
    BY <1>0, <1>3, GotoMoves DEF MarkChunked, Pc, Working, UploadPc, ProcessPc, DeletePc
  <2> QED
    BY <1>0, <2>3, <2>4, <2>5, MoveStep DEF Pc, Working, UploadPc, ProcessPc, DeletePc
<1>4. CASE UNCHANGED tx /\ Goto(r, "progress")
  <2>3. InOrder(r, "progress", req[r].out, tx[r])
    BY <1>0, <1>4 DEF MarkChunked, InOrder, Program, NothingOpen, Relies, UploadWrites,
                ProcessWrites, DeleteWrites, UploadPc, ProcessPc, DeletePc
  <2>4. Free(r, tx[r])
    BY <1>0, <1>4 DEF MarkChunked, Free
  <2>5. Moved(r, "progress", req[r].out, tx[r])
    BY <1>0, <1>4, GotoMoves DEF MarkChunked, Pc, Working, UploadPc, ProcessPc, DeletePc
  <2> QED
    BY <1>0, <2>3, <2>4, <2>5, MoveStep DEF Pc, Working, UploadPc, ProcessPc, DeletePc
<1>5. CASE /\ tx' = [tx EXCEPT ![r].status = "CHUNKED", ![r].did = {"version"}] /\ Goto(r, "fetch")
            /\ Present(req[r].doc) /\ tx[r].status # "CHUNKED"
  <2> DEFINE w == [tx[r] EXCEPT !.status = "CHUNKED", !.did = {"version"}]
  <2>1. w \in TxType
    BY <1>0 DEF TxType, VersionStatus, JobStatus
  <2>2. tx' = [tx EXCEPT ![r] = w]
    BY <1>0, <1>5 DEF MarkChunked
  <2>3. InOrder(r, "fetch", req[r].out, w)
    BY <1>0, <1>5 DEF MarkChunked, InOrder, Program, NothingOpen, Relies, UploadWrites,
                ProcessWrites, DeleteWrites, UploadPc, ProcessPc, DeletePc, TxType
  <2>4. Free(r, w)
    BY <1>0, <1>5 DEF MarkChunked, Free, TxType, Blockers
  <2> HIDE DEF w
  <2>5. Moved(r, "fetch", req[r].out, w)
    BY <1>0, <1>5, <2>1, <2>2, GotoMoves DEF MarkChunked, Pc, Working, UploadPc, ProcessPc, DeletePc
  <2> QED
    BY <1>0, <2>1, <2>2, <2>3, <2>4, <2>5, MoveStep DEF Pc, Working, UploadPc, ProcessPc, DeletePc
<1>6. CASE /\ tx' = [tx EXCEPT ![r].status = "CHUNKED", ![r].did = {"version"}] /\ Goto(r, "progress")
            /\ Present(req[r].doc) /\ tx[r].status # "CHUNKED"
  <2> DEFINE w == [tx[r] EXCEPT !.status = "CHUNKED", !.did = {"version"}]
  <2>1. w \in TxType
    BY <1>0 DEF TxType, VersionStatus, JobStatus
  <2>2. tx' = [tx EXCEPT ![r] = w]
    BY <1>0, <1>6 DEF MarkChunked
  <2>3. InOrder(r, "progress", req[r].out, w)
    BY <1>0, <1>6 DEF MarkChunked, InOrder, Program, NothingOpen, Relies, UploadWrites,
                ProcessWrites, DeleteWrites, UploadPc, ProcessPc, DeletePc, TxType
  <2>4. Free(r, w)
    BY <1>0, <1>6 DEF MarkChunked, Free, TxType, Blockers
  <2> HIDE DEF w
  <2>5. Moved(r, "progress", req[r].out, w)
    BY <1>0, <1>6, <2>1, <2>2, GotoMoves DEF MarkChunked, Pc, Working, UploadPc, ProcessPc, DeletePc
  <2> QED
    BY <1>0, <2>1, <2>2, <2>3, <2>4, <2>5, MoveStep DEF Pc, Working, UploadPc, ProcessPc, DeletePc
<1> QED BY <1>1, <1>2, <1>3, <1>4, <1>5, <1>6 DEF MarkChunked

LEMMA ReportChunkedStep == ASSUME IInv, NEW r \in Requests, ReportChunked(r) PROVE IInv'
<1>0. /\ TypeOK /\ req[r] \in ReqType /\ tx[r] \in TxType
      /\ tx' = tx => tx' = [tx EXCEPT ![r] = tx[r]]
      /\ vectors \subseteq Requests /\ files \subseteq Requests
      /\ req[r].out \in Outcomes
      /\ Identity(r) /\ InOrder(r, req[r].pc, req[r].out, tx[r])
  BY Serving
<1>1. CASE /\ tx' = [tx EXCEPT ![r].job = "CHUNKED", ![r].did = @ \cup {"job"}]
            /\ Goto(r, "fetch") /\ Present(req[r].doc)
  <2> DEFINE w == [tx[r] EXCEPT !.job = "CHUNKED", !.did = tx[r].did \cup {"job"}]
  <2>1. w \in TxType
    BY <1>0 DEF TxType, VersionStatus, JobStatus
  <2>2. tx' = [tx EXCEPT ![r] = w]
    BY <1>0, <1>1 DEF ReportChunked
  <2>3. InOrder(r, "fetch", req[r].out, w)
    BY <1>0, <1>1 DEF ReportChunked, InOrder, Program, NothingOpen, Relies, UploadWrites,
                ProcessWrites, DeleteWrites, UploadPc, ProcessPc, DeletePc, TxType
  <2>4. Free(r, w)
    BY <1>0, <1>1 DEF ReportChunked, Free, TxType, Blockers
  <2> HIDE DEF w
  <2>5. Moved(r, "fetch", req[r].out, w)
    BY <1>0, <1>1, <2>1, <2>2, GotoMoves DEF ReportChunked, Pc, Working, UploadPc, ProcessPc, DeletePc
  <2> QED
    BY <1>0, <2>1, <2>2, <2>3, <2>4, <2>5, MoveStep DEF Pc, Working, UploadPc, ProcessPc, DeletePc
<1>2. CASE UNCHANGED tx /\ Goto(r, "fetch")
  <2>3. InOrder(r, "fetch", req[r].out, tx[r])
    BY <1>0, <1>2 DEF ReportChunked, InOrder, Program, NothingOpen, Relies, UploadWrites,
                ProcessWrites, DeleteWrites, UploadPc, ProcessPc, DeletePc
  <2>4. Free(r, tx[r])
    BY <1>0, <1>2 DEF ReportChunked, Free
  <2>5. Moved(r, "fetch", req[r].out, tx[r])
    BY <1>0, <1>2, GotoMoves DEF ReportChunked, Pc, Working, UploadPc, ProcessPc, DeletePc
  <2> QED
    BY <1>0, <2>3, <2>4, <2>5, MoveStep DEF Pc, Working, UploadPc, ProcessPc, DeletePc
<1>3. CASE UNCHANGED tx /\ Unwind(r, "error")
  <2> QED BY <1>0, <1>3, UnwindStep DEF ReportChunked, Outcomes, Working, UploadPc, ProcessPc, DeletePc
<1> QED BY <1>1, <1>2, <1>3 DEF ReportChunked

LEMMA FetchChunksStep == ASSUME IInv, NEW r \in Requests, FetchChunks(r) PROVE IInv'
<1>0. /\ TypeOK /\ req[r] \in ReqType /\ tx[r] \in TxType
      /\ tx' = tx => tx' = [tx EXCEPT ![r] = tx[r]]
      /\ vectors \subseteq Requests /\ files \subseteq Requests
      /\ req[r].out \in Outcomes
      /\ Identity(r) /\ InOrder(r, req[r].pc, req[r].out, tx[r])
  BY Serving
<1>1. CASE UNCHANGED tx /\ Unwind(r, "not_found")
  <2> QED BY <1>0, <1>1, UnwindStep DEF FetchChunks, Outcomes, Working, UploadPc, ProcessPc, DeletePc
<1>2. CASE UNCHANGED tx /\ Finish(r, "no_text")
  <2>3. InOrder(r, "commit", "no_text", tx[r])
    BY <1>0, <1>2 DEF FetchChunks, InOrder, Program, NothingOpen, Relies, UploadWrites,
                ProcessWrites, DeleteWrites, UploadPc, ProcessPc, DeletePc
  <2>4. Free(r, tx[r])
    BY <1>0, <1>2 DEF FetchChunks, Free
  <2>5. Moved(r, "commit", "no_text", tx[r])
    BY <1>0, <1>2, FinishMoves DEF FetchChunks, Working, UploadPc, ProcessPc, DeletePc, Outcomes
  <2> QED
    BY <1>0, <2>3, <2>4, <2>5, MoveStep DEF Pc, Working, UploadPc, ProcessPc, DeletePc, Outcomes
<1>3. CASE tx' = [tx EXCEPT ![r].job = "PROCESSING"] /\ Goto(r, "embed")
  <2> DEFINE w == [tx[r] EXCEPT !.job = "PROCESSING"]
  <2>1. w \in TxType
    BY <1>0 DEF TxType, VersionStatus, JobStatus
  <2>2. tx' = [tx EXCEPT ![r] = w]
    BY <1>0, <1>3 DEF FetchChunks
  <2>3. InOrder(r, "embed", req[r].out, w)
    BY <1>0, <1>3 DEF FetchChunks, InOrder, Program, NothingOpen, Relies, UploadWrites,
                ProcessWrites, DeleteWrites, UploadPc, ProcessPc, DeletePc, TxType
  <2>4. Free(r, w)
    BY <1>0, <1>3 DEF FetchChunks, Free, TxType, Blockers
  <2> HIDE DEF w
  <2>5. Moved(r, "embed", req[r].out, w)
    BY <1>0, <1>3, <2>1, <2>2, GotoMoves DEF FetchChunks, Pc, Working, UploadPc, ProcessPc, DeletePc
  <2> QED
    BY <1>0, <2>1, <2>2, <2>3, <2>4, <2>5, MoveStep DEF Pc, Working, UploadPc, ProcessPc, DeletePc
<1> QED BY <1>1, <1>2, <1>3 DEF FetchChunks

LEMMA EmbedDocumentsStep == ASSUME IInv, NEW r \in Requests, EmbedDocuments(r) PROVE IInv'
<1>0. /\ TypeOK /\ req[r] \in ReqType /\ tx[r] \in TxType
      /\ tx' = tx => tx' = [tx EXCEPT ![r] = tx[r]]
      /\ vectors \subseteq Requests /\ files \subseteq Requests
      /\ req[r].out \in Outcomes
      /\ Identity(r) /\ InOrder(r, req[r].pc, req[r].out, tx[r])
  BY Serving
<1>3. InOrder(r, "upsert", req[r].out, tx[r])
  BY <1>0 DEF EmbedDocuments, InOrder, Program, NothingOpen, Relies, UploadWrites,
              ProcessWrites, DeleteWrites, UploadPc, ProcessPc, DeletePc
<1>4. Free(r, tx[r])
  BY <1>0 DEF EmbedDocuments, Free
<1>5. Moved(r, "upsert", req[r].out, tx[r])
  BY <1>0, GotoMoves DEF EmbedDocuments, Pc, Working, UploadPc, ProcessPc, DeletePc
<1> QED
  BY <1>0, <1>3, <1>4, <1>5, MoveStep DEF Pc, Working, UploadPc, ProcessPc, DeletePc

LEMMA UpdateReferencesStep == ASSUME IInv, NEW r \in Requests, UpdateReferences(r) PROVE IInv'
<1>0. /\ TypeOK /\ req[r] \in ReqType /\ tx[r] \in TxType
      /\ tx' = tx => tx' = [tx EXCEPT ![r] = tx[r]]
      /\ vectors \subseteq Requests /\ files \subseteq Requests
      /\ req[r].out \in Outcomes
      /\ Identity(r) /\ InOrder(r, req[r].pc, req[r].out, tx[r])
  BY Serving
<1> DEFINE w == [tx[r] EXCEPT !.status = "EMBEDDED", !.job = "COMPLETED"]
<1>1. w \in TxType
  BY <1>0 DEF TxType, VersionStatus, JobStatus
<1>2. tx' = [tx EXCEPT ![r] = w]
  BY <1>0 DEF UpdateReferences
<1>3. InOrder(r, "commit", "processed", w)
  BY <1>0 DEF UpdateReferences, InOrder, Program, NothingOpen, Relies, UploadWrites,
              ProcessWrites, DeleteWrites, UploadPc, ProcessPc, DeletePc, TxType
<1>4. Free(r, w)
  BY <1>0 DEF UpdateReferences, Free, TxType, Blockers
<1> HIDE DEF w
<1>5. Moved(r, "commit", "processed", w)
  BY <1>0, <1>1, <1>2, FinishMoves DEF UpdateReferences, Working, UploadPc, ProcessPc, DeletePc, Outcomes
<1> QED
  BY <1>0, <1>1, <1>2, <1>3, <1>4, <1>5, MoveStep DEF Pc, Working, UploadPc, ProcessPc, DeletePc, Outcomes

LEMMA RemoveFileStep == ASSUME IInv, NEW r \in Requests, RemoveFile(r) PROVE IInv'
<1>0. /\ TypeOK /\ req[r] \in ReqType /\ tx[r] \in TxType
      /\ tx' = tx => tx' = [tx EXCEPT ![r] = tx[r]]
      /\ vectors \subseteq Requests /\ files \subseteq Requests
      /\ req[r].out \in Outcomes
      /\ Identity(r) /\ InOrder(r, req[r].pc, req[r].out, tx[r])
  BY Serving
<1>3. InOrder(r, "select", req[r].out, tx[r])
  BY <1>0 DEF RemoveFile, InOrder, Program, NothingOpen, Relies, UploadWrites,
              ProcessWrites, DeleteWrites, UploadPc, ProcessPc, DeletePc
<1>4. Free(r, tx[r])
  BY <1>0 DEF RemoveFile, Free
<1>5. Moved(r, "select", req[r].out, tx[r])
  BY <1>0, GotoMoves DEF RemoveFile, Pc, Working, UploadPc, ProcessPc, DeletePc
<1> QED
  BY <1>0, <1>3, <1>4, <1>5, MoveStep DEF Pc, Working, UploadPc, ProcessPc, DeletePc

LEMMA SelectRowsStep == ASSUME IInv, NEW r \in Requests, SelectRows(r) PROVE IInv'
<1>0. /\ TypeOK /\ req[r] \in ReqType /\ tx[r] \in TxType
      /\ tx' = tx => tx' = [tx EXCEPT ![r] = tx[r]]
      /\ vectors \subseteq Requests /\ files \subseteq Requests
      /\ req[r].out \in Outcomes
      /\ Identity(r) /\ InOrder(r, req[r].pc, req[r].out, tx[r])
  BY Serving
<1>1. CASE UNCHANGED tx /\ Unwind(r, "not_found")
  <2> QED BY <1>0, <1>1, UnwindStep DEF SelectRows, Outcomes, Working, UploadPc, ProcessPc, DeletePc
<1>2. CASE tx' = [tx EXCEPT ![r].snap = chunks[req[r].doc]] /\ Goto(r, "rows")
  <2> DEFINE w == [tx[r] EXCEPT !.snap = chunks[req[r].doc]]
  <2>1. w \in TxType
    BY <1>0, Serving DEF TxType, VersionStatus, JobStatus, SelectRows
  <2>2. tx' = [tx EXCEPT ![r] = w]
    BY <1>0, <1>2 DEF SelectRows
  <2>3. InOrder(r, "rows", req[r].out, w)
    BY <1>0, <1>2 DEF SelectRows, InOrder, Program, NothingOpen, Relies, UploadWrites,
                ProcessWrites, DeleteWrites, UploadPc, ProcessPc, DeletePc, TxType
  <2>4. Free(r, w)
    BY <1>0, <1>2 DEF SelectRows, Free, TxType, Blockers
  <2> HIDE DEF w
  <2>5. Moved(r, "rows", req[r].out, w)
    BY <1>0, <1>2, <2>1, <2>2, GotoMoves DEF SelectRows, Pc, Working, UploadPc, ProcessPc, DeletePc
  <2> QED
    BY <1>0, <2>1, <2>2, <2>3, <2>4, <2>5, MoveStep DEF Pc, Working, UploadPc, ProcessPc, DeletePc
<1>3. CASE tx' = [tx EXCEPT ![r].snap = chunks[req[r].doc]] /\ Goto(r, "jobrow")
  <2> DEFINE w == [tx[r] EXCEPT !.snap = chunks[req[r].doc]]
  <2>1. w \in TxType
    BY <1>0, Serving DEF TxType, VersionStatus, JobStatus, SelectRows
  <2>2. tx' = [tx EXCEPT ![r] = w]
    BY <1>0, <1>3 DEF SelectRows
  <2>3. InOrder(r, "jobrow", req[r].out, w)
    BY <1>0, <1>3 DEF SelectRows, InOrder, Program, NothingOpen, Relies, UploadWrites,
                ProcessWrites, DeleteWrites, UploadPc, ProcessPc, DeletePc, TxType
  <2>4. Free(r, w)
    BY <1>0, <1>3 DEF SelectRows, Free, TxType, Blockers
  <2> HIDE DEF w
  <2>5. Moved(r, "jobrow", req[r].out, w)
    BY <1>0, <1>3, <2>1, <2>2, GotoMoves DEF SelectRows, Pc, Working, UploadPc, ProcessPc, DeletePc
  <2> QED
    BY <1>0, <2>1, <2>2, <2>3, <2>4, <2>5, MoveStep DEF Pc, Working, UploadPc, ProcessPc, DeletePc
<1> QED BY <1>1, <1>2, <1>3 DEF SelectRows

LEMMA DeleteChunkRowsStep == ASSUME IInv, NEW r \in Requests, DeleteChunkRows(r) PROVE IInv'
<1>0. /\ TypeOK /\ req[r] \in ReqType /\ tx[r] \in TxType
      /\ tx' = tx => tx' = [tx EXCEPT ![r] = tx[r]]
      /\ vectors \subseteq Requests /\ files \subseteq Requests
      /\ req[r].out \in Outcomes
      /\ Identity(r) /\ InOrder(r, req[r].pc, req[r].out, tx[r])
  BY Serving
<1>1. CASE Goto(r, "version") /\ "job" \in tx[r].did
  <2> DEFINE w == [tx[r] EXCEPT !.del = tx[r].snap \cap chunks[req[r].doc], !.did = tx[r].did \cup {"rows"}]
  <2>1. w \in TxType
    BY <1>0 DEF TxType, VersionStatus, JobStatus
  <2>2. tx' = [tx EXCEPT ![r] = w]
    BY <1>0, <1>1 DEF DeleteChunkRows
  <2>3. InOrder(r, "version", req[r].out, w)
    BY <1>0, <1>1 DEF DeleteChunkRows, InOrder, Program, NothingOpen, Relies, UploadWrites,
                ProcessWrites, DeleteWrites, UploadPc, ProcessPc, DeletePc, TxType
  <2>4. Free(r, w)
    BY <1>0, <1>1 DEF DeleteChunkRows, Free, TxType, Blockers
  <2> HIDE DEF w
  <2>5. Moved(r, "version", req[r].out, w)
    BY <1>0, <1>1, <2>1, <2>2, GotoMoves DEF DeleteChunkRows, Pc, Working, UploadPc, ProcessPc, DeletePc
  <2> QED
    BY <1>0, <2>1, <2>2, <2>3, <2>4, <2>5, MoveStep DEF Pc, Working, UploadPc, ProcessPc, DeletePc
<1>2. CASE Goto(r, "jobrow")
  <2> DEFINE w == [tx[r] EXCEPT !.del = tx[r].snap \cap chunks[req[r].doc], !.did = tx[r].did \cup {"rows"}]
  <2>1. w \in TxType
    BY <1>0 DEF TxType, VersionStatus, JobStatus
  <2>2. tx' = [tx EXCEPT ![r] = w]
    BY <1>0, <1>2 DEF DeleteChunkRows
  <2>3. InOrder(r, "jobrow", req[r].out, w)
    BY <1>0, <1>2 DEF DeleteChunkRows, InOrder, Program, NothingOpen, Relies, UploadWrites,
                ProcessWrites, DeleteWrites, UploadPc, ProcessPc, DeletePc, TxType
  <2>4. Free(r, w)
    BY <1>0, <1>2 DEF DeleteChunkRows, Free, TxType, Blockers
  <2> HIDE DEF w
  <2>5. Moved(r, "jobrow", req[r].out, w)
    BY <1>0, <1>2, <2>1, <2>2, GotoMoves DEF DeleteChunkRows, Pc, Working, UploadPc, ProcessPc, DeletePc
  <2> QED
    BY <1>0, <2>1, <2>2, <2>3, <2>4, <2>5, MoveStep DEF Pc, Working, UploadPc, ProcessPc, DeletePc
<1> QED BY <1>1, <1>2 DEF DeleteChunkRows

LEMMA DeleteJobRowStep == ASSUME IInv, NEW r \in Requests, DeleteJobRow(r) PROVE IInv'
<1>0. /\ TypeOK /\ req[r] \in ReqType /\ tx[r] \in TxType
      /\ tx' = tx => tx' = [tx EXCEPT ![r] = tx[r]]
      /\ vectors \subseteq Requests /\ files \subseteq Requests
      /\ req[r].out \in Outcomes
      /\ Identity(r) /\ InOrder(r, req[r].pc, req[r].out, tx[r])
  BY Serving
<1>1. CASE Goto(r, "version")
  <2> DEFINE w == [tx[r] EXCEPT !.job = "ABSENT", !.did = tx[r].did \cup {"job"}]
  <2>1. w \in TxType
    BY <1>0 DEF TxType, VersionStatus, JobStatus
  <2>2. tx' = [tx EXCEPT ![r] = w]
    BY <1>0, <1>1 DEF DeleteJobRow
  <2>3. InOrder(r, "version", req[r].out, w)
    BY <1>0, <1>1 DEF DeleteJobRow, InOrder, Program, NothingOpen, Relies, UploadWrites,
                ProcessWrites, DeleteWrites, UploadPc, ProcessPc, DeletePc, TxType
  <2>4. Free(r, w)
    BY <1>0, <1>1 DEF DeleteJobRow, Free, TxType, Blockers
  <2> HIDE DEF w
  <2>5. Moved(r, "version", req[r].out, w)
    BY <1>0, <1>1, <2>1, <2>2, GotoMoves DEF DeleteJobRow, Pc, Working, UploadPc, ProcessPc, DeletePc
  <2> QED
    BY <1>0, <2>1, <2>2, <2>3, <2>4, <2>5, MoveStep DEF Pc, Working, UploadPc, ProcessPc, DeletePc
<1>2. CASE Goto(r, "rows")
  <2> DEFINE w == [tx[r] EXCEPT !.job = "ABSENT", !.did = tx[r].did \cup {"job"}]
  <2>1. w \in TxType
    BY <1>0 DEF TxType, VersionStatus, JobStatus
  <2>2. tx' = [tx EXCEPT ![r] = w]
    BY <1>0, <1>2 DEF DeleteJobRow
  <2>3. InOrder(r, "rows", req[r].out, w)
    BY <1>0, <1>2 DEF DeleteJobRow, InOrder, Program, NothingOpen, Relies, UploadWrites,
                ProcessWrites, DeleteWrites, UploadPc, ProcessPc, DeletePc, TxType
  <2>4. Free(r, w)
    BY <1>0, <1>2 DEF DeleteJobRow, Free, TxType, Blockers
  <2> HIDE DEF w
  <2>5. Moved(r, "rows", req[r].out, w)
    BY <1>0, <1>2, <2>1, <2>2, GotoMoves DEF DeleteJobRow, Pc, Working, UploadPc, ProcessPc, DeletePc
  <2> QED
    BY <1>0, <2>1, <2>2, <2>3, <2>4, <2>5, MoveStep DEF Pc, Working, UploadPc, ProcessPc, DeletePc
<1> QED BY <1>1, <1>2 DEF DeleteJobRow

LEMMA LockVersionStep == ASSUME IInv, NEW r \in Requests, LockVersion(r) PROVE IInv'
<1>0. /\ TypeOK /\ req[r] \in ReqType /\ tx[r] \in TxType
      /\ tx' = tx => tx' = [tx EXCEPT ![r] = tx[r]]
      /\ vectors \subseteq Requests /\ files \subseteq Requests
      /\ req[r].out \in Outcomes
      /\ Identity(r) /\ InOrder(r, req[r].pc, req[r].out, tx[r])
  BY Serving
<1> DEFINE w == [tx[r] EXCEPT !.status = "ABSENT", !.did = tx[r].did \cup {"version"}]
<1>1. w \in TxType
  BY <1>0 DEF TxType, VersionStatus, JobStatus
<1>2. tx' = [tx EXCEPT ![r] = w]
  BY <1>0 DEF LockVersion
<1>3. InOrder(r, "cascade", req[r].out, w)
  BY <1>0 DEF LockVersion, InOrder, Program, NothingOpen, Relies, UploadWrites,
              ProcessWrites, DeleteWrites, UploadPc, ProcessPc, DeletePc, TxType
<1>4. Free(r, w)
  BY <1>0 DEF LockVersion, Free, TxType, Blockers
<1> HIDE DEF w
<1>5. Moved(r, "cascade", req[r].out, w)
  BY <1>0, <1>1, <1>2, GotoMoves DEF LockVersion, Pc, Working, UploadPc, ProcessPc, DeletePc
<1> QED
  BY <1>0, <1>1, <1>2, <1>3, <1>4, <1>5, MoveStep DEF Pc, Working, UploadPc, ProcessPc, DeletePc

LEMMA CascadeStep == ASSUME IInv, NEW r \in Requests, Cascade(r) PROVE IInv'
<1>0. /\ TypeOK /\ req[r] \in ReqType /\ tx[r] \in TxType
      /\ tx' = tx => tx' = [tx EXCEPT ![r] = tx[r]]
      /\ vectors \subseteq Requests /\ files \subseteq Requests
      /\ req[r].out \in Outcomes
      /\ Identity(r) /\ InOrder(r, req[r].pc, req[r].out, tx[r])
  BY Serving
<1> DEFINE w == [tx[r] EXCEPT !.del = chunks[req[r].doc]]
<1>1. w \in TxType
  BY <1>0, Serving DEF TxType, VersionStatus, JobStatus, Cascade
<1>2. tx' = [tx EXCEPT ![r] = w]
  BY <1>0 DEF Cascade
<1>3. InOrder(r, "commit", "deleted", w)
  BY <1>0 DEF Cascade, InOrder, Program, NothingOpen, Relies, UploadWrites,
              ProcessWrites, DeleteWrites, UploadPc, ProcessPc, DeletePc, TxType
<1>4. Free(r, w)
  BY <1>0 DEF Cascade, Free, TxType, Blockers
<1> HIDE DEF w
<1>5. Moved(r, "commit", "deleted", w)
  BY <1>0, <1>1, <1>2, FinishMoves DEF Cascade, Working, UploadPc, ProcessPc, DeletePc, Outcomes
<1> QED
  BY <1>0, <1>1, <1>2, <1>3, <1>4, <1>5, MoveStep DEF Pc, Working, UploadPc, ProcessPc, DeletePc, Outcomes

LEMMA ParseStep == ASSUME IInv, NEW r \in Requests, Parse(r) PROVE IInv'
<1>0. /\ TypeOK /\ req[r] \in ReqType /\ tx[r] \in TxType
      /\ tx' = tx => tx' = [tx EXCEPT ![r] = tx[r]]
      /\ vectors \subseteq Requests /\ files \subseteq Requests
      /\ req[r].out \in Outcomes
      /\ Identity(r) /\ InOrder(r, req[r].pc, req[r].out, tx[r])
  BY Serving
<1>1. PICK s \in Shapes : req' = [req EXCEPT ![r] = [req[r] EXCEPT !.pc = "finish", !.shape = s]]
  BY DEF Parse
<1>2. [req[r] EXCEPT !.pc = "finish", !.shape = s] \in ReqType
  BY <1>0 DEF ReqType, Pc, Working, UploadPc
<1>3. InOrder(r, "finish", req[r].out, tx[r])
  BY <1>0 DEF Parse, InOrder, Program, NothingOpen, Relies, UploadWrites,
              ProcessWrites, DeleteWrites, UploadPc, ProcessPc, DeletePc
<1>4. Free(r, tx[r])
  BY DEF Free
<1>5. Moved(r, "finish", req[r].out, tx[r])
  BY <1>0, <1>1, <1>2 DEF Parse, Moved, TypeOK, db, ReqType
<1> QED
  BY <1>0, <1>3, <1>4, <1>5, MoveStep DEF Pc, Working, UploadPc

\* The two vector stores: vectors at once, or rows of the transaction.
LEMMA UpsertVectorsStep == ASSUME IInv, NEW r \in Requests, UpsertVectors(r) PROVE IInv'
<1>0. /\ TypeOK /\ req[r] \in ReqType /\ tx[r] \in TxType
      /\ tx' = tx => tx' = [tx EXCEPT ![r] = tx[r]]
      /\ vectors \subseteq Requests /\ files \subseteq Requests
      /\ req[r].out \in Outcomes
      /\ Identity(r) /\ InOrder(r, req[r].pc, req[r].out, tx[r])
  BY Serving
<1>1. tx[r].ins \subseteq Requests
  BY <1>0 DEF TxType
<1>2. vectors' \subseteq Requests /\ files' \subseteq Requests
  BY <1>0, <1>1 DEF UpsertVectors
<1> DEFINE w == IF InMemory THEN tx[r] ELSE [tx[r] EXCEPT !.emb = tx[r].ins]
<1>3. w \in TxType
  BY <1>0, <1>1 DEF TxType
<1>4. tx' = [tx EXCEPT ![r] = w]
  BY <1>0 DEF UpsertVectors
<1>5. InOrder(r, "refs", req[r].out, w)
  BY <1>0 DEF UpsertVectors, InOrder, Program, NothingOpen, Relies, UploadWrites,
              ProcessWrites, DeleteWrites, UploadPc, ProcessPc, DeletePc, TxType
<1>6. Free(r, w)
  BY <1>0 DEF Free, TxType
<1> HIDE DEF w
<1>7. Moved(r, "refs", req[r].out, w)
  BY <1>0, <1>2, <1>3, <1>4, GotoMoves DEF UpsertVectors, Pc, Working, ProcessPc, db
<1> QED
  BY <1>0, <1>3, <1>5, <1>6, <1>7, MoveStep DEF Pc, Working, ProcessPc

LEMMA FailEmbeddingStep == ASSUME IInv, NEW r \in Requests, FailEmbedding(r) PROVE IInv'
<1>0. /\ TypeOK /\ req[r] \in ReqType /\ tx[r] \in TxType
      /\ vectors \subseteq Requests /\ files \subseteq Requests
      /\ InOrder(r, req[r].pc, req[r].out, tx[r])
  BY Serving
<1> DEFINE w == [tx[r] EXCEPT !.job = "FAILED"]
<1>1. w \in TxType
  BY <1>0 DEF TxType, JobStatus
<1>2. tx' = [tx EXCEPT ![r] = w]
  BY DEF FailEmbedding
<1>3. req[r].kind = "process" /\ req[r].pc \in Working
  BY <1>0 DEF FailEmbedding, InOrder, Program, Working, ProcessPc
<1> QED
  BY <1>0, <1>1, <1>2, <1>3, UnwindStep DEF FailEmbedding, TxType, Outcomes

LEMMA FailStep == ASSUME IInv, NEW r \in Requests, Fail(r) PROVE IInv'
<1>1. /\ TypeOK /\ tx[r] \in TxType
      /\ tx' = tx => tx' = [tx EXCEPT ![r] = tx[r]]
      /\ vectors \subseteq Requests /\ files \subseteq Requests
  BY Serving
<1>2. files' \subseteq Requests /\ vectors' \subseteq Requests
  BY <1>1 DEF Fail
<1> QED
  BY <1>1, <1>2, UnwindStep DEF Fail, Outcomes

LEMMA RollbackSessionStep ==
  ASSUME IInv, NEW r \in Requests, RollbackSession(r)
  PROVE  IInv'
<1>0. /\ TypeOK /\ req[r] \in ReqType /\ tx[r] \in TxType
      /\ vectors \subseteq Requests /\ files \subseteq Requests
      /\ req[r].out \in Outcomes
      /\ InOrder(r, req[r].pc, req[r].out, tx[r])
  BY Serving
<1>1. NoTx \in TxType
  BY DEF NoTx, TxType, VersionStatus, JobStatus
<1>2. InOrder(r, "done", req[r].out, NoTx)
  BY <1>0 DEF RollbackSession, InOrder, Program, NothingOpen, Relies, UploadWrites,
              ProcessWrites, DeleteWrites, UploadPc, ProcessPc, DeletePc, NoTx
<1>3. req[r].out \notin {"created", "deleted"}
  BY <1>0 DEF RollbackSession, InOrder, Program
<1>4. Free(r, NoTx)
  BY DEF Free, NoTx
<1>5. Moved(r, "done", req[r].out, NoTx)
  BY <1>0, <1>1, GotoMoves DEF RollbackSession, Pc, db
<1> QED
  BY <1>0, <1>1, <1>2, <1>3, <1>4, <1>5, MoveStep DEF Pc

-----------------------------------------------------------------------------
(* A request begins.                                                       *)

\* The invariant survives when an idle request becomes v, with transaction w.
LEMMA BeginStep ==
  ASSUME IInv, NEW r \in Requests, NEW v \in ReqType, NEW w \in TxType,
         req[r].pc = "idle", req' = [req EXCEPT ![r] = v], tx' = [tx EXCEPT ![r] = w],
         UNCHANGED <<db, vectors, files>>,
         w.did = {}, w.ins = {}, w.emb = {}, w.del = {},
         v.out \notin {"created", "deleted"},
         \/ v.kind = "upload" /\ v.pc = "save" /\ v.doc = r
         \/ /\ v.doc \in Requests \ {r} /\ Known(v.doc)
            /\ \/ v.kind = "upload" /\ v.pc = "resolve" /\ w = NoTx
               \/ v.kind = "process" /\ v.pc \in {"chunk", "unwind"}
               \/ v.kind = "delete" /\ v.pc \in {"unlink", "unwind"}
  PROVE  IInv'
<1>1. TypeOK'
  BY DEF IInv, TypeOK, db
<1>2. /\ \A q \in Requests \ {r} : req'[q] = req[q] /\ tx'[q] = tx[q]
      /\ req'[r] = v /\ tx'[r] = w
  BY DEF IInv, TypeOK
<1>3. \A d \in Requests : Known(d)' <=> Known(d)
  BY <1>2 DEF Known
<1>4. row' = row /\ chunks' = chunks /\ embs' = embs
  BY DEF db
<1>5. LocalInv'
  <2>1. SUFFICES ASSUME NEW q \in Requests
                 PROVE  Identity(q)' /\ InOrder(q, req[q].pc, req[q].out, tx[q])'
    BY DEF LocalInv
  <2>2. Identity(q) /\ InOrder(q, req[q].pc, req[q].out, tx[q])
    BY DEF IInv, LocalInv
  <2>3. CASE q = r
    <3>1. Identity(r)'
      BY <1>2, <1>3 DEF Identity
    <3>2. InOrder(r, req[r].pc, req[r].out, tx[r])'
      BY <1>2 DEF InOrder, Program, NothingOpen, Relies, UploadWrites, ProcessWrites,
                  DeleteWrites, UploadPc, ProcessPc, DeletePc
    <3> QED BY <2>3, <3>1, <3>2
  <2>4. CASE q # r
    <3>1. Identity(q)'
      BY <1>2, <1>3, <2>2, <2>4 DEF Identity
    <3>2. InOrder(q, req[q].pc, req[q].out, tx[q])'
      BY <1>2, <1>4, <2>2, <2>4 DEF InOrder, Program, NothingOpen, Relies, UploadWrites,
                                    ProcessWrites, DeleteWrites, Present
    <3> QED BY <3>1, <3>2
  <2> QED BY <2>3, <2>4
<1>6. LockInv'
  BY <1>2 DEF IInv, LockInv
<1>7. OnlyKnownStored' /\ OneRunPerVersion' /\ NoOrphanRows'
  BY <1>3, <1>4 DEF IInv, OnlyKnownStored, OneRunPerVersion, NoOrphanRows, Present
<1>8. DeletedStaysDeleted'
  BY <1>2, <1>4 DEF IInv, DeletedStaysDeleted, Present
<1> QED BY <1>1, <1>5, <1>6, <1>7, <1>8 DEF IInv

LEMMA BeginUploadStep == ASSUME IInv, NEW r \in Requests, BeginUpload(r) PROVE IInv'
<1>1. /\ TypeOK /\ tx[r] \in TxType /\ tx' = [tx EXCEPT ![r] = tx[r]]
      /\ InOrder(r, req[r].pc, req[r].out, tx[r])
  BY Serving DEF BeginUpload
<1>2. tx[r] = NoTx
  BY <1>1 DEF InOrder, NothingOpen, BeginUpload
<1>a. req[r].pc = "idle" /\ UNCHANGED <<db, vectors, files>>
  BY DEF BeginUpload
<1>b. tx[r].did = {} /\ tx[r].ins = {} /\ tx[r].emb = {} /\ tx[r].del = {}
  BY <1>2 DEF NoTx
<1>3. PICK t \in Tenants, h \in Hashes :
        LET new == [Idle EXCEPT !.kind = "upload", !.tenant = t, !.hash = h]
        IN  \/ req' = [req EXCEPT ![r] = [new EXCEPT !.pc = "save", !.doc = r]]
            \/ \E d \in SameContent(t, h) :
                 req' = [req EXCEPT ![r] = [new EXCEPT !.pc = "resolve", !.doc = d]]
  BY DEF BeginUpload
<1> DEFINE v(pc, d) == [kind |-> "upload", pc |-> pc, tenant |-> t, hash |-> h, doc |-> d,
                        shape |-> "none", out |-> "none"]
<1>4. CASE req' = [req EXCEPT ![r] = v("save", r)]
  <2> DEFINE u == v("save", r)
  <2>1. u \in ReqType
    BY DEF ReqType, Pc, Working, UploadPc, Outcomes
  <2>2. u.kind = "upload" /\ u.pc = "save" /\ u.doc = r /\ u.out = "none"
    OBVIOUS
  <2>3. req' = [req EXCEPT ![r] = u]
    BY <1>4
  <2> HIDE DEF u
  <2> QED BY <1>1, <1>a, <1>b, <2>1, <2>2, <2>3, BeginStep
<1>5. ASSUME NEW d \in SameContent(t, h), req' = [req EXCEPT ![r] = v("resolve", d)]
      PROVE  IInv'
  <2>1. d \in Requests /\ Present(d)
    BY DEF SameContent
  <2>2. Known(d)
    BY <2>1 DEF IInv, OnlyKnownStored, Present, Absent
  <2>3. d # r
    BY <2>2 DEF Known, BeginUpload
  <2> DEFINE u == v("resolve", d)
  <2>4. u \in ReqType
    BY <2>1 DEF ReqType, Pc, Working, UploadPc, Outcomes
  <2>5. u.kind = "upload" /\ u.pc = "resolve" /\ u.doc = d /\ u.out = "none"
    OBVIOUS
  <2>6. req' = [req EXCEPT ![r] = u]
    BY <1>5
  <2> HIDE DEF u
  <2> QED BY <1>1, <1>2, <1>a, <1>b, <2>1, <2>2, <2>3, <2>4, <2>5, <2>6, BeginStep
<1> QED BY <1>3, <1>4, <1>5 DEF Idle

\* The endpoints that name a document.
LEMMA OpenStep ==
  ASSUME IInv, NEW r \in Requests, NEW kind \in {"process", "delete"},
         NEW pc \in {"chunk", "unlink"}, Open(r, kind, pc),
         kind = "process" <=> pc = "chunk"
  PROVE  IInv'
<1>1. /\ TypeOK /\ tx[r] \in TxType
      /\ tx' = tx => tx' = [tx EXCEPT ![r] = tx[r]]
      /\ InOrder(r, req[r].pc, req[r].out, tx[r])
  BY Serving
<1>2. tx[r] = NoTx
  BY <1>1 DEF InOrder, NothingOpen, Open
<1>a. req[r].pc = "idle" /\ UNCHANGED <<db, vectors, files>>
  BY DEF Open
<1>b. tx[r].did = {} /\ tx[r].ins = {} /\ tx[r].emb = {} /\ tx[r].del = {}
  BY <1>2 DEF NoTx
<1>3. PICK d \in Requests, caller \in Tenants \cup {Admin} :
        LET new == [Idle EXCEPT !.kind = kind, !.tenant = caller, !.doc = d]
            answer(out) == [new EXCEPT !.pc = "unwind", !.out = out]
        IN  /\ Known(d)
            /\ \/ req' = [req EXCEPT ![r] = answer("not_found")] /\ UNCHANGED tx
               \/ req' = [req EXCEPT ![r] = answer("forbidden")] /\ UNCHANGED tx
               \/ /\ req' = [req EXCEPT ![r] = [new EXCEPT !.pc = pc]]
                  /\ tx' = [tx EXCEPT ![r].status = row[d].status, ![r].job = row[d].job]
  BY DEF Open
<1> DEFINE v(p, out) == [kind |-> kind, pc |-> p, tenant |-> caller, hash |-> Nil, doc |-> d,
                         shape |-> "none", out |-> out]
           w == [tx[r] EXCEPT !.status = row[d].status, !.job = row[d].job]
<1>4. Known(d) /\ d # r
  BY <1>3 DEF Known, Open
<1>5. w \in TxType /\ w.did = {} /\ w.ins = {} /\ w.emb = {} /\ w.del = {}
  <2>1. row[d].status \in VersionStatus /\ row[d].job \in JobStatus
    BY <1>1 DEF TypeOK, RowType
  <2>2. w \in TxType
    BY <1>1, <2>1 DEF TxType
  <2>3. w.did = {} /\ w.ins = {} /\ w.emb = {} /\ w.del = {}
    BY <1>2 DEF NoTx
  <2> QED BY <2>2, <2>3
<1>6. v(pc, "none") \in ReqType /\ v("unwind", "not_found") \in ReqType
      /\ v("unwind", "forbidden") \in ReqType
  BY DEF ReqType, Pc, Working, ProcessPc, DeletePc, Outcomes
<1>7. CASE \E out \in {"not_found", "forbidden"} :
             req' = [req EXCEPT ![r] = v("unwind", out)] /\ UNCHANGED tx
  <2>1. PICK out \in {"not_found", "forbidden"} :
             req' = [req EXCEPT ![r] = v("unwind", out)] /\ UNCHANGED tx
    BY <1>7
  <2> DEFINE u == v("unwind", out)
  <2>2. u \in ReqType
    BY <1>6, <2>1
  <2>3. u.kind = kind /\ u.pc = "unwind" /\ u.doc = d /\ u.out = out
    OBVIOUS
  <2>4. req' = [req EXCEPT ![r] = u]
    BY <2>1
  <2>5. tx' = [tx EXCEPT ![r] = tx[r]]
    BY <1>1, <2>1
  <2>6. \/ u.kind = "process" /\ u.pc \in {"chunk", "unwind"}
        \/ u.kind = "delete" /\ u.pc \in {"unlink", "unwind"}
    BY <2>3
  <2>7. u.out \notin {"created", "deleted"}
    BY <2>1, <2>3
  <2>8. u.doc \in Requests \ {r} /\ Known(u.doc)
    BY <1>4, <2>3
  <2> HIDE DEF u
  <2> QED BY <1>1, <1>a, <1>b, <2>2, <2>4, <2>5, <2>6, <2>7, <2>8, BeginStep
<1>8. CASE req' = [req EXCEPT ![r] = v(pc, "none")] /\ tx' = [tx EXCEPT ![r] = w]
  <2> DEFINE u == v(pc, "none")
  <2>1. u \in ReqType
    BY <1>6
  <2>2. u.kind = kind /\ u.pc = pc /\ u.doc = d /\ u.out = "none"
    OBVIOUS
  <2>3. req' = [req EXCEPT ![r] = u]
    BY <1>8
  <2>4. \/ u.kind = "process" /\ u.pc \in {"chunk", "unwind"}
        \/ u.kind = "delete" /\ u.pc \in {"unlink", "unwind"}
    BY <2>2
  <2>5. u.out \notin {"created", "deleted"} /\ u.doc \in Requests \ {r} /\ Known(u.doc)
    BY <1>4, <2>2
  <2> HIDE DEF u, w
  <2> QED BY <1>5, <1>8, <1>a, <2>1, <2>3, <2>4, <2>5, BeginStep
<1> QED BY <1>3, <1>7, <1>8 DEF Idle

-----------------------------------------------------------------------------
(* The tables change.                                                      *)

\* What a commit does to the request and to the tables.
LEMMA Committing ==
  ASSUME IInv, NEW r \in Requests, CommitSession(r)
  PROVE  LET d == req[r].doc  w == tx[r] IN
         /\ \A q \in Requests \ {r} : req'[q] = req[q] /\ tx'[q] = tx[q]
         /\ req'[r].kind = req[r].kind /\ req'[r].doc = d /\ req'[r].out = req[r].out
         /\ req'[r].tenant = req[r].tenant /\ req'[r].shape = req[r].shape
         /\ req'[r].pc = "done" /\ tx'[r] = NoTx
         /\ req' \in [Requests -> ReqType] /\ tx' \in [Requests -> TxType]
         /\ \A x \in Requests \ {d} :
              row'[x] = row[x] /\ chunks'[x] = chunks[x] /\ embs'[x] = embs[x]
         /\ row'[d].status = IF "version" \in w.did THEN w.status ELSE row[d].status
         /\ row'[d].job = IF "job" \in w.did THEN w.job ELSE row[d].job
         /\ chunks'[d] = (chunks[d] \ w.del) \cup w.ins
         /\ embs'[d] = (embs[d] \ w.del) \cup w.emb
         /\ row' \in [Requests -> RowType]
         /\ chunks' \in [Requests -> SUBSET Requests] /\ embs' \in [Requests -> SUBSET Requests]
         /\ vectors' = vectors /\ files' = files
<1> DEFINE d == req[r].doc
           w == tx[r]
<1>1. /\ TypeOK /\ req[r] \in ReqType /\ w \in TxType /\ d \in Requests
  BY Serving DEF CommitSession
<1>2. /\ \A q \in Requests \ {r} : req'[q] = req[q] /\ tx'[q] = tx[q]
      /\ req'[r].kind = req[r].kind /\ req'[r].doc = d /\ req'[r].out = req[r].out
      /\ req'[r].tenant = req[r].tenant /\ req'[r].shape = req[r].shape
      /\ req'[r].pc = "done" /\ tx'[r] = NoTx
      /\ req' \in [Requests -> ReqType] /\ tx' \in [Requests -> TxType]
  <2>1. NoTx \in TxType
    BY DEF NoTx, TxType, VersionStatus, JobStatus
  <2>2. [req[r] EXCEPT !.pc = "done"] \in ReqType
    BY <1>1 DEF ReqType, Pc
  <2>3. req' = [req EXCEPT ![r] = [req[r] EXCEPT !.pc = "done"]] /\ tx' = [tx EXCEPT ![r] = NoTx]
    BY DEF CommitSession, Goto
  <2> QED BY <1>1, <2>1, <2>2, <2>3 DEF TypeOK, ReqType
<1>3. /\ \A x \in Requests \ {d} : row'[x] = row[x] /\ chunks'[x] = chunks[x] /\ embs'[x] = embs[x]
      /\ row'[d].status = IF "version" \in w.did THEN w.status ELSE row[d].status
      /\ row'[d].job = IF "job" \in w.did THEN w.job ELSE row[d].job
      /\ chunks'[d] = (chunks[d] \ w.del) \cup w.ins
      /\ embs'[d] = (embs[d] \ w.del) \cup w.emb
      /\ row' \in [Requests -> RowType]
      /\ chunks' \in [Requests -> SUBSET Requests] /\ embs' \in [Requests -> SUBSET Requests]
      /\ vectors' = vectors /\ files' = files
  <2> DEFINE v == [row[d] EXCEPT !.status = IF "version" \in w.did THEN w.status ELSE row[d].status,
                                 !.job = IF "job" \in w.did THEN w.job ELSE row[d].job]
  <2>1. row' = [row EXCEPT ![d] = v]
    BY DEF CommitSession
  <2>2. row[d] \in RowType
    BY <1>1 DEF TypeOK
  <2>3. v \in RowType
    BY <1>1, <2>2 DEF RowType, TxType
  <2>4. /\ v.status = IF "version" \in w.did THEN w.status ELSE row[d].status
        /\ v.job = IF "job" \in w.did THEN w.job ELSE row[d].job
    BY <2>2 DEF RowType
  <2>5. /\ row' \in [Requests -> RowType] /\ row'[d] = v
        /\ \A x \in Requests \ {d} : row'[x] = row[x]
    <3> HIDE DEF v, d
    <3> QED BY <1>1, <2>1, <2>3 DEF TypeOK
  <2>6. /\ chunks' = [chunks EXCEPT ![d] = (chunks[d] \ w.del) \cup w.ins]
        /\ embs' = [embs EXCEPT ![d] = (embs[d] \ w.del) \cup w.emb]
        /\ vectors' = vectors /\ files' = files
    BY DEF CommitSession
  <2>7. w.ins \subseteq Requests /\ w.emb \subseteq Requests
    BY <1>1 DEF TxType
  <2> HIDE DEF v, d, w
  <2> QED BY <1>1, <2>4, <2>5, <2>6, <2>7 DEF TypeOK
<1> QED BY <1>2, <1>3

\* The step in which the transaction of r reaches the tables.  The locks keep
\* what the transaction was built on; the kinds of transaction say the rest.
LEMMA CommitSessionStep ==
  ASSUME IInv, NEW r \in Requests, CommitSession(r)
  PROVE  IInv'
<1> DEFINE d == req[r].doc
           w == tx[r]
<1>1. /\ TypeOK /\ req[r] \in ReqType /\ w \in TxType /\ d \in Requests
      /\ Identity(r) /\ InOrder(r, "commit", req[r].out, w)
      /\ req[r].kind \in {"upload", "process", "delete"} /\ req[r].pc = "commit"
  BY Serving DEF CommitSession, Identity
<1>2. /\ \A q \in Requests \ {r} : req'[q] = req[q] /\ tx'[q] = tx[q]
      /\ req'[r].kind = req[r].kind /\ req'[r].doc = d /\ req'[r].out = req[r].out
      /\ req'[r].pc = "done" /\ tx'[r] = NoTx
      /\ req' \in [Requests -> ReqType] /\ tx' \in [Requests -> TxType]
  BY Committing
<1>3. /\ \A x \in Requests \ {d} : row'[x] = row[x] /\ chunks'[x] = chunks[x] /\ embs'[x] = embs[x]
      /\ row'[d].status = IF "version" \in w.did THEN w.status ELSE row[d].status
      /\ row'[d].job = IF "job" \in w.did THEN w.job ELSE row[d].job
      /\ chunks'[d] = (chunks[d] \ w.del) \cup w.ins
      /\ embs'[d] = (embs[d] \ w.del) \cup w.emb
      /\ row' \in [Requests -> RowType]
      /\ chunks' \in [Requests -> SUBSET Requests] /\ embs' \in [Requests -> SUBSET Requests]
      /\ vectors' = vectors /\ files' = files
  BY Committing
<1>4. TypeOK'
  BY <1>1, <1>2, <1>3 DEF TypeOK
<1>5. /\ w.emb \subseteq w.ins
      /\ w.ins # {} => /\ w.ins = {r} /\ "version" \in w.did
                       /\ chunks[d] \subseteq w.del
      /\ "version" \in w.did /\ req[r].kind # "delete" => w.status # "ABSENT"
      /\ "version" \in w.did /\ req[r].kind = "process" => Present(d)
      /\ "version" \in w.did /\ req[r].kind = "upload" => d = r
      /\ req[r].kind = "delete" => /\ "version" \in w.did /\ "job" \in w.did
                                   /\ w.status = "ABSENT" /\ w.job = "ABSENT"
                                   /\ w.ins = {} /\ chunks[d] \subseteq w.del
      /\ "job" \in w.did /\ "version" \notin w.did => Present(d)
  BY <1>1 DEF InOrder, Relies, UploadWrites, ProcessWrites, DeleteWrites
<1>6. \A x \in Requests : Known(x) => Known(x)' /\ x # r
  BY <1>1, <1>2 DEF Known
<1>7. LocalInv'
  <2>1. SUFFICES ASSUME NEW q \in Requests
                 PROVE  Identity(q)' /\ InOrder(q, req[q].pc, req[q].out, tx[q])'
    BY DEF LocalInv
  <2>2. Identity(q) /\ InOrder(q, req[q].pc, req[q].out, tx[q])
    BY DEF IInv, LocalInv
  <2>3. CASE q = r
    <3>1. Identity(r)'
      BY <1>1, <1>2, <1>6 DEF Identity
    <3>2. InOrder(r, req[r].pc, req[r].out, tx[r])'
      BY <1>1, <1>2 DEF InOrder, Program, NothingOpen, Relies, UploadWrites, ProcessWrites,
                        DeleteWrites, NoTx, UploadPc, ProcessPc, DeletePc
    <3> QED BY <2>3, <3>1, <3>2
  <2>4. CASE q # r
    <3>1. Identity(q)'
      BY <1>2, <1>6, <2>2, <2>4 DEF Identity
    <3>2. Relies(q, req[q].pc, tx[q])'
      <4>1. CASE req[q].doc # d
        <5>1. req[q].kind \in {"process", "delete"} => req[q].doc \in Requests
          BY <2>2 DEF Identity, Idle
        <5> QED BY <1>2, <1>3, <2>2, <2>4, <4>1, <5>1 DEF InOrder, Relies, Present
      <4>2. CASE req[q].doc = d
        <5>1. /\ ~("version" \in tx[q].did /\ "version" \in w.did)
              /\ ~("job" \in tx[q].did /\ "job" \in w.did)
          BY <2>4, <4>2 DEF IInv, LockInv
        <5>2. "version" \in tx[q].did \/ "job" \in tx[q].did => (Present(d) => Present(d)')
          <6>1. CASE "version" \notin w.did
            BY <1>2, <1>3, <6>1 DEF Present
          <6>2. CASE "version" \in w.did /\ req[r].kind # "delete"
            BY <1>2, <1>3, <1>5, <6>2 DEF Present
          <6>3. CASE req[r].kind = "delete"
            BY <1>5, <5>1, <6>3
          <6> QED BY <6>1, <6>2, <6>3
        <5>3. "version" \in tx[q].did => chunks'[d] \subseteq chunks[d]
          BY <1>3, <1>5, <5>1
        <5>4. /\ req[q].kind = "process" /\ tx[q].ins # {} => "version" \in tx[q].did
              /\ req[q].kind = "delete" /\ req[q].pc = "commit" => "version" \in tx[q].did
          BY <2>2 DEF InOrder, ProcessWrites, DeleteWrites
        <5>5. Relies(q, req[q].pc, tx[q])
          BY <2>2 DEF InOrder
        <5> QED BY <1>2, <2>4, <4>2, <5>2, <5>3, <5>4, <5>5 DEF Relies
      <4> QED BY <4>1, <4>2
    <3>3. /\ Program(q, req[q].pc, req[q].out)' /\ NothingOpen(req[q].pc, tx[q])'
          /\ UploadWrites(q, req[q].pc, tx[q])' /\ ProcessWrites(q, tx[q])'
          /\ DeleteWrites(q, req[q].pc, tx[q])'
      BY <1>2, <2>2, <2>4 DEF InOrder, Program, NothingOpen, UploadWrites, ProcessWrites,
                              DeleteWrites
    <3> QED BY <3>1, <3>2, <3>3 DEF InOrder
  <2> QED BY <2>3, <2>4
<1>8. LockInv'
  BY <1>2 DEF IInv, LockInv, NoTx
<1>9. OnlyKnownStored'
  <2>1. SUFFICES ASSUME NEW x \in Requests, ~Known(x)'
                 PROVE  row'[x] = Absent /\ chunks'[x] = {} /\ embs'[x] = {}
    BY DEF OnlyKnownStored
  <2>2. x # d
    <3>1. CASE d = r
      <4>1. req[r].kind = "upload" /\ req[r].out = "created"
        BY <1>1, <3>1 DEF Identity, InOrder, Program
      <4> QED BY <1>2, <2>1, <3>1, <4>1 DEF Known
    <3>2. CASE d # r
      BY <1>1, <1>6, <2>1, <3>2 DEF Identity
    <3> QED BY <3>1, <3>2
  <2>3. ~Known(x)
    BY <1>6, <2>1
  <2> QED BY <1>3, <2>2, <2>3 DEF IInv, OnlyKnownStored
<1>10. OneRunPerVersion'
  BY <1>3, <1>5 DEF IInv, OneRunPerVersion
<1>11. NoOrphanRows'
  <2>1. SUFFICES ASSUME NEW x \in Requests
                 PROVE  /\ ~Present(x)' => chunks'[x] = {} /\ row'[x].job = "ABSENT"
                        /\ embs'[x] \subseteq chunks'[x]
    BY DEF NoOrphanRows
  <2>2. /\ ~Present(x) => chunks[x] = {} /\ row[x].job = "ABSENT"
        /\ embs[x] \subseteq chunks[x]
    BY DEF IInv, NoOrphanRows
  <2>3. CASE x # d
    BY <1>3, <2>2, <2>3 DEF Present
  <2>4. CASE x = d
    <3>1. embs'[d] \subseteq chunks'[d]
      BY <1>3, <1>5, <2>2, <2>4
    <3>2. CASE "version" \in w.did
      BY <1>1, <1>3, <1>5, <3>1, <3>2, <2>4 DEF Present
    <3>3. CASE "version" \notin w.did
      BY <1>1, <1>3, <1>5, <2>2, <3>1, <3>3, <2>4 DEF Present
    <3> QED BY <3>2, <3>3
  <2> QED BY <2>3, <2>4
<1>12. DeletedStaysDeleted'
  <2>1. SUFFICES ASSUME NEW q \in Requests, req'[q].pc = "done", req'[q].out = "deleted"
                 PROVE  ~Present(req[q].doc)'
    BY DEF DeletedStaysDeleted
  <2>2. CASE q = r
    BY <1>1, <1>2, <1>3, <1>5, <2>1, <2>2 DEF InOrder, Program, Present
  <2>3. CASE q # r
    <3>1. /\ req[q].pc = "done" /\ req[q].out = "deleted" /\ ~Present(req[q].doc)
          /\ Identity(q) /\ InOrder(q, req[q].pc, req[q].out, tx[q])
      BY <1>2, <2>1, <2>3 DEF IInv, DeletedStaysDeleted, LocalInv
    <3>2. req[q].kind = "delete" /\ req[q].doc \in Requests /\ Known(req[q].doc)
      BY <3>1 DEF InOrder, Program, Identity
    <3>3. CASE req[q].doc # d
      BY <1>2, <1>3, <2>3, <3>1, <3>2, <3>3 DEF Present
    <3>4. CASE req[q].doc = d
      BY <1>1, <1>2, <1>3, <1>5, <1>6, <2>3, <3>1, <3>2, <3>4 DEF Present
    <3> QED BY <3>3, <3>4
  <2> QED BY <2>2, <2>3
<1> QED BY <1>4, <1>7, <1>8, <1>9, <1>10, <1>11, <1>12 DEF IInv

\* A crash ends the requests that were being served, with their transactions.
LEMMA RestartStep == ASSUME IInv, Restart PROVE IInv'
<1>1. \A r \in Requests : /\ tx'[r] = NoTx
                          /\ Active(r) => req'[r] = [req[r] EXCEPT !.pc = "done", !.out = "crashed"]
                          /\ ~Active(r) => req'[r] = req[r]
  BY DEF Restart
<1>2. row' = row /\ chunks' = chunks /\ embs' = embs /\ files' = files /\ vectors' = {}
  BY DEF Restart, db
<1>3. \A r \in Requests : req[r] \in ReqType
  BY DEF IInv, TypeOK
<1>4. TypeOK'
  <2>1. \A r \in Requests : [req[r] EXCEPT !.pc = "done", !.out = "crashed"] \in ReqType
    BY <1>3 DEF ReqType, Pc, Outcomes
  <2>2. req' \in [Requests -> ReqType]
    BY <1>3, <2>1 DEF Restart
  <2>4. tx' \in [Requests -> TxType]
    BY NoTxIsEmpty DEF Restart
  <2> QED BY <1>2, <2>2, <2>4 DEF IInv, TypeOK
<1>5. \A r \in Requests : /\ req'[r].kind = req[r].kind /\ req'[r].doc = req[r].doc
                          /\ Active(r) => req'[r].pc = "done" /\ req'[r].out = "crashed"
  BY <1>1, <1>3 DEF ReqType
<1>6. \A d \in Requests : Known(d)' <=> Known(d)
  BY <1>1, <1>5 DEF Known, Active
<1>7. LocalInv'
  <2>1. SUFFICES ASSUME NEW q \in Requests
                 PROVE  Identity(q)' /\ InOrder(q, req[q].pc, req[q].out, tx[q])'
    BY DEF LocalInv
  <2>2. Identity(q) /\ InOrder(q, req[q].pc, req[q].out, tx[q])
    BY DEF IInv, LocalInv
  <2>3. Identity(q)'
    BY <1>1, <1>5, <1>6, <2>2 DEF Identity, Active
  <2>4. CASE Active(q)
    <3>1. req'[q].pc = "done" /\ req'[q].out = "crashed" /\ tx'[q] = NoTx
      BY <1>1, <1>5, <2>4
    <3> QED BY <2>3, <3>1, NoTxIsEmpty DEF InOrder, Program, NothingOpen, Relies, UploadWrites,
                                     ProcessWrites, DeleteWrites, UploadPc, ProcessPc, DeletePc
  <2>5. CASE ~Active(q)
    <3>1. req'[q] = req[q] /\ tx'[q] = tx[q]
      <4>1. req'[q] = req[q] /\ tx'[q] = NoTx
        BY <1>1, <2>5
      <4>2. tx[q] = NoTx
        BY <2>2, <2>5 DEF InOrder, NothingOpen, Active
      <4> QED BY <4>1, <4>2
    <3> QED BY <1>2, <2>2, <2>3, <3>1 DEF InOrder, Program, NothingOpen, Relies, UploadWrites,
                                   ProcessWrites, DeleteWrites, Present
  <2> QED BY <2>3, <2>4, <2>5
<1>8. LockInv'
  <2>1. \A q \in Requests : tx'[q].did = {}
    BY <1>1, NoTxIsEmpty
  <2> QED BY <2>1 DEF LockInv
<1>9. OnlyKnownStored' /\ OneRunPerVersion' /\ NoOrphanRows'
  BY <1>2, <1>6 DEF IInv, OnlyKnownStored, OneRunPerVersion, NoOrphanRows, Present
<1>10. DeletedStaysDeleted'
  BY <1>1, <1>2, <1>5 DEF IInv, DeletedStaysDeleted, Present, Active
<1> QED BY <1>4, <1>7, <1>8, <1>9, <1>10 DEF IInv

-----------------------------------------------------------------------------
(* The theorems.                                                           *)

LEMMA InitInv == Init => IInv
<1> SUFFICES ASSUME Init PROVE IInv
  OBVIOUS
<1>1. Idle \in ReqType /\ Idle.pc = "idle" /\ Idle.out = "none" /\ Idle.kind = "none"
  BY DEF Idle, ReqType, Pc, Outcomes
<1>2. Absent \in RowType /\ Absent.status = "ABSENT" /\ Absent.job = "ABSENT"
  BY DEF Absent, RowType, VersionStatus, JobStatus
<1>3. TypeOK
  BY <1>1, <1>2, NoTxIsEmpty DEF Init, TypeOK
<1>4. \A r \in Requests : /\ req[r] = Idle /\ tx[r] = NoTx /\ row[r] = Absent
                          /\ chunks[r] = {} /\ embs[r] = {}
  BY DEF Init
<1>5. LocalInv
  BY <1>1, <1>4 DEF LocalInv, Identity, InOrder, Program, NothingOpen, Relies, UploadWrites,
                    ProcessWrites, DeleteWrites, UploadPc, ProcessPc, DeletePc
<1>6. LockInv
  <2>1. \A r \in Requests : tx[r].did = {}
    BY <1>4, NoTxIsEmpty
  <2> QED BY <2>1 DEF LockInv
<1>7. OnlyKnownStored /\ OneRunPerVersion /\ NoOrphanRows /\ DeletedStaysDeleted
  BY <1>1, <1>2, <1>4 DEF OnlyKnownStored, OneRunPerVersion, NoOrphanRows,
                          DeletedStaysDeleted, Present
<1> QED BY <1>3, <1>5, <1>6, <1>7 DEF IInv

LEMMA StutterInv == IInv /\ UNCHANGED vars => IInv'
<1> SUFFICES ASSUME IInv, UNCHANGED vars PROVE IInv'
  OBVIOUS
<1>1. /\ req' = req /\ tx' = tx /\ row' = row /\ chunks' = chunks /\ embs' = embs
      /\ vectors' = vectors /\ files' = files
  BY DEF vars
<1>2. TypeOK' /\ LockInv' /\ OnlyKnownStored'
  BY <1>1 DEF IInv, TypeOK, LockInv, OnlyKnownStored, Known
<1>3. LocalInv'
  BY <1>1 DEF IInv, LocalInv, Identity, Known, InOrder, Program, NothingOpen, Relies, Present,
              UploadWrites, ProcessWrites, DeleteWrites
<1>4. OneRunPerVersion' /\ NoOrphanRows' /\ DeletedStaysDeleted'
  BY <1>1 DEF IInv, OneRunPerVersion, NoOrphanRows, DeletedStaysDeleted, Present
<1> QED BY <1>2, <1>3, <1>4 DEF IInv

LEMMA NextInv == IInv /\ [Next]_vars => IInv'
<1> SUFFICES ASSUME IInv, [Next]_vars PROVE IInv'
  OBVIOUS
<1>1. CASE Restart
  BY <1>1, RestartStep
<1>2. ASSUME NEW r \in Requests, Begin(r) PROVE IInv'
  <2>1. CASE BeginUpload(r)
    BY <2>1, BeginUploadStep
  <2>2. CASE BeginProcess(r)
    <3>1. Open(r, "process", "chunk")
      BY <2>2 DEF BeginProcess
    <3> QED BY <3>1, OpenStep
  <2>3. CASE BeginDelete(r)
    <3>1. Open(r, "delete", "unlink")
      BY <2>3 DEF BeginDelete
    <3> QED BY <3>1, OpenStep
  <2> QED BY <1>2, <2>1, <2>2, <2>3 DEF Begin
<1>3. ASSUME NEW r \in Requests, Upload(r) PROVE IInv'
  BY <1>3, ResolveDuplicateStep, SaveFileStep, CreateDocumentStep, CreateJobStep, ParseStep,
     FailIngestionStep, FinishIngestionStep DEF Upload
<1>4. ASSUME NEW r \in Requests, Process(r) PROVE IInv'
  BY <1>4, ChunkVersionStep, PurgeChunksStep, InsertChunksStep, MarkChunkedStep,
     ReportChunkedStep, FetchChunksStep, EmbedDocumentsStep, UpsertVectorsStep,
     UpdateReferencesStep, FailEmbeddingStep DEF Process
<1>5. ASSUME NEW r \in Requests, Delete(r) PROVE IInv'
  BY <1>5, RemoveFileStep, SelectRowsStep, DeleteChunkRowsStep, DeleteJobRowStep,
     LockVersionStep, CascadeStep DEF Delete
<1>6. ASSUME NEW r \in Requests, CommitSession(r) \/ RollbackSession(r) \/ Fail(r) PROVE IInv'
  BY <1>6, CommitSessionStep, RollbackSessionStep, FailStep
<1>7. CASE UNCHANGED vars
  BY <1>7, StutterInv
<1> QED BY <1>1, <1>2, <1>3, <1>4, <1>5, <1>6, <1>7 DEF Next, Serve

\* The invariant holds in every reachable state, for every set of requests.
THEOREM Inductive == Spec => []IInv
BY InitInv, NextInv, PTL DEF Spec

\* The columns and transactions are well typed.
THEOREM TypeCorrect == Spec => []TypeOK
<1>1. IInv => TypeOK BY DEF IInv
<1> QED BY <1>1, Inductive, PTL

\* The chunks of a version always come from one run of the chunker: the row
\* locks and uq_chunk_version_index let one process request replace them.
THEOREM OneRun == Spec => []OneRunPerVersion
<1>1. IInv => OneRunPerVersion BY DEF IInv
<1> QED BY <1>1, Inductive, PTL

\* No chunk without its version, no job without its document, no embedding
\* without its chunk.
THEOREM NoOrphans == Spec => []NoOrphanRows
<1>1. IInv => NoOrphanRows BY DEF IInv
<1> QED BY <1>1, Inductive, PTL

\* What was deleted stays deleted: no running request can commit it back.
THEOREM NoResurrection == Spec => []DeletedStaysDeleted
<1>1. IInv => DeletedStaysDeleted BY DEF IInv
<1> QED BY <1>1, Inductive, PTL

-----------------------------------------------------------------------------
(* The second invariant: what the columns and the answers mean.            *)

MeansNow(q) == Means(q, req[q].pc, req[q].out, tx[q])

\* What both invariants say of a request that is under way.
LEMMA Meaning ==
  ASSUME IInv, SInv, NEW r \in Requests
  PROVE  /\ req[r] \in ReqType /\ tx[r] \in TxType
         /\ Identity(r) /\ InOrder(r, req[r].pc, req[r].out, tx[r]) /\ MeansNow(r)
         /\ req[r].kind = "process" =>
              /\ req[r].doc \in Requests \ {r} /\ Known(req[r].doc)
              /\ req[req[r].doc].shape \in Shapes
<1>1. /\ req[r] \in ReqType /\ tx[r] \in TxType
      /\ Identity(r) /\ InOrder(r, req[r].pc, req[r].out, tx[r])
  BY Serving
<1>2. MeansNow(r)
  BY DEF SInv, MeansNow
<1>3. req[r].kind = "process" => req[r].doc \in Requests \ {r} /\ Known(req[r].doc)
  BY <1>1 DEF Identity, Idle
<1>4. \A d \in Requests : Known(d) => req[d].shape \in Shapes
  BY DEF SInv, Means, Parsed, Known
<1> QED BY <1>1, <1>2, <1>3, <1>4

\* A step that changes one request and no table disturbs nobody else.
LEMMA OthersMean ==
  ASSUME IInv, SInv, NEW r \in Requests, req[r].pc # "done",
         \A q \in Requests \ {r} : req'[q] = req[q] /\ tx'[q] = tx[q],
         row' = row, chunks' = chunks, embs' = embs,
         req[r].pc # "idle" => req'[r].tenant = req[r].tenant,
         MeansNow(r)'
  PROVE  SInv'
<1>1. ASSUME NEW q \in Requests \ {r} PROVE MeansNow(q)'
  <2>1. MeansNow(q) /\ Identity(q)
    BY Meaning
  <2>2. req'[q] = req[q] /\ tx'[q] = tx[q]
    OBVIOUS
  <2>3. Permitted(q, req[q].pc, req[q].out)'
    <3>1. CASE req[q].pc = "idle"
      BY <2>1, <2>2, <3>1 DEF Identity, Idle, Permitted, Touching, ProcessPc, DeletePc
    <3>2. CASE req[q].pc # "idle"
      <4>1. req[q].doc \in Requests /\ (req[q].doc = r => req[r].pc # "idle")
        BY <2>1, <3>2 DEF Identity, Known
      <4>2. req'[req[q].doc].tenant = req[req[q].doc].tenant
        BY <4>1
      <4> QED BY <2>1, <2>2, <4>2 DEF MeansNow, Means, Permitted, MayTouch
    <3> QED BY <3>1, <3>2
  <2>4. Parsed(q, req[q].pc, req[q].out, tx[q])'
    BY <2>1, <2>2 DEF MeansNow, Means, Parsed
  <2>5. req[q].kind = "process" => req'[req[q].doc] = req[req[q].doc]
    BY Meaning DEF Known
  <2>6. IndexesText(q, req[q].pc, tx[q])'
    BY <2>1, <2>2, <2>5 DEF MeansNow, Means, IndexesText
  <2>7. FindsEmpty(q, req[q].pc, tx[q])'
    BY <2>1, <2>2, <2>5 DEF MeansNow, Means, FindsEmpty, Present
  <2> QED BY <2>3, <2>4, <2>6, <2>7 DEF MeansNow, Means
<1>2. RowsMean'
  <2>1. ASSUME NEW d \in Requests, Present(d) PROVE req'[d] = req[d]
    BY <2>1 DEF IInv, OnlyKnownStored, Known, Present, Absent
  <2> QED BY <2>1 DEF SInv, RowsMean, RowMeans, Present
<1>3. BatchesDone'
  <2>1. \A d \in Requests : chunks[d] \subseteq Requests
    BY DEF IInv, TypeOK
  <2> QED BY <2>1 DEF SInv, BatchesDone
<1> QED BY <1>1, <1>2, <1>3 DEF SInv, MeansNow

\* Request r, which is being served, moves to pc with the answer out and the
\* transaction w.
Stepped(r, pc, out, w) ==
  /\ req[r].pc \notin {"idle", "done"}
  /\ req' = [req EXCEPT ![r] = [req[r] EXCEPT !.pc = pc, !.out = out]]
  /\ tx' = [tx EXCEPT ![r] = w]
  /\ row' = row /\ chunks' = chunks /\ embs' = embs

LEMMA StayStep ==
  ASSUME IInv, SInv, NEW r \in Requests, NEW pc, NEW out, NEW w,
         Stepped(r, pc, out, w), Means(r, pc, out, w)
  PROVE  SInv'
<1>1. /\ req[r] \in ReqType /\ DOMAIN req = Requests /\ DOMAIN tx = Requests
  BY Meaning DEF IInv, TypeOK
<1>2. /\ \A q \in Requests \ {r} : req'[q] = req[q] /\ tx'[q] = tx[q]
      /\ req'[r].kind = req[r].kind /\ req'[r].doc = req[r].doc
      /\ req'[r].tenant = req[r].tenant /\ req'[r].shape = req[r].shape
      /\ req'[r].pc = pc /\ req'[r].out = out /\ tx'[r] = w
  BY <1>1 DEF Stepped, ReqType
<1>3. Permitted(r, pc, out)'
  <2>1. req[r].doc \in Requests
    BY Meaning DEF Stepped, Identity
  <2>2. req'[req[r].doc].tenant = req[req[r].doc].tenant
    BY <1>2, <2>1
  <2> QED BY <1>2, <2>2 DEF Means, Permitted, MayTouch
<1>4. Parsed(r, pc, out, w)'
  BY <1>2 DEF Means, Parsed
<1>5. req[r].kind = "process" => req'[req[r].doc] = req[req[r].doc]
  BY <1>2, Meaning
<1>6. IndexesText(r, pc, w)' /\ FindsEmpty(r, pc, w)'
  BY <1>2, <1>5 DEF Means, IndexesText, FindsEmpty, Present, Stepped
<1>7. MeansNow(r)'
  BY <1>2, <1>3, <1>4, <1>6 DEF MeansNow, Means
<1> QED BY <1>2, <1>7, OthersMean DEF Stepped

LEMMA Steps ==
  ASSUME IInv, NEW r \in Requests, NEW pc, NEW out, NEW w,
         req[r].pc \notin {"idle", "done"}, UNCHANGED db
  PROVE  /\ Goto(r, pc) /\ tx' = [tx EXCEPT ![r] = w] => Stepped(r, pc, req[r].out, w)
         /\ Goto(r, pc) /\ UNCHANGED tx => Stepped(r, pc, req[r].out, tx[r])
         /\ Finish(r, out) /\ tx' = [tx EXCEPT ![r] = w] => Stepped(r, "commit", out, w)
         /\ Finish(r, out) /\ UNCHANGED tx => Stepped(r, "commit", out, tx[r])
         /\ Unwind(r, out) /\ tx' = [tx EXCEPT ![r] = w] => Stepped(r, "unwind", out, w)
         /\ Unwind(r, out) /\ UNCHANGED tx => Stepped(r, "unwind", out, tx[r])
<1>1. req[r] \in ReqType /\ tx = [tx EXCEPT ![r] = tx[r]]
  BY DEF IInv, TypeOK
<1>2. row' = row /\ chunks' = chunks /\ embs' = embs
  BY DEF db
<1>3. Goto(r, pc) => req' = [req EXCEPT ![r] = [req[r] EXCEPT !.pc = pc, !.out = req[r].out]]
  <2>1. [req[r] EXCEPT !.pc = pc] = [req[r] EXCEPT !.pc = pc, !.out = req[r].out]
    BY <1>1 DEF ReqType
  <2> QED BY <2>1 DEF Goto
<1>4. Finish(r, out) => req' = [req EXCEPT ![r] = [req[r] EXCEPT !.pc = "commit", !.out = out]]
  BY DEF Finish
<1>5. Unwind(r, out) => req' = [req EXCEPT ![r] = [req[r] EXCEPT !.pc = "unwind", !.out = out]]
  BY DEF Unwind
<1> QED BY <1>1, <1>2, <1>3, <1>4, <1>5 DEF Stepped

\* A request that gives up owes nothing any more but what it said of the version.
LEMMA UnwindMeans ==
  ASSUME IInv, SInv, NEW r \in Requests, NEW out \in Outcomes, NEW w,
         out \notin {"created", "duplicate", "processed", "no_text", "deleted"},
         w.ins = tx[r].ins, w.did = tx[r].did, w.status = tx[r].status \/ req[r].kind # "process"
  PROVE  Means(r, "unwind", out, w)
<1>1. Permitted(r, "unwind", out)
  BY DEF Permitted, Touching, ProcessPc, DeletePc
<1>2. Parsed(r, "unwind", out, w)
  BY DEF Parsed
<1>3. IndexesText(r, "unwind", w) /\ FindsEmpty(r, "unwind", w)
  BY Meaning DEF MeansNow, Means, IndexesText, FindsEmpty, AfterInsert
<1> QED BY <1>1, <1>2, <1>3 DEF Means

\* Steps of an upload, and the last ones before the commit.
LEMMA UploadMeans ==
  ASSUME IInv, SInv, NEW r \in Requests, UNCHANGED db,
         \/ ResolveDuplicate(r) \/ SaveFile(r) \/ CreateDocument(r) \/ CreateJob(r)
         \/ FailIngestion(r) \/ FinishIngestion(r)
  PROVE  SInv'
<1>1. /\ req[r] \in ReqType /\ tx[r] \in TxType /\ req[r].out \in Outcomes
      /\ InOrder(r, req[r].pc, req[r].out, tx[r]) /\ MeansNow(r)
      /\ req[r].pc \in UploadPc
  BY Meaning, Serving DEF ResolveDuplicate, SaveFile, CreateDocument, CreateJob, FailIngestion,
                 FinishIngestion, UploadPc
<1>2. req[r].kind = "upload" /\ req[r].pc \notin {"idle", "done"}
  BY <1>1 DEF InOrder, Program, UploadPc
<1>3. ASSUME NEW pc \in {"create", "job", "parse"}, NEW w, Goto(r, pc), tx' = [tx EXCEPT ![r] = w]
      PROVE  SInv'
  <2>1. Stepped(r, pc, req[r].out, w)
    BY <1>2, <1>3, Steps
  <2>2. Means(r, pc, req[r].out, w)
    BY <1>1, <1>2 DEF MeansNow, Means, Permitted, Touching, Parsed, IndexesText, FindsEmpty,
                      ProcessPc, DeletePc, UploadPc
  <2> QED BY <2>1, <2>2, StayStep
<1>4. CASE ResolveDuplicate(r)
  <2>1. CASE Finish(r, "duplicate")
    <3>1. Stepped(r, "commit", "duplicate", tx[r])
      BY <1>2, <1>4, <2>1, Steps DEF ResolveDuplicate
    <3>2. Means(r, "commit", "duplicate", tx[r])
      BY <1>1, <1>2, <1>4 DEF ResolveDuplicate, MeansNow, Means, Permitted, Touching, Parsed,
                              IndexesText, FindsEmpty
    <3> QED BY <3>1, <3>2, StayStep
  <2>2. CASE Unwind(r, "not_found")
    <3>1. Stepped(r, "unwind", "not_found", tx[r])
      BY <1>2, <1>4, <2>2, Steps DEF ResolveDuplicate
    <3> QED BY <3>1, UnwindMeans, StayStep DEF Outcomes
  <2> QED BY <1>4, <2>1, <2>2 DEF ResolveDuplicate
<1>5. CASE SaveFile(r)
  <2>1. tx' = [tx EXCEPT ![r] = tx[r]]
    BY <1>5, Serving DEF SaveFile
  <2> QED BY <1>3, <1>5, <2>1 DEF SaveFile
<1>6. CASE CreateDocument(r)
  BY <1>3, <1>6 DEF CreateDocument
<1>7. CASE CreateJob(r)
  BY <1>3, <1>7 DEF CreateJob
<1>8. CASE FailIngestion(r)
  <2> DEFINE w == [tx[r] EXCEPT !.status = "FAILED", !.job = "FAILED"]
  <2>1. w.ins = tx[r].ins /\ w.did = tx[r].did
    BY <1>1 DEF TxType
  <2>2. tx' = [tx EXCEPT ![r] = w]
    BY <1>8 DEF FailIngestion
  <2> HIDE DEF w
  <2>3. PICK out \in {"parse_failed", "error"} : Unwind(r, out)
    BY <1>8 DEF FailIngestion
  <2>4. Stepped(r, "unwind", out, w)
    BY <1>2, <2>2, <2>3, Steps
  <2>5. Means(r, "unwind", out, w)
    BY <1>2, <2>1, <2>3, UnwindMeans DEF Outcomes
  <2> QED BY <2>4, <2>5, StayStep
<1>9. CASE FinishIngestion(r)
  <2> DEFINE w == [tx[r] EXCEPT !.status = "PARSED", !.job = "COMPLETED"]
  <2>1. w.status = "PARSED" /\ w.job = "COMPLETED"
    BY <1>1 DEF TxType
  <2>2. tx' = [tx EXCEPT ![r] = w] /\ Finish(r, "created") /\ req[r].pc = "finish"
    BY <1>9 DEF FinishIngestion
  <2> HIDE DEF w
  <2>3. Stepped(r, "commit", "created", w)
    BY <1>2, <2>2, Steps
  <2>4. Means(r, "commit", "created", w)
    BY <1>1, <1>2, <2>1, <2>2 DEF MeansNow, Means, Permitted, Touching, Parsed, IndexesText,
                                  FindsEmpty, ProcessPc, DeletePc
  <2> QED BY <2>3, <2>4, StayStep
<1> QED BY <1>4, <1>5, <1>6, <1>7, <1>8, <1>9

\* The parser gives a document its shape, before anybody else knows of it.
LEMMA ParseMeans ==
  ASSUME IInv, SInv, NEW r \in Requests, Parse(r)
  PROVE  SInv'
<1>1. /\ req[r] \in ReqType /\ DOMAIN req = Requests
      /\ InOrder(r, req[r].pc, req[r].out, tx[r]) /\ MeansNow(r)
  BY Meaning DEF IInv, TypeOK
<1>2. req[r].pc = "parse" /\ tx' = tx /\ row' = row /\ chunks' = chunks /\ embs' = embs
  BY DEF Parse, db
<1>3. req[r].kind = "upload"
  BY <1>1, <1>2 DEF InOrder, Program, UploadPc
<1>4. PICK s \in Shapes : req' = [req EXCEPT ![r].pc = "finish", ![r].shape = s]
  BY DEF Parse
<1>5. req' = [req EXCEPT ![r] = [req[r] EXCEPT !.pc = "finish", !.shape = s]]
  BY <1>4
<1>6. /\ \A q \in Requests \ {r} : req'[q] = req[q] /\ tx'[q] = tx[q]
      /\ req'[r].kind = "upload" /\ req'[r].tenant = req[r].tenant /\ req'[r].pc = "finish"
      /\ req'[r].out = req[r].out /\ req'[r].doc = req[r].doc /\ req'[r].shape = s
  BY <1>1, <1>2, <1>3, <1>5 DEF ReqType
<1>7. MeansNow(r)'
  <2>1. Permitted(r, req[r].pc, req[r].out)'
    <3>1. req[r].doc = r
      BY <1>1, <1>2 DEF InOrder, Program, UploadPc
    <3> QED BY <1>6, <3>1 DEF Permitted, MayTouch
  <2>2. Parsed(r, req[r].pc, req[r].out, tx[r])'
    BY <1>6 DEF Parsed
  <2>3. IndexesText(r, req[r].pc, tx[r])' /\ FindsEmpty(r, req[r].pc, tx[r])'
    BY <1>6 DEF IndexesText, FindsEmpty
  <2> QED BY <2>1, <2>2, <2>3 DEF MeansNow, Means
<1> QED BY <1>2, <1>6, <1>7, OthersMean

\* Steps of a deletion: it writes no status and its answer is permitted.
LEMMA DeleteMeans ==
  ASSUME IInv, SInv, NEW r \in Requests, UNCHANGED db, Delete(r)
  PROVE  SInv'
<1>1. /\ req[r] \in ReqType /\ tx[r] \in TxType /\ req[r].out \in Outcomes
      /\ InOrder(r, req[r].pc, req[r].out, tx[r]) /\ MeansNow(r)
      /\ req[r].pc \in DeletePc
  BY Meaning, Serving DEF Delete, RemoveFile, SelectRows, DeleteChunkRows, DeleteJobRow, LockVersion,
                 Cascade, DeletePc
<1>2. req[r].kind = "delete" /\ req[r].pc \notin {"idle", "done"}
  BY <1>1 DEF InOrder, Program, DeletePc
<1>3. MayTouch(req[r].tenant, req[r].doc) /\ req[r].out # "created"
  BY <1>1, <1>2 DEF MeansNow, Means, Permitted, Touching, InOrder, Program
<1>4. ASSUME NEW pc \in DeletePc, NEW w, Goto(r, pc), tx' = [tx EXCEPT ![r] = w] PROVE SInv'
  <2>1. Stepped(r, pc, req[r].out, w)
    BY <1>2, <1>4, Steps
  <2>2. Means(r, pc, req[r].out, w)
    BY <1>2, <1>3 DEF Means, Permitted, Parsed, IndexesText, FindsEmpty, DeletePc
  <2> QED BY <2>1, <2>2, StayStep
<1>5. CASE Cascade(r)
  <2> DEFINE w == [tx[r] EXCEPT !.del = chunks[req[r].doc]]
  <2>1. Stepped(r, "commit", "deleted", w)
    BY <1>2, <1>5, Steps DEF Cascade
  <2>2. Means(r, "commit", "deleted", w)
    BY <1>2, <1>3 DEF Means, Permitted, Parsed, IndexesText, FindsEmpty
  <2> HIDE DEF w
  <2> QED BY <2>1, <2>2, StayStep
<1>6. CASE SelectRows(r)
  <2>1. CASE UNCHANGED tx /\ Unwind(r, "not_found")
    <3>1. Stepped(r, "unwind", "not_found", tx[r])
      BY <1>2, <2>1, Steps
    <3> QED BY <3>1, UnwindMeans, StayStep DEF Outcomes
  <2>2. CASE /\ tx' = [tx EXCEPT ![r].snap = chunks[req[r].doc]]
             /\ \E pc \in {"rows", "jobrow"} : Goto(r, pc)
    <3>1. PICK pc \in {"rows", "jobrow"} : Goto(r, pc)
      BY <2>2
    <3> QED BY <1>4, <2>2, <3>1 DEF DeletePc
  <2> QED BY <1>6, <2>1, <2>2 DEF SelectRows
<1>7. CASE RemoveFile(r)
  BY <1>4, <1>7, Serving DEF RemoveFile, DeletePc
<1>8. CASE DeleteChunkRows(r)
  BY <1>4, <1>8 DEF DeleteChunkRows, DeletePc
<1>9. CASE DeleteJobRow(r)
  BY <1>4, <1>9 DEF DeleteJobRow, DeletePc
<1>10. CASE LockVersion(r)
  BY <1>4, <1>10 DEF LockVersion, DeletePc
<1> QED BY <1>5, <1>6, <1>7, <1>8, <1>9, <1>10 DEF Delete

\* A processing goes to pc with its columns and batches as in w.
LEMMA ProcessGoes ==
  ASSUME IInv, SInv, NEW r \in Requests, UNCHANGED db, req[r].pc \in ProcessPc,
         NEW pc \in ProcessPc, NEW w, Goto(r, pc), tx' = [tx EXCEPT ![r] = w],
         IndexesText(r, pc, w), FindsEmpty(r, pc, w)
  PROVE  SInv'
<1>1. InOrder(r, req[r].pc, req[r].out, tx[r]) /\ MeansNow(r)
  BY Meaning
<1>2. req[r].kind = "process" /\ req[r].pc \notin {"idle", "done"} /\ req[r].out # "created"
  BY <1>1 DEF InOrder, Program, ProcessPc
<1>3. Permitted(r, pc, req[r].out) /\ Parsed(r, pc, req[r].out, w)
  BY <1>1, <1>2 DEF MeansNow, Means, Permitted, Touching, Parsed, ProcessPc
<1>4. Stepped(r, pc, req[r].out, w)
  BY <1>2, Steps
<1>5. Means(r, pc, req[r].out, w)
  BY <1>3 DEF Means
<1> QED BY <1>4, <1>5, StayStep

LEMMA ProcessEnds ==
  ASSUME IInv, SInv, NEW r \in Requests, UNCHANGED db, req[r].pc \in ProcessPc,
         NEW w, NEW out \in {"processed", "no_text"}, Finish(r, out), tx' = [tx EXCEPT ![r] = w],
         out = "processed" => w.status = "EMBEDDED" /\ "version" \in w.did,
         out = "no_text" => w.status = "CHUNKED",
         IndexesText(r, "commit", w), FindsEmpty(r, "commit", w)
  PROVE  SInv'
<1>1. InOrder(r, req[r].pc, req[r].out, tx[r]) /\ MeansNow(r)
  BY Meaning
<1>2. req[r].kind = "process" /\ req[r].pc \notin {"idle", "done"}
  BY <1>1 DEF InOrder, Program, ProcessPc
<1>3. Permitted(r, "commit", out) /\ Parsed(r, "commit", out, w)
  BY <1>1, <1>2 DEF MeansNow, Means, Permitted, Touching, Parsed
<1>4. Stepped(r, "commit", out, w)
  BY <1>2, Steps
<1>5. Means(r, "commit", out, w)
  BY <1>3 DEF Means
<1> QED BY <1>4, <1>5, StayStep

LEMMA ProcessUnwinds ==
  ASSUME IInv, SInv, NEW r \in Requests, UNCHANGED db, req[r].pc \notin {"idle", "done"},
         NEW out \in {"not_found", "error", "conflict"}, Unwind(r, out), UNCHANGED tx
  PROVE  SInv'
<1>1. Stepped(r, "unwind", out, tx[r])
  BY Steps
<1> QED BY <1>1, UnwindMeans, StayStep DEF Outcomes

-----------------------------------------------------------------------------
(* The steps of a processing, one lemma for each.                          *)

LEMMA ChunkVersionMeans == ASSUME IInv, SInv, NEW r \in Requests, ChunkVersion(r) PROVE SInv'
<1>1. /\ tx[r] \in TxType /\ MeansNow(r) /\ req[r].pc = "chunk" /\ UNCHANGED db
      /\ req[r].kind = "process" /\ req[req[r].doc].shape \in Shapes
      /\ tx' = tx => tx' = [tx EXCEPT ![r] = tx[r]]
  BY Meaning, Serving DEF ChunkVersion, InOrder, Program, ProcessPc
<1>2. CASE \E out \in {"error", "not_found"} : Unwind(r, out) /\ UNCHANGED tx
  BY <1>1, <1>2, ProcessUnwinds
<1>3. CASE Goto(r, "mark") /\ UNCHANGED tx /\ req[req[r].doc].shape = "bare"
  <2>1. IndexesText(r, "mark", tx[r]) /\ FindsEmpty(r, "mark", tx[r])
    BY <1>1, <1>3 DEF MeansNow, Means, IndexesText, FindsEmpty, AfterInsert
  <2> QED BY <1>1, <1>3, <2>1, ProcessGoes DEF ProcessPc
<1>4. CASE /\ Goto(r, "purge") /\ tx' = [tx EXCEPT ![r].snap = chunks[req[r].doc]]
           /\ req[req[r].doc].shape # "bare"
  <2> DEFINE w == [tx[r] EXCEPT !.snap = chunks[req[r].doc]]
  <2>1. /\ w.ins = tx[r].ins /\ w.did = tx[r].did /\ w.status = tx[r].status /\ w.job = tx[r].job
        /\ tx' = [tx EXCEPT ![r] = w]
    BY <1>1, <1>4 DEF TxType
  <2> HIDE DEF w
  <2>2. IndexesText(r, "purge", w) /\ FindsEmpty(r, "purge", w)
    BY <1>1, <1>4, <2>1 DEF MeansNow, Means, IndexesText, FindsEmpty, AfterInsert
  <2> QED BY <1>1, <1>4, <2>1, <2>2, ProcessGoes DEF ProcessPc
<1> QED BY <1>2, <1>3, <1>4 DEF ChunkVersion

LEMMA PurgeChunksMeans == ASSUME IInv, SInv, NEW r \in Requests, PurgeChunks(r) PROVE SInv'
<1>1. /\ tx[r] \in TxType /\ MeansNow(r) /\ req[r].pc = "purge" /\ UNCHANGED db
      /\ req[r].kind = "process" /\ req[req[r].doc].shape \in Shapes
  BY Meaning DEF PurgeChunks, InOrder, Program, ProcessPc
<1> DEFINE w == [tx[r] EXCEPT !.del = tx[r].snap \cap chunks[req[r].doc]]
           pc == IF req[req[r].doc].shape = "blank" THEN "mark" ELSE "insert"
<1>2. /\ w.ins = tx[r].ins /\ w.did = tx[r].did /\ w.status = tx[r].status /\ w.job = tx[r].job
      /\ tx' = [tx EXCEPT ![r] = w] /\ Goto(r, pc)
  BY <1>1 DEF TxType, PurgeChunks
<1> HIDE DEF w
<1>3. IndexesText(r, pc, w) /\ FindsEmpty(r, pc, w)
  BY <1>1, <1>2 DEF MeansNow, Means, IndexesText, FindsEmpty, AfterInsert, Shapes
<1> QED BY <1>1, <1>2, <1>3, ProcessGoes DEF ProcessPc

LEMMA InsertChunksMeans == ASSUME IInv, SInv, NEW r \in Requests, InsertChunks(r) PROVE SInv'
<1>1. /\ tx[r] \in TxType /\ MeansNow(r) /\ req[r].pc = "insert" /\ UNCHANGED db
      /\ req[r].kind = "process"
  BY Meaning DEF InsertChunks, InOrder, Program, ProcessPc
<1>2. req[req[r].doc].shape = "text"
  BY <1>1 DEF MeansNow, Means, FindsEmpty
<1>3. CASE Unwind(r, "conflict") /\ UNCHANGED tx
  BY <1>1, <1>3, ProcessUnwinds
<1>4. CASE /\ tx' = [tx EXCEPT ![r].ins = {r}, ![r].status = "CHUNKED", ![r].did = {"version"}]
           /\ Goto(r, "progress")
  <2> DEFINE w == [tx[r] EXCEPT !.ins = {r}, !.status = "CHUNKED", !.did = {"version"}]
  <2>1. w.ins = {r} /\ tx' = [tx EXCEPT ![r] = w]
    BY <1>1, <1>4 DEF TxType
  <2> HIDE DEF w
  <2>2. IndexesText(r, "progress", w) /\ FindsEmpty(r, "progress", w)
    BY <1>2, <2>1 DEF IndexesText, FindsEmpty
  <2> QED BY <1>1, <1>4, <2>1, <2>2, ProcessGoes DEF ProcessPc
<1> QED BY <1>3, <1>4 DEF InsertChunks

LEMMA MarkChunkedMeans == ASSUME IInv, SInv, NEW r \in Requests, MarkChunked(r) PROVE SInv'
<1>1. /\ tx[r] \in TxType /\ MeansNow(r) /\ req[r].pc = "mark" /\ UNCHANGED db
      /\ req[r].kind = "process" /\ req[req[r].doc].shape \in Shapes
      /\ tx' = tx => tx' = [tx EXCEPT ![r] = tx[r]]
  BY Meaning, Serving DEF MarkChunked, InOrder, Program, ProcessPc
<1>2. req[req[r].doc].shape # "text"
  BY <1>1 DEF MeansNow, Means, IndexesText
<1> DEFINE pc == IF req[req[r].doc].shape = "bare" THEN "fetch" ELSE "progress"
<1>3. CASE \E out \in {"not_found", "error"} : Unwind(r, out) /\ UNCHANGED tx
  BY <1>1, <1>3, ProcessUnwinds
<1>4. CASE tx[r].status = "CHUNKED" /\ UNCHANGED tx /\ Goto(r, pc)
  <2>1. IndexesText(r, pc, tx[r]) /\ FindsEmpty(r, pc, tx[r])
    BY <1>1, <1>2, <1>4 DEF MeansNow, Means, IndexesText, FindsEmpty, AfterInsert, Shapes
  <2> QED BY <1>1, <1>4, <2>1, ProcessGoes DEF ProcessPc
<1>5. CASE /\ tx' = [tx EXCEPT ![r].status = "CHUNKED", ![r].did = {"version"}]
           /\ Goto(r, pc)
  <2> DEFINE w == [tx[r] EXCEPT !.status = "CHUNKED", !.did = {"version"}]
  <2>1. /\ w.ins = tx[r].ins /\ w.did = {"version"} /\ w.status = "CHUNKED"
        /\ tx' = [tx EXCEPT ![r] = w]
    BY <1>1, <1>5 DEF TxType
  <2> HIDE DEF w
  <2>2. IndexesText(r, pc, w) /\ FindsEmpty(r, pc, w)
    BY <1>1, <1>2, <2>1 DEF MeansNow, Means, IndexesText, FindsEmpty, AfterInsert, Shapes
  <2> QED BY <1>1, <1>5, <2>1, <2>2, ProcessGoes DEF ProcessPc
<1> QED BY <1>3, <1>4, <1>5 DEF MarkChunked

LEMMA ReportChunkedMeans == ASSUME IInv, SInv, NEW r \in Requests, ReportChunked(r) PROVE SInv'
<1>1. /\ tx[r] \in TxType /\ MeansNow(r) /\ req[r].pc = "progress" /\ UNCHANGED db
      /\ req[r].kind = "process" /\ req[req[r].doc].shape \in Shapes
      /\ InOrder(r, req[r].pc, req[r].out, tx[r])
      /\ tx' = tx => tx' = [tx EXCEPT ![r] = tx[r]]
  BY Meaning, Serving DEF ReportChunked, InOrder, Program, ProcessPc
<1>2. CASE Unwind(r, "error") /\ UNCHANGED tx
  BY <1>1, <1>2, ProcessUnwinds
<1>3. CASE ~Present(req[r].doc) /\ UNCHANGED tx /\ Goto(r, "fetch")
  <2>1. req[req[r].doc].shape # "text"
    BY <1>1, <1>3 DEF MeansNow, Means, IndexesText, AfterInsert, InOrder, ProcessWrites, Relies
  <2>2. IndexesText(r, "fetch", tx[r]) /\ FindsEmpty(r, "fetch", tx[r])
    BY <1>1, <1>3, <2>1 DEF MeansNow, Means, IndexesText, FindsEmpty, AfterInsert, Shapes
  <2> QED BY <1>1, <1>3, <2>2, ProcessGoes DEF ProcessPc
<1>4. CASE /\ tx' = [tx EXCEPT ![r].job = "CHUNKED", ![r].did = @ \cup {"job"}]
           /\ Goto(r, "fetch")
  <2> DEFINE w == [tx[r] EXCEPT !.job = "CHUNKED", !.did = tx[r].did \cup {"job"}]
  <2>1. /\ w.ins = tx[r].ins /\ w.did = tx[r].did \cup {"job"} /\ w.status = tx[r].status
        /\ w.job = "CHUNKED" /\ tx' = [tx EXCEPT ![r] = w]
    BY <1>1, <1>4 DEF TxType
  <2> HIDE DEF w
  <2>2. IndexesText(r, "fetch", w) /\ FindsEmpty(r, "fetch", w)
    BY <1>1, <2>1 DEF MeansNow, Means, IndexesText, FindsEmpty, AfterInsert, Shapes
  <2> QED BY <1>1, <1>4, <2>1, <2>2, ProcessGoes DEF ProcessPc
<1> QED BY <1>2, <1>3, <1>4 DEF ReportChunked

LEMMA FetchChunksMeans == ASSUME IInv, SInv, NEW r \in Requests, FetchChunks(r) PROVE SInv'
<1> DEFINE d == req[r].doc
           visible == (chunks[d] \ tx[r].del) \cup tx[r].ins
<1>1. /\ tx[r] \in TxType /\ MeansNow(r) /\ req[r].pc = "fetch" /\ UNCHANGED db
      /\ req[r].kind = "process" /\ req[d].shape \in Shapes /\ d \in Requests
      /\ InOrder(r, req[r].pc, req[r].out, tx[r])
      /\ tx' = tx => tx' = [tx EXCEPT ![r] = tx[r]]
  BY Meaning, Serving DEF FetchChunks, InOrder, Program, ProcessPc
<1>2. CASE Unwind(r, "not_found") /\ UNCHANGED tx
  BY <1>1, <1>2, ProcessUnwinds
<1>3. CASE visible = {} /\ Present(d) /\ UNCHANGED tx /\ Finish(r, "no_text")
  <2>1. req[d].shape # "text"
    BY <1>1, <1>3 DEF MeansNow, Means, IndexesText, AfterInsert
  <2>2. IndexesText(r, "commit", tx[r]) /\ FindsEmpty(r, "commit", tx[r])
    BY <1>1, <1>3, <2>1 DEF MeansNow, Means, IndexesText, FindsEmpty, AfterInsert, Shapes
  <2>3. tx[r].status = "CHUNKED"
    BY <1>1, <2>1 DEF MeansNow, Means, FindsEmpty, AfterInsert
  <2> QED BY <1>1, <1>3, <2>2, <2>3, ProcessEnds DEF ProcessPc
<1>4. CASE /\ Present(d) /\ visible # {} /\ Goto(r, "embed")
           /\ tx' = [tx EXCEPT ![r].job = "PROCESSING"]
  <2>1. req[d].shape = "text"
    BY <1>1, <1>4 DEF MeansNow, Means, FindsEmpty, SInv, RowsMean, RowMeans
  <2> DEFINE w == [tx[r] EXCEPT !.job = "PROCESSING"]
  <2>2. /\ w.ins = tx[r].ins /\ w.did = tx[r].did /\ w.status = tx[r].status
        /\ tx' = [tx EXCEPT ![r] = w]
    BY <1>1, <1>4 DEF TxType
  <2> HIDE DEF w
  <2>3. IndexesText(r, "embed", w) /\ FindsEmpty(r, "embed", w)
    BY <1>1, <2>1, <2>2 DEF MeansNow, Means, IndexesText, FindsEmpty, AfterInsert
  <2> QED BY <1>1, <1>4, <2>2, <2>3, ProcessGoes DEF ProcessPc
<1> QED BY <1>2, <1>3, <1>4 DEF FetchChunks

\* From here on the document has text.
LEMMA WithText ==
  ASSUME IInv, SInv, NEW r \in Requests, req[r].pc \in {"embed", "upsert", "refs"}
  PROVE  /\ tx[r] \in TxType /\ MeansNow(r) /\ req[r].kind = "process"
         /\ req[req[r].doc].shape = "text"
         /\ tx' = tx => tx' = [tx EXCEPT ![r] = tx[r]]
<1>1. /\ tx[r] \in TxType /\ MeansNow(r) /\ req[r].kind = "process"
      /\ tx' = tx => tx' = [tx EXCEPT ![r] = tx[r]]
  BY Meaning, Serving DEF InOrder, Program, ProcessPc
<1>2. req[req[r].doc].shape = "text"
  BY <1>1 DEF MeansNow, Means, FindsEmpty
<1> QED BY <1>1, <1>2

LEMMA EmbedDocumentsMeans == ASSUME IInv, SInv, NEW r \in Requests, EmbedDocuments(r) PROVE SInv'
<1>1. /\ req[r].pc = "embed" /\ UNCHANGED db /\ Goto(r, "upsert")
      /\ tx' = [tx EXCEPT ![r] = tx[r]]
  BY WithText DEF EmbedDocuments
<1>2. IndexesText(r, "upsert", tx[r]) /\ FindsEmpty(r, "upsert", tx[r])
  BY <1>1, WithText DEF MeansNow, Means, IndexesText, FindsEmpty, AfterInsert
<1> QED BY <1>1, <1>2, ProcessGoes DEF ProcessPc

LEMMA UpsertVectorsMeans == ASSUME IInv, SInv, NEW r \in Requests, UpsertVectors(r) PROVE SInv'
<1>1. req[r].pc = "upsert" /\ UNCHANGED db /\ Goto(r, "refs")
  BY DEF UpsertVectors
<1>2. CASE InMemory /\ UNCHANGED tx
  <2>1. IndexesText(r, "refs", tx[r]) /\ FindsEmpty(r, "refs", tx[r])
    BY <1>1, <1>2, WithText DEF MeansNow, Means, IndexesText, FindsEmpty, AfterInsert
  <2>2. tx' = [tx EXCEPT ![r] = tx[r]]
    BY <1>1, <1>2, WithText
  <2> QED BY <1>1, <2>1, <2>2, ProcessGoes DEF ProcessPc
<1>3. CASE tx' = [tx EXCEPT ![r].emb = tx[r].ins]
  <2> DEFINE w == [tx[r] EXCEPT !.emb = tx[r].ins]
  <2>1. /\ w.ins = tx[r].ins /\ w.emb = tx[r].ins /\ w.did = tx[r].did
        /\ tx' = [tx EXCEPT ![r] = w]
    BY <1>1, <1>3, WithText DEF TxType
  <2> HIDE DEF w
  <2>2. IndexesText(r, "refs", w) /\ FindsEmpty(r, "refs", w)
    BY <1>1, <2>1, WithText DEF MeansNow, Means, IndexesText, FindsEmpty, AfterInsert
  <2> QED BY <1>1, <2>1, <2>2, ProcessGoes DEF ProcessPc
<1> QED BY <1>2, <1>3 DEF UpsertVectors

LEMMA UpdateReferencesMeans ==
  ASSUME IInv, SInv, NEW r \in Requests, UpdateReferences(r) PROVE SInv'
<1>1. req[r].pc = "refs" /\ UNCHANGED db /\ Finish(r, "processed")
  BY DEF UpdateReferences
<1> DEFINE w == [tx[r] EXCEPT !.status = "EMBEDDED", !.job = "COMPLETED"]
<1>2. /\ w.ins = tx[r].ins /\ w.emb = tx[r].emb /\ w.did = tx[r].did
      /\ w.status = "EMBEDDED" /\ w.job = "COMPLETED" /\ tx' = [tx EXCEPT ![r] = w]
  BY <1>1, WithText DEF TxType, UpdateReferences
<1> HIDE DEF w
<1>3. IndexesText(r, "commit", w) /\ FindsEmpty(r, "commit", w)
  BY <1>1, <1>2, WithText DEF MeansNow, Means, IndexesText, FindsEmpty, AfterInsert
<1>4. "version" \in w.did
  <2>1. InOrder(r, req[r].pc, req[r].out, tx[r]) /\ tx[r].ins = {r}
    BY <1>1, WithText, Serving DEF MeansNow, Means, IndexesText, AfterInsert
  <2> QED BY <1>2, <2>1, WithText, <1>1 DEF InOrder, ProcessWrites
<1> QED BY <1>1, <1>2, <1>3, <1>4, ProcessEnds DEF ProcessPc

LEMMA FailEmbeddingMeans == ASSUME IInv, SInv, NEW r \in Requests, FailEmbedding(r) PROVE SInv'
<1>1. req[r].pc \in {"embed", "upsert", "refs"} /\ UNCHANGED db /\ Unwind(r, "error")
  BY DEF FailEmbedding
<1> DEFINE w == [tx[r] EXCEPT !.job = "FAILED"]
<1>2. /\ w.ins = tx[r].ins /\ w.did = tx[r].did /\ w.status = tx[r].status
      /\ tx' = [tx EXCEPT ![r] = w]
  BY <1>1, WithText DEF TxType, FailEmbedding
<1> HIDE DEF w
<1>3. Stepped(r, "unwind", "error", w)
  BY <1>1, <1>2, Steps
<1> QED BY <1>2, <1>3, UnwindMeans, StayStep DEF Outcomes

LEMMA FailMeans == ASSUME IInv, SInv, NEW r \in Requests, Fail(r) PROVE SInv'
BY ProcessUnwinds DEF Fail, Working, UploadPc, ProcessPc, DeletePc

LEMMA RollbackMeans == ASSUME IInv, SInv, NEW r \in Requests, RollbackSession(r) PROVE SInv'
<1>1. /\ MeansNow(r) /\ InOrder(r, req[r].pc, req[r].out, tx[r]) /\ req[r].pc = "unwind"
      /\ Goto(r, "done") /\ tx' = [tx EXCEPT ![r] = NoTx] /\ UNCHANGED db
  BY Meaning DEF RollbackSession
<1>2. Stepped(r, "done", req[r].out, NoTx)
  BY <1>1, Steps
<1>3. Means(r, "done", req[r].out, NoTx)
  <2>1. Permitted(r, "done", req[r].out) /\ Parsed(r, "done", req[r].out, NoTx)
    BY <1>1 DEF MeansNow, Means, Permitted, Touching, Parsed, ProcessPc, DeletePc
  <2>2. IndexesText(r, "done", NoTx) /\ FindsEmpty(r, "done", NoTx)
    BY DEF IndexesText, FindsEmpty, AfterInsert, NoTx
  <2> QED BY <2>1, <2>2 DEF Means
<1> QED BY <1>2, <1>3, StayStep

Row(status, job) == [status |-> status, job |-> job]

\* The only ways in which a commit changes a row and its batches: a document is
\* published; one with text is indexed by this run; one without is found empty;
\* one is removed.  What nobody knows of was not on record before.
CommitEffect(r) ==
  LET d == req[r].doc IN
  \/ d # r /\ row'[d] = row[d] /\ chunks'[d] = chunks[d] /\ embs'[d] = embs[d]
  \/ /\ d = r /\ req[r].out = "created" /\ row[d] = Absent /\ chunks[d] = {} /\ embs[d] = {}
     /\ row'[d] = Row("PARSED", "COMPLETED") /\ chunks'[d] = {} /\ embs'[d] = {}
  \/ /\ d # r /\ Known(d) /\ Present(d) /\ req[d].shape = "text"
     /\ row'[d] = Row("EMBEDDED", "COMPLETED") /\ chunks'[d] = {r}
     /\ ~InMemory => embs'[d] = {r}
  \/ /\ d # r /\ Known(d) /\ Present(d) /\ chunks'[d] = {} /\ embs'[d] = {} /\ chunks[d] = {}
     /\ \/ req[d].shape = "bare" /\ row'[d] = Row("CHUNKED", "COMPLETED")
        \/ req[d].shape = "blank" /\ row'[d] = Row("CHUNKED", "CHUNKED")
  \/ /\ d # r /\ Known(d) /\ row'[d] = Absent /\ chunks'[d] = {} /\ embs'[d] = {}

LEMMA CommitChanges ==
  ASSUME IInv, SInv, NEW r \in Requests, CommitSession(r)
  PROVE  CommitEffect(r)
<1> DEFINE d == req[r].doc
           w == tx[r]
<1>1. /\ req[r] \in ReqType /\ w \in TxType /\ req[r].pc = "commit" /\ d \in Requests
      /\ Identity(r) /\ InOrder(r, "commit", req[r].out, w) /\ Means(r, "commit", req[r].out, w)
      /\ req[r].kind \in {"upload", "process", "delete"}
  BY Meaning, Serving DEF CommitSession, Identity, MeansNow
<1>2. /\ row'[d].status = IF "version" \in w.did THEN w.status ELSE row[d].status
      /\ row'[d].job = IF "job" \in w.did THEN w.job ELSE row[d].job
      /\ chunks'[d] = (chunks[d] \ w.del) \cup w.ins
      /\ embs'[d] = (embs[d] \ w.del) \cup w.emb
  BY Committing
<1>3. row[d] \in RowType /\ row'[d] \in RowType
  BY <1>1, Committing DEF IInv, TypeOK
<1>4. \A x \in RowType : x = Row(x.status, x.job)
  BY DEF RowType, Row
<1>5. (~Present(d) => chunks[d] = {} /\ row[d].job = "ABSENT") /\ embs[d] \subseteq chunks[d]
  BY <1>1 DEF IInv, NoOrphanRows
<1>6. CASE req[r].kind = "upload"
  <2>1. CASE d = r
    <3>1. /\ req[r].out = "created" /\ w.status = "PARSED" /\ w.job = "COMPLETED"
          /\ {"version", "job"} \subseteq w.did /\ w.del = {} /\ w.ins = {} /\ w.emb = {}
      BY <1>1, <1>6, <2>1 DEF InOrder, Program, UploadWrites, Means, Parsed
    <3>2. row[d] = Absent /\ chunks[d] = {} /\ embs[d] = {}
      BY <1>1, <2>1 DEF IInv, OnlyKnownStored, Known
    <3>3. row'[d] = Row("PARSED", "COMPLETED") /\ chunks'[d] = {} /\ embs'[d] = {}
      BY <1>2, <1>3, <1>4, <3>1, <3>2
    <3> QED BY <2>1, <3>1, <3>2, <3>3 DEF CommitEffect
  <2>2. CASE d # r
    <3>1. w.did = {} /\ w.del = {} /\ w.ins = {} /\ w.emb = {}
      BY <1>1, <1>6, <2>2 DEF InOrder, UploadWrites
    <3>2. row'[d] = row[d] /\ chunks'[d] = chunks[d] /\ embs'[d] = embs[d]
      BY <1>2, <1>3, <1>4, <3>1
    <3> QED BY <2>2, <3>2 DEF CommitEffect
  <2> QED BY <2>1, <2>2
<1>7. CASE req[r].kind = "delete"
  <2>1. /\ d # r /\ Known(d) /\ {"version", "job"} \subseteq w.did /\ w.status = "ABSENT"
        /\ w.job = "ABSENT" /\ w.ins = {} /\ w.emb = {} /\ chunks[d] \subseteq w.del
    BY <1>1, <1>7 DEF Identity, InOrder, DeleteWrites, Relies
  <2>2. row'[d] = Row("ABSENT", "ABSENT") /\ chunks'[d] = {} /\ embs'[d] = {}
    BY <1>2, <1>3, <1>4, <1>5, <2>1
  <2> QED BY <2>1, <2>2 DEF CommitEffect, Row, Absent
<1>8. CASE req[r].kind = "process"
  <2>1. d # r /\ Known(d) /\ req[d].shape \in Shapes
    BY <1>8, Meaning
  <2>2. /\ w.emb \subseteq w.ins /\ (w.ins # {} => "version" \in w.did /\ chunks[d] \subseteq w.del)
        /\ ("version" \in w.did \/ "job" \in w.did => Present(d))
    BY <1>1, <1>8 DEF InOrder, ProcessWrites, Relies
  <2>3. IndexesText(r, "commit", w) /\ FindsEmpty(r, "commit", w)
    BY <1>1 DEF Means
  <2>4. CASE req[d].shape = "text"
    <3>1. /\ w.ins = {r} /\ "job" \in w.did /\ (~InMemory => w.emb = {r})
          /\ w.status = "EMBEDDED" /\ w.job = "COMPLETED"
      BY <1>8, <2>3, <2>4 DEF IndexesText, AfterInsert
    <3>2. "version" \in w.did /\ chunks[d] \subseteq w.del /\ Present(d)
      BY <2>2, <3>1
    <3>3. /\ row'[d] = Row("EMBEDDED", "COMPLETED") /\ chunks'[d] = {r}
          /\ ~InMemory => embs'[d] = {r}
      BY <1>2, <1>3, <1>4, <1>5, <3>1, <3>2
    <3> QED BY <2>1, <2>4, <3>2, <3>3 DEF CommitEffect
  <2>5. CASE req[d].shape # "text"
    <3>1. /\ w.ins = {} /\ w.emb = {} /\ w.status = "CHUNKED"
          /\ "version" \notin w.did => row[d].status \in {"CHUNKED", "ABSENT"}
          /\ req[d].shape = "bare" => "job" \notin w.did
          /\ req[d].shape = "blank" /\ Present(d) => "job" \in w.did
          /\ "job" \in w.did => w.job = "CHUNKED"
      BY <1>8, <2>2, <2>3, <2>5 DEF FindsEmpty, AfterInsert
    <3>2. chunks[d] = {} /\ embs[d] = {}
      BY <1>1, <1>5, <2>5 DEF SInv, RowsMean, RowMeans
    <3>3. chunks'[d] = {} /\ embs'[d] = {}
      BY <1>2, <3>1, <3>2
    <3>4. CASE ~Present(d)
      BY <1>2, <1>3, <1>4, <2>1, <2>2, <3>2, <3>3, <3>4 DEF CommitEffect
    <3>5. CASE Present(d)
      <4>1. row'[d].status = "CHUNKED"
        BY <1>2, <3>1, <3>5 DEF Present
      <4>2. CASE req[d].shape = "blank"
        <5>1. row'[d] = Row("CHUNKED", "CHUNKED")
          BY <1>2, <1>3, <1>4, <3>1, <3>5, <4>1, <4>2
        <5> QED BY <2>1, <3>2, <3>3, <3>5, <4>2, <5>1 DEF CommitEffect
      <4>3. CASE req[d].shape = "bare"
        <5>1. row[d].job = "COMPLETED"
          BY <1>1, <3>5, <4>3 DEF SInv, RowsMean, RowMeans, RowsOf
        <5>2. row'[d] = Row("CHUNKED", "COMPLETED")
          BY <1>2, <1>3, <1>4, <3>1, <4>1, <4>3, <5>1
        <5> QED BY <2>1, <3>2, <3>3, <3>5, <4>3, <5>2 DEF CommitEffect
      <4> QED BY <2>1, <2>5, <4>2, <4>3 DEF Shapes
    <3> QED BY <3>4, <3>5
  <2> QED BY <2>4, <2>5
<1> QED BY <1>1, <1>6, <1>7, <1>8

LEMMA RowsOnRecord ==
  /\ \A s : Row("PARSED", "COMPLETED") \in RowsOf(s)
  /\ Row("EMBEDDED", "COMPLETED") \in RowsOf("text")
  /\ Row("CHUNKED", "COMPLETED") \in RowsOf("bare")
  /\ Row("CHUNKED", "CHUNKED") \in RowsOf("blank")
  /\ \A status, job : Row(status, job).status = status
  /\ Absent.status = "ABSENT"
BY DEF RowsOf, Row, Absent

\* A commit keeps what everybody else relies on, and leaves rows that mean
\* what they should.
LEMMA CommitMeans == ASSUME IInv, SInv, NEW r \in Requests, CommitSession(r) PROVE SInv'
<1> DEFINE d == req[r].doc
<1>1. /\ \A q \in Requests \ {r} : req'[q] = req[q] /\ tx'[q] = tx[q]
      /\ req'[r].kind = req[r].kind /\ req'[r].doc = d /\ req'[r].out = req[r].out
      /\ req'[r].tenant = req[r].tenant /\ req'[r].shape = req[r].shape
      /\ req'[r].pc = "done" /\ tx'[r] = NoTx
      /\ \A x \in Requests \ {d} :
           row'[x] = row[x] /\ chunks'[x] = chunks[x] /\ embs'[x] = embs[x]
  BY Committing
<1>2. CommitEffect(r)
  BY CommitChanges
<1>3. /\ req[r].pc = "commit" /\ d \in Requests /\ MeansNow(r)
      /\ \A x \in Requests : req'[x].tenant = req[x].tenant /\ req'[x].shape = req[x].shape
  BY <1>1, Meaning, Serving DEF CommitSession
<1>4. ASSUME NEW x \in Requests, Known(x)
      PROVE  /\ Present(x)' => Present(x)
             /\ /\ req[x].shape # "text"
                /\ row[x].status \in {"CHUNKED", "ABSENT"}
                => row'[x].status \in {"CHUNKED", "ABSENT"}
  <2>1. x # r
    BY <1>3, <1>4 DEF Known
  <2> QED BY <1>1, <1>2, <2>1 DEF CommitEffect, Present, Row, Absent
<1>5. ASSUME NEW q \in Requests PROVE MeansNow(q)'
  <2>1. CASE q = r
    <3>1. Permitted(r, req[r].pc, req[r].out)'
      BY <1>1, <1>3 DEF MeansNow, Means, Permitted, Touching, MayTouch, ProcessPc, DeletePc
    <3>2. Parsed(r, req[r].pc, req[r].out, tx[r])'
      BY <1>1, <1>3 DEF MeansNow, Means, Parsed
    <3>3. IndexesText(r, req[r].pc, tx[r])' /\ FindsEmpty(r, req[r].pc, tx[r])'
      BY <1>1 DEF IndexesText, FindsEmpty, AfterInsert, NoTx
    <3> QED BY <2>1, <3>1, <3>2, <3>3 DEF MeansNow, Means
  <2>2. CASE q # r
    <3>1. /\ MeansNow(q) /\ req'[q] = req[q] /\ tx'[q] = tx[q]
          /\ req[q].kind = "process" => req[q].doc \in Requests /\ Known(req[q].doc)
      BY <1>1, <2>2, Meaning
    <3>2. Permitted(q, req[q].pc, req[q].out)'
      <4>1. CASE req[q].pc = "idle"
        BY <3>1, <4>1, Meaning DEF Identity, Idle, Permitted, Touching, ProcessPc, DeletePc
      <4>2. CASE req[q].pc # "idle"
        <5>1. req[q].doc \in Requests
          BY <4>2, Meaning DEF Identity
        <5> QED BY <1>3, <3>1, <5>1 DEF MeansNow, Means, Permitted, MayTouch
      <4> QED BY <4>1, <4>2
    <3>3. Parsed(q, req[q].pc, req[q].out, tx[q])'
      BY <3>1 DEF MeansNow, Means, Parsed
    <3>4. IndexesText(q, req[q].pc, tx[q])'
      BY <1>3, <3>1 DEF MeansNow, Means, IndexesText
    <3>5. FindsEmpty(q, req[q].pc, tx[q])'
      <4>1. SUFFICES ASSUME req[q].kind = "process", req[req[q].doc].shape # "text"
                     PROVE  FindsEmpty(q, req[q].pc, tx[q])'
        BY <1>3, <3>1 DEF FindsEmpty
      <4>2. /\ Present(req[q].doc)' => Present(req[q].doc)
            /\ row[req[q].doc].status \in {"CHUNKED", "ABSENT"}
               => row'[req[q].doc].status \in {"CHUNKED", "ABSENT"}
        BY <1>4, <3>1, <4>1
      <4> QED BY <1>3, <3>1, <4>1, <4>2 DEF MeansNow, Means, FindsEmpty
    <3> QED BY <3>2, <3>3, <3>4, <3>5 DEF MeansNow, Means
  <2> QED BY <2>1, <2>2
<1>6. RowsMean'
  <2>1. SUFFICES ASSUME NEW x \in Requests, Present(x)' PROVE RowMeans(x)'
    BY DEF RowsMean
  <2>2. req'[x].shape = req[x].shape /\ (Present(x) => RowMeans(x))
    BY <1>3 DEF SInv, RowsMean
  <2>3. CASE x # d \/ (row'[d] = row[d] /\ chunks'[d] = chunks[d] /\ embs'[d] = embs[d])
    BY <1>1, <2>1, <2>2, <2>3 DEF RowMeans, Present
  <2>4. CASE /\ x = d /\ row'[d] = Row("PARSED", "COMPLETED")
             /\ chunks'[d] = {} /\ embs'[d] = {}
    BY <2>4, RowsOnRecord DEF RowMeans
  <2>5. CASE /\ x = d /\ req[d].shape = "text" /\ row'[d] = Row("EMBEDDED", "COMPLETED")
             /\ chunks'[d] = {r} /\ (~InMemory => embs'[d] = {r})
    BY <2>2, <2>5, RowsOnRecord DEF RowMeans
  <2>6. CASE /\ x = d /\ chunks'[d] = {} /\ embs'[d] = {}
             /\ \/ req[d].shape = "bare" /\ row'[d] = Row("CHUNKED", "COMPLETED")
                \/ req[d].shape = "blank" /\ row'[d] = Row("CHUNKED", "CHUNKED")
    BY <2>2, <2>6, RowsOnRecord DEF RowMeans
  <2>7. CASE x = d /\ row'[d] = Absent
    BY <2>1, <2>7, RowsOnRecord DEF Present
  <2> QED BY <1>2, <2>3, <2>4, <2>5, <2>6, <2>7 DEF CommitEffect
<1>7. BatchesDone'
  <2>1. \A x \in Requests : chunks'[x] \subseteq chunks[x] \cup {r}
    BY <1>1, <1>2 DEF CommitEffect
  <2>2. \A x \in Requests : chunks[x] \subseteq Requests
    BY DEF IInv, TypeOK
  <2> QED BY <1>1, <2>1, <2>2 DEF SInv, BatchesDone
<1> QED BY <1>5, <1>6, <1>7 DEF SInv, MeansNow

\* An upload begins with a document of its tenant, or a new one.
LEMMA BeginUploadMeans == ASSUME IInv, SInv, NEW r \in Requests, BeginUpload(r) PROVE SInv'
<1>1. /\ req[r].pc = "idle" /\ DOMAIN req = Requests /\ tx' = tx
      /\ row' = row /\ chunks' = chunks /\ embs' = embs
  BY DEF BeginUpload, db, IInv, TypeOK
<1>2. PICK t \in Tenants, h \in Hashes :
        LET new == [Idle EXCEPT !.kind = "upload", !.tenant = t, !.hash = h]
        IN  \/ req' = [req EXCEPT ![r] = [new EXCEPT !.pc = "save", !.doc = r]]
            \/ \E x \in SameContent(t, h) :
                 req' = [req EXCEPT ![r] = [new EXCEPT !.pc = "resolve", !.doc = x]]
  BY DEF BeginUpload
<1>3. /\ req'[r].kind = "upload" /\ req'[r].tenant = t /\ req'[r].out = "none"
      /\ \/ req'[r].pc = "save"
         \/ req'[r].pc = "resolve" /\ req'[r].doc \in SameContent(t, h)
  BY <1>1, <1>2 DEF Idle
<1>4. \A q \in Requests \ {r} : req'[q] = req[q] /\ tx'[q] = tx[q]
  BY <1>1, <1>2
<1>5. ASSUME NEW x \in SameContent(t, h) PROVE x \in Requests \ {r} /\ req[x].tenant = t
  BY <1>1 DEF SameContent, IInv, OnlyKnownStored, Known, Present, Absent
<1>6. MeansNow(r)'
  <2>1. Permitted(r, req[r].pc, req[r].out)'
    BY <1>3, <1>4, <1>5 DEF Permitted, Touching, MayTouch, ProcessPc, DeletePc
  <2>2. Parsed(r, req[r].pc, req[r].out, tx[r])'
    BY <1>3 DEF Parsed
  <2>3. IndexesText(r, req[r].pc, tx[r])' /\ FindsEmpty(r, req[r].pc, tx[r])'
    BY <1>3 DEF IndexesText, FindsEmpty
  <2> QED BY <2>1, <2>2, <2>3 DEF MeansNow, Means
<1> QED BY <1>1, <1>4, <1>6, OthersMean

\* A request goes on with a document its caller may touch, or answers.
LEMMA OpenMeans ==
  ASSUME IInv, SInv, NEW r \in Requests,
         Open(r, "process", "chunk") \/ Open(r, "delete", "unlink")
  PROVE  SInv'
<1>1. /\ req[r].pc = "idle" /\ DOMAIN req = Requests /\ DOMAIN tx = Requests
      /\ row' = row /\ chunks' = chunks /\ embs' = embs
  BY DEF Open, db, IInv, TypeOK
<1>2. tx[r] = NoTx
  BY <1>1, Meaning DEF InOrder, NothingOpen
<1>3. PICK kind \in {"process", "delete"}, pc \in {"chunk", "unlink"} :
        Open(r, kind, pc) /\ (kind = "process" => pc = "chunk")
  OBVIOUS
<1>4. PICK x \in Requests, caller \in Tenants \cup {Admin} :
        LET new == [Idle EXCEPT !.kind = kind, !.tenant = caller, !.doc = x]
            answer(out) == [new EXCEPT !.pc = "unwind", !.out = out]
        IN  /\ Known(x)
            /\ \/ /\ req' = [req EXCEPT ![r] = answer("not_found")] /\ UNCHANGED tx
               \/ /\ req' = [req EXCEPT ![r] = answer("forbidden")] /\ UNCHANGED tx
               \/ /\ MayTouch(caller, x)
                  /\ req' = [req EXCEPT ![r] = [new EXCEPT !.pc = pc]]
                  /\ tx' = [tx EXCEPT ![r].status = row[x].status, ![r].job = row[x].job]
  BY <1>3 DEF Open
<1>5. /\ req'[r].doc = x /\ req'[r].tenant = caller /\ req'[r].kind = kind
      /\ \/ /\ req'[r].pc = "unwind" /\ req'[r].out \in {"not_found", "forbidden"}
            /\ tx'[r] = NoTx
         \/ /\ MayTouch(caller, x) /\ req'[r].pc = pc /\ req'[r].out = "none"
            /\ tx'[r] = [NoTx EXCEPT !.status = row[x].status, !.job = row[x].job]
  BY <1>1, <1>2, <1>4 DEF Idle
<1>6. \A q \in Requests \ {r} : req'[q] = req[q] /\ tx'[q] = tx[q]
  BY <1>1, <1>4
<1>7. x # r /\ req'[x] = req[x]
  BY <1>1, <1>4, <1>6 DEF Known
<1>8. /\ tx'[r].ins = {} /\ tx'[r].did = {}
      /\ tx'[r].status \in {row[x].status, "ABSENT"}
  <2>1. NoTx.ins = {} /\ NoTx.did = {} /\ NoTx.status = "ABSENT"
    BY DEF NoTx
  <2>2. CASE tx'[r] = [NoTx EXCEPT !.status = row[x].status, !.job = row[x].job]
    <3>1. NoTx \in TxType
      BY NoTxIsEmpty
    <3> QED BY <2>1, <2>2, <3>1 DEF TxType
  <2> QED BY <1>5, <2>1, <2>2
<1>9. MeansNow(r)'
  <2>1. Permitted(r, req[r].pc, req[r].out)'
    BY <1>5, <1>7 DEF Permitted, Touching, MayTouch, ProcessPc, DeletePc
  <2>2. Parsed(r, req[r].pc, req[r].out, tx[r])'
    BY <1>3, <1>5 DEF Parsed
  <2>3. IndexesText(r, req[r].pc, tx[r])' /\ FindsEmpty(r, req[r].pc, tx[r])'
    BY <1>1, <1>3, <1>5, <1>8 DEF IndexesText, FindsEmpty, AfterInsert
  <2> QED BY <2>1, <2>2, <2>3 DEF MeansNow, Means
<1> QED BY <1>1, <1>6, <1>9, OthersMean

\* A crash takes the transactions and leaves the tables.
LEMMA RestartMeans == ASSUME IInv, SInv, Restart PROVE SInv'
<1>1. /\ \A r \in Requests : /\ tx'[r] = NoTx
                             /\ Active(r) => req'[r] = [req[r] EXCEPT !.pc = "done", !.out = "crashed"]
                             /\ ~Active(r) => req'[r] = req[r]
      /\ row' = row /\ chunks' = chunks /\ embs' = embs
  BY DEF Restart, db
<1>2. \A r \in Requests :
        /\ req'[r].kind = req[r].kind /\ req'[r].doc = req[r].doc
        /\ req'[r].tenant = req[r].tenant /\ req'[r].shape = req[r].shape
        /\ req'[r].pc \in {"idle", "done"} /\ (req[r].pc = "done" => req'[r].pc = "done")
        /\ req'[r].out = "crashed" \/ req'[r].out = req[r].out
  <2>1. \A r \in Requests : req[r] \in ReqType
    BY DEF IInv, TypeOK
  <2> QED BY <1>1, <2>1 DEF ReqType, Active
<1>3. ASSUME NEW q \in Requests PROVE MeansNow(q)'
  <2>1. MeansNow(q) /\ Identity(q)
    BY Meaning
  <2>2. Permitted(q, req[q].pc, req[q].out)'
    <3>1. CASE req[q].pc = "idle"
      <4>1. req'[q].pc = "idle" /\ req'[q].out = "none"
        <5>1. req'[q] = req[q]
          BY <1>1, <3>1 DEF Active
        <5>2. req[q] = Idle
          BY <2>1, <3>1 DEF Identity
        <5> QED BY <5>1, <5>2 DEF Idle
      <4> QED BY <4>1 DEF Permitted, Touching, ProcessPc, DeletePc
    <3>2. CASE req[q].pc # "idle"
      <4>1. req[q].doc \in Requests
        BY <2>1, <3>2 DEF Identity
      <4> QED BY <1>2, <2>1, <4>1 DEF MeansNow, Means, Permitted, Touching, MayTouch, ProcessPc,
                                      DeletePc
    <3> QED BY <3>1, <3>2
  <2>3. Parsed(q, req[q].pc, req[q].out, tx[q])'
    BY <1>1, <1>2, <2>1 DEF MeansNow, Means, Parsed, Active
  <2>4. IndexesText(q, req[q].pc, tx[q])' /\ FindsEmpty(q, req[q].pc, tx[q])'
    <3>1. tx'[q].ins = {} /\ tx'[q].did = {} /\ tx'[q].status = "ABSENT"
      <4>1. tx'[q] = NoTx
        BY <1>1
      <4> QED BY <4>1 DEF NoTx
    <3>2. req'[q].pc \in {"idle", "done"}
      BY <1>2
    <3> QED BY <3>1, <3>2 DEF IndexesText, FindsEmpty, AfterInsert
  <2> QED BY <2>2, <2>3, <2>4 DEF MeansNow, Means
<1>4. RowsMean'
  BY <1>1, <1>2 DEF SInv, RowsMean, RowMeans, Present
<1>5. BatchesDone'
  <2>1. \A d \in Requests : chunks[d] \subseteq Requests
    BY DEF IInv, TypeOK
  <2> QED BY <1>1, <1>2, <2>1 DEF SInv, BatchesDone
<1> QED BY <1>3, <1>4, <1>5 DEF SInv, MeansNow

LEMMA InitMeans == Init => SInv
<1> SUFFICES ASSUME Init PROVE SInv
  OBVIOUS
<1>1. \A r \in Requests : /\ req[r] = Idle /\ tx[r] = NoTx /\ row[r] = Absent /\ chunks[r] = {}
  BY DEF Init
<1>2. RowsMean /\ BatchesDone
  BY <1>1 DEF RowsMean, BatchesDone, Present, Absent
<1>3. ASSUME NEW r \in Requests PROVE Means(r, req[r].pc, req[r].out, tx[r])
  <2>1. req[r].pc = "idle" /\ req[r].out = "none" /\ req[r].kind = "none"
    BY <1>1 DEF Idle
  <2> QED BY <2>1 DEF Means, Permitted, Touching, Parsed, IndexesText, FindsEmpty, ProcessPc, DeletePc
<1> QED BY <1>2, <1>3 DEF SInv

LEMMA StutterMeans == SInv /\ UNCHANGED vars => SInv'
<1> SUFFICES ASSUME SInv, UNCHANGED vars PROVE SInv'
  OBVIOUS
<1>1. req' = req /\ tx' = tx /\ row' = row /\ chunks' = chunks /\ embs' = embs
  BY DEF vars
<1>2. RowsMean' /\ BatchesDone'
  BY <1>1 DEF SInv, RowsMean, RowMeans, BatchesDone, Present
<1>3. ASSUME NEW r \in Requests PROVE Means(r, req[r].pc, req[r].out, tx[r])'
  BY <1>1 DEF SInv, Means, Permitted, MayTouch, Parsed, IndexesText, FindsEmpty, Present
<1> QED BY <1>2, <1>3 DEF SInv

\* Only a commit changes the tables.
LEMMA OnlyCommitsWrite ==
  ASSUME [Next]_vars
  PROVE  UNCHANGED db \/ \E r \in Requests : CommitSession(r)
<1>1. CASE Restart
  BY <1>1 DEF Restart
<1>2. ASSUME NEW r \in Requests, Begin(r) PROVE UNCHANGED db
  BY <1>2 DEF Begin, BeginUpload, BeginProcess, BeginDelete, Open
<1>3. ASSUME NEW r \in Requests, Upload(r) PROVE UNCHANGED db
  BY <1>3 DEF Upload, ResolveDuplicate, SaveFile, CreateDocument, CreateJob, Parse, FailIngestion,
              FinishIngestion
<1>4. ASSUME NEW r \in Requests, Process(r) PROVE UNCHANGED db
  BY <1>4 DEF Process, ChunkVersion, PurgeChunks, InsertChunks, MarkChunked, ReportChunked,
              FetchChunks, EmbedDocuments, UpsertVectors, UpdateReferences, FailEmbedding
<1>5. ASSUME NEW r \in Requests, Delete(r) PROVE UNCHANGED db
  BY <1>5 DEF Delete, RemoveFile, SelectRows, DeleteChunkRows, DeleteJobRow, LockVersion, Cascade
<1>6. ASSUME NEW r \in Requests, RollbackSession(r) \/ Fail(r) PROVE UNCHANGED db
  BY <1>6 DEF RollbackSession, Fail
<1>7. CASE UNCHANGED vars
  BY <1>7 DEF vars, db
<1> QED BY <1>1, <1>2, <1>3, <1>4, <1>5, <1>6, <1>7 DEF Next, Serve

LEMMA NextMeans == IInv /\ SInv /\ [Next]_vars => SInv'
<1> SUFFICES ASSUME IInv, SInv, [Next]_vars PROVE SInv'
  OBVIOUS
<1>1. CASE Restart
  BY <1>1, RestartMeans
<1>2. ASSUME NEW r \in Requests, Begin(r) PROVE SInv'
  BY <1>2, BeginUploadMeans, OpenMeans DEF Begin, BeginProcess, BeginDelete
<1>3. ASSUME NEW r \in Requests, Upload(r) PROVE SInv'
  <2>1. CASE Parse(r)
    BY <2>1, ParseMeans
  <2>2. CASE ~Parse(r)
    <3>1. UNCHANGED db
      BY <1>3 DEF Upload, ResolveDuplicate, SaveFile, CreateDocument, CreateJob, Parse,
                  FailIngestion, FinishIngestion
    <3> QED BY <1>3, <2>2, <3>1, UploadMeans DEF Upload
  <2> QED BY <2>1, <2>2
<1>4. ASSUME NEW r \in Requests, Process(r) PROVE SInv'
  BY <1>4, ChunkVersionMeans, PurgeChunksMeans, InsertChunksMeans, MarkChunkedMeans,
     ReportChunkedMeans, FetchChunksMeans, EmbedDocumentsMeans, UpsertVectorsMeans,
     UpdateReferencesMeans, FailEmbeddingMeans DEF Process
<1>5. ASSUME NEW r \in Requests, Delete(r) PROVE SInv'
  <2>1. UNCHANGED db
    BY <1>5 DEF Delete, RemoveFile, SelectRows, DeleteChunkRows, DeleteJobRow, LockVersion, Cascade
  <2> QED BY <1>5, <2>1, DeleteMeans
<1>6. ASSUME NEW r \in Requests, CommitSession(r) \/ RollbackSession(r) \/ Fail(r) PROVE SInv'
  BY <1>6, CommitMeans, RollbackMeans, FailMeans
<1>7. CASE UNCHANGED vars
  BY <1>7, StutterMeans
<1> QED BY <1>1, <1>2, <1>3, <1>4, <1>5, <1>6, <1>7 DEF Next, Serve

-----------------------------------------------------------------------------
(* Who changes what: facts about the steps that the files and the          *)
(* refinement share.                                                       *)

LEMMA Moves ==
  ASSUME IInv, NEW r \in Requests
  PROVE  /\ \A pc : Goto(r, pc) => req'[r].pc = pc /\ req'[r].out = req[r].out
         /\ \A out : Finish(r, out) => req'[r].pc = "commit" /\ req'[r].out = out
         /\ \A out : Unwind(r, out) => req'[r].pc = "unwind" /\ req'[r].out = out
<1>1. req[r] \in ReqType /\ DOMAIN req = Requests
  BY DEF IInv, TypeOK
<1>2. ASSUME NEW pc, Goto(r, pc) PROVE req'[r].pc = pc /\ req'[r].out = req[r].out
  <2>1. req' = [req EXCEPT ![r] = [req[r] EXCEPT !.pc = pc]]
    BY <1>2 DEF Goto
  <2> QED BY <1>1, <2>1 DEF ReqType
<1>3. ASSUME NEW out, Finish(r, out) PROVE req'[r].pc = "commit" /\ req'[r].out = out
  <2>1. req' = [req EXCEPT ![r] = [req[r] EXCEPT !.pc = "commit", !.out = out]]
    BY <1>3 DEF Finish
  <2> QED BY <1>1, <2>1 DEF ReqType
<1>4. ASSUME NEW out, Unwind(r, out) PROVE req'[r].pc = "unwind" /\ req'[r].out = out
  <2>1. req' = [req EXCEPT ![r] = [req[r] EXCEPT !.pc = "unwind", !.out = out]]
    BY <1>4 DEF Unwind
  <2> QED BY <1>1, <2>1 DEF ReqType
<1> QED BY <1>2, <1>3, <1>4

\* A request is changed by its own steps only, a restart aside.
LEMMA OthersStay ==
  ASSUME IInv, NEW q \in Requests, NEW r \in Requests \ {q}, Begin(r) \/ Serve(r) \/ Fail(r)
  PROVE  req'[q] = req[q]
<1>1. DOMAIN req = Requests
  BY DEF IInv, TypeOK
<1>2. CASE Begin(r)
  BY <1>1, <1>2 DEF Begin, BeginUpload, BeginProcess, BeginDelete, Open
<1>3. CASE Upload(r)
  BY <1>1, <1>3 DEF Upload, ResolveDuplicate, SaveFile, CreateDocument, CreateJob, Parse,
            FailIngestion, FinishIngestion, Goto, Finish, Unwind
<1>4. CASE Process(r)
  BY <1>1, <1>4 DEF Process, ChunkVersion, PurgeChunks, InsertChunks, MarkChunked,
            ReportChunked, FetchChunks, EmbedDocuments, UpsertVectors, UpdateReferences,
            FailEmbedding, Goto, Finish, Unwind
<1>5. CASE Delete(r) \/ CommitSession(r) \/ RollbackSession(r) \/ Fail(r)
  BY <1>1, <1>5 DEF Delete, RemoveFile, SelectRows, DeleteChunkRows, DeleteJobRow,
            LockVersion, Cascade, CommitSession, RollbackSession, Fail, Goto, Finish, Unwind
<1> QED BY <1>2, <1>3, <1>4, <1>5 DEF Serve

\* A request that begins does not end, nor is it writing rows already.
LEMMA Begins ==
  ASSUME IInv, NEW r \in Requests, Begin(r)
  PROVE  /\ req[r].pc = "idle" /\ req'[r].pc \in {"save", "resolve", "unwind", "chunk", "unlink"}
         /\ req'[r].out # "created"
<1>1. DOMAIN req = Requests
  BY DEF IInv, TypeOK
<1>2. CASE BeginUpload(r)
  BY <1>1, <1>2 DEF BeginUpload, Idle
<1>3. CASE BeginProcess(r) \/ BeginDelete(r)
  <2>1. PICK kind \in {"process", "delete"}, pc \in {"chunk", "unlink"} : Open(r, kind, pc)
    BY <1>3 DEF BeginProcess, BeginDelete
  <2>2. PICK x \in Requests, caller \in Tenants \cup {Admin} :
          LET new == [Idle EXCEPT !.kind = kind, !.tenant = caller, !.doc = x]
          IN  \/ req' = [req EXCEPT ![r] = [new EXCEPT !.pc = "unwind", !.out = "not_found"]]
              \/ req' = [req EXCEPT ![r] = [new EXCEPT !.pc = "unwind", !.out = "forbidden"]]
              \/ req' = [req EXCEPT ![r] = [new EXCEPT !.pc = pc]]
    BY <2>1 DEF Open
  <2>3. req'[r].pc \in {"unwind", pc} /\ req'[r].out # "created"
    BY <1>1, <2>2 DEF Idle
  <2>4. req[r].pc = "idle"
    BY <2>1 DEF Open
  <2> QED BY <2>3, <2>4
<1> QED BY <1>2, <1>3 DEF Begin

\* Only the end of its session ends a request.
LEMMA GoesOn ==
  ASSUME IInv, NEW r \in Requests, Upload(r) \/ Process(r) \/ Delete(r) \/ Fail(r)
  PROVE  req[r].pc \in Working /\ req'[r].pc # "done"
<1>1. CASE Upload(r)
  <2>1. CASE Parse(r)
    <3>1. req[r] \in ReqType /\ DOMAIN req = Requests
      BY DEF IInv, TypeOK
    <3>2. PICK s \in Shapes : req' = [req EXCEPT ![r] = [req[r] EXCEPT !.pc = "finish", !.shape = s]]
      BY <2>1 DEF Parse
    <3> QED BY <2>1, <3>1, <3>2 DEF Parse, ReqType, Working, UploadPc
  <2>2. CASE ~Parse(r)
    BY <1>1, <2>2, Moves DEF Upload, ResolveDuplicate, SaveFile, CreateDocument, CreateJob,
              FailIngestion, FinishIngestion, Working, UploadPc
  <2> QED BY <2>1, <2>2
<1>2. CASE Process(r)
  BY <1>2, Moves DEF Process, ChunkVersion, PurgeChunks, InsertChunks, MarkChunked,
            ReportChunked, FetchChunks, EmbedDocuments, UpsertVectors, UpdateReferences,
            FailEmbedding, Working, ProcessPc
<1>3. CASE Delete(r)
  BY <1>3, Moves DEF Delete, RemoveFile, SelectRows, DeleteChunkRows, DeleteJobRow,
            LockVersion, Cascade, Working, DeletePc
<1>4. CASE Fail(r)
  BY <1>4, Moves DEF Fail
<1> QED BY <1>1, <1>2, <1>3, <1>4

-----------------------------------------------------------------------------
(* The files.                                                              *)

\* What a request is does not change once it has begun.
LEMMA SameRequest ==
  ASSUME IInv, [Next]_vars, NEW q \in Requests, req[q].pc # "idle"
  PROVE  /\ req'[q].kind = req[q].kind /\ req'[q].doc = req[q].doc
         /\ req'[q].tenant = req[q].tenant
<1>1. /\ \A r \in Requests : req[r] \in ReqType
      /\ DOMAIN req = Requests
  BY DEF IInv, TypeOK
<1>2. CASE Restart
  BY <1>1, <1>2 DEF Restart, ReqType
<1>3. ASSUME NEW r \in Requests, Begin(r) PROVE req'[q] = req[q]
  BY <1>1, <1>3 DEF Begin, BeginUpload, BeginProcess, BeginDelete, Open
<1>4. ASSUME NEW r \in Requests,
             \/ \E pc : Goto(r, pc)
             \/ \E out : Finish(r, out) \/ Unwind(r, out)
             \/ \E s : req' = [req EXCEPT ![r].pc = "finish", ![r].shape = s]
      PROVE  /\ req'[q].kind = req[q].kind /\ req'[q].doc = req[q].doc
             /\ req'[q].tenant = req[q].tenant
  BY <1>1, <1>4 DEF Goto, Finish, Unwind, ReqType
<1>5. ASSUME NEW r \in Requests, Upload(r)
      PROVE  \/ \E pc : Goto(r, pc)
             \/ \E out : Finish(r, out) \/ Unwind(r, out)
             \/ \E s : req' = [req EXCEPT ![r].pc = "finish", ![r].shape = s]
  BY <1>5 DEF Upload, ResolveDuplicate, SaveFile, CreateDocument, CreateJob, Parse,
              FailIngestion, FinishIngestion
<1>6. ASSUME NEW r \in Requests, Process(r)
      PROVE  (\E pc : Goto(r, pc)) \/ \E out : Finish(r, out) \/ Unwind(r, out)
  BY <1>6 DEF Process, ChunkVersion, PurgeChunks, InsertChunks, MarkChunked, ReportChunked,
              FetchChunks, EmbedDocuments, UpsertVectors, UpdateReferences, FailEmbedding
<1>7. ASSUME NEW r \in Requests, Delete(r) \/ CommitSession(r) \/ RollbackSession(r) \/ Fail(r)
      PROVE  (\E pc : Goto(r, pc)) \/ \E out : Finish(r, out) \/ Unwind(r, out)
  BY <1>7 DEF Delete, RemoveFile, SelectRows, DeleteChunkRows, DeleteJobRow, LockVersion, Cascade,
              CommitSession, RollbackSession, Fail
<1>8. CASE UNCHANGED vars
  BY <1>8 DEF vars
<1> QED BY <1>2, <1>3, <1>4, <1>5, <1>6, <1>7, <1>8 DEF Next, Serve

\* Who takes a file away: the delete of its document, or the upload that gives
\* up while it writes the rows.
LEMMA FilesShrink ==
  ASSUME [Next]_vars, NEW d \in files, d \notin files'
  PROVE  \/ \E r \in Requests : req[r].pc = "unlink" /\ req[r].doc = d
         \/ d \in Requests /\ req[d].pc = "create" /\ Fail(d)
<1>1. CASE Restart
  BY <1>1 DEF Restart
<1>2. ASSUME NEW r \in Requests, Begin(r) PROVE FALSE
  BY <1>2 DEF Begin, BeginUpload, BeginProcess, BeginDelete, Open
<1>3. ASSUME NEW r \in Requests, Upload(r) PROVE FALSE
  BY <1>3 DEF Upload, ResolveDuplicate, SaveFile, CreateDocument, CreateJob, Parse,
              FailIngestion, FinishIngestion
<1>4. ASSUME NEW r \in Requests, Process(r) PROVE FALSE
  BY <1>4 DEF Process, ChunkVersion, PurgeChunks, InsertChunks, MarkChunked, ReportChunked,
              FetchChunks, EmbedDocuments, UpsertVectors, UpdateReferences, FailEmbedding
<1>5. ASSUME NEW r \in Requests, Delete(r) PROVE req[r].pc = "unlink" /\ req[r].doc = d
  BY <1>5 DEF Delete, RemoveFile, SelectRows, DeleteChunkRows, DeleteJobRow, LockVersion, Cascade
<1>6. ASSUME NEW r \in Requests, CommitSession(r) \/ RollbackSession(r) PROVE FALSE
  BY <1>6 DEF CommitSession, RollbackSession
<1>7. ASSUME NEW r \in Requests, Fail(r)
      PROVE  \/ req[r].pc = "unlink" /\ req[r].doc = d
             \/ req[r].pc = "create" /\ d = r
  BY <1>7 DEF Fail
<1>8. CASE UNCHANGED vars
  BY <1>8 DEF vars
<1> QED BY <1>1, <1>2, <1>3, <1>4, <1>5, <1>6, <1>7, <1>8 DEF Next, Serve

\* An upload comes to such a point by saving its file, or from another one.
LEMMA WithFileStep ==
  ASSUME IInv, [Next]_vars, NEW q \in Requests,
         req'[q].kind = "upload", req'[q].doc = q, req'[q].pc \in WithFile
  PROVE  \/ q \in files'
         \/ /\ req[q].kind = "upload" /\ req[q].doc = q /\ req[q].pc \in WithFile
            /\ ~Fail(q)
<1>1. /\ \A r \in Requests : req[r] \in ReqType
      /\ DOMAIN req = Requests /\ Identity(q) /\ Program(q, req[q].pc, req[q].out)
  BY Serving DEF IInv, TypeOK, InOrder
<1>2. Fail(q) => req'[q].pc = "unwind"
  BY Moves DEF Fail
<1>3. CASE Restart
  BY <1>1, <1>3 DEF Restart, Active, WithFile, ReqType
<1>4. CASE req'[q] = req[q]
  BY <1>2, <1>4 DEF WithFile
<1>5. CASE Begin(q)
  BY <1>5, Begins DEF WithFile
<1>6. CASE Upload(q)
  <2>1. req[q].kind = "upload" /\ req[q].doc = q
    BY <1>6, GoesOn, SameRequest DEF Working, UploadPc, ProcessPc, DeletePc
  <2>2. CASE SaveFile(q)
    BY <2>2 DEF SaveFile
  <2>3. CASE ~SaveFile(q)
    <3>1. req[q].pc \in {"create", "job", "parse", "finish"}
      BY <1>1, <1>6, <2>1, <2>3 DEF Upload, ResolveDuplicate, CreateDocument, CreateJob, Parse,
                FailIngestion, FinishIngestion, Program, UploadPc
    <3> QED BY <1>2, <2>1, <3>1 DEF WithFile
  <2> QED BY <2>2, <2>3
<1>7. CASE Process(q) \/ Delete(q)
  <2>1. req[q].pc \in ProcessPc \cup DeletePc
    BY <1>7 DEF Process, ChunkVersion, PurgeChunks, InsertChunks,
              MarkChunked, ReportChunked, FetchChunks, EmbedDocuments, UpsertVectors,
              UpdateReferences, FailEmbedding, Delete, RemoveFile, SelectRows, DeleteChunkRows,
              DeleteJobRow, LockVersion, Cascade, ProcessPc, DeletePc
  <2>2. req[q].kind = "upload"
    BY <2>1, SameRequest DEF ProcessPc, DeletePc
  <2> QED BY <1>1, <2>1, <2>2 DEF Program
<1>8. CASE CommitSession(q) \/ RollbackSession(q) \/ Fail(q)
  BY <1>2, <1>8, Moves DEF CommitSession, RollbackSession, WithFile
<1>9. CASE UNCHANGED vars
  BY <1>4, <1>9 DEF vars
<1> QED BY <1>3, <1>4, <1>5, <1>6, <1>7, <1>8, <1>9, OthersStay DEF Next, Serve

LEMMA NextFiles == ASSUME IInv, SInv, FInv, [Next]_vars PROVE FInv'
<1>1. UploadHasFile'
  <2>1. SUFFICES ASSUME NEW q \in Requests, q \notin files', req'[q].kind = "upload",
                        req'[q].doc = q, req'[q].pc \in WithFile
                 PROVE  FALSE
    BY DEF UploadHasFile
  <2>2. /\ req[q].kind = "upload" /\ req[q].doc = q /\ req[q].pc \in WithFile /\ ~Fail(q)
    BY <2>1, WithFileStep
  <2>3. q \in files
    BY <2>2 DEF FInv, UploadHasFile
  <2>4. PICK r \in Requests : req[r].pc = "unlink" /\ req[r].doc = q
    BY <2>1, <2>2, <2>3, FilesShrink
  <2>5. req[r].kind = "delete"
    BY <2>4, Meaning DEF InOrder, Program, DeletePc
  <2>6. Known(q)
    BY <2>4, <2>5, Meaning DEF Identity
  <2> QED BY <2>2, <2>6 DEF Known, WithFile
<1>2. FileKept'
  <2>1. SUFFICES ASSUME NEW d \in Requests, Present(d)', d \notin files'
                 PROVE  (\E r \in Requests : /\ req[r].kind = "delete" /\ req[r].doc = d
                                            /\ MayTouch(req[r].tenant, d))'
    BY DEF FileKept
  <2>2. ASSUME NEW r \in Requests, req[r].kind = "delete", req[r].doc = d,
               MayTouch(req[r].tenant, d)
        PROVE  /\ req'[r].kind = "delete" /\ req'[r].doc = d
               /\ MayTouch(req[r].tenant, d)'
    <3>1. req[r].pc # "idle" /\ req[d].pc # "idle"
      BY <2>2, Meaning DEF Identity, Idle, Known
    <3> QED BY <2>2, <3>1, SameRequest DEF MayTouch
  <2>3. CASE Present(d) /\ d \notin files
    BY <2>2, <2>3 DEF FInv, FileKept
  <2>4. CASE Present(d) /\ d \in files
    <3>1. Known(d)
      BY <2>4 DEF IInv, OnlyKnownStored, Present, Absent
    <3>2. PICK r \in Requests : req[r].pc = "unlink" /\ req[r].doc = d
      BY <2>1, <2>4, <3>1, FilesShrink DEF Known
    <3>3. req[r].kind = "delete" /\ MayTouch(req[r].tenant, d)
      BY <3>2, Meaning DEF InOrder, Program, DeletePc, MeansNow, Means, Permitted, Touching
    <3> QED BY <2>2, <3>2, <3>3
  <2>5. CASE ~Present(d)
    <3>1. PICK r \in Requests : CommitSession(r)
      BY <2>1, <2>5, OnlyCommitsWrite DEF db, Present
    <3>2. d = r /\ req[r].doc = r /\ req[r].out = "created"
      <4>1. \A x \in Requests \ {req[r].doc} : row'[x] = row[x]
        BY <3>1, Committing
      <4>2. CommitEffect(r)
        BY <3>1, CommitChanges
      <4>3. d = req[r].doc
        BY <2>1, <2>5, <4>1 DEF Present
      <4> QED BY <2>1, <2>5, <4>2, <4>3, RowsOnRecord DEF CommitEffect, Present
    <3>3. req[r].kind = "upload" /\ req[r].pc = "commit" /\ files' = files
      BY <3>1, <3>2, Meaning DEF InOrder, Program, CommitSession
    <3> QED BY <2>1, <3>2, <3>3 DEF FInv, UploadHasFile, WithFile
  <2> QED BY <2>3, <2>4, <2>5
<1> QED BY <1>1, <1>2 DEF FInv

LEMMA InitFiles == Init => FInv
<1> SUFFICES ASSUME Init PROVE FInv
  OBVIOUS
<1>1. \A r \in Requests : req[r].pc = "idle" /\ ~Present(r)
  BY DEF Init, Idle, Present, Absent
<1> QED BY <1>1 DEF FInv, UploadHasFile, FileKept, WithFile

-----------------------------------------------------------------------------
(* The refinement: the committed tables change like the catalogue.         *)

\* A document becomes known by the commit of its own upload and stays so.
LEMMA KnownStep ==
  ASSUME IInv, [Next]_vars, NEW d \in Requests
  PROVE  /\ Known(d) => Known(d)'
         /\ Known(d)' /\ ~Known(d) => CommitSession(d)
<1>1. /\ req[d] \in ReqType /\ Program(d, req[d].pc, req[d].out)
  BY Serving DEF InOrder
<1>2. CASE Restart
  BY <1>1, <1>2 DEF Restart, Active, Known, ReqType
<1>3. CASE req'[d] = req[d]
  BY <1>3 DEF Known
<1>4. CASE Begin(d)
  BY <1>4, Begins DEF Known
<1>5. CASE Upload(d) \/ Process(d) \/ Delete(d) \/ Fail(d)
  BY <1>5, GoesOn DEF Known, Working, UploadPc, ProcessPc, DeletePc
<1>6. CASE RollbackSession(d)
  BY <1>1, <1>6, Moves DEF RollbackSession, Known, Program
<1>7. CASE CommitSession(d)
  BY <1>7 DEF CommitSession, Known
<1>8. CASE UNCHANGED vars
  BY <1>3, <1>8 DEF vars
<1> QED BY <1>2, <1>3, <1>4, <1>5, <1>6, <1>7, <1>8, OthersStay DEF Next, Serve

StateOf == [d \in Requests |-> CatalogueState(d)]

\* A step that leaves the rows alone is a stutter of the catalogue.
LEMMA QuietStep ==
  ASSUME IInv, [Next]_vars, UNCHANGED db, \A r \in Requests : ~CommitSession(r)
  PROVE  StateOf' = StateOf /\ chunks' = chunks
<1>1. \A d \in Requests : Known(d)' <=> Known(d)
  BY KnownStep
<1>2. row' = row /\ chunks' = chunks
  BY DEF db
<1>3. \A d \in Requests : CatalogueState(d)' = CatalogueState(d)
  BY <1>1, <1>2 DEF CatalogueState
<1> QED BY <1>2, <1>3 DEF StateOf

\* One operation of the catalogue, said of the state of one document.
LEMMA Operation ==
  ASSUME NEW d \in Requests, NEW v, CatalogueState(d)' = v,
         \A x \in Requests \ {d} : CatalogueState(x)' = CatalogueState(x)
  PROVE  /\ StateOf' = [StateOf EXCEPT ![d] = v]
         /\ CatalogueState(d) = v => StateOf' = StateOf
         /\ CatalogueState(d) = "new" /\ v = "parsed" /\ UNCHANGED chunks => Catalogue!Publish(d)
         /\ CatalogueState(d) = "parsed" /\ v = "empty" /\ UNCHANGED chunks => Catalogue!NoteEmpty(d)
         /\ /\ CatalogueState(d) \in {"parsed", "empty", "searchable"} /\ v = "gone"
            /\ chunks' = [chunks EXCEPT ![d] = {}]
            => Catalogue!Remove(d)
         /\ \A b \in Requests :
              /\ CatalogueState(d) \in {"parsed", "searchable"} /\ v = "searchable"
              /\ \A e \in Requests : b \notin chunks[e]
              /\ chunks' = [chunks EXCEPT ![d] = {b}]
              => Catalogue!Replace(d, b)
<1>1. \A x \in Requests : StateOf[x] = CatalogueState(x)
  BY DEF StateOf
<1>2. \A x \in Requests : CatalogueState(x)' = IF x = d THEN v ELSE CatalogueState(x)
  OBVIOUS
<1>3. StateOf' = [StateOf EXCEPT ![d] = v]
  <2>1. StateOf' = [x \in Requests |-> IF x = d THEN v ELSE CatalogueState(x)]
    BY <1>2 DEF StateOf
  <2>2. [StateOf EXCEPT ![d] = v] = [x \in Requests |-> IF x = d THEN v ELSE CatalogueState(x)]
    BY DEF StateOf
  <2> QED BY <2>1, <2>2
<1>4. CatalogueState(d) = v => StateOf' = StateOf
  BY <1>2 DEF StateOf
<1>5. StateOf[d] = CatalogueState(d)
  BY <1>1
<1>6. CatalogueState(d) = "new" /\ v = "parsed" /\ UNCHANGED chunks => Catalogue!Publish(d)
  BY <1>3, <1>5 DEF StateOf, Catalogue!Publish
<1>7. CatalogueState(d) = "parsed" /\ v = "empty" /\ UNCHANGED chunks => Catalogue!NoteEmpty(d)
  BY <1>3, <1>5 DEF StateOf, Catalogue!NoteEmpty
<1>8. /\ CatalogueState(d) \in {"parsed", "empty", "searchable"} /\ v = "gone"
      /\ chunks' = [chunks EXCEPT ![d] = {}]
      => Catalogue!Remove(d)
  BY <1>3, <1>5 DEF StateOf, Catalogue!Remove, Catalogue!OnRecord
<1>9. ASSUME NEW b \in Requests, CatalogueState(d) \in {"parsed", "searchable"},
             v = "searchable", \A e \in Requests : b \notin chunks[e],
             chunks' = [chunks EXCEPT ![d] = {b}]
      PROVE  Catalogue!Replace(d, b)
  BY <1>3, <1>5, <1>9 DEF StateOf, Catalogue!Replace
<1> QED BY <1>3, <1>4, <1>6, <1>7, <1>8, <1>9

\* A commit is one operation of the catalogue on the document of the request.
LEMMA CommitRefines ==
  ASSUME IInv, SInv, [Next]_vars, NEW r \in Requests, CommitSession(r)
  PROVE  \/ StateOf' = StateOf /\ chunks' = chunks
         \/ Catalogue!CNext
<1>0. PICK d \in Requests : d = req[r].doc
  BY Serving DEF CommitSession
<1>1. /\ \A x \in Requests \ {d} : row'[x] = row[x] /\ chunks'[x] = chunks[x]
      /\ req[r].pc = "commit" /\ Identity(r) /\ Program(r, "commit", req[r].out)
      /\ req'[r].pc = "done" /\ req'[r].out = req[r].out
  <2>1. \A x \in Requests \ {d} : row'[x] = row[x] /\ chunks'[x] = chunks[x]
    BY <1>0, Committing
  <2>2. req[r].pc = "commit" /\ req'[r].pc = "done" /\ req'[r].out = req[r].out
    BY Committing DEF CommitSession
  <2>3. Identity(r) /\ Program(r, "commit", req[r].out)
    BY <2>2, Serving DEF InOrder
  <2> QED BY <2>1, <2>2, <2>3
<1>2. CommitEffect(r)
  BY CommitChanges
<1>3. ASSUME NEW x \in Requests, x # d \/ x # r PROVE Known(x)' <=> Known(x)
  <2>1. CASE x = r
    BY <1>0, <1>1, <1>3, <2>1 DEF Known, Program
  <2>2. CASE x # r
    <3>1. req'[x] = req[x]
      BY <2>2, Committing
    <3> QED BY <3>1 DEF Known
  <2> QED BY <2>1, <2>2
<1>4. ASSUME NEW x \in Requests \ {d} PROVE CatalogueState(x)' = CatalogueState(x)
  BY <1>1, <1>3 DEF CatalogueState
<1>5. chunks' = [chunks EXCEPT ![d] = chunks'[d]]
  <2>1. chunks' \in [Requests -> SUBSET Requests] /\ chunks \in [Requests -> SUBSET Requests]
    BY Committing DEF IInv, TypeOK
  <2> QED BY <1>1, <2>1
<1>6. chunks'[d] = chunks[d] => UNCHANGED chunks
  <2>1. chunks \in [Requests -> SUBSET Requests]
    BY DEF IInv, TypeOK
  <2> QED BY <1>5, <2>1
<1>7. Present(d) => row[d] \in RowsOf(req[d].shape)
  BY <1>1 DEF SInv, RowsMean, RowMeans
<1>8. CASE d # r /\ row'[d] = row[d] /\ chunks'[d] = chunks[d]
  <2>1. CatalogueState(d)' = CatalogueState(d)
    BY <1>1, <1>3, <1>8 DEF CatalogueState
  <2> QED BY <1>1, <1>4, <1>6, <1>8, <2>1, Operation
<1>9. CASE /\ d = r /\ row[d] = Absent /\ row'[d] = Row("PARSED", "COMPLETED")
           /\ chunks[d] = {} /\ chunks'[d] = {}
  <2>1. CatalogueState(d) = "new" /\ CatalogueState(d)' = "parsed"
    BY <1>1, <1>9, RowsOnRecord DEF CatalogueState, Known
  <2> QED BY <1>1, <1>4, <1>6, <1>9, <2>1, Operation DEF Catalogue!CNext
<1>10. CASE /\ Present(d) /\ req[d].shape = "text" /\ chunks'[d] = {r}
            /\ row'[d] = Row("EMBEDDED", "COMPLETED")
  <2>1. row[d].status \in {"PARSED", "EMBEDDED"}
    BY <1>7, <1>10 DEF RowsOf
  <2>2. CatalogueState(d) \in {"parsed", "searchable"} /\ CatalogueState(d)' = "searchable"
    BY <1>10, <2>1, RowsOnRecord DEF CatalogueState
  <2>3. \A e \in Requests : r \notin chunks[e]
    BY <1>1 DEF SInv, BatchesDone
  <2>4. Catalogue!Replace(d, r)
    BY <1>1, <1>4, <1>5, <1>10, <2>2, <2>3, Operation
  <2> QED BY <1>1, <2>4 DEF Catalogue!CNext
<1>11. CASE /\ Present(d) /\ chunks'[d] = {} /\ chunks[d] = {} /\ req[d].shape \in {"bare", "blank"}
            /\ row'[d] \in {Row("CHUNKED", "COMPLETED"), Row("CHUNKED", "CHUNKED")}
  <2>1. row[d].status \in {"PARSED", "CHUNKED"}
    BY <1>7, <1>11 DEF RowsOf
  <2>2. CatalogueState(d) \in {"parsed", "empty"} /\ CatalogueState(d)' = "empty"
    BY <1>11, <2>1, RowsOnRecord DEF CatalogueState
  <2> QED BY <1>1, <1>4, <1>6, <1>11, <2>2, Operation DEF Catalogue!CNext
<1>12. CASE d # r /\ Known(d) /\ row'[d] = Absent /\ chunks'[d] = {}
  <2>1. Known(d)'
    BY <1>1, <1>3, <1>12
  <2>2. CatalogueState(d)' = "gone"
    BY <1>12, <2>1, RowsOnRecord DEF CatalogueState
  <2>3. CASE Present(d)
    <3>1. row[d].status \in {"PARSED", "CHUNKED", "EMBEDDED"}
      BY <1>7, <2>3 DEF RowsOf
    <3>2. CatalogueState(d) \in {"parsed", "empty", "searchable"}
      BY <3>1 DEF CatalogueState
    <3> QED BY <1>1, <1>4, <1>5, <1>12, <2>2, <3>2, Operation DEF Catalogue!CNext
  <2>4. CASE ~Present(d)
    <3>1. CatalogueState(d) = "gone" /\ chunks[d] = {}
      BY <1>1, <1>12, <2>4 DEF CatalogueState, Present, IInv, NoOrphanRows
    <3> QED BY <1>1, <1>4, <1>6, <1>12, <2>2, <3>1, Operation
  <2> QED BY <2>3, <2>4
<1> QED BY <1>0, <1>2, <1>8, <1>9, <1>10, <1>11, <1>12 DEF CommitEffect

-----------------------------------------------------------------------------
(* The theorems about what the documents mean.                             *)

\* Both invariants of the columns hold in every reachable state.
THEOREM Meaningful == Spec => [](IInv /\ SInv)
<1>1. Init => IInv /\ SInv
  BY InitInv, InitMeans
<1>2. IInv /\ SInv /\ [Next]_vars => IInv' /\ SInv'
  BY NextInv, NextMeans
<1> QED BY <1>1, <1>2, PTL DEF Spec

\* A tenant is told of, re-chunks and deletes its own documents only: every
\* answer was given to a caller the endpoint had checked.
THEOREM OwnDocumentsOnly == Spec => []TenantIsolation
<1>1. SInv => TenantIsolation
  BY DEF SInv, Means, Permitted, Touching, TenantIsolation
<1> QED BY <1>1, Meaningful, PTL

\* Nobody ever reads an unfinished status, whichever requests overlap.
THEOREM SettledOnly == Spec => []OnlySettledVisible
<1>1. SInv => OnlySettledVisible
  BY DEF SInv, RowsMean, RowMeans, RowsOf, OnlySettledVisible
<1> QED BY <1>1, Meaningful, PTL

\* A version reported EMBEDDED can be searched.
THEOREM Searchable == Spec => []EmbeddedMeansSearchable
<1>1. SInv => EmbeddedMeansSearchable
  BY DEF SInv, RowsMean, RowMeans, EmbeddedMeansSearchable, Present
<1> QED BY <1>1, Meaningful, PTL

LEMMA StaysEmbedded ==
  ASSUME IInv, SInv, [Next]_vars, NEW d \in Requests, row[d].status = "EMBEDDED", Present(d)'
  PROVE  row'[d].status = "EMBEDDED" /\ chunks'[d] # {}
<1>1. Present(d) /\ RowMeans(d) /\ chunks[d] # {} /\ req[d].shape = "text"
  BY DEF Present, SInv, RowsMean, RowMeans
<1>2. CASE UNCHANGED db
  BY <1>1, <1>2 DEF db
<1>3. ASSUME NEW r \in Requests, CommitSession(r), d = req[r].doc
      PROVE  row'[d].status = "EMBEDDED" /\ chunks'[d] # {}
  <2>1. CommitEffect(r) /\ row[d] # Absent
    BY <1>1, <1>3, CommitChanges, RowsOnRecord DEF Present
  <2>2. row'[d] # Absent
    BY RowsOnRecord DEF Present
  <2> QED BY <1>1, <1>3, <2>1, <2>2, RowsOnRecord DEF CommitEffect
<1>4. ASSUME NEW r \in Requests, CommitSession(r), d # req[r].doc
      PROVE  row'[d].status = "EMBEDDED" /\ chunks'[d] # {}
  BY <1>1, <1>4, Committing
<1> QED BY <1>2, <1>3, <1>4, OnlyCommitsWrite

\* Only a delete makes a searchable document unsearchable: what is EMBEDDED is
\* re-embedded or left.
THEOREM NoRegression == Spec => EmbeddedNeverRegresses
<1>1. IInv /\ SInv /\ [Next]_vars =>
        [\A d \in Requests : row[d].status = "EMBEDDED" /\ Present(d)' =>
           row'[d].status = "EMBEDDED" /\ chunks'[d] # {}]_vars
  BY StaysEmbedded
<1> QED BY <1>1, Meaningful, PTL DEF Spec, EmbeddedNeverRegresses

\* The file of a document on record goes only with its deletion.
THEOREM FilesAreKept == Spec => []FileKept
<1>1. Spec => []FInv
  <2>1. IInv /\ SInv /\ FInv /\ [Next]_vars => FInv'
    BY NextFiles
  <2>2. FInv /\ UNCHANGED vars => FInv'
    BY DEF FInv, UploadHasFile, FileKept, Present, MayTouch, vars
  <2> QED BY <2>1, InitFiles, Meaningful, PTL DEF Spec
<1>2. FInv => FileKept
  BY DEF FInv
<1> QED BY <1>1, <1>2, PTL

\* The requests, interleaved, aborted or cut off as they may be, implement the
\* catalogue of documents their clients are promised.
THEOREM ImplementsCatalogue == Spec => CatalogueSpec
<1>1. Init => Catalogue!CInit
  <2> SUFFICES ASSUME Init PROVE Catalogue!CInit
    OBVIOUS
  <2>1. \A d \in Requests : CatalogueState(d) = "new"
    BY DEF Init, CatalogueState, Known, Absent, Idle
  <2> QED BY <2>1 DEF Init, Catalogue!CInit
<1>2. IInv /\ SInv /\ [Next]_vars => [Catalogue!CNext]_(Catalogue!cvars)
  <2> SUFFICES ASSUME IInv, SInv, [Next]_vars PROVE [Catalogue!CNext]_(Catalogue!cvars)
    OBVIOUS
  <2>1. (StateOf' = StateOf /\ chunks' = chunks) \/ Catalogue!CNext
    <3>1. CASE \E r \in Requests : CommitSession(r)
      BY <3>1, CommitRefines
    <3>2. CASE \A r \in Requests : ~CommitSession(r)
      BY <3>2, QuietStep, OnlyCommitsWrite
    <3> QED BY <3>1, <3>2
  <2> QED BY <2>1 DEF StateOf, Catalogue!cvars
<1> QED BY <1>1, <1>2, Meaningful, PTL DEF Spec, CatalogueSpec, Catalogue!CSpec

-----------------------------------------------------------------------------
(* The readers: what the writers leave a client that reads.                *)

\* A document that is known stays, or goes for good; while it is there, it is
\* the same tenant's, and EMBEDDED if it was.
LEMMA StaysOrGoes ==
  ASSUME IInv, SInv, [Next]_vars, NEW d \in Requests, Known(d)
  PROVE  /\ Known(d)' /\ req'[d].tenant = req[d].tenant
         /\ Present(d)' => Present(d)
         /\ row[d].status = "EMBEDDED" /\ Present(d)' => row'[d].status = "EMBEDDED"
<1>1. Known(d)' /\ req'[d].tenant = req[d].tenant
  BY KnownStep, SameRequest DEF Known
<1>2. ASSUME ~Present(d) PROVE ~Present(d)'
  <2>1. CASE UNCHANGED db
    BY <1>2, <2>1 DEF db, Present
  <2>2. ASSUME NEW r \in Requests, CommitSession(r), d = req[r].doc PROVE ~Present(d)'
    <3>1. CommitEffect(r) /\ d # r
      BY <2>2, CommitChanges DEF Known, CommitSession
    <3> QED BY <1>2, <2>2, <3>1 DEF CommitEffect, Present, Absent
  <2>3. ASSUME NEW r \in Requests, CommitSession(r), d # req[r].doc PROVE ~Present(d)'
    BY <1>2, <2>3, Committing DEF Present
  <2> QED BY <2>1, <2>2, <2>3, OnlyCommitsWrite
<1> QED BY <1>1, <1>2, StaysEmbedded

\* What is on record is known: its upload has been answered.
LEMMA PresentKnown == ASSUME IInv, NEW d \in Requests, Present(d) PROVE Known(d)
BY DEF IInv, OnlyKnownStored, Present, Absent

-----------------------------------------------------------------------------
(* created_at.                                                             *)

BeforeInsert == {"idle", "save", "create"}
AfterRows    == {"job", "parse", "finish"}

Inserts(r) == req[r].pc = "create" /\ req'[r].pc = "job"

\* A request writes its rows once, on the way from create to job.
LEMMA InsertsOnce ==
  ASSUME IInv, Next, NEW r \in Requests
  PROVE  /\ req'[r].pc \in BeforeInsert => req[r].pc \in BeforeInsert
         /\ req'[r].pc \in AfterRows \/ req'[r].out = "created" =>
              req[r].pc \in AfterRows \/ req[r].out = "created" \/ Inserts(r)
         /\ \A q \in Requests : Inserts(q) /\ Inserts(r) => q = r
<1>1. req[r] \in ReqType /\ DOMAIN req = Requests
  BY DEF IInv, TypeOK
<1> DEFINE Once == /\ req'[r].pc \in BeforeInsert => req[r].pc \in BeforeInsert
                   /\ req'[r].pc \in AfterRows \/ req'[r].out = "created" =>
                        req[r].pc \in AfterRows \/ req[r].out = "created" \/ Inserts(r)
<1>2. CASE Restart
  <2>1. (req'[r].pc = "done" /\ req'[r].out = "crashed") \/ req'[r] = req[r]
    BY <1>1, <1>2 DEF Restart, ReqType
  <2>2. \A q \in Requests : req'[q].pc \in {"done", req[q].pc}
    BY <1>2 DEF Restart, IInv, TypeOK, ReqType
  <2> QED BY <2>1, <2>2 DEF BeforeInsert, AfterRows, Inserts
<1>3. ASSUME NEW s \in Requests, Begin(s) \/ Serve(s) \/ Fail(s)
      PROVE  /\ r # s => Once
             /\ \A q \in Requests : Inserts(q) /\ Inserts(r) => q = r
  <2>1. \A q \in Requests \ {s} : req'[q] = req[q]
    BY <1>3, OthersStay
  <2>2. \A q \in Requests \ {s} : ~Inserts(q)
    BY <2>1 DEF Inserts
  <2> QED BY <2>1, <2>2
<1>4. ASSUME Begin(r) PROVE Once
  BY <1>4, Begins DEF BeforeInsert, AfterRows
<1>5. ASSUME Upload(r) PROVE Once
  <2>1. CASE ResolveDuplicate(r) \/ SaveFile(r)
    BY <2>1, Moves DEF ResolveDuplicate, SaveFile, BeforeInsert, AfterRows
  <2>2. CASE CreateDocument(r) \/ CreateJob(r)
    BY <2>2, Moves DEF CreateDocument, CreateJob, BeforeInsert, AfterRows, Inserts
  <2>3. CASE Parse(r)
    <3>1. PICK s \in Shapes : req' = [req EXCEPT ![r] = [req[r] EXCEPT !.pc = "finish", !.shape = s]]
      BY <2>3 DEF Parse
    <3>2. req'[r].pc = "finish" /\ req'[r].out = req[r].out
      BY <1>1, <3>1 DEF ReqType
    <3> QED BY <2>3, <3>2 DEF Parse, BeforeInsert, AfterRows
  <2>4. CASE FailIngestion(r) \/ FinishIngestion(r)
    BY <2>4, Moves DEF FailIngestion, FinishIngestion, BeforeInsert, AfterRows
  <2> QED BY <1>5, <2>1, <2>2, <2>3, <2>4 DEF Upload
<1>6. ASSUME Process(r) PROVE Once
  <2>1. CASE EmbedDocuments(r) \/ UpsertVectors(r) \/ UpdateReferences(r) \/ FailEmbedding(r)
    BY <2>1, Moves DEF EmbedDocuments, UpsertVectors, UpdateReferences, FailEmbedding,
                       BeforeInsert, AfterRows
  <2>2. CASE ChunkVersion(r) \/ PurgeChunks(r) \/ InsertChunks(r)
    BY <2>2, Moves DEF ChunkVersion, PurgeChunks, InsertChunks, BeforeInsert, AfterRows
  <2>3. CASE MarkChunked(r) \/ ReportChunked(r) \/ FetchChunks(r)
    BY <2>3, Moves DEF MarkChunked, ReportChunked, FetchChunks, BeforeInsert, AfterRows
  <2> QED BY <1>6, <2>1, <2>2, <2>3 DEF Process
<1>7. ASSUME Delete(r) PROVE Once
  BY <1>7, Moves DEF Delete, RemoveFile, SelectRows, DeleteChunkRows, DeleteJobRow, LockVersion,
                     Cascade, BeforeInsert, AfterRows
<1>8. ASSUME CommitSession(r) \/ RollbackSession(r) \/ Fail(r) PROVE Once
  BY <1>8, Moves DEF CommitSession, RollbackSession, Fail, BeforeInsert, AfterRows
<1>9. ASSUME NEW s \in Requests, Begin(s) \/ Serve(s) \/ Fail(s) PROVE Once
  BY <1>3, <1>4, <1>5, <1>6, <1>7, <1>8, <1>9 DEF Serve
<1> QED BY <1>2, <1>3, <1>9 DEF Next

\* The order of creation only grows, at its end.
Extends == /\ Len(born) <= Len(born')
           /\ \A i \in 1..Len(born) : born'[i] = born[i]

LEMMA BornStep ==
  ASSUME IInv, born \in Seq(Requests), BornInv, Writing
  PROVE  born' \in Seq(Requests) /\ BornInv' /\ Extends
<1>1. Next
  BY DEF Writing
<1>2. CASE \A r \in Requests : ~Inserts(r)
  <2>1. born' = born
    BY <1>2 DEF Writing, Inserts
  <2>2. \A r \in Requests : Inserted(r)' <=> Inserted(r)
    BY <2>1 DEF Inserted
  <2>3. Extends
    BY <2>1 DEF Extends
  <2>4. \A i, j \in 1..Len(born') : born'[i] = born'[j] => i = j
    BY <2>1 DEF BornInv
  <2> QED BY <1>1, <1>2, <2>1, <2>2, <2>3, <2>4, InsertsOnce DEF BornInv, BeforeInsert, AfterRows
<1>3. ASSUME NEW c \in Requests, Inserts(c)
      PROVE  born' \in Seq(Requests) /\ BornInv' /\ Extends
  <2>1. \A q \in Requests : Inserts(q) => q = c
    BY <1>1, <1>3, InsertsOnce
  <2>2. born' = Append(born, c)
    <3>1. c = CHOOSE r \in Requests : req[r].pc = "create" /\ req'[r].pc = "job"
      BY <1>3, <2>1 DEF Inserts
    <3> QED BY <1>3, <3>1 DEF Writing, Inserts
  <2>3. /\ born' \in Seq(Requests) /\ Len(born') = Len(born) + 1 /\ Len(born) \in Nat
        /\ \A i \in 1..Len(born) : born'[i] = born[i]
        /\ born'[Len(born) + 1] = c
    BY <2>2
  <2>4. \A r \in Requests : Inserted(r)' <=> Inserted(r) \/ r = c
    <3>1. ASSUME NEW r \in Requests, NEW i \in 1..Len(born'), born'[i] = r
          PROVE  Inserted(r) \/ r = c
      BY <2>3, <3>1 DEF Inserted
    <3>2. ASSUME NEW r \in Requests, NEW i \in 1..Len(born), born[i] = r
          PROVE  i \in 1..Len(born') /\ born'[i] = r
      BY <2>3, <3>2
    <3>3. Len(born) + 1 \in 1..Len(born')
      BY <2>3
    <3> QED BY <2>3, <3>1, <3>2, <3>3 DEF Inserted
  <2>5. ~Inserted(c)
    BY <1>3 DEF BornInv, Inserts
  <2>6. \A i, j \in 1..Len(born') : born'[i] = born'[j] => i = j
    <3>1. SUFFICES ASSUME NEW i \in 1..Len(born'), NEW j \in 1..Len(born'), born'[i] = born'[j]
                   PROVE  i = j
      OBVIOUS
    <3>2. \A k \in 1..Len(born') : k \in 1..Len(born) \/ k = Len(born) + 1
      BY <2>3
    <3>3. \A k \in 1..Len(born) : born'[k] # c
      BY <2>3, <2>5 DEF Inserted
    <3>4. CASE i \in 1..Len(born) /\ j \in 1..Len(born)
      BY <2>3, <3>1, <3>4 DEF BornInv
    <3> QED BY <2>3, <3>1, <3>2, <3>3, <3>4
  <2>7. Extends
    BY <2>3 DEF Extends
  <2>8. \A r \in Requests : req'[r].pc \in BeforeInsert => ~Inserted(r)'
    BY <1>1, <1>3, <2>4, InsertsOnce DEF BornInv, BeforeInsert, Inserts
  <2>9. \A r \in Requests : req'[r].pc \in AfterRows \/ req'[r].out = "created" => Inserted(r)'
    BY <1>1, <2>1, <2>4, InsertsOnce DEF BornInv, AfterRows
  <2> QED BY <2>3, <2>6, <2>7, <2>8, <2>9 DEF BornInv, BeforeInsert, AfterRows
<1> QED BY <1>2, <1>3

-----------------------------------------------------------------------------
(* The pages.                                                              *)

LEMMA FiniteRange ==
  ASSUME NEW S, NEW s \in Seq(S), NEW T, \A x \in T : \E i \in 1..Len(s) : s[i] = x
  PROVE  IsFiniteSet(T)
<1> DEFINE n == Len(s)
           U == {s[i] : i \in 1..n}
           f == [i \in 1..n |-> s[i]]
<1>1. n \in Nat
  OBVIOUS
<1>2. IsFiniteSet(1..n)
  BY <1>1, FS_Interval
<1>3. f \in Surjection(1..n, U)
  BY DEF Surjection
<1>4. IsFiniteSet(U)
  <2> HIDE DEF U, f, n
  <2> QED BY <1>2, <1>3, FS_Surjection
<1>5. T \in SUBSET U
  OBVIOUS
<1> HIDE DEF U
<1> QED BY <1>4, <1>5, FS_Subset

\* created_at descending, on the documents of S: a set of pairs.
ByCreation(S) == {p \in S \X S : p[1] \in Newer(p[2])}

\* It orders what is on record, whose number is finite.
LEMMA RecordOrder ==
  ASSUME IInv, ReaderTypeOK, BornInv, NEW scope
  PROVE  LET S == OnRecord(scope) IN
         /\ IsFiniteSet(S) /\ IsTotalOrder(S, ByCreation(S))
         /\ \A d \in S : AheadOf(S, ByCreation(S), d) = Newer(d) \cap S
<1> DEFINE S == OnRecord(scope)
           R == ByCreation(S)
           N == 1..Len(born)
<1>1. \A d \in S : d \in Requests /\ \E i \in N : born[i] = d
  BY PresentKnown DEF OnRecord, Known, BornInv, Inserted
<1>2. IsFiniteSet(S)
  BY <1>1, FiniteRange DEF ReaderTypeOK
<1>3. \A x, y \in S : <<x, y>> \in R <=> \E i, j \in N : i < j /\ born[i] = y /\ born[j] = x
  BY <1>1 DEF ByCreation, Newer
<1>4. \A i, j \in N : born[i] = born[j] => i = j
  BY DEF BornInv
<1>5. \A d \in S : AheadOf(S, R, d) = Newer(d) \cap S
  BY DEF AheadOf, ByCreation
<1>6. IsTotalOrder(S, R)
  <2> HIDE DEF S, R
  <2>0. N \subseteq Int
    OBVIOUS
  <2>1. ASSUME NEW x \in S PROVE <<x, x>> \notin R
    BY <1>3, <1>4, <2>0
  <2>2. ASSUME NEW x \in S, NEW y \in S, x # y PROVE <<x, y>> \in R \/ <<y, x>> \in R
    <3>1. PICK i \in N, j \in N : born[i] = x /\ born[j] = y
      BY <1>1
    <3>2. i < j \/ j < i
      BY <2>0, <2>2, <3>1
    <3> QED BY <1>3, <3>1, <3>2
  <2>3. ASSUME NEW x \in S, NEW y \in S, NEW z \in S, <<x, y>> \in R, <<y, z>> \in R
        PROVE  <<x, z>> \in R
    <3>1. PICK i \in N, j \in N : i < j /\ born[i] = y /\ born[j] = x
      BY <1>3, <2>3
    <3>2. PICK k \in N, l \in N : k < l /\ born[k] = z /\ born[l] = y
      BY <1>3, <2>3
    <3>3. l = i
      BY <1>4, <3>1, <3>2
    <3>4. k < j
      BY <2>0, <3>1, <3>2, <3>3
    <3> QED BY <1>3, <3>1, <3>2, <3>4
  <2> QED BY <2>1, <2>2, <2>3 DEF IsTotalOrder
<1> QED BY <1>2, <1>5, <1>6

\* The places of a finite total order that lie in an interval are all taken.
LEMMA IntervalTaken ==
  ASSUME NEW S, NEW R, IsFiniteSet(S), IsTotalOrder(S, R),
         NEW a \in Nat, NEW b \in Nat, a <= b, NEW d \in S, Cardinality(AheadOf(S, R, d)) >= b
  PROVE  Cardinality({x \in S : Cardinality(AheadOf(S, R, x)) \in a..(b - 1)}) = b - a
<1> DEFINE n == Cardinality(S)
           f == AheadCount(S, R)
           P == {x \in S : f[x] \in a..(b - 1)}
           g == [x \in P |-> f[x]]
<1>1. n \in Nat /\ f \in Bijection(S, 0..(n - 1))
  BY PlacesTaken
<1>2. \A x \in S : f[x] = Cardinality(AheadOf(S, R, x))
  BY DEF AheadCount
<1>3. P = {x \in S : Cardinality(AheadOf(S, R, x)) \in a..(b - 1)}
  BY <1>2
<1> HIDE DEF f, n
<1>4. f \in [S -> 0..(n - 1)] /\ (\A x, y \in S : f[x] = f[y] => x = y)
      /\ \A k \in 0..(n - 1) : \E x \in S : f[x] = k
  BY <1>1 DEF Bijection, Injection, Surjection, IsInjective
<1>5. b <= n - 1
  <2>1. f[d] >= b /\ f[d] \in 0..(n - 1)
    BY <1>2, <1>4
  <2> QED BY <1>1, <2>1
<1>6. ASSUME NEW k \in a..(b - 1) PROVE \E x \in P : f[x] = k
  <2>1. k \in 0..(n - 1)
    BY <1>1, <1>5
  <2> QED BY <1>4, <2>1
<1>7. g \in Bijection(P, a..(b - 1))
  <2>1. g \in [P -> a..(b - 1)]
    OBVIOUS
  <2>2. \A x, y \in P : g[x] = g[y] => x = y
    BY <1>4
  <2>3. \A k \in a..(b - 1) : \E x \in P : g[x] = k
    BY <1>6
  <2> HIDE DEF g, P
  <2> QED BY <2>1, <2>2, <2>3 DEF Bijection, Injection, Surjection, IsInjective
<1>8. IsFiniteSet(P)
  <2>1. P \in SUBSET S
    OBVIOUS
  <2> HIDE DEF P
  <2> QED BY <2>1, FS_Subset
<1>9. Cardinality(a..(b - 1)) = Cardinality(P)
  <2> HIDE DEF g, P
  <2>1. ExistsBijection(P, a..(b - 1))
    BY <1>7 DEF ExistsBijection
  <2> QED BY <1>8, <2>1, FS_Bijection
<1>10. Cardinality(a..(b - 1)) = b - a
  <2>1. a \in Int /\ b - 1 \in Int
    OBVIOUS
  <2>2. Cardinality(a..(b - 1)) = IF a > b - 1 THEN 0 ELSE (b - 1) - a + 1
    BY <2>1, FS_Interval
  <2> QED BY <2>2
<1> QED BY <1>3, <1>9, <1>10

\* A page that leaves something behind, for a later one, is full.
LEMMA FullPage ==
  ASSUME IInv, ReaderTypeOK, BornInv, NEW scope, NEW page \in Nat, page >= 1,
         NEW d \in OnRecord(scope), Place(d, scope) >= page * PageSize
  PROVE  Cardinality(Page(scope, page)) = PageSize
<1> DEFINE S == OnRecord(scope)
           R == ByCreation(S)
           a == (page - 1) * PageSize
           b == page * PageSize
<1>1. /\ IsFiniteSet(S) /\ IsTotalOrder(S, R)
      /\ \A x \in S : AheadOf(S, R, x) = Newer(x) \cap S
  BY RecordOrder
<1>2. PageSize \in Nat
  BY ReaderConstants
<1>3. a \in Nat /\ b \in Nat /\ b = a + PageSize
  BY <1>2
<1>4. Page(scope, page) = {x \in S : Cardinality(AheadOf(S, R, x)) \in a..(b - 1)}
  BY <1>1 DEF Page, Place
<1>5. Cardinality(AheadOf(S, R, d)) >= b
  BY <1>1 DEF Place
<1> HIDE DEF S, R, a, b
<1>6. d \in S
  BY DEF S
<1>7. a <= b
  BY <1>2, <1>3
<1>8. Cardinality(Page(scope, page)) = b - a
  BY <1>1, <1>3, <1>4, <1>5, <1>6, <1>7, IntervalTaken
<1> QED BY <1>2, <1>3, <1>8

-----------------------------------------------------------------------------
(* What a step of a writer may do to those who read.                       *)

\* A commit is about one document, so that at most one goes.
LEMMA OneGoes ==
  ASSUME IInv, [Next]_vars
  PROVE  \E z : \A d \in Requests \ {z} : Present(d) => Present(d)'
<1>1. CASE UNCHANGED db
  BY <1>1 DEF db, Present
<1>2. ASSUME NEW r \in Requests, CommitSession(r)
      PROVE  \E z : \A d \in Requests \ {z} : Present(d) => Present(d)'
  <2>1. PICK z : z = req[r].doc
    OBVIOUS
  <2>2. \A d \in Requests \ {z} : row'[d] = row[d]
    BY <1>2, <2>1, Committing
  <2> QED BY <2>2 DEF Present
<1> QED BY <1>1, <1>2, OnlyCommitsWrite

\* A request that is done stays what it is.
LEMMA DoneStays ==
  ASSUME IInv, [Next]_vars, NEW q \in Requests, req[q].pc = "done"
  PROVE  req'[q] = req[q]
<1>1. DOMAIN req = Requests
  BY DEF IInv, TypeOK
<1>2. CASE Restart
  BY <1>1, <1>2 DEF Restart, Active
<1>3. ~Begin(q) /\ ~Upload(q) /\ ~Process(q) /\ ~Delete(q) /\ ~Fail(q)
  BY Begins, GoesOn DEF Working, UploadPc, ProcessPc, DeletePc
<1>4. ~CommitSession(q) /\ ~RollbackSession(q)
  BY DEF CommitSession, RollbackSession
<1>5. CASE UNCHANGED vars
  BY <1>5 DEF vars
<1> QED BY <1>2, <1>3, <1>4, <1>5, OthersStay DEF Next, Serve

\* A request that ends with an answer ends with its commit.
LEMMA EndsWithCommit ==
  ASSUME IInv, SInv, [Next]_vars, NEW q \in Requests, req[q].pc # "done", req'[q].pc = "done",
         req'[q].out \in {"processed", "no_text"}
  PROVE  CommitSession(q)
<1>1. req[q] \in ReqType /\ DOMAIN req = Requests
  BY DEF IInv, TypeOK
<1>2. CASE Restart
  BY <1>1, <1>2 DEF Restart, ReqType
<1>3. req'[q] # req[q]
  OBVIOUS
<1>4. ~Begin(q) /\ ~Upload(q) /\ ~Process(q) /\ ~Delete(q) /\ ~Fail(q)
  BY Begins, GoesOn
<1>5. ASSUME RollbackSession(q) PROVE FALSE
  <2>1. req[q].pc = "unwind" /\ req'[q].out = req[q].out
    BY <1>5, Moves DEF RollbackSession
  <2>2. Parsed(q, req[q].pc, req[q].out, tx[q])
    BY DEF SInv, Means
  <2> QED BY <2>1, <2>2 DEF Parsed
<1>6. CASE UNCHANGED vars
  BY <1>3, <1>6 DEF vars
<1> QED BY <1>2, <1>3, <1>4, <1>5, <1>6, OthersStay DEF Next, Serve

\* The commit of a processing writes the status its answer speaks of.
LEMMA CommitTells ==
  ASSUME IInv, SInv, NEW r \in Requests, CommitSession(r), req[r].kind = "process"
  PROVE  /\ req[r].out = "processed" => row'[req[r].doc].status = "EMBEDDED"
         /\ req[r].out = "no_text" => req[req[r].doc].shape # "text"
<1>1. /\ req[r].pc = "commit" /\ Parsed(r, "commit", req[r].out, tx[r])
      /\ IndexesText(r, "commit", tx[r])
  BY DEF CommitSession, SInv, Means
<1>2. row'[req[r].doc].status = IF "version" \in tx[r].did THEN tx[r].status
                                ELSE row[req[r].doc].status
  BY Committing
<1> QED BY <1>1, <1>2 DEF Parsed, IndexesText, AfterInsert

LEMMA AnswersStay == ASSUME IInv, SInv, AnswersInv, [Next]_vars PROVE AnswersInv'
<1>1. SUFFICES ASSUME NEW r \in Requests, req'[r].kind = "process", req'[r].pc = "done"
               PROVE  LET d == req'[r].doc IN
                      /\ req'[r].out = "processed" /\ row'[d].status # "ABSENT" =>
                           row'[d].status = "EMBEDDED"
                      /\ req'[r].out = "no_text" => req'[d].shape # "text"
  BY DEF AnswersInv, Present
<1>2. CASE req[r].pc = "done"
  <2>1. req'[r] = req[r]
    BY <1>2, DoneStays
  <2>2. PICK d : d = req[r].doc
    OBVIOUS
  <2>3. d \in Requests /\ Known(d)
    BY <1>1, <2>1, <2>2, Meaning
  <2>4. req'[d] = req[d]
    BY <2>3, DoneStays DEF Known
  <2>5. /\ Present(d)' => Present(d)
        /\ row[d].status = "EMBEDDED" /\ Present(d)' => row'[d].status = "EMBEDDED"
    BY <2>3, StaysOrGoes
  <2>6. /\ req[r].out = "processed" /\ Present(d) => row[d].status = "EMBEDDED"
        /\ req[r].out = "no_text" => req[d].shape # "text"
    BY <1>1, <1>2, <2>1, <2>2 DEF AnswersInv
  <2> QED BY <2>1, <2>2, <2>4, <2>5, <2>6 DEF Present
<1>3. CASE req[r].pc # "done" /\ req'[r].out \in {"processed", "no_text"}
  <2>1. CommitSession(r)
    BY <1>1, <1>3, EndsWithCommit
  <2>2. PICK d : d = req[r].doc
    OBVIOUS
  <2>3. req'[r].doc = d /\ req'[r].out = req[r].out /\ req[r].kind = "process"
    BY <1>1, <2>1, <2>2, Committing
  <2>4. d \in Requests \ {r} /\ Known(d)
    BY <2>2, <2>3, Meaning
  <2>5. req'[d] = req[d]
    BY <2>4, DoneStays DEF Known
  <2> QED BY <2>1, <2>2, <2>3, <2>5, CommitTells
<1> QED BY <1>2, <1>3

\* Finitely many documents are known, so every set of them is finite.
LEMMA KnownFinite ==
  ASSUME ReaderTypeOK, BornInv, NEW T \in SUBSET Requests, \A x \in T : Known(x)
  PROVE  IsFiniteSet(T)
<1>1. \A x \in T : \E i \in 1..Len(born) : born[i] = x
  BY DEF Known, BornInv, Inserted
<1> QED BY <1>1, FiniteRange DEF ReaderTypeOK

\* Sets of documents, one within the other or with one more member.
LEMMA Counts ==
  ASSUME NEW S, IsFiniteSet(S), NEW T, NEW n \in Nat, Cardinality(S) <= n
  PROVE  /\ T \subseteq S => Cardinality(T) <= n
         /\ \A z : T \subseteq S \cup {z} => Cardinality(T) <= n + 1
<1>1. ASSUME T \subseteq S PROVE Cardinality(T) <= n
  <2>1. /\ Cardinality(T) <= Cardinality(S)
        /\ Cardinality(T) \in Nat /\ Cardinality(S) \in Nat
    BY <1>1, FS_Subset, FS_CardinalityType
  <2> QED BY <2>1
<1>2. ASSUME NEW z, T \subseteq S \cup {z} PROVE Cardinality(T) <= n + 1
  <2> DEFINE U == S \cup {z}
  <2>1. IsFiniteSet(U) /\ Cardinality(U) <= Cardinality(S) + 1
    <3>1. Cardinality(S) \in Nat
      BY FS_CardinalityType
    <3>2. /\ IsFiniteSet(U)
          /\ Cardinality(U) = IF z \in S THEN Cardinality(S) ELSE Cardinality(S) + 1
      BY FS_AddElement
    <3> HIDE DEF U
    <3> QED BY <3>1, <3>2
  <2>2. T \in SUBSET U
    BY <1>2
  <2> HIDE DEF U
  <2>3. /\ Cardinality(T) <= Cardinality(U)
        /\ Cardinality(T) \in Nat /\ Cardinality(U) \in Nat /\ Cardinality(S) \in Nat
    BY <2>1, <2>2, FS_Subset, FS_CardinalityType
  <2> QED BY <2>1, <2>3
<1> QED BY <1>1, <1>2

\* The places of the documents on record are numbers, no two of them the same,
\* and grow with age.
LEMMA Places ==
  ASSUME IInv, ReaderTypeOK, BornInv, NEW scope, NEW d \in OnRecord(scope)
  PROVE  /\ IsFiniteSet(OnRecord(scope)) /\ Place(d, scope) \in Nat
         /\ \A e \in OnRecord(scope) :
              /\ Place(e, scope) = Place(d, scope) => e = d
              /\ e \in Newer(d) => Place(e, scope) < Place(d, scope)
<1> DEFINE S == OnRecord(scope)
           R == ByCreation(S)
<1>1. /\ IsFiniteSet(S) /\ IsTotalOrder(S, R)
      /\ \A x \in S : AheadOf(S, R, x) = Newer(x) \cap S
  BY RecordOrder
<1>2. \A x \in S : Place(x, scope) = Cardinality(AheadOf(S, R, x))
  BY <1>1 DEF Place
<1>3. \A e \in S : e \in Newer(d) => <<e, d>> \in R
  BY DEF ByCreation
<1>4. Place(d, scope) \in Nat
  <2>1. Newer(d) \cap OnRecord(scope) \in SUBSET OnRecord(scope)
    OBVIOUS
  <2> QED BY <1>1, <2>1, FS_Subset, FS_CardinalityType DEF Place
<1> HIDE DEF S, R
<1>5. d \in S
  BY DEF S
<1>6. ASSUME NEW e \in S, e \in Newer(d) PROVE Place(e, scope) < Place(d, scope)
  <2>1. <<e, d>> \in R
    BY <1>3, <1>6
  <2>2. Cardinality(AheadOf(S, R, e)) < Cardinality(AheadOf(S, R, d))
    BY <1>1, <1>5, <2>1, MoreAhead
  <2> QED BY <1>2, <1>5, <2>2
<1>7. ASSUME NEW e \in S, Place(e, scope) = Place(d, scope) PROVE e = d
  <2>1. PICK k \in Nat : k = Place(d, scope)
    BY <1>4
  <2>2. ~(<<e, d>> \in R) /\ ~(<<d, e>> \in R)
    <3>1. Cardinality(AheadOf(S, R, e)) = k /\ Cardinality(AheadOf(S, R, d)) = k
      BY <1>2, <1>5, <1>7, <2>1
    <3> QED BY <1>1, <1>5, <3>1, MoreAhead
  <2> QED BY <1>1, <1>5, <2>2 DEF IsTotalOrder
<1> QED BY <1>1, <1>4, <1>6, <1>7 DEF S

-----------------------------------------------------------------------------
(* The steps.                                                              *)

\* The next request of the client, or none: it only remembers who it is and
\* what it was told.
LEMMA RequestIs ==
  ASSUME ReaderTypeOK, NEW caller \in Callers \cup {Nil},
         NEW pc \in AskingPc \cup {"idle", "list", "walked"}
  PROVE  Request(caller, pc) =
           [caller |-> caller, scope |-> Nil, doc |-> Nil, pc |-> pc, page |-> 0, missing |-> {},
            shifted |-> 0, batches |-> {}, embedded |-> reader.embedded]
<1> DEFINE blank == [caller |-> Nil, scope |-> Nil, doc |-> Nil, pc |-> "idle", page |-> 0,
                     missing |-> {}, shifted |-> 0, batches |-> {}, embedded |-> {}]
<1>1. Nobody = blank
  BY DEF Nobody
<1>2. Request(caller, pc) = [blank EXCEPT !.caller = caller, !.pc = pc, !.embedded = reader.embedded]
  BY <1>1 DEF Request
<1> QED BY <1>2

\* What a walk has not seen is on record, and counted.
LEMMA UnseenOnRecord ==
  ASSUME IInv, ReaderInv
  PROVE  /\ IsFiniteSet(Unseen) /\ IsFiniteSet(Passed)
         /\ reader.pc = "list" => Unseen \subseteq OnRecord(reader.scope)
<1>1. reader.missing \subseteq Requests /\ \A d \in reader.missing : Known(d)
  BY DEF ReaderInv, ReaderTypeOK, ReaderType, AskedInv
<1>2. IsFiniteSet(Unseen)
  BY <1>1, KnownFinite DEF ReaderInv, Unseen
<1>3. IsFiniteSet(Passed)
  <2>1. Passed \in SUBSET Unseen
    BY DEF Passed
  <2> QED BY <1>2, <2>1, FS_Subset
<1> QED BY <1>1, <1>2, <1>3 DEF ReaderInv, WalkInv, Unseen, OnRecord

\* What has newly been passed was the first of the next page, and only a
\* deletion from the pages already read can bring it there.
LEMMA NewlyPassed ==
  ASSUME IInv, SInv, ReaderInv, Writing, reader.pc = "list", NEW d \in Passed', d \notin Passed
  PROVE  Shifts /\ d \in OnRecord(reader.scope) /\ Place(d, reader.scope) = Floor
<1> DEFINE scope == reader.scope
           Old == OnRecord(scope)
           New == OnRecord(scope)'
           A == Newer(d) \cap Old
           B == (Newer(d) \cap OnRecord(scope))'
<1>1. [Next]_vars /\ born' \in Seq(Requests) /\ BornInv' /\ Extends
  BY BornStep DEF Writing, ReaderInv, ReaderTypeOK
<1>2. /\ reader.missing \subseteq Requests /\ scope \in Callers /\ reader.page \in Nat
      /\ \A x \in reader.missing : Known(x) /\ InScope(x, scope)
  BY DEF ReaderInv, ReaderTypeOK, ReaderType, AskedInv, WalkInv
<1>3. /\ reader'.missing = reader.missing /\ reader'.page = reader.page /\ reader'.scope = scope
      /\ Floor' = Floor
  BY DEF Writing, Floor, ReaderInv, ReaderTypeOK, ReaderType
<1>4. Floor \in Int
  BY <1>2, ReaderConstants DEF Floor
<1>5. d \in Requests /\ d \in reader.missing /\ Present(d)' /\ Place(d, scope)' < Floor
  BY <1>2, <1>3 DEF Passed, Unseen
<1>6. d \in Old /\ Place(d, scope) >= Floor /\ Place(d, scope) \in Nat
  <2>1. Present(d)
    BY <1>1, <1>2, <1>5, StaysOrGoes
  <2>2. d \in Old
    BY <1>2, <1>5, <2>1 DEF OnRecord
  <2>3. Place(d, scope) \in Nat
    BY <2>2, Places DEF ReaderInv
  <2>4. ~(Place(d, scope) < Floor)
    BY <1>5, <2>1 DEF Passed, Unseen
  <2> QED BY <1>4, <2>2, <2>3, <2>4
<1>7. PICK z : \A x \in Requests \ {z} : Present(x) => Present(x)'
  BY <1>1, OneGoes
<1>8. ASSUME NEW x \in Old, x # z PROVE x \in New
  <2>1. x \in Requests /\ Present(x) /\ InScope(x, scope) /\ Known(x)
    BY PresentKnown DEF OnRecord
  <2>2. Present(x)' /\ req'[x].tenant = req[x].tenant
    BY <1>1, <1>7, <1>8, <2>1, StaysOrGoes
  <2> QED BY <1>3, <2>1, <2>2 DEF OnRecord, InScope
<1>9. Newer(d) \subseteq Newer(d)'
  <2>1. Len(born) \in Nat /\ Len(born') \in Nat
    BY <1>1 DEF ReaderInv, ReaderTypeOK
  <2>2. \A i \in 1..Len(born) : i \in 1..Len(born') /\ born'[i] = born[i]
    BY <1>1, <2>1 DEF Extends
  <2> QED BY <2>2 DEF Newer
<1>10. A \subseteq B \cup {z} /\ (z \notin A => A \subseteq B)
  BY <1>8, <1>9
<1>11. IsFiniteSet(B)
  <2>1. IInv'
    BY <1>1, NextInv
  <2>2. ASSUME NEW x \in B PROVE \E i \in 1..Len(born') : born'[i] = x
    <3>1. x \in Requests /\ Known(x)'
      BY <2>1, <2>2 DEF OnRecord, IInv, OnlyKnownStored, Present, Absent
    <3> QED BY <1>1, <3>1 DEF Known, BornInv, Inserted
  <2> HIDE DEF B
  <2> QED BY <1>1, <2>2, FiniteRange
<1>12. Cardinality(A) = Place(d, scope) /\ Cardinality(B) = Place(d, scope)'
  BY DEF Place
<1>13. PICK n \in Nat : n = Cardinality(B)
  BY <1>11, FS_CardinalityType
<1>14. /\ Place(d, scope) <= n + 1 /\ (z \notin A => Place(d, scope) <= n)
       /\ n < Floor
  <2> HIDE DEF A, B
  <2>1. Cardinality(A) <= n + 1 /\ (z \notin A => Cardinality(A) <= n)
    BY <1>10, <1>11, <1>13, Counts
  <2> QED BY <1>5, <1>12, <1>13, <2>1
<1>15. z \in A /\ Place(d, scope) = Floor
  BY <1>4, <1>6, <1>14
<1>16. z \in OnRecord(scope) /\ Place(z, scope) < Floor
  BY <1>6, <1>15, Places DEF ReaderInv
<1>17. ~Present(z)'
  <2>1. ASSUME Present(z)' PROVE FALSE
    <3>1. \A x \in Old : x \in New
      <4>1. z \in Requests /\ Present(z) /\ InScope(z, scope) /\ Known(z)
        BY <1>16, PresentKnown DEF OnRecord
      <4>2. req'[z].tenant = req[z].tenant
        BY <1>1, <4>1, StaysOrGoes
      <4>3. z \in New
        BY <1>3, <2>1, <4>1, <4>2 DEF OnRecord, InScope
      <4> QED BY <1>8, <4>3
    <3>2. A \subseteq B
      BY <1>9, <3>1
    <3> HIDE DEF A, B
    <3>3. Cardinality(A) <= n
      BY <1>11, <1>13, <3>2, Counts
    <3> QED BY <1>4, <1>12, <1>14, <1>15, <3>3
  <2> QED BY <2>1
<1>18. Shifts
  BY <1>16, <1>17 DEF Shifts
<1> QED BY <1>6, <1>15, <1>18

\* A deletion from the pages already read makes a walk pass by one document at
\* most; any other step of a writer none.
LEMMA WritingShifts ==
  ASSUME IInv, SInv, ReaderInv, Writing, reader.pc = "list"
  PROVE  Cardinality(Passed') <= reader'.shifted
<1>1. IsFiniteSet(Passed) /\ Cardinality(Passed) <= reader.shifted /\ reader.shifted \in Nat
  BY UnseenOnRecord DEF ReaderInv, WalkInv, ReaderTypeOK, ReaderType
<1>2. reader'.shifted = IF Shifts THEN reader.shifted + 1 ELSE reader.shifted
  BY DEF Writing, ReaderInv, ReaderTypeOK, ReaderType
<1>3. PICK S, T : S = Passed /\ T = Passed'
  OBVIOUS
<1>4. CASE T \subseteq S
  BY <1>1, <1>2, <1>3, <1>4, Counts
<1>5. ASSUME NEW y \in T, y \notin S PROVE Cardinality(Passed') <= reader'.shifted
  <2>1. Shifts /\ y \in OnRecord(reader.scope) /\ Place(y, reader.scope) = Floor
    BY <1>3, <1>5, NewlyPassed
  <2>2. T \subseteq S \cup {y}
    <3>1. SUFFICES ASSUME NEW x \in T, x \notin S PROVE x = y
      OBVIOUS
    <3>2. x \in OnRecord(reader.scope) /\ Place(x, reader.scope) = Floor
      BY <1>3, <3>1, NewlyPassed
    <3> QED BY <2>1, <3>2, Places DEF ReaderInv
  <2>3. Cardinality(T) <= reader.shifted + 1
    BY <1>1, <1>3, <2>2, Counts
  <2> QED BY <1>2, <1>3, <2>1, <2>3
<1> QED BY <1>4, <1>5

\* A step of a writer, whatever the client is doing.
LEMMA WritingKeeps == ASSUME IInv, SInv, ReaderInv, Writing PROVE ReaderInv'
<1>1. [Next]_vars /\ born' \in Seq(Requests) /\ BornInv'
  BY BornStep DEF Writing, ReaderInv, ReaderTypeOK
<1>2. reader \in ReaderType
  BY DEF ReaderInv, ReaderTypeOK
<1>3. /\ reader' \in ReaderType
      /\ reader'.caller = reader.caller /\ reader'.scope = reader.scope /\ reader'.pc = reader.pc
      /\ reader'.doc = reader.doc /\ reader'.page = reader.page
      /\ reader'.missing = reader.missing /\ reader'.batches = reader.batches
      /\ reader'.embedded = reader.embedded
      /\ reader.pc # "list" => reader' = reader
  <2>1. CASE Shifts
    <3>1. reader' = [reader EXCEPT !.shifted = reader.shifted + 1] /\ reader.pc = "list"
      BY <2>1 DEF Writing, Shifts
    <3> QED BY <1>2, <3>1 DEF ReaderType
  <2>2. CASE ~Shifts
    BY <1>2, <2>2 DEF Writing
  <2> QED BY <2>1, <2>2
<1>4. /\ reader.missing \subseteq Requests /\ reader.embedded \subseteq Requests
      /\ \A d \in reader.missing : Known(d)
  BY <1>2 DEF ReaderType, ReaderInv, AskedInv
<1>5. AnswersInv'
  BY <1>1, AnswersStay DEF ReaderInv
<1>6. AskedInv'
  BY <1>1, <1>3, <1>4, StaysOrGoes DEF ReaderInv, AskedInv
<1>7. ASSUME reader.pc = "chunked"
      PROVE  /\ reader.doc \in Requests /\ Known(reader.doc)
             /\ req'[reader.doc] = req[reader.doc]
             /\ Present(reader.doc)' => Present(reader.doc)
  <2>1. reader.doc \in Requests /\ Known(reader.doc)
    BY <1>7 DEF ReaderInv, AskedInv, AskingPc
  <2>2. PICK d \in Requests : d = reader.doc
    BY <2>1
  <2>3. reader' = reader
    BY <1>3, <1>7
  <2> QED BY <1>1, <2>1, <2>2, <2>3, DoneStays, StaysOrGoes DEF Known, Present
<1>8. ShownInv'
  BY <1>3, <1>7 DEF ReaderInv, ShownInv
<1>9. EmbeddedReadable'
  <2> SUFFICES ASSUME reader.pc = "chunked" PROVE EmbeddedReadable'
    BY <1>3 DEF EmbeddedReadable
  <2>1. reader' = reader
    BY <1>3
  <2>2. /\ \A a, b \in reader.batches : a = b
        /\ reader.doc \in reader.embedded /\ Present(reader.doc) => reader.batches # {}
    BY DEF ReaderInv, EmbeddedReadable
  <2>3. reader.doc \in ProcessTold(reader.caller, "no_text")' => reader.batches = {}
    <3>1. req'[reader.doc].shape # "text" => reader.batches = {}
      BY <1>7 DEF ReaderInv, ShownInv
    <3> QED BY <1>5, <2>1, <3>1 DEF ProcessTold, AnswersInv
  <2> QED BY <1>7, <2>1, <2>2, <2>3 DEF EmbeddedReadable, Present
<1>10. PagesMissOnlyShifted'
  <2> SUFFICES ASSUME reader.pc = "walked" PROVE PagesMissOnlyShifted'
    BY <1>3 DEF PagesMissOnlyShifted
  <2>1. reader' = reader
    BY <1>3
  <2>2. PICK S, T : S = Unseen /\ T = Unseen'
    OBVIOUS
  <2>3. T \subseteq S
    BY <1>1, <1>4, <2>1, <2>2, StaysOrGoes DEF Unseen
  <2>4. IsFiniteSet(S) /\ Cardinality(S) <= reader.shifted /\ reader.shifted \in Nat
    BY <1>2, <2>2, UnseenOnRecord DEF ReaderInv, PagesMissOnlyShifted, ReaderType
  <2>5. Cardinality(T) <= reader.shifted
    BY <2>3, <2>4, Counts
  <2> QED BY <2>1, <2>2, <2>5 DEF PagesMissOnlyShifted
<1>11. WalkInv'
  <2> SUFFICES ASSUME reader.pc = "list" PROVE WalkInv'
    BY <1>3 DEF WalkInv
  <2>1. \A d \in reader.missing : InScope(d, reader.scope)'
    BY <1>1, <1>3, <1>4, StaysOrGoes DEF ReaderInv, WalkInv, InScope
  <2> QED BY <1>3, <2>1, WritingShifts DEF ReaderInv, WalkInv
<1> QED BY <1>1, <1>3, <1>5, <1>6, <1>8, <1>9, <1>10, <1>11 DEF ReaderInv, ReaderTypeOK

\* A step of the client leaves the documents alone: what the invariant says of
\* the client afterwards can be said of the state before.
Asks(c) == /\ c.pc \in AskingPc => c.doc \in Requests /\ Known(c.doc)
           /\ \A d \in c.embedded : Known(d) /\ (Present(d) => row[d].status = "EMBEDDED")
           /\ \A d \in c.missing : Known(d)

Shown(c) == c.pc = "chunked" =>
              /\ c.batches # {} => req[c.doc].shape = "text"
              /\ \A a, b \in c.batches : a = b
              /\ c.doc \in c.embedded /\ Present(c.doc) => c.batches # {}

Owed(c)   == {d \in c.missing : Present(d)}
Behind(c) == {d \in Owed(c) : Place(d, c.scope) < (c.page - 1) * PageSize}

Walks(c) == /\ c.pc = "list" =>
                 /\ c.scope \in Callers /\ c.page >= 1
                 /\ \A d \in c.missing : InScope(d, c.scope)
                 /\ Cardinality(Behind(c)) <= c.shifted
            /\ c.pc = "walked" => Cardinality(Owed(c)) <= c.shifted

LEMMA ReadingSees ==
  ASSUME ReaderInv, vars' = vars, born' = born, NEW c, reader' = c, c \in ReaderType,
         Asks(c), Shown(c), Walks(c)
  PROVE  ReaderInv'
<1>1. req' = req /\ row' = row
  BY DEF vars
<1>2. ReaderTypeOK' /\ BornInv'
  BY <1>1 DEF ReaderInv, ReaderTypeOK, BornInv, Inserted
<1>3. \A d : (Known(d)' <=> Known(d)) /\ (Present(d)' <=> Present(d))
  BY <1>1 DEF Known, Present
<1>4. AskedInv'
  BY <1>1, <1>3 DEF AskedInv, Asks, Known, Present
<1>5. AnswersInv'
  BY <1>1 DEF ReaderInv, AnswersInv, Present
<1>6. ShownInv'
  BY <1>1 DEF ShownInv, Shown
<1>7. EmbeddedReadable'
  <2>1. c.pc = "chunked" /\ c.doc \in ProcessTold(c.caller, "no_text") => c.batches = {}
    BY DEF ReaderInv, AnswersInv, ProcessTold, Shown
  <2>2. ProcessTold(c.caller, "no_text")' = ProcessTold(c.caller, "no_text")
    BY <1>1 DEF ProcessTold
  <2> QED BY <1>1, <2>1, <2>2 DEF EmbeddedReadable, Shown, Present
<1>8. Unseen' = Owed(c)
  BY <1>1 DEF Unseen, Owed, Present
<1>9. PagesMissOnlyShifted'
  BY <1>8 DEF PagesMissOnlyShifted, Walks
<1>10. Passed' = Behind(c)
  <2>1. \A d : Place(d, reader.scope)' = Place(d, c.scope)
    BY <1>1 DEF Place, Newer, OnRecord, InScope, Present
  <2>2. Floor' = (c.page - 1) * PageSize
    BY DEF Floor
  <2> QED BY <1>8, <2>1, <2>2 DEF Passed, Behind
<1>11. WalkInv'
  BY <1>1, <1>10 DEF WalkInv, Walks, InScope
<1> QED BY <1>2, <1>4, <1>5, <1>6, <1>7, <1>9, <1>11 DEF ReaderInv

LEMMA BeginWalkKeeps == ASSUME IInv, ReaderInv, BeginWalk PROVE ReaderInv'
<1>1. PICK caller \in Callers, scope \in Callers :
        reader' = [Request(caller, "list") EXCEPT !.scope = scope, !.page = 1,
                                                 !.missing = OnRecord(scope)]
  BY DEF BeginWalk
<1> DEFINE base == [caller |-> caller, scope |-> Nil, doc |-> Nil, pc |-> "list", page |-> 0,
                    missing |-> {}, shifted |-> 0, batches |-> {}, embedded |-> reader.embedded]
           c == [caller |-> caller, scope |-> scope, doc |-> Nil, pc |-> "list", page |-> 1,
                 missing |-> OnRecord(scope), shifted |-> 0, batches |-> {},
                 embedded |-> reader.embedded]
<1>2. reader' = c
  <2>1. Request(caller, "list") = base
    BY RequestIs DEF ReaderInv
  <2>2. reader' = [base EXCEPT !.scope = scope, !.page = 1, !.missing = OnRecord(scope)]
    BY <1>1, <2>1
  <2> QED BY <2>2
<1>3. vars' = vars /\ born' = born
  BY DEF BeginWalk
<1>4. c \in ReaderType
  BY DEF ReaderInv, ReaderTypeOK, ReaderType, OnRecord
<1>5. Behind(c) = {}
  <2>1. (1 - 1) * PageSize = 0
    BY ReaderConstants
  <2>2. \A d \in OnRecord(scope) : Place(d, scope) \in Nat
    BY Places DEF ReaderInv
  <2>3. \A d \in Behind(c) : d \in OnRecord(scope) /\ Place(d, scope) < 0
    BY <2>1 DEF Behind, Owed
  <2> QED BY <2>2, <2>3
<1>6. Asks(c)
  BY PresentKnown DEF Asks, ReaderInv, AskedInv, AskingPc, OnRecord
<1>7. Walks(c)
  BY <1>5, FS_EmptySet DEF Walks, OnRecord
<1>8. Shown(c)
  BY DEF Shown
<1> HIDE DEF c
<1> QED BY <1>2, <1>3, <1>4, <1>6, <1>7, <1>8, ReadingSees

\* A page shows what lies between what has been passed and what is to come; it is
\* full unless nothing is to come.
LEMMA ListDocumentsKeeps == ASSUME IInv, ReaderInv, ListDocuments PROVE ReaderInv'
<1> DEFINE scope == reader.scope
           page == reader.page
           items == Page(scope, page)
           full == Cardinality(items) = PageSize
           c == [reader EXCEPT !.missing = reader.missing \ items,
                               !.pc = IF full THEN "list" ELSE "walked",
                               !.page = IF full THEN page + 1 ELSE 0,
                               !.scope = IF full THEN scope ELSE Nil]
<1>1. reader' = c
  BY DEF ListDocuments
<1>2. reader \in ReaderType /\ PageSize \in Nat
  BY ReaderConstants DEF ReaderInv, ReaderTypeOK
<1>3. /\ c \in ReaderType
      /\ c.missing = reader.missing \ items
      /\ c.pc = IF full THEN "list" ELSE "walked"
      /\ full => c.page = page + 1 /\ c.scope = scope
      /\ c.embedded = reader.embedded /\ c.shifted = reader.shifted
  <2>1. page + 1 \in Nat /\ scope \in Callers \cup {Nil}
    BY <1>2 DEF ReaderType
  <2> HIDE DEF items
  <2>2. CASE full
    <3>1. c = [reader EXCEPT !.missing = reader.missing \ items, !.pc = "list",
                             !.page = page + 1, !.scope = scope]
      BY <2>2
    <3> HIDE DEF c
    <3> QED BY <1>2, <2>1, <2>2, <3>1 DEF ReaderType
  <2>3. CASE ~full
    <3>1. c = [reader EXCEPT !.missing = reader.missing \ items, !.pc = "walked",
                             !.page = 0, !.scope = Nil]
      BY <2>3
    <3> HIDE DEF c
    <3> QED BY <1>2, <2>3, <3>1 DEF ReaderType
  <2> QED BY <2>2, <2>3
<1>4. vars' = vars /\ born' = born
  BY DEF ListDocuments
<1>5. /\ reader.pc = "list" /\ scope \in Callers /\ page \in Nat /\ page >= 1
      /\ \A d \in reader.missing : Known(d) /\ InScope(d, scope)
      /\ Unseen \subseteq OnRecord(scope)
      /\ IsFiniteSet(Passed) /\ Cardinality(Passed) <= reader.shifted /\ reader.shifted \in Nat
  BY <1>2, UnseenOnRecord DEF ListDocuments, ReaderInv, WalkInv, ReaderType, AskedInv
<1> DEFINE a == (page - 1) * PageSize
           b == page * PageSize
<1>6. a \in Int /\ b \in Int /\ a = Floor /\ b = ((page + 1) - 1) * PageSize
  BY <1>2, <1>5 DEF Floor
<1>7. ASSUME NEW d \in Unseen, d \notin items
      PROVE  d \in Passed \/ (Place(d, scope) >= b /\ full)
  <2>1. d \in OnRecord(scope) /\ Place(d, scope) \in Nat
    BY <1>5, Places DEF ReaderInv
  <2>2. Place(d, scope) \notin a..(b - 1)
    BY <1>7, <2>1 DEF Page
  <2>3. PICK k \in Nat : k = Place(d, scope)
    BY <2>1
  <2>4. CASE k >= b
    <3>1. full
      BY <1>5, <2>1, <2>3, <2>4, FullPage DEF ReaderInv
    <3> QED BY <2>3, <2>4, <3>1
  <2>5. CASE k < a
    BY <1>6, <2>3, <2>5 DEF Passed
  <2> HIDE DEF a, b
  <2> QED BY <1>6, <2>2, <2>3, <2>4, <2>5
<1>8. \A d \in Owed(c) : d \in Unseen /\ d \notin items
  BY <1>3 DEF Owed, Unseen
<1>9. ~full => Owed(c) \subseteq Passed
  BY <1>7, <1>8
<1>10. full => Behind(c) \subseteq Passed
  <2> SUFFICES ASSUME full, NEW d \in Behind(c) PROVE d \in Passed
    OBVIOUS
  <2>1. d \in Unseen /\ d \notin items /\ Place(d, scope) < b
    BY <1>3, <1>6, <1>8 DEF Behind
  <2>2. Place(d, scope) \in Nat
    BY <1>5, <2>1, Places DEF ReaderInv
  <2> HIDE DEF b
  <2> QED BY <1>6, <1>7, <2>1, <2>2
<1>11. Walks(c)
  <2> HIDE DEF c, items
  <2>1. CASE full
    <3>1. Cardinality(Behind(c)) <= reader.shifted
      BY <1>5, <1>10, <2>1, Counts
    <3> QED BY <1>3, <1>5, <2>1, <3>1 DEF Walks
  <2>2. CASE ~full
    <3>1. Cardinality(Owed(c)) <= reader.shifted
      BY <1>5, <1>9, <2>2, Counts
    <3> QED BY <1>3, <2>2, <3>1 DEF Walks
  <2> QED BY <2>1, <2>2
<1> HIDE DEF c, items
<1>12. Asks(c) /\ Shown(c)
  BY <1>3, <1>5 DEF Asks, Shown, ReaderInv, AskedInv, AskingPc
<1> QED BY <1>1, <1>3, <1>4, <1>11, <1>12, ReadingSees

\* What a client is told when it asks is so: an answer stays true.
LEMMA ProcessTellsTrue ==
  ASSUME IInv, SInv, ReaderInv, NEW caller
  PROVE  /\ ProcessTold(caller, "processed") \subseteq Requests
         /\ \A d \in ProcessTold(caller, "processed") :
              Known(d) /\ (Present(d) => row[d].status = "EMBEDDED")
<1>1. ASSUME NEW d \in ProcessTold(caller, "processed")
      PROVE  d \in Requests /\ Known(d) /\ (Present(d) => row[d].status = "EMBEDDED")
  <2>1. PICK r \in Requests : /\ d = req[r].doc /\ req[r].kind = "process" /\ req[r].pc = "done"
                              /\ req[r].out = "processed"
    BY DEF ProcessTold
  <2> QED BY <2>1, Meaning DEF ReaderInv, AnswersInv
<1> QED BY <1>1

LEMMA AskKeeps ==
  ASSUME IInv, SInv, ReaderInv, NEW pc \in AskingPc \ {"chunked"}, Ask(pc)
  PROVE  ReaderInv'
<1>1. PICK d \in Requests, caller \in Callers :
        /\ Known(d)
        /\ reader' = [Request(caller, pc) EXCEPT
                        !.doc = d, !.embedded = Request(caller, pc).embedded
                                                \cup ProcessTold(caller, "processed")]
  BY DEF Ask
<1> DEFINE told == reader.embedded \cup ProcessTold(caller, "processed")
           base == [caller |-> caller, scope |-> Nil, doc |-> Nil, pc |-> pc, page |-> 0,
                    missing |-> {}, shifted |-> 0, batches |-> {}, embedded |-> reader.embedded]
           c == [caller |-> caller, scope |-> Nil, doc |-> d, pc |-> pc, page |-> 0,
                 missing |-> {}, shifted |-> 0, batches |-> {}, embedded |-> told]
<1>2. Request(caller, pc) = base
  BY RequestIs DEF ReaderInv
<1>3. reader' = c
  <2>1. base.embedded = reader.embedded
    OBVIOUS
  <2>2. reader' = [base EXCEPT !.doc = d, !.embedded = told]
    BY <1>1, <1>2, <2>1
  <2> HIDE DEF told
  <2> QED BY <2>2
<1>4. /\ told \subseteq Requests
      /\ \A x \in told : Known(x) /\ (Present(x) => row[x].status = "EMBEDDED")
  BY ProcessTellsTrue DEF ReaderInv, ReaderTypeOK, ReaderType, AskedInv
<1> HIDE DEF told
<1>5. c \in ReaderType
  BY <1>4 DEF ReaderType, AskingPc
<1>6. vars' = vars /\ born' = born
  BY DEF Ask
<1>7. Asks(c) /\ Shown(c) /\ Walks(c)
  BY <1>1, <1>4 DEF Asks, Shown, Walks, AskingPc
<1> HIDE DEF c
<1> QED BY <1>3, <1>5, <1>6, <1>7, ReadingSees

\* The answer is read: told is what the client takes for EMBEDDED from now on.
Answered(told) == reader' = [Told EXCEPT !.embedded = told]

LEMMA ToldKeeps ==
  ASSUME IInv, ReaderInv, vars' = vars, born' = born, NEW told \in SUBSET Requests,
         Answered(told),
         \A d \in told : Known(d) /\ (Present(d) => row[d].status = "EMBEDDED")
  PROVE  ReaderInv'
<1> DEFINE base == [caller |-> reader.caller, scope |-> Nil, doc |-> Nil, pc |-> "idle", page |-> 0,
                    missing |-> {}, shifted |-> 0, batches |-> {}, embedded |-> reader.embedded]
           c == [base EXCEPT !.embedded = told]
<1>1. reader.caller \in Callers \cup {Nil} /\ reader.embedded \subseteq Requests
  BY DEF ReaderInv, ReaderTypeOK, ReaderType
<1>2. reader' = c
  <2>1. Told = base
    BY <1>1, RequestIs DEF ReaderInv, Told
  <2> QED BY <2>1 DEF Answered
<1>3. c \in ReaderType
  BY <1>1 DEF ReaderType
<1>4. Asks(c) /\ Shown(c) /\ Walks(c)
  BY DEF Asks, Shown, Walks, AskingPc
<1> HIDE DEF c
<1> QED BY <1>2, <1>3, <1>4, ReadingSees

LEMMA NothingTold == ASSUME ReaderTypeOK PROVE Told = [Told EXCEPT !.embedded = reader.embedded]
<1>1. reader.caller \in Callers \cup {Nil}
  BY DEF ReaderTypeOK, ReaderType
<1>2. Told = [caller |-> reader.caller, scope |-> Nil, doc |-> Nil, pc |-> "idle", page |-> 0,
              missing |-> {}, shifted |-> 0, batches |-> {}, embedded |-> reader.embedded]
  BY <1>1, RequestIs DEF Told
<1> QED BY <1>2

\* The chunks of the version are those on record; a document the client takes
\* for EMBEDDED has some, one without text has none.
LEMMA LoadChunksKeeps == ASSUME IInv, SInv, ReaderInv, LoadChunks PROVE ReaderInv'
<1> DEFINE base == [caller |-> reader.caller, scope |-> Nil, doc |-> Nil, pc |-> "chunked", page |-> 0,
                    missing |-> {}, shifted |-> 0, batches |-> {}, embedded |-> reader.embedded]
           c == [base EXCEPT !.doc = reader.doc, !.batches = chunks[reader.doc]]
<1>1. /\ reader \in ReaderType /\ reader.doc \in Requests /\ Known(reader.doc)
      /\ chunks[reader.doc] \subseteq Requests
  BY DEF LoadChunks, ReaderInv, ReaderTypeOK, AskedInv, AskingPc, IInv, TypeOK
<1>2. reader' = c
  <2>1. Request(reader.caller, "chunked") = base
    <3>1. reader.caller \in Callers \cup {Nil}
      BY <1>1 DEF ReaderType
    <3> QED BY <3>1, RequestIs DEF ReaderInv, AskingPc
  <2> QED BY <2>1 DEF LoadChunks
<1>3. c \in ReaderType
  BY <1>1 DEF ReaderType, AskingPc
<1>4. vars' = vars /\ born' = born
  BY DEF LoadChunks
<1>5. Asks(c) /\ Walks(c)
  BY <1>1 DEF Asks, Walks, ReaderInv, AskedInv
<1>6. Shown(c)
  <2>1. \A a, b \in chunks[reader.doc] : a = b
    BY <1>1 DEF IInv, OneRunPerVersion
  <2>2. reader.doc \in reader.embedded /\ Present(reader.doc) => chunks[reader.doc] # {}
    BY <1>1 DEF ReaderInv, AskedInv, SInv, RowsMean, RowMeans
  <2>3. chunks[reader.doc] # {} => req[reader.doc].shape = "text"
    BY <1>1 DEF IInv, NoOrphanRows, SInv, RowsMean, RowMeans
  <2> QED BY <2>1, <2>2, <2>3 DEF Shown
<1> HIDE DEF c
<1> QED BY <1>2, <1>3, <1>4, <1>5, <1>6, ReadingSees

LEMMA ReadingKeeps == ASSUME IInv, SInv, ReaderInv, Reading PROVE ReaderInv'
<1>1. /\ reader \in ReaderType /\ reader.embedded \subseteq Requests
      /\ Told = [Told EXCEPT !.embedded = reader.embedded]
      /\ \A d \in reader.embedded : Known(d) /\ (Present(d) => row[d].status = "EMBEDDED")
  BY NothingTold DEF ReaderInv, ReaderTypeOK, ReaderType, AskedInv
<1>2. CASE vars' = vars /\ born' = born /\ reader' = Told
  BY <1>1, <1>2, ToldKeeps DEF Answered
<1>3. CASE BeginWalk \/ ListDocuments \/ LoadChunks
  BY <1>3, BeginWalkKeeps, ListDocumentsKeeps, LoadChunksKeeps
<1>4. CASE AskDocument \/ AskJobs \/ AskChunks \/ AskContent
  BY <1>4, AskKeeps DEF AskDocument, AskJobs, AskChunks, AskContent, AskingPc
<1>5. CASE LoadVersions
  <2> DEFINE told == IF row[reader.doc].status = "EMBEDDED"
                     THEN reader.embedded \cup {reader.doc} ELSE reader.embedded
  <2>1. reader.doc \in Requests /\ Known(reader.doc)
    BY <1>5 DEF LoadVersions, ReaderInv, AskedInv, AskingPc
  <2>2. vars' = vars /\ born' = born /\ reader' = [Told EXCEPT !.embedded = told]
    <3>1. Told.embedded = reader.embedded
      BY DEF Told, Request, Nobody
    <3> QED BY <1>5, <3>1 DEF LoadVersions
  <2>3. told \in SUBSET Requests
    BY <1>1, <2>1
  <2>4. \A d \in told : Known(d) /\ (Present(d) => row[d].status = "EMBEDDED")
    BY <1>1, <2>1
  <2> HIDE DEF told
  <2> QED BY <2>2, <2>3, <2>4, ToldKeeps DEF Answered
<1>6. CASE LoadVersion
  <2>1. CASE reader' = Told
    BY <1>2, <1>6, <2>1 DEF LoadVersion
  <2>2. CASE reader' = [reader EXCEPT !.pc = "chunks"]
    <3> DEFINE c == [reader EXCEPT !.pc = "chunks"]
    <3>1. /\ c \in ReaderType /\ c.pc = "chunks" /\ c.doc = reader.doc
          /\ c.embedded = reader.embedded /\ c.missing = reader.missing
      BY <1>1 DEF ReaderType, AskingPc
    <3>2. vars' = vars /\ born' = born /\ reader.pc = "version"
      BY <1>6 DEF LoadVersion
    <3> HIDE DEF c
    <3>3. Asks(c) /\ Shown(c) /\ Walks(c)
      BY <3>1, <3>2 DEF Asks, Shown, Walks, ReaderInv, AskedInv, AskingPc
    <3> QED BY <2>2, <3>1, <3>2, <3>3, ReadingSees DEF c
  <2> QED BY <1>6, <2>1, <2>2 DEF LoadVersion
<1>7. CASE LoadJobs \/ ReadFile
  BY <1>2, <1>7 DEF LoadJobs, ReadFile
<1> QED BY <1>3, <1>4, <1>5, <1>6, <1>7 DEF Reading

LEMMA InitReader == RInit => ReaderInv
<1> SUFFICES ASSUME RInit PROVE ReaderInv
  OBVIOUS
<1>1. born = <<>> /\ reader = Nobody /\ \A r \in Requests : req[r] = Idle
  BY DEF RInit, Init
<1>2. ReaderTypeOK
  BY <1>1 DEF ReaderTypeOK, ReaderType, Nobody
<1>3. BornInv /\ AnswersInv
  BY <1>1 DEF BornInv, AnswersInv, Inserted, Idle
<1>4. reader.pc = "idle" /\ reader.embedded = {} /\ reader.missing = {}
  BY <1>1 DEF Nobody
<1> QED BY <1>2, <1>3, <1>4 DEF ReaderInv, AskedInv, ShownInv, WalkInv, PagesMissOnlyShifted,
                                EmbeddedReadable, AskingPc

-----------------------------------------------------------------------------
(* The theorems about those who read.                                      *)

\* Reading adds nothing to what happens to the documents.
THEOREM ReadersOnlyRead == RSpec => Spec
<1>1. RInit => Init
  BY DEF RInit
<1>2. [Writing \/ Reading]_rvars => [Next]_vars
  <2>1. Writing => Next
    BY DEF Writing
  <2>2. Reading => vars' = vars
    BY DEF Reading, BeginWalk, ListDocuments, AskDocument, AskJobs, AskChunks, AskContent, Ask,
           LoadVersions, LoadJobs, LoadVersion, LoadChunks, ReadFile
  <2> QED BY <2>1, <2>2 DEF rvars
<1> QED BY <1>1, <1>2, PTL DEF RSpec, Spec

\* The invariant of the readers, on top of those of the documents.
THEOREM ReadersInductive == RSpec => []ReaderInv
<1>1. IInv /\ SInv /\ ReaderInv /\ [Writing \/ Reading]_rvars => ReaderInv'
  <2>1. ReaderInv /\ UNCHANGED rvars => ReaderInv'
    <3> SUFFICES ASSUME ReaderInv, UNCHANGED rvars PROVE ReaderInv'
      OBVIOUS
    <3>1. vars' = vars /\ born' = born /\ reader' = reader
      BY DEF rvars
    <3>2. PICK c : c = reader
      OBVIOUS
    <3>3. reader' = c /\ c \in ReaderType
      BY <3>1, <3>2 DEF ReaderInv, ReaderTypeOK
    <3>4. Asks(c) /\ Shown(c)
      BY <3>2 DEF ReaderInv, AskedInv, ShownInv, EmbeddedReadable, Asks, Shown
    <3>5. Walks(c)
      BY <3>2 DEF ReaderInv, WalkInv, PagesMissOnlyShifted, Passed, Unseen, Floor, Walks, Owed, Behind
    <3> QED BY <3>1, <3>3, <3>4, <3>5, ReadingSees
  <2> QED BY <2>1, WritingKeeps, ReadingKeeps
<1> QED BY <1>1, InitReader, ReadersOnlyRead, Meaningful, PTL DEF RSpec

\* Whoever reads page after page until one is not full has seen every document
\* that was on record when the walk began and still is, but for one at most for
\* each document deleted from the pages already read: for every size of the pages
\* and every number of uploads and deletions that commit meanwhile.
THEOREM PagesMissOnlyTheShifted == RSpec => []PagesMissOnlyShifted
<1>1. ReaderInv => PagesMissOnlyShifted
  BY DEF ReaderInv
<1> QED BY <1>1, ReadersInductive, PTL

\* The chunks a client is given come from one run of the chunker; there are some
\* if it was told that the document is EMBEDDED, by get_document or by its own
\* process request, and none if that request said EMBEDDED with zero chunks.
THEOREM EmbeddedIsReadable == RSpec => []EmbeddedReadable
<1>1. ReaderInv => EmbeddedReadable
  BY DEF ReaderInv
<1> QED BY <1>1, ReadersInductive, PTL

=============================================================================
