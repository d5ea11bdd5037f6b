-------------------------- MODULE DocumentCatalogue --------------------------
(***************************************************************************)
(* What the document endpoints promise their clients, without requests,    *)
(* transactions or locks: a catalogue that changes by one atomic operation *)
(* on one document at a time.  A document is published once, parsed; every *)
(* processing replaces the whole batch of chunks it is searched by, or     *)
(* notes that there is nothing to search; a removed document is gone for   *)
(* good, with its batch.                                                   *)
(***************************************************************************)
CONSTANTS Ids     \* names of documents and of batches of chunks

VARIABLES
  state,    \* state[d]: "new", "parsed", "empty", "searchable" or "gone"
  batch     \* batch[d]: the batches of chunks on record for d

cvars == <<state, batch>>

OnRecord == {"parsed", "empty", "searchable"}

CInit == state = [d \in Ids |-> "new"] /\ batch = [d \in Ids |-> {}]

Publish(d) ==
  /\ state[d] = "new"
  /\ state' = [state EXCEPT ![d] = "parsed"]
  /\ UNCHANGED batch

\* b has never been the batch of a document on record.
Replace(d, b) ==
  /\ state[d] \in {"parsed", "searchable"}
  /\ \A e \in Ids : b \notin batch[e]
  /\ state' = [state EXCEPT ![d] = "searchable"]
  /\ batch' = [batch EXCEPT ![d] = {b}]

NoteEmpty(d) ==
  /\ state[d] = "parsed"
  /\ state' = [state EXCEPT ![d] = "empty"]
  /\ UNCHANGED batch

Remove(d) ==
  /\ state[d] \in OnRecord
  /\ state' = [state EXCEPT ![d] = "gone"]
  /\ batch' = [batch EXCEPT ![d] = {}]

CNext == \E d \in Ids : \/ Publish(d) \/ NoteEmpty(d) \/ Remove(d)
                        \/ \E b \in Ids : Replace(d, b)

CSpec == CInit /\ [][CNext]_cvars

=============================================================================
