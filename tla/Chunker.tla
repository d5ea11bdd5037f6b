------------------------------ MODULE Chunker ------------------------------
(***************************************************************************)
(* RecursiveTokenChunker on the text of one section.  The text is read     *)
(* once from its beginning: the splitter hands over one piece at a time,   *)
(* the merger packs pieces into chunks.  The code makes all pieces before  *)
(* it packs the first, which comes to the same: neither looks back at what *)
(* the other keeps.                                                        *)
(*                                                                         *)
(* A token is its position in the text, 0 one that a joint adds.  Which    *)
(* separator a text is split at is abstract: a piece is any run of tokens  *)
(* that fits a chunk, or a slice of a run without a separator that does    *)
(* not.  Pieces are joined by a space.  A word takes the space before it   *)
(* into its token; before a number the space is a token of its own, which  *)
(* the merger, adding up the lengths of the pieces, does not count.        *)
(***************************************************************************)
EXTENDS Integers, Sequences

CONSTANTS
  ChunkSize,   \* chunk_size
  Overlap,     \* chunk_overlap
  MinLength,   \* min_chunk_length
  MaxLength,   \* max_chunk_length
  TextLimit,   \* bound on the tokens of a text
  MuteSets     \* the sets of tokens that may hold no letter and no digit

\* What the constructor checks, and the ceiling it chooses unless told otherwise:
\* max(chunk_size + chunk_overlap, 1.2 * chunk_size).  Nothing in the program
\* tells it otherwise.
ASSUME ChunkerConstantsOK ==
  /\ ChunkSize \in Nat \ {0} /\ Overlap \in 0..(ChunkSize - 1)
  /\ MinLength \in 0..(ChunkSize - 1)
  /\ MaxLength \in Nat /\ MaxLength >= ChunkSize + Overlap
  /\ TextLimit \in Nat

VARIABLES
  mute,      \* the tokens without a letter or a digit
  joint,     \* what a joint adds: <<>> between words, <<0>> between numbers
  pos,       \* the last token handed over
  end,       \* the last token of the run that is being sliced, or pos
  current,   \* the tokens of current_pieces, joined
  size,      \* current_tokens
  chunks,    \* chunks, and final_chunks in the end
  done

chunkVars == <<mute, joint, pos, end, current, size, chunks, done>>

ChunkInit ==
  /\ mute \in MuteSets /\ joint \in {<<>>, <<0>>}
  /\ pos = 0 /\ end = 0 /\ current = <<>> /\ size = 0 /\ chunks = <<>> /\ done = FALSE

-----------------------------------------------------------------------------
(* _merge_splits_with_overlap: one round of its loop.                      *)

Tokens(a, b) == [k \in 1..(b - a + 1) |-> a + k - 1]

Join(c, d) == IF c = <<>> THEN d ELSE c \o joint \o d

\* Mutant: a long piece leaves the pieces before it out.
FlushNothing == chunks

Flush == IF current = <<>> THEN chunks ELSE Append(chunks, current)

\* The overlap: the last tokens of the chunk, or all of a short one.
LastTokens == SubSeq(current, Len(current) - Overlap + 1, Len(current))

Carried ==
  IF Overlap = 0 THEN <<>>
  ELSE IF Len(current) <= Overlap THEN current
  ELSE IF LastTokens[1] = 0 THEN Tail(LastTokens) ELSE LastTokens

CarriedSize == IF Len(current) < Overlap THEN Len(current) ELSE Overlap

Merge(piece) ==
  IF Len(piece) >= ChunkSize
  THEN chunks' = Append(Flush, piece) /\ current' = <<>> /\ size' = 0
  ELSE IF size + Len(piece) > ChunkSize /\ current # <<>>
  THEN /\ chunks' = Append(chunks, current)
       /\ current' = Join(Carried, piece) /\ size' = CarriedSize + Len(piece)
  ELSE current' = Join(current, piece) /\ size' = size + Len(piece) /\ UNCHANGED chunks

-----------------------------------------------------------------------------
(* _split_text_recursively.                                                *)

\* A run of tokens that fits a chunk is one piece; of a longer one without a
\* separator the first slice is.
ReadRun ==
  /\ ~done /\ end = pos
  /\ \E n \in 1..(TextLimit - pos) :
       /\ end' = pos + n
       /\ pos' = IF n <= ChunkSize THEN pos + n ELSE pos + ChunkSize
       /\ Merge(Tokens(pos + 1, pos'))
  /\ UNCHANGED <<mute, joint, done>>

\* The next slice starts a stride after the start of the one before it, which
\* is Overlap tokens before its end; the slice that reaches the end is the last.
ReadSlice ==
  /\ ~done /\ end > pos
  /\ pos' = IF pos - Overlap + ChunkSize < end THEN pos - Overlap + ChunkSize ELSE end
  /\ Merge(Tokens(pos - Overlap + 1, pos'))
  /\ UNCHANGED <<mute, joint, end, done>>

-----------------------------------------------------------------------------
(* The end of _merge_splits_with_overlap.                                  *)

Mute(c) == \A k \in DOMAIN c : c[k] \in mute

\* A short last chunk joins the one before it if there is room; if not, it is
\* discarded when it says nothing.
Tidied(list) ==
  LET n      == Len(list)
      joined == Join(list[n - 1], list[n])
  IN  IF n <= 1 THEN list
      ELSE IF Len(list[n]) >= MinLength THEN list
      ELSE IF Len(joined) <= MaxLength THEN Append(SubSeq(list, 1, n - 2), joined)
      ELSE IF Mute(list[n]) THEN SubSeq(list, 1, n - 1)
      ELSE list

\* "Hard clamp: ensure no chunk exceeds max_chunk_length"; strip() takes the
\* space at the cut.
Clamped(c) ==
  IF Len(c) <= MaxLength THEN c
  ELSE SubSeq(c, 1, IF c[MaxLength] = 0 THEN MaxLength - 1 ELSE MaxLength)

Finish ==
  /\ ~done /\ end = pos
  /\ LET list == Tidied(Flush) IN chunks' = [i \in DOMAIN list |-> Clamped(list[i])]
  /\ current' = <<>> /\ size' = 0 /\ done' = TRUE
  /\ UNCHANGED <<mute, joint, pos, end>>

Done == done /\ UNCHANGED chunkVars

ChunkNext == ReadRun \/ ReadSlice \/ Finish \/ Done

ChunkSpec == ChunkInit /\ [][ChunkNext]_chunkVars

-----------------------------------------------------------------------------
(* Properties.                                                             *)

In(t, c) == \E k \in DOMAIN c : c[k] = t

InSome(t, list) == \E i \in DOMAIN list : In(t, list[i])

LastToken(c) == c[Len(c)]

\* No text is lost where the merger counts right: every token that says
\* something is in a chunk.  The clamp cuts nothing, since no chunk outgrows a
\* chunk and its overlap unless the ceiling allows it, and what is discarded for
\* its length is mute.  Of a text of numbers the clamp may cut away whole lines,
\* which is why the joint is part of the statement.
TextKept ==
  done /\ joint = <<>> => \A t \in 1..pos : t \in mute \/ InSome(t, chunks)

=============================================================================
