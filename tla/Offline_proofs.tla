---------------------------- MODULE Offline_proofs ----------------------------
(***************************************************************************)
(* The two parts that work beside the requests: the chunker, before there  *)
(* is anything to search, and the batch evaluation, after the answers.     *)
(* They share no state.                                                    *)
(*                                                                         *)
(* Of a text of words the chunker loses nothing: Covered says that every   *)
(* token handed over is in the chunk being packed or in one packed before. *)
(*                                                                         *)
(* The evaluation is proved for any number of runs, samples and metrics    *)
(* and any scores.  Its reports rest on Faithful: once a run has reported, *)
(* all its samples are done, so that no late prediction or score can       *)
(* change a result the report was made from.  The listing rests on         *)
(* OwedThere: what a listing owes is a whole file all the time, because a  *)
(* deletion takes the run off the list of what is owed.                    *)
(***************************************************************************)
EXTENDS Chunker, EvaluationRunner, Collections_proofs, SequenceTheorems

-----------------------------------------------------------------------------
(* The chunker.                                                            *)

Text == Seq(Nat)

\* What a chunk may hold before it is clamped.
Room == ChunkSize + Overlap

JointOK == joint \in {<<>>, <<0>>}

\* The variables keep their types; a run is sliced only after its first slice.
TypeOK ==
  /\ JointOK /\ done \in BOOLEAN
  /\ pos \in Nat /\ end \in Nat /\ pos <= end /\ (end > pos => pos >= ChunkSize)
  /\ current \in Text /\ size \in Nat /\ (current = <<>> => size = 0)
  /\ chunks \in Seq(Text)

\* Between words current_tokens counts what current_pieces hold, and no chunk
\* is longer than a chunk and the overlap it starts with.
Fits ==
  /\ Len(current) <= size /\ size <= Room
  /\ \A i \in DOMAIN chunks : Len(chunks[i]) <= Room

\* Every token that was handed over is in the chunk being packed or in one of
\* the chunks packed before.
Covered == \A t \in 1..pos : In(t, current) \/ InSome(t, chunks)

\* The inductive invariant.
IInv ==
  /\ TypeOK
  /\ ~done => (joint = <<>> => Fits) /\ Covered
  /\ TextKept

-----------------------------------------------------------------------------
(* Sequences of tokens and lists of them.                                  *)

\* A stretch of the text holds its tokens.
LEMMA TokensHold ==
  ASSUME NEW a \in Nat \ {0}, NEW b \in Nat, a <= b
  PROVE  /\ Tokens(a, b) \in Text /\ Len(Tokens(a, b)) = b - a + 1
         /\ \A t \in a..b : In(t, Tokens(a, b))
<1>1. Tokens(a, b) \in Text /\ DOMAIN Tokens(a, b) = 1..(b - a + 1)
  BY DEF Tokens, Text
<1>2. Len(Tokens(a, b)) = b - a + 1
  BY <1>1, LenProperties DEF Text
<1>3. ASSUME NEW t \in a..b PROVE In(t, Tokens(a, b))
  <2>1. t - a + 1 \in 1..(b - a + 1)
    OBVIOUS
  <2>2. Tokens(a, b)[t - a + 1] = t
    BY <2>1 DEF Tokens
  <2>3. QED
    BY <1>1, <2>1, <2>2 DEF In
<1>4. QED
  BY <1>1, <1>2, <1>3

\* What is in a sequence stays in it when something is put before or behind it.
LEMMA ConcatHolds ==
  ASSUME NEW c \in Text, NEW d \in Text, NEW t
  PROVE  In(t, c) \/ In(t, d) <=> In(t, c \o d)
<1>1. /\ c \o d \in Text /\ Len(c \o d) = Len(c) + Len(d)
      /\ \A i \in 1..(Len(c) + Len(d)) : (c \o d)[i] = IF i <= Len(c) THEN c[i] ELSE d[i - Len(c)]
  BY ConcatProperties DEF Text
<1>2. /\ DOMAIN c = 1..Len(c) /\ DOMAIN d = 1..Len(d) /\ DOMAIN (c \o d) = 1..(Len(c) + Len(d))
      /\ Len(c) \in Nat /\ Len(d) \in Nat
  BY <1>1, LenProperties DEF Text
<1>3. ASSUME In(t, c) PROVE In(t, c \o d)
  BY <1>1, <1>2, <1>3 DEF In
<1>4. ASSUME In(t, d) PROVE In(t, c \o d)
  <2>1. PICK k \in 1..Len(d) : d[k] = t
    BY <1>2, <1>4 DEF In
  <2>2. k + Len(c) \in DOMAIN (c \o d) /\ (c \o d)[k + Len(c)] = t
    BY <1>1, <1>2, <2>1
  <2>3. QED
    BY <2>2 DEF In
<1>5. ASSUME In(t, c \o d) PROVE In(t, c) \/ In(t, d)
  <2>1. PICK k \in 1..(Len(c) + Len(d)) : (c \o d)[k] = t
    BY <1>2, <1>5 DEF In
  <2>2. CASE k <= Len(c)
    BY <1>1, <1>2, <2>1, <2>2 DEF In
  <2>3. CASE k > Len(c)
    <3>1. k - Len(c) \in DOMAIN d /\ d[k - Len(c)] = t
      BY <1>1, <1>2, <2>1, <2>3
    <3>2. QED
      BY <3>1 DEF In
  <2>4. QED
    BY <1>2, <2>1, <2>2, <2>3
<1>6. QED
  BY <1>3, <1>4, <1>5

\* Joined texts hold what each of them holds, and between words nothing more.
LEMMA JoinHolds ==
  ASSUME JointOK, NEW c \in Text, NEW d \in Text
  PROVE  /\ Join(c, d) \in Text
         /\ Join(c, d) = <<>> => d = <<>>
         /\ joint = <<>> => Len(Join(c, d)) = Len(c) + Len(d)
         /\ \A t : In(t, c) \/ In(t, d) => In(t, Join(c, d))
<1>1. CASE c = <<>>
  <2>1. Join(c, d) = d /\ Len(c) = 0 /\ \A t : ~In(t, c)
    BY <1>1 DEF Join, In
  <2>2. QED
    BY <2>1, LenProperties DEF Text
<1>2. CASE c # <<>>
  <2>8. joint \in Text /\ (joint = <<>> => Len(joint) = 0)
    <3>1. <<0>> \in Text
      BY DEF Text
    <3>2. <<>> \in Text /\ Len(<<>>) = 0
      BY EmptySeq DEF Text
    <3>3. QED
      BY <3>1, <3>2 DEF JointOK
  <2>9. c \o joint \in Text /\ Len(c \o joint) = Len(c) + Len(joint)
    BY <2>8, ConcatProperties DEF Text
  <2>1. Join(c, d) = (c \o joint) \o d
    BY <1>2 DEF Join
  <2>2. Join(c, d) \in Text /\ Len(Join(c, d)) = Len(c) + Len(joint) + Len(d)
    BY <2>1, <2>8, <2>9, ConcatProperties DEF Text
  <2>3. \A t : In(t, c) \/ In(t, d) => In(t, Join(c, d))
    BY <2>1, <2>8, <2>9, ConcatHolds
  <2>4. Join(c, d) # <<>>
    <3>1. Len(c) \in Nat \ {0} /\ Len(joint) \in Nat /\ Len(d) \in Nat
      BY <1>2, <2>8, EmptySeq, LenProperties DEF Text
    <3>2. Len(Join(c, d)) # 0
      BY <2>2, <3>1
    <3>3. QED
      BY <3>2, EmptySeq
  <2>5. joint = <<>> => Len(Join(c, d)) = Len(c) + Len(d)
    BY <2>2, <2>8, LenProperties DEF Text
  <2>6. QED
    BY <2>2, <2>3, <2>4, <2>5
<1>3. QED
  BY <1>1, <1>2

\* A longer list holds what the shorter one and the new chunk hold.
LEMMA AppendHolds ==
  ASSUME NEW list \in Seq(Text), NEW c \in Text
  PROVE  /\ Append(list, c) \in Seq(Text)
         /\ \A n \in Int : (\A i \in DOMAIN list : Len(list[i]) <= n) /\ Len(c) <= n
                           => \A i \in DOMAIN Append(list, c) : Len(Append(list, c)[i]) <= n
         /\ \A t : InSome(t, list) \/ In(t, c) => InSome(t, Append(list, c))
<1> DEFINE longer == Append(list, c)
<1>1. /\ longer \in Seq(Text) /\ Len(longer) = Len(list) + 1
      /\ \A i \in 1..Len(list) : longer[i] = list[i]
      /\ longer[Len(list) + 1] = c
  BY AppendProperties
<1>2. DOMAIN list = 1..Len(list) /\ DOMAIN longer = 1..(Len(list) + 1) /\ Len(list) \in Nat
  BY <1>1, LenProperties
<1> HIDE DEF longer
<1>3. \A n \in Int : (\A i \in DOMAIN list : Len(list[i]) <= n) /\ Len(c) <= n
                     => \A i \in DOMAIN longer : Len(longer[i]) <= n
  BY <1>1, <1>2
<1>4. \A t : InSome(t, list) \/ In(t, c) => InSome(t, longer)
  <2>1. ASSUME NEW t, NEW i \in DOMAIN list, In(t, list[i]) PROVE InSome(t, longer)
    <3>1. i \in DOMAIN longer /\ In(t, longer[i])
      BY <1>1, <1>2, <2>1
    <3>2. QED
      BY <3>1 DEF InSome
  <2>2. ASSUME NEW t, In(t, c) PROVE InSome(t, longer)
    <3>1. Len(list) + 1 \in DOMAIN longer /\ In(t, longer[Len(list) + 1])
      BY <1>1, <1>2, <2>2
    <3>2. QED
      BY <3>1 DEF InSome
  <2>3. QED
    BY <2>1, <2>2 DEF InSome
<1>5. QED
  BY <1>1, <1>3, <1>4 DEF longer


-----------------------------------------------------------------------------
(* One round of the merger.                                                *)

\* What is carried over is no longer than it is counted.
LEMMA CarriedFits ==
  ASSUME TypeOK, current # <<>>
  PROVE  /\ Carried \in Text /\ CarriedSize \in Nat /\ CarriedSize <= Overlap
         /\ Len(Carried) <= CarriedSize
<1>1. Len(current) \in Nat /\ Overlap \in Nat /\ current \in Text
  BY ChunkerConstantsOK, LenProperties DEF TypeOK, Text
<1>2. CASE Overlap = 0
  BY <1>1, <1>2, EmptySeq DEF Carried, CarriedSize, Text
<1>3. CASE Overlap # 0 /\ Len(current) <= Overlap
  BY <1>1, <1>3 DEF Carried, CarriedSize
<1>4. CASE Overlap # 0 /\ Len(current) > Overlap
  <2>1. LastTokens \in Text /\ Len(LastTokens) = Overlap
    <3>1. \A i \in (Len(current) - Overlap + 1)..Len(current) : current[i] \in Nat
      BY <1>1, <1>4, LenProperties DEF Text
    <3>2. QED
      BY <1>1, <1>4, <3>1, SubSeqProperties DEF LastTokens, Text
  <2>2. Tail(LastTokens) \in Text /\ Len(Tail(LastTokens)) = Overlap - 1
    BY <1>1, <1>4, <2>1, EmptySeq, HeadTailProperties DEF Text
  <2>3. Carried \in {LastTokens, Tail(LastTokens)} /\ CarriedSize = Overlap
    BY <1>1, <1>4 DEF Carried, CarriedSize
  <2>4. Carried \in Text /\ Len(Carried) \in {Overlap, Overlap - 1}
    BY <2>1, <2>2, <2>3
  <2>5. QED
    BY <1>1, <2>3, <2>4
<1>5. QED
  BY <1>1, <1>2, <1>3, <1>4

\* A piece is packed, nothing that was packed before is lost, and between words
\* every chunk fits.
LEMMA MergeHolds ==
  ASSUME TypeOK, joint = <<>> => Fits, UNCHANGED joint,
         NEW piece \in Text, Len(piece) \in 1..ChunkSize, Merge(piece)
  PROVE  /\ current' \in Text /\ size' \in Nat /\ (current' = <<>> => size' = 0)
         /\ chunks' \in Seq(Text)
         /\ joint = <<>> => Fits'
         /\ \A t : In(t, current) \/ InSome(t, chunks) \/ In(t, piece)
                   => In(t, current') \/ InSome(t, chunks')
<1>1. /\ ChunkSize \in Nat \ {0} /\ Overlap \in 0..(ChunkSize - 1) /\ Room \in Nat
      /\ ChunkSize <= Room
  BY ChunkerConstantsOK DEF Room
<1>2. /\ JointOK /\ current \in Text /\ chunks \in Seq(Text) /\ size \in Nat
      /\ Len(piece) \in Nat /\ Len(current) \in Nat
      /\ <<>> \in Text /\ Len(<<>>) = 0 /\ piece # <<>>
  BY LenProperties, EmptySeq DEF TypeOK, Text
<1>3. CASE Len(piece) >= ChunkSize
  <2>1. chunks' = Append(Flush, piece) /\ current' = <<>> /\ size' = 0
    BY <1>3 DEF Merge
  <2>2. /\ Flush \in Seq(Text)
        /\ joint = <<>> => \A i \in DOMAIN Flush : Len(Flush[i]) <= Room
        /\ \A t : In(t, current) \/ InSome(t, chunks) => InSome(t, Flush)
    <3>1. CASE current = <<>>
      BY <1>2, <3>1 DEF Flush, Fits, In
    <3>2. CASE current # <<>>
      <4>1. Flush = Append(chunks, current)
        BY <3>2 DEF Flush
      <4>2. joint = <<>> => Len(current) <= Room
        BY <1>1, <1>2 DEF Fits
      <4>3. QED
        BY <1>1, <1>2, <4>1, <4>2, AppendHolds DEF Fits
    <3>3. QED
      BY <3>1, <3>2
  <2>3. /\ chunks' \in Seq(Text)
        /\ joint = <<>> => \A i \in DOMAIN chunks' : Len(chunks'[i]) <= Room
        /\ \A t : InSome(t, Flush) \/ In(t, piece) => InSome(t, chunks')
    BY <1>1, <1>2, <2>1, <2>2, AppendHolds
  <2>4. joint = <<>> => Fits'
    BY <1>1, <1>2, <2>1, <2>3 DEF Fits, Room
  <2>5. QED
    BY <1>2, <2>1, <2>2, <2>3, <2>4
<1>4. CASE Len(piece) < ChunkSize /\ size + Len(piece) > ChunkSize /\ current # <<>>
  <2>1. /\ chunks' = Append(chunks, current)
        /\ current' = Join(Carried, piece) /\ size' = CarriedSize + Len(piece)
    BY <1>1, <1>2, <1>4 DEF Merge
  <2>2. /\ Carried \in Text /\ CarriedSize \in Nat /\ CarriedSize <= Overlap
        /\ Len(Carried) <= CarriedSize /\ Len(Carried) \in Nat
    BY <1>4, CarriedFits, LenProperties DEF Text
  <2>3. /\ current' \in Text /\ current' # <<>>
        /\ joint = <<>> => Len(current') = Len(Carried) + Len(piece)
        /\ \A t : In(t, piece) => In(t, current')
    BY <1>2, <2>1, <2>2, JoinHolds
  <2>4. joint = <<>> => Len(current) <= Room
    BY <1>1, <1>2 DEF Fits
  <2>5. /\ chunks' \in Seq(Text)
        /\ joint = <<>> => \A i \in DOMAIN chunks' : Len(chunks'[i]) <= Room
        /\ \A t : InSome(t, chunks) \/ In(t, current) => InSome(t, chunks')
    BY <1>1, <1>2, <2>1, <2>4, AppendHolds DEF Fits
  <2>6. joint = <<>> => Len(current') <= size' /\ size' <= Room
    BY <1>1, <1>2, <1>4, <2>1, <2>2, <2>3 DEF Room
  <2>7. joint = <<>> => Fits'
    BY <2>5, <2>6 DEF Fits, Room
  <2>8. QED
    BY <1>2, <2>1, <2>2, <2>3, <2>5, <2>7
<1>5. CASE Len(piece) < ChunkSize /\ ~(size + Len(piece) > ChunkSize /\ current # <<>>)
  <2>1. chunks' = chunks /\ current' = Join(current, piece) /\ size' = size + Len(piece)
    BY <1>1, <1>2, <1>5 DEF Merge
  <2>2. /\ current' \in Text /\ current' # <<>>
        /\ joint = <<>> => Len(current') = Len(current) + Len(piece)
        /\ \A t : In(t, current) \/ In(t, piece) => In(t, current')
    BY <1>2, <2>1, JoinHolds
  <2>3. size' <= ChunkSize
    BY <1>1, <1>2, <1>5, <2>1 DEF TypeOK
  <2>4. joint = <<>> => Len(current') <= size' /\ size' <= Room
    BY <1>1, <1>2, <2>1, <2>2, <2>3 DEF Fits
  <2>5. joint = <<>> => Fits'
    BY <2>1, <2>4 DEF Fits, Room
  <2>6. QED
    BY <1>2, <2>1, <2>2, <2>5
<1>6. QED
  BY <1>1, <1>2, <1>3, <1>4, <1>5


-----------------------------------------------------------------------------
(* The end of a text.                                                      *)

\* A list without its last chunks holds what the chunks left in it hold.
LEMMA FrontHolds ==
  ASSUME NEW list \in Seq(Text), NEW m \in 0..Len(list)
  PROVE  /\ SubSeq(list, 1, m) \in Seq(Text)
         /\ DOMAIN SubSeq(list, 1, m) = 1..m
         /\ \A i \in 1..m : SubSeq(list, 1, m)[i] = list[i]
         /\ \A t, i : i \in 1..m /\ In(t, list[i]) => InSome(t, SubSeq(list, 1, m))
<1>1. Len(list) \in Nat /\ \A i \in 1..m : list[i] \in Text
  BY LenProperties
<1>2. /\ SubSeq(list, 1, m) \in Seq(Text) /\ Len(SubSeq(list, 1, m)) = m
      /\ \A i \in 1..m : SubSeq(list, 1, m)[i] = list[i]
  BY <1>1, SubSeqProperties
<1>3. DOMAIN SubSeq(list, 1, m) = 1..m
  BY <1>2, LenProperties
<1>4. QED
  BY <1>2, <1>3 DEF InSome

\* A position in a list is the last, the one before it, or further front.
LEMMA Places ==
  ASSUME NEW n \in Nat, NEW i \in 1..n
  PROVE  /\ i = n \/ i \in 1..(n - 1)
         /\ i = n \/ i = n - 1 \/ i \in 1..(n - 2)
OBVIOUS

\* Tidying moves or drops the last chunk, and drops it only if it is mute.
LEMMA TidiedHolds ==
  ASSUME JointOK, NEW list \in Seq(Text)
  PROVE  /\ Tidied(list) \in Seq(Text)
         /\ (\A i \in DOMAIN list : Len(list[i]) <= MaxLength)
            => \A i \in DOMAIN Tidied(list) : Len(Tidied(list)[i]) <= MaxLength
         /\ \A t : InSome(t, list) => t \in mute \/ InSome(t, Tidied(list))
<1> DEFINE n == Len(list)
           joined == Join(list[n - 1], list[n])
           short == \A i \in DOMAIN list : Len(list[i]) <= MaxLength
<1>1. n \in Nat /\ DOMAIN list = 1..n /\ MaxLength \in Nat
  BY ChunkerConstantsOK, LenProperties
<1>2. CASE Tidied(list) = list
  BY <1>2
<1>3. CASE n > 1 /\ Tidied(list) = Append(SubSeq(list, 1, n - 2), joined) /\ Len(joined) <= MaxLength
  <2>1. list[n - 1] \in Text /\ list[n] \in Text
    BY <1>1, <1>3
  <2>2. joined \in Text /\ \A t : In(t, list[n - 1]) \/ In(t, list[n]) => In(t, joined)
    BY <2>1, JoinHolds
  <2>3. /\ SubSeq(list, 1, n - 2) \in Seq(Text)
        /\ short => \A i \in DOMAIN SubSeq(list, 1, n - 2) : Len(SubSeq(list, 1, n - 2)[i]) <= MaxLength
        /\ \A t, i : i \in 1..(n - 2) /\ In(t, list[i]) => InSome(t, SubSeq(list, 1, n - 2))
    BY <1>1, <1>3, FrontHolds
  <2>4. /\ Tidied(list) \in Seq(Text)
        /\ short => \A i \in DOMAIN Tidied(list) : Len(Tidied(list)[i]) <= MaxLength
        /\ \A t : InSome(t, SubSeq(list, 1, n - 2)) \/ In(t, joined) => InSome(t, Tidied(list))
    <3> DEFINE front == SubSeq(list, 1, n - 2)
    <3> HIDE DEF joined, front
    <3>1. front \in Seq(Text) /\ joined \in Text /\ Tidied(list) = Append(front, joined)
      BY <1>3, <2>2, <2>3 DEF front
    <3>2. short => \A i \in DOMAIN front : Len(front[i]) <= MaxLength
      BY <2>3 DEF front
    <3>3. Len(joined) <= MaxLength
      BY <1>3
    <3>4. /\ Tidied(list) \in Seq(Text)
          /\ \A t : InSome(t, front) \/ In(t, joined) => InSome(t, Tidied(list))
      BY <3>1, AppendHolds
    <3>5. MaxLength \in Int
      BY <1>1
    <3>6. short => \A i \in DOMAIN Tidied(list) : Len(Tidied(list)[i]) <= MaxLength
      <4> HIDE DEF short
      <4>1. QED
        BY <3>1, <3>2, <3>3, <3>5, AppendHolds
    <3>7. QED
      BY <3>4, <3>6 DEF front
  <2>5. ASSUME NEW t, InSome(t, list) PROVE InSome(t, Tidied(list))
    <3>1. PICK i \in 1..n : In(t, list[i])
      BY <1>1, <2>5 DEF InSome
    <3>2. i \in 1..(n - 2) \/ i = n - 1 \/ i = n
      BY <1>1, Places
    <3>3. QED
      BY <2>2, <2>3, <2>4, <3>1, <3>2
  <2>6. QED
    BY <2>4, <2>5
<1>4. CASE n > 1 /\ Tidied(list) = SubSeq(list, 1, n - 1) /\ Mute(list[n])
  <2>1. /\ Tidied(list) \in Seq(Text)
        /\ short => \A i \in DOMAIN Tidied(list) : Len(Tidied(list)[i]) <= MaxLength
        /\ \A t, i : i \in 1..(n - 1) /\ In(t, list[i]) => InSome(t, Tidied(list))
    BY <1>1, <1>4, FrontHolds
  <2>2. ASSUME NEW t, InSome(t, list) PROVE t \in mute \/ InSome(t, Tidied(list))
    <3>1. PICK i \in 1..n : In(t, list[i])
      BY <1>1, <2>2 DEF InSome
    <3>2. CASE i = n
      BY <1>4, <3>1, <3>2 DEF Mute, In
    <3>3. CASE i \in 1..(n - 1)
      BY <2>1, <3>1, <3>3
    <3>4. QED
      BY <1>1, <3>2, <3>3, Places
  <2>3. QED
    BY <2>1, <2>2
<1>5. QED
  <2>1. \/ Tidied(list) = list
        \/ n > 1 /\ Tidied(list) = Append(SubSeq(list, 1, n - 2), joined) /\ Len(joined) <= MaxLength
        \/ n > 1 /\ Tidied(list) = SubSeq(list, 1, n - 1) /\ Mute(list[n])
    <3>1. n <= 1 \/ n > 1
      BY <1>1
    <3>2. QED
      BY <3>1 DEF Tidied
  <2>2. QED
    BY <1>2, <1>3, <1>4, <2>1

\* Cutting leaves a text, and a chunk that fits is not cut.
LEMMA ClampedIsText ==
  ASSUME NEW c \in Text
  PROVE  Clamped(c) \in Text /\ (Len(c) <= MaxLength => Clamped(c) = c)
<1>1. Len(c) \in Nat /\ MaxLength \in Nat /\ DOMAIN c = 1..Len(c) /\ \A i \in 1..Len(c) : c[i] \in Nat
  BY ChunkerConstantsOK, LenProperties DEF Text
<1>2. CASE Len(c) <= MaxLength
  BY <1>2 DEF Clamped
<1>3. CASE Len(c) > MaxLength
  <2>1. \A m \in {MaxLength - 1, MaxLength} : SubSeq(c, 1, m) \in Text
    BY <1>1, <1>3, SubSeqProperties DEF Text
  <2>2. \E m \in {MaxLength - 1, MaxLength} : Clamped(c) = SubSeq(c, 1, m)
    BY <1>1, <1>3 DEF Clamped
  <2>3. ~(Len(c) <= MaxLength)
    BY <1>1, <1>3
  <2>4. QED
    BY <2>1, <2>2, <2>3
<1>4. QED
  BY <1>1, <1>2, <1>3

\* Of a text of words the clamp cuts nothing, and only mute tokens are dropped.
LEMMA FinishKeeps ==
  ASSUME IInv, Finish
  PROVE  IInv'
<1> DEFINE list == Tidied(Flush)
<1>1. /\ ~done /\ done' = TRUE /\ end = pos /\ current' = <<>> /\ size' = 0
      /\ mute' = mute /\ joint' = joint /\ pos' = pos /\ end' = end
      /\ chunks' = [i \in DOMAIN list |-> Clamped(list[i])]
  BY DEF Finish
<1>2. /\ JointOK /\ pos \in Nat /\ current \in Text
      /\ chunks \in Seq(Text) /\ MaxLength \in Nat /\ Room \in Nat /\ Room <= MaxLength
      /\ Covered /\ (joint = <<>> => Fits)
      /\ ChunkSize \in Nat /\ <<>> \in Text /\ Len(current) \in Nat
  BY <1>1, ChunkerConstantsOK, EmptySeq, LenProperties DEF IInv, TypeOK, Room, Text
<1>3. /\ Flush \in Seq(Text)
      /\ joint = <<>> => \A i \in DOMAIN Flush : Len(Flush[i]) <= Room
      /\ \A t \in 1..pos : InSome(t, Flush)
  <2>1. CASE current = <<>>
    BY <1>2, <2>1 DEF Flush, Fits, Covered, In
  <2>2. CASE current # <<>>
    <3>1. Flush = Append(chunks, current)
      BY <2>2 DEF Flush
    <3>2. joint = <<>> => Len(current) <= Room
      BY <1>2 DEF Fits, TypeOK, IInv
    <3>3. QED
      BY <1>2, <3>1, <3>2, AppendHolds DEF Fits, Covered
  <2>3. QED
    BY <2>1, <2>2
<1>4. \A i \in DOMAIN Flush : Len(Flush[i]) \in Nat
  BY <1>3, LenProperties DEF Text
<1>5. joint = <<>> => \A i \in DOMAIN Flush : Len(Flush[i]) <= MaxLength
  BY <1>2, <1>3, <1>4
<1>6. /\ list \in Seq(Text)
      /\ joint = <<>> => \A i \in DOMAIN list : Len(list[i]) <= MaxLength
      /\ \A t \in 1..pos : t \in mute \/ InSome(t, list)
  BY <1>2, <1>3, <1>5, TidiedHolds
<1> HIDE DEF list
<1>7. DOMAIN list = 1..Len(list) /\ Len(list) \in Nat /\ \A i \in DOMAIN list : list[i] \in Text
  BY <1>6, LenProperties
<1>8. \A i \in 1..Len(list) : Clamped(list[i]) \in Text
  BY <1>7, ClampedIsText
<1>9. chunks' \in Seq(Text)
  BY <1>1, <1>7, <1>8
<1>10. TextKept'
  <2>1. SUFFICES ASSUME joint = <<>>, NEW t \in 1..pos PROVE t \in mute \/ InSome(t, chunks')
    BY <1>1 DEF TextKept
  <2>2. \A i \in DOMAIN list : Clamped(list[i]) = list[i]
    BY <1>6, <1>7, <2>1, ClampedIsText
  <2>3. DOMAIN chunks' = DOMAIN list /\ \A i \in DOMAIN list : chunks'[i] = list[i]
    BY <1>1, <2>2
  <2>4. QED
    BY <1>6, <2>3 DEF InSome
<1>11. QED
  BY <1>1, <1>2, <1>9, <1>10 DEF IInv, TypeOK, JointOK

-----------------------------------------------------------------------------
(* The theorems.                                                           *)

\* The tokens from a to b, which fit a chunk.
LEMMA PieceLength ==
  ASSUME NEW a \in Nat \ {0}, NEW b \in Nat, a <= b, b - a < ChunkSize
  PROVE  b - a + 1 \in 1..ChunkSize
BY ChunkerConstantsOK

\* A step that hands over a piece goes on from what the merger packed.
LEMMA PieceKeeps ==
  ASSUME IInv, ~done, mute' = mute, joint' = joint, done' = done,
         NEW a \in Nat \ {0}, a <= pos + 1, a <= pos', pos' \in Nat, pos <= pos', end' \in Nat, pos' <= end',
         end' > pos' => pos' >= ChunkSize, pos' - a < ChunkSize, Merge(Tokens(a, pos'))
  PROVE  IInv'
<1>1. TypeOK /\ (joint = <<>> => Fits) /\ Covered /\ pos \in Nat /\ ChunkSize \in Nat
  BY ChunkerConstantsOK DEF IInv, TypeOK
<1> DEFINE piece == Tokens(a, pos')
<1>9. pos' - a + 1 \in 1..ChunkSize
  BY PieceLength
<1>2. piece \in Text /\ Len(piece) = pos' - a + 1 /\ \A t \in a..pos' : In(t, piece)
  BY <1>9, TokensHold
<1> HIDE DEF piece
<1>3. Merge(piece)
  BY DEF piece
<1>4. Len(piece) \in 1..ChunkSize
  BY <1>2, <1>9
<1>5. /\ current' \in Text /\ size' \in Nat /\ (current' = <<>> => size' = 0)
      /\ chunks' \in Seq(Text)
      /\ joint = <<>> => Fits'
      /\ \A t : In(t, current) \/ InSome(t, chunks) \/ In(t, piece)
                => In(t, current') \/ InSome(t, chunks')
  BY <1>1, <1>2, <1>3, <1>4, MergeHolds
<1>6. Covered'
  <2>1. SUFFICES ASSUME NEW t \in 1..pos' PROVE In(t, current') \/ InSome(t, chunks')
    BY DEF Covered
  <2>2. t \in 1..pos \/ t \in a..pos'
    BY <1>1
  <2>3. QED
    BY <1>1, <1>2, <1>5, <2>2 DEF Covered
<1>7. TypeOK'
  BY <1>1, <1>5 DEF TypeOK, JointOK
<1>8. QED
  BY <1>5, <1>6, <1>7 DEF IInv, TextKept

\* While a text is read, every token handed over is in a chunk or in the one
\* being packed, and of words neither holds more than it may.
THEOREM Inductive == ChunkSpec => []IInv
<1>1. ChunkInit => IInv
  <2>1. SUFFICES ASSUME ChunkInit PROVE IInv
    OBVIOUS
  <2>2. <<>> \in Text /\ Len(<<>>) = 0 /\ <<>> \in Seq(Text) /\ DOMAIN <<>> = {}
    BY EmptySeq DEF Text
  <2>3. TypeOK
    <3>1. /\ JointOK /\ done \in BOOLEAN /\ current \in Text /\ chunks \in Seq(Text)
      BY <2>1, <2>2 DEF ChunkInit, JointOK
    <3>2. pos = 0 /\ end = 0 /\ size = 0
      BY <2>1 DEF ChunkInit
    <3>3. QED
      BY <3>1, <3>2, ChunkerConstantsOK DEF TypeOK
  <2>4. Fits /\ Covered /\ TextKept
    BY <2>1, <2>2, ChunkerConstantsOK DEF ChunkInit, Fits, Room, Covered, TextKept
  <2>5. QED
    BY <2>3, <2>4 DEF IInv
<1>2. IInv /\ [ChunkNext]_chunkVars => IInv'
  <2>1. SUFFICES ASSUME IInv, [ChunkNext]_chunkVars PROVE IInv'
    OBVIOUS
  <2>2. /\ pos \in Nat /\ end \in Nat /\ pos <= end /\ (end > pos => pos >= ChunkSize)
        /\ ChunkSize \in Nat \ {0} /\ Overlap \in 0..(ChunkSize - 1) /\ TextLimit \in Nat
    BY <2>1, ChunkerConstantsOK DEF IInv, TypeOK
  <2>3. CASE ReadRun
    <3>1. PICK n \in 1..(TextLimit - pos) :
            /\ end' = pos + n /\ pos' = IF n <= ChunkSize THEN pos + n ELSE pos + ChunkSize
            /\ Merge(Tokens(pos + 1, pos'))
      BY <2>3 DEF ReadRun
    <3>2. /\ pos' \in Nat /\ end' \in Nat /\ pos + 1 <= pos' /\ pos' <= end'
          /\ (end' > pos' => pos' >= ChunkSize) /\ pos' - (pos + 1) < ChunkSize
      BY <2>2, <3>1
    <3>3. ~done /\ UNCHANGED <<mute, joint, done>> /\ pos + 1 \in Nat \ {0} /\ pos <= pos'
      BY <2>2, <2>3, <3>2 DEF ReadRun
    <3>4. QED
      BY <2>1, <3>1, <3>2, <3>3, PieceKeeps
  <2>4. CASE ReadSlice
    <3>1. /\ ~done /\ end > pos /\ UNCHANGED <<mute, joint, end, done>>
          /\ pos' = IF pos - Overlap + ChunkSize < end THEN pos - Overlap + ChunkSize ELSE end
          /\ Merge(Tokens(pos - Overlap + 1, pos'))
      BY <2>4 DEF ReadSlice
    <3>2. /\ pos - Overlap + 1 \in Nat \ {0} /\ pos - Overlap + 1 <= pos + 1
          /\ pos - Overlap + 1 <= pos'
          /\ pos' \in Nat /\ pos <= pos' /\ end' \in Nat /\ pos' <= end'
          /\ (end' > pos' => pos' >= ChunkSize) /\ pos' - (pos - Overlap + 1) < ChunkSize
      BY <2>2, <3>1
    <3>3. QED
      BY <2>1, <3>1, <3>2, PieceKeeps
  <2>5. CASE Finish
    BY <2>1, <2>5, FinishKeeps
  <2>6. CASE Done \/ UNCHANGED chunkVars
    BY <2>1, <2>6 DEF Done, chunkVars, IInv, TypeOK, JointOK, Fits, Covered, TextKept
  <2>7. QED
    BY <2>1, <2>3, <2>4, <2>5, <2>6 DEF ChunkNext
<1>3. QED
  BY <1>1, <1>2, PTL DEF ChunkSpec

\* For every chunk size, overlap, ceiling and text of words, what is not in any
\* chunk in the end is a token without a letter or a digit.
THEOREM NothingLost == ChunkSpec => []TextKept
<1>1. IInv => TextKept
  BY DEF IInv
<1>2. QED
  BY <1>1, Inductive, PTL

-----------------------------------------------------------------------------
(* The evaluation.                                                         *)

ScoreMap == {<<>>} \cup UNION {[M -> Scores] : M \in SUBSET Metrics}

ResultType == [failed : BOOLEAN, scores : ScoreMap]

TaskState == {"none", "waiting", "predicting", "scoring", "done", "cancelled"}

Call == {NoAccess} \cup [op : {"get", "delete", "vanished"}, run : Runs]

ETypeOK ==
  /\ run \in [Runs -> {"idle", "running", "reported", "aborted"}]
  /\ task \in [Runs -> [Samples -> TaskState]]
  /\ free \in Nat
  /\ result \in [Runs -> [Samples -> ResultType]]
  /\ DOMAIN report = Runs
  /\ file \in [Runs -> {"absent", "temp", "whole", "deleted"}]
  /\ listing \in [on : BOOLEAN, left : SUBSET Runs, shown : SUBSET Runs, owed : SUBSET Runs]
  /\ access \in [Clients -> Call]
  /\ DOMAIN tally = Runs

\* A run that is not started has no task, and a result is filled in as its
\* sample goes through the prediction and the scoring.
Fresh ==
  \A r \in Runs, s \in Samples :
    /\ run[r] = "idle" => task[r][s] = "none"
    /\ task[r][s] \in {"none", "waiting", "predicting", "cancelled"} => result[r][s] = NoResult
    /\ task[r][s] = "scoring" => result[r][s].scores = <<>>

\* The report says what the results were, and they cannot change any more.
Faithful ==
  \A r \in Runs : run[r] = "reported" =>
    /\ \A s \in Samples : task[r][s] = "done"
    /\ report[r] = [count |-> Cardinality(Samples),
                    failures |-> Cardinality({s \in Samples : result[r][s].failed}),
                    results |-> result[r], stats |-> Stats(result[r])]

Failing(results) == {s \in Samples : results[s].failed}

Having(results, m) == {s \in Samples : m \in DOMAIN results[s].scores}

ScoreSum(results, m, S) == FoldSet(LAMBDA s, acc : acc + results[s].scores[m], 0, S)

\* t is what there is to be counted in the results.
TallyOf(t, results) ==
  /\ t \in [failures : Nat, sum : [Metrics -> Int], count : [Metrics -> Nat]]
  /\ t.failures = Cardinality(Failing(results))
  /\ \A m \in Metrics : /\ t.count[m] = Cardinality(Having(results, m))
                        /\ t.sum[m] = ScoreSum(results, m, Having(results, m))

\* What was counted as it came in is what is there.
Tallied == \A r \in Runs : TallyOf(tally[r], result[r])

\* What a listing owes is there to be read, now or already.
OwedThere ==
  /\ \A r \in listing.owed : file[r] = "whole"
  /\ listing.owed \subseteq listing.left \cup listing.shown

\* A file that a call has found stays whole unless it is deleted.
FoundOrDeleted ==
  \A u \in Clients :
    /\ access[u].op \in {"get", "delete"} => file[access[u].run] \in {"whole", "deleted"}
    /\ access[u].op = "vanished" => file[access[u].run] = "deleted"

EInv ==
  ETypeOK /\ Fresh /\ SlotsKept /\ Faithful /\ Tallied /\ OwedThere /\ FoundOrDeleted

-----------------------------------------------------------------------------
(* What a step leaves alone.                                               *)

LEMMA ScoresOfAMap ==
  ASSUME NEW x \in ScoreMap
  PROVE  DOMAIN x \subseteq Metrics /\ \A m \in DOMAIN x : x[m] \in Scores
BY DEF ScoreMap

LEMMA ScoresAreNumbers == \A x \in Scores : x \in Int
BY EvaluationConstants DEF EvaluationConstants

\* The samples inside the semaphore's block are countable.
LEMMA ActiveFinite ==
  /\ IsFiniteSet(Runs \X Samples)
  /\ \A S \in SUBSET (Runs \X Samples) : IsFiniteSet(S) /\ Cardinality(S) \in Nat
  /\ Active \subseteq Runs \X Samples
  /\ IsFiniteSet(Active) /\ Cardinality(Active) \in Nat
<1>1. IsFiniteSet(Runs \X Samples)
  BY EvaluationConstants, FS_Product DEF EvaluationConstants
<1>2. Active \subseteq Runs \X Samples
  BY DEF Active
<1> QED
  BY <1>1, <1>2, FS_Subset, FS_CardinalityType

\* What belongs to the semaphore and the reports stays as it is.
Kept == run' = run /\ task' = task /\ free' = free /\ result' = result /\ report' = report /\ tally' = tally

LEMMA KeptKeeps ==
  ASSUME EInv, Kept
  PROVE  Fresh' /\ SlotsKept' /\ Faithful' /\ Tallied'
<1>1. Fresh'
  BY DEF EInv, Kept, Fresh
<1>2. SlotsKept' /\ Faithful'
  BY DEF EInv, Kept, SlotsKept, Active, Faithful
<1>3. Tallied'
  BY DEF EInv, Kept, Tallied
<1> QED
  BY <1>1, <1>2, <1>3

\* What belongs to the files stays as it is.
FilesKept == file' = file /\ listing' = listing /\ access' = access

LEMMA FilesKeptKeep ==
  ASSUME EInv, FilesKept
  PROVE  OwedThere' /\ FoundOrDeleted'
BY DEF EInv, FilesKept, OwedThere, FoundOrDeleted

-----------------------------------------------------------------------------
(* The sum of the scores: FoldSet is defined by recursion over the subsets  *)
(* of the samples, so its type needs an induction over finite sets.         *)

\* The element FoldSet takes first.
Pick(T) == CHOOSE x \in T : TRUE

\* g gives the sum of f over every subset of S.
Sums(g, S, f) ==
  g = [T \in SUBSET S |-> IF T = {} THEN 0 ELSE g[T \ {Pick(T)}] + f[Pick(T)]]

\* There is such a function: sets of n + 1 elements are summed from those of n.
LEMMA SumExists ==
  ASSUME NEW S, IsFiniteSet(S), NEW f
  PROVE  \E g : Sums(g, S, f)
<1> DEFINE D(n) == {T \in SUBSET S : Cardinality(T) <= n}
           N == {n \in Nat : \E g : g = [T \in D(n) |->
                   IF T = {} THEN 0 ELSE g[T \ {Pick(T)}] + f[Pick(T)]]}
<1>1. \A T \in SUBSET S : IsFiniteSet(T) /\ Cardinality(T) \in Nat
  BY FS_Subset, FS_CardinalityType
<1>2. \A n \in Nat : \A T \in D(n + 1) : T # {} => T \ {Pick(T)} \in D(n)
  <2> SUFFICES ASSUME NEW n \in Nat, NEW T \in D(n + 1), T # {}
               PROVE  T \ {Pick(T)} \in D(n)
    OBVIOUS
  <2>1. Pick(T) \in T
    BY DEF Pick
  <2>2. Cardinality(T \ {Pick(T)}) = Cardinality(T) - 1
    BY <1>1, <2>1, FS_RemoveElement
  <2> QED
    BY <1>1, <2>2
<1>3. \A n \in Nat : \A T \in D(n) : T \in D(n + 1)
  BY <1>1
<1>4. D(0) = {{}}
  BY <1>1, FS_EmptySet
<1>5. 0 \in N
  <2>1. [T \in D(0) |-> 0] = [T \in D(0) |->
           IF T = {} THEN 0 ELSE [U \in D(0) |-> 0][T \ {Pick(T)}] + f[Pick(T)]]
    BY <1>4
  <2> QED
    BY <2>1
<1>6. ASSUME NEW n \in Nat, n \in N PROVE n + 1 \in N
  <2>1. PICK g : g = [T \in D(n) |->
           IF T = {} THEN 0 ELSE g[T \ {Pick(T)}] + f[Pick(T)]]
    BY <1>6
  <2> DEFINE h == [T \in D(n + 1) |->
           IF T = {} THEN 0 ELSE g[T \ {Pick(T)}] + f[Pick(T)]]
  <2> HIDE DEF D
  <2>2. \A T \in D(n) : h[T] = g[T]
    BY <1>3, <2>1
  <2>3. h = [T \in D(n + 1) |->
           IF T = {} THEN 0 ELSE h[T \ {Pick(T)}] + f[Pick(T)]]
    BY <1>2, <2>2
  <2> QED
    <3>1. \E k : k = [T \in D(n + 1) |->
           IF T = {} THEN 0 ELSE k[T \ {Pick(T)}] + f[Pick(T)]]
      BY <2>3
    <3> QED
      BY <3>1
<1>7. \A n \in Nat : n \in N
  <2> HIDE DEF N
  <2> QED
    BY <1>5, <1>6, Counting
<1>8. D(Cardinality(S)) = SUBSET S
  BY <1>1, FS_Subset
<1> QED
  <2>1. Cardinality(S) \in N
    BY <1>1, <1>7
  <2> HIDE DEF D
  <2>2. PICK g : g = [T \in D(Cardinality(S)) |->
           IF T = {} THEN 0 ELSE g[T \ {Pick(T)}] + f[Pick(T)]]
    BY <2>1
  <2> QED
    BY <1>8, <2>2 DEF Sums

-----------------------------------------------------------------------------
(* Counting one thing more.                                                *)

\* Sums do not depend on what lies outside the set that is summed over.
LEMMA SumsSame ==
  ASSUME NEW S, IsFiniteSet(S), NEW U, S \subseteq U, NEW f, NEW f2, NEW g, NEW g2,
         Sums(g, S, f), Sums(g2, U, f2), \A y \in S : f2[y] = f[y]
  PROVE  \A T \in SUBSET S : g2[T] = g[T]
<1> DEFINE Q == {T \in SUBSET S : g2[T] = g[T]}
<1>1. \A T \in SUBSET S : T # {} => Pick(T) \in T /\ T \ {Pick(T)} \in SUBSET S
  BY DEF Pick
<1>2. \A T \in SUBSET S : g2[T] = IF T = {} THEN 0 ELSE g2[T \ {Pick(T)}] + f2[Pick(T)]
  BY DEF Sums
<1>3. \A T \in SUBSET S : g[T] = IF T = {} THEN 0 ELSE g[T \ {Pick(T)}] + f[Pick(T)]
  BY DEF Sums
<1>4. {} \in Q
  BY <1>2, <1>3
<1>5. \A T \in SUBSET S : T # {} /\ (\A y \in T : T \ {y} \in Q) => T \in Q
  BY <1>1, <1>2, <1>3
<1>6. \A T \in SUBSET S : T \in Q
  <2> HIDE DEF Q
  <2> QED
    BY <1>4, <1>5, Growing
<1> QED
  BY <1>6

\* Sums of numbers are numbers.
LEMMA SumsType ==
  ASSUME NEW S, IsFiniteSet(S), NEW f, NEW g, Sums(g, S, f), \A y \in S : f[y] \in Int
  PROVE  \A T \in SUBSET S : g[T] \in Int
<1> DEFINE Q == {T \in SUBSET S : g[T] \in Int}
<1>1. \A T \in SUBSET S : T # {} => Pick(T) \in T /\ T \ {Pick(T)} \in SUBSET S
  BY DEF Pick
<1>2. \A T \in SUBSET S : g[T] = IF T = {} THEN 0 ELSE g[T \ {Pick(T)}] + f[Pick(T)]
  BY DEF Sums
<1>3. {} \in Q
  BY <1>2
<1>4. \A T \in SUBSET S : T # {} /\ (\A y \in T : T \ {y} \in Q) => T \in Q
  <2> SUFFICES ASSUME NEW T \in SUBSET S, T # {}, \A y \in T : T \ {y} \in Q PROVE T \in Q
    OBVIOUS
  <2>1. PICK x : x = Pick(T)
    OBVIOUS
  <2>2. x \in T /\ g[T \ {x}] \in Int /\ f[x] \in Int /\ g[T] = g[T \ {x}] + f[x]
    BY <1>1, <1>2, <2>1
  <2> QED
    BY <2>2
<1>5. \A T \in SUBSET S : T \in Q
  <2> HIDE DEF Q
  <2> QED
    BY <1>3, <1>4, Growing
<1> QED
  BY <1>5

\* An element may be taken out of a sum, whichever the sum took first.
LEMMA SumsTake ==
  ASSUME NEW S, IsFiniteSet(S), NEW f, NEW g, Sums(g, S, f), \A y \in S : f[y] \in Int
  PROVE  \A T \in SUBSET S : \A y \in T : g[T] = g[T \ {y}] + f[y]
<1> DEFINE R == {T \in SUBSET S : \A y \in T : g[T] = g[T \ {y}] + f[y]}
<1>1. \A T \in SUBSET S : T # {} => Pick(T) \in T /\ T \ {Pick(T)} \in SUBSET S
  BY DEF Pick
<1>2. \A T \in SUBSET S : g[T] \in Int /\ (T # {} => g[T] = g[T \ {Pick(T)}] + f[Pick(T)])
  <2>1. \A T \in SUBSET S : g[T] \in Int
    BY SumsType
  <2> QED
    BY <2>1 DEF Sums
<1>3. {} \in R
  OBVIOUS
<1>4. ASSUME NEW T \in SUBSET S, T # {}, \A y \in T : T \ {y} \in R PROVE T \in R
  <2>1. PICK p : p = Pick(T)
    OBVIOUS
  <2>2. p \in T /\ T \ {p} \in R /\ g[T] = g[T \ {p}] + f[p]
    BY <1>1, <1>2, <1>4, <2>1
  <2>3. ASSUME NEW y \in T, y # p PROVE g[T] = g[T \ {y}] + f[y]
    <3>1. T \ {y} \in R /\ p \in T \ {y} /\ y \in T \ {p}
      BY <1>4, <2>2, <2>3
    <3>2. (T \ {y}) \ {p} = (T \ {p}) \ {y}
      OBVIOUS
    <3>3. /\ g[T \ {y}] = g[(T \ {p}) \ {y}] + f[p]
          /\ g[T \ {p}] = g[(T \ {p}) \ {y}] + f[y]
      BY <2>2, <3>1, <3>2
    <3>4. /\ g[(T \ {p}) \ {y}] \in Int /\ f[p] \in Int /\ f[y] \in Int
          /\ g[T] \in Int /\ g[T \ {p}] \in Int /\ g[T \ {y}] \in Int
      BY <1>2, <2>2, <2>3
    <3> QED
      BY <2>2, <3>3, <3>4
  <2> QED
    BY <2>2, <2>3
<1>5. \A T \in SUBSET S : T \in R
  <2> HIDE DEF R
  <2> QED
    BY <1>3, <1>4, Growing
<1> QED
  BY <1>5

\* The fold that adds up the scores gives their sum.
LEMMA ScoreSums ==
  ASSUME NEW S, IsFiniteSet(S), NEW m, NEW results
  PROVE  \E g : Sums(g, S, [s \in S |-> results[s].scores[m]]) /\ ScoreSum(results, m, S) = g[S]
<1> DEFINE f == [s \in S |-> results[s].scores[m]]
<1>1. PICK g : Sums(g, S, f)
  <2> HIDE DEF f
  <2> QED
    BY SumExists
<1>2. g = [T \in SUBSET S |->
           IF T = {} THEN 0 ELSE g[T \ {Pick(T)}] + results[Pick(T)].scores[m]]
  BY <1>1 DEF Pick, Sums
<1> DEFINE iter == CHOOSE h : h = [T \in SUBSET S |->
           IF T = {} THEN 0 ELSE h[T \ {Pick(T)}] + results[Pick(T)].scores[m]]
<1>3. iter = [T \in SUBSET S |->
           IF T = {} THEN 0 ELSE iter[T \ {Pick(T)}] + results[Pick(T)].scores[m]]
  BY <1>2
<1>4. ScoreSum(results, m, S) = iter[S]
  BY DEF ScoreSum, FoldSet, MapThenFoldSet, Pick
<1> HIDE DEF iter
<1>5. Sums(iter, S, f)
  BY <1>3 DEF Pick, Sums
<1> QED
  BY <1>4, <1>5

\* The sum of the scores of a metric is a number.
LEMMA SumType ==
  ASSUME NEW S, IsFiniteSet(S), NEW m, NEW results, \A s \in S : results[s].scores[m] \in Int
  PROVE  ScoreSum(results, m, S) \in Int
<1> DEFINE f == [s \in S |-> results[s].scores[m]]
<1>1. PICK g : Sums(g, S, f) /\ ScoreSum(results, m, S) = g[S]
  BY ScoreSums
<1>2. \A s \in S : f[s] \in Int
  OBVIOUS
<1> HIDE DEF f
<1> QED
  BY <1>1, <1>2, SumsType

\* Scores that are the same have the same sum.
LEMMA SumStays ==
  ASSUME NEW S, IsFiniteSet(S), NEW m, NEW old, NEW new,
         \A s \in S : new[s].scores[m] = old[s].scores[m]
  PROVE  ScoreSum(new, m, S) = ScoreSum(old, m, S)
<1> DEFINE f == [s \in S |-> old[s].scores[m]]
           f2 == [s \in S |-> new[s].scores[m]]
<1>1. PICK g : Sums(g, S, f) /\ ScoreSum(old, m, S) = g[S]
  BY ScoreSums
<1>2. PICK U, g2 : U = S /\ Sums(g2, U, f2) /\ ScoreSum(new, m, S) = g2[S]
  BY ScoreSums
<1>3. S \subseteq U /\ \A s \in S : f2[s] = f[s]
  BY <1>2
<1> HIDE DEF f, f2
<1>4. \A T \in SUBSET S : g2[T] = g[T]
  <2>1. Sums(g, S, f) /\ Sums(g2, U, f2)
    BY <1>1, <1>2
  <2> QED
    BY <1>3, <2>1, SumsSame
<1> QED
  BY <1>1, <1>2, <1>4

SameScores(old, new, m, S) == \A s \in S : new[s].scores[m] = old[s].scores[m]

NumbersIn(results, m, S) == \A s \in S : results[s].scores[m] \in Int

\* One score more is added to the sum.
LEMMA SumGrows ==
  ASSUME NEW U, IsFiniteSet(U), NEW x \in U, NEW m, NEW old, NEW new,
         SameScores(old, new, m, U \ {x}), NumbersIn(new, m, U)
  PROVE  ScoreSum(new, m, U) = ScoreSum(old, m, U \ {x}) + new[x].scores[m]
<1> DEFINE S == U \ {x}
           f == [s \in S |-> old[s].scores[m]]
           f2 == [s \in U |-> new[s].scores[m]]
<1>1. IsFiniteSet(S) /\ S \subseteq U
  BY FS_Subset
<1>2. PICK g : Sums(g, S, f) /\ ScoreSum(old, m, S) = g[S]
  <2> HIDE DEF S
  <2> QED
    BY <1>1, ScoreSums
<1>3. PICK g2 : Sums(g2, U, f2) /\ ScoreSum(new, m, U) = g2[U]
  BY ScoreSums
<1>4. (\A s \in S : f2[s] = f[s]) /\ (\A s \in U : f2[s] \in Int) /\ f2[x] = new[x].scores[m]
  BY DEF SameScores, NumbersIn
<1> HIDE DEF S, f, f2
<1>5. \A T \in SUBSET S : g2[T] = g[T]
  BY <1>1, <1>2, <1>3, <1>4, SumsSame
<1>6. g2[U] = g2[U \ {x}] + f2[x]
  BY <1>3, <1>4, SumsTake
<1> QED
  BY <1>1, <1>2, <1>3, <1>4, <1>5, <1>6 DEF S

LEMMA SetsFinite ==
  ASSUME NEW results, NEW m
  PROVE  /\ IsFiniteSet(Failing(results)) /\ Cardinality(Failing(results)) \in Nat
         /\ IsFiniteSet(Having(results, m)) /\ Cardinality(Having(results, m)) \in Nat
<1>1. Failing(results) \in SUBSET Samples /\ Having(results, m) \in SUBSET Samples
  BY DEF Failing, Having
<1> QED
  BY <1>1, EvaluationConstants, FS_Subset, FS_CardinalityType DEF EvaluationConstants

\* Of old and new, s alone has a prediction more.
Predicted(old, new, s) ==
  /\ old[s].failed = FALSE
  /\ \A q \in Samples : q # s => new[q].failed = old[q].failed
  /\ \A q \in Samples : new[q].scores = old[q].scores

\* u counts a failure more than t if failed says so.
CountsOne(t, u, failed) ==
  /\ u \in [failures : Nat, sum : [Metrics -> Int], count : [Metrics -> Nat]]
  /\ u.failures = IF failed THEN t.failures + 1 ELSE t.failures
  /\ u.sum = t.sum /\ u.count = t.count

\* One prediction more is counted.
LEMMA PredictionCounted ==
  ASSUME NEW old \in [Samples -> ResultType], NEW new \in [Samples -> ResultType],
         NEW t, NEW u, NEW s \in Samples, TallyOf(t, old),
         Predicted(old, new, s), CountsOne(t, u, new[s].failed)
  PROVE  TallyOf(u, new)
<1>1. /\ t \in [failures : Nat, sum : [Metrics -> Int], count : [Metrics -> Nat]]
      /\ t.failures = Cardinality(Failing(old))
      /\ \A m \in Metrics : /\ t.count[m] = Cardinality(Having(old, m))
                            /\ t.sum[m] = ScoreSum(old, m, Having(old, m))
  BY DEF TallyOf
<1>2. u.failures = Cardinality(Failing(new))
  <2>1. s \notin Failing(old) /\ IsFiniteSet(Failing(old))
    BY SetsFinite DEF Failing, Predicted
  <2>2. CASE new[s].failed
    <3>1. Failing(new) = Failing(old) \cup {s}
      BY <2>2 DEF Failing, Predicted
    <3>2. u.failures = t.failures + 1
      BY <2>2 DEF CountsOne
    <3>3. Cardinality(Failing(old) \cup {s}) = Cardinality(Failing(old)) + 1
      BY <2>1, FS_AddElement
    <3> QED
      BY <1>1, <3>1, <3>2, <3>3
  <2>3. CASE ~new[s].failed
    <3>1. Failing(new) = Failing(old)
      BY <2>3 DEF Failing, Predicted
    <3> QED
      BY <1>1, <2>3, <3>1 DEF CountsOne
  <2> QED
    BY <2>2, <2>3
<1>3. ASSUME NEW m \in Metrics
      PROVE  /\ u.count[m] = Cardinality(Having(new, m))
             /\ u.sum[m] = ScoreSum(new, m, Having(new, m))
  <2>1. Having(new, m) = Having(old, m)
    BY DEF Having, Predicted
  <2>2. PICK H : H = Having(old, m)
    OBVIOUS
  <2>3. IsFiniteSet(H) /\ \A q \in H : new[q].scores[m] = old[q].scores[m]
    BY <2>2, SetsFinite DEF Having, Predicted
  <2>4. ScoreSum(new, m, H) = ScoreSum(old, m, H)
    BY <2>3, SumStays
  <2> QED
    BY <1>1, <2>1, <2>2, <2>4 DEF CountsOne
<1> QED
  BY <1>2, <1>3 DEF TallyOf, CountsOne

\* The scores of one sample more are counted.
LEMMA ScoresCounted ==
  ASSUME NEW old \in [Samples -> ResultType], NEW new \in [Samples -> ResultType],
         NEW t, NEW s \in Samples, NEW f \in ScoreMap,
         TallyOf(t, old), old[s].scores = <<>>, new[s].scores = f,
         \A q \in Samples : q # s => new[q].scores = old[q].scores,
         \A q \in Samples : new[q].failed = old[q].failed
  PROVE  TallyOf(Counted(t, f), new)
<1> DEFINE u == Counted(t, f)
<1>1. /\ t \in [failures : Nat, sum : [Metrics -> Int], count : [Metrics -> Nat]]
      /\ t.failures = Cardinality(Failing(old))
      /\ \A m \in Metrics : /\ t.count[m] = Cardinality(Having(old, m))
                            /\ t.sum[m] = ScoreSum(old, m, Having(old, m))
  BY DEF TallyOf
<1>2. DOMAIN f \subseteq Metrics /\ \A m \in DOMAIN f : f[m] \in Int
  BY ScoresOfAMap, ScoresAreNumbers
<1>3. /\ u \in [failures : Nat, sum : [Metrics -> Int], count : [Metrics -> Nat]]
      /\ u.failures = t.failures
      /\ \A m \in Metrics : /\ u.sum[m] = IF m \in DOMAIN f THEN t.sum[m] + f[m] ELSE t.sum[m]
                            /\ u.count[m] = IF m \in DOMAIN f THEN t.count[m] + 1 ELSE t.count[m]
  <2>1. /\ t = [failures |-> t.failures, sum |-> t.sum, count |-> t.count]
        /\ t.sum \in [Metrics -> Int] /\ t.count \in [Metrics -> Nat] /\ t.failures \in Nat
    BY <1>1
  <2>a. u = [t EXCEPT
               !.sum = [m \in Metrics |-> IF m \in DOMAIN f THEN t.sum[m] + f[m] ELSE t.sum[m]],
               !.count = [m \in Metrics |-> IF m \in DOMAIN f THEN t.count[m] + 1 ELSE t.count[m]]]
    BY ZenonT(30) DEF Counted
  <2>2. u = [failures |-> t.failures,
             sum |-> [m \in Metrics |-> IF m \in DOMAIN f THEN t.sum[m] + f[m] ELSE t.sum[m]],
             count |-> [m \in Metrics |-> IF m \in DOMAIN f THEN t.count[m] + 1 ELSE t.count[m]]]
    BY <2>1, <2>a
  <2> HIDE DEF u
  <2>3. /\ u.failures = t.failures
        /\ u.sum = [m \in Metrics |-> IF m \in DOMAIN f THEN t.sum[m] + f[m] ELSE t.sum[m]]
        /\ u.count = [m \in Metrics |-> IF m \in DOMAIN f THEN t.count[m] + 1 ELSE t.count[m]]
        /\ u = [failures |-> u.failures, sum |-> u.sum, count |-> u.count]
    BY <2>2
  <2>4. u.sum \in [Metrics -> Int]
    BY <1>2, <2>1, <2>3
  <2>5. u.count \in [Metrics -> Nat]
    BY <2>1, <2>3
  <2> QED
    BY <2>1, <2>3, <2>4, <2>5
<1> HIDE DEF u
<1>4. Failing(new) = Failing(old)
  BY DEF Failing
<1>5. DOMAIN old[s].scores = {}
  OBVIOUS
<1>6. ASSUME NEW m \in Metrics
      PROVE  /\ u.count[m] = Cardinality(Having(new, m))
             /\ u.sum[m] = ScoreSum(new, m, Having(new, m))
  <2>1. PICK H : H = Having(old, m)
    OBVIOUS
  <2>2. /\ IsFiniteSet(H) /\ s \notin H
        /\ \A q \in H : new[q].scores[m] = old[q].scores[m]
        /\ \A q \in H : new[q].scores[m] \in Int
    <3>1. IsFiniteSet(H) /\ s \notin H
      BY <1>5, <2>1, SetsFinite DEF Having
    <3>2. ASSUME NEW q \in H
          PROVE  new[q].scores[m] = old[q].scores[m] /\ new[q].scores[m] \in Int
      <4>1. q \in Samples /\ q # s /\ m \in DOMAIN old[q].scores
        BY <2>1, <3>1 DEF Having
      <4>2. new[q].scores = old[q].scores /\ new[q].scores \in ScoreMap
        BY <4>1 DEF ResultType
      <4>3. new[q].scores[m] \in Scores
        BY <4>1, <4>2, ScoresOfAMap
      <4> QED
        BY <4>2, <4>3, ScoresAreNumbers
    <3> QED
      BY <3>1, <3>2
  <2>3. CASE m \in DOMAIN f
    <3>1. Having(new, m) = H \cup {s}
      BY <2>1, <2>3 DEF Having
    <3>2. Cardinality(H \cup {s}) = Cardinality(H) + 1
      BY <2>2, FS_AddElement
    <3>3. PICK U : U = H \cup {s}
      OBVIOUS
    <3>4. ScoreSum(new, m, U) = ScoreSum(old, m, U \ {s}) + new[s].scores[m]
      <4>1. U \ {s} = H /\ s \in U
        BY <2>2, <3>3
      <4>2. IsFiniteSet(U)
        BY <2>2, <3>3, FS_AddElement
      <4>3. SameScores(old, new, m, U \ {s})
        BY <2>2, <4>1 DEF SameScores
      <4>4. NumbersIn(new, m, U)
        BY <1>2, <2>2, <2>3, <3>3 DEF NumbersIn
      <4> QED
        BY <4>1, <4>2, <4>3, <4>4, SumGrows
    <3>5. U \ {s} = H
      BY <2>2, <3>3
    <3> QED
      BY <1>1, <1>3, <2>1, <2>3, <3>1, <3>2, <3>3, <3>4, <3>5
  <2>4. CASE m \notin DOMAIN f
    <3>1. Having(new, m) = H
      BY <2>1, <2>4, <1>5 DEF Having
    <3>2. ScoreSum(new, m, H) = ScoreSum(old, m, H)
      BY <2>2, SumStays
    <3> QED
      BY <1>1, <1>3, <2>1, <2>4, <3>1, <3>2
  <2> QED
    BY <2>3, <2>4
<1>7. u.failures = Cardinality(Failing(new))
  BY <1>1, <1>3, <1>4
<1>8. TallyOf(u, new)
  BY <1>3, <1>6, <1>7 DEF TallyOf
<1> QED
  BY <1>8 DEF u

\* Nothing is counted of results that are not there yet.
LEMMA NothingCounted == TallyOf(NoTally, [s \in Samples |-> NoResult])
<1> DEFINE results == [s \in Samples |-> NoResult]
<1>1. /\ NoTally \in [failures : Nat, sum : [Metrics -> Int], count : [Metrics -> Nat]]
      /\ NoTally.failures = 0
      /\ \A m \in Metrics : NoTally.sum[m] = 0 /\ NoTally.count[m] = 0
  BY DEF NoTally
<1>2. Failing(results) = {} /\ \A m \in Metrics : Having(results, m) = {}
  BY DEF Failing, Having, NoResult
<1> HIDE DEF results
<1>3. ASSUME NEW m \in Metrics PROVE ScoreSum(results, m, {}) = 0
  <2>1. PICK g : Sums(g, {}, [s \in {} |-> results[s].scores[m]]) /\ ScoreSum(results, m, {}) = g[{}]
    BY FS_EmptySet, ScoreSums
  <2>2. {} \in SUBSET {}
    OBVIOUS
  <2>3. g[{}] = 0
    BY <2>1, <2>2 DEF Sums
  <2> QED
    BY <2>1, <2>3
<1>4. TallyOf(NoTally, results)
  BY <1>1, <1>2, <1>3, FS_EmptySet DEF TallyOf
<1> QED
  BY <1>4 DEF results

-----------------------------------------------------------------------------
(* The initial state, and one lemma for each action.                       *)

LEMMA InitHolds == ASSUME EInit PROVE EInv
<1>1. ETypeOK
  BY EvaluationConstants
     DEF EInit, ETypeOK, Call, NoListing, NoResult, ResultType, ScoreMap, TaskState, EvaluationConstants
<1>2. Active = {}
  BY DEF EInit, Active
<1>3. SlotsKept
  BY <1>2, FS_EmptySet, EvaluationConstants DEF EInit, SlotsKept, EvaluationConstants
<1>4. Faithful /\ Fresh
  BY DEF EInit, Faithful, Fresh
<1>5. OwedThere /\ FoundOrDeleted
  BY DEF EInit, OwedThere, NoListing, FoundOrDeleted, NoAccess
<1>6. Tallied
  <2>1. \A r \in Runs : tally[r] = NoTally /\ result[r] = [s \in Samples |-> NoResult]
    BY DEF EInit
  <2> QED
    BY <2>1, NothingCounted DEF Tallied
<1> QED
  BY <1>1, <1>3, <1>4, <1>5, <1>6 DEF EInv

\* A run that has reported loses nothing while another one goes on.
LEMMA OthersGoOn ==
  ASSUME EInv, NEW r \in Runs, run[r] # "reported",
         \A q \in Runs : q # r => run'[q] = run[q] /\ result'[q] = result[q],
         run'[r] # "reported", report' = report,
         \A q \in Runs, t \in Samples : q # r => task'[q][t] = task[q][t]
  PROVE  Faithful'
<1> SUFFICES ASSUME NEW q \in Runs, run'[q] = "reported"
             PROVE  /\ \A s \in Samples : task'[q][s] = "done"
                    /\ report'[q] = [count |-> Cardinality(Samples),
                         failures |-> Cardinality({s \in Samples : result'[q][s].failed}),
                         results |-> result'[q], stats |-> Stats(result'[q])]
  BY DEF Faithful
<1>1. q # r /\ run[q] = "reported"
  OBVIOUS
<1> QED
  BY <1>1 DEF EInv, Faithful

LEMMA StartRunKeeps ==
  ASSUME EInv, NEW r \in Runs, StartRun(r)
  PROVE  EInv'
<1>1. ETypeOK'
  BY DEF EInv, StartRun, ETypeOK, TaskState
<1>2. /\ \A q \in Runs : q # r => task'[q] = task[q] /\ run'[q] = run[q]
      /\ run[r] = "idle" /\ run'[r] = "running"
  BY DEF EInv, StartRun, ETypeOK
<1>3. \A s \in Samples : task[r][s] = "none" /\ task'[r][s] = "waiting"
  BY <1>2 DEF EInv, StartRun, ETypeOK, Fresh
<1>4. Active' = Active
  BY <1>2, <1>3 DEF Active
<1>5. SlotsKept'
  BY <1>4 DEF EInv, SlotsKept, StartRun
<1>6. Faithful'
  BY <1>2, OthersGoOn DEF StartRun
<1>7. Fresh'
  BY <1>2, <1>3 DEF EInv, Fresh, StartRun
<1>8. Tallied'
  BY DEF EInv, Tallied, StartRun
<1>9. OwedThere' /\ FoundOrDeleted'
  BY FilesKeptKeep DEF StartRun, FilesKept
<1> QED
  BY <1>1, <1>5, <1>6, <1>7, <1>8, <1>9 DEF EInv

\* p enters the block of the semaphore, or leaves it.
Enters(p) == p \notin Active /\ Active' = Active \cup {p}
Leaves(p) == p \in Active /\ Active' = Active \ {p}

\* A sample that moves on is not one of a run that has reported, and the slots
\* are held by those inside the block.
LEMMA Moving ==
  ASSUME EInv, NEW r \in Runs, NEW s \in Samples, NEW from \in TaskState \ {"none", "done"},
         NEW to \in TaskState \ {"none"}, Advance(r, s, from, to)
  PROVE  /\ run[r] \notin {"idle", "reported"}
         /\ task' \in [Runs -> [Samples -> TaskState]]
         /\ task[r][s] = from /\ task'[r][s] = to
         /\ \A q \in Runs, t \in Samples : <<q, t>> # <<r, s>> => task'[q][t] = task[q][t]
         /\ from = "waiting" /\ to = "predicting" => Enters(<<r, s>>)
         /\ from \in {"predicting", "scoring"} /\ to \in {"done", "cancelled"} => Leaves(<<r, s>>)
<1>1. run[r] \notin {"idle", "reported"} /\ task[r][s] = from
  BY DEF EInv, Faithful, Fresh, Advance
<1>2. task' \in [Runs -> [Samples -> TaskState]]
  BY DEF EInv, ETypeOK, Advance
<1>3. task'[r][s] = to
  BY DEF EInv, ETypeOK, Advance
<1>4. \A q \in Runs, t \in Samples : <<q, t>> # <<r, s>> => task'[q][t] = task[q][t]
  BY DEF EInv, ETypeOK, Advance
<1>5. /\ <<r, s>> \in Active <=> from \in {"predicting", "scoring"}
      /\ <<r, s>> \in Active' <=> to \in {"predicting", "scoring"}
  BY <1>1, <1>3 DEF Active
<1>6. Active \subseteq Runs \X Samples /\ Active' \subseteq Runs \X Samples
  BY DEF Active
<1>a. PICK p : p = <<r, s>>
  OBVIOUS
<1>b. \A x \in Runs \X Samples : x # p => (x \in Active <=> x \in Active')
  <2> SUFFICES ASSUME NEW q \in Runs, NEW t \in Samples, <<q, t>> # p
               PROVE  <<q, t>> \in Active <=> <<q, t>> \in Active'
    OBVIOUS
  <2>1. task'[q][t] = task[q][t]
    BY <1>4, <1>a
  <2> QED
    BY <2>1 DEF Active
<1>7. from = "waiting" /\ to = "predicting" => Enters(p)
  BY <1>5, <1>6, <1>a, <1>b DEF Enters
<1>9. from \in {"predicting", "scoring"} /\ to \in {"done", "cancelled"} => Leaves(p)
  BY <1>5, <1>6, <1>a, <1>b DEF Leaves
<1> QED
  BY <1>1, <1>2, <1>3, <1>4, <1>7, <1>9, <1>a

\* A slot is taken by one sample, or given back by one.
LEMMA SlotTaken ==
  ASSUME EInv, NEW p, Enters(p), free' = free - 1
  PROVE  SlotsKept'
<1>1. Cardinality(Active \cup {p}) = Cardinality(Active) + 1
  BY ActiveFinite, FS_AddElement DEF Enters
<1> QED
  BY <1>1, ActiveFinite DEF EInv, ETypeOK, SlotsKept, Enters

LEMMA SlotReleased ==
  ASSUME EInv, NEW p, Leaves(p), free' = free + 1
  PROVE  SlotsKept'
<1>1. Cardinality(Active \ {p}) = Cardinality(Active) - 1
  BY ActiveFinite, FS_RemoveElement DEF Leaves
<1> QED
  BY <1>1, ActiveFinite DEF EInv, ETypeOK, SlotsKept, Leaves

LEMMA AcquireKeeps ==
  ASSUME EInv, NEW r \in Runs, NEW s \in Samples, Acquire(r, s)
  PROVE  EInv'
<1>1. Advance(r, s, "waiting", "predicting") /\ free > 0 /\ free' = free - 1
  BY DEF Acquire
<1>2. /\ run[r] \notin {"idle", "reported"} /\ task' \in [Runs -> [Samples -> TaskState]]
      /\ task[r][s] = "waiting" /\ task'[r][s] = "predicting"
      /\ Enters(<<r, s>>)
      /\ \A q \in Runs, t \in Samples : <<q, t>> # <<r, s>> => task'[q][t] = task[q][t]
  BY <1>1, Moving DEF TaskState
<1>3. ETypeOK'
  BY <1>1, <1>2 DEF EInv, ETypeOK, Acquire
<1>4. SlotsKept'
  BY <1>1, <1>2, SlotTaken
<1>5. Faithful'
  BY <1>2, OthersGoOn DEF Acquire
<1>6. Fresh'
  BY <1>2 DEF EInv, Fresh, Acquire
<1>7. Tallied'
  BY DEF EInv, Tallied, Acquire
<1>8. OwedThere' /\ FoundOrDeleted'
  BY FilesKeptKeep DEF Acquire, FilesKept
<1> QED
  BY <1>3, <1>4, <1>5, <1>6, <1>7, <1>8 DEF EInv

\* One field of one result is filled in.
LEMMA Filled ==
  ASSUME EInv, NEW r \in Runs, NEW s \in Samples, NEW failed \in BOOLEAN, NEW f \in ScoreMap,
         \/ result' = [result EXCEPT ![r][s].failed = failed]
         \/ result' = [result EXCEPT ![r][s].scores = f]
  PROVE  /\ result' \in [Runs -> [Samples -> ResultType]]
         /\ \A q \in Runs : q # r => result'[q] = result[q]
         /\ \A q \in Samples : q # s => result'[r][q] = result[r][q]
<1>1. result \in [Runs -> [Samples -> ResultType]]
  BY DEF EInv, ETypeOK
<1>2. PICK x \in ResultType : result' = [result EXCEPT ![r] = [result[r] EXCEPT ![s] = x]]
  <2>1. /\ [result[r][s] EXCEPT !.failed = failed] \in ResultType
        /\ [result[r][s] EXCEPT !.scores = f] \in ResultType
    BY <1>1 DEF ResultType
  <2> QED
    BY <2>1
<1> QED
  BY <1>1, <1>2

\* The tallies of the other runs are not touched.
LEMMA OneTally ==
  ASSUME EInv, NEW r \in Runs, NEW u, tally' = [tally EXCEPT ![r] = u],
         \A q \in Runs : q # r => result'[q] = result[q], TallyOf(u, result'[r])
  PROVE  Tallied' /\ DOMAIN tally' = Runs
<1>1. DOMAIN tally = Runs
  BY DEF EInv, ETypeOK
<1>2. DOMAIN tally' = Runs /\ tally'[r] = u /\ \A q \in Runs : q # r => tally'[q] = tally[q]
  BY <1>1
<1>3. \A q \in Runs : TallyOf(tally'[q], result'[q])
  BY <1>2 DEF EInv, Tallied
<1> QED
  BY <1>2, <1>3 DEF Tallied

LEMMA PredictKeeps ==
  ASSUME EInv, NEW r \in Runs, NEW s \in Samples, Predict(r, s)
  PROVE  EInv'
<1>1. Advance(r, s, "predicting", "scoring")
  BY DEF Predict
<1>2. /\ run[r] \notin {"idle", "reported"} /\ task' \in [Runs -> [Samples -> TaskState]]
      /\ task[r][s] = "predicting" /\ task'[r][s] = "scoring"
      /\ \A q \in Runs, t \in Samples : <<q, t>> # <<r, s>> => task'[q][t] = task[q][t]
  <2>1. "predicting" \in TaskState \ {"none", "done"} /\ "scoring" \in TaskState \ {"none"}
    BY DEF TaskState
  <2>2. run[r] \notin {"idle", "reported"} /\ task' \in [Runs -> [Samples -> TaskState]]
    BY <1>1, <2>1, Moving
  <2>3. task[r][s] = "predicting" /\ task'[r][s] = "scoring"
    BY <1>1 DEF Advance, EInv, ETypeOK
  <2>4. \A q \in Runs, t \in Samples : <<q, t>> # <<r, s>> => task'[q][t] = task[q][t]
    BY <1>1, <2>1, Moving
  <2> QED
    BY <2>2, <2>3, <2>4
<1>3. PICK failed \in BOOLEAN :
        /\ result' = [result EXCEPT ![r][s].failed = failed]
        /\ tally' = [tally EXCEPT ![r].failures = IF failed THEN @ + 1 ELSE @]
  BY DEF Predict
<1>4. /\ result' \in [Runs -> [Samples -> ResultType]]
      /\ \A q \in Runs : q # r => result'[q] = result[q]
      /\ \A q \in Samples : q # s => result'[r][q] = result[r][q]
  <2>1. <<>> \in ScoreMap
    BY DEF ScoreMap
  <2> QED
    BY <1>3, <2>1, Filled
<1>5. /\ result[r][s] = NoResult /\ result'[r][s].failed = failed
      /\ result'[r][s].scores = result[r][s].scores
      /\ result[r] \in [Samples -> ResultType] /\ result'[r] \in [Samples -> ResultType]
  <2>1. result[r][s] = NoResult
    BY <1>2 DEF EInv, Fresh
  <2>2. result \in [Runs -> [Samples -> ResultType]]
    BY DEF EInv, ETypeOK
  <2>3. result'[r][s] = [result[r][s] EXCEPT !.failed = failed]
    BY <1>3, <2>2
  <2> QED
    BY <1>4, <2>1, <2>2, <2>3 DEF NoResult
<1>6. PICK u : /\ tally' = [tally EXCEPT ![r] = u]
               /\ u = [tally[r] EXCEPT !.failures = IF failed THEN @ + 1 ELSE @]
  BY <1>3 DEF EInv, ETypeOK
<1>7. Tallied' /\ DOMAIN tally' = Runs
  <2>1. PICK old, new, t : old = result[r] /\ new = result'[r] /\ t = tally[r]
    OBVIOUS
  <2>2. TallyOf(t, old)
    BY <2>1 DEF EInv, Tallied
  <2>3. CountsOne(t, u, new[s].failed)
    <3>1. t \in [failures : Nat, sum : [Metrics -> Int], count : [Metrics -> Nat]]
      BY <2>2 DEF TallyOf
    <3>2. CASE failed = TRUE
      <4>1. u = [t EXCEPT !.failures = t.failures + 1] /\ new[s].failed = TRUE
        BY <1>5, <1>6, <2>1, <3>2
      <4> QED
        BY <3>1, <4>1 DEF CountsOne
    <3>3. CASE failed = FALSE
      <4>1. u = [t EXCEPT !.failures = t.failures] /\ new[s].failed = FALSE
        BY <1>5, <1>6, <2>1, <3>3
      <4> QED
        BY <3>1, <4>1 DEF CountsOne
    <3> QED
      BY <3>2, <3>3
  <2>4. /\ old \in [Samples -> ResultType] /\ new \in [Samples -> ResultType]
        /\ Predicted(old, new, s)
    BY <1>4, <1>5, <2>1 DEF NoResult, Predicted
  <2>5. TallyOf(u, new)
    BY <2>2, <2>3, <2>4, PredictionCounted
  <2> QED
    BY <1>4, <1>6, <2>1, <2>5, OneTally
<1>8. ETypeOK'
  BY <1>2, <1>4, <1>7 DEF EInv, ETypeOK, Predict
<1>9. SlotsKept'
  <2>1. Active' \subseteq Active /\ Active \subseteq Active'
    BY <1>2 DEF Active
  <2>2. Active' = Active
    BY <2>1
  <2> QED
    BY <2>2 DEF EInv, SlotsKept, Predict
<1>10. Faithful'
  BY <1>2, <1>4, OthersGoOn DEF Predict
<1>11. Fresh'
  <2>1. result'[r][s].scores = <<>>
    BY <1>5 DEF NoResult
  <2> QED
    BY <1>2, <1>4, <2>1 DEF EInv, Fresh, Predict
<1>12. OwedThere' /\ FoundOrDeleted'
  BY FilesKeptKeep DEF Predict, FilesKept
<1> QED
  BY <1>7, <1>8, <1>9, <1>10, <1>11, <1>12 DEF EInv

LEMMA PredictCancelledKeeps ==
  ASSUME EInv, NEW r \in Runs, NEW s \in Samples, PredictCancelled(r, s)
  PROVE  EInv'
<1>1. Advance(r, s, "predicting", "cancelled") /\ free' = free + 1
  BY DEF PredictCancelled
<1>2. /\ run[r] \notin {"idle", "reported"} /\ task' \in [Runs -> [Samples -> TaskState]]
      /\ task[r][s] = "predicting" /\ task'[r][s] = "cancelled"
      /\ Leaves(<<r, s>>)
      /\ \A q \in Runs, t \in Samples : <<q, t>> # <<r, s>> => task'[q][t] = task[q][t]
  BY <1>1, Moving DEF TaskState
<1>3. /\ run' \in [Runs -> {"idle", "running", "reported", "aborted"}]
      /\ \A q \in Runs : q # r => run'[q] = run[q]
      /\ run'[r] \notin {"idle", "reported"}
  BY <1>2 DEF PredictCancelled, EInv, ETypeOK
<1>4. ETypeOK'
  BY <1>1, <1>2, <1>3 DEF EInv, ETypeOK, PredictCancelled
<1>5. SlotsKept'
  BY <1>1, <1>2, SlotReleased
<1>6. Faithful'
  BY <1>2, <1>3, OthersGoOn DEF PredictCancelled
<1>7. Fresh'
  BY <1>2, <1>3 DEF EInv, Fresh, PredictCancelled
<1>8. Tallied'
  BY DEF EInv, Tallied, PredictCancelled
<1>9. OwedThere' /\ FoundOrDeleted'
  BY FilesKeptKeep DEF PredictCancelled, FilesKept
<1> QED
  BY <1>4, <1>5, <1>6, <1>7, <1>8, <1>9 DEF EInv

LEMMA ScoreKeeps ==
  ASSUME EInv, NEW r \in Runs, NEW s \in Samples, Score(r, s)
  PROVE  EInv'
<1>1. Advance(r, s, "scoring", "done") /\ free' = free + 1
  BY DEF Score
<1>2. /\ run[r] \notin {"idle", "reported"} /\ task' \in [Runs -> [Samples -> TaskState]]
      /\ task[r][s] = "scoring" /\ task'[r][s] = "done"
      /\ Leaves(<<r, s>>)
      /\ \A q \in Runs, t \in Samples : <<q, t>> # <<r, s>> => task'[q][t] = task[q][t]
  BY <1>1, Moving DEF TaskState
<1>3. PICK scored \in SUBSET Metrics : \E f \in [scored -> Scores] :
        /\ result' = [result EXCEPT ![r][s].scores = f]
        /\ tally' = [tally EXCEPT ![r] = Counted(@, f)]
  BY DEF Score
<1>4. PICK f \in [scored -> Scores] : /\ result' = [result EXCEPT ![r][s].scores = f]
                                      /\ tally' = [tally EXCEPT ![r] = Counted(@, f)]
  BY <1>3
<1>5. f \in ScoreMap
  BY <1>4 DEF ScoreMap
<1>6. /\ result' \in [Runs -> [Samples -> ResultType]]
      /\ \A q \in Runs : q # r => result'[q] = result[q]
      /\ \A q \in Samples : q # s => result'[r][q] = result[r][q]
  BY <1>4, <1>5, Filled
<1>7. /\ result[r][s].scores = <<>> /\ result'[r][s].scores = f
      /\ result'[r][s].failed = result[r][s].failed
      /\ result[r] \in [Samples -> ResultType] /\ result'[r] \in [Samples -> ResultType]
  <2>1. result[r][s].scores = <<>>
    BY <1>2 DEF EInv, Fresh
  <2>2. result \in [Runs -> [Samples -> ResultType]]
    BY DEF EInv, ETypeOK
  <2>3. result'[r][s] = [result[r][s] EXCEPT !.scores = f]
    BY <1>4, <2>2
  <2>4. result[r][s] \in ResultType
    BY <2>2
  <2> QED
    BY <1>6, <2>1, <2>2, <2>3, <2>4 DEF ResultType
<1>8. TallyOf(Counted(tally[r], f), result'[r])
  <2>1. TallyOf(tally[r], result[r])
    BY DEF EInv, Tallied
  <2>2. PICK old, new, t : old = result[r] /\ new = result'[r] /\ t = tally[r]
    OBVIOUS
  <2>3. /\ old \in [Samples -> ResultType] /\ new \in [Samples -> ResultType]
        /\ old[s].scores = <<>> /\ new[s].scores = f
        /\ \A q \in Samples : q # s => new[q].scores = old[q].scores
        /\ \A q \in Samples : new[q].failed = old[q].failed
    BY <1>6, <1>7, <2>2
  <2>4. TallyOf(Counted(t, f), new)
    BY <1>5, <2>1, <2>2, <2>3, ScoresCounted
  <2> QED
    BY <2>2, <2>4
<1>9. Tallied' /\ DOMAIN tally' = Runs
  BY <1>4, <1>6, <1>8, OneTally
<1>10. ETypeOK'
  BY <1>1, <1>2, <1>6, <1>9 DEF EInv, ETypeOK, Score
<1>11. SlotsKept'
  BY <1>1, <1>2, SlotReleased
<1>12. Faithful'
  BY <1>2, <1>6, OthersGoOn DEF Score
<1>13. Fresh'
  BY <1>2, <1>6 DEF EInv, Fresh, Score
<1>14. OwedThere' /\ FoundOrDeleted'
  BY FilesKeptKeep DEF Score, FilesKept
<1> QED
  BY <1>9, <1>10, <1>11, <1>12, <1>13, <1>14 DEF EInv

LEMMA ReportKeeps ==
  ASSUME EInv, NEW r \in Runs, Report(r)
  PROVE  EInv'
<1>1. ETypeOK'
  BY DEF EInv, ETypeOK, Report
<1>2. SlotsKept' /\ Tallied'
  BY DEF EInv, SlotsKept, Active, Tallied, Report
<1>3. Faithful'
  <2> SUFFICES ASSUME NEW q \in Runs, run'[q] = "reported"
               PROVE  /\ \A s \in Samples : task'[q][s] = "done"
                      /\ report'[q] = [count |-> Cardinality(Samples),
                           failures |-> Cardinality({s \in Samples : result'[q][s].failed}),
                           results |-> result'[q], stats |-> Stats(result'[q])]
    BY DEF Faithful
  <2>1. CASE q = r
    BY <2>1 DEF EInv, ETypeOK, Report
  <2>2. CASE q # r
    <3>1. run'[q] = run[q] /\ report'[q] = report[q] /\ result' = result /\ task' = task
      BY <2>2 DEF EInv, ETypeOK, Report
    <3> QED
      BY <3>1 DEF EInv, Faithful
  <2> QED
    BY <2>1, <2>2
<1>4. Fresh'
  BY DEF EInv, ETypeOK, Fresh, Report
<1>5. OwedThere' /\ FoundOrDeleted'
  BY FilesKeptKeep DEF Report, FilesKept
<1> QED
  BY <1>1, <1>2, <1>3, <1>4, <1>5 DEF EInv

\* The store touches no run.
LEMMA StoringKeeps ==
  ASSUME EInv, NEW r \in Runs, Storing(r)
  PROVE  EInv'
<1>1. Kept
  BY DEF Storing, Kept, WriteTemp, Rename, ListRead
<1>2. Fresh' /\ SlotsKept' /\ Faithful' /\ Tallied'
  BY <1>1, KeptKeeps
<1>3. ETypeOK' /\ OwedThere' /\ FoundOrDeleted'
  <2>1. CASE WriteTemp(r)
    BY <2>1 DEF EInv, ETypeOK, OwedThere, FoundOrDeleted, WriteTemp
  <2>2. CASE Rename(r)
    BY <2>2 DEF EInv, ETypeOK, OwedThere, FoundOrDeleted, Rename
  <2>3. CASE ListRead(r)
    BY <2>3 DEF EInv, ETypeOK, OwedThere, FoundOrDeleted, ListRead
  <2> QED
    BY <2>1, <2>2, <2>3 DEF Storing
<1> QED
  BY <1>2, <1>3 DEF EInv

\* One call goes on, or is answered.
LEMMA OneCall ==
  ASSUME access \in [Clients -> Call], NEW u \in Clients, NEW x \in Call,
         access' = [access EXCEPT ![u] = x]
  PROVE  /\ access' \in [Clients -> Call] /\ access'[u] = x
         /\ \A v \in Clients : v # u => access'[v] = access[v]
OBVIOUS

\* Nor do those who fetch and delete.
LEMMA AccessingKeeps ==
  ASSUME EInv, NEW u \in Clients, Accessing(u)
  PROVE  EInv'
<1>1. Kept
  BY DEF Accessing, Kept, GetRead, Unlink, LookUp
<1>2. Fresh' /\ SlotsKept' /\ Faithful' /\ Tallied'
  BY <1>1, KeptKeeps
<1>3. ETypeOK' /\ OwedThere' /\ FoundOrDeleted'
  <2>0. access \in [Clients -> Call] /\ \A x \in Call : x.op # "idle" => x.run \in Runs
    BY DEF EInv, ETypeOK, Call, NoAccess
  <2>1. CASE GetRead(u)
    <3>1. /\ access[u].op = "get" /\ access[u].run \in Runs
          /\ file' = file /\ listing' = listing
      BY <2>0, <2>1 DEF GetRead
    <3>2. PICK r \in Runs : r = access[u].run
      BY <3>1
    <3>3. file[r] \in {"whole", "deleted"}
      BY <3>1, <3>2 DEF EInv, FoundOrDeleted
    <3>4. PICK x \in Call : /\ access' = [access EXCEPT ![u] = x]
                            /\ \/ x = NoAccess
                               \/ file[r] = "deleted" /\ x = [op |-> "vanished", run |-> r]
      <4>1. [op |-> "vanished", run |-> r] \in Call /\ NoAccess \in Call
        BY DEF Call
      <4>2. CASE file[r] = "whole"
        BY <2>1, <3>2, <4>1, <4>2 DEF GetRead
      <4>3. CASE file[r] = "deleted"
        BY <2>1, <3>2, <4>1, <4>3 DEF GetRead
      <4> QED
        BY <3>3, <4>2, <4>3
    <3>5. /\ access' \in [Clients -> Call] /\ access'[u] = x
          /\ \A v \in Clients : v # u => access'[v] = access[v]
      BY <2>0, <3>4, OneCall
    <3>6. FoundOrDeleted'
      BY <3>1, <3>4, <3>5 DEF EInv, FoundOrDeleted, NoAccess
    <3> QED
      BY <1>1, <3>1, <3>5, <3>6 DEF EInv, ETypeOK, OwedThere, Kept
  <2>2. CASE Unlink(u)
    <3>1. access[u].op = "delete" /\ access[u].run \in Runs
      BY <2>0, <2>2 DEF Unlink
    <3>2. PICK r \in Runs : r = access[u].run
      BY <3>1
    <3>3. PICK x \in Call : /\ file' = [file EXCEPT ![r] = "deleted"]
                            /\ listing' = [listing EXCEPT !.owed = @ \ {r}]
                            /\ access' = [access EXCEPT ![u] = x]
                            /\ x = NoAccess \/ x = [op |-> "vanished", run |-> r]
      BY <2>2, <3>2 DEF Unlink, Call
    <3>4. /\ access' \in [Clients -> Call] /\ access'[u] = x
          /\ \A v \in Clients : v # u => access'[v] = access[v]
      BY <2>0, <3>3, OneCall
    <3>5. /\ file' \in [Runs -> {"absent", "temp", "whole", "deleted"}] /\ file'[r] = "deleted"
          /\ \A q \in Runs : q # r => file'[q] = file[q]
      BY <3>3 DEF EInv, ETypeOK
    <3>6. ETypeOK'
      BY <1>1, <3>3, <3>4, <3>5 DEF EInv, ETypeOK, Kept
    <3>7. OwedThere'
      BY <3>3 DEF EInv, ETypeOK, OwedThere
    <3>8. FoundOrDeleted'
      BY <2>0, <3>3, <3>4, <3>5 DEF EInv, FoundOrDeleted, NoAccess
    <3> QED
      BY <3>6, <3>7, <3>8
  <2>3. ASSUME NEW r \in Runs, NEW op \in {"get", "delete"}, LookUp(u, r, op)
        PROVE  ETypeOK' /\ OwedThere' /\ FoundOrDeleted'
    <3>1. PICK x \in Call : /\ access' = [access EXCEPT ![u] = x]
                            /\ \/ x = NoAccess
                               \/ file[r] = "whole" /\ x = [op |-> op, run |-> r]
      <4>1. [op |-> op, run |-> r] \in Call /\ NoAccess \in Call
        BY DEF Call
      <4>2. r \in Named => file[r] = "whole"
        BY DEF Named, EInv, ETypeOK
      <4> QED
        BY <2>3, <4>1, <4>2 DEF LookUp
    <3>2. file' = file /\ listing' = listing
      BY <2>3 DEF LookUp
    <3>3. /\ access' \in [Clients -> Call] /\ access'[u] = x
          /\ \A v \in Clients : v # u => access'[v] = access[v]
      BY <2>0, <3>1, OneCall
    <3>4. FoundOrDeleted'
      BY <3>1, <3>2, <3>3 DEF EInv, FoundOrDeleted, NoAccess
    <3> QED
      BY <1>1, <3>2, <3>3, <3>4 DEF EInv, ETypeOK, OwedThere, Kept
  <2> QED
    BY <2>1, <2>2, <2>3 DEF Accessing
<1> QED
  BY <1>2, <1>3 DEF EInv

LEMMA ListingKeeps ==
  ASSUME EInv, ListBegin \/ ListEnd
  PROVE  EInv'
<1>1. Kept
  BY DEF Kept, ListBegin, ListEnd
<1>2. Fresh' /\ SlotsKept' /\ Faithful' /\ Tallied'
  BY <1>1, KeptKeeps
<1>3. ETypeOK' /\ OwedThere' /\ FoundOrDeleted'
  <2>1. CASE ListBegin
    <3>1. Named \in SUBSET Runs /\ \A r \in Named : file[r] = "whole"
      BY DEF EInv, ETypeOK, Named
    <3> HIDE DEF Named
    <3> QED
      BY <2>1, <3>1 DEF EInv, ETypeOK, OwedThere, FoundOrDeleted, ListBegin
  <2>2. CASE ListEnd
    BY <2>2 DEF EInv, ETypeOK, OwedThere, FoundOrDeleted, ListEnd, NoListing
  <2> QED
    BY <2>1, <2>2
<1> QED
  BY <1>2, <1>3 DEF EInv

LEMMA StepKeeps == ASSUME EInv, [ENext]_evars PROVE EInv'
<1>1. CASE UNCHANGED evars
  <2>1. Kept /\ FilesKept
    BY <1>1 DEF evars, Kept, FilesKept
  <2>2. Fresh' /\ SlotsKept' /\ Faithful' /\ Tallied' /\ OwedThere' /\ FoundOrDeleted'
    BY <2>1, KeptKeeps, FilesKeptKeep
  <2>3. ETypeOK'
    BY <2>1 DEF Kept, FilesKept, EInv, ETypeOK
  <2> QED
    BY <2>2, <2>3 DEF EInv
<1>2. CASE \E r \in Runs : StartRun(r) \/ Report(r) \/ Storing(r)
  BY <1>2, StartRunKeeps, ReportKeeps, StoringKeeps
<1>3. CASE \E u \in Clients : Accessing(u)
  BY <1>3, AccessingKeeps
<1>4. CASE \E r \in Runs, s \in Samples : Sample(r, s)
  BY <1>4, AcquireKeeps, PredictKeeps, PredictCancelledKeeps, ScoreKeeps DEF Sample
<1>5. CASE ListBegin \/ ListEnd
  BY <1>5, ListingKeeps
<1> QED
  BY <1>1, <1>2, <1>3, <1>4, <1>5 DEF ENext

\* The invariant the properties are read off.
THEOREM EInductive == ESpec => []EInv
<1>1. EInit => EInv
  BY InitHolds
<1>2. EInv /\ [ENext]_evars => EInv'
  BY StepKeeps
<1> QED
  BY <1>1, <1>2, PTL DEF ESpec

-----------------------------------------------------------------------------
(* The semaphore, the report and the files.                                *)

\* However many runs share the runner, however many of them are aborted and
\* whatever is cancelled: no slot is leaked and none is given back twice.
THEOREM SlotsAreKept == ESpec => []SlotsKept
<1>1. EInv => SlotsKept
  BY DEF EInv
<1> QED
  BY <1>1, EInductive, PTL

\* What run_batch adds up in the end from the results is what was counted as
\* the predictions and the scores came in one by one, in whatever order.
THEOREM ReportsComplete == ESpec => []ReportComplete
<1>1. ASSUME EInv PROVE ReportComplete
  <2> SUFFICES ASSUME NEW r \in Runs, run[r] = "reported"
               PROVE  /\ report[r].count = Cardinality(Samples)
                      /\ report[r].failures = tally[r].failures
                      /\ \A m \in Metrics :
                           IF tally[r].count[m] = 0 THEN m \notin DOMAIN report[r].stats
                           ELSE report[r].stats[m] = [sum |-> tally[r].sum[m], count |-> tally[r].count[m]]
    BY DEF ReportComplete
  <2>1. /\ report[r].count = Cardinality(Samples)
        /\ report[r].failures = Cardinality(Failing(result[r]))
        /\ report[r].stats = Stats(result[r])
    <3>1. report[r] = [count |-> Cardinality(Samples),
                       failures |-> Cardinality(Failing(result[r])),
                       results |-> result[r], stats |-> Stats(result[r])]
      BY <1>1 DEF EInv, Faithful, Failing
    <3> QED
      BY <3>1
  <2>2. TallyOf(tally[r], result[r])
    BY <1>1 DEF EInv, Tallied
  <2>3. ASSUME NEW m \in Metrics
        PROVE  IF tally[r].count[m] = 0 THEN m \notin DOMAIN Stats(result[r])
               ELSE Stats(result[r])[m] = [sum |-> tally[r].sum[m], count |-> tally[r].count[m]]
    <3>1. IsFiniteSet(Having(result[r], m)) /\ (Cardinality(Having(result[r], m)) = 0 <=> Having(result[r], m) = {})
      BY SetsFinite, FS_EmptySet
    <3>2. /\ m \in DOMAIN Stats(result[r]) <=> Having(result[r], m) # {}
          /\ Having(result[r], m) # {} =>
               Stats(result[r])[m] = [sum |-> ScoreSum(result[r], m, Having(result[r], m)),
                                      count |-> Cardinality(Having(result[r], m))]
      BY DEF Stats, Having, ScoreSum
    <3> QED
      BY <2>2, <3>1, <3>2 DEF TallyOf
  <2> QED
    BY <2>1, <2>2, <2>3 DEF TallyOf
<1> QED
  BY <1>1, EInductive, PTL

\* Whatever is saved, deleted and read meanwhile, a listing that has read its
\* files shows every run it owes, no reader finds half a report, and only a
\* deletion takes away a file that a call has found.
THEOREM StoreIsWhole == ESpec => []StoreWhole
<1>1. ASSUME EInv PROVE StoreWhole
  <2>1. \A u \in Clients : access[u].op # "unreadable"
    BY <1>1 DEF EInv, ETypeOK, Call, NoAccess
  <2> QED
    BY <1>1, <2>1 DEF EInv, ETypeOK, OwedThere, FoundOrDeleted, StoreWhole
<1> QED
  BY <1>1, EInductive, PTL

-----------------------------------------------------------------------------
(* The comparison.                                                         *)

\* An average has a number for its sum and at least one score behind it.
LEMMA StatType ==
  ASSUME EInv, NEW r \in Runs, NEW m \in Metrics
  PROVE  /\ Stat(Stats(result[r]), m).sum \in Int
         /\ Stat(Stats(result[r]), m).count \in Nat \ {0}
<1> DEFINE having == {s \in Samples : m \in DOMAIN result[r][s].scores}
<1>1. CASE having = {}
  <2>1. m \notin DOMAIN Stats(result[r])
    BY <1>1 DEF Stats
  <2> QED
    BY <2>1 DEF Stat
<1>2. CASE having # {}
  <2>1. IsFiniteSet(having) /\ Cardinality(having) \in Nat \ {0}
    BY <1>2, EvaluationConstants, FS_Subset, FS_CardinalityType, FS_EmptySet DEF EvaluationConstants
  <2>2. \A s \in having : result[r][s].scores[m] \in Int
    <3> SUFFICES ASSUME NEW s \in having PROVE result[r][s].scores[m] \in Int
      OBVIOUS
    <3>1. result[r][s].scores \in ScoreMap
      BY DEF EInv, ETypeOK, ResultType
    <3>2. result[r][s].scores[m] \in Scores
      BY <3>1, ScoresOfAMap
    <3> QED
      BY <3>2, ScoresAreNumbers
  <2>3. ScoreSum(result[r], m, having) \in Int
    <3> HIDE DEF having
    <3> QED
      BY <2>1, <2>2, SumType
  <2>4. /\ m \in DOMAIN Stats(result[r])
        /\ Stats(result[r])[m].sum = ScoreSum(result[r], m, having)
        /\ Stats(result[r])[m].count = Cardinality(having)
    BY <1>2 DEF Stats, ScoreSum
  <2> QED
    BY <2>1, <2>3, <2>4 DEF Stat
<1> QED
  BY <1>1, <1>2

\* Reading two averages from the other side turns the difference over.
LEMMA StatusMirrors ==
  ASSUME NEW x, NEW y, NEW m,
         Stat(x, m).sum \in Int, Stat(x, m).count \in Nat \ {0},
         Stat(y, m).sum \in Int, Stat(y, m).count \in Nat \ {0}
  PROVE  (Status(x, y, m) = "REGRESSED") <=> (Status(y, x, m) = "IMPROVED")
<1>1. PICK a \in Int, b \in Int, d \in Nat :
        a = Stat(y, m).sum * Stat(x, m).count /\ b = Stat(x, m).sum * Stat(y, m).count
        /\ d = Tolerance * Stat(x, m).count * Stat(y, m).count
  <2>1. /\ Stat(y, m).sum * Stat(x, m).count \in Int /\ Stat(x, m).sum * Stat(y, m).count \in Int
        /\ Tolerance * Stat(x, m).count \in Nat
    BY EvaluationConstants DEF EvaluationConstants
  <2>2. Tolerance * Stat(x, m).count * Stat(y, m).count \in Nat
    BY <2>1
  <2> QED
    BY <2>1, <2>2
<1>2. Tolerance * Stat(y, m).count * Stat(x, m).count = d
  <2>1. \A t \in Nat, i \in Nat, j \in Nat : t * i * j = t * j * i
    OBVIOUS
  <2> QED
    BY <1>1, <2>1, EvaluationConstants DEF EvaluationConstants
<1>3. Status(x, y, m) = IF a - b > d THEN "IMPROVED" ELSE IF a - b < -d THEN "REGRESSED" ELSE "UNCHANGED"
  BY <1>1 DEF Status
<1>4. Status(y, x, m) = IF b - a > d THEN "IMPROVED" ELSE IF b - a < -d THEN "REGRESSED" ELSE "UNCHANGED"
  BY <1>1, <1>2 DEF Status
<1> QED
  BY <1>1, <1>3, <1>4

\* A regression of one sample is an improvement the other way round.
LEMMA RegressionsMirror ==
  ASSUME NEW x, NEW y,
         \A s \in Samples : x[s].scores \in ScoreMap /\ y[s].scores \in ScoreMap
  PROVE  Regressions(x, y) = Improvements(y, x)
<1>1. ASSUME NEW p \in Samples \X Metrics,
             p[2] \in DOMAIN x[p[1]].scores, p[2] \in DOMAIN y[p[1]].scores
      PROVE  (y[p[1]].scores[p[2]] - x[p[1]].scores[p[2]] <= -Threshold)
               <=> (x[p[1]].scores[p[2]] - y[p[1]].scores[p[2]] >= Threshold)
  <2>1. x[p[1]].scores[p[2]] \in Scores /\ y[p[1]].scores[p[2]] \in Scores
    BY <1>1, ScoresOfAMap
  <2>2. (y[p[1]].scores[p[2]] - x[p[1]].scores[p[2]] <= -Threshold)
           <=> (x[p[1]].scores[p[2]] - y[p[1]].scores[p[2]] >= Threshold)
    <3>1. x[p[1]].scores[p[2]] \in Int /\ y[p[1]].scores[p[2]] \in Int
      BY <2>1, ScoresAreNumbers
    <3>2. Threshold \in Int
      BY EvaluationConstants DEF EvaluationConstants
    <3>3. \A i \in Int, j \in Int, t \in Int : j - i <= -t <=> i - j >= t
      OBVIOUS
    <3> QED
      BY <3>1, <3>2, <3>3
  <2> QED
    BY <2>2
<1> QED
  BY <1>1 DEF Regressions, Improvements

\* Comparing two reports in either direction tells the same story, for every
\* sample, every metric, every tolerance and every threshold above zero.
THEOREM ComparisonIsMirrored == ESpec => []ComparisonMirrors
<1>1. ASSUME EInv PROVE ComparisonMirrors
  <2> SUFFICES ASSUME NEW a \in Runs, NEW b \in Runs, run[a] = "reported", run[b] = "reported"
               PROVE  /\ Regressions(report[a].results, report[b].results)
                           = Improvements(report[b].results, report[a].results)
                      /\ \A m \in Metrics :
                           (Status(report[a].stats, report[b].stats, m) = "REGRESSED")
                             <=> (Status(report[b].stats, report[a].stats, m) = "IMPROVED")
    BY DEF ComparisonMirrors
  <2>1. ASSUME NEW r \in Runs, run[r] = "reported"
        PROVE  report[r].results = result[r] /\ report[r].stats = Stats(result[r])
    <3>1. report[r] = [count |-> Cardinality(Samples),
                       failures |-> Cardinality({s \in Samples : result[r][s].failed}),
                       results |-> result[r], stats |-> Stats(result[r])]
      BY <1>1, <2>1 DEF EInv, Faithful
    <3> QED
      BY <3>1
  <2>2. \A s \in Samples : result[a][s].scores \in ScoreMap /\ result[b][s].scores \in ScoreMap
    BY <1>1 DEF EInv, ETypeOK, ResultType
  <2>3. Regressions(result[a], result[b]) = Improvements(result[b], result[a])
    BY <2>2, RegressionsMirror
  <2>4. ASSUME NEW m \in Metrics
        PROVE  (Status(Stats(result[a]), Stats(result[b]), m) = "REGRESSED")
                 <=> (Status(Stats(result[b]), Stats(result[a]), m) = "IMPROVED")
    BY <1>1, StatType, StatusMirrors
  <2> QED
    BY <2>1, <2>3, <2>4
<1> QED
  BY <1>1, EInductive, PTL

=============================================================================
