------------------------------- MODULE Chunking -------------------------------
(***************************************************************************)
(* How a document becomes the chunks the knowledge base searches           *)
(* (src/vector_db/chunking.ts).  The document is read block by block: a    *)
(* heading opens a section, the blocks of a section are packed into chunks *)
(* of about TARGET characters, and when the document is read, small chunks *)
(* are merged into their neighbours.                                       *)
(*                                                                         *)
(* A text is a sequence of pieces [id, len]: 0 is the id of text carried   *)
(* over from the chunk before, every other piece of the document has an id *)
(* of its own.                                                             *)
(***************************************************************************)
EXTENDS Integers, Sequences, SequencesExt

CONSTANTS TARGET_CHARS, MAX_CHARS, MIN_CHARS, OVERLAP_CHARS,
  Lengths,     \* lengths of paragraphs, of code blocks and of the pieces of a long text
  MaxPieces    \* pieces in the document (bounds the model)

ASSUME ChunkAssumption ==
  /\ TARGET_CHARS \in Nat \ {0} /\ MAX_CHARS \in Nat /\ MAX_CHARS >= TARGET_CHARS
  /\ MIN_CHARS \in Nat /\ OVERLAP_CHARS \in Nat /\ OVERLAP_CHARS < TARGET_CHARS
  /\ Lengths \subseteq Nat \ {0} /\ MaxPieces \in Nat

VARIABLES
  source,    \* the document so far: its pieces, with the section each is in
  packing,   \* packSection(): [parts, length, code, chunks] of the open section
  packed,    \* chunks of the sections that are closed
  result     \* what mergeSmall() returned, <<>> while the document is read

chunkVars == <<source, packing, packed, result>>

TextLength(parts) ==
  IF parts = <<>> THEN 0 ELSE FoldLeft(LAMBDA n, p : n + p.len + 1, -1, parts)
NewSection == [parts |-> <<>>, length |-> 0, code |-> <<>>, chunks |-> <<>>]

\* tail(): a chunk no longer than the overlap is not repeated; else its last
\* words, some n characters.
TailLengths(parts) == IF TextLength(parts) <= OVERLAP_CHARS THEN {0} ELSE 1 .. OVERLAP_CHARS

Emitted(p) ==
  IF p.parts = <<>> /\ p.code = <<>> THEN p.chunks
  ELSE Append(p.chunks, [text |-> p.parts, code |-> p.code])

\* Faulty variant, for mutation checks: the code blocks are not taken along.
FlushTextOnly(p, overlap) ==
  [parts |-> IF overlap > 0 THEN <<[id |-> 0, len |-> overlap]>> ELSE <<>>, length |-> overlap,
   code |-> <<>>, chunks |-> IF p.parts = <<>> THEN p.chunks
                             ELSE Append(p.chunks, [text |-> p.parts, code |-> <<>>])]

\* flush(): the chunk, and what the next one begins with.
Flush(p, overlap) ==
  [parts |-> IF overlap > 0 THEN <<[id |-> 0, len |-> overlap]>> ELSE <<>>,
   length |-> overlap, code |-> <<>>, chunks |-> Emitted(p)]

\* The outcomes of a flush that carries an overlap, if `full`.
Flushed(p, full) == IF full THEN {Flush(p, n) : n \in TailLengths(p.parts)} ELSE {p}

\* add(): a piece of text.
Added(p, piece) ==
  UNION {LET q == [room EXCEPT !.parts = Append(@, piece), !.length = @ + piece.len + 1]
         IN Flushed(q, q.length >= TARGET_CHARS)
           : room \in Flushed(p, p.length > 0 /\ p.length + piece.len + 1 > MAX_CHARS)}

\* A code block; its length counts up to MAX_CHARS.
WithCode(p, piece) ==
  LET codeLen == IF piece.len > MAX_CHARS THEN MAX_CHARS ELSE piece.len
      with(room) == [room EXCEPT !.code = Append(@, piece), !.length = @ + codeLen]
  IN {IF with(room).length >= TARGET_CHARS THEN Flush(with(room), 0) ELSE with(room)
        : room \in Flushed(p, p.length > 0 /\ p.length + codeLen > MAX_CHARS)}

\* The end of packSection().
Closed(p) ==
  IF TextLength(p.parts) > OVERLAP_CHARS \/ p.code # <<>> \/ p.chunks = <<>>
  THEN Emitted(p) ELSE p.chunks

\* mergeSmall(): content lengths are kept, the labels of mergeTwo() left out.
Size(c) == TextLength(c.text) + FoldLeft(LAMBDA n, p : n + p.len, 0, c.code)
MergeTwo(a, b) == [text |-> a.text \o b.text, code |-> a.code \o b.code]
MergeSmall(chunks) ==
  FoldLeft(LAMBDA out, c :
             IF /\ out # <<>>
                /\ Size(Last(out)) < MIN_CHARS \/ Size(c) < MIN_CHARS
                /\ Size(Last(out)) + Size(c) <= MAX_CHARS
             THEN Append(Front(out), MergeTwo(Last(out), c))
             ELSE Append(out, c), <<>>, chunks)

-----------------------------------------------------------------------------
ChunkInit ==
  source = <<>> /\ packing = NewSection /\ packed = <<>> /\ result = <<>>

Reading == result = <<>> /\ Len(source) < MaxPieces
Read(kind, piece) == source' = Append(source, [piece |-> piece, kind |-> kind])

\* A paragraph, list, quote or table row: a text no longer than MAX_CHARS, or
\* one of the pieces splitLongText() makes of a longer one.
Unsplit(len) == len <= MAX_CHARS

TextBlock(len) ==
  /\ Reading /\ Unsplit(len)
  /\ LET piece == [id |-> Len(source) + 1, len |-> len] IN
     /\ Read("text", piece)
     /\ packing' \in Added(packing, piece)
  /\ UNCHANGED <<packed, result>>

CodeBlock(len) ==
  /\ Reading
  /\ LET piece == [id |-> Len(source) + 1, len |-> len] IN
     /\ Read("code", piece)
     /\ packing' \in WithCode(packing, piece)
  /\ UNCHANGED <<packed, result>>

\* openSection(), at a heading or a rule; a section without blocks is skipped.
OpenSection ==
  /\ result = <<>> /\ source # <<>> /\ Last(source).kind # "end"
  /\ source' = Append(source, [piece |-> [id |-> 0, len |-> 0], kind |-> "end"])
  /\ packed' = packed \o Closed(packing) /\ packing' = NewSection
  /\ UNCHANGED result

\* The document is read: mergeSmall(packed).
Merge ==
  /\ result = <<>> /\ source # <<>> /\ Last(source).kind = "end"
  /\ result' = MergeSmall(packed)
  /\ UNCHANGED <<source, packing, packed>>

ChunkNext ==
  \/ \E len \in Lengths : TextBlock(len) \/ CodeBlock(len)
  \/ OpenSection \/ Merge

ChunkSpec == ChunkInit /\ [][ChunkNext]_chunkVars

-----------------------------------------------------------------------------
IdsOf(pieces) == FoldLeft(LAMBDA ids, p : IF p.id = 0 THEN ids ELSE Append(ids, p.id), <<>>, pieces)
InChunks(chunks, kind) ==
  FoldLeft(LAMBDA ids, c : ids \o IdsOf(IF kind = "code" THEN c.code ELSE c.text), <<>>, chunks)
InSource(kind) ==
  FoldLeft(LAMBDA ids, b : IF b.kind = kind THEN Append(ids, b.piece.id) ELSE ids, <<>>, source)
\* Pieces that end a section and, with what was carried over to them, are no
\* longer than the overlap.
Dropped(id) ==
  \E end \in DOMAIN source :
    /\ source[end].kind = "end" /\ id < end
    /\ \A i \in id .. end - 1 : source[i].kind = "text"
    /\ FoldLeft(LAMBDA n, b : n + b.piece.len + 1, -1, SubSeq(source, id, end - 1)) <= OVERLAP_CHARS

\* A document in its chunks: every block is in exactly one of them and in the
\* document's order, except text at the end of a section that is no longer
\* than the overlap; no chunk has more text than a full one and an overlap;
\* and no small chunk is left that would have fitted into its neighbour.
ChunksHoldTheDocument ==
  result # <<>> =>
    /\ InChunks(result, "code") = InSource("code")
    /\ LET kept == InChunks(result, "text") IN
         kept = SelectSeq(InSource("text"), LAMBDA id : ~Dropped(id) \/ id \in ToSet(kept))
    /\ \A i \in DOMAIN result :
         /\ TextLength(result[i].text) <= MAX_CHARS + OVERLAP_CHARS + 1
         /\ i > 1 /\ (Size(result[i]) < MIN_CHARS \/ Size(result[i - 1]) < MIN_CHARS)
              => Size(result[i]) + Size(result[i - 1]) > MAX_CHARS

\* What the comment in packSection() says of the chunk it leaves out: it is
\* "nothing but the overlap we carried".
OnlyTheOverlapIsLeftOut ==
  result # <<>> => InChunks(result, "text") = InSource("text")
=============================================================================
