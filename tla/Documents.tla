------------------------------- MODULE Documents -------------------------------
(* The language server's view of editor buffers (internal/lsp/documents): the   *)
(* store of open documents and the mapper between LSP positions (line, UTF-16   *)
(* code units) and byte offsets that incremental changes go through.            *)
(*                                                                              *)
(* A text is a sequence of runes.  What the mapper tells apart is how many      *)
(* bytes a rune takes in UTF-8, how many code units in UTF-16, and whether it   *)
(* ends a line: "a" one and one, "e" two and one, "g" four and two, CR and LF.  *)
EXTENDS Integers, Sequences, SequencesExt

CONSTANTS URIs,         \* the documents of the workspace
          MaxRunes      \* bound on the length of a mapped text

Runes == {"a", "e", "g", "CR", "LF"}
Bytes == [a |-> 1, e |-> 2, g |-> 4, CR |-> 1, LF |-> 1]
Units == [a |-> 1, e |-> 1, g |-> 2, CR |-> 1, LF |-> 1]

-------------------------------------------------------------------------------
(* The mapper.                                                                  *)

ByteLen(t) == FoldLeft(LAMBDA n, r : n + Bytes[r], 0, t)
utf16Len(t) == FoldLeft(LAMBDA n, r : n + Units[r], 0, t)

(* The runes of t before a byte offset on a rune boundary.                      *)
Before(t, off) == CHOOSE i \in 0 .. Len(t) : ByteLen(SubSeq(t, 1, i)) = off

(* lineStarts: 0 and the offset after every newline.                            *)
NewMapper(t) ==
    <<0>> \o FoldLeft(LAMBDA s, i : IF t[i] = "LF"
                                    THEN Append(s, ByteLen(SubSeq(t, 1, i))) ELSE s,
                      <<>>, [i \in 1 .. Len(t) |-> i])

(* The line without its terminator.                                             *)
lineBytes(t, line) ==
    LET starts == NewMapper(t)
        end    == IF line + 1 < Len(starts) THEN starts[line + 2] ELSE ByteLen(t)
        seg    == SubSeq(t, Before(t, starts[line + 1]) + 1, Before(t, end))
        bare   == IF seg # <<>> /\ Last(seg) = "LF" THEN Front(seg) ELSE seg
    IN  IF bare # seg /\ bare # <<>> /\ Last(bare) = "CR" THEN Front(bare) ELSE bare

OffsetToPosition(t, offset) ==
    LET off    == IF offset < 0 THEN 0
                  ELSE IF offset > ByteLen(t) THEN ByteLen(t) ELSE offset
        starts == NewMapper(t)
        line   == CHOOSE l \in 0 .. Len(starts) - 1 :
                      /\ l = 0 \/ starts[l + 1] <= off
                      /\ l = Len(starts) - 1 \/ starts[l + 2] > off
    IN  [line |-> line,
         char |-> utf16Len(SubSeq(t, Before(t, starts[line + 1]) + 1, Before(t, off)))]

(* Mutant: code units are taken for runes.                                      *)
OffsetOverRunes(seg, u16) ==
    ByteLen(SubSeq(seg, 1, IF u16 < Len(seg) THEN u16 ELSE Len(seg)))

(* The longest prefix of the line within the given number of code units.        *)
utf16OffsetToByte(seg, u16) ==
    LET k == CHOOSE k \in 0 .. Len(seg) :
                 /\ k = 0 \/ utf16Len(SubSeq(seg, 1, k)) <= u16
                 /\ k = Len(seg) \/ utf16Len(SubSeq(seg, 1, k + 1)) > u16
    IN  ByteLen(SubSeq(seg, 1, k))

PositionToOffset(t, pos) ==
    IF pos.line >= Len(NewMapper(t)) THEN ByteLen(t)
    ELSE NewMapper(t)[pos.line + 1] + utf16OffsetToByte(lineBytes(t, pos.line), pos.char)

(* A 1-based line and byte column, as go/token reports them.                    *)
LineByteColToOffset(t, line1, col1) ==
    LET starts == NewMapper(t)
        off    == starts[line1] + (IF col1 < 1 THEN 0 ELSE col1 - 1)
    IN  IF line1 - 1 < 0 THEN 0
        ELSE IF line1 - 1 >= Len(starts) THEN ByteLen(t)
        ELSE IF off > ByteLen(t) THEN ByteLen(t) ELSE off

(* One ranged change of Store.Change; a range that ends before it starts is     *)
(* refused and the document is left as it was.                                  *)
Spliced(t, from, to, ins) ==
    LET start == PositionToOffset(t, from)
        end   == PositionToOffset(t, to)
    IN  IF start > end THEN t
        ELSE SubSeq(t, 1, Before(t, start)) \o ins \o SubSeq(t, Before(t, end) + 1, Len(t))

-------------------------------------------------------------------------------
(* The store.  The content of a document is the text it was opened with or last *)
(* fully replaced by, followed by the incremental edits applied to it since.    *)

Closed == [v |-> 0, text |-> <<>>]
IsOpen(docs, u) == docs[u].v > 0

NewStore == [u \in URIs |-> Closed]

StoreOpen(docs, d) == [docs EXCEPT ![d.uri] = [v |-> d.v, text |-> <<d.v>>]]

Accepts(docs, d) == IsOpen(docs, d.uri) /\ d.v >= docs[d.uri].v

StoreChange(docs, d) ==
    [docs EXCEPT ![d.uri] =
        [v |-> d.v, text |-> IF d.full THEN <<d.v>> ELSE Append(@.text, d.v)]]

StoreClose(docs, u) == [docs EXCEPT ![u] = Closed]

OpenURIs(docs) == {u \in URIs : IsOpen(docs, u)}
Overlay(docs) == [u \in OpenURIs(docs) |-> docs[u].text]

-------------------------------------------------------------------------------
(* An editor and the store keeping one text in step: the editor replaces runes  *)
(* i+1..j of its copy and sends the positions of the two ends.                  *)

VARIABLE buffer

(* The position LSP gives the place after i runes.                              *)
EditorPosition(t, i) ==
    LET lfs == {k \in 1 .. i : t[k] = "LF"}
        bol == IF lfs = {} THEN 0 ELSE CHOOSE k \in lfs : \A m \in lfs : m <= k
    IN  [line |-> Cardinality(lfs), char |-> utf16Len(SubSeq(t, bol + 1, i))]

(* An editor puts no cursor between the two halves of a line terminator.        *)
Places(t) == {i \in 0 .. Len(t) :
                 ~(i > 0 /\ i < Len(t) /\ t[i] = "CR" /\ t[i + 1] = "LF")}

Inserts == {<<>>} \cup {<<r>> : r \in Runes} \cup {<<"CR", "LF">>}

BufferInit == buffer = [editor |-> <<>>, store |-> <<>>]

BufferEdit ==
    \E i, j \in Places(buffer.editor), ins \in Inserts :
        LET t == buffer.editor IN
        /\ i <= j
        /\ Len(t) - (j - i) + Len(ins) <= MaxRunes
        /\ buffer' = [editor |-> SubSeq(t, 1, i) \o ins \o SubSeq(t, j + 1, Len(t)),
                      store  |-> Spliced(buffer.store, EditorPosition(t, i),
                                         EditorPosition(t, j), ins)]

(* A change whose ends come in the wrong order.                                 *)
BufferInverted ==
    \E i, j \in Places(buffer.editor) :
        /\ j < i
        /\ buffer' = [buffer EXCEPT !.store =
                        Spliced(@, EditorPosition(buffer.editor, i),
                                EditorPosition(buffer.editor, j), <<"a">>)]

BufferNext == BufferEdit \/ BufferInverted

(* Incremental edits land where the editor made them, whatever mix of wide and  *)
(* narrow runes and of line ends the text holds, and a token the compiler       *)
(* locates by line and byte column is shown where the editor sees it            *)
(* (position.go: PositionToOffset, OffsetToPosition, LineByteColToOffset).      *)
EditsLand ==
    LET t == buffer.editor IN
    /\ buffer.store = t
    /\ \A i \in 0 .. Len(t) :
        LET pos == EditorPosition(t, i)
            col == ByteLen(SubSeq(t, 1, i)) - NewMapper(t)[pos.line + 1] + 1
        IN  OffsetToPosition(t, LineByteColToOffset(t, pos.line + 1, col)) = pos
===============================================================================
