------------------------------ MODULE Markdown ------------------------------
(***************************************************************************)
(* The markdown a note is exported to and the document a markdown or plain *)
(* text file is imported as: export/markdown.py and import_/               *)
(* markdown_parser.py.                                                     *)
(*                                                                         *)
(* A document is a sequence of blocks [kind, level, texts]: texts holds    *)
(* the lines of a paragraph, quote or code block and the items of a list.  *)
(* A file is a sequence of lines [mark, text]: the mark is the prefix the  *)
(* parser's expressions look for, "" for plain text.  A text is Empty or   *)
(* one of Texts, which look like no mark.                                  *)
(***************************************************************************)
EXTENDS Naturals, Sequences, SequencesExt

CONSTANTS Texts, Empty

ASSUME TextsAssumption == Empty \notin Texts

Hashes == <<"#", "##", "###", "####", "#####", "######">>
Marks == {"", "-", "1.", ">", "fence", "---"} \cup {Hashes[l] : l \in 1 .. 6}
Lines == [mark : Marks, text : Texts \cup {Empty}]

Line(mark, text) == [mark |-> mark, text |-> text]
Blank == Line("", Empty)
Block(kind, level, texts) == [kind |-> kind, level |-> level, texts |-> texts]

Lists == {"bulletList", "orderedList"}

-----------------------------------------------------------------------------
(********************************* export **********************************)

\* List items without text are left out.
ItemLines(mark, items) ==
    LET lines[k \in 0 .. Len(items)] ==
            IF k = 0 THEN <<>>
            ELSE IF items[k] = Empty THEN lines[k - 1]
                 ELSE Append(lines[k - 1], Line(mark, items[k]))
    IN  lines[Len(items)]

PlainLines(texts) == [k \in DOMAIN texts |-> Line("", texts[k])]

\* strip(): blank lines at either end of a rendered text go.
Strip(texts) ==
    LET inked == {k \in DOMAIN texts : texts[k] # Empty}
        first == CHOOSE k \in inked : \A l \in inked : k <= l
        last == CHOOSE k \in inked : \A l \in inked : k >= l
    IN  IF inked = {} THEN <<>> ELSE SubSeq(texts, first, last)

\* _render_block: the lines of one block.  Only the first line of a quote
\* gets the mark; a paragraph, quote or list without text renders to nothing.
RenderBlock(b) ==
    LET texts == Strip(b.texts)
    IN  CASE b.kind = "heading" ->
               <<Line(Hashes[b.level], IF texts = <<>> THEN Empty ELSE texts[1])>>
          [] b.kind = "paragraph" -> PlainLines(texts)
          [] b.kind = "bulletList" -> ItemLines("-", b.texts)
          [] b.kind = "orderedList" -> ItemLines("1.", b.texts)
          [] b.kind = "blockquote" ->
               IF texts = <<>> THEN <<>>
               ELSE <<Line(">", texts[1])>> \o PlainLines(Tail(texts))
          [] b.kind = "codeBlock" ->
               <<Line("fence", Empty)>>
                 \o (IF texts = <<>> THEN <<Blank>> ELSE PlainLines(texts))
                 \o <<Line("fence", Empty)>>
          [] b.kind = "horizontalRule" -> <<Line("---", Empty)>>
          [] OTHER ->    \* mathBlock, image, taskList, ...: its text alone
               IF texts = <<>> THEN <<>> ELSE <<Line("", texts[1])>>

\* render_note_markdown: the blocks that render to something, a blank line
\* between two of them.
Joined(block, rest) ==
    IF block = <<>> THEN rest
    ELSE IF rest = <<>> THEN block
         ELSE (block \o <<Blank>>) \o rest

RenderNoteMarkdown(doc) ==
    LET file[k \in 1 .. Len(doc) + 1] ==
            IF k > Len(doc) THEN <<>> ELSE Joined(RenderBlock(doc[k]), file[k + 1])
    IN  file[1]

-----------------------------------------------------------------------------
(********************************* import **********************************)

\* Which expression of the parser a line matches, in the order it tries them.
\* Headings of at most three hashes and list items need a text.
KindOf(line) ==
    CASE line = Blank -> "blank"
      [] line.mark = "fence" -> "codeBlock"
      [] line.mark \in {"#", "##", "###"} /\ line.text # Empty -> "heading"
      [] line.mark = "---" -> "horizontalRule"
      [] line.mark = "-" /\ line.text # Empty -> "bulletList"
      [] line.mark = "1." /\ line.text # Empty -> "orderedList"
      [] line.mark = ">" -> "blockquote"
      [] OTHER -> "paragraph"

\* The line as text, its mark included.
Raw(line) == IF line.mark = "" THEN line.text ELSE line

\* Mutant: every line of a list or quote starts one of its own.
RunOfOne(file, i) == i + 1

\* The end of the lines of one kind that start at i.
RunEnd(file, i) ==
    CHOOSE j \in i .. Len(file) + 1 :
        /\ \A k \in i .. j - 1 : KindOf(file[k]) = KindOf(file[i])
        /\ j <= Len(file) => KindOf(file[j]) # KindOf(file[i])

\* The closing fence of the one at i, or the end of the file.
FenceEnd(file, i) ==
    CHOOSE j \in i + 1 .. Len(file) + 1 :
        /\ \A k \in i + 1 .. j - 1 : file[k].mark # "fence"
        /\ j <= Len(file) => file[j].mark = "fence"

TextsOf(file, i, j) == [k \in 1 .. j - i |-> file[i + k - 1].text]

\* The block that starts at line i, and the line after it.
BlockAt(file, i) ==
    LET kind == KindOf(file[i])
        level == CHOOSE l \in 1 .. 6 : kind = "heading" => Hashes[l] = file[i].mark
    IN  CASE kind = "codeBlock" ->
               Block(kind, 0, [k \in 1 .. FenceEnd(file, i) - i - 1 |-> Raw(file[i + k])])
          [] kind = "heading" -> Block(kind, level, <<file[i].text>>)
          [] kind = "horizontalRule" -> Block(kind, 0, <<>>)
          [] kind = "paragraph" -> Block(kind, 0, <<Raw(file[i])>>)
          [] OTHER -> Block(kind, 0, TextsOf(file, i, RunEnd(file, i)))

NextLine(file, i) ==
    CASE KindOf(file[i]) = "codeBlock" -> FenceEnd(file, i) + 1
      [] KindOf(file[i]) \in Lists \cup {"blockquote"} -> RunEnd(file, i)
      [] OTHER -> i + 1

\* parse_markdown_to_tiptap.
ParseMarkdown(file) ==
    LET from[i \in 1 .. Len(file) + 2] ==
            IF i > Len(file) THEN <<>>
            ELSE IF KindOf(file[i]) = "blank" THEN from[i + 1]
                 ELSE <<BlockAt(file, i)>> \o from[NextLine(file, i)]
    IN  from[1]

\* extract_title_from_markdown: a heading's text, or the first line that is
\* not blank as it stands.
ExtractTitle(file, untitled) ==
    LET inked == SelectSeq(file, LAMBDA l : l # Blank)
    IN  CASE inked = <<>> -> untitled
          [] inked # <<>> /\ KindOf(inked[1]) = "heading" -> inked[1].text
          [] OTHER -> Raw(inked[1])

-----------------------------------------------------------------------------
(******************************** properties *******************************)

\* What the parser can give back: no block that vanishes when rendered, no
\* level it does not read, one line per paragraph and quote, no list item
\* without text, code that neither starts nor ends with a blank line.
Survives(b) ==
    /\ b.kind # "mathBlock"
    /\ b.kind = "heading" => b.level <= 3 /\ b.texts # <<Empty>>
    /\ b.kind \in {"paragraph", "blockquote"} =>
          Len(b.texts) = 1 /\ b.texts # <<Empty>>
    /\ b.kind \in Lists => b.texts # <<>> /\ Empty \notin ToSet(b.texts)
    /\ b.kind = "codeBlock" =>
          b.texts = <<Empty>> \/ (b.texts # <<>> /\ Strip(b.texts) = b.texts)
=============================================================================
