------------------------------ MODULE Transfer ------------------------------
(***************************************************************************)
(* A note that leaves by a markdown export and comes back by an import,    *)
(* any number of times: routes/export.py and routes/import_.py around the  *)
(* renderer and the parser of Markdown.                                    *)
(***************************************************************************)
EXTENDS Markdown

CONSTANTS
    Documents,   \* the documents that notes may have
    NoDoc

\* Documents with these texts: one line per heading and formula, any number
\* of lines or items in the rest.
BlocksOver(texts) ==
    [kind : {"heading"}, level : 1 .. 6, texts : {<<t>> : t \in texts}]
      \cup [kind : {"horizontalRule"}, level : {0}, texts : {<<>>}]
      \cup [kind : {"mathBlock"}, level : {0}, texts : {<<t>> : t \in texts \ {Empty}}]
      \cup [kind : Lists \cup {"paragraph", "blockquote", "codeBlock"}, level : {0},
            texts : Seq(texts)]

ASSUME TransferAssumption ==
    /\ Documents \subseteq Seq(BlocksOver(Texts \cup {Empty}))
    /\ Empty \notin Lines

VARIABLES
    original,   \* the note, or NoDoc
    exported,   \* the file in the user's hands, or NoDoc
    copy        \* the note imported last, or NoDoc

TransferInit ==
    original \in Documents \cup {NoDoc} /\ exported = NoDoc /\ copy = NoDoc

\* export_note_markdown, of the note or of what was imported.
ExportNote(doc) ==
    /\ doc # NoDoc
    /\ exported' = RenderNoteMarkdown(doc)
    /\ UNCHANGED <<original, copy>>

\* import_note.
ImportFile ==
    /\ exported # NoDoc
    /\ copy' = ParseMarkdown(exported)
    /\ UNCHANGED <<original, exported>>

TransferNext == (\E doc \in {original, copy} : ExportNote(doc)) \/ ImportFile
TransferSpec == TransferInit /\ [][TransferNext]_<<original, exported, copy>>
-----------------------------------------------------------------------------
\* However often it is exported and imported, a document comes back exactly
\* when each of its blocks is one the two formats share
\* (markdown_parser.py:3-5).
RoundTrip ==
    copy # NoDoc => (copy = original <=> \A i \in DOMAIN original : Survives(original[i]))
=============================================================================
