--------------------------- MODULE ExtractionLimits ---------------------------
(***************************************************************************)
(* From a stored file to the chunks that are embedded, under the limits    *)
(* INGESTION_MAX_PDF_PAGES, INGESTION_MAX_EXTRACTED_CHARS and              *)
(* INGESTION_MAX_CHUNKS (apps/documents: extraction.py, chunking.py and    *)
(* their use in ingestion.py).  A text is its length; a limit that is      *)
(* exceeded raises, and the document is rejected.                          *)
(***************************************************************************)
EXTENDS Naturals, Sequences

CONSTANTS
    MaxPages, MaxChars, MaxChunks,   \* the limits
    ChunkSize, Overlap,              \* VECTOR_CHUNK_SIZE, VECTOR_CHUNK_OVERLAP
    MaxSize                          \* bound: characters of a file or page

\* What settings/base.py validates when a process starts.
ASSUME LimitsAssumption ==
    /\ MaxPages \in Nat \ {0} /\ MaxChars \in Nat \ {0} /\ MaxChunks \in Nat \ {0}
    /\ ChunkSize \in Nat \ {0} /\ Overlap \in Nat /\ Overlap < ChunkSize
    /\ MaxSize \in Nat

VARIABLES
    at,       \* where the pipeline is
    size,     \* characters of the file, of a PDF: on the pages extracted so far
    left,     \* pages of the PDF not extracted
    parts,    \* pages extracted
    text,     \* length of the text extracted
    covered,  \* how much of it the splitter has cut
    kept      \* chunks kept

limitVars == <<at, size, left, parts, text, covered, kept>>

Stages == {"plain", "pdf", "pages", "text", "splitting", "ready", "rejected"}

LimitsTypeOK ==
    /\ at \in Stages
    /\ size \in Nat /\ left \in Nat /\ parts \in Nat
    /\ text \in Nat /\ covered \in Nat
    /\ kept \in 0..MaxChunks

\* The suffix of the uploaded file's name chooses the parser.
LimitsInit ==
    /\ \/ at = "plain" /\ size \in 0..MaxSize /\ left = 0
       \/ at = "pdf" /\ size = 0 /\ left \in 0..(MaxPages + 1)
    /\ parts = 0 /\ text = 0 /\ covered = 0 /\ kept = 0

Raise == at' = "rejected" /\ UNCHANGED <<size, left, parts, text, covered, kept>>

\* Mutant of CharsRead: the extra character that reveals a longer file is not
\* asked for.
ReadUpToLimit == IF size <= MaxChars THEN size ELSE MaxChars

\* handle.read(max_chars + 1)
CharsRead == IF size <= MaxChars THEN size ELSE MaxChars + 1

ReadPlainText ==
    /\ at = "plain"
    /\ IF CharsRead > MaxChars THEN Raise
       ELSE at' = "text" /\ text' = CharsRead
            /\ UNCHANGED <<size, left, parts, covered, kept>>

\* The parser counts the pages before any text is extracted.
OpenPdf ==
    /\ at = "pdf"
    /\ IF left > MaxPages THEN Raise
       ELSE at' = "pages" /\ UNCHANGED <<size, left, parts, text, covered, kept>>

\* Mutant of OverCeiling: every page has the ceiling to itself.
PageOverCeiling(n) == n > MaxChars

OverCeiling(n) == size + n > MaxChars

ExtractPage ==
    /\ at = "pages" /\ left > 0
    /\ \E n \in 0..MaxSize :
         IF OverCeiling(n) THEN Raise
         ELSE /\ size' = size + n /\ left' = left - 1 /\ parts' = parts + 1
              /\ UNCHANGED <<at, text, covered, kept>>

\* "\n".join: a newline between pages, none after the last.
Newlines == IF parts = 0 THEN 0 ELSE parts - 1

JoinPages ==
    /\ at = "pages" /\ left = 0
    /\ at' = "text" /\ text' = size + Newlines
    /\ UNCHANGED <<size, left, parts, covered, kept>>

\* The file cannot be read, decoded or parsed, or its text is blank.
Unreadable ==
    /\ at \in {"plain", "pdf", "pages", "text"}
    /\ Raise

Stride == ChunkSize - Overlap

\* What split_text lets the splitter work on.
Splittable == text <= MaxChunks * Stride + Overlap

StartSplitting ==
    /\ at = "text" /\ text > 0
    /\ IF Splittable
         THEN at' = "splitting" /\ UNCHANGED <<size, left, parts, text, covered, kept>>
         ELSE Raise

\* Mutant of Full: the chunk over the limit is let in.
FullLate == kept > MaxChunks

Full == kept = MaxChunks

\* RecursiveCharacterTextSplitter cuts at most ChunkSize further characters; a
\* chunk without text is dropped, and one over the limit rejects the document
\* (the list it was appended to goes with it).
CutChunk ==
    /\ at = "splitting" /\ covered < text
    /\ \E n \in 1..ChunkSize, blank \in BOOLEAN :
         /\ covered + n <= text
         /\ IF ~blank /\ Full THEN Raise
            ELSE /\ covered' = covered + n
                 /\ kept' = IF blank THEN kept ELSE kept + 1
                 /\ UNCHANGED <<at, size, left, parts, text>>

\* The pipeline goes on to the vector store unless no chunk is left.
EndSplitting ==
    /\ at = "splitting" /\ covered = text
    /\ IF kept = 0 THEN Raise
       ELSE at' = "ready" /\ UNCHANGED <<size, left, parts, text, covered, kept>>

LimitsNext ==
    \/ ReadPlainText \/ OpenPdf \/ ExtractPage \/ JoinPages \/ Unreadable
    \/ StartSplitting \/ CutChunk \/ EndSplitting

LimitsSpec == LimitsInit /\ [][LimitsNext]_limitVars

-----------------------------------------------------------------------------
(* Properties *)

\* A limit rejects a document, it never shortens one: what is embedded covers
\* the whole file, every page of a PDF included.
NothingTruncated ==
    at = "ready" => covered = text /\ left = 0 /\ text = size + Newlines

\* What the pipeline takes on of a document stays bounded at every stage, also of
\* one that is rejected later: the pages and the characters on them while they
\* are extracted, then the text, of which only the newlines between pages may
\* pass the ceiling on characters, and the chunks kept of it.
WorkIsBounded ==
    /\ parts <= MaxPages
    /\ at = "pages" => size <= MaxChars
    /\ text <= MaxChars + Newlines
    /\ kept <= MaxChunks

=============================================================================
