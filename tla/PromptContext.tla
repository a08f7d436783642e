---------------------------- MODULE PromptContext ----------------------------
(***************************************************************************)
(* The context of the final prompt, cut to RAG_MAX_CONTEXT_CHARS           *)
(* (_chunked_retrieval_context in apps/rag/prompts.py): a loop over the    *)
(* blocks, each a header and the text of one retrieved chunk, that keeps   *)
(* the context for the prompt and the list of chunks for the response.     *)
(* A character is known by its block and its place in it; those of the     *)
(* separator between blocks belong to block 0.                             *)
(***************************************************************************)
EXTENDS Naturals, SequencesExt

CONSTANTS
    MaxBlocks,   \* bound: retrieved documents, RAG_RETRIEVAL_K
    MaxLength,   \* bound: length of a block
    MaxLimit     \* bound: max_chars

ASSUME ContextAssumption ==
    MaxBlocks \in Nat /\ MaxLength \in Nat \ {0} /\ MaxLimit \in Nat \ {0}

VARIABLES
    lengths,     \* input: the lengths of the blocks
    limit,       \* input: max_chars
    chunks, context, remaining,
    stopped      \* the loop has ended

contextVars == <<lengths, limit, chunks, context, remaining, stopped>>

\* A block is never empty: it begins with its header.
Block(i) == [j \in 1..lengths[i] |-> <<i, j>>]

Separator == <<<<0, 1>>, <<0, 2>>>>

ContextInit ==
    /\ \E n \in 0..MaxBlocks : lengths \in [1..n -> 1..MaxLength]
    /\ limit \in 1..MaxLimit
    /\ chunks = <<>> /\ context = <<>>
    /\ remaining = limit
    /\ stopped = FALSE

\* The block the loop has come to: it leaves none out.
Index == Len(chunks) + 1

\* Mutant of Before: the separator is also put before the first block.
AlwaysSeparator == IF Index > 0 THEN Separator ELSE <<>>

Before == IF chunks = <<>> THEN <<>> ELSE Separator

\* Mutant of Available: the separator is not counted.
AllRemaining == remaining

\* What is left for the block after its separator, 0 for nothing.
Available == IF remaining > Len(Before) THEN remaining - Len(Before) ELSE 0

Cut(s, n) == SubSeq(s, 1, IF n < Len(s) THEN n ELSE Len(s))

AddBlock ==
    LET chunk == Cut(Block(Index), Available)
    IN  /\ ~stopped /\ Index <= Len(lengths) /\ Available > 0
        /\ chunks' = Append(chunks, chunk)
        /\ context' = context \o Before \o chunk
        /\ remaining' = remaining - Len(Before) - Len(chunk)
        /\ stopped' = (Len(chunk) < lengths[Index] \/ remaining' = 0)
        /\ UNCHANGED <<lengths, limit>>

\* No block is left, or no place for a character of it.
EndLoop ==
    /\ ~stopped
    /\ Index > Len(lengths) \/ Available = 0
    /\ stopped' = TRUE
    /\ UNCHANGED <<lengths, limit, chunks, context, remaining>>

ContextNext == AddBlock \/ EndLoop

ContextSpec == ContextInit /\ [][ContextNext]_contextVars

-----------------------------------------------------------------------------
(* Properties *)

\* The joined pieces, as "\n\n".join would give them.
Joined(pieces) ==
    FoldLeft(LAMBDA s, p : IF s = <<>> THEN p ELSE s \o Separator \o p, <<>>, pieces)

WholeContext == Joined([i \in DOMAIN lengths |-> Block(i)])

\* s without what it ends in of a separator.
WithoutTail(s) ==
    SubSeq(s, 1, Cardinality({i \in DOMAIN s : \E j \in i..Len(s) : s[j][1] # 0}))

\* The context is all the blocks joined, cut at the limit and freed from a
\* separator the cut may have left at its end: no block is left out before the
\* cut, none is added after it, whatever the lengths and the limit.
ContextIsCutWhole ==
    stopped => context = WithoutTail(Cut(WholeContext, limit))

\* README: RAG_MAX_CONTEXT_CHARS is the "shared bound for final prompt context
\* and returned chunks": the chunks a response shows are, joined, what the prompt
\* holds, separators included that is no more than the limit, and what remains of
\* the budget is the rest of it, at every turn of the loop.
ChunksAreContext ==
    /\ Joined(chunks) = context
    /\ Len(context) <= limit
    /\ remaining = limit - Len(context)

=============================================================================
