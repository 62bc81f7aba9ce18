---------------------- MODULE StreamingSentenceBuffer ----------------------
(***************************************************************************)
(* src/streaming_sentence_buffer.cpp: an answer arrives in pieces, cut     *)
(* anywhere, even inside the bytes of a delimiter, and leaves in sentences *)
(* that are trimmed and never empty.                                       *)
(***************************************************************************)
EXTENDS Integers, Sequences, FiniteSetsExt

CONSTANTS
    Bytes, Space,   \* what a text is made of, and the bytes isspace() is true of
    Delimiters,     \* delimiters_, sequences of bytes
    MaxText         \* bound on the text

\* The default delimiters are single characters in UTF-8: none is a part of another, or
\* begins with what another ends with.
ASSUME StreamingSentenceBufferAssumption ==
    /\ Delimiters \subseteq Seq(Bytes) \ {<<>>}
    /\ \A d, e \in Delimiters :
          /\ d # e => \A i \in 1..Len(e), j \in 0..Len(e) : SubSeq(e, i, j) # d
          /\ \A k \in 1..(Len(e) - 1) :
                k <= Len(d) => SubSeq(d, Len(d) - k + 1, Len(d)) # SubSeq(e, 1, k)
    /\ MaxText \in Nat

VARIABLES
    buffer,     \* buffer_
    extracting, \* whether extractSentences() is at work
    said,       \* the sentences that have left
    given,      \* the text that has arrived (ghost)
    places,     \* where in it the sentences were: the bytes from p[1] + 1 to p[2] (ghost)
    flushed     \* whether flush() has taken the rest (ghost)

sentenceVars == <<buffer, extracting, said, given, places, flushed>>

SentenceInit ==
    /\ buffer = <<>> /\ extracting = FALSE /\ said = <<>>
    /\ given = <<>> /\ places = <<>> /\ flushed = FALSE

\* trimAsciiWhitespace
Trim(text) ==
    LET ink == {i \in DOMAIN text : text[i] \notin Space}
    IN  IF ink = {} THEN <<>> ELSE SubSeq(text, Min(ink), Max(ink))

Taken == Len(given) - Len(buffer)

\* the first n bytes of the buffer leave it, and are a sentence if there is one in them
Take(n) ==
    LET sentence == Trim(SubSeq(buffer, 1, n))
    IN  /\ buffer' = SubSeq(buffer, n + 1, Len(buffer))
        /\ IF sentence = <<>>
             THEN UNCHANGED <<said, places>>
             ELSE said' = Append(said, sentence) /\ places' = Append(places, <<Taken, Taken + n>>)

\* ends of delimiters in a text, by where they begin
Boundaries(text) ==
    {b \in (DOMAIN text) \X (DOMAIN text) : SubSeq(text, b[1], b[2]) \in Delimiters}

AppendDelta(delta) ==
    /\ ~extracting /\ ~flushed
    /\ buffer' = buffer \o delta /\ given' = given \o delta /\ extracting' = TRUE
    /\ UNCHANGED <<said, places, flushed>>

\* findFirstBoundary: the first, and of several there the longest
FirstEnd == LET first == Min({b[1] : b \in Boundaries(buffer)})
            IN  Max({b[2] : b \in {c \in Boundaries(buffer) : c[1] = first}})

\* a plausible bug: at most one sentence is taken from a piece
ExtractOnce ==
    /\ extracting /\ Boundaries(buffer) # {} /\ extracting' = FALSE
    /\ Take(FirstEnd)
    /\ UNCHANGED <<given, flushed>>

ExtractSentence ==
    /\ extracting /\ Boundaries(buffer) # {}
    /\ Take(FirstEnd)
    /\ UNCHANGED <<extracting, given, flushed>>

ExtractionEnds ==
    /\ extracting /\ Boundaries(buffer) = {} /\ extracting' = FALSE
    /\ UNCHANGED <<buffer, said, given, places, flushed>>

Flush ==
    /\ ~extracting /\ ~flushed /\ flushed' = TRUE
    /\ Take(Len(buffer))
    /\ UNCHANGED <<extracting, given>>

ClearBuffer ==
    /\ ~extracting /\ buffer' = <<>>
    /\ said' = <<>> /\ given' = <<>> /\ places' = <<>> /\ flushed' = FALSE
    /\ UNCHANGED extracting

SentenceNext ==
    \/ \E n \in 1..(MaxText - Len(given)) : \E delta \in [1..n -> Bytes] : AppendDelta(delta)
    \/ ExtractSentence \/ ExtractionEnds \/ Flush \/ ClearBuffer

SentenceSpec == SentenceInit /\ [][SentenceNext]_sentenceVars
-----------------------------------------------------------------------------
\* the text cut after every delimiter, and the pieces of it that are not blank
Ends(text) == {b[2] : b \in Boundaries(text)}
Cuts(text) == {0, Len(text)} \cup Ends(text)
Pieces(text) == {p \in Cuts(text) \X Cuts(text) :
                    /\ p[1] < p[2] /\ \A c \in Cuts(text) : ~(p[1] < c /\ c < p[2])
                    /\ Trim(SubSeq(text, p[1] + 1, p[2])) # <<>>}

(***************************************************************************)
(* However an answer is cut into pieces, its sentences are those of the    *)
(* whole text, cut after each delimiter: none is lost, repeated, reordered *)
(* or split, and only what no delimiter ends yet is held back for flush(). *)
(***************************************************************************)
CuttingDoesNotMatter ==
    ~extracting =>
        /\ {places[i] : i \in DOMAIN places}
             = {p \in Pieces(given) : p[2] \in Ends(given) \/ flushed}
        /\ \A i, j \in DOMAIN places : i < j => places[i][2] <= places[j][1]
        /\ said = [i \in DOMAIN places |-> Trim(SubSeq(given, places[i][1] + 1, places[i][2]))]
=============================================================================
