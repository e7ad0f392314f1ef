------------------------------ MODULE SplitSay ------------------------------
(***************************************************************************)
(* split_say (bot.py): a text as PRIVMSGs of about MAX_BODY bytes each, cut*)
(* after a space, or inside a word where a character begins.  A text is its*)
(* characters, a space or a letter told by its bytes in UTF-8; a byte is   *)
(* its character and its place in it.                                      *)
(***************************************************************************)
EXTENDS Naturals, Sequences, SequencesExt, FiniteSetsExt

CONSTANTS
    Width,      \* the bytes of each character, 4 at most
    Space,      \* the one that is a space
    MAX_BODY,   \* 400 in the code
    MaxText     \* bound: characters of a text

ASSUME SplitAssumption ==
    /\ \A ch \in DOMAIN Width : Width[ch] \in 1 .. 4
    /\ Space \in DOMAIN Width /\ Width[Space] = 1
    /\ MAX_BODY \in Nat /\ MAX_BODY >= 4 /\ MaxText \in Nat

VARIABLES
    whole,    \* history: the bytes of the text
    rest,     \* b: those still to send
    chunks    \* history: the messages sent

splitVars == <<whole, rest, chunks>>

Encode(text) == FlattenSeq([i \in DOMAIN text |-> [k \in 1 .. Width[text[i]] |-> <<text[i], k>>]])

\* decode("utf-8", errors="ignore"): the characters that are all there.
Decode(b) ==
    LET complete(i) == b[i][2] <= i /\ i - b[i][2] + Width[b[i][1]] <= Len(b) IN
    FlattenSeq([i \in DOMAIN b |-> IF complete(i) THEN <<b[i]>> ELSE << >>])

\* Mutant: the cut is not taken back to where a character begins.
CutAnywhere(b) ==
    LET spaces == {i \in 2 .. MAX_BODY + 1 : b[i][1] = Space} IN
    IF spaces # {} THEN Max(spaces) ELSE MAX_BODY

\* How many bytes the next message takes: to the last space, with it, or to
\* the last character that fits.
Cut(b) ==
    LET spaces == {i \in 2 .. MAX_BODY + 1 : b[i][1] = Space} IN
    IF spaces # {} THEN Max(spaces)
    ELSE Max({1} \cup {i \in 2 .. MAX_BODY : b[i + 1][2] = 1})

\* An empty text goes out as it is, and is left out here.
Texts == SeqOf(DOMAIN Width, MaxText) \ {<< >>}

split_say(text) ==
    /\ rest = << >> /\ whole = << >>
    /\ whole' = Encode(text) /\ rest' = Encode(text)
    /\ UNCHANGED chunks

SayRest ==
    /\ rest # << >> /\ Len(rest) <= MAX_BODY
    /\ chunks' = Append(chunks, Decode(rest))
    /\ rest' = << >>
    /\ UNCHANGED whole

SayChunk ==
    /\ Len(rest) > MAX_BODY
    /\ chunks' = Append(chunks, Decode(SubSeq(rest, 1, Cut(rest))))
    /\ rest' = SubSeq(rest, Cut(rest) + 1, Len(rest))
    /\ UNCHANGED whole

SplitInit == whole = << >> /\ rest = << >> /\ chunks = << >>
SplitNext == (\E text \in Texts : split_say(text)) \/ SayRest \/ SayChunk
SplitSpec == SplitInit /\ [][SplitNext]_splitVars

-----------------------------------------------------------------------------
SplitTypeOK ==
    LET Byte == (DOMAIN Width) \X (1 .. 4) IN
    whole \in Seq(Byte) /\ rest \in Seq(Byte) /\ chunks \in Seq(Seq(Byte))

(* "Preserving whitespace verbatim" (bot.py:541): what was sent and what is*)
(* left are the text, no byte lost to the decoder, none twice.  And each   *)
(* message has something to say and fits, but for the space it is cut      *)
(* after.                                                                  *)
ChunksMakeTheText ==
    /\ FlattenSeq(chunks) \o rest = whole
    /\ \A i \in DOMAIN chunks :
        /\ chunks[i] # << >>
        /\ \/ Len(chunks[i]) <= MAX_BODY
           \/ Len(chunks[i]) = MAX_BODY + 1 /\ Last(chunks[i])[1] = Space
=============================================================================
