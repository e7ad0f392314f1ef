----------------------------- MODULE ReaderLoop -----------------------------
(***************************************************************************)
(* reader_loop (bot.py): the bytes of the server, cut anywhere by recv, put*)
(* back into lines.  A TLS record that is not complete yet reads as EAGAIN;*)
(* so does, for ever, a link that has died in silence.  A byte is a letter,*)
(* a carriage return or a newline, and a line its letters and those of the *)
(* returns that do not end it.  What a line does is handle_server_line's.  *)
(***************************************************************************)
EXTENDS Naturals, Sequences, FiniteSetsExt, SequencesExt

CONSTANTS
    RECV_RETRY_MAX,   \* 200 in the code
    MaxBytes          \* bound: bytes the server ever sends

ASSUME ReaderAssumption == RECV_RETRY_MAX \in Nat /\ MaxBytes \in Nat

VARIABLES
    toCome,    \* the bytes of the server that recv has not returned
    buf,       \* the bytes not yet split
    retries,   \* consecutive EAGAINs
    reader,    \* "connects", "recv", "splits", or how it ended: "recv-fail",
               \* "DISCONNECTED"
    stream,    \* history: all the server sends
    handled    \* history: the lines handed to handle_server_line

readerVars == <<toCome, buf, retries, reader, stream, handled>>

Byte == {"x", "y", "cr", "nl"}
Newlines(b) == {i \in DOMAIN b : b[i] = "nl"}

\* raw.rstrip(b"\r")
Stripped(raw) == SubSeq(raw, 1, Max({0} \cup {i \in DOMAIN raw : raw[i] # "cr"}))

\* main: from here on the server sends what it will.
Connect ==
    /\ reader = "connects"
    /\ reader' = "recv"
    /\ stream' \in SeqOf(Byte, MaxBytes) /\ toCome' = stream'
    /\ UNCHANGED <<buf, retries, handled>>

\* recv returns some of what has come; a chunk may end anywhere.
Recv ==
    /\ reader = "recv" /\ toCome # << >>
    /\ \E n \in 1 .. Len(toCome) :
        /\ buf' = buf \o SubSeq(toCome, 1, n)
        /\ toCome' = SubSeq(toCome, n + 1, Len(toCome))
    /\ retries' = 0 /\ reader' = "splits"
    /\ UNCHANGED <<stream, handled>>

\* Mutant: what follows the last newline is dropped.
SplitsDropsRest ==
    /\ reader = "splits"
    /\ IF Newlines(buf) = {} THEN reader' = "recv" /\ buf' = << >> /\ UNCHANGED handled
       ELSE LET n == Min(Newlines(buf))
                line == Stripped(SubSeq(buf, 1, n - 1))
            IN /\ buf' = SubSeq(buf, n + 1, Len(buf))
               /\ handled' = IF line = << >> THEN handled ELSE Append(handled, line)
               /\ UNCHANGED reader
    /\ UNCHANGED <<toCome, retries, stream>>

\* `while b"\n" in buf`: a line is handled, whether or not its handler raises.
Splits ==
    /\ reader = "splits"
    /\ IF Newlines(buf) = {} THEN reader' = "recv" /\ UNCHANGED <<buf, handled>>
       ELSE LET n == Min(Newlines(buf))
                line == Stripped(SubSeq(buf, 1, n - 1))
            IN /\ buf' = SubSeq(buf, n + 1, Len(buf))
               /\ handled' = IF line = << >> THEN handled ELSE Append(handled, line)
               /\ UNCHANGED reader
    /\ UNCHANGED <<toCome, retries, stream>>

\* EAGAIN, once more or once too many.
Retry ==
    /\ reader = "recv"
    /\ retries' = retries + 1
    /\ reader' = IF retries' > RECV_RETRY_MAX THEN "recv-fail" ELSE "recv"
    /\ UNCHANGED <<toCome, buf, stream, handled>>

\* A timeout, a reset; or the end of the stream.  The process exits.
LinkEnds ==
    /\ reader = "recv"
    /\ \/ reader' = "recv-fail"
       \/ toCome = << >> /\ reader' = "DISCONNECTED"
    /\ UNCHANGED <<toCome, buf, retries, stream, handled>>

reader_loop == Recv \/ Splits \/ Retry

ReaderInit ==
    /\ reader = "connects"
    /\ stream = << >> /\ toCome = << >> /\ buf = << >>
    /\ retries = 0 /\ handled = << >>

ReaderNext == Connect \/ reader_loop \/ LinkEnds
ReaderSpec == ReaderInit /\ [][ReaderNext]_readerVars

-----------------------------------------------------------------------------
\* The line that ends before n, and whether one does that is not empty.
LineStart(b, n) == Max({0} \cup {i \in Newlines(b) : i < n})
LineAt(b, n) ==
    LET line == Stripped(SubSeq(b, LineStart(b, n) + 1, n - 1))
    IN IF b[n] = "nl" /\ line # << >> THEN <<line>> ELSE << >>

\* The lines of a stream: what is between its newlines.
LinesOf(b) == FlattenSeq([n \in DOMAIN b |-> LineAt(b, n)])

ReaderTypeOK ==
    /\ \A b \in {toCome, buf, stream} : b \in Seq(Byte)
    /\ retries \in 0 .. RECV_RETRY_MAX + 1
    /\ reader \in {"connects", "recv", "splits", "recv-fail", "DISCONNECTED"}
    /\ handled \in Seq(Seq(Byte \ {"nl"}))

(* However recv cuts the stream, and whatever it raised in between, what   *)
(* was handled and what is still to handle are the lines of the stream,    *)
(* each whole, once and in order; nothing of an unfinished line is handled,*)
(* and no line that has come waits for the next recv.                      *)
LinesArriveWhole ==
    /\ handled \o LinesOf(buf \o toCome) = LinesOf(stream)
    /\ reader # "splits" => Newlines(buf) = {}

(* "Retrying FOREVER would leave a process that looks alive and hears      *)
(* nothing" (bot.py:1227): a link that brings nothing more ends the process*)
(* even if all it ever says is EAGAIN.                                     *)
DeadLinkEnds == []<>(reader \notin {"recv", "splits"})
=============================================================================
