-------------------------------- MODULE Fifo --------------------------------
(***************************************************************************)
(* The command pipe: bot.send, which `writer_loop` of bot.py makes and     *)
(* reads, and which bot.say, the agent and the watchdog write.             *)
(*                                                                         *)
(* A FIFO is a rendezvous: each side's open waits for the other, the reader*)
(* gets EOF when the last writer has closed, and bot.py then closes its end*)
(* and opens it again.  What is in the pipe when nobody has it open is     *)
(* gone; a write with no reader kills the one who writes.  A restart takes *)
(* the name away from whoever waits on it, and for an instant the name is  *)
(* nobody's: a shell that writes to it then makes a plain file.            *)
(***************************************************************************)
EXTENDS Naturals, Sequences, FiniteSets, SequencesExt

CONSTANTS
    Sayer,        \* runs of bot.say
    SayLines,     \* how many lines each has to say
    Garbled,      \* the <<sayer, number>> of lines that are not UTF-8
    MaxRestarts   \* bound: restarts of the bot

ASSUME FifoAssumption ==
    /\ IsFiniteSet(Sayer)
    /\ SayLines \in [Sayer -> Nat \ {0}]
    /\ Garbled \subseteq Sayer \X Nat
    /\ MaxRestarts \in Nat

VARIABLES
    node,       \* what bot.send names: "fifo", a "file", or "nothing"
    writer,     \* writer_loop: "starts", "makes", "opens", "reads", "eof", "closed", "dead"
    inPipe,     \* the lines in the pipe
    inHand,     \* the lines read and not run yet
    at,         \* per sayer: "ready", "waits", "writes", "done", "filed", "killed", "orphan"
    wrote,      \* per sayer, the lines written
    ran,        \* history: the lines handed to run_cmd
    restarts

fifoVars == <<node, writer, inPipe, inHand, at, wrote, ran, restarts>>

\* Whether writer_loop has its end open, or waits in open() for a sayer.
ReadEnd == writer \in {"opens", "reads", "eof"}

Having(state) == {s \in Sayer : at[s] = state}
Become(from, to) == [s \in Sayer |-> IF at[s] \in from THEN to ELSE at[s]]

-----------------------------------------------------------------------------
(* The writer thread of bot.py.                                            *)

\* os.remove: whoever waits for that FIFO waits for ever.
RemoveOld ==
    /\ writer = "starts"
    /\ writer' = "makes"
    /\ node' = "nothing"
    /\ at' = Become({"waits"}, "orphan")
    /\ UNCHANGED <<inPipe, inHand, wrote, ran, restarts>>

\* os.mkfifo raises when the name is taken.
MakeFifo ==
    /\ writer = "makes"
    /\ IF node = "nothing" THEN node' = "fifo" /\ writer' = "closed"
       ELSE writer' = "dead" /\ UNCHANGED node
    /\ UNCHANGED <<inPipe, inHand, at, wrote, ran, restarts>>

\* open(FIFO, "r"), which wakes the sayers that wait.
OpenRead ==
    /\ writer = "closed"
    /\ writer' = IF Having("waits") \cup Having("writes") = {} THEN "opens" ELSE "reads"
    /\ at' = Become({"waits"}, "writes")
    /\ UNCHANGED <<node, inPipe, inHand, wrote, ran, restarts>>

\* Mutant: a chunk that does not decode is skipped.
ReadChunkSkips ==
    /\ writer = "reads" /\ inHand = << >> /\ inPipe # << >>
    /\ inHand' = IF Range(inPipe) \cap Garbled = {} THEN inPipe ELSE << >>
    /\ inPipe' = << >>
    /\ UNCHANGED <<node, writer, at, wrote, ran, restarts>>

\* All that is in the pipe.  A byte that is not UTF-8 raises past run_cmd: the
\* thread ends, its end of the pipe is closed, and nothing reads any more.
ReadChunk ==
    /\ writer = "reads" /\ inHand = << >> /\ inPipe # << >>
    /\ IF Range(inPipe) \cap Garbled = {} THEN inHand' = inPipe /\ UNCHANGED writer
       ELSE writer' = "dead" /\ UNCHANGED inHand
    /\ inPipe' = << >>
    /\ UNCHANGED <<node, at, wrote, ran, restarts>>

RunCmd ==
    /\ inHand # << >>
    /\ ran' = Append(ran, Head(inHand))
    /\ inHand' = Tail(inHand)
    /\ UNCHANGED <<node, writer, inPipe, at, wrote, restarts>>

\* No sayer has it open and the pipe is empty: the loop over its lines ends.
ReadEof ==
    /\ writer = "reads" /\ inHand = << >> /\ inPipe = << >> /\ Having("writes") = {}
    /\ writer' = "eof"
    /\ UNCHANGED <<node, inPipe, inHand, at, wrote, ran, restarts>>

\* The end of `with`: the pipe keeps its lines only if a sayer has it open.
CloseRead ==
    /\ writer = "eof"
    /\ writer' = "closed"
    /\ inPipe' = IF Having("writes") = {} THEN << >> ELSE inPipe
    /\ UNCHANGED <<node, inHand, at, wrote, ran, restarts>>

writer_loop == RemoveOld \/ MakeFifo \/ OpenRead \/ ReadChunk \/ RunCmd \/ ReadEof \/ CloseRead

\* The process ends and systemd starts it again: nobody reads the old FIFO.
Restart ==
    /\ restarts < MaxRestarts
    /\ restarts' = restarts + 1
    /\ writer' = "starts"
    /\ inPipe' = << >> /\ inHand' = << >>
    /\ at' = [s \in Sayer |-> IF at[s] # "writes" THEN at[s]
                              ELSE IF wrote[s] = SayLines[s] THEN "done" ELSE "killed"]
    /\ UNCHANGED <<node, wrote, ran>>

-----------------------------------------------------------------------------
(* bot.say.                                                                *)

\* `> "$FIFO"`: on a name that is not a FIFO, a file is made and written.
SayOpens(s) ==
    /\ at[s] = "ready"
    /\ IF node = "fifo"
       THEN /\ at' = [at EXCEPT ![s] = IF ReadEnd THEN "writes" ELSE "waits"]
            /\ writer' = IF writer = "opens" THEN "reads" ELSE writer
            /\ UNCHANGED <<node, wrote>>
       ELSE /\ node' = "file"
            /\ at' = [at EXCEPT ![s] = "filed"]
            /\ wrote' = [wrote EXCEPT ![s] = SayLines[s]]
            /\ UNCHANGED writer
    /\ UNCHANGED <<inPipe, inHand, ran, restarts>>

\* printf of one line: atomic below PIPE_BUF; SIGPIPE when nobody reads.
SayWrites(s) ==
    /\ at[s] = "writes" /\ wrote[s] < SayLines[s]
    /\ IF ReadEnd
       THEN /\ inPipe' = Append(inPipe, <<s, wrote[s] + 1>>)
            /\ wrote' = [wrote EXCEPT ![s] = @ + 1]
            /\ UNCHANGED at
       ELSE at' = [at EXCEPT ![s] = "killed"] /\ UNCHANGED <<inPipe, wrote>>
    /\ UNCHANGED <<node, writer, inHand, ran, restarts>>

SayCloses(s) ==
    /\ at[s] = "writes" /\ wrote[s] = SayLines[s]
    /\ at' = [at EXCEPT ![s] = "done"]
    /\ inPipe' = IF ReadEnd \/ Cardinality(Having("writes")) > 1 THEN inPipe ELSE << >>
    /\ UNCHANGED <<node, writer, inHand, wrote, ran, restarts>>

-----------------------------------------------------------------------------
FifoInit ==
    /\ node = "nothing" /\ writer = "starts"
    /\ inPipe = << >> /\ inHand = << >>
    /\ at = [s \in Sayer |-> "ready"] /\ wrote = [s \in Sayer |-> 0]
    /\ ran = << >> /\ restarts = 0

FifoNext ==
    \/ writer_loop \/ Restart
    \/ \E s \in Sayer : SayOpens(s) \/ SayWrites(s) \/ SayCloses(s)

FifoSpec == FifoInit /\ [][FifoNext]_fifoVars

-----------------------------------------------------------------------------
(* Types; a sayer waits only while nobody reads, and only the reader's own *)
(* lines are in its hand.                                                  *)
FifoTypeOK ==
    /\ node \in {"fifo", "file", "nothing"}
    /\ writer \in {"starts", "makes", "opens", "reads", "eof", "closed", "dead"}
    /\ \A q \in {inPipe, inHand, ran} : q \in Seq(Sayer \X Nat)
    /\ at \in [Sayer -> {"ready", "waits", "writes", "done", "filed", "killed", "orphan"}]
    /\ \A s \in Sayer : wrote[s] \in 0 .. SayLines[s]
    /\ restarts \in 0 .. MaxRestarts
    /\ Having("waits") # {} => node = "fifo" /\ ~ReadEnd
    /\ inHand # << >> => writer = "reads"

(* A message of several lines never arrives with a hole in it, twice, or in*)
(* another order: whatever the other sayers do, however the pipe is closed,*)
(* lost or made again, before a line runs exactly the lines said before it *)
(* have run.                                                               *)
NoHolesInAMessage ==
    \A i \in DOMAIN ran :
        LET Before == {j \in 1 .. i - 1 : ran[j][1] = ran[i][1]} IN
        {ran[j][2] : j \in Before} = 1 .. ran[i][2] - 1

(* bot.say comes back: a sayer that waits for the bot to read does not wait*)
(* for ever, unless a restart took the FIFO from under it or an exception  *)
(* ended the thread that reads.                                            *)
SayersGetThrough ==
    \A s \in Sayer : []<>(at[s] # "waits" \/ writer = "dead")

(* "Each non-empty stdin line becomes one message" (README.md:102): a      *)
(* bot.say that wrote to the FIFO and returned has had each of its lines   *)
(* run, or they are on their way.                                          *)
EachLineBecomesAMessage ==
    \A s \in Sayer : at[s] = "done" =>
        \A i \in 1 .. SayLines[s] :
            \E q \in {ran, inHand, inPipe} : Contains(q, <<s, i>>)
=============================================================================
