------------------------------ MODULE MCAsides ------------------------------
(* Five machines that stand aside from the rest, one of them from the      *)
(* initial state on: the table of the automatic reply, on five nicks and   *)
(* with four entries that drop their two oldest, so that it overflows      *)
(* within one cooldown; the watchdog of the agent's session; split_say on  *)
(* characters of one, two and four bytes; the reader of five bytes; and    *)
(* the roll counter: a midnight, two stamps written in the other order, a  *)
(* clock that goes back and a silence of a day all fit in its bounds.      *)
EXTENDS DmReject, Watchdog, SplitSay, RollCounter, ReaderLoop

CONSTANTS ann, bob, eve, joe, zoe, Machine

MCNick == {ann, bob, eve, joe, zoe}
MCWidth == [space |-> 1, a |-> 1, e |-> 2, emoji |-> 4]
JustWatchdog == {"watchdog"}
Each == {"reply", "watchdog", "split", "rolls", "reader"}

VARIABLE machine

vars == <<machine, rejectVars, watchVars, splitVars, rollVars, readerVars>>

Init ==
    /\ machine \in Machine
    /\ RejectInit /\ WatchInit /\ SplitInit /\ RollInit /\ ReaderInit

Replying(A) == machine = "reply" /\ A /\ UNCHANGED <<machine, watchVars, splitVars, rollVars, readerVars>>
Watching(A) == machine = "watchdog" /\ A /\ UNCHANGED <<machine, rejectVars, splitVars, rollVars, readerVars>>
Splitting(A) == machine = "split" /\ A /\ UNCHANGED <<machine, rejectVars, watchVars, rollVars, readerVars>>
Rolling(A) == machine = "rolls" /\ A /\ UNCHANGED <<machine, rejectVars, watchVars, splitVars, readerVars>>
Hearing(A) == machine = "reader" /\ A /\ UNCHANGED <<machine, rejectVars, watchVars, splitVars, rollVars>>

Next ==
    \/ Replying(RejectNext) \/ Watching(WatchNext) \/ Splitting(SplitNext)
    \/ Rolling(RollNext) \/ Hearing(ReaderNext)

\* The loops run and their sleeps end; a latched session is still talked to; and
\* systemd starts the bot again.
Spec ==
    /\ Init /\ [][Next]_vars
    /\ WF_vars(Watching(Loop) \/ Hearing(reader_loop)) /\ SF_vars(Watching(Elapse))
    /\ WF_vars(Watching(latched /\ \E kind \in LineKind : Writes(kind)))
    /\ WF_vars(Watching(BotReturns))

\* Types, for each machine; the reply table also keeps its bound, and one entry per nick.
TypesOK ==
    /\ RejectTypeOK /\ TableBounded
    /\ WatchTypeOK /\ SplitTypeOK /\ RollTypeOK /\ ReaderTypeOK

(* The loops go on to what they are for: a latched session is cleared, and *)
(* a dead link ends the process.                                           *)
LoopsGoOn == LatchEnds /\ DeadLinkEnds
=============================================================================
