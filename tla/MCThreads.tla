----------------------------- MODULE MCThreads ------------------------------
(* Five machines of the bot's threads that share nothing, one of them from *)
(* the initial state on.  OrderGate with a pinned user and another person, *)
(* on two nicks: vjt, listed, and lucy, not; the operator pins vjt's key to*)
(* vjt, or nobody's, or eve's to lucy as well, or hands the nick vjt over  *)
(* to eve.  ReplyPath, whose bridge remembers one msgid.  Fifo, with two   *)
(* runs of bot.say of two lines, one of which is not UTF-8.  IdleTick with *)
(* two channels, and DccSend with two offers on one port.                  *)
EXTENDS OrderGate, ReplyPath, Fifo, IdleTick, DccSend

CONSTANTS vjt, lucy, owner, eve, agent, operator, Machine

MCNick == {vjt, lucy}
MCPerson == {owner, eve}
MCListed == {vjt}
MCHome == [p \in MCPerson |-> IF p = owner THEN vjt ELSE NoNick]
Pin(v, l) == [n \in MCNick |-> IF n = vjt THEN v ELSE l]
MCPins == {Pin(owner, NoKey), Pin(NoKey, NoKey), Pin(owner, eve), Pin(eve, owner)}
MCSayer == {agent, operator}
MCSayLines == [s \in MCSayer |-> 2]
MCGarbled == {<<operator, 2>>}
Each == {"orders", "path", "fifo", "idle", "dcc"}

VARIABLE machine

allVars == <<machine, vars, replyVars, fifoVars, idleVars, dccVars>>

MCInit ==
    /\ machine \in Machine
    /\ Init /\ ReplyInit /\ FifoInit /\ IdleInit /\ DccInit
    /\ machine # "orders" => pins = Pin(NoKey, NoKey)

Order(A) == machine = "orders" /\ A /\ UNCHANGED <<machine, replyVars, fifoVars, idleVars, dccVars>>
Path(A)  == machine = "path" /\ A /\ UNCHANGED <<machine, vars, fifoVars, idleVars, dccVars>>
Pipe(A)  == machine = "fifo" /\ A /\ UNCHANGED <<machine, vars, replyVars, idleVars, dccVars>>
Idle(A)  == machine = "idle" /\ A /\ UNCHANGED <<machine, vars, replyVars, fifoVars, dccVars>>
Dcc(A)   == machine = "dcc" /\ A /\ UNCHANGED <<machine, vars, replyVars, fifoVars, idleVars>>

MCNext == Order(Next) \/ Path(ReplyNext) \/ Pipe(FifoNext) \/ Idle(IdleNext) \/ Dcc(DccNext)

MCSpec == MCInit /\ [][MCNext]_allVars

\* Only one machine is there: a fairness condition serves a thread of each.
MCFairSpec ==
    /\ MCSpec
    /\ WF_allVars(\/ Order(TickStat) \/ Path(Writer \/ DispatchEnds) \/ Pipe(writer_loop)
                  \/ Idle(idle_ticker_loop))
    /\ WF_allVars(Order(TickRead) \/ Path(GiveUpOnKeys))
    /\ WF_allVars(Order(TickExpires) \/ Path(PacerWrites \/ OnLost))
    /\ WF_allVars(Order(handle_server_line))
    /\ \A o \in Offer : WF_allVars(Dcc(_dcc_serve(o)))

\* Types, for each machine.
TypesOK == TypeOK /\ ReplyTypeOK /\ FifoTypeOK /\ IdleTypeOK /\ DccTypeOK

(* Nobody waits for ever: not a held line for its ACK, nor who says for the*)
(* writer, nor a silent channel for its IDLE, nor an offer for its peer.   *)
NothingHangs == HeldLinesEnd /\ SayersGetThrough /\ SilenceIsNoticed /\ OffersEnd
=============================================================================
