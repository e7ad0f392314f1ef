------------------------------- MODULE MCFifo -------------------------------
(* Fifo with two runs of bot.say, of one line of UTF-8 and of two, and no  *)
(* restart.                                                                *)
EXTENDS Fifo

CONSTANTS agent, operator

MCSayer == {agent, operator}
MCSayLines == [s \in MCSayer |-> IF s = agent THEN 1 ELSE 2]
=============================================================================
