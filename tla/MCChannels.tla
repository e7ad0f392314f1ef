----------------------------- MODULE MCChannels -----------------------------
(* Two machines that share nothing, one or the other from the initial state*)
(* on: Channels with one channel (nothing in it relates two of them), and  *)
(* LeakGuard on two networks, of which bot.reserved gives one a reserved   *)
(* channel, with a text that shares words only with itself and one that    *)
(* names the channel.                                                      *)
EXTENDS Channels, LeakGuard

CONSTANTS sniffo, azzurra, libera, plan, named, Machine

MCOne == {sniffo}
MCProc == {azzurra, libera}
MCOneReserved == {azzurra}
MCText == {plan, named}
MCNames == {named}
MCShares == {<<plan, plan>>}
JustChannels == {"channels"}
Both == {"channels", "leak"}

VARIABLE machine

MCInit ==
    /\ machine \in Machine
    /\ Init /\ LeakInit
    /\ machine = "leak" => ~startup_file /\ banned = {} /\ ourNick = "NICK"

MCNext ==
    \/ machine = "channels" /\ Next /\ UNCHANGED <<machine, leakVars>>
    \/ machine = "leak" /\ LeakNext /\ UNCHANGED <<machine, vars>>

MCSpec == MCInit /\ [][MCNext]_<<machine, vars, leakVars>>

When(A) == machine = "channels" /\ A

\* With the fairness of Channels.
MCFairSpec ==
    /\ MCSpec
    /\ WF_vars(When(handle_server_line)) /\ WF_vars(When(Serve))
    /\ WF_vars(When(Startup)) /\ SF_vars(When(Converge)) /\ WF_vars(When(ConvergeReplays))
    /\ \A c \in Channel : WF_vars(When(Rejoin(c))) /\ WF_vars(When(LateJoin(c)))

\* Types, for each machine.
TypesOK == TypeOK /\ LeakTypeOK
=============================================================================
