----------------------------- MODULE MCSession ------------------------------
(* Session with our nick, throwaway nicks and a stranger's, on networks of *)
(* every kind: NickServ, SASL, no services, SASL without CAP.              *)
EXTENDS Session

CONSTANTS bot, bot_100, bot_101, eve

MCNick == {bot, bot_100, bot_101, eve}
MCTemp == {bot_100, bot_101}

Network(sasl, pass, cap) == [sasl |-> sasl, pass |-> pass, cap |-> cap]
MCProfiles == {Network(FALSE, TRUE, TRUE), Network(TRUE, TRUE, TRUE),
               Network(FALSE, FALSE, TRUE), Network(TRUE, TRUE, FALSE)}
MCSaslOnly == {Network(TRUE, TRUE, TRUE)}
=============================================================================
