---------------------------- MODULE MCTrustGate -----------------------------
(* TrustGate on a few nicks: vjt, always in sight, and rob, listed with a   *)
(* host each; eve, a stranger; pup, a stranger bot.dmallow lets through;    *)
(* NickServ.  One host is listed, the other is not.                         *)
EXTENDS TrustGate

CONSTANTS vjt, rob, eve, pup, NickServ, home, away

MCOneListed == {vjt, eve}
MCStrangers == {vjt, pup, NickServ}
MCHost == {home, away}
MCOneRule == <<[nick |-> vjt, glob |-> {home}]>>
MCDmAllow == {<<pup, home>>, <<vjt, home>>}
MCInSight == {vjt}
MCService == {NickServ}
=============================================================================
