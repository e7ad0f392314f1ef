---------------------------- MODULE MCLeakGuard -----------------------------
(* LeakGuard on two networks.  Two texts share words only with themselves, *)
(* a third names the reserved channel.                                     *)
EXTENDS LeakGuard

CONSTANTS azzurra, libera, plan, joke, name

MCProc == {azzurra, libera}
MCOneReserved == {azzurra}
MCText == {plan, joke}
MCNames == {name}
MCShares == {<<plan, plan>>, <<joke, joke>>}
=============================================================================
