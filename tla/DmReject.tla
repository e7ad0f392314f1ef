------------------------------ MODULE DmReject ------------------------------
(***************************************************************************)
(* The automatic reply to a blocked private message: `dm_reject_once` of   *)
(* bot.py.  A nick is told "I only talk in channels" and is then left in   *)
(* peace for DM_REJECT_COOLDOWN.  The table of the nicks already told is   *)
(* bounded: an entry too many throws the oldest ones out.                  *)
(***************************************************************************)
EXTENDS Naturals, Sequences, SequencesExt

CONSTANTS
    Nick,          \* folded nicknames
    DmRejectMsg,   \* FALSE when BOT_DM_REJECT is empty: no reply at all
    RejectMax,     \* entries the table may keep (500 in the code)
    RejectEvict,   \* oldest entries dropped when it has one more (100)
    MaxCooling     \* bound: replies within one cooldown

ASSUME RejectAssumption ==
    /\ DmRejectMsg \in BOOLEAN
    /\ RejectMax \in Nat
    /\ RejectEvict \in 1 .. RejectMax
    /\ MaxCooling \in Nat

VARIABLES
    dm_rejected,   \* the remembered nicks, the one told longest ago first
    cooling        \* the replies sent less than a cooldown ago, oldest first

rejectVars == <<dm_rejected, cooling>>

RejectInit ==
    /\ dm_rejected = << >>
    /\ cooling = << >>

\* `now - last < DM_REJECT_COOLDOWN`, for the nicks the table remembers.
ToldRecently(n) == Contains(dm_rejected, n) /\ Contains(cooling, n)

\* Mutant: the table sorted newest first.
EvictNewest(told) ==
    IF Len(told) > RejectMax THEN SubSeq(told, 1, Len(told) - RejectEvict) ELSE told

EvictOldest(told) ==
    IF Len(told) > RejectMax THEN SubSeq(told, RejectEvict + 1, Len(told)) ELSE told

\* Mutant: a list of entries instead of a table.
ForgetNothing(n) == dm_rejected

\* A nick told again takes the place of its own entry, as the newest one.
Forget(n) ==
    IF Contains(dm_rejected, n)
    THEN RemoveAt(dm_rejected, CHOOSE i \in DOMAIN dm_rejected : dm_rejected[i] = n)
    ELSE dm_rejected

Remember(n) == EvictOldest(Append(Forget(n), n))

DmRejectOnce(n) ==
    IF DmRejectMsg /\ ~ToldRecently(n)
    THEN /\ dm_rejected' = Remember(n)
         /\ cooling' = Append(cooling, n)
    ELSE UNCHANGED rejectVars

\* The clock: the oldest reply is now a full cooldown old.
CooldownOver ==
    /\ cooling # << >>
    /\ cooling' = Tail(cooling)
    /\ UNCHANGED dm_rejected

RejectNext ==
    \/ \E n \in Nick : Len(cooling) < MaxCooling /\ DmRejectOnce(n)
    \/ CooldownOver

RejectSpec == RejectInit /\ [][RejectNext]_rejectVars

-----------------------------------------------------------------------------
RejectTypeOK ==
    /\ dm_rejected \in Seq(Nick)
    /\ cooling \in Seq(Nick)

(* The table never outgrows its bound and keeps one entry per nick, so the *)
(* eviction on the 501st nick is the only one ever needed.                 *)
TableBounded ==
    /\ Len(dm_rejected) <= RejectMax
    /\ IsInjective(dm_rejected)

(* What the cooldown is worth once the table can overflow: a nick gets a   *)
(* second reply inside its cooldown only if, since the first, at least     *)
(* RejectMax + 1 - RejectEvict (401) other nicks were answered.            *)
SecondReplyOnlyAfterFlood ==
    \A i, j \in 1 .. Len(cooling) :
        (i < j /\ cooling[i] = cooling[j])
            => Cardinality({cooling[k] : k \in i + 1 .. j - 1})
                 >= RejectMax + 1 - RejectEvict
=============================================================================
