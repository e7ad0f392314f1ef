------------------------------ MODULE IdleTick ------------------------------
(***************************************************************************)
(* IDLE (bot.py, `_arm_idle` and `idle_ticker_loop`): once per silence, in *)
(* the channels of IDLE_RANGES.  The reader arms a channel at each line of *)
(* a human; the ticker disarms under the lock the channels whose time has  *)
(* come, lets it go, and only then says IDLE for each: the reader may have *)
(* armed one of them again by then.                                        *)
(***************************************************************************)
EXTENDS Naturals, FiniteSets

CONSTANTS
    IdleChan,    \* the channels of IDLE_RANGES
    Lo, Hi,      \* their range, in ticks of the ticker
    MaxHumans    \* bound: lines of humans per channel

ASSUME IdleAssumption == Lo \in Nat \ {0} /\ Hi \in Nat /\ Lo <= Hi /\ MaxHumans \in Nat

VARIABLES
    idle_state,  \* per channel, the time left before IDLE, or Disarmed
    fired,       \* the channels the ticker has disarmed and not announced yet
    looked,      \* whether the ticker has looked since time last passed
    silent,      \* per channel, how long no human has spoken, up to Hi
    humans,      \* per channel, the lines of humans so far
    idles,       \* history: per channel, the IDLEs said
    answered     \* history: per channel, the human line the last IDLE is about

idleVars == <<idle_state, fired, looked, silent, humans, idles, answered>>

Disarmed == Hi + 1
Armed(c) == idle_state[c] # Disarmed

\* Mutant: a channel that is armed keeps its time.
HumanArmsOnce(c) ==
    /\ humans[c] < MaxHumans
    /\ humans' = [humans EXCEPT ![c] = @ + 1]
    /\ silent' = [silent EXCEPT ![c] = 0]
    /\ \E delay \in Lo .. Hi : idle_state' = [idle_state EXCEPT ![c] = IF Armed(c) THEN @ ELSE delay]
    /\ UNCHANGED <<fired, looked, idles, answered>>

\* A human's line, and _arm_idle's fresh cooldown.
Human(c) ==
    /\ humans[c] < MaxHumans
    /\ humans' = [humans EXCEPT ![c] = @ + 1]
    /\ silent' = [silent EXCEPT ![c] = 0]
    /\ \E delay \in Lo .. Hi : idle_state' = [idle_state EXCEPT ![c] = delay]
    /\ UNCHANGED <<fired, looked, idles, answered>>

\* Ten seconds.
TenSeconds ==
    /\ fired = {}
    /\ looked /\ looked' = FALSE
    /\ silent' = [c \in IdleChan |-> IF silent[c] < Hi THEN silent[c] + 1 ELSE Hi]
    /\ idle_state' = [c \in IdleChan |-> IF Armed(c) /\ idle_state[c] > 0 THEN idle_state[c] - 1
                                         ELSE idle_state[c]]
    /\ UNCHANGED <<fired, humans, idles, answered>>

\* Under idle_lock: the channels whose time has come are disarmed.
Look ==
    /\ fired = {} /\ ~looked
    /\ looked' = TRUE
    /\ fired' = {c \in IdleChan : idle_state[c] = 0}
    /\ idle_state' = [c \in IdleChan |-> IF c \in fired' THEN Disarmed ELSE idle_state[c]]
    /\ answered' = [c \in IdleChan |-> IF c \in fired' THEN humans[c] ELSE answered[c]]
    /\ UNCHANGED <<silent, humans, idles>>

\* emit("IDLE"), the lock let go.
Announce(c) ==
    /\ c \in fired
    /\ fired' = fired \ {c}
    /\ idles' = [idles EXCEPT ![c] = @ + 1]
    /\ UNCHANGED <<idle_state, looked, silent, humans, answered>>

idle_ticker_loop == TenSeconds \/ Look \/ \E c \in IdleChan : Announce(c)

IdleInit ==
    /\ idle_state = [c \in IdleChan |-> Disarmed]
    /\ fired = {} /\ looked = TRUE
    /\ silent = [c \in IdleChan |-> Hi]
    /\ humans = [c \in IdleChan |-> 0]
    /\ idles = [c \in IdleChan |-> 0] /\ answered = [c \in IdleChan |-> 0]

IdleNext == idle_ticker_loop \/ \E c \in IdleChan : Human(c)

IdleSpec == IdleInit /\ [][IdleNext]_idleVars

-----------------------------------------------------------------------------
IdleTypeOK ==
    /\ idle_state \in [IdleChan -> 0 .. Disarmed]
    /\ fired \subseteq IdleChan /\ looked \in BOOLEAN
    /\ silent \in [IdleChan -> 0 .. Hi]
    /\ \A count \in {humans, idles, answered} : count \in [IdleChan -> 0 .. MaxHumans]

(* "Exactly once, then disarms" (bot.py:188): a human line is worth one    *)
(* IDLE at most, the one said, about to be said or armed for; and a channel*)
(* is taken for idle only after a silence of its whole range.              *)
OneIdlePerSilence ==
    \A c \in IdleChan :
        /\ idles[c] + Cardinality(fired \cap {c}) + (IF Armed(c) THEN 1 ELSE 0) <= humans[c]
        /\ Armed(c) => idle_state[c] + silent[c] >= Lo

(* A silence does not pass unnoticed: the last human line of a channel gets*)
(* an IDLE about it, whatever the ticker was doing when the line came.     *)
SilenceIsNoticed ==
    \A c \in IdleChan : []<>(answered[c] = humans[c] /\ c \notin fired)
=============================================================================
