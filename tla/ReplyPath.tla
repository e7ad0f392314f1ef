----------------------------- MODULE ReplyPath ------------------------------
(***************************************************************************)
(* How a reply to a nick leaves when E2E is on: from the command the FIFO  *)
(* brings (`process_cmd` of bot.py), through `send_text` and `dispatch` of *)
(* e2e_bridge.py, to the pacer.                                            *)
(*                                                                         *)
(* Four threads meet here.  The writer asks whether the conversation is    *)
(* encrypted, lets the bridge's lock go, then sends.  The reader turns the *)
(* conversation plain or encrypted, and brings keys and NACKs.  The ticker *)
(* reloads the pins and gives up on keys that never come.  The pacer writes*)
(* what it took, or loses it and says so (`on_lost`).  A text can be lost  *)
(* in each of them, and one E2E_SEND_FAILED is to tell.  irc_olm's engine  *)
(* and pacer are not in the repository: they are what the bridge uses.     *)
(***************************************************************************)
EXTENDS Naturals, Sequences, FiniteSets, SequencesExt

CONSTANTS
    SENT_MAX,    \* text msgids the bridge remembers
    Room,        \* texts the pacer holds for a nick (32 in the README)
    MaxReplies,  \* bound: texts the FIFO brings
    MaxNacks,    \* bound: NACKs
    MaxTurns     \* bound: changes of the reply mode and of the pin

ASSUME ReplyAssumption ==
    /\ SENT_MAX \in Nat \ {0} /\ Room \in Nat \ {0}
    /\ MaxReplies \in Nat /\ MaxNacks \in Nat /\ MaxTurns \in Nat

Reply == 1 .. MaxReplies
NoCommand == [verb |-> "none", at |-> "idle", bound |-> FALSE]

VARIABLES
    command,       \* the writer: its verb, where it is, whether it found the text bound for E2E
    brought,       \* texts so far; the last one is the command's
    encrypted,     \* wants_encryption(nick)
    hasPin,        \* _pinned_key(nick) is not None
    awaiting,      \* the engine: texts waiting for keys
    paced,         \* the pacer's queue
    losing,       \* a text the pacer has lost and not reported yet: << >> or <<t>>
    dispatching,   \* dispatch, holding the lock after submit: << >> or <<[by, taken, refused]>>
    recent,        \* Bridge._text, oldest first
    pacerDown,     \* whether the pacer's thread has died: submit raises
    nacks, turns,
    delivered,     \* history: texts written whole
    inClear,       \* history: texts that left in clear
    told,          \* history: per text, the events that say it is lost
    accepted       \* history: the texts the pacer took, in order

engineVars == <<awaiting, paced, losing, pacerDown>>
dispatchVars == <<dispatching, recent>>
modeVars   == <<encrypted, hasPin, turns>>
replyHistory == <<delivered, inClear, told, accepted>>
replyVars == <<command, brought, engineVars, dispatchVars, modeVars, replyHistory, nacks>>

Unlocked == dispatching = << >>
Tell(texts) == told' = [t \in Reply |-> told[t] + IF t \in texts THEN 1 ELSE 0]

-----------------------------------------------------------------------------
(* The writer thread.                                                      *)

\* The text may end there: blocked by outbound_ok, or no command (CMD_ERROR).
Bring(verb) ==
    /\ command = NoCommand /\ brought < MaxReplies
    /\ brought' = brought + 1
    /\ \/ command' = [verb |-> verb, at |-> "asks", bound |-> verb = "ESAY"] /\ UNCHANGED told
       \/ UNCHANGED command /\ Tell({brought + 1})
    /\ UNCHANGED <<engineVars, dispatchVars, modeVars, delivered, inClear, accepted, nacks>>

\* wants_encryption, under the lock, which is then let go.
AskMode ==
    /\ command.at = "asks" /\ Unlocked
    /\ command' = [command EXCEPT !.at = "sends", !.bound = @ \/ encrypted]
    /\ UNCHANGED <<brought, engineVars, dispatchVars, modeVars, replyHistory, nacks>>

\* split_say: nothing stops the text any more.
SayPlain ==
    /\ command.at = "sends" /\ ~command.bound
    /\ command' = NoCommand
    /\ inClear' = inClear \cup {brought}
    /\ UNCHANGED <<brought, engineVars, dispatchVars, modeVars, delivered, told, accepted, nacks>>

\* Mutant: the pacer's refusals are not looked at.
SubmitAll(texts, by) ==
    /\ paced' = paced \o texts
    /\ dispatching' = <<[by |-> by, taken |-> texts, refused |-> {}]>>
    /\ accepted' = accepted \o texts

\* submit: the pacer takes what it has room for, and refuses the rest.
Submit(texts, by) ==
    LET n == IF Len(paced) + Len(texts) <= Room THEN Len(texts)
             ELSE IF Len(paced) < Room THEN Room - Len(paced) ELSE 0
        took == SubSeq(texts, 1, n)
    IN /\ paced' = paced \o took
       /\ dispatching' = <<[by |-> by, taken |-> took, refused |-> Range(texts) \ Range(took)]>>
       /\ accepted' = accepted \o took

\* send_text of a nick without a pin, or with no room for it: never encrypted.
SendRefused ==
    /\ command.at = "sends" /\ command.bound /\ Unlocked
    /\ ~hasPin \/ Len(paced) >= Room
    /\ command' = NoCommand
    /\ Tell({brought})
    /\ UNCHANGED <<brought, engineVars, dispatchVars, modeVars, delivered, inClear, accepted, nacks>>

\* send_text: the engine queues it for keys, or it goes to the pacer.
SendText ==
    /\ command.at = "sends" /\ command.bound /\ Unlocked
    /\ hasPin /\ Len(paced) < Room /\ ~pacerDown
    /\ \/ /\ awaiting' = Append(awaiting, brought)
          /\ command' = NoCommand
          /\ UNCHANGED <<paced, dispatching, accepted>>
       \/ /\ awaiting = << >>
          /\ Submit(<<brought>>, "writer")
          /\ UNCHANGED <<awaiting, command>>
    /\ UNCHANGED <<brought, losing, pacerDown, recent, modeVars, delivered, inClear, told, nacks>>

\* A dead pacer's submit raises: run_cmd says CMD_ERROR.
SendRaises ==
    /\ command.at = "sends" /\ command.bound /\ Unlocked
    /\ hasPin /\ Len(paced) < Room /\ pacerDown
    /\ command' = NoCommand
    /\ Tell({brought})
    /\ UNCHANGED <<brought, engineVars, dispatchVars, modeVars, delivered, inClear, accepted, nacks>>

Writer == AskMode \/ SayPlain \/ SendRefused \/ SendText \/ SendRaises

-----------------------------------------------------------------------------
\* Mutant: the newest msgids are forgotten.
RememberFirst(ids) == SubSeq(ids, 1, IF Len(ids) > SENT_MAX THEN SENT_MAX ELSE Len(ids))

\* dispatch keeps the last SENT_MAX msgids.
RememberLast(ids) == IF Len(ids) > SENT_MAX THEN SubSeq(ids, Len(ids) - SENT_MAX + 1, Len(ids)) ELSE ids

\* The rest of dispatch: the refused are told, the taken remembered; the lock
\* is let go.
DispatchEnds ==
    /\ ~Unlocked
    /\ LET d == dispatching[1] IN
       /\ Tell(d.refused)
       /\ recent' = RememberLast(recent \o d.taken)
       /\ command' = IF d.by = "writer" THEN NoCommand ELSE command
    /\ dispatching' = << >>
    /\ UNCHANGED <<brought, engineVars, modeVars, delivered, inClear, accepted, nacks>>

-----------------------------------------------------------------------------
(* The reader thread.                                                      *)

\* A PM released TRUSTED in plain text, an encrypted one, an hour without any.
TurnMode ==
    /\ Unlocked /\ turns < MaxTurns
    /\ turns' = turns + 1
    /\ encrypted' = ~encrypted
    /\ UNCHANGED <<command, brought, engineVars, dispatchVars, hasPin, replyHistory, nacks>>

\* The peer's keys: all that waited for them goes to the pacer.  With the
\* pacer dead, dispatch raises and nobody is told.
KeysCome ==
    /\ Unlocked /\ hasPin /\ awaiting # << >>
    /\ awaiting' = << >>
    /\ IF pacerDown THEN UNCHANGED <<paced, dispatching, accepted>> ELSE Submit(awaiting, "reader")
    /\ UNCHANGED <<command, brought, losing, pacerDown, recent, modeVars, delivered, inClear, told,
                   nacks>>

\* A text the peer could not read: sent again, or (from another nick) reported.
Nacked(t) ==
    /\ Unlocked /\ t \in delivered /\ nacks < MaxNacks
    /\ nacks' = nacks + 1
    /\ delivered' = delivered \ {t}
    /\ \/ Tell({t}) /\ UNCHANGED <<paced, dispatching, accepted>>
       \/ hasPin /\ ~pacerDown /\ Submit(<<t>>, "reader") /\ UNCHANGED told
    /\ UNCHANGED <<command, brought, awaiting, losing, pacerDown, recent, modeVars, inClear>>

-----------------------------------------------------------------------------
(* The ticker thread.                                                      *)

PinTurns ==
    /\ Unlocked /\ turns < MaxTurns
    /\ turns' = turns + 1
    /\ hasPin' = ~hasPin
    /\ UNCHANGED <<command, brought, engineVars, dispatchVars, encrypted, replyHistory, nacks>>

\* engine.tick: the keys never came, SendFailed for all that waited.
GiveUpOnKeys ==
    /\ Unlocked /\ awaiting # << >>
    /\ awaiting' = << >>
    /\ Tell(Range(awaiting))
    /\ UNCHANGED <<command, brought, paced, losing, pacerDown, dispatchVars, modeVars, delivered,
                   inClear, accepted, nacks>>

-----------------------------------------------------------------------------
(* The pacer's thread, which does not wait for the lock to write.          *)

PacerWrites ==
    /\ ~pacerDown /\ losing = << >> /\ paced # << >>
    /\ paced' = Tail(paced)
    /\ \/ delivered' = delivered \cup {Head(paced)} /\ UNCHANGED losing
       \/ losing' = <<Head(paced)>> /\ UNCHANGED delivered
    /\ UNCHANGED <<command, brought, awaiting, pacerDown, dispatchVars, modeVars, inClear, told,
                   accepted, nacks>>

\* del self._text[msgid]: the msgid the text last had.
DeleteText(ids, t) ==
    IF Contains(ids, t)
    THEN RemoveAt(ids, CHOOSE i \in DOMAIN ids : ids[i] = t /\ \A j \in i + 1 .. Len(ids) : ids[j] # t)
    ELSE ids

\* Mutant: the lock is not waited for.
OnLostUnlocked ==
    /\ losing # << >>
    /\ losing' = << >>
    /\ Tell(Range(losing) \cap Range(recent))
    /\ recent' = DeleteText(recent, losing[1])
    /\ UNCHANGED <<command, brought, awaiting, paced, pacerDown, dispatching, modeVars, delivered,
                   inClear, accepted, nacks>>

\* on_lost: only a msgid still remembered as text is a lost reply.
OnLost ==
    /\ losing # << >> /\ Unlocked
    /\ losing' = << >>
    /\ Tell(Range(losing) \cap Range(recent))
    /\ recent' = DeleteText(recent, losing[1])
    /\ UNCHANGED <<command, brought, awaiting, paced, pacerDown, dispatching, modeVars, delivered,
                   inClear, accepted, nacks>>

PacerDiesNow ==
    /\ ~pacerDown /\ losing = << >>
    /\ pacerDown' = TRUE
    /\ UNCHANGED <<command, brought, awaiting, paced, losing, dispatchVars, modeVars, replyHistory,
                   nacks>>

-----------------------------------------------------------------------------
ReplyInit ==
    /\ command = NoCommand /\ brought = 0
    /\ encrypted = FALSE /\ hasPin = TRUE
    /\ awaiting = << >> /\ paced = << >> /\ losing = << >>
    /\ dispatching = << >> /\ recent = << >> /\ pacerDown = FALSE
    /\ nacks = 0 /\ turns = 0
    /\ delivered = {} /\ inClear = {} /\ told = [t \in Reply |-> 0] /\ accepted = << >>

ReplyNext ==
    \/ \E verb \in {"SAY", "ESAY"} : Bring(verb)
    \/ Writer \/ DispatchEnds
    \/ TurnMode \/ KeysCome \/ \E t \in Reply : Nacked(t)
    \/ PinTurns \/ GiveUpOnKeys
    \/ PacerWrites \/ OnLost \/ PacerDiesNow

ReplySpec == ReplyInit /\ [][ReplyNext]_replyVars

-----------------------------------------------------------------------------
(* Types; the pacer and the list of msgids never outgrow their bounds.     *)
ReplyTypeOK ==
    /\ command \in [verb : {"none", "SAY", "ESAY"}, at : {"idle", "asks", "sends"}, bound : BOOLEAN]
    /\ brought \in 0 .. MaxReplies /\ nacks \in Nat /\ turns \in Nat
    /\ encrypted \in BOOLEAN /\ hasPin \in BOOLEAN /\ pacerDown \in BOOLEAN
    /\ \A q \in {awaiting, paced, losing, recent, accepted} : q \in Seq(Reply)
    /\ Len(paced) <= Room /\ Len(recent) <= SENT_MAX /\ Len(losing) <= 1
    /\ dispatching \in Seq([by : {"writer", "reader"}, taken : Seq(Reply), refused : SUBSET Reply])
    /\ delivered \subseteq Reply /\ inClear \subseteq Reply /\ told \in [Reply -> Nat]

\* Where a text is, besides told lost: in how many places.
Places(t) ==
    LET in(S) == IF t \in S THEN 1 ELSE 0
        atWriter == command # NoCommand /\ t = brought /\ \A d \in Range(dispatching) : d.by # "writer"
        refused  == UNION {d.refused : d \in Range(dispatching)}
    IN in(IF atWriter THEN {t} ELSE {}) + in(refused) + in(Range(awaiting)) + in(Range(paced))
       + in(Range(losing)) + in(delivered) + in(inClear)

\* SENT_MAX texts or more went to the pacer after this one last did.
Overtaken(t) ==
    \E i \in DOMAIN accepted :
        /\ accepted[i] = t /\ Len(accepted) - i >= SENT_MAX
        /\ \A j \in i + 1 .. Len(accepted) : accepted[j] # t

(* "Exactly one of them" reports a lost text: while the pacer lives, each  *)
(* text is in one place, or has left, or was told lost once; a text that is*)
(* still to leave was not told lost, and none vanishes untold, except one  *)
(* the pacer lost after it took SENT_MAX later ones.                       *)
LostIsToldOnce ==
    ~pacerDown => \A t \in 1 .. brought :
        \/ Places(t) + told[t] = 1
        \/ Places(t) + told[t] = 0 /\ Overtaken(t)

(* Every text the FIFO brings is settled in the end: written, in clear,    *)
(* told lost, or overtaken in the pacer.                                   *)
EveryReplySettles ==
    []<>(\A t \in 1 .. brought :
            t \in delivered \cup inClear \/ told[t] > 0 \/ Overtaken(t) \/ pacerDown)
=============================================================================
