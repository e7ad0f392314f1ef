----------------------------- MODULE OrderGate ------------------------------
(***************************************************************************)
(* The gate in front of layer 1 when E2E is on: e2e_bridge.py, and what    *)
(* bot.py asks of it.                                                      *)
(*                                                                         *)
(* A plain line of a nick with a pinned key is never taken at its word.  If*)
(* it is private or names the bot it is held, a challenge goes to that key,*)
(* and the line is released TRUSTED on its ACK or ends when the challenge  *)
(* expires.  Lines of other nicks are layer 1's (TrustGate).  The operator *)
(* rewrites the pins file under the bot's feet: a ticker thread reloads it *)
(* while the reader thread is between two looks at it.  irc_olm's engine   *)
(* and pacer, and the peers' clients, are not in the repository: what is   *)
(* assumed of them is what e2e_bridge.py and its tests say.                *)
(***************************************************************************)
EXTENDS Naturals, Sequences, FiniteSets, SequencesExt, Functions

CONSTANTS
    Nick,          \* folded nicknames
    Person,        \* peers; a person stands for its master key
    NoKey, NoNick,
    Pins,          \* the pins the operator may write, functions of Nick
    Listed,        \* nicks of bot.trust
    Home,          \* the nick each person is on at first, or NoNick
    DM_HOLD_MAX,
    MaxLines,      \* bound: plain lines said
    MaxTexts,      \* bound: encrypted messages said
    MaxMoves,      \* bound: changes of nick
    MaxEdits,      \* bound: rewritings of the pins file
    MaxEvents,     \* bound: lines, messages, changes of nick and rewritings together
    MaxWire        \* bound: unread lines past which nobody speaks

ASSUME OrderAssumption ==
    /\ NoKey \notin Person /\ NoNick \notin Nick
    /\ Pins \subseteq [Nick -> Person \cup {NoKey}]
    /\ Listed \subseteq Nick
    /\ Home \in [Person -> Nick \cup {NoNick}]
    /\ \A p, q \in Person : p # q /\ Home[p] = Home[q] => Home[p] = NoNick
    /\ DM_HOLD_MAX \in Nat \ {0}
    /\ MaxLines \in Nat /\ MaxTexts \in Nat /\ MaxMoves \in Nat /\ MaxEdits \in Nat
    /\ MaxEvents \in Nat /\ MaxWire \in Nat

Line == 1 .. MaxLines

VARIABLES
    file, fileSig,  \* the pins file: its pins, whether it parses; its inode, mtime and size
    pins, sig,      \* PinsFile.keys and _sig
    lock,           \* the ticker inside reload_if_changed, with what it saw: << >> or <<sig>>
    hand,           \* the line the reader holds between two looks at the pins
    flushing,       \* the queue dm_flush has popped
    dm_held,        \* per nick, lines parked until its WHOIS ends
    held,           \* Bridge._held: lines waiting for an ACK
    reply_mode,     \* per nick: "off", "fresh", "old" (REPLY_MODE_TTL is over)
    outstanding,    \* the engine's challenges: the line and the key asked
    written,        \* persons whose device has written to the bot
    pacerDead,      \* whether the pacer's thread has died, so that submit raises
    chals,          \* challenges handed to the pacer, or read by the client already
    toBot,          \* lines the server has sent
    nickOf,         \* who is on which nick
    said,           \* the lines said: nick, person, form
    texts, moves,   \* encrypted messages and changes of nick so far
    gated,          \* history: per line, the key its nick had when it was last gated
    ends,           \* history: per line, the events that ended it
    last            \* history: per nick, how the last DM released TRUSTED came

pinsVars   == <<file, fileSig, pins, sig, lock>>
readerVars == <<hand, flushing, dm_held>>
bridgeVars == <<held, reply_mode, outstanding, written, chals>>
peerVars   == <<nickOf, said, texts, moves>>
history    == <<gated, ends, last>>
vars == <<pinsVars, readerVars, bridgeVars, peerVars, history, toBot, pacerDead>>

IsPM(l) == said[l].form = "pm"
Ends(l, how) == ends' = [ends EXCEPT ![l] = Append(@, how)]

-----------------------------------------------------------------------------
(* The ticker thread.                                                      *)

\* reload_if_changed, holding the bridge's lock: the signature is taken first.
TickStat ==
    /\ lock = << >> /\ fileSig # sig
    /\ lock' = <<fileSig>>
    /\ UNCHANGED <<file, fileSig, pins, sig, readerVars, bridgeVars, peerVars, history, toBot,
                   pacerDead>>

\* Mutant: a file that changed while it was read is left for later, under its
\* new signature.
TickReadRechecks ==
    /\ lock # << >>
    /\ sig' = fileSig
    /\ pins' = IF file.ok /\ fileSig = lock[1] THEN file.pins ELSE pins
    /\ lock' = << >>
    /\ UNCHANGED <<file, fileSig, readerVars, bridgeVars, peerVars, history, toBot, pacerDead>>

\* A file that does not parse keeps the pins already loaded.
TickRead ==
    /\ lock # << >>
    /\ sig' = lock[1]
    /\ pins' = IF file.ok THEN file.pins ELSE pins
    /\ lock' = << >>
    /\ UNCHANGED <<file, fileSig, readerVars, bridgeVars, peerVars, history, toBot, pacerDead>>

\* _release of a line no ACK came for: a PM is dropped, a channel line shown.
Unconfirmed(l) == IF IsPM(l) THEN "DROPPED" ELSE "UNTRUSTED"

\* engine.tick: challenges older than 15 s.  With the pacer dead, what else
\* the tick sends may raise in dispatch before it gets to the expiries.
TickExpires ==
    /\ lock = << >>
    /\ \E o \in outstanding :
         /\ outstanding' = outstanding \ {o}
         /\ \/ /\ held' = held \ {o.line}
               /\ IF o.line \in held THEN Ends(o.line, Unconfirmed(o.line)) ELSE UNCHANGED ends
            \/ pacerDead /\ UNCHANGED <<held, ends>>
    /\ UNCHANGED <<pinsVars, readerVars, reply_mode, written, chals, peerVars, gated, last, toBot,
                   pacerDead>>

-----------------------------------------------------------------------------
(* The reader thread.                                                      *)

Reading == lock = << >> /\ hand = << >> /\ flushing = << >>

Reads(kind) ==
    /\ Reading
    /\ toBot # << >> /\ Head(toBot).kind = kind
    /\ toBot' = Tail(toBot)

\* The challenge of a held line: none leaves to a device that never wrote, and
\* the pacer may refuse it, or be dead; the line is held all the same.
Challenge(l) ==
    LET key == pins[said[l].nick] IN
    /\ outstanding' = outstanding \cup {[line |-> l, key |-> key]}
    /\ held' = held \cup {l}
    /\ chals' \in {chals} \cup IF key \in written /\ ~pacerDead THEN {chals \cup {l}} ELSE {}

\* Mutant: the pins are not looked at again when a parked line is released.
GatePlaintextOnce(l, next) ==
    LET key == pins[said[l].nick] IN
    /\ gated' = [gated EXCEPT ![l] = key]
    /\ IF key = NoKey \/ next = "release"
       THEN hand' = <<[line |-> l, next |-> next]>> /\ UNCHANGED <<held, outstanding, chals, ends>>
       ELSE /\ UNCHANGED hand
            /\ IF said[l].form = "chatter"
               THEN Ends(l, "UNTRUSTED") /\ UNCHANGED <<held, outstanding, chals>>
               ELSE Challenge(l) /\ UNCHANGED ends

\* gate_plaintext: no pin (the line goes on to `next`), unchallenged, or held.
GatePlaintext(l, next) ==
    LET key == pins[said[l].nick] IN
    /\ gated' = [gated EXCEPT ![l] = key]
    /\ IF key = NoKey
       THEN hand' = <<[line |-> l, next |-> next]>> /\ UNCHANGED <<held, outstanding, chals, ends>>
       ELSE /\ UNCHANGED hand
            /\ IF said[l].form = "chatter"
               THEN Ends(l, "UNTRUSTED") /\ UNCHANGED <<held, outstanding, chals>>
               ELSE Challenge(l) /\ UNCHANGED ends

ReadPlain ==
    /\ Reads("plain")
    /\ GatePlaintext(Head(toBot).line, "layer1")
    /\ UNCHANGED <<pinsVars, flushing, dm_held, reply_mode, written, peerVars, last, pacerDead>>

\* Mutant: a line of a channel turns the replies plain too.
ReleasedAny(l) ==
    LET n == said[l].nick IN
    /\ Ends(l, "TRUSTED")
    /\ reply_mode' = [reply_mode EXCEPT ![n] = "off"]
    /\ last' = IF IsPM(l) THEN [last EXCEPT ![n] = "plain"] ELSE last

\* trusted_in_plain, then MSG TRUSTED: the conversation is in plain text.
Released(l) ==
    LET n == said[l].nick IN
    /\ Ends(l, "TRUSTED")
    /\ IF IsPM(l)
       THEN /\ reply_mode' = [reply_mode EXCEPT ![n] = "off"]
            /\ last' = [last EXCEPT ![n] = "plain"]
       ELSE UNCHANGED <<reply_mode, last>>

\* Mutant: the line pushed out of a full queue is forgotten.
DmHoldSilent(l) ==
    LET n == said[l].nick
        q == Append(dm_held[n], l)
    IN /\ dm_held' = [dm_held EXCEPT ![n] = IF Len(q) > DM_HOLD_MAX THEN Tail(q) ELSE q]
       /\ UNCHANGED ends

\* dm_hold: the oldest of a full queue is dropped.
DmHold(l) ==
    LET n == said[l].nick
        q == Append(dm_held[n], l)
    IN IF Len(q) > DM_HOLD_MAX
       THEN dm_held' = [dm_held EXCEPT ![n] = Tail(q)] /\ Ends(Head(q), "DROPPED")
       ELSE dm_held' = [dm_held EXCEPT ![n] = q] /\ UNCHANGED ends

\* Layer 1 on a nick without a pin: what TrustGate is about, here any verdict.
LayerOne ==
    /\ lock = << >> /\ hand # << >> /\ hand[1].next = "layer1"
    /\ hand' = << >>
    /\ LET l == hand[1].line
           listed == said[l].nick \in Listed
       IN \/ listed /\ Released(l) /\ UNCHANGED dm_held
          \/ listed /\ IsPM(l) /\ DmHold(l) /\ UNCHANGED <<reply_mode, last>>
          \/ IsPM(l) /\ Ends(l, "DROPPED") /\ UNCHANGED <<dm_held, reply_mode, last>>
          \/ /\ ~(IsPM(l) /\ listed)
             /\ Ends(l, "UNTRUSTED")
             /\ UNCHANGED <<dm_held, reply_mode, last>>
    /\ UNCHANGED <<pinsVars, flushing, held, outstanding, written, chals, peerVars, gated, toBot,
                   pacerDead>>

\* The WHOIS ends: dm_flush pops the queue, to release it or to drop it.
DmFlush(n) ==
    /\ Reading /\ dm_held[n] # << >>
    /\ dm_held' = [dm_held EXCEPT ![n] = << >>]
    /\ \/ flushing' = dm_held[n] /\ UNCHANGED ends
       \/ /\ ends' = [l \in Line |-> IF Contains(dm_held[n], l) THEN Append(ends[l], "DROPPED")
                                      ELSE ends[l]]
          /\ UNCHANGED flushing
    /\ UNCHANGED <<pinsVars, hand, bridgeVars, peerVars, gated, last, toBot, pacerDead>>

\* on_release: a nick pinned while its line waited is challenged.
FlushOne ==
    /\ lock = << >> /\ hand = << >> /\ flushing # << >>
    /\ flushing' = Tail(flushing)
    /\ GatePlaintext(Head(flushing), "release")
    /\ UNCHANGED <<pinsVars, dm_held, reply_mode, written, peerVars, last, toBot, pacerDead>>

FlushReleases ==
    /\ lock = << >> /\ hand # << >> /\ hand[1].next = "release"
    /\ hand' = << >>
    /\ Released(hand[1].line)
    /\ UNCHANGED <<pinsVars, flushing, dm_held, held, outstanding, written, chals, peerVars, gated,
                   toBot, pacerDead>>

\* on_e2e_line and engine.receive: a nick without a pin gets nothing, nor does
\* a key that is not pinned at all.
Heard(m) == pins[m.nick] # NoKey /\ m.by \in Range(pins)

\* An encrypted message: TRUSTED from the key pinned to the nick it came from.
\* The engine may also ask the device for its list: with the pacer dead submit
\* then raises, and dispatch does not get to the events.
ReadText ==
    /\ Reads("text")
    /\ LET m == Head(toBot) IN
       /\ written' = IF Heard(m) THEN written \cup {m.by} ELSE written
       /\ IF Heard(m) /\ pins[m.nick] = m.by
          THEN \/ /\ reply_mode' = [reply_mode EXCEPT ![m.nick] = "fresh"]
                  /\ last' = [last EXCEPT ![m.nick] = "encrypted"]
               \/ pacerDead /\ UNCHANGED <<reply_mode, last>>
          ELSE UNCHANGED <<reply_mode, last>>
    /\ UNCHANGED <<pinsVars, readerVars, held, outstanding, chals, peerVars, gated, ends, pacerDead>>

\* _release of a confirmed line: TRUSTED, and a PM turns the replies plain.
Release(l, nick) ==
    IF l \notin held THEN UNCHANGED <<held, ends, reply_mode, last>>
    ELSE held' = held \ {l} /\ Released(l)

\* An ACK counts once, from the key that was asked, before its 15 s are over.
ReadAck ==
    /\ Reads("ack")
    /\ LET m == Head(toBot)
           o == [line |-> m.line, key |-> m.by]
       IN IF Heard(m) /\ o \in outstanding
          THEN /\ outstanding' = outstanding \ {o}
               /\ \/ Release(m.line, m.nick)
                  \/ pacerDead /\ UNCHANGED <<held, ends, reply_mode, last>>
          ELSE UNCHANGED <<outstanding, held, ends, reply_mode, last>>
    /\ UNCHANGED <<pinsVars, readerVars, written, chals, peerVars, gated, pacerDead>>

handle_server_line ==
    \/ ReadPlain \/ ReadText \/ ReadAck \/ LayerOne \/ FlushOne \/ FlushReleases
    \/ \E n \in Nick : DmFlush(n)

-----------------------------------------------------------------------------
(* The rest of the world.                                                  *)

WithinBounds == Len(said) + texts + moves + fileSig < MaxEvents

\* REPLY_MODE_TTL since the last encrypted message.
HourPasses(n) ==
    /\ reply_mode[n] = "fresh"
    /\ reply_mode' = [reply_mode EXCEPT ![n] = "old"]
    /\ last' = [last EXCEPT ![n] = "lapsed"]
    /\ UNCHANGED <<pinsVars, readerVars, held, outstanding, written, chals, peerVars, gated, ends,
                   toBot, pacerDead>>

PacerDies ==
    /\ ~pacerDead
    /\ pacerDead' = TRUE
    /\ UNCHANGED <<pinsVars, readerVars, bridgeVars, peerVars, history, toBot>>

\* The operator writes the file, or leaves it half-written for a while.
Edit ==
    /\ fileSig < MaxEdits /\ WithinBounds
    /\ \/ \E q \in Pins : file' = [pins |-> q, ok |-> TRUE]
       \/ file' = [file EXCEPT !.ok = FALSE]
    /\ fileSig' = fileSig + 1
    /\ UNCHANGED <<pins, sig, lock, readerVars, bridgeVars, peerVars, history, toBot, pacerDead>>

Say(p, form) ==
    /\ nickOf[p] # NoNick /\ Len(said) < MaxLines /\ Len(toBot) < MaxWire /\ WithinBounds
    /\ said' = Append(said, [nick |-> nickOf[p], by |-> p, form |-> form])
    /\ toBot' = Append(toBot, [kind |-> "plain", line |-> Len(said) + 1])
    /\ UNCHANGED <<pinsVars, readerVars, bridgeVars, nickOf, texts, moves, history, pacerDead>>

SayEncrypted(p) ==
    /\ nickOf[p] # NoNick /\ texts < MaxTexts /\ Len(toBot) < MaxWire /\ WithinBounds
    /\ texts' = texts + 1
    /\ toBot' = Append(toBot, [kind |-> "text", nick |-> nickOf[p], by |-> p])
    /\ UNCHANGED <<pinsVars, readerVars, bridgeVars, nickOf, said, moves, history, pacerDead>>

\* A client answers a challenge only for a line its user did send.
ClientAcks(p) ==
    /\ nickOf[p] # NoNick
    /\ \E o \in outstanding :
         /\ o.key = p /\ o.line \in chals /\ said[o.line].by = p
         /\ chals' = chals \ {o.line}
         /\ toBot' = Append(toBot, [kind |-> "ack", nick |-> nickOf[p], by |-> p, line |-> o.line])
    /\ UNCHANGED <<pinsVars, readerVars, held, reply_mode, outstanding, written, peerVars, history,
                   pacerDead>>

\* A peer changes nick, comes or goes.
Move(p) ==
    /\ moves < MaxMoves /\ WithinBounds
    /\ moves' = moves + 1
    /\ \E n \in (Nick \cup {NoNick}) \ (Range(nickOf) \ {NoNick}) :
         nickOf' = [nickOf EXCEPT ![p] = n]
    /\ UNCHANGED <<pinsVars, readerVars, bridgeVars, said, texts, history, toBot, pacerDead>>

-----------------------------------------------------------------------------
Init ==
    /\ pins \in Pins /\ file = [pins |-> pins, ok |-> TRUE] /\ fileSig = 0 /\ sig = 0 /\ lock = << >>
    /\ hand = << >> /\ flushing = << >> /\ dm_held = [n \in Nick |-> << >>]
    /\ held = {} /\ reply_mode = [n \in Nick |-> "off"]
    /\ outstanding = {} /\ written = {} /\ pacerDead = FALSE /\ chals = {}
    /\ toBot = << >> /\ said = << >> /\ texts = 0 /\ moves = 0
    /\ nickOf = Home
    /\ gated = [l \in Line |-> NoKey] /\ ends = [l \in Line |-> << >>]
    /\ last = [n \in Nick |-> "none"]

Next ==
    \/ TickStat \/ TickRead \/ TickExpires
    \/ handle_server_line
    \/ PacerDies \/ Edit
    \/ \E n \in Nick : HourPasses(n)
    \/ \E p \in Person :
         \/ SayEncrypted(p) \/ ClientAcks(p) \/ Move(p)
         \/ \E form \in {"pm", "order", "chatter"} : Say(p, form)

Spec == Init /\ [][Next]_vars

\* The ticker ticks and the reader reads; users and clients may do nothing.
FairSpec ==
    /\ Spec
    /\ WF_vars(TickStat) /\ WF_vars(TickRead) /\ WF_vars(TickExpires)
    /\ WF_vars(handle_server_line)

-----------------------------------------------------------------------------
TypeOK ==
    /\ file \in [pins : Pins, ok : BOOLEAN] /\ pins \in Pins
    /\ fileSig \in Nat /\ sig \in Nat /\ lock \in {<< >>} \cup {<<v>> : v \in 0 .. fileSig}
    /\ Len(hand) <= 1 /\ hand \in Seq([line : Line, next : {"layer1", "release"}])
    /\ flushing \in Seq(Line) /\ dm_held \in [Nick -> Seq(Line)]
    /\ held \subseteq Line /\ chals \subseteq Line
    /\ reply_mode \in [Nick -> {"off", "fresh", "old"}]
    /\ outstanding \subseteq [line : Line, key : Person]
    /\ written \subseteq Person /\ pacerDead \in BOOLEAN
    /\ nickOf \in [Person -> Nick \cup {NoNick}]
    /\ said \in Seq([nick : Nick, by : Person, form : {"pm", "order", "chatter"}])
    /\ toBot \in Seq([kind : {"plain"}, line : Line]
                      \cup [kind : {"text"}, nick : Nick, by : Person]
                      \cup [kind : {"ack"}, nick : Nick, by : Person, line : Line])
    /\ gated \in [Line -> Person \cup {NoKey}]
    /\ ends \in [Line -> Seq({"TRUSTED", "UNTRUSTED", "DROPPED"})]
    /\ last \in [Nick -> {"none", "plain", "encrypted", "lapsed"}]

(* Wherever a line said is (on the wire, in the reader's hand, parked for a *)
(* WHOIS, waiting for an ACK), it is there once, and once it has ended it  *)
(* is nowhere: no ACK, expiry, eviction or dead pacer ends it twice, and   *)
(* none makes it vanish without an event.                                  *)
EveryLineOnce ==
    \A l \in 1 .. Len(said) :
        Cardinality({i \in DOMAIN toBot : toBot[i] = [kind |-> "plain", line |-> l]})
        + Cardinality({i \in DOMAIN hand : hand[i].line = l})
        + Cardinality({i \in DOMAIN flushing : flushing[i] = l})
        + Cardinality({i \in DOMAIN dm_held[said[l].nick] : dm_held[said[l].nick][i] = l})
        + Cardinality(held \cap {l}) + Len(ends[l]) = 1

(* The replies to a nick go encrypted while "the last DM from that nick    *)
(* released as TRUSTED was encrypted, for an hour after it": a plain PM    *)
(* held, dropped, or not confirmed changes nothing.                        *)
ReplyFollowsTheLastDm ==
    \A n \in Nick :
        /\ reply_mode[n] = "fresh" <=> last[n] = "encrypted"
        /\ reply_mode[n] = "old" <=> last[n] = "lapsed"

(* The operator's last edit is the one that counts, however it falls in the*)
(* ticker's stat and read, and a broken file in between changes nothing.   *)
PinsFollowTheFile == <>[](file.ok => pins = file.pins)

(* No line is held for ever while the pacer lives.                         *)
HeldLinesEnd == \A l \in Line : []<>(l \notin held \/ pacerDead)

(* The gate implements LineFate, and so "the key REPLACES layer 1": a line *)
(* is vouched for when its nick had no key when it was last gated (layer 1 *)
(* answers for it then), or when its author holds that key, whoever else   *)
(* has the nick, whatever is reloaded, parked or answered late meanwhile.  *)
Promise == INSTANCE LineFate WITH
    Fate <- {"TRUSTED", "UNTRUSTED", "DROPPED"},
    Vouching <- {"TRUSTED"},
    said <- 1 .. Len(said),
    vouched <- {l \in 1 .. Len(said) : gated[l] \in {NoKey, said[l].by}}

ImplementsLineFate == Promise!Spec
=============================================================================
