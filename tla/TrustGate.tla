----------------------------- MODULE TrustGate ------------------------------
(***************************************************************************)
(* Layer-1 trust of bot.py, with E2E off: which plaintext lines reach the  *)
(* event stream, and under which verdict.                                  *)
(*                                                                         *)
(* A nick is trusted when bot.trust lists it, its host matches, and the    *)
(* server has answered a WHOIS with 307 (or 330): `trust_check`.  A private*)
(* message of a listed nick is parked until the answer comes (`dm_hold`,   *)
(* `dm_flush`); PART, QUIT and NICK forget the answer (`trust_reset`).     *)
(* Every handler runs on the reader thread, one server line at a time, so  *)
(* each is one action.  What makes the gate hard is the distance to the    *)
(* server: between the WHOIS and its answer, and between an answer and the *)
(* bot reading it, the nick may change hands.  The module therefore models *)
(* both directions of the connection as FIFOs, and who really holds each   *)
(* nick at the server's end.                                               *)
(***************************************************************************)
EXTENDS DmReject

CONSTANTS
    Host,          \* hosts, as the server shows them
    Rules,         \* bot.trust: a sequence of [nick, glob], glob the hosts it matches
    DmAllow,       \* bot.dmallow: the <<nick, host>> pairs it lets through
    Service,       \* SERVICE_NICKS and our own nick
    InSight,       \* nicks whose holders always share a channel with the bot
    IdentReply,    \* the numeric of an identified nick: "307" (Bahamut) or "330" (Solanum)
    DM_HOLD_MAX,   \* parked messages per nick
    Said,          \* bound: the kinds of line users say, of "dm", "channel", "invite"
    MaxLines,      \* bound: lines said by users
    MaxHolds,      \* bound: times a nick is taken
    MaxExtras,     \* bound: PARTs, and WHOISes the operator asks for
    MaxWire        \* bound: unread lines past which the users stay quiet

ASSUME TrustAssumption ==
    /\ Host # {}
    /\ Rules \in Seq([nick : Nick, glob : SUBSET Host])
    /\ DmAllow \subseteq Nick \X Host
    /\ Service \subseteq Nick
    /\ InSight \subseteq Nick
    /\ IdentReply \in {"307", "330"}
    /\ DM_HOLD_MAX \in Nat \ {0}
    /\ Said \subseteq {"dm", "channel", "invite"}
    /\ MaxLines \in Nat /\ MaxHolds \in Nat /\ MaxExtras \in Nat /\ MaxWire \in Nat

VARIABLES
    verified,       \* nicks a 307/330 confirmed
    whois_pending,  \* nicks asked about, the answer not read yet
    dm_held,        \* per nick, the parked messages, oldest first
    toServer,       \* WHOISes sent and not answered yet
    toBot,          \* lines the server sent and the bot has not read
    holder,         \* per nick, the tenure of who holds it now, 0 for nobody
    hostOf,         \* per nick, the host of its holder
    proved,         \* tenures that identified to services
    tenures,        \* tenures so far
    said,           \* lines said so far
    extras,         \* PARTs and operator's WHOISes so far
    events          \* history: how each line read by the bot ended

gateVars   == <<verified, whois_pending, dm_held>>
serverVars == <<holder, hostOf, proved, tenures, said, extras>>
vars == <<gateVars, serverVars, toServer, toBot, events, rejectVars>>

-----------------------------------------------------------------------------
(* Lines from the server.  A line somebody said carries, besides what the  *)
(* wire shows, its number, the tenure of its speaker and whether that      *)
(* tenure was identified when it spoke: the truth the gate cannot see.     *)

Spoken == [cmd : {"dm", "channel", "invite"}, nick : Nick, host : Host,
           id : Nat, tenure : Nat, identified : BOOLEAN]
Reply  == [cmd : {"307", "330", "318"}, nick : Nick]
Moved  == [cmd : {"PART", "QUIT", "NICK"}, nick : Nick]
Line   == Spoken \cup Reply \cup Moved \cup {[cmd |-> "001"]}

\* How a spoken line can end.  "JOINED" and "IGNORED" are an invitation's.
Fate == {"TRUSTED", "UNTRUSTED", "DM_BLOCKED", "evicted", "307", "330", "318", "reset",
         "JOINED", "IGNORED"}
Event == [line : Spoken, fate : Fate, proved : BOOLEAN]

NoHost == CHOOSE h \in Host : TRUE   \* the host of a nick nobody holds: any

Ended(l, fate) == [line |-> l, fate |-> fate, proved |-> l.tenure \in proved]

-----------------------------------------------------------------------------
(* The trust rules: bot.trust and bot.dmallow are read once, at startup.   *)

is_trust_listed(n) == \E i \in DOMAIN Rules : Rules[i].nick = n
host_matches(n, h) == \E i \in DOMAIN Rules : Rules[i].nick = n /\ h \in Rules[i].glob
dm_allowed(n, h)   == <<n, h>> \in DmAllow
dm_blocked(n)      == n \notin Service /\ ~is_trust_listed(n)

\* The verdict of trust_check.
Verdict(n, h) ==
    CASE ~is_trust_listed(n)  -> "not-listed"
      [] is_trust_listed(n) /\ ~host_matches(n, h) -> "host-mismatch"
      [] host_matches(n, h) /\ n \notin verified   -> "pending-whois"
      [] host_matches(n, h) /\ n \in verified      -> "ok"

\* Mutant: the nick is marked before a send that fails.
FireWhoisUnsent(n, h) ==
    IF Verdict(n, h) = "pending-whois" /\ n \notin whois_pending
    THEN whois_pending' = whois_pending \cup {n} /\ UNCHANGED toServer
    ELSE UNCHANGED <<whois_pending, toServer>>

\* What trust_check does besides: the WHOIS, fired once per wait.
FireWhois(n, h) ==
    IF Verdict(n, h) = "pending-whois" /\ n \notin whois_pending
    THEN /\ whois_pending' = whois_pending \cup {n}
         /\ toServer' = Append(toServer, n)
    ELSE UNCHANGED <<whois_pending, toServer>>

-----------------------------------------------------------------------------
(* The parked messages.                                                    *)

Newest(q)  == IF Len(q) > DM_HOLD_MAX THEN SubSeq(q, Len(q) - DM_HOLD_MAX + 1, Len(q)) ELSE q
Evicted(q) == SubSeq(q, 1, Len(q) - Len(Newest(q)))

\* Mutant: the evicted messages get no DM_DROPPED.
dm_hold_silent(l) ==
    /\ dm_held' = [dm_held EXCEPT ![l.nick] = Newest(Append(@, l))]
    /\ UNCHANGED events

\* Mutant: the queue is a stack.
dm_hold_first(l) ==
    /\ dm_held' = [dm_held EXCEPT ![l.nick] = Newest(<<l>> \o @)]
    /\ UNCHANGED events

\* dm_hold: parked at the end, the oldest beyond DM_HOLD_MAX dropped.
dm_hold(l) ==
    LET q == Append(dm_held[l.nick], l)
        out == Evicted(q)
    IN /\ dm_held' = [dm_held EXCEPT ![l.nick] = Newest(q)]
       /\ events' = events \o [i \in 1 .. Len(out) |-> Ended(out[i], "evicted")]

\* Mutant: the entry is popped for good, later readers find no queue.
dm_flush_popped(n, confirmed, reason) ==
    /\ dm_held' = [m \in DOMAIN dm_held \ {n} |-> dm_held[m]]
    /\ UNCHANGED events

\* Mutant: the messages are read out, not popped.
dm_flush_kept(n, confirmed, reason) ==
    LET q == dm_held[n]
        fate(l) == IF n \in confirmed /\ host_matches(n, l.host) THEN "TRUSTED" ELSE reason
    IN /\ events' = events \o [i \in 1 .. Len(q) |-> Ended(q[i], fate(q[i]))]
       /\ UNCHANGED dm_held

\* dm_flush: each message is judged again, by the nicks now verified.
dm_flush(n, confirmed, reason) ==
    LET q == dm_held[n]
        fate(l) == IF n \in confirmed /\ host_matches(n, l.host) THEN "TRUSTED" ELSE reason
    IN /\ dm_held' = [dm_held EXCEPT ![n] = << >>]
       /\ events' = events \o [i \in 1 .. Len(q) |-> Ended(q[i], fate(q[i]))]

\* Mutant: the trust is dropped, the parked messages stay.
trust_reset_unflushed(n) ==
    /\ verified' = verified \ {n}
    /\ whois_pending' = whois_pending \ {n}
    /\ UNCHANGED <<dm_held, events>>

\* Mutant: only the wait is forgotten.
trust_reset_keeps_verified(n) ==
    /\ dm_flush(n, verified, "reset")
    /\ whois_pending' = whois_pending \ {n}
    /\ UNCHANGED verified

\* trust_reset: the parked messages are resolved before the trust is dropped.
trust_reset(n) ==
    /\ dm_flush(n, verified, "reset")
    /\ verified' = verified \ {n}
    /\ whois_pending' = whois_pending \ {n}

-----------------------------------------------------------------------------
(* The reader thread: one action per kind of line.                         *)

Reads(cmds) ==
    /\ toBot # << >>
    /\ Head(toBot).cmd \in cmds
    /\ toBot' = Tail(toBot)
    /\ UNCHANGED serverVars

\* 001: every listed nick is asked about, a rule after the other.
ReadWelcome ==
    /\ Reads({"001"})
    /\ whois_pending' = whois_pending \cup {Rules[i].nick : i \in DOMAIN Rules}
    /\ toServer' = toServer \o [i \in 1 .. Len(Rules) |-> Rules[i].nick]
    /\ UNCHANGED <<verified, dm_held, events, rejectVars>>

\* Mutant: flushed before the nick is verified.
ReadIdentifiedLate ==
    /\ Reads({"307", "330"})
    /\ LET n == Head(toBot).nick IN
       /\ dm_flush(n, verified, Head(toBot).cmd)
       /\ verified' = verified \cup {n}
       /\ whois_pending' = whois_pending \ {n}
    /\ UNCHANGED <<toServer, rejectVars>>

\* 307 RPL_WHOISREGNICK, 330 RPL_WHOISACCOUNT: asked for or not.
ReadIdentified ==
    /\ Reads({"307", "330"})
    /\ LET n == Head(toBot).nick IN
       /\ verified' = verified \cup {n}
       /\ whois_pending' = whois_pending \ {n}
       /\ dm_flush(n, verified', Head(toBot).cmd)
    /\ UNCHANGED <<toServer, rejectVars>>

\* Mutant: an unregistered nick's messages stay parked.
ReadEndOfWhoisUnflushed ==
    /\ Reads({"318"})
    /\ whois_pending' = whois_pending \ {Head(toBot).nick}
    /\ UNCHANGED <<verified, dm_held, events, toServer, rejectVars>>

\* 318 RPL_ENDOFWHOIS: the WHOIS is over, nothing stays parked past it.
ReadEndOfWhois ==
    /\ Reads({"318"})
    /\ LET n == Head(toBot).nick IN
       /\ whois_pending' = whois_pending \ {n}
       /\ dm_flush(n, verified, "318")
    /\ UNCHANGED <<verified, toServer, rejectVars>>

\* PART, QUIT, NICK (the old nick).
ReadMoved ==
    /\ Reads({"PART", "QUIT", "NICK"})
    /\ trust_reset(Head(toBot).nick)
    /\ UNCHANGED <<toServer, rejectVars>>

ReadInvite ==
    /\ Reads({"invite"})
    /\ LET l == Head(toBot) IN
       /\ FireWhois(l.nick, l.host)
       /\ events' = Append(events,
            Ended(l, IF Verdict(l.nick, l.host) = "ok" THEN "JOINED" ELSE "IGNORED"))
    /\ UNCHANGED <<verified, dm_held, rejectVars>>

ReadChannelLine ==
    /\ Reads({"channel"})
    /\ LET l == Head(toBot) IN
       /\ FireWhois(l.nick, l.host)
       /\ events' = Append(events,
            Ended(l, IF Verdict(l.nick, l.host) = "ok" THEN "TRUSTED" ELSE "UNTRUSTED"))
    /\ UNCHANGED <<verified, dm_held, rejectVars>>

\* Mutant: bot.dmallow looked up for listed nicks too.
ReadableByAllow(l) == dm_allowed(l.nick, l.host)

\* A stranger bot.dmallow lets through: readable, never trusted.
Readable(l) == ~is_trust_listed(l.nick) /\ dm_allowed(l.nick, l.host)

ReadAllowedDm ==
    /\ Reads({"dm"})
    /\ Readable(Head(toBot))
    /\ events' = Append(events, Ended(Head(toBot), "UNTRUSTED"))
    /\ UNCHANGED <<gateVars, toServer, rejectVars>>

\* dm_blocked, or a verdict that will never become trust.
ReadBlockedDm ==
    /\ Reads({"dm"})
    /\ LET l == Head(toBot) IN
       /\ ~Readable(l)
       /\ dm_blocked(l.nick) \/ Verdict(l.nick, l.host) \in {"not-listed", "host-mismatch"}
       /\ DmRejectOnce(l.nick)
       /\ events' = Append(events, Ended(l, "DM_BLOCKED"))
    /\ UNCHANGED <<gateVars, toServer>>

ReadUnverifiedDm ==
    /\ Reads({"dm"})
    /\ LET l == Head(toBot) IN
       /\ Verdict(l.nick, l.host) = "pending-whois"
       /\ FireWhois(l.nick, l.host)
       /\ dm_hold(l)
    /\ UNCHANGED <<verified, rejectVars>>

ReadTrustedDm ==
    /\ Reads({"dm"})
    /\ LET l == Head(toBot) IN
       /\ Verdict(l.nick, l.host) = "ok"
       /\ events' = Append(events, Ended(l, "TRUSTED"))
    /\ UNCHANGED <<gateVars, toServer, rejectVars>>

handle_server_line ==
    \/ ReadWelcome
    \/ ReadIdentified
    \/ ReadEndOfWhois
    \/ ReadMoved
    \/ ReadInvite
    \/ ReadChannelLine
    \/ ReadAllowedDm
    \/ ReadBlockedDm
    \/ ReadUnverifiedDm
    \/ ReadTrustedDm

\* The writer thread: a WHOIS the operator asks for through the FIFO.
OperatorWhois(n) ==
    /\ extras < MaxExtras
    /\ extras' = extras + 1
    /\ toServer' = Append(toServer, n)
    /\ UNCHANGED <<gateVars, toBot, holder, hostOf, proved, tenures, said, events, rejectVars>>

\* Time only matters to the automatic reply.
Clock ==
    /\ CooldownOver
    /\ UNCHANGED <<gateVars, serverVars, toServer, toBot, events>>

-----------------------------------------------------------------------------
(* The server and its users (not part of the repository).                  *)

botIdle == UNCHANGED <<gateVars, events, rejectVars>>

Connect(n, h) ==
    /\ holder[n] = 0
    /\ tenures < MaxHolds
    /\ tenures' = tenures + 1
    /\ holder' = [holder EXCEPT ![n] = tenures + 1]
    /\ hostOf' = [hostOf EXCEPT ![n] = h]
    /\ UNCHANGED <<proved, said, extras, toServer, toBot>>
    /\ botIdle

Identify(n) ==
    /\ holder[n] # 0
    /\ holder[n] \notin proved
    /\ proved' = proved \cup {holder[n]}
    /\ UNCHANGED <<holder, hostOf, tenures, said, extras, toServer, toBot>>
    /\ botIdle

\* The bot hears of a move when it shares a channel with the one who moves.
Hears(nicks, cmd, n) ==
    \/ toBot' = Append(toBot, [cmd |-> cmd, nick |-> n])
    \/ nicks \cap InSight = {} /\ UNCHANGED toBot

Quit(n) ==
    /\ holder[n] # 0
    /\ holder' = [holder EXCEPT ![n] = 0]
    /\ hostOf' = [hostOf EXCEPT ![n] = NoHost]
    /\ Hears({n}, "QUIT", n)
    /\ UNCHANGED <<proved, tenures, said, extras, toServer>>
    /\ botIdle

\* A new nick is a new tenure: services ask to be told again who it is.
Rename(a, b) ==
    /\ holder[a] # 0
    /\ holder[b] = 0
    /\ tenures < MaxHolds
    /\ tenures' = tenures + 1
    /\ holder' = [holder EXCEPT ![a] = 0, ![b] = tenures + 1]
    /\ hostOf' = [hostOf EXCEPT ![a] = NoHost, ![b] = hostOf[a]]
    /\ Hears({a, b}, "NICK", a)
    /\ UNCHANGED <<proved, said, extras, toServer>>
    /\ botIdle

\* One of the channels shared with the bot is left, perhaps not the last.
Part(n) ==
    /\ holder[n] # 0
    /\ extras < MaxExtras
    /\ extras' = extras + 1
    /\ toBot' = Append(toBot, [cmd |-> "PART", nick |-> n])
    /\ UNCHANGED <<holder, hostOf, proved, tenures, said, toServer>>
    /\ botIdle

Say(n, cmd) ==
    /\ holder[n] # 0
    /\ said < MaxLines
    /\ said' = said + 1
    /\ toBot' = Append(toBot,
         [cmd |-> cmd, nick |-> n, host |-> hostOf[n], id |-> said + 1,
          tenure |-> holder[n], identified |-> holder[n] \in proved])
    /\ UNCHANGED <<holder, hostOf, proved, tenures, extras, toServer>>
    /\ botIdle

\* The answer to a WHOIS is one burst: the identified nick's numeric, the end.
AnswerWhois ==
    /\ toServer # << >>
    /\ LET n == Head(toServer)
           end == [cmd |-> "318", nick |-> n]
       IN toBot' = IF holder[n] \in proved
                   THEN toBot \o <<[cmd |-> IdentReply, nick |-> n], end>>
                   ELSE Append(toBot, end)
    /\ toServer' = Tail(toServer)
    /\ UNCHANGED serverVars
    /\ botIdle

Users ==
    /\ Len(toBot) < MaxWire
    /\ \/ \E n \in Nick, h \in Host : Connect(n, h)
       \/ \E n \in Nick : Identify(n) \/ Quit(n) \/ Part(n)
       \/ \E a, b \in Nick : Rename(a, b)
       \/ \E n \in Nick, cmd \in Said : Say(n, cmd)

-----------------------------------------------------------------------------
Init ==
    /\ verified = {}
    /\ whois_pending = {}
    /\ dm_held = [n \in Nick |-> << >>]
    /\ toServer = << >>
    /\ toBot = <<[cmd |-> "001"]>>
    /\ holder = [n \in Nick |-> 0]
    /\ hostOf = [n \in Nick |-> NoHost]
    /\ proved = {}
    /\ tenures = 0
    /\ said = 0
    /\ extras = 0
    /\ events = << >>
    /\ RejectInit

Next ==
    \/ handle_server_line
    \/ AnswerWhois
    \/ Users
    \/ \E n \in Nick : OperatorWhois(n)
    \/ Clock

Spec == Init /\ [][Next]_vars

\* The reader thread keeps reading and the server keeps answering.
FairSpec == Spec /\ WF_vars(handle_server_line) /\ WF_vars(AnswerWhois)

-----------------------------------------------------------------------------
(* Correctness.                                                            *)

TypeOK ==
    /\ verified \subseteq Nick
    /\ whois_pending \subseteq Nick
    /\ dm_held \in [Nick -> Seq(Spoken)]
    /\ toServer \in Seq(Nick)
    /\ toBot \in Seq(Line)
    /\ holder \in [Nick -> Nat]
    /\ hostOf \in [Nick -> Host]
    /\ proved \subseteq Nat
    /\ tenures \in Nat /\ said \in Nat /\ extras \in Nat
    /\ events \in Seq(Event)
    /\ RejectTypeOK

(* "Nothing may stay parked past it" (the 318 handler): a message is       *)
(* parked only while its nick is awaited and unverified, and never more    *)
(* than DM_HOLD_MAX of them.  An order of flush and reset that left one    *)
(* behind would leave it parked for ever, or release it at a stranger's    *)
(* next verification.                                                      *)
HeldAwaitsWhois ==
    \A n \in Nick : dm_held[n] # << >> =>
        /\ n \in whois_pending
        /\ n \notin verified
        /\ Len(dm_held[n]) <= DM_HOLD_MAX

(* A nick is awaited only while its WHOIS, or the 318 that ends it, is     *)
(* still under way: trust_check fires no second WHOIS for an awaited nick, *)
(* so one awaited in vain would never be trusted again.                    *)
AnswerUnderWay ==
    \A n \in whois_pending :
        Contains(toServer, n) \/ Contains(toBot, [cmd |-> "318", nick |-> n])

(* Each line said has exactly one of three places: still on the wire,      *)
(* parked, or ended with one event.  No DM is lost without a DM_DROPPED,   *)
(* none is shown twice.                                                    *)
EveryLineAccounted ==
    \A i \in 1 .. said :
        Cardinality({k \in DOMAIN toBot : toBot[k] \in Spoken /\ toBot[k].id = i})
        + Cardinality({p \in Nick \X (1 .. DM_HOLD_MAX) :
                          p[2] \in DOMAIN dm_held[p[1]] /\ dm_held[p[1]][p[2]].id = i})
        + Cardinality({k \in DOMAIN events : events[k].line.id = i})
        = 1

(* What "TRUSTED" means: the one who said the line, not an earlier or a    *)
(* later holder of the nick, had identified to services by the time it was *)
(* shown, and speaks from a host of bot.trust.  For nicks that stay in     *)
(* sight of the bot; for the others the cache may outlive the holder.      *)
TrustedIsIdentified ==
    \A k \in DOMAIN events : LET e == events[k] IN
        (e.fate \in {"TRUSTED", "JOINED"} /\ e.line.nick \in InSight)
            => e.proved /\ host_matches(e.line.nick, e.line.host)

(* The other half of the gate: a DM is dropped as "not registered" only if *)
(* its sender had not identified when it wrote, and a message that met a   *)
(* 307 is never dropped by it.                                             *)
IdentifiedDmNotLost ==
    \A k \in DOMAIN events : LET e == events[k] IN
        /\ e.fate = "318" /\ e.line.nick \in InSight => ~e.line.identified
        /\ e.fate \notin {"307", "330"}

(* Parking keeps the order: the trusted private messages of a nick reach   *)
(* the stream in the order they were said, the parked ones before those    *)
(* that find the nick verified.                                            *)
TrustedDmsInOrder ==
    \A j, k \in DOMAIN events :
        (/\ j < k
         /\ events[j].line.nick = events[k].line.nick
         /\ {events[j].line.cmd, events[k].line.cmd} = {"dm"}
         /\ {events[j].fate, events[k].fate} = {"TRUSTED"})
            => events[j].line.id < events[k].line.id

(* What a stranger can put before the agent: a private message is shown    *)
(* unlabelled by trust only when its nick is not listed and bot.dmallow    *)
(* has the pair, and is trusted only from a listed nick.  However the      *)
(* WHOISes and the moves interleave, a listed nick's message is never      *)
(* shown as UNTRUSTED.                                                     *)
StrangersStayOut ==
    \A k \in DOMAIN events : LET l == events[k].line IN
        l.cmd = "dm" =>
            /\ events[k].fate = "UNTRUSTED" => ~is_trust_listed(l.nick) /\ dm_allowed(l.nick, l.host)
            /\ events[k].fate = "TRUSTED" => is_trust_listed(l.nick)

(* The gate implements LineFate.  A line is vouched for when its speaker's *)
(* tenure identified to services, or when its nick is one whose moves the  *)
(* bot may not see; it ends with its events, in their order.               *)
Everywhere ==
    UNION {Range(toBot) \cap Spoken, UNION {Range(dm_held[n]) : n \in DOMAIN dm_held},
           {e.line : e \in Range(events)}}

Vouched == {l.id : l \in {s \in Everywhere : s.tenure \in proved \/ s.nick \notin InSight}}

EndedAs(i) ==
    LET at == {k \in DOMAIN events : events[k].line.id = i}
    IN  [j \in 1 .. Cardinality(at) |->
            events[CHOOSE k \in at : Cardinality({m \in at : m <= k}) = j].fate]

Promise == INSTANCE LineFate WITH
    Line <- 1 .. MaxLines,
    Vouching <- {"TRUSTED", "JOINED"},
    said <- 1 .. said,
    vouched <- Vouched,
    ends <- [i \in 1 .. MaxLines |-> EndedAs(i)]

ImplementsLineFate == Promise!Spec

(* Under FairSpec every line ends: nothing waits for ever for a WHOIS.     *)
EveryLineEnds == Promise!Ending
=============================================================================
