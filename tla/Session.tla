------------------------------- MODULE Session -------------------------------
(***************************************************************************)
(* From the connection to STARTUP_FIRED: how bot.py registers, logs in and *)
(* gets its own nick back.                                                 *)
(*                                                                         *)
(* Our last connection may still hold our nick as a ghost.  A 433 before   *)
(* 001 makes the bot register with a throwaway nick; at 001 it has NickServ*)
(* GHOST the stale one, and a thread takes the nick back 4 s later, five   *)
(* more times if services are slower.  Only then does it identify, and only*)
(* identified does it run bot.startup (fire_startup).  Under SASL it logs  *)
(* in before 001.  The reader thread's handlers, the reclaim threads, the  *)
(* server, its services and the other users all take steps of their own.   *)
(***************************************************************************)
EXTENDS Naturals, Sequences, FiniteSets, SequencesExt

CONSTANTS
    Nick,               \* nicknames
    NICK,               \* ours
    Temp,               \* the throwaway nicks NICK-100 .. NICK-999
    Profiles,           \* networks the bot may be started for, one record each:
                        \* sasl (IRC_SASL), pass (NICKSERV_PASS is set), cap (its server knows CAP)
    GHOST_RECLAIM_MAX,
    MaxOthers,          \* bound: nicks other users take
    MaxOperator         \* bound: what the operator asks for meanwhile

NoNick == "none"

ASSUME SessionAssumption ==
    /\ NICK \in Nick /\ NoNick \notin Nick
    /\ Temp \subseteq Nick \ {NICK} /\ Cardinality(Temp) > 1
    /\ Profiles \subseteq [sasl : BOOLEAN, pass : BOOLEAN, cap : BOOLEAN]
    /\ GHOST_RECLAIM_MAX \in Nat /\ MaxOthers \in Nat /\ MaxOperator \in Nat

VARIABLES
    profile,     \* the network of this process, which never changes
    registered, ghost_needed, ghost_tries, tmp_nick, me, startup_fired,
    exited,      \* sys.exit(1) by _sasl_abort
    gaveUp,      \* NS_GHOST_GIVEUP or NS_IDENTIFY_FAIL was emitted
    sleeping,    \* reclaim threads in their 4 s
    awake,       \* reclaim threads that found ghost_needed and have yet to send
    toServer,    \* lines sent and not read by the server
    toBot,       \* lines sent by the server and not read by the bot
    services,    \* what NickServ has been asked and has not done yet
    owner,       \* per nick: "free", "bot", "ghost" or "other"
    serverNick,  \* the nick the server knows the bot by
    sentUser, capHeld, welcomed, closed,
    account,     \* whether the connection is logged in
    sharing,     \* whether the bot sits in a channel with others
    others, operator,   \* nicks taken and things asked so far
    startedAs    \* history: the nick and login under which the startup was fired

botVars    == <<registered, ghost_needed, ghost_tries, tmp_nick, me, startup_fired,
                exited, gaveUp, sleeping, awake, startedAs>>
serverVars == <<profile, owner, serverNick, sentUser, capHeld, welcomed, closed, account, services>>
boundVars  == <<sharing, others, operator>>
vars == <<botVars, serverVars, boundVars, toServer, toBot>>

SASL          == profile.sasl
NICKSERV_PASS == profile.pass
CapServer     == profile.cap

Request == [cmd : {"NICK"}, nick : Nick]
           \cup [cmd : {"USER", "CAP_REQ", "AUTHENTICATE_PLAIN", "AUTHENTICATE", "CAP_END",
                        "GHOST", "IDENTIFY", "QUIT"}]
Reply == [cmd : {"001", "433"}, nick : Nick]
         \cup [cmd : {"NICK"}, from : Nick, nick : Nick, own : BOOLEAN]
         \cup [cmd : {"ACK", "NAK", "AUTHENTICATE", "903", "904", "identified", "refused",
                    "notice", "ERROR"}]

Req(cmd) == [cmd |-> cmd]
NickReq(n) == [cmd |-> "NICK", nick |-> n]

-----------------------------------------------------------------------------
(* The reader thread.                                                      *)

Reads(cmd) ==
    /\ ~exited
    /\ toBot # << >>
    /\ Head(toBot).cmd = cmd
    /\ toBot' = Tail(toBot)
    /\ UNCHANGED <<serverVars, boundVars>>

send_raw(r) == toServer' = Append(toServer, r)

\* fire_startup: once per process.
fire_startup ==
    IF startup_fired THEN UNCHANGED <<startup_fired, startedAs>>
    ELSE /\ startup_fired' = TRUE
         /\ startedAs' = [nick |-> serverNick, account |-> account]

_sasl_abort ==
    /\ send_raw(Req("QUIT"))
    /\ exited' = TRUE

\* Mutant: under SASL the startup does not wait for the reclaim.
Read001SaslFires ==
    /\ Reads("001")
    /\ registered' = TRUE
    /\ me' = Head(toBot).nick
    /\ IF SASL
       THEN fire_startup /\ UNCHANGED <<sleeping, toServer>>
       ELSE /\ send_raw(Req(IF ghost_needed THEN "GHOST" ELSE "IDENTIFY"))
            /\ sleeping' = IF ghost_needed THEN sleeping + 1 ELSE sleeping
            /\ UNCHANGED <<startup_fired, startedAs>>
    /\ UNCHANGED <<ghost_needed, ghost_tries, tmp_nick, exited, gaveUp, awake>>

\* 001: logged in already, or the ghost killed, or IDENTIFY, or no services.
Read001 ==
    /\ Reads("001")
    /\ registered' = TRUE
    /\ me' = Head(toBot).nick
    /\ \/ /\ SASL /\ ~ghost_needed
          /\ fire_startup
          /\ UNCHANGED <<sleeping, toServer>>
       \/ /\ NICKSERV_PASS /\ ghost_needed
          /\ send_raw(Req("GHOST"))
          /\ sleeping' = sleeping + 1
          /\ UNCHANGED <<startup_fired, startedAs>>
       \/ /\ NICKSERV_PASS /\ ~ghost_needed /\ ~SASL
          /\ send_raw(Req("IDENTIFY"))
          /\ UNCHANGED <<sleeping, startup_fired, startedAs>>
       \/ /\ ~NICKSERV_PASS /\ ~(SASL /\ ~ghost_needed)
          /\ fire_startup
          /\ UNCHANGED <<sleeping, toServer>>
    /\ UNCHANGED <<ghost_needed, ghost_tries, tmp_nick, exited, gaveUp, awake>>

ReadCap ==
    /\ \/ /\ Reads("ACK")
          /\ send_raw(Req("AUTHENTICATE_PLAIN"))
          /\ UNCHANGED exited
       \/ Reads("NAK") /\ _sasl_abort
    /\ UNCHANGED <<registered, ghost_needed, ghost_tries, tmp_nick, me, startup_fired,
                   gaveUp, sleeping, awake, startedAs>>

\* AUTHENTICATE +, 903, and 902/904/905/906/908.
ReadSasl ==
    /\ \/ Reads("AUTHENTICATE") /\ send_raw(Req("AUTHENTICATE")) /\ UNCHANGED exited
       \/ Reads("903") /\ send_raw(Req("CAP_END")) /\ UNCHANGED exited
       \/ Reads("904") /\ ~registered /\ _sasl_abort
    /\ UNCHANGED <<registered, ghost_needed, ghost_tries, tmp_nick, me, startup_fired,
                   gaveUp, sleeping, awake, startedAs>>

\* 433/432/437 before 001: a throwaway nick, random.
ReadNickTaken ==
    /\ Reads("433")
    /\ ~registered
    /\ \E t \in Temp : tmp_nick' = t /\ send_raw(NickReq(t))
    /\ ghost_needed' = TRUE
    /\ ghost_tries' = 0
    /\ UNCHANGED <<registered, me, startup_fired, exited, gaveUp, sleeping, awake, startedAs>>

\* Mutant: the last try is not retried, nor reported.
ReadReclaimRefusedSilent ==
    /\ Reads("433")
    /\ registered
    /\ IF ghost_needed /\ Head(toBot).nick = NICK /\ ghost_tries < GHOST_RECLAIM_MAX
       THEN /\ ghost_tries' = ghost_tries + 1
            /\ sleeping' = sleeping + 1
       ELSE UNCHANGED <<ghost_tries, sleeping>>
    /\ UNCHANGED <<registered, ghost_needed, tmp_nick, me, startup_fired, exited, gaveUp, awake,
                   startedAs, toServer>>

\* Mutant: every 433 starts two threads.
ReadReclaimRefusedTwice ==
    /\ Reads("433")
    /\ registered
    /\ IF ghost_needed /\ Head(toBot).nick = NICK /\ ghost_tries < GHOST_RECLAIM_MAX
       THEN /\ ghost_tries' = ghost_tries + 1
            /\ sleeping' = sleeping + 2
       ELSE UNCHANGED <<ghost_tries, sleeping>>
    /\ gaveUp' = (gaveUp \/ (ghost_needed /\ ghost_tries = GHOST_RECLAIM_MAX))
    /\ UNCHANGED <<registered, ghost_needed, tmp_nick, me, startup_fired, exited, awake,
                   startedAs, toServer>>

\* Mutant: one try too many.
ReadReclaimRefusedOnceMore ==
    /\ Reads("433")
    /\ registered
    /\ LET retry == ghost_needed /\ Head(toBot).nick = NICK IN
       /\ IF retry /\ ghost_tries <= GHOST_RECLAIM_MAX
          THEN /\ ghost_tries' = ghost_tries + 1
               /\ sleeping' = sleeping + 1
          ELSE UNCHANGED <<ghost_tries, sleeping>>
       /\ gaveUp' = (gaveUp \/ (retry /\ ghost_tries > GHOST_RECLAIM_MAX))
    /\ UNCHANGED <<registered, ghost_needed, tmp_nick, me, startup_fired, exited, awake,
                   startedAs, toServer>>

\* 433 after 001: our reclaim beat the GHOST, try again, a few times.
ReadReclaimRefused ==
    /\ Reads("433")
    /\ registered
    /\ LET retry == ghost_needed /\ Head(toBot).nick = NICK IN
       /\ IF retry /\ ghost_tries < GHOST_RECLAIM_MAX
          THEN /\ ghost_tries' = ghost_tries + 1
               /\ sleeping' = sleeping + 1
          ELSE UNCHANGED <<ghost_tries, sleeping>>
       /\ gaveUp' = (gaveUp \/ (retry /\ ghost_tries >= GHOST_RECLAIM_MAX))
    /\ UNCHANGED <<registered, ghost_needed, tmp_nick, me, startup_fired, exited, awake,
                   startedAs, toServer>>

\* A NOTICE of NickServ that says we are identified, one that refuses us
\* (NS_IDENTIFY_FAIL), any other line.
ReadNotice ==
    /\ \/ /\ Reads("identified")
          /\ IF NICKSERV_PASS THEN fire_startup ELSE UNCHANGED <<startup_fired, startedAs>>
          /\ UNCHANGED gaveUp
       \/ /\ Reads("refused")
          /\ gaveUp' = (gaveUp \/ NICKSERV_PASS)
          /\ UNCHANGED <<startup_fired, startedAs>>
       \/ /\ Reads("notice") \/ Reads("ERROR")
          /\ UNCHANGED <<startup_fired, startedAs, gaveUp>>
    /\ UNCHANGED <<registered, ghost_needed, ghost_tries, tmp_nick, me, exited, sleeping, awake,
                   toServer>>

\* Mutant: our nick is learnt from the 001 only.
OwnMoveUnheard(l) == me

OwnMove(l) == IF l.from = me THEN l.nick ELSE me

\* Mutant: the startup does not wait for NickServ to identify us.
ReadNickFires ==
    /\ Reads("NICK")
    /\ me' = OwnMove(Head(toBot))
    /\ IF ghost_needed /\ Head(toBot).nick = NICK
       THEN ghost_needed' = FALSE /\ send_raw(Req("IDENTIFY")) /\ fire_startup
       ELSE UNCHANGED <<ghost_needed, startup_fired, startedAs, toServer>>
    /\ UNCHANGED <<registered, ghost_tries, tmp_nick, exited, gaveUp, sleeping, awake>>

\* NICK: ours is remembered; the configured nick, taken back, is identified.
ReadNick ==
    /\ Reads("NICK")
    /\ me' = OwnMove(Head(toBot))
    /\ IF ghost_needed /\ Head(toBot).nick = NICK
       THEN /\ ghost_needed' = FALSE
            /\ IF SASL
               THEN fire_startup /\ UNCHANGED toServer
               ELSE /\ IF NICKSERV_PASS THEN send_raw(Req("IDENTIFY")) ELSE UNCHANGED toServer
                    /\ UNCHANGED <<startup_fired, startedAs>>
       ELSE UNCHANGED <<ghost_needed, startup_fired, startedAs, toServer>>
    /\ UNCHANGED <<registered, ghost_tries, tmp_nick, exited, gaveUp, sleeping, awake>>

handle_server_line ==
    \/ Read001 \/ ReadCap \/ ReadSasl \/ ReadNickTaken \/ ReadReclaimRefused
    \/ ReadNotice \/ ReadNick

-----------------------------------------------------------------------------
(* _reclaim_after_ghost: one thread per scheduled reclaim.  What it reads  *)
(* after its sleep may be stale when it sends.                             *)
ReclaimWakes ==
    /\ ~exited /\ sleeping > 0
    /\ sleeping' = sleeping - 1
    /\ awake' = IF ghost_needed THEN awake + 1 ELSE awake
    /\ UNCHANGED <<registered, ghost_needed, ghost_tries, tmp_nick, me, startup_fired, exited,
                   gaveUp, startedAs, serverVars, boundVars, toServer, toBot>>

ReclaimSends ==
    /\ ~exited /\ awake > 0
    /\ awake' = awake - 1
    /\ send_raw(NickReq(NICK))
    /\ UNCHANGED <<registered, ghost_needed, ghost_tries, tmp_nick, me, startup_fired, exited,
                   gaveUp, sleeping, startedAs, serverVars, boundVars, toBot>>

\* The operator, through the FIFO: a JOIN, or RAW NICK for the nick by hand.
OperatorJoins ==
    /\ welcomed /\ ~exited /\ operator < MaxOperator
    /\ operator' = operator + 1
    /\ sharing' = TRUE
    /\ UNCHANGED <<botVars, serverVars, others, toServer, toBot>>

OperatorReclaims ==
    /\ registered /\ ~exited /\ operator < MaxOperator
    /\ operator' = operator + 1
    /\ send_raw(NickReq(NICK))
    /\ UNCHANGED <<botVars, serverVars, sharing, others, toBot>>

-----------------------------------------------------------------------------
(* The server, its services and its other users (not in the repository).   *)

tells(l) == toBot' = Append(toBot, l)

Serves(cmd) ==
    /\ ~closed
    /\ toServer # << >>
    /\ Head(toServer).cmd = cmd
    /\ toServer' = Tail(toServer)
    /\ UNCHANGED <<botVars, boundVars, profile>>

ServeNick ==
    /\ Serves("NICK")
    /\ LET n == Head(toServer).nick IN
       \/ /\ owner[n] \in {"ghost", "other"}
          /\ tells([cmd |-> "433", nick |-> n])
          /\ UNCHANGED <<owner, serverNick>>
       \/ owner[n] = "bot" /\ UNCHANGED <<owner, serverNick, toBot>>
       \/ /\ owner[n] = "free"
          /\ owner' = [m \in Nick |-> IF m = n THEN "bot"
                                      ELSE IF m = serverNick THEN "free" ELSE owner[m]]
          /\ serverNick' = n
          /\ IF welcomed
             THEN tells([cmd |-> "NICK", from |-> serverNick, nick |-> n, own |-> TRUE])
             ELSE UNCHANGED toBot
    /\ UNCHANGED <<sentUser, capHeld, welcomed, closed, account, services>>

\* USER, CAP and SASL: services may be away, then sasl is refused.
ServeLogin ==
    /\ \/ Serves("USER") /\ sentUser' = TRUE /\ UNCHANGED <<capHeld, account, toBot>>
       \/ /\ Serves("CAP_REQ")
          /\ IF CapServer
             THEN capHeld' = TRUE /\ (tells(Req("ACK")) \/ tells(Req("NAK")))
             ELSE capHeld' = FALSE /\ tells(Req("notice"))
          /\ UNCHANGED <<sentUser, account>>
       \/ /\ Serves("AUTHENTICATE_PLAIN")
          /\ tells(Req("AUTHENTICATE"))
          /\ UNCHANGED <<sentUser, capHeld, account>>
       \/ /\ Serves("AUTHENTICATE")
          /\ \/ NICKSERV_PASS /\ account' = TRUE /\ tells(Req("903"))
             \/ account' = FALSE /\ tells(Req("904"))
          /\ UNCHANGED <<sentUser, capHeld>>
       \/ /\ Serves("CAP_END")
          /\ capHeld' = FALSE
          /\ UNCHANGED <<sentUser, account, toBot>>
    /\ UNCHANGED <<owner, serverNick, welcomed, closed, services>>

ServeServices ==
    /\ Serves("GHOST") \/ Serves("IDENTIFY")
    /\ services' = Append(services, Head(toServer).cmd)
    /\ UNCHANGED <<owner, serverNick, sentUser, capHeld, welcomed, closed, account, toBot>>

ServeQuit ==
    /\ Serves("QUIT")
    /\ closed' = TRUE
    /\ owner' = [n \in Nick |-> IF owner[n] = "bot" THEN "free" ELSE owner[n]]
    /\ tells(Req("ERROR"))
    /\ UNCHANGED <<serverNick, sentUser, capHeld, welcomed, account, services>>

\* Registration completes: a nick, USER, and no CAP negotiation open.
Welcome ==
    /\ ~welcomed /\ ~closed
    /\ serverNick # NoNick /\ sentUser /\ ~capHeld
    /\ \A i \in DOMAIN toServer : toServer[i].cmd # "CAP_REQ"
    /\ welcomed' = TRUE
    /\ tells([cmd |-> "001", nick |-> serverNick])
    /\ UNCHANGED <<botVars, boundVars, profile, owner, serverNick, sentUser, capHeld, closed, account,
                   services, toServer>>

\* GHOST frees the nick from whoever holds it; IDENTIFY logs in its holder.
\* Either may be refused, the password not being the nick's: IDENTIFY in words
\* the bot knows, GHOST in those or in others.
NickServ ==
    /\ services # << >> /\ ~closed
    /\ services' = Tail(services)
    /\ \/ /\ Head(services) = "GHOST"
          /\ owner' \in {owner, IF owner[NICK] = "bot" THEN owner ELSE [owner EXCEPT ![NICK] = "free"]}
          /\ tells(Req("notice"))
          /\ UNCHANGED account
       \/ /\ Head(services) = "IDENTIFY"
          /\ IF serverNick = NICK
             THEN account' = TRUE /\ tells(Req("identified"))
             ELSE UNCHANGED account /\ tells(Req("notice"))
          /\ UNCHANGED owner
       \/ tells(Req("refused")) /\ UNCHANGED <<owner, account>>
    /\ UNCHANGED <<botVars, boundVars, profile, serverNick, sentUser, capHeld, welcomed, closed, toServer>>

\* The server times the ghost out; other users come and go, and never hold
\* the nine hundred throwaway nicks all at once.
LeavesOneFree(n) == \E t \in Temp \ {n} : owner[t] # "other"

GhostDies ==
    /\ owner[NICK] = "ghost"
    /\ owner' = [owner EXCEPT ![NICK] = "free"]
    /\ UNCHANGED <<botVars, boundVars, profile, serverNick, sentUser, capHeld, welcomed, closed, account,
                   services, toServer, toBot>>

OtherTakes(n) ==
    /\ owner[n] = "free" /\ LeavesOneFree(n) /\ others < MaxOthers
    /\ owner' = [owner EXCEPT ![n] = "other"]
    /\ others' = others + 1
    /\ UNCHANGED <<botVars, profile, serverNick, sentUser, capHeld, welcomed, closed, account,
                   services, sharing, operator, toServer, toBot>>

\* A user who shares a channel with the bot is heard.
OtherRenames(a, b) ==
    /\ owner[a] = "other" /\ owner[b] = "free" /\ LeavesOneFree(b) /\ others < MaxOthers
    /\ owner' = [owner EXCEPT ![a] = "free", ![b] = "other"]
    /\ others' = others + 1
    /\ IF sharing /\ ~closed
       THEN tells([cmd |-> "NICK", from |-> a, nick |-> b, own |-> FALSE])
       ELSE UNCHANGED toBot
    /\ UNCHANGED <<botVars, profile, serverNick, sentUser, capHeld, welcomed, closed, account,
                   services, sharing, operator, toServer>>

Serve == ServeNick \/ ServeLogin \/ ServeServices \/ ServeQuit \/ Welcome

-----------------------------------------------------------------------------
Init ==
    /\ profile \in Profiles
    /\ registered = FALSE /\ ghost_needed = FALSE /\ ghost_tries = 0
    /\ tmp_nick = NoNick /\ me = NICK /\ startup_fired = FALSE
    /\ exited = FALSE /\ gaveUp = FALSE /\ sleeping = 0 /\ awake = 0
    /\ toServer = (IF SASL THEN <<Req("CAP_REQ")>> ELSE << >>) \o <<NickReq(NICK), Req("USER")>>
    /\ toBot = << >> /\ services = << >>
    /\ owner \in {[n \in Nick |-> IF n = NICK THEN o ELSE "free"] : o \in {"free", "ghost", "other"}}
    /\ serverNick = NoNick
    /\ sentUser = FALSE /\ capHeld = FALSE /\ welcomed = FALSE /\ closed = FALSE
    /\ account = FALSE /\ sharing = FALSE /\ others = 0 /\ operator = 0
    /\ startedAs = [nick |-> NoNick, account |-> FALSE]

Next ==
    \/ handle_server_line
    \/ ReclaimWakes \/ ReclaimSends
    \/ OperatorJoins \/ OperatorReclaims
    \/ Serve \/ NickServ \/ GhostDies
    \/ \E n \in Nick : OtherTakes(n) \/ \E b \in Nick : OtherRenames(n, b)

Spec == Init /\ [][Next]_vars

\* Threads run, the server reads, services answer, and a throwaway nick drawn
\* at random again and again is each of them in the end.
FairSpec ==
    /\ Spec
    /\ WF_vars(handle_server_line)
    /\ WF_vars(ReclaimWakes) /\ WF_vars(ReclaimSends)
    /\ WF_vars(Serve) /\ WF_vars(NickServ)
    /\ \A t \in Temp : SF_vars(ReadNickTaken /\ tmp_nick' = t)

-----------------------------------------------------------------------------
TypeOK ==
    /\ profile \in Profiles
    /\ registered \in BOOLEAN /\ ghost_needed \in BOOLEAN /\ startup_fired \in BOOLEAN
    /\ ghost_tries \in 0 .. GHOST_RECLAIM_MAX
    /\ tmp_nick \in Temp \cup {NoNick}
    /\ me \in Nick
    /\ exited \in BOOLEAN /\ gaveUp \in BOOLEAN
    /\ sleeping \in Nat /\ awake \in Nat
    /\ toServer \in Seq(Request) /\ toBot \in Seq(Reply)
    /\ services \in Seq({"GHOST", "IDENTIFY"})
    /\ owner \in [Nick -> {"free", "bot", "ghost", "other"}]
    /\ serverNick \in Nick \cup {NoNick}
    /\ {sentUser, capHeld, welcomed, closed, account, sharing} \subseteq BOOLEAN
    /\ others \in Nat /\ operator \in Nat
    /\ startedAs \in [nick : Nick \cup {NoNick}, account : BOOLEAN]

(* SASL: "If SASL fails we QUIT instead of registering in clear": on a     *)
(* server that knows CAP, no refusal or late answer lets the registration  *)
(* complete without the login.                                             *)
NeverInClear == SASL /\ CapServer /\ welcomed => account

(* bot.startup, and so the JOINs, never runs unidentified when there is a  *)
(* password: whatever the order of ghosts, retries and refusals, the       *)
(* connection was logged in when fire_startup ran.  A server without CAP is*)
(* the exception: there SASL is taken for done when 001 comes.             *)
StartedLoggedIn ==
    /\ startup_fired /\ NICKSERV_PASS /\ (SASL => CapServer) => startedAs.account
    /\ NeverInClear

(* The startup is never fired on the throwaway nick when there are services*)
(* to give ours back, as long as the bot sits in no channel yet and so     *)
(* hears no other user's change of nick.                                   *)
StartedOnOurNick ==
    startup_fired /\ NICKSERV_PASS /\ ~sharing => startedAs.nick = NICK

(* "so JOINs happen on the right nick", without that reserve: under SASL   *)
(* the NICK handler starts on our own nick and on no other.                *)
StartupOnRightNick == startup_fired /\ NICKSERV_PASS => startedAs.nick = NICK

(* `me` is the nick the server knows us by as soon as what it sent is read:*)
(* the last unread 001 or NICK of ours says the server's nick, and with    *)
(* none unread `me` is it.  Challenges and encrypted lines are sized and   *)
(* addressed by it.                                                        *)
MeIsServerNick ==
    LET own == {i \in DOMAIN toBot : toBot[i].cmd = "001" \/ (toBot[i].cmd = "NICK" /\ toBot[i].own)}
    IN welcomed =>
        IF own = {} THEN me = serverNick
        ELSE toBot[CHOOSE i \in own : \A j \in own : j <= i].nick = serverNick

(* A reclaim is retried only once it is known to have failed: apart from   *)
(* what the operator sends, one is in flight at most, as a thread, a line  *)
(* to the server or its 433.  More would flood the server with NICKs.      *)
OneReclaimInFlight ==
    registered =>
        sleeping + awake
        + Cardinality({i \in DOMAIN toServer : toServer[i] = NickReq(NICK)})
        + Cardinality({i \in DOMAIN toBot : toBot[i] = [cmd |-> "433", nick |-> NICK]})
            <= 1 + operator

(* Every connection ends up started, or says why not: NS_GHOST_GIVEUP      *)
(* after the last reclaim, NS_IDENTIFY_FAIL when NickServ refuses us in    *)
(* words the bot knows, or the exit of a failed SASL.  Again unless the bot*)
(* was made to sit in a channel: then another user's change of nick can end*)
(* the wait for ours, and nothing ever starts or is said.                  *)
SessionEnds == <>(startup_fired \/ gaveUp \/ exited \/ sharing)
=============================================================================
