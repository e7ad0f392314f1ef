------------------------------ MODULE Channels ------------------------------
(***************************************************************************)
(* Keeping the channels of bot.startup, from STARTUP_FIRED on.             *)
(*                                                                         *)
(* `joined` is what the reader thread has seen the server echo for our own *)
(* nick.  The startup thread plays bot.startup once, if there is such a    *)
(* file when it opens it; from then on the convergence thread              *)
(* compares the file with `joined` every CONVERGE_SECS and plays again the *)
(* lines of what is missing; a kick starts a timer that asks ChanServ for  *)
(* an invitation and another that joins, unless kicks come too often.      *)
(* Three kinds of threads send while the reader reads: the snapshot the    *)
(* convergence works from may be old by the time it is played.             *)
(***************************************************************************)
EXTENDS Naturals, Sequences, FiniteSets, SequencesExt

CONSTANTS
    Channel,
    Fallback,     \* whether this session registered with a throwaway nick
    KICK_MAX,
    Strangers,    \* whether somebody may take that nick once it is given up
    MaxKicks,     \* bound: kicks
    MaxChanges,   \* bound: bans set or lifted, edits of bot.startup, commands of the operator
    MaxWire       \* bound: unserved lines past which the convergence takes no snapshot

ASSUME ChannelsAssumption ==
    /\ IsFiniteSet(Channel)
    /\ Fallback \in BOOLEAN /\ Strangers \in BOOLEAN
    /\ KICK_MAX \in Nat /\ MaxKicks \in Nat /\ MaxChanges \in Nat /\ MaxWire \in Nat

VARIABLES
    startup,        \* the lines the startup thread has yet to play
    startup_thread, \* it "opens" bot.startup, "plays" it, is "done", or found "nofile"
    startup_done,
    joined,         \* what the bot believes
    replay,         \* the lines the convergence thread has yet to play
    kick_history,   \* per channel, the kicks of the last KICK_WINDOW
    rejoin,         \* per channel, the 2 s timers running
    lateJoin,       \* per channel, the 0.5 s timers running
    strangerSpoke,  \* history: whether somebody on our former nick was heard
    startup_file,   \* whether there is a bot.startup
    configured,     \* the JOIN lines of bot.startup
    toServer, toBot,
    asked,          \* channels ChanServ was asked to invite us to
    members, banned, invited,   \* the server's: where the bot is, may not come in, was invited
    ourNick,        \* the nick the server knows us by: "NICK" or "tmp"
    kicks, changes  \* kicks, bans, edits and commands so far

botVars    == <<startup, startup_thread, startup_done, joined, replay, kick_history, rejoin,
                lateJoin>>
serverVars == <<startup_file, configured, asked, members, banned, invited, ourNick, strangerSpoke,
                kicks, changes>>
vars == <<botVars, serverVars, toServer, toBot>>

Command == [cmd : {"INVITE", "JOIN", "PART"}, chan : Channel]
Echo    == [cmd : {"JOIN", "PART", "KICK"}, nick : {"NICK", "tmp"}, chan : Channel,
            own : BOOLEAN]

\* The lines of bot.startup that name a channel, in the order of the file.
LinesOf(chans) ==
    LET order == SetToSeq(chans)
    IN [i \in 1 .. 2 * Len(order) |->
          [cmd |-> IF i % 2 = 1 THEN "INVITE" ELSE "JOIN", chan |-> order[(i + 1) \div 2]]]

-----------------------------------------------------------------------------
(* The reader thread.                                                      *)

\* Mutant: the fallback nick is not ours.
IsMeConfigured(nick) == nick = "NICK"

_is_me(nick) == nick = "NICK" \/ (Fallback /\ nick = "tmp")

Reads(cmd) ==
    /\ toBot # << >>
    /\ Head(toBot).cmd = cmd
    /\ toBot' = Tail(toBot)
    /\ UNCHANGED <<serverVars, toServer, startup, startup_thread, startup_done, replay,
                   lateJoin>>

ReadJoin ==
    /\ Reads("JOIN")
    /\ LET l == Head(toBot) IN joined' = IF _is_me(l.nick) THEN joined \cup {l.chan} ELSE joined
    /\ UNCHANGED <<kick_history, rejoin>>

ReadPart ==
    /\ Reads("PART")
    /\ LET l == Head(toBot) IN joined' = IF _is_me(l.nick) THEN joined \ {l.chan} ELSE joined
    /\ UNCHANGED <<kick_history, rejoin>>

\* Mutant: KICK_GIVEUP comes one kick late.
ReadKickLate ==
    /\ Reads("KICK")
    /\ LET l == Head(toBot)
           c == l.chan
       IN /\ joined' = IF _is_me(l.nick) THEN joined \ {c} ELSE joined
          /\ IF l.nick = "NICK"
             THEN /\ kick_history' = [kick_history EXCEPT ![c] = @ + 1]
                  /\ IF kick_history[c] > KICK_MAX
                     THEN UNCHANGED rejoin
                     ELSE rejoin' = [rejoin EXCEPT ![c] = @ + 1]
             ELSE UNCHANGED <<kick_history, rejoin>>

\* A kick: rejoined in 2 s, or given up after KICK_MAX of them in a window.
ReadKick ==
    /\ Reads("KICK")
    /\ LET l == Head(toBot)
           c == l.chan
           count == kick_history[c] + 1
       IN /\ joined' = IF _is_me(l.nick) THEN joined \ {c} ELSE joined
          /\ IF l.nick = "NICK"
             THEN /\ kick_history' = [kick_history EXCEPT ![c] = count]
                  /\ IF count > KICK_MAX
                     THEN UNCHANGED rejoin
                     ELSE rejoin' = [rejoin EXCEPT ![c] = @ + 1]
             ELSE UNCHANGED <<kick_history, rejoin>>

handle_server_line == ReadJoin \/ ReadPart \/ ReadKick

-----------------------------------------------------------------------------
(* The other threads.                                                      *)

\* run_startup opens the file as it is then.  Without one it is over, and
\* startup_done stays false.
StartupOpens ==
    /\ startup_thread = "opens"
    /\ IF startup_file
       THEN startup' = LinesOf(configured) /\ startup_thread' = "plays"
       ELSE startup_thread' = "nofile" /\ UNCHANGED startup
    /\ UNCHANGED <<startup_done, toServer>>

\* It plays what it read a line at a time.
StartupPlays ==
    /\ startup_thread = "plays" /\ startup # << >>
    /\ toServer' = Append(toServer, Head(startup))
    /\ startup' = Tail(startup)
    /\ UNCHANGED <<startup_thread, startup_done>>

StartupDone ==
    /\ startup_thread = "plays" /\ startup = << >>
    /\ startup_thread' = "done" /\ startup_done' = TRUE
    /\ UNCHANGED <<startup, toServer>>

Startup ==
    /\ StartupOpens \/ StartupPlays \/ StartupDone
    /\ UNCHANGED <<serverVars, toBot, joined, replay, kick_history, rejoin, lateJoin>>

\* Mutant: what is configured and joined is compared the wrong way round.
MissingReversed == joined \ configured

Missing == configured \ joined

\* converge_loop: a tick takes its snapshot, then plays it a line at a time.
Converge ==
    /\ startup_done /\ replay = << >> /\ Missing # {}
    /\ Len(toServer) < MaxWire
    /\ replay' = LinesOf(Missing)
    /\ UNCHANGED <<serverVars, toServer, toBot, startup, startup_thread, startup_done,
                   joined, kick_history, rejoin, lateJoin>>

ConvergeReplays ==
    /\ replay # << >>
    /\ toServer' = Append(toServer, Head(replay))
    /\ replay' = Tail(replay)
    /\ UNCHANGED <<serverVars, toBot, startup, startup_thread, startup_done, joined,
                   kick_history,
                   rejoin, lateJoin>>

\* _rejoin: the 2 s timer asks for an invitation, the 0.5 s one joins.
Rejoin(c) ==
    /\ rejoin[c] > 0
    /\ toServer' = Append(toServer, [cmd |-> "INVITE", chan |-> c])
    /\ rejoin' = [rejoin EXCEPT ![c] = @ - 1]
    /\ lateJoin' = [lateJoin EXCEPT ![c] = @ + 1]
    /\ UNCHANGED <<serverVars, toBot, startup, startup_thread, startup_done, joined, replay,
                   kick_history>>

LateJoin(c) ==
    /\ lateJoin[c] > 0
    /\ toServer' = Append(toServer, [cmd |-> "JOIN", chan |-> c])
    /\ lateJoin' = [lateJoin EXCEPT ![c] = @ - 1]
    /\ UNCHANGED <<serverVars, toBot, startup, startup_thread, startup_done, joined, replay,
                   kick_history, rejoin>>

\* KICK_WINDOW since a kick: its timers, 2.5 s at most, are long over.
KickForgotten(c) ==
    /\ kick_history[c] > 0
    /\ rejoin[c] + lateJoin[c] < kick_history[c]
    /\ kick_history' = [kick_history EXCEPT ![c] = @ - 1]
    /\ UNCHANGED <<serverVars, toServer, toBot, startup, startup_thread, startup_done,
                   joined, replay, rejoin, lateJoin>>

\* The operator: JOIN or PART through the FIFO, or an edit of bot.startup.
Operator(c) ==
    /\ changes < MaxChanges
    /\ changes' = changes + 1
    /\ \/ \E cmd \in {"JOIN", "PART"} :
             toServer' = Append(toServer, [cmd |-> cmd, chan |-> c])
          /\ UNCHANGED <<startup_file, configured>>
       \/ /\ configured' = (configured \ {c}) \cup ({c} \ configured)
          /\ startup_file' = TRUE
          /\ UNCHANGED toServer
    /\ UNCHANGED <<botVars, asked, members, banned, invited, ourNick, strangerSpoke,
                   kicks, toBot>>

-----------------------------------------------------------------------------
(* The server (not part of the repository).                                *)

Own(cmd, c) == [cmd |-> cmd, nick |-> ourNick, chan |-> c, own |-> TRUE]

ServeJoin ==
    /\ toServer # << >> /\ Head(toServer).cmd = "JOIN"
    /\ toServer' = Tail(toServer)
    /\ LET c == Head(toServer).chan IN
       IF c \notin members /\ (c \notin banned \/ c \in invited)
       THEN /\ members' = members \cup {c}
            /\ invited' = invited \ {c}
            /\ toBot' = Append(toBot, Own("JOIN", c))
       ELSE UNCHANGED <<members, invited, toBot>>
    /\ UNCHANGED <<botVars, startup_file, configured, asked, banned, ourNick,
                   strangerSpoke, kicks, changes>>

ServePart ==
    /\ toServer # << >> /\ Head(toServer).cmd = "PART"
    /\ toServer' = Tail(toServer)
    /\ LET c == Head(toServer).chan IN
       IF c \in members
       THEN members' = members \ {c} /\ toBot' = Append(toBot, Own("PART", c))
       ELSE UNCHANGED <<members, toBot>>
    /\ UNCHANGED <<botVars, startup_file, configured, asked, banned, invited, ourNick,
                   strangerSpoke, kicks, changes>>

ServeInvite ==
    /\ toServer # << >> /\ Head(toServer).cmd = "INVITE"
    /\ toServer' = Tail(toServer)
    /\ asked' = asked \cup {Head(toServer).chan}
    /\ UNCHANGED <<botVars, startup_file, configured, members, banned, invited,
                   ourNick, strangerSpoke, kicks, changes, toBot>>

Serve == ServeJoin \/ ServePart \/ ServeInvite

\* ChanServ grants the invitation, or does not know us there.
ChanServ(c) ==
    /\ c \in asked
    /\ asked' = asked \ {c}
    /\ invited' \in {invited, invited \cup ({c} \ members)}
    /\ UNCHANGED <<botVars, startup_file, configured, members, banned, ourNick,
                   strangerSpoke, kicks, changes, toServer, toBot>>

Kick(c) ==
    /\ c \in members /\ kicks < MaxKicks
    /\ kicks' = kicks + 1
    /\ members' = members \ {c}
    /\ toBot' = Append(toBot, Own("KICK", c))
    /\ UNCHANGED <<botVars, startup_file, configured, asked, banned, invited, ourNick,
                   strangerSpoke, changes, toServer>>

Ban(c) ==
    /\ changes < MaxChanges
    /\ changes' = changes + 1
    /\ banned' = (banned \ {c}) \cup ({c} \ banned)
    /\ UNCHANGED <<botVars, startup_file, configured, asked, members, invited, ourNick,
                   strangerSpoke, kicks, toServer, toBot>>

\* Our nick is taken back from whoever had it.
Rename ==
    /\ ourNick = "tmp"
    /\ ourNick' = "NICK"
    /\ UNCHANGED <<botVars, startup_file, configured, asked, members, banned, invited,
                   strangerSpoke, kicks, changes,
                   toServer, toBot>>

\* Somebody who took the throwaway nick we gave up.
Stranger(c) ==
    /\ Strangers /\ Fallback /\ ourNick # "tmp" /\ c \in members /\ changes < MaxChanges
    /\ changes' = changes + 1
    /\ strangerSpoke' = TRUE
    /\ \E cmd \in {"JOIN", "PART", "KICK"} :
          toBot' = Append(toBot, [cmd |-> cmd, nick |-> "tmp", chan |-> c, own |-> FALSE])
    /\ UNCHANGED <<botVars, startup_file, configured, asked, members, banned, invited,
                   ourNick, kicks, toServer>>

-----------------------------------------------------------------------------
Init ==
    /\ startup_file \in BOOLEAN
    /\ configured \in SUBSET (IF startup_file THEN Channel ELSE {})
    /\ startup = << >> /\ startup_thread = "opens" /\ startup_done = FALSE
    /\ joined = {} /\ replay = << >>
    /\ kick_history = [c \in Channel |-> 0]
    /\ rejoin = [c \in Channel |-> 0] /\ lateJoin = [c \in Channel |-> 0]
    /\ toServer = << >> /\ toBot = << >>
    /\ asked = {} /\ members = {} /\ invited = {}
    /\ banned \in SUBSET Channel
    /\ ourNick \in IF Fallback THEN {"tmp", "NICK"} ELSE {"NICK"}
    /\ strangerSpoke = FALSE /\ kicks = 0 /\ changes = 0

Next ==
    \/ handle_server_line
    \/ Startup \/ Converge \/ ConvergeReplays
    \/ Serve \/ Rename
    \/ \E c \in Channel :
          \/ Rejoin(c) \/ LateJoin(c) \/ KickForgotten(c)
          \/ Operator(c) \/ ChanServ(c) \/ Kick(c) \/ Ban(c) \/ Stranger(c)

Spec == Init /\ [][Next]_vars

\* The reader reads, the threads and timers run, the server serves.  A tick of
\* the convergence comes again and again, so one comes with the server ready.
FairSpec ==
    /\ Spec
    /\ WF_vars(handle_server_line) /\ WF_vars(Serve)
    /\ WF_vars(Startup) /\ SF_vars(Converge) /\ WF_vars(ConvergeReplays)
    /\ \A c \in Channel : WF_vars(Rejoin(c)) /\ WF_vars(LateJoin(c))

-----------------------------------------------------------------------------
TypeOK ==
    /\ startup \in Seq(Command) /\ replay \in Seq(Command) /\ toServer \in Seq(Command)
    /\ toBot \in Seq(Echo)
    /\ startup_thread \in {"opens", "plays", "done", "nofile"}
    /\ startup_done \in BOOLEAN /\ startup_file \in BOOLEAN
    /\ joined \subseteq Channel /\ configured \subseteq Channel
    /\ asked \subseteq Channel /\ members \subseteq Channel
    /\ banned \subseteq Channel /\ invited \subseteq Channel
    /\ kick_history \in [Channel -> Nat] /\ rejoin \in [Channel -> Nat]
    /\ lateJoin \in [Channel -> Nat]
    /\ ourNick \in {"NICK", "tmp"} /\ strangerSpoke \in BOOLEAN
    /\ kicks \in Nat /\ changes \in Nat

(* "Joined = what the server echoed back for our own nick": once what the  *)
(* server sent is read, `joined` is where the bot is, through any race of  *)
(* joins, parts, kicks, bans and the change from the throwaway nick to     *)
(* ours.  For each channel the last unread line about us says where we     *)
(* are, and with none unread `joined` does.                                *)
JoinedIsMembership ==
    \A c \in Channel :
        LET about == {i \in DOMAIN toBot : toBot[i].own /\ toBot[i].chan = c}
        IN c \in members <=>
              IF about = {} THEN c \in joined
              ELSE toBot[CHOOSE i \in about : \A j \in about : j <= i].cmd = "JOIN"

(* The same as long as nobody has taken up the throwaway nick we gave back.*)
JoinedIsMembershipAlone == strangerSpoke \/ JoinedIsMembership

(* However kicks and windows fall, a channel never has more rejoins under  *)
(* way, of either timer, than the window's KICK_MAX: no Excess Flood.      *)
RejoinsBounded == \A c \in Channel : rejoin[c] + lateJoin[c] <= KICK_MAX

(* Whatever the kicks, bans, edits and commands were, when they end the bot*)
(* is in every configured channel it is not banned from, and stays: unless *)
(* the startup thread found no bot.startup, after which none it gets later *)
(* is looked at.                                                           *)
Converges == <>[](startup_thread = "nofile" \/ configured \ banned \subseteq members)
=============================================================================
