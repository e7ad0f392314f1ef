------------------------------ MODULE Watchdog ------------------------------
(***************************************************************************)
(* aup_watchdog.py: the process that tails the transcript of the agent's   *)
(* session and types /clear into its pane, when the session is latched on a*)
(* refusal, has run too many turns, or has been idle.                      *)
(*                                                                         *)
(* One loop: it reads what is new in the latest transcript, then goes      *)
(* through its four triggers.  A clear takes time (a warning, the keys, a  *)
(* line into the bot's FIFO, a prompt), and the session writes meanwhile.  *)
(* Time is counted in units of PRE_CLEAR_WARN_SEC, in ages that saturate.  *)
(***************************************************************************)
EXTENDS Naturals, Sequences, SequencesExt

CONSTANTS
    DEBOUNCE,        \* DEBOUNCE_SEC (60 s), in units
    IDLE,            \* IDLE_SEC (900 s)
    RESOLVE_ALERT,   \* RESOLVE_ALERT_SEC (300 s)
    MAX_TURNS, IDLE_MIN_TURNS,
    MaxUnread        \* bound: lines of a transcript not yet looked at

\* A warning, the settling of a clear and a poll each take a unit at most:
\* "must be >= PRE_CLEAR_WARN_SEC + POST_CLEAR_WAIT + buffer".
ASSUME WatchAssumption ==
    /\ DEBOUNCE \in Nat /\ DEBOUNCE > 3
    /\ IDLE \in Nat \ {0} /\ RESOLVE_ALERT \in Nat
    /\ MAX_TURNS \in Nat \ {0} /\ IDLE_MIN_TURNS \in 1 .. MAX_TURNS
    /\ MaxUnread \in Nat \ {0}

VARIABLES
    stage,          \* where the loop is
    reason,         \* why fire_clear was called
    left,           \* units the sleep it is in still lasts at most
    chunk,          \* lines read and not yet looked at
    attached,       \* whether current_file is the transcript now written to
    turns_since_clear, fired_this_tick, manual_fire,
    sinceFire,      \* time.time() - last_fire
    elapsed,        \* time.time() - now: the tick's `now` ages while it sleeps
    debounced,      \* now - last_fire < DEBOUNCE_SEC
    idled,          \* now - st_mtime >= IDLE_SEC
    failing,        \* how long no pane was found: << >> or <<units>>
    alerted,
    fifo,           \* the open of the bot's FIFO: "free", "waits", or "orphan"
    cleared,        \* whether the session's next line opens a new transcript
    unread,         \* lines of the transcript past current_pos
    pending,        \* whether a tool_use in it waits for its result
    pendingBefore,  \* the same of current_file, if that is the one before
    silence,        \* since its last line
    latched,        \* whether the session refuses every turn
    pane, bot,      \* whether the pane, and the bot's process, are there
    stale,          \* history: whether the line that matched was of a session cleared since
    holds,          \* history: units left of the last clear's DEBOUNCE_SEC
    late            \* history: whether its tick had slept for more than its warning

loopVars    == <<stage, reason, left, chunk, turns_since_clear, fired_this_tick, sinceFire,
                 elapsed, debounced, failing, alerted, stale>>
sessionVars == <<attached, idled, cleared, unread, pending, pendingBefore, silence, latched>>
clearVars   == <<holds, late>>
watchVars   == <<loopVars, sessionVars, clearVars, manual_fire, fifo, pane, bot>>

AtMost(x, top) == IF x > top THEN top ELSE x

-----------------------------------------------------------------------------
(* The loop of main.                                                       *)

To(next) == stage' = next /\ left' = IF next \in {"sleep", "warning", "scrub"} THEN 1 ELSE 0

\* A newer transcript is read from its start, the same one from current_pos.
Poll ==
    /\ stage = "sleep"
    /\ To("manual")
    /\ chunk' = unread /\ unread' = << >>
    /\ attached' = TRUE /\ pendingBefore' = FALSE
    /\ turns_since_clear' = IF attached THEN turns_since_clear ELSE 0
    /\ debounced' = (sinceFire < DEBOUNCE) /\ idled' = (silence >= IDLE)
    /\ UNCHANGED <<reason, fired_this_tick, elapsed, sinceFire, failing, alerted, stale, cleared, pending, silence, latched,
                   clearVars, manual_fire, fifo, pane, bot>>

tickVars == <<sinceFire, elapsed, debounced, failing, alerted, sessionVars, clearVars, fifo, pane,
              bot>>

Fire(why) == To("resolve") /\ reason' = why

\* SIGUSR1: no debounce.
Manual ==
    /\ stage = "manual"
    /\ manual_fire' = FALSE
    /\ IF manual_fire THEN Fire("manual") ELSE To("scan") /\ UNCHANGED reason
    /\ UNCHANGED <<tickVars, chunk, turns_since_clear, fired_this_tick, stale>>

Matches(line) == line.kind \in {"refusal", "aup"}

\* Mutant: lines that read like the usage policy are not debounced.
ScanStale ==
    /\ stage = "scan"
    /\ LET stops == {i \in DOMAIN chunk : Matches(chunk[i])}
           first == CHOOSE i \in stops : \A j \in stops : i <= j
           seen  == IF stops = {} THEN chunk ELSE SubSeq(chunk, 1, first)
           turns == Cardinality({i \in DOMAIN seen : seen[i].kind # "result"})
       IN /\ turns_since_clear' = AtMost(turns_since_clear + turns, MAX_TURNS)
          /\ IF stops = {} \/ (debounced /\ chunk[first].kind = "refusal")
             THEN To("turns") /\ UNCHANGED <<reason, stale>>
             ELSE Fire(chunk[first].kind) /\ stale' = chunk[first].stale
    /\ chunk' = << >>
    /\ UNCHANGED <<tickVars, fired_this_tick, manual_fire>>

\* Mutant: a match that is debounced starts the window again.
ScanSlides ==
    /\ stage = "scan"
    /\ LET stops == {i \in DOMAIN chunk : Matches(chunk[i])}
           first == CHOOSE i \in stops : \A j \in stops : i <= j
           seen  == IF stops = {} THEN chunk ELSE SubSeq(chunk, 1, first)
           turns == Cardinality({i \in DOMAIN seen : seen[i].kind # "result"})
       IN /\ turns_since_clear' = AtMost(turns_since_clear + turns, MAX_TURNS)
          /\ IF stops = {} \/ debounced
             THEN To("turns") /\ UNCHANGED <<reason, stale>>
             ELSE Fire(chunk[first].kind) /\ stale' = chunk[first].stale
          /\ sinceFire' = IF stops # {} /\ debounced THEN elapsed ELSE sinceFire
    /\ chunk' = << >>
    /\ UNCHANGED <<elapsed, debounced, failing, alerted, sessionVars, clearVars, fifo, pane, bot,
                   fired_this_tick, manual_fire>>

\* Lines are looked at up to the first that matches; the rest is never read.
Scan ==
    /\ stage = "scan"
    /\ LET stops == {i \in DOMAIN chunk : Matches(chunk[i])}
           first == CHOOSE i \in stops : \A j \in stops : i <= j
           seen  == IF stops = {} THEN chunk ELSE SubSeq(chunk, 1, first)
           turns == Cardinality({i \in DOMAIN seen : seen[i].kind # "result"})
       IN /\ turns_since_clear' = AtMost(turns_since_clear + turns, MAX_TURNS)
          /\ IF stops = {} \/ debounced
             THEN To("turns") /\ UNCHANGED <<reason, stale>>
             ELSE Fire(chunk[first].kind) /\ stale' = chunk[first].stale
    /\ chunk' = << >>
    /\ UNCHANGED <<tickVars, fired_this_tick, manual_fire>>

\* has_pending_tool_use of current_file.
PendingRead == IF attached THEN pending ELSE pendingBefore

Turns ==
    /\ stage = "turns"
    /\ IF /\ ~fired_this_tick /\ turns_since_clear >= MAX_TURNS
          /\ ~debounced /\ ~PendingRead
       THEN Fire("turns") ELSE To("idle") /\ UNCHANGED reason
    /\ UNCHANGED <<tickVars, chunk, turns_since_clear, fired_this_tick, manual_fire, stale>>

\* boot_age adds nothing: turns are counted from lines written since the start.
Idle ==
    /\ stage = "idle"
    /\ IF /\ ~fired_this_tick /\ idled
          /\ ~debounced /\ turns_since_clear >= IDLE_MIN_TURNS
          /\ ~PendingRead
       THEN Fire("idle") ELSE To("end") /\ UNCHANGED reason
    /\ UNCHANGED <<tickVars, chunk, turns_since_clear, fired_this_tick, manual_fire, stale>>

\* POLL_SEC; what belonged to the tick is forgotten.
EndTick ==
    /\ stage = "end"
    /\ To("sleep")
    /\ reason' = "manual" /\ fired_this_tick' = FALSE /\ elapsed' = 0
    /\ debounced' = FALSE /\ idled' = FALSE /\ stale' = FALSE
    /\ UNCHANGED <<chunk, turns_since_clear, sinceFire, failing, alerted, attached, cleared, unread,
                   pending, pendingBefore, silence, latched, clearVars, manual_fire, fifo, pane, bot>>

-----------------------------------------------------------------------------
(* fire_clear.                                                             *)

After == CASE reason = "manual" -> "scan"
           [] reason \in {"refusal", "aup"} -> "turns"
           [] reason = "turns" -> "idle"
           [] reason = "idle" -> "end"

Warned == IF reason = "refusal" THEN "inject" ELSE "warning"

\* Mutant: the end of an outage is told but not noted.
ResolveUnnoted ==
    /\ stage = "resolve"
    /\ IF pane
       THEN /\ To(IF alerted THEN "reassure" ELSE Warned)
            /\ failing' = << >> /\ UNCHANGED alerted
       ELSE /\ failing' = IF failing = << >> THEN <<0>> ELSE failing
            /\ IF failing # << >> /\ ~alerted /\ failing[1] >= RESOLVE_ALERT
               THEN To("escalate") /\ alerted' = TRUE
               ELSE To(After) /\ UNCHANGED alerted
    /\ UNCHANGED <<reason, chunk, turns_since_clear, fired_this_tick, sinceFire,
                   elapsed, debounced, stale, sessionVars, clearVars, manual_fire, fifo, pane, bot>>

\* No pane: two failures RESOLVE_ALERT_SEC apart are told to the operator, once.
Resolve ==
    /\ stage = "resolve"
    /\ IF pane
       THEN /\ To(IF alerted THEN "reassure" ELSE Warned)
            /\ failing' = << >> /\ alerted' = FALSE
       ELSE /\ failing' = IF failing = << >> THEN <<0>> ELSE failing
            /\ IF failing # << >> /\ ~alerted /\ failing[1] >= RESOLVE_ALERT
               THEN To("escalate") /\ alerted' = TRUE
               ELSE To(After) /\ UNCHANGED alerted
    /\ UNCHANGED <<reason, chunk, turns_since_clear, fired_this_tick, sinceFire,
                   elapsed, debounced, stale, sessionVars, clearVars, manual_fire, fifo, pane, bot>>

fireVars == <<reason, elapsed, debounced, failing, alerted>>

\* The warning, if its keys land, then PRE_CLEAR_WARN_SEC.
WarningEnds ==
    /\ stage = "warning" /\ left = 0
    /\ To("inject")
    /\ UNCHANGED <<fireVars, chunk, stale, turns_since_clear, fired_this_tick, sinceFire, sessionVars,
                   clearVars, manual_fire, fifo, pane, bot>>

Outdated(lines) == [i \in DOMAIN lines |-> [lines[i] EXCEPT !.stale = TRUE]]

\* /clear: the session starts anew, and its next line a new transcript.
Inject ==
    /\ stage = "inject"
    /\ IF pane
       THEN /\ To(IF reason \in {"refusal", "aup"} THEN "announce" ELSE "scrub")
            /\ latched' = FALSE /\ cleared' = TRUE
            /\ unread' = Outdated(unread) /\ chunk' = Outdated(chunk)
            /\ holds' = DEBOUNCE - elapsed /\ late' = (elapsed > 1)
       ELSE To(After) /\ UNCHANGED <<latched, cleared, unread, chunk, clearVars>>
    /\ UNCHANGED <<fireVars, stale, turns_since_clear, fired_this_tick, sinceFire, attached, idled,
                   pending, pendingBefore, silence, manual_fire, fifo, pane, bot>>

Saying == stage \in {"announce", "escalate", "reassure"}

\* send_fifo_say opens the FIFO for writing, which waits for its reader.
SayWaits ==
    /\ Saying /\ bot = "down" /\ fifo = "free"
    /\ fifo' = "waits"
    /\ UNCHANGED <<loopVars, sessionVars, clearVars, manual_fire, pane, bot>>

Say ==
    /\ Saying /\ bot = "up" /\ fifo = "free"
    /\ To(CASE stage = "announce" -> "scrub"
            [] stage = "escalate" -> After
            [] stage = "reassure" -> Warned)
    /\ UNCHANGED <<fireVars, chunk, stale, turns_since_clear, fired_this_tick, sinceFire, sessionVars,
                   clearVars, manual_fire, fifo, pane, bot>>

\* The prompt is in, or given up; fire_clear returns True to main, where
\* last_fire becomes the `now` of the tick.
Fired ==
    /\ stage = "scrub"
    /\ To(After)
    /\ sinceFire' = elapsed
    /\ turns_since_clear' = 0 /\ fired_this_tick' = TRUE /\ debounced' = TRUE
    /\ UNCHANGED <<reason, chunk, stale, elapsed, failing, alerted, sessionVars, clearVars, manual_fire, fifo, pane, bot>>

Loop ==
    \/ Poll \/ Manual \/ Scan \/ Turns \/ Idle \/ EndTick
    \/ Resolve \/ WarningEnds \/ Inject \/ SayWaits \/ Say \/ Fired

-----------------------------------------------------------------------------
(* The rest of the world.                                                  *)

\* A unit of time passes while the loop sleeps.
Elapse ==
    /\ left > 0
    /\ left' = left - 1
    /\ elapsed' = IF stage = "sleep" THEN elapsed ELSE AtMost(elapsed + 1, DEBOUNCE)
    /\ sinceFire' = AtMost(sinceFire + 1, DEBOUNCE)
    /\ holds' = IF holds = 0 THEN 0 ELSE holds - 1
    /\ failing' = IF failing = << >> THEN failing ELSE <<AtMost(failing[1] + 1, RESOLVE_ALERT)>>
    /\ silence' = AtMost(silence + 1, IDLE)
    /\ UNCHANGED <<stage, reason, chunk, turns_since_clear, fired_this_tick, debounced, alerted, stale,
                   attached, idled, cleared, unread, pending, pendingBefore, latched, late,
                   manual_fire, fifo, pane, bot>>

\* The session writes a line; a refusal latches it until it is cleared.
Writes(kind) ==
    /\ latched => kind \in {"refusal", "aup"}
    /\ kind = "result" <=> pending /\ ~cleared
    /\ LET line == [kind |-> kind, stale |-> FALSE] IN
       IF cleared
       THEN /\ attached' = FALSE /\ unread' = <<line>> /\ cleared' = FALSE
            /\ pendingBefore' = pending /\ UNCHANGED idled
       ELSE /\ Len(unread) + Len(chunk) < MaxUnread /\ unread' = Append(unread, line)
            /\ idled' = (idled /\ ~attached) /\ UNCHANGED <<attached, cleared, pendingBefore>>
    /\ pending' = (kind = "tool") /\ silence' = 0
    /\ latched' = (kind \in {"refusal", "aup"})
    /\ UNCHANGED <<loopVars, clearVars, manual_fire, fifo, pane, bot>>

Signal ==
    /\ ~manual_fire
    /\ manual_fire' = TRUE
    /\ UNCHANGED <<loopVars, sessionVars, clearVars, fifo, pane, bot>>

PaneMoves ==
    /\ pane' = ~pane
    /\ UNCHANGED <<loopVars, sessionVars, clearVars, manual_fire, fifo, bot>>

\* The bot's process ends; when nobody has a line for it, nobody sees it.
BotDies ==
    /\ Saying /\ fifo = "free" /\ bot = "up"
    /\ bot' = "down"
    /\ UNCHANGED <<loopVars, sessionVars, clearVars, manual_fire, fifo, pane>>

\* writer_loop removes the FIFO and makes another: an open of the old one is lost.
BotReturns ==
    /\ bot = "down"
    /\ bot' = "up"
    /\ fifo' = IF fifo = "waits" THEN "orphan" ELSE fifo
    /\ UNCHANGED <<loopVars, sessionVars, clearVars, manual_fire, pane>>

LineKind == {"turn", "tool", "result", "refusal", "aup"}

WatchInit ==
    /\ stage = "sleep" /\ reason = "manual" /\ left = 1 /\ chunk = << >> /\ attached = TRUE
    /\ turns_since_clear = 0 /\ fired_this_tick = FALSE /\ manual_fire = FALSE
    /\ sinceFire = DEBOUNCE /\ elapsed = 0 /\ debounced = FALSE /\ idled = FALSE
    /\ failing = << >> /\ alerted = FALSE /\ fifo = "free"
    /\ cleared = FALSE /\ unread = << >> /\ pending = FALSE /\ pendingBefore = FALSE
    /\ silence = 0 /\ latched = FALSE /\ pane = TRUE /\ bot = "up"
    /\ stale = FALSE /\ holds = 0 /\ late = FALSE

WatchNext ==
    \/ Loop \/ Elapse \/ Signal \/ PaneMoves \/ BotDies \/ BotReturns
    \/ \E kind \in LineKind : Writes(kind)

WatchSpec == WatchInit /\ [][WatchNext]_watchVars

-----------------------------------------------------------------------------
Line == [kind : LineKind, stale : BOOLEAN]

WatchTypeOK ==
    /\ stage \in {"sleep", "manual", "scan", "turns", "idle", "end", "resolve", "warning", "inject",
                  "announce", "escalate", "reassure", "scrub"}
    /\ reason \in {"manual", "refusal", "aup", "turns", "idle"}
    /\ left \in 0 .. 1 /\ chunk \in Seq(Line) /\ unread \in Seq(Line)
    /\ turns_since_clear \in 0 .. MAX_TURNS /\ sinceFire \in 0 .. DEBOUNCE /\ elapsed \in 0 .. DEBOUNCE
    /\ {attached, fired_this_tick, manual_fire, debounced, idled, cleared, pending, pendingBefore,
        latched, pane, alerted, stale} \subseteq BOOLEAN
    /\ failing \in {<< >>} \cup {<<n>> : n \in 0 .. RESOLVE_ALERT}
    /\ alerted => failing # << >>
    /\ fifo \in {"free", "waits", "orphan"} /\ (fifo # "free" => Saying)
    /\ silence \in 0 .. IDLE /\ bot \in {"up", "down"}
    /\ holds \in 0 .. DEBOUNCE /\ late \in BOOLEAN

Lands == stage = "inject" /\ pane /\ stage' # "inject"

(* "Back-to-back clears never stack": whatever triggered the last clear,   *)
(* SIGUSR1 included, the next automatic one comes DEBOUNCE_SEC later, less *)
(* what the last one's tick had slept before it landed: its warning, and   *)
(* those of the clears that failed before it in the same tick.             *)
Spaced == reason # "manual" => holds = 0

(* A refusal clears the session that refused: lines the old session wrote  *)
(* before a clear, or during its warning, and that are read after it, never*)
(* make the watchdog clear the new one; unless clears had failed, each     *)
(* after its warning, earlier in the last one's tick.                      *)
NotStale == reason \in {"refusal", "aup"} => ~stale \/ late

(* A /clear that lands is due: neither too soon nor for a session cleared  *)
(* already.                                                                *)
ClearsAreDue == [][Lands => Spaced /\ NotStale]_watchVars

(* A latched session is cleared in the end, though a debounced match throws*)
(* away what was read with it: every later turn refuses again.  (Unless the*)
(* pane is gone, or the watchdog waits for the bot's FIFO: SayReturns.)    *)
LatchEnds == []<>(~latched \/ ~pane \/ fifo # "free")

(* "It never clears mid-tool-call": a routine clear lands in a session that*)
(* waits for no tool.                                                      *)
NeverMidToolCall == [][Lands /\ reason \in {"turns", "idle"} => ~pending]_watchVars

(* send_fifo_say is "best effort, never raises": the watchdog comes back   *)
(* from it and polls on, bot or no bot.                                    *)
SayReturns == []<>~Saying
=============================================================================
