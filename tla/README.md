# A verification of claude-ircbot in TLA+

`bot.py` puts an agent on IRC. What it must get right is not in any one
function: it decides whom to believe from answers that come later than the
lines they are about, gets its nick back from a ghost through services that
answer when they like, keeps itself in channels it is kicked out of, and keeps
the words of a reserved channel out of every other one, has a key vouch for
the lines of its operators, takes its commands from a named pipe, and hands out
files, from threads and processes that take turns as they please; a watchdog
beside it clears the agent's session, and a counter, no longer run as a daemon,
can follow its log. This directory models those parts, checks them with TLC on
small instances, and proves some of it with TLAPS for all instances.

Paths such as `bot.py:483` are relative to `src/`.

## The system

One process per IRC network. Its threads:

| thread | code | does |
|---|---|---|
| reader | `reader_loop`, `handle_server_line` | one server line at a time, in order; all the trust state is its own |
| writer | `writer_loop`, `run_cmd`, `process_cmd` | one command of the FIFO at a time |
| startup | `run_startup` | plays `bot.startup` once, a line each 0.5 s |
| convergence | `converge_loop` | every 120 s, replays the lines of the channels missing |
| reclaims | `_reclaim_after_ghost` | one thread per attempt, 4 s later |
| kick timers | `_rejoin` | 2 s after a kick, then 0.5 s |
| idle ticker | `idle_ticker_loop` | every 10 s, disarms the channels whose time has come, then says IDLE |
| E2E ticker | `e2e_ticker_loop` | every second, reloads the pins, ends what has expired |
| pacer | in `irc_olm` | writes what the bridge queued; `on_lost` when a write fails |
| DCC | `_dcc_serve` | one thread per offer |
| usage | `usage_reply` | one thread per answer |

They share globals of the module, some under a lock, and the connection
(`send_lock` keeps lines whole, nothing orders them). A read error, a
disconnection or a failed SASL ends the process; systemd starts another, which
remembers nothing but the files: the lists, the leak guard's store, the E2E
state. So a restart is a new behaviour of the models, from `Init`, with a ghost
of the last connection possibly on our nick.

### Components

| component | state | operations | what makes it hard | correct when | module |
|---|---|---|---|---|---|
| Layer-1 trust gate | `verified`, `whois_pending`, `dm_held`, the lists | `trust_check`, `dm_hold`, `dm_flush`, `trust_reset`; 001, 307/330, 318, PART/QUIT/NICK, INVITE, PRIVMSG | the nick changes hands between WHOIS, answer and reading; several WHOISes under way | trusted lines come from an identified holder; every parked message ends once, in order, none waits for nothing | `TrustGate` |
| Automatic reply | `dm_rejected` | `dm_reject_once` | the bounded table overflows inside a cooldown | bounded; a second reply needs a flood | `DmReject` |
| Registration | `registered`, `ghost_needed`, `ghost_tries`, `tmp_nick`, `me`, `startup_fired` | 001, CAP/AUTHENTICATE/90x, 433, NOTICE of NickServ, NICK, `_reclaim_after_ghost`, `fire_startup` | reclaims race GHOST; others take the nick; stale `ghost_needed` | started once, logged in, on our nick; `me` right; ends started, given up aloud, or exited | `Session` |
| Channel keeping | `joined`, `startup_done`, `kick_history`, timers, the convergence's snapshot | JOIN/PART/KICK echoes, `run_startup`, `converge_loop`, `_rejoin`, the FIFO | four kinds of threads send while echoes are on their way; no bot.startup at the start | `joined` is membership once all is read; configured channels are joined in the end | `Channels` |
| Leak guard | the store file, its temporary name, a lock per process | `record`, `_prune`, `check`, `outbound_ok` | threads and processes interleave file operations | nothing fresh leaves the store; no line that shares its words leaves | `LeakGuard` |
| E2E bridge | `_held`, `_reply_mode`, `_text`, pins | `gate_plaintext`, `on_e2e_line`, `dispatch`, `on_lost`, `tick`, `send_text` | ACK against expiry, pins reload, losses in the pacer | an order ends once, is trusted only by its key; a lost reply is reported once | `OrderGate` (inbound), `ReplyPath` (outbound) |
| Command pipe | the FIFO, its name | `writer_loop`, `bot.say` | EOF, reopening, restarts, bytes that do not decode | a message has no holes; who says comes back | `Fifo` |
| Reader loop | the buffer, the EAGAIN count | `reader_loop` | chunks end anywhere; a dead link can look alive | lines whole, once, in order; a dead link ends it | `ReaderLoop` |
| DCC SEND | ports, listeners, connections | `dcc_send`, `_dcc_bind`, `_dcc_serve`, `_dcc_drain` | unread ACKs reset; peers stall, leave, come late, or go on sending | a reader gets the whole of its own file; ports come back | `DccSend` |
| Session watchdog | offset, `turns_since_clear`, `last_fire`, `_manual_fire` | `main`'s four triggers, `fire_clear`, `send_fifo_say` | the session writes, and the bot restarts, while it warns, says and sleeps | clears are spaced and aimed at the session that refused; a latch ends; it never hangs | `Watchdog` |
| Idle tick | `idle_state` | `_arm_idle`, `idle_ticker_loop` | re-armed between disarm and event | one IDLE per silence, and no silence without | `IdleTick` |
| split_say | none | | boundaries of bytes, characters, spaces | chunks fit, lose nothing | `SplitSay` |
| Roll counter (a library now, retired as a daemon: `README.md:432`) | `rolls.json`, the daemon's copy | `daemon`, `backfill`, `process`, `save` | killed anywhere; a log without dates, written by threads that share no lock, that grows while it is read | a line counted once, dated right as far as the stamps allow | `RollCounter` |

Not modelled: the usage reply (an HTTP request on a thread of its own, whose
formatted answer is said), logging and masking (formatting), `traceroute.py` (run
by hand, one thread, no state: what it shows is the kernel's), what a line scores
in `roll_counter.py` and its read-only commands, `settings-add.sh`, the units.
`irc_olm`, which the bridge uses, is not in the repository.

### How they interact

`Session` ends with `fire_startup`, where `Channels` begins; both see the
throwaway nick, and `Channels` takes whether there was one as a parameter. The
reader feeds the leak guard's `record` before it looks at a line, and
`process_cmd` calls `outbound_ok` for every verb. `TrustGate` calls `DmReject`
(it EXTENDS it, since both are the reader's). With E2E on, the bridge's gate
runs before layer 1 for nicks with a pinned key (`OrderGate`), which `TrustGate`
leaves out: it is the bot with `BOT_E2E_KEY` unset. `OrderGate` in turn takes
any verdict of layer 1 for the nicks without a pin. Both gates promise the same
of a line, `LineFate`, and are shown to keep it.

What the agent has to say comes through `Fifo`, is let through by `LeakGuard`,
and leaves by `SplitSay` in clear or by `ReplyPath` encrypted; the reply mode
`ReplyPath` asks for is the one `OrderGate` turns (there a step of its own,
here a free change). `Watchdog` writes the same FIFO and has its own, coarser,
view of it: the bot up or down.

## The modules

### TrustGate (with DmReject)

Every action of `handle_server_line` is one line read by the reader, as a
whole: the verdict, the WHOIS it fires, the messages it parks or resolves, the
reply. `verified`, `whois_pending` and `dm_held` are the code's. The wire is
two FIFOs. At the other end the model keeps what the bot cannot see: who holds
a nick (a *tenure*, a number per taking of the nick), from which host, and
whether that tenure identified to services. A line carries its tenure along,
unseen by the bot's actions, so that a property can ask who really said what
was trusted. `events` records how each line ended.

The server answers a WHOIS in one burst, with 307 or 330 (a parameter) if the
holder is identified. Users connect, identify, speak, leave, change nick; a
nick of `InSight` always shares a channel with the bot, so that its moves are
always told, and for the others it is a choice.

`DmReject` alone keeps the order in which the table's entries were written and
the replies less than one cooldown old; time passes by the oldest reply
growing a cooldown old.

Kept out: CTCP (answered before the gate), a restart (the lists are read once),
services' LOGOUT, KICK (the code does not reset trust on it), and E2E.

### LineFate

What both gates promise of a line a user said, whatever its gate: it ends at
most once, after it was said; under a fate that vouches for its author only if
somebody did vouch; and that cannot be undone. `TrustGate` maps its events and
the tenures that identified to it, `OrderGate` the lines with the key that
vouched for them. `TrustGate` keeps `Ending` too: every line ends (`EveryLineEnds`). For
`OrderGate` that part is `HeldLinesEnd` (of `NothingHangs`), which excepts a pacer that died.

### Session

`profile` is the network of the process: IRC_SASL, whether there is a
password, whether the server knows CAP. It is chosen in `Init` and never
changes. The reader's handlers from the connection to STARTUP_FIRED, the reclaim
threads (`sleeping`: in their 4 s; `awake`: found `ghost_needed`, not sent
yet, so that the test and the send are two steps), and around them the server
(nicks, registration, CAP), services (a queue: GHOST and IDENTIFY take
effect later) and other users. The nick starts free, held by our ghost, or by
somebody. `startedAs` records the nick and login the server had for us when
the startup was fired. The wordings `identified`, `incorrect`... are reduced
to three: identified, refused, or neither. NickServ may refuse any IDENTIFY or
GHOST in the bot's words for it, which the bot tells (NS_IDENTIFY_FAIL) and then
waits; IDENTIFY answered on another nick than ours is a NOTICE that says neither.
`gaveUp` is that NS_IDENTIFY_FAIL or NS_GHOST_GIVEUP was told.

### Channels

`joined` against `members`, the server's truth, with commands and echoes on the
wire between them. The startup and convergence threads send a line per step;
the convergence's snapshot (`replay`) is taken in one step and played in
others. Timers are counts per channel. `bot.startup` may be missing when the
startup opens it (`startup_file`): the thread then ends without `startup_done`,
for which the convergence waits. It is otherwise reduced to an
INVITE by ChanServ and a JOIN per channel; ChanServ invites, or not, later. A
channel can be banned, the bot kicked, the file edited, the operator can JOIN
or PART by hand, and our nick may go from the throwaway to ours, after which a
stranger may take it up (`strangerSpoke` remembers that one was heard).

### LeakGuard

The file system itself: names, files, descriptors that outlive the name.
`record` is eight steps (open, append, size, and for a prune read, open the
temporary, write, replace), under a lock per process. `outbound_ok` is a check
that reads the whole store in one step, without the lock, then perhaps a
record, then the line leaves. Words are a relation on texts: what shares NGRAM
words is given, not computed. A line is compared with what was heard when the
check looks; what is heard after that, before it leaves, the code does not look
at and the property does not ask about. One reserved channel per instance; `PRUNE_BYTES`
counts lines.

### OrderGate

The bridge between its two threads. `lock` is the bridge's lock where it
matters: the ticker keeps it from the `stat` of the pins file to its reading
(`TickStat`, `TickRead`), and the operator may rewrite the file in between.
The reader's own steps are cut where it lets go of the lock: `hand` is a line
that `gate_plaintext` left to layer 1, or to `dm_flush`, with a reload possible
before what comes next; `flushing` is the queue `dm_flush` popped. `held` and
`outstanding` are the bridge's held lines and the engine's challenges, told
apart because a dead pacer can consume one and not release the other: at an
expiry too, when what the tick has to send raises before the line is released.
`reply_mode` is the code's, its hour being over or not.

A person stands for its key and is on some nick, or away; it speaks in plain
text (a message, an order that names the bot, chatter) or encrypted, and its
client answers a challenge only for a line its user sent. The engine is what
`e2e_bridge.py` and its tests say of it: an ACK counts once, from the key asked,
while the challenge is outstanding; a device that never wrote gets no
challenge; a key that is not pinned gets nothing. `gated` remembers which key
the nick had when its line was last gated, `last` how the last message trusted
came.

Kept out: what the bot sends (that is `ReplyPath`), and so the pacer beyond
dying; the name a line must carry changing with our own nick; the wording of
alarms and drops.

### ReplyPath

A text to one nick, from the FIFO to the pacer, on four threads. `command` is
the writer's: between `asks` and `sends` the bridge's lock is free, and the
reader or the ticker may turn the reply mode or the pin. `dispatching` is the
lock held from the pacer's answer (`submit`) to the end of `dispatch`: the pacer
may write or lose a text meanwhile, but `on_lost` waits. `recent` is the
bridge's `_text`, SENT_MAX long. The engine queues a text for keys that come,
with all that waited, or never do; a NACK sends a text again or reports it. The
pacer holds `Room` texts (`_room` counts them), and may die.

`told` counts the events that say a text is lost; `Overtaken` are the texts the
list had to forget while the pacer still held them. With the pacer dead, texts
that wait for keys vanish untold when the keys come (see Findings), so the
properties stop there.

### Fifo

The kernel's rendezvous: an open waits for the other side, EOF is the last
writer gone, a pipe nobody has open is freed with what is in it, a write nobody
can read kills. `writer` is `writer_loop`, its steps between system calls;
`at` is each run of `bot.say`. `inPipe` and `inHand` are lines in the kernel
and in the reader's buffer; `ReadChunk` takes all that is there, and dies on a
line that is not UTF-8 (`Garbled`) with what it had taken. `node` is what the
name is: between `os.remove` and `os.mkfifo` a shell's `>` makes a plain file.
A restart removes the FIFO under its waiters: they are `orphan`s.

### IdleTick

Times are ticks of the ticker, the random delay any in the range. `Look` is
what `idle_ticker_loop` does under `idle_lock`, `Announce` one `emit` after it,
the reader's `Human` in between. `answered` remembers which human line each
IDLE was about.

### SplitSay

A text as bytes, each its character and its place in it; `Cut` is the `rfind`
and the walk back to where a character begins, `Decode` the decoder that drops
what is incomplete, so that a wrong cut shows as lost bytes.

### DccSend

Offers, ports and peers. A port is taken by the listener only (with
SO_REUSEADDR, `bind` has a port that connections still use), so an offer gives
it back when it accepts or times out; a peer calls the port it was told, and
whoever listens there now accepts it. `flow` is what was sent, received and
acknowledged, by peers that send ACKs and peers that do not; `more` is
whatever else a peer has sent (`PeerTalks`), at any time and as often as it likes.
Closing with bytes unread, or a later byte, is a `reset`. The drain ends when
there is nothing to read and the peer has closed or been silent for a timeout,
which is each `recv`'s own. `slow` marks the offers that a timeout of
ours, or the peer's leaving, cut short.

### RollCounter

The daemon, which no unit of the repository runs any more. `log` holds when each
line was stamped; the daemon sees the stamp, a time of the wall clock modulo a
day. A thread of the bot takes its stamp and writes the line when it comes to
it, with no lock, up to `MaxLate` later, so lines may stand in another order than
their stamps; and the wall clock (`Wall`) goes back once by `Back`, at the end of
the summer time. `mtime` is the time of the last write. `backfill` is three
steps (the mtime, the first pass, the second with its save) and the tail another,
with the bot writing in between; the counts are one list of `events`.

A line is dated right as long as every line behind it is in step with the line
before it (`InStep`: not stamped earlier, nor a day later) and what was anchored
was the date of the last line counted. `slipped` is that it was not: the
mtime is of another day than the last stamp counted (the line waited past
midnight to be written, or lines came after the mtime was read), or
a line out of step was written between the two passes.

### ReaderLoop

A stream of letters, returns and newlines, given to `recv` in any chunks with
EAGAINs between. `LinesOf` is the reference: what is between newlines, without
the returns at its end, unless empty. What was handled and what is to come make
it up, and no line that has come waits for the next `recv`.

### Watchdog

`stage` is where the loop is: asleep, at one of the four triggers, or in
`fire_clear` (finding the pane, warning, /clear, the line said to the bot,
the prompt). The steps between two sleeps are apart, so that the session can
write, the pane vanish or SIGUSR1 arrive between any two. Times are ages in
units of the 15 s warning, that saturate, so the model needs no bound on time;
`debounced` and `idled` are what the tick's `now` says of them. A line of the
transcript is its kind. /clear makes the session's next line open a new
transcript, which is then the latest. `stale` marks the lines of a session
cleared since.

The bot is up or down here. A blocking open of its FIFO `waits` while it is down,
and is an `orphan` once it has come back and made another.

Kept out: lines typed into the pane by hand, a transcript resumed later (it
would be read again from its start), a line read half-written (neither half
parses), TAIL_SCAN, and the dedup of the log.

## The runs

Each finishes within three minutes with two workers. A run is a question
about whole components, so a component's invariants share one state space.
Machines that share no variable share a run: one variable, `machine`, chosen in
the initial state, says which of them moves, so that the state space is the sum
of theirs and not the product (`MCChannels`, `MCThreads`, `MCAsides`). The
"violation" runs check one thing that a comment, docstring or the README says
and the code does not do (see Findings).

| run | shows | bounds, and why they are enough |
|---|---|---|
| `gate_dms` | `TypeOK`, `HeldAwaitsWhois`, `AnswerUnderWay`, `EveryLineAccounted`, `IdentifiedDmNotLost`, `TrustedDmsInOrder` | three private messages, two tenures and one interference (a PART, a WHOIS by hand), `DM_HOLD_MAX` 2: the nick changes hands while messages are parked, two are parked and a third comes later or evicts the first |
| `gate_mixed` | `TrustedIsIdentified`, `StrangersStayOut`, `ImplementsLineFate`, `EveryLineEnds` | two lines of any kind (message, channel line, invitation) from a listed nick, one of bot.dmallow and a service; 330; the listed nick in bot.dmallow too |
| `session` | `TypeOK`, `StartedLoggedIn`, `StartedOnOurNick`, `MeIsServerNick`, `OneReclaimInFlight`, `SessionEnds` | NickServ, SASL, neither, and SASL on a server without CAP; services that refuse; the code's own GHOST_RECLAIM_MAX; two takings of nicks by others, two interventions of the operator |
| `channels` | both: `TypesOK`; `Channels`: `JoinedIsMembershipAlone`, `RejoinsBounded`, `Converges` | one channel (no step relates two of them), two kicks past a KICK_MAX of 1, two changes, a stranger on the throwaway nick, with a bot.startup at the start and without |
| | `LeakGuard`: `StoreKeepsWindow`, `WordsStayInside` | two instances, the reserved channel on one, as the bot.reserved shipped; its reader and writer both record and prune; three lines heard, past PRUNE_BYTES and past TTL |
| `threads` | all five: `TypesOK`, `NothingHangs`; `OrderGate`: `EveryLineOnce`, `ReplyFollowsTheLastDm`, `PinsFollowTheFile`, `ImplementsLineFate` | four events of users and operator, of which at most two lines, two edits, one encrypted message and one change of nick; two persons, two nicks, four pins files; `DM_HOLD_MAX` 1: a pin comes while a line is parked, two edits fall in one reload, a message, its line, an edit of the pins and a move meet one ACK |
| | `ReplyPath`: `LostIsToldOnce`, `EveryReplySettles` | three texts, a list of one msgid and a pacer of two: forgetting, a full pacer, and a text of each thread under way at once |
| | `Fifo`: `NoHolesInAMessage` | two runs of `bot.say` of two lines, one of them garbled, and a restart: each may meet the other's EOF and the restart at every step |
| | `IdleTick`: `OneIdlePerSilence` | two channels, three lines of humans in each, a range of two ticks to three |
| | `DccSend`: `ReadersGetTheirFile` | two offers on one port, a file of two blocks through a buffer of one: a peer may come after its own offer has timed out; peers with ACKs, without, and that go on sending; what a third offer adds is in the proof |
| `asides` | all five: `TypesOK` (with `DmReject`'s `TableBounded`), `LoopsGoOn`; `DmReject`: `SecondReplyOnlyAfterFlood` | five nicks and a table of four dropping two, so that overflow, eviction and a second reply all happen |
| | `Watchdog`: `ClearsAreDue` | two lines not yet looked at (a match and one behind it), the code's ratio of debounce to warning, an idle time of one unit and two turns |
| | `SplitSay`: `ChunksMakeTheText` | all texts of five characters of one, two and four bytes and spaces, with a MAX_BODY of four bytes |
| | `RollCounter`: `CountedRight` | a day of three stamps, the clock back by two of them at the first midnight, time up to five; two lines, each written at once or one stamp later, so that they stand in either order, across the midnight, the repeated hours and a silence of a day; two kills or forced backfills, each between any two steps; what longer logs add is in the proof |
| | `ReaderLoop`: `LinesArriveWhole` | all streams of five bytes, in all chunks, two EAGAINs |
### Fairness

- `handle_server_line`, weak: the reader is one thread that reads whenever a
  line is there.
- the server's and services' answers, weak: an assumption about the other side.
  Without it nothing the bot waits for need come, and nothing is promised.
- the startup thread, the timers and the reclaim threads, weak: each sleeps a
  fixed time and then runs.
- `TickStat`, `TickRead`, `TickExpires`, `GiveUpOnKeys`, weak: the E2E ticker
  runs every second, and an exception does not end it.
- the writer, `dispatch` once begun, the pacer while it lives and its `on_lost`,
  weak: threads that wait for a lock only, and nobody keeps the lock.
- `writer_loop` of `Fifo`, weak; sayers get none (an agent may be stopped).
- `idle_ticker_loop`, weak. Each DCC thread, weak: a wait ends by timeout, though a
  peer that goes on sending makes the waits endless (`OffersEnd` excepts it).
- `reader_loop` of `ReaderLoop`, weak, without the read errors and timeouts that
  would end it sooner.
- since one machine of `MCThreads` or `MCAsides` moves in a behaviour, one
  condition of theirs may serve a thread of each.
- `Converge`, strong: a tick comes every 120 s for as long as the process
  lives, so ticks also come while the server is ready for more commands (the
  guard on `MaxWire` is the model's).
- the watchdog's loop, weak, and the passing of time in its sleeps, strong: each
  sleep is short, but they add up. A latched session is still talked to, which
  is how a latch was met (`aup_watchdog.py:84`). The bot is started again by
  systemd.
- a throwaway nick, strong for each suffix: `random.randint(100, 999)` drawn
  again and again gives each number in the end. Without it a 433 could come
  back for ever on the same taken suffix. The model's few suffixes stand for
  nine hundred: others never hold all of them at once.

No fairness for users, operators, kicks, bans or time.

### Findings

Each is the counterexample of a violation run.

- `session_renamed`: somebody else's change of nick to ours passes for our
  reclaim; under SASL the startup then runs on the throwaway nick, and without
  SASL nothing starts and nothing is said. It takes a channel joined by hand
  before the startup: without one, `StartedOnOurNick` and `SessionEnds` hold.
- `channels_stranger`: `joined` follows whoever takes the throwaway nick next.
  Nobody having done so, `JoinedIsMembershipAlone` holds, and `Converges` holds
  all the same.
- `leak_two_writers`: with reserved channels on two networks, one instance's
  prune can lose what the other has just recorded.
- `watchdog_tools`: a routine clear lands in a tool call begun after the check,
  during the warning, which itself asks the session to write files.
- `fifo_lost`: lines that `bot.say` wrote, and returned from, between the EOF of
  another `bot.say` and the writer's next open are freed with the pipe. It needs
  no restart, only two runs of `bot.say` close to each other, and was also seen
  with the two loops run against each other on Linux (a few lines in a
  thousand).
- `watchdog_says`: a line said while the bot is down waits for a reader of a FIFO
  that the bot, back, has replaced: the watchdog hangs until it is restarted.
More disagreements met while modelling have no run of their own. A private
PRIVMSG of a service is blocked and answered (`bot.py:1159`), though the
docstring at `bot.py:395` says services never are. The convergence rejoins
within the window (`bot.py:283`) a channel that KICK_GIVEUP walked away from
(`bot.py:200`). Clears that fail after their warning make `now` old, so that the
window the next one leaves is shorter than the one `aup_watchdog.py:39` speaks of
(`ClearsAreDue` says by how much, in `Spaced` and `NotStale`). The reply table's eviction
breaks the "at most once per DM_REJECT_COOLDOWN per nick" of the docstring at
`bot.py:403` once 501 nicks are told within it;
`SecondReplyOnlyAfterFlood` is what does hold. On a server that does not know
CAP, SASL is never refused and 001 is taken for the login (`bot.py:930`):
`StartedLoggedIn` excepts that case (`NeverInClear`), and is false without
the exception. Every rejoin after a kick waits the same 2 s
(`bot.py:1090`), where `README.md:404` says exponential backoff.

From the modules of the threads: `_redacted` asks for the reply mode again
(`bot.py:1306`) after the command failed, so that a text meant for an encrypted
conversation that has turned plain is echoed. Once the pacer is dead, texts that
wait for keys vanish untold when the keys come (`ReplyPath`, `KeysCome`), where
`README.md:315` and its neighbours have each loss reported. `os.mkfifo`
(`bot.py:1275`) raises if a shell made a plain file of the name after
`os.remove`; the thread ends and the process goes on, deaf to commands. So does
a byte that is not UTF-8 in the FIFO (`bot.py:1279`), outside `run_cmd`'s try.
A `bot.say` that waits on a FIFO a restart removed never returns. IDLE may be
said just after a human's line (`bot.py:242`). A chunk cut after a space has
MAX_BODY + 1 bytes (`bot.py:562`), which "the last space before the limit"
(`bot.py:544`) does not suggest; nothing breaks at 401. "Every offer holds its
port for the whole transfer" (`bot.py:698`): it holds it until its peer is
accepted, and a peer that comes after its own offer's timeout is served
whatever file is offered there by then, as is then that offer's own peer by the
next one (`ReadersGetTheirFile` has the exception). Lines
logged between the backfill and the start of the tail are never counted
(`roll_counter.py:501`), and a midnight between the mtime, or the last stamp, and the
first pass misdates the whole backfill by a day (`DatedRight` has the exception).

Three more are the exceptions of properties that hold otherwise. A bot that finds no
`bot.startup` when its startup is fired never converges: `run_startup` returns
before `startup_done` (`bot.py:842`), for which `converge_loop` waits
(`bot.py:264`), so that a file written later is never looked at, where the
comment at `bot.py:206` has the JOIN lines "re-read every tick so an edit takes
effect live" (`Converges`). DCC_DRAIN_TIMEOUT is of each `recv` of the drain
(`bot.py:731`), so a peer that sends a byte now and then after the file keeps the
thread and the connection, where the comment at `bot.py:681` has it bound the
wait for the peer to close (`OffersEnd`). And two lines of the log that stand in
the other order than their stamps, because `log()` (`bot.py:507`) stamps and
writes without a lock, or stamps of the hour that comes twice in October
(`bot.py:133`), pass for a midnight (`roll_counter.py:281`): every earlier line
of that log is dated a day early, where the docstring at `roll_counter.py:260`
has a jump back in the stamps be a midnight (`DatedRight`). That daemon is retired.

## What is proved

With TLAPS, for any constants that fulfil the named assumptions of the modules:
`RejectAssumption` and `TrustAssumption` (types, `DM_HOLD_MAX` at least 1, at
most `RejectMax` entries dropped), `OrderAssumption` (types, a home nick is one
person's), `SessionAssumption` (types, a temporary nick to fall back on and one
more), `ChannelsAssumption` and `LeakAssumption` (types, finitely many channels
and instances), `IdleAssumption` (a range of delays of
at least one tick), `DccAssumption` (types, finitely many ports, a buffer of at
least a block), `FifoAssumption` (types, finitely many sayers), `ReplyAssumption`
(types, a list of at least one msgid, a pacer of at least one text),
`WatchAssumption` (types, a DEBOUNCE_SEC of more than three warnings), `RollAssumption` (types, a day
of at least one stamp, a clock that does not go back before its beginning). No theorem
depends on how large a bound is.

`TrustGateProofs`, about `DmReject`:

- `TableAlwaysBounded`. The invariant is inductive with the types: forgetting an
  entry keeps the others in place and apart, appending one that is not there
  keeps them apart, and an overflowing table of `RejectMax + 1` loses at least
  one.
- `SecondReplyNeedsAFlood`. Two more facts make it inductive: the table stands
  in the order of the last replies (who is behind a nick was answered after it),
  and who was thrown out within its cooldown has had `RejectMax + 1 -
  RejectEvict` others answered since: those that stood behind it, counted by an
  injection.

and about `TrustGate`:

- `TypeCorrect` and `HeldAlwaysAwaitsWhois` from one inductive invariant, their
  conjunction. A parked message's nick is awaited and unverified; the
  only actions that end the wait or verify a nick (307/330, 318, a reset) flush
  it in the same step, and the only one that parks finds the nick unverified
  and has `FireWhois` make it awaited. One lemma per action of the reader.
- `AnswerAlwaysUnderWay`: for a nick awaited, its WHOIS is in `toServer` or a
  318 of it in `toBot`. Reading the 318 ends the wait; the server's
  answering moves the one into the other; everything else only appends.

`TrustGateFateProofs`, on top of it, what becomes of each line said:

- `StrangersAlwaysStayOut`: what is parked under a nick came from it and from a
  listed host (`ParkedFits`), and the lists do not change.
- `TrustedAlwaysIdentified`. What the bot believes of a nick is about the tenure
  it has in sight, while the wire may hold replies about several: between two
  moves of a nick on the wire all that is said by it is one tenure's, and a 307
  or 330 among it means that this tenure identified (`InSightInv`).
- `IdentifiedDmNeverLost`: a 318 denies unless it comes right behind its 307 or
  330 (`EndsTellTheTruth`), and then those it drops had not identified
  (`TruthfulLines`).
- `EveryLineAlwaysAccounted` and `TrustedDmsAlwaysInOrder` from one invariant about
  the numbers of the lines (`PlacesInv`): each is on the wire, parked or among
  the events, once, and what is parked of a nick is older than what of it is on
  the wire and younger than what was trusted.
- `TrustGateImplementsLineFate`, from these together (`PromiseInv`): what the reader
  ends was said and had no event (`PlacesInv`), what it trusts is vouched for
  (`TrustedIsIdentified`), and an ended line stays vouched for, because no other
  record bears its number. No other step ends a line, or takes a line or a proof
  of identity away: it says a line, judges none, or stutters.

`SequenceFacts` has the lemmas about sequences that the proofs keep needing: how
often one meets a set, after an `Append` and after a `Tail` (the queues of
`OrderGate` and `Session`), and what `FlattenSeq` makes of a sequence of pieces
(its type, and that of one more piece, of two sequences, of one split around a
piece), for the texts, streams and logs of `AsidesProofs`. The latter is induction
over data. The library's induction theorems take an operator, which no prover here
can instantiate, so induction is stated of sets (`SetInduction`, `SeqSetInduction`:
a set with 0, and with n + 1 when with n, has every natural; likewise `<< >>` and
`Append`), and proved from the least natural outside; a proof by induction then
names the set of the values its fact holds of.

`OrderGateProofs`: `OrderGateTypeCorrect`, `RepliesFollowTheLastDm`,
`EveryLineAlwaysOnce` and `OrderGateImplementsLineFate`, the refinement of the
abstract specification (its safety; `LineFate`'s liveness is TLC's). One
invariant, `OrderInv`: the types and that every queue holds lines already said; each line
in one place, once; and each challenge out went to the key its nick had when the
line was last gated. The initial state maps to
`LineFate`'s, every action to one of its steps or to a stutter.

`SessionProofs`: `SessionTypeCorrect`, `AlwaysStartedLoggedIn`,
`AlwaysStartedOnOurNick`, `AlwaysMeIsServerNick` and `AlwaysOneReclaimInFlight`.
The types alone are not inductive: that a client whose nick changes has one
holds because the server tells a change only to who is welcomed (`Named`). The
invariant then says who holds our nick and what each line on the way says of it
(`NickInv`), how far the login has come for each of the server's lines
(`LoginInv`), what had happened when `bot.startup` ran (`Started`), and that a
reclaim is a thread, a line to the server or its 433, one of them (`OneOut`).

`ChannelsProofs`:

- `ChannelsTypeCorrect`, the types of the channels and their timers.
- `RejoinsAlwaysBounded`. The threads counted at once (rejoins and late joins)
  never exceed the kicks remembered, nor `KICK_MAX`; the number of kicks alone is
  no bound, a channel given up keeps being kicked (`TimersCounted`).
- `JoinedAlwaysMembership`. The last unread line of ours about a channel, or
  `joined` when there is none, says where we are (`Placed`), and each such line
  is one `_is_me` recognises, because our nick is the throwaway one only when
  the bot knows it (`Recognised`).
- `StoreAlwaysKeepsWindow` and `WordsAlwaysStayInside`, of `LeakGuard`, under
  `OneReserved`: one instance has a reserved channel, as in the repository's
  settings. With two the property is false (the run `leak_two_writers`). The
  invariant has at most one thread in the lock, the temporary file in use by it
  alone, and in what it rewrites all the fresh lines heard.

`ThreadsProofs`:

- `MessagesNeverHoled`. What has run, what the thread has in hand and what is in
  the pipe are one sequence, in which each line comes after just those its sayer
  said before; who may still write has written what is in it. Each loss (a
  garbled chunk, a pipe closed by both, a restart) cuts the end of it off, at a
  moment when no sayer is in the middle of a message that could go on.
- `LostAlwaysToldOnce`, of `ReplyPath`. While the pacer lives each text is in one
  place or told lost once (`Settled`), and a text in the pacer is in the list of
  msgids, or about to be noted there by the `dispatch` that holds the lock, or
  overtaken: its last msgid stands no further from the end of the list than the
  text from the end of what the pacer took (`Noted`). So the list forgets a text
  only after `SENT_MAX` later ones, and `on_lost` finds the others. It needs the
  lock: between `submit` and the noting, `on_lost` would find nothing.
- `OneIdleAlways`. What a channel has had and is still owed (said, in the
  ticker's hand, armed for) never exceeds the lines of humans; with the types
  this is inductive, and it is what bounds the number said.
- `ReadersAlwaysGetTheirFile`. The invariant says who visits whom
  (one offer per peer, from the accept on), that blocks are received after they
  are sent and all of them before the half-close, that a peer that left had it
  all unless slow or reset, and that a port has one listener, which is the offer
  its peers were told unless one of that port timed out. The least of the free
  ports is a free port because the naturals are well ordered. The proof found what
  two offers in TLC had not: the shift goes on from offer to offer, so the
  exception is about the port and not about the offer whose peer it was.
- `IdleTypeCorrect`, `DccTypeCorrect`, `FifoTypeCorrect` and `ReplyTypeCorrect`, from the
  same four invariants.

`AsidesProofs`, of four components that share nothing:

- `ClearsAlwaysDue`, an action property of `Watchdog`. The invariant (`DueInv`)
  follows the clock: from a clear that landed to the end of its tick, and then from
  `last_fire`, what is left of its DEBOUNCE_SEC is at most what the debounce still
  counts; an automatic clear under way was not debounced, so `last_fire` is
  DEBOUNCE_SEC old. And it follows the lines: what a clear made stale is read within
  three units of it (`UnreadSoon`), while every match is debounced, because
  DEBOUNCE_SEC is more than that (`WatchAssumption`). `WatchTypeCorrect` adds the types,
  and what relates them: the operator is alerted only while no pane is found
  (`Alarm`), the FIFO waited for only where the loop has something to say (`Waiting`).
- `ChunksAlwaysMakeTheText`, of `SplitSay`, for a text of any length. What is left
  to send, at each pass, is the bytes of whole characters (`Encoded`): `Cut` stops
  after a space or before the first byte of a character, and the limit is at least
  the four bytes of one, so that a cut splits whole characters from whole characters
  (`CutsBetween`, `EncodedCut`). So `Decode` drops nothing of a chunk (`DecodesAll`),
  and the chunks and what is left are the text.
- `LinesAlwaysArriveWhole`, of `ReaderLoop`, for a stream of any length cut in any
  way. It is inductive with the types, because the lines of a stream are its first
  and then those behind its first newline (`LinesFirst`), whatever is still to come.
- `AlwaysCountedRight`, of `RollCounter`, for a log of any length, from two theorems.
  `AlwaysCountedOnce`: what is counted was counted once (`Once`), of lines up to
  where tail has read, and a daemon that is to backfill starts with nothing
  counted (`RollInv`). `AlwaysDatedRight`: as many stamps run backwards from a
  line to the end as midnights were crossed, if every line on the way is in step (`Steady`, `RolloversAreDays`: by induction from the end of the log,
  a step of it being `OneMoreDay`). So with `anchor` the date of the last line,
  less all the rollovers, each steady line's date comes out right (`Anchored`);
  and a line that the bot appends between the passes, in step with the last,
  leaves that as it was.
- `SplitTypeCorrect`, `ReaderTypeCorrect` and `RollTypeCorrect` are parts of the same
  invariants.

Checked by TLC only: liveness (`EveryLineEnds`, `SessionEnds`, `Converges`,
`NothingHangs`, `PinsFollowTheFile`, `EveryReplySettles`, `LoopsGoOn`), since the
provers have neither fairness nor ENABLED; and that `MCAsides`, `MCChannels` and
`MCThreads` put their components' types together as `TypesOK`, each conjunct of
which is one of the theorems above.

## Plan

Modules left: a composition of `Session` and `Channels`, the startup fired as it
is, on the nick it is; our own nick and mask in the bridge (`on_own_nick`,
`on_isupport`), which change the name an order must carry.
