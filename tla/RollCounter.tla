---------------------------- MODULE RollCounter ----------------------------
(***************************************************************************)
(* roll_counter.py as a daemon, which it no longer runs as: what it counts *)
(* of bot.log, and when it says it was.  It starts from rolls.json, or     *)
(* reads the whole log (`backfill`, which dates the lines, stamped without *)
(* a date, from the file's mtime and the stamps that go back), then follows*)
(* it with tail.  Meanwhile the bot's threads stamp and write, each on its *)
(* own, and the clock of their stamps goes back once; and the daemon may be*)
(* killed anywhere.  A stamp stands for a part of a day, DAY of them for   *)
(* the day; what a line scores is left out.                                *)
(***************************************************************************)
EXTENDS Integers, Sequences, SequencesExt, FiniteSets

CONSTANTS
    DAY,         \* stamps in a day
    Fold, Back,  \* the summer time ends: when, and by how much the clock goes back
    MaxTime,     \* bound: the time
    MaxLate,     \* bound: how long a line that is stamped waits to be written
    MaxLog,      \* bound: lines of the log
    MaxKills     \* bound: kills, and edits of rolls.json

ASSUME RollAssumption ==
    /\ DAY \in Nat \ {0} /\ {Fold, Back, MaxTime, MaxLate, MaxLog, MaxKills} \subseteq Nat
    /\ Back <= Fold

VARIABLES
    time,      \* the time, which never goes back
    log,       \* bot.log: when each line was stamped, and whether it scores
    mtime,     \* when bot.log was last written
    rolls,     \* rolls.json
    data,      \* the daemon's copy
    doing,     \* the daemon: "down", "backfills", "counted", "starts-tail", "tails", "saves"
    anchor,    \* backfill: mtime_date, then start_date
    pos,       \* the last line tail has printed
    slipped,   \* history: whether mtime_date was not the date of the last line counted
    kills

rollVars == <<time, log, mtime, rolls, data, doing, anchor, pos, slipped, kills>>

empty == [backfilled |-> FALSE, events |-> << >>]

\* _now(): Europe/Rome's clock.
Wall(t) == IF t < Fold THEN t ELSE t - Back

WallOf(i) == Wall(log[i].at)
Stamp(i) == WallOf(i) % DAY
DateOf(i) == WallOf(i) \div DAY

\* Mutant: the same stamp twice is taken for a midnight.
RolloversAndTies(n) == Cardinality({i \in 2 .. n : Stamp(i) <= Stamp(i - 1)})

\* Stamps that go back, up to line n: taken for midnights.
Rollovers(n) == Cardinality({i \in 2 .. n : Stamp(i) < Stamp(i - 1)})

\* Line i is stamped after the line before it, within a day, by the clock of the stamps.
InStep(i) == WallOf(i - 1) <= WallOf(i) /\ WallOf(i) - WallOf(i - 1) < DAY

\* process: a line that scores is counted, with its time.
Scored(i, ts, by) == IF log[i].scores THEN <<[line |-> i, ts |-> ts, by |-> by]>> ELSE << >>
Process(d, i, ts, by) == [d EXCEPT !.events = @ \o Scored(i, ts, by)]

-----------------------------------------------------------------------------
\* Mutant: what is there already is kept.
StartsOver ==
    /\ doing = "down"
    /\ data' = rolls
    /\ IF rolls.backfilled THEN doing' = "starts-tail" /\ UNCHANGED anchor
       ELSE doing' = "backfills" /\ anchor' = Wall(mtime) \div DAY
    /\ UNCHANGED <<time, log, mtime, rolls, pos, slipped, kills>>

\* load(), and the mtime of the log for a backfill.
Starts ==
    /\ doing = "down"
    /\ IF rolls.backfilled THEN data' = rolls /\ doing' = "starts-tail" /\ UNCHANGED anchor
       ELSE /\ data' = empty /\ doing' = "backfills"
            /\ anchor' = Wall(mtime) \div DAY
    /\ UNCHANGED <<time, log, mtime, rolls, pos, slipped, kills>>

\* First pass: back to the date of the first line.
CountRollovers ==
    /\ doing = "backfills"
    /\ doing' = "counted"
    /\ anchor' = anchor - Rollovers(Len(log))
    /\ slipped' = (log # << >> /\ anchor # DateOf(Len(log)))
    /\ UNCHANGED <<time, log, mtime, rolls, data, pos, kills>>

\* Second pass, and save().
Backfill ==
    /\ doing = "counted"
    /\ doing' = "starts-tail"
    /\ LET dated(i) == (anchor + Rollovers(i)) * DAY + Stamp(i)
       IN data' = [backfilled |-> TRUE,
                   events |-> data.events \o FlattenSeq([i \in DOMAIN log |-> Scored(i, dated(i), "backfill")])]
    /\ rolls' = data'
    /\ UNCHANGED <<time, log, mtime, anchor, pos, slipped, kills>>

\* Mutant: from a line further.
StartTailPastEnd ==
    /\ doing = "starts-tail"
    /\ doing' = "tails"
    /\ pos' = Len(log) + 1
    /\ UNCHANGED <<time, log, mtime, rolls, data, anchor, slipped, kills>>

\* tail -F -n 0: from the end, wherever that is by now.
StartTail ==
    /\ doing = "starts-tail"
    /\ doing' = "tails"
    /\ pos' = Len(log)
    /\ UNCHANGED <<time, log, mtime, rolls, data, anchor, slipped, kills>>

TailLine ==
    /\ doing = "tails" /\ pos < Len(log)
    /\ pos' = pos + 1
    /\ data' = Process(data, pos', time, "tail")
    /\ doing' = IF log[pos'].scores THEN "saves" ELSE "tails"
    /\ UNCHANGED <<time, log, mtime, rolls, anchor, slipped, kills>>

\* save(): through a temporary name, so rolls.json is the old one or the new.
Save ==
    /\ doing = "saves"
    /\ doing' = "tails"
    /\ rolls' = data
    /\ UNCHANGED <<time, log, mtime, data, anchor, pos, slipped, kills>>

-----------------------------------------------------------------------------
(* Around the daemon.                                                      *)

TimePasses ==
    /\ time < MaxTime
    /\ time' = time + 1
    /\ UNCHANGED <<log, mtime, rolls, data, doing, anchor, pos, slipped, kills>>

\* bot.py's log(): a thread takes the stamp, and writes the line when it comes to it,
\* with no lock.  Nobody else sees the stamp in between: it may be any of the last MaxLate.
BotLogs(at, scores) ==
    /\ Len(log) < MaxLog
    /\ log' = Append(log, [at |-> at, scores |-> scores])
    /\ mtime' = time
    /\ slipped' = \/ slipped
                  \/ doing = "counted" /\ (log = << >> \/ ~InStep(Len(log))')
    /\ UNCHANGED <<time, rolls, data, doing, anchor, pos, kills>>

Kill ==
    /\ doing # "down" /\ kills < MaxKills
    /\ kills' = kills + 1
    /\ doing' = "down" /\ data' = empty
    /\ UNCHANGED <<time, log, mtime, rolls, anchor, pos, slipped>>

\* "rebackfill (flip backfilled=False + restart service migrates history)".
Flip ==
    /\ doing = "down" /\ kills < MaxKills
    /\ kills' = kills + 1
    /\ rolls' = [rolls EXCEPT !.backfilled = FALSE]
    /\ UNCHANGED <<time, log, mtime, data, doing, anchor, pos, slipped>>

RollInit ==
    /\ time = 0 /\ log = << >> /\ mtime = 0
    /\ rolls = empty /\ data = empty
    /\ doing = "down" /\ anchor = 0 /\ pos = 0
    /\ slipped = FALSE /\ kills = 0

RollNext ==
    \/ Starts \/ CountRollovers \/ Backfill \/ StartTail \/ TailLine \/ Save
    \/ TimePasses \/ Kill \/ Flip
    \/ \E at \in {t \in 0 .. time : t + MaxLate >= time}, scores \in BOOLEAN : BotLogs(at, scores)

RollSpec == RollInit /\ [][RollNext]_rollVars

-----------------------------------------------------------------------------
RollTypeOK ==
    /\ {time, mtime} \subseteq 0 .. MaxTime /\ log \in Seq([at : 0 .. MaxTime, scores : BOOLEAN])
    /\ \A d \in {rolls, data} :
        d \in [backfilled : BOOLEAN,
              events : Seq([line : DOMAIN log, ts : Int, by : {"backfill", "tail"}])]
    /\ doing \in {"down", "backfills", "counted", "starts-tail", "tails", "saves"}
    /\ anchor \in Int /\ pos \in 0 .. Len(log)
    /\ slipped \in BOOLEAN /\ kills \in 0 .. MaxKills

(* A line is never counted twice, in the daemon or in rolls.json: not by   *)
(* the backfill and the tail, nor by a restart, nor by a new backfill.     *)
CountedOnce ==
    \A d \in {data, rolls} : \A i, j \in DOMAIN d.events :
        d.events[i].line = d.events[j].line => i = j

(* A line that tail brings is dated when it is read, never before its      *)
(* stamp.  One of the backfill is dated to the stamp's time, by the clock  *)
(* of the stamps, whatever the lines before it: if mtime_date was the date *)
(* of the last line counted, and no later line has a stamp that goes back  *)
(* without a midnight (two threads writing in the other order, the end of  *)
(* the summer time) or a day after the line before it.                     *)
TailedRight(e) == e.by = "tail" => e.ts >= log[e.line].at
BackfilledRight(e) ==
    (/\ e.by = "backfill" /\ ~slipped
     /\ \A i \in e.line + 1 .. Len(log) : InStep(i)) => e.ts = WallOf(e.line)

DatedRight == \A i \in DOMAIN data.events : TailedRight(data.events[i]) /\ BackfilledRight(data.events[i])

\* What backfill and tail count of bot.log: each line once, and dated right.
CountedRight == CountedOnce /\ DatedRight
=============================================================================
