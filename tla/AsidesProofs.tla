---------------------------- MODULE AsidesProofs ----------------------------
(***************************************************************************)
(* Proofs about the machines that stand aside: Watchdog, whatever its      *)
(* delays and limits; SplitSay, RollCounter and ReaderLoop, whatever the   *)
(* text, the log and the stream, of any length.                            *)
(***************************************************************************)
EXTENDS Watchdog, SplitSay, RollCounter, ReaderLoop, SequenceFacts

-----------------------------------------------------------------------------
(* Watchdog.  The clears that land are due.                                *)

Firing == {"resolve", "escalate", "reassure", "warning", "inject"}
Landed == {"announce", "scrub"}
Stage == Firing \cup Landed \cup {"sleep", "manual", "scan", "turns", "idle", "end"}
HasStale(lines) == \E i \in DOMAIN lines : lines[i].stale

\* The clock: what holds is at most what the debounce counts, from the tick's
\* `now` once a clear has landed.
Counted ==
    /\ left > 0 => stage \in {"sleep", "warning", "scrub"}
    /\ IF stage \in Landed THEN holds + elapsed <= DEBOUNCE ELSE holds + sinceFire <= DEBOUNCE
    /\ stage # "sleep" /\ ~debounced => sinceFire = DEBOUNCE

\* An automatic clear under way was not debounced, nor for a stale line.
Justified ==
    stage \in Firing =>
        /\ reason # "manual" => ~debounced
        /\ reason \in {"refusal", "aup"} => ~stale \/ late

\* A stale line of the transcript is read within three units of the clear.
UnreadSoon ==
    \/ stage = "announce" /\ elapsed <= 1
    \/ stage = "scrub" /\ elapsed + left <= 2
    \/ stage \in {"scan", "turns", "idle", "end"} /\ debounced /\ sinceFire <= 2
    \/ stage = "sleep" /\ sinceFire + left <= 3

Stales ==
    /\ DOMAIN chunk # {} => stage \in {"manual", "scan"} \/ (stage \in Firing \cup Landed /\ reason = "manual")
    /\ ~late /\ HasStale(chunk) => debounced \/ stage \in Landed
    /\ ~late /\ HasStale(unread) => UnreadSoon

WatchTypes ==
    /\ stage \in Stage
    /\ reason \in {"manual", "refusal", "aup", "turns", "idle"}
    /\ left \in 0 .. 1 /\ chunk \in Seq(Line) /\ unread \in Seq(Line)
    /\ sinceFire \in 0 .. DEBOUNCE /\ elapsed \in 0 .. DEBOUNCE /\ holds \in 0 .. DEBOUNCE
    /\ debounced \in BOOLEAN /\ late \in BOOLEAN /\ stale \in BOOLEAN

DueInv == WatchTypes /\ Counted /\ Justified /\ Stales

\* A clear makes all that is unread stale, and moves nothing.
LEMMA OutdatedLines ==
    ASSUME NEW lines \in Seq(Line)
    PROVE  Outdated(lines) \in Seq(Line) /\ DOMAIN Outdated(lines) = DOMAIN lines
<1>1. \A i \in 1 .. Len(lines) : [lines[i] EXCEPT !.stale = TRUE] \in Line
  <2>1. \A line \in Line : [line EXCEPT !.stale = TRUE] \in Line
    BY DEF Line
  <2>2. \A i \in 1 .. Len(lines) : lines[i] \in Line
    OBVIOUS
  <2>3. QED
    BY <2>1, <2>2
<1>2. Len(lines) \in Nat /\ DOMAIN lines = 1 .. Len(lines)
  OBVIOUS
<1>3. Outdated(lines) = [i \in 1 .. Len(lines) |-> [lines[i] EXCEPT !.stale = TRUE]]
  BY <1>2 DEF Outdated
<1>4. Outdated(lines) \in Seq(Line)
  BY <1>1, <1>2, <1>3, IsASeq
<1>5. QED
  BY <1>2, <1>3, <1>4

\* What the session writes is not stale.
LEMMA StaleAppend ==
    ASSUME NEW lines \in Seq(Line), NEW line \in Line, ~line.stale
    PROVE  HasStale(Append(lines, line)) => HasStale(lines)
<1>1. /\ Len(lines) \in Nat /\ DOMAIN lines = 1 .. Len(lines)
      /\ DOMAIN Append(lines, line) = 1 .. Len(lines) + 1
      /\ \A i \in 1 .. Len(lines) : Append(lines, line)[i] = lines[i]
      /\ Append(lines, line)[Len(lines) + 1] = line
  OBVIOUS
<1>2. \A i \in 1 .. Len(lines) + 1 : i \in 1 .. Len(lines) \/ i = Len(lines) + 1
  BY <1>1
<1>3. QED
  BY <1>1, <1>2 DEF HasStale

LEMMA StaleNone == DOMAIN << >> = {} /\ ~HasStale(<< >>) /\ << >> \in Seq(Line)
<1>1. DOMAIN << >> = {}
  OBVIOUS
<1>2. QED
  BY <1>1 DEF HasStale

LEMMA DueInvInit == WatchInit => DueInv
<1> SUFFICES ASSUME WatchInit PROVE DueInv
  OBVIOUS
<1>1. /\ stage = "sleep" /\ reason = "manual" /\ left = 1 /\ chunk = << >> /\ unread = << >>
      /\ sinceFire = DEBOUNCE /\ elapsed = 0 /\ holds = 0
      /\ debounced = FALSE /\ late = FALSE /\ stale = FALSE /\ DEBOUNCE \in Nat
  BY WatchAssumption DEF WatchInit
<1>2. WatchTypes
  <2>1. FALSE \in BOOLEAN
    OBVIOUS
  <2>2. debounced \in BOOLEAN /\ late \in BOOLEAN /\ stale \in BOOLEAN
    BY <1>1, <2>1, Zenon
  <2>3. sinceFire \in 0 .. DEBOUNCE /\ elapsed \in 0 .. DEBOUNCE /\ holds \in 0 .. DEBOUNCE /\ left \in 0 .. 1
    BY <1>1
  <2>4. chunk \in Seq(Line) /\ unread \in Seq(Line)
    BY <1>1, StaleNone
  <2>5. QED
    BY <1>1, <2>2, <2>3, <2>4 DEF WatchTypes, Stage
<1>3. Counted /\ Justified
  BY <1>1 DEF Counted, Justified, Firing, Landed
<1>4. Stales
  BY <1>1, StaleNone DEF Stales
<1>5. QED
  BY <1>2, <1>3, <1>4 DEF DueInv

LEMMA DueInvLoop == DueInv /\ (Poll \/ Manual \/ Turns \/ Idle \/ EndTick) => DueInv'
<1> SUFFICES ASSUME DueInv PROVE Poll \/ Manual \/ Turns \/ Idle \/ EndTick => DueInv'
  OBVIOUS
<1> USE WatchAssumption DEF DueInv, Stage, Firing, Landed
<1>1. ASSUME Poll PROVE DueInv'
  <2>1. /\ stage = "sleep" /\ stage' = "manual" /\ left' = 0 /\ chunk' = unread /\ unread' = << >>
        /\ debounced' \in BOOLEAN /\ (debounced' <=> sinceFire < DEBOUNCE)
        /\ UNCHANGED <<reason, elapsed, sinceFire, stale, holds, late>>
    <3>1. debounced' = (sinceFire < DEBOUNCE)
      BY <1>1 DEF Poll
    <3>2. (sinceFire < DEBOUNCE) \in BOOLEAN
      OBVIOUS
    <3>3. debounced' \in BOOLEAN /\ (debounced' <=> sinceFire < DEBOUNCE)
      BY <3>1, <3>2, Zenon
    <3>4. QED
      BY <1>1, <3>3 DEF Poll, To, clearVars
  <2>2. WatchTypes'
    BY <2>1, StaleNone DEF WatchTypes
  <2>3. Counted'
    BY <2>1 DEF WatchTypes, Counted
  <2>4. Justified'
    BY <2>1 DEF Justified
  <2>5. Stales'
    <3>1. ~HasStale(unread') /\ (HasStale(chunk') => HasStale(unread))
      BY <2>1, StaleNone DEF HasStale
    <3>2. ~late /\ HasStale(unread) => debounced'
      BY <2>1 DEF WatchTypes, Stales, UnreadSoon
    <3>3. HasStale(chunk)' = HasStale(chunk') /\ HasStale(unread)' = HasStale(unread')
      BY DEF HasStale
    <3>4. QED
      BY <2>1, <3>1, <3>2, <3>3 DEF Stales
  <2>6. QED
    BY <2>2, <2>3, <2>4, <2>5
<1>2. ASSUME Manual PROVE DueInv'
  <2>1. /\ stage = "manual" /\ left' = 0
        /\ \/ stage' = "resolve" /\ reason' = "manual"
           \/ stage' = "scan" /\ reason' = reason
        /\ UNCHANGED <<chunk, unread, debounced, elapsed, sinceFire, stale, holds, late>>
    BY <1>2 DEF Manual, To, Fire, tickVars, sessionVars, clearVars
  <2>2. WatchTypes'
    BY <2>1 DEF WatchTypes
  <2>3. Counted' /\ Justified'
    BY <2>1 DEF WatchTypes, Counted, Justified
  <2>4. Stales'
    BY <2>1 DEF Stales, UnreadSoon, HasStale
  <2>5. QED
    BY <2>2, <2>3, <2>4
<1>3. ASSUME Turns \/ Idle PROVE DueInv'
  <2>1. /\ stage \in {"turns", "idle"} /\ left' = 0
        /\ \/ stage' = "resolve" /\ reason' \in {"turns", "idle"} /\ ~debounced
           \/ stage' \in {"idle", "end"} /\ reason' = reason
        /\ UNCHANGED <<chunk, unread, debounced, elapsed, sinceFire, stale, holds, late>>
    BY <1>3 DEF Turns, Idle, To, Fire, tickVars, sessionVars, clearVars
  <2>2. WatchTypes'
    BY <2>1 DEF WatchTypes
  <2>3. Counted' /\ Justified'
    BY <2>1 DEF WatchTypes, Counted, Justified
  <2>4. Stales'
    BY <2>1 DEF Stales, UnreadSoon, HasStale
  <2>5. QED
    BY <2>2, <2>3, <2>4
<1>4. ASSUME EndTick PROVE DueInv'
  <2>1. /\ stage = "end" /\ stage' = "sleep" /\ left' = 1 /\ reason' = "manual" /\ elapsed' = 0
        /\ debounced' = FALSE /\ stale' = FALSE
        /\ UNCHANGED <<chunk, unread, sinceFire, holds, late>>
    BY <1>4 DEF EndTick, To, clearVars
  <2>2. WatchTypes'
    <3>1. FALSE \in BOOLEAN
      OBVIOUS
    <3>2. debounced' \in BOOLEAN /\ stale' \in BOOLEAN
      BY <2>1, <3>1, Zenon
    <3>3. left' \in 0 .. 1 /\ elapsed' \in 0 .. DEBOUNCE
      BY <2>1
    <3>4. late' \in BOOLEAN
      BY <2>1, Zenon DEF WatchTypes
    <3>5. QED
      BY <2>1, <3>2, <3>3, <3>4 DEF WatchTypes
  <2>3. Counted' /\ Justified'
    BY <2>1 DEF WatchTypes, Counted, Justified
  <2>4. Stales'
    BY <2>1 DEF Stales, UnreadSoon, HasStale, WatchTypes
  <2>5. QED
    BY <2>2, <2>3, <2>4
<1>5. QED
  BY <1>1, <1>2, <1>3, <1>4

LEMMA DueInvScan == DueInv /\ Scan => DueInv'
<1> SUFFICES ASSUME DueInv, Scan PROVE DueInv'
  OBVIOUS
<1> USE WatchAssumption DEF DueInv, Stage, Firing, Landed
<1> DEFINE stops == {i \in DOMAIN chunk : Matches(chunk[i])}
           first == CHOOSE i \in stops : \A j \in stops : i <= j
<1>1. /\ stage = "scan" /\ left' = 0 /\ chunk' = << >>
      /\ \/ stage' = "turns" /\ reason' = reason /\ stale' = stale
         \/ /\ stops # {} /\ ~debounced /\ stage' = "resolve"
            /\ reason' = chunk[first].kind /\ stale' = chunk[first].stale
      /\ UNCHANGED <<unread, debounced, elapsed, sinceFire, holds, late>>
  BY DEF Scan, To, Fire, tickVars, sessionVars, clearVars
<1>2. ASSUME stops # {}
      PROVE  first \in DOMAIN chunk /\ chunk[first].kind \in {"refusal", "aup"} /\ chunk[first].stale \in BOOLEAN
  <2>1. chunk \in Seq(Line)
    BY DEF WatchTypes
  <2>2. DOMAIN chunk \subseteq Nat
    BY <2>1
  <2>3. stops \in SUBSET Nat
    BY <2>2
  <2>4. \E m \in stops : \A n \in stops : m <= n
    BY <1>2, <2>3, Least
  <2>5. first \in stops
    BY <2>4
  <2>6. first \in DOMAIN chunk /\ Matches(chunk[first])
    BY <2>5
  <2> HIDE DEF first, stops
  <2>7. chunk[first] \in Line
    BY <2>1, <2>6
  <2>8. QED
    BY <2>6, <2>7 DEF Matches, Line
<1> HIDE DEF first, stops
<1>3. WatchTypes'
  BY <1>1, <1>2, StaleNone DEF WatchTypes
<1>4. Counted'
  BY <1>1 DEF WatchTypes, Counted
<1>5. ~debounced /\ stops # {} => ~chunk[first].stale \/ late
  BY <1>1, <1>2 DEF Stales, HasStale
<1>6. Justified'
  BY <1>1, <1>5 DEF Justified
<1>7. Stales'
  BY <1>1, StaleNone DEF Stales, UnreadSoon, HasStale
<1>8. QED
  BY <1>3, <1>4, <1>6, <1>7

LEMMA DueInvFire == DueInv /\ (Resolve \/ WarningEnds \/ Inject \/ SayWaits \/ Say \/ Fired) => DueInv'
<1> SUFFICES ASSUME DueInv PROVE Resolve \/ WarningEnds \/ Inject \/ SayWaits \/ Say \/ Fired => DueInv'
  OBVIOUS
<1> USE WatchAssumption DEF DueInv, Stage, Firing, Landed
<1>1. After \in {"scan", "turns", "idle", "end"} /\ (reason = "manual" => After = "scan")
  BY DEF After, WatchTypes
\* A step of fire_clear that leaves the clock and the lines alone.
<1>2. ASSUME stage \in Firing, UNCHANGED <<reason, chunk, unread, debounced, elapsed, sinceFire, stale, holds, late>>,
             \/ stage' = After /\ left' = 0
             \/ stage' \in Firing /\ left' \in 0 .. 1 /\ (left' = 1 => stage' = "warning")
      PROVE  DueInv'
  <2>1. WatchTypes'
    BY <1>1, <1>2 DEF WatchTypes
  <2>2. Counted' /\ Justified'
    BY <1>1, <1>2 DEF WatchTypes, Counted, Justified
  <2>3. Stales'
    BY <1>1, <1>2 DEF Stales, UnreadSoon, HasStale
  <2>4. QED
    BY <2>1, <2>2, <2>3
<1>3. ASSUME Resolve PROVE DueInv'
  <2>1. /\ stage = "resolve"
        /\ \E next \in {"reassure", Warned, "escalate", After} : To(next)
        /\ UNCHANGED <<reason, chunk, unread, debounced, elapsed, sinceFire, stale, holds, late>>
    BY <1>3 DEF Resolve, sessionVars, clearVars
  <2>2. QED
    BY <1>1, <1>2, <2>1 DEF To, Warned
<1>4. ASSUME WarningEnds PROVE DueInv'
  <2>1. /\ stage = "warning" /\ stage' = "inject" /\ left' = 0
        /\ UNCHANGED <<reason, chunk, unread, debounced, elapsed, sinceFire, stale, holds, late>>
    BY <1>4 DEF WarningEnds, To, fireVars, sessionVars, clearVars
  <2>2. QED
    BY <1>2, <2>1
<1>5. ASSUME Inject PROVE DueInv'
  <2>1. CASE pane
    <3>1. /\ stage = "inject"
          /\ \/ stage' = "announce" /\ left' = 0 /\ reason # "manual"
             \/ stage' = "scrub" /\ left' = 1
          /\ unread' = Outdated(unread) /\ chunk' = Outdated(chunk)
          /\ holds' = DEBOUNCE - elapsed
          /\ late' \in BOOLEAN /\ (late' <=> elapsed > 1)
          /\ UNCHANGED <<reason, debounced, elapsed, sinceFire, stale>>
      <4>1. late' = (elapsed > 1)
        BY <1>5, <2>1 DEF Inject
      <4>2. (elapsed > 1) \in BOOLEAN
        OBVIOUS
      <4>3. late' \in BOOLEAN /\ (late' <=> elapsed > 1)
        BY <4>1, <4>2, Zenon
      <4>4. QED
        BY <1>5, <2>1, <4>3 DEF Inject, To, fireVars
    <3>2. chunk' \in Seq(Line) /\ unread' \in Seq(Line) /\ DOMAIN chunk' = DOMAIN chunk
      BY <3>1, OutdatedLines DEF WatchTypes
    <3>3. WatchTypes'
      BY <3>1, <3>2 DEF WatchTypes
    <3>4. Counted' /\ Justified'
      BY <3>1 DEF WatchTypes, Counted, Justified
    <3>5. Stales'
      <4>1. DOMAIN chunk' # {} => stage \in {"manual", "scan"} \/ (stage \in Firing \cup Landed /\ reason = "manual")
        BY <3>1, <3>2 DEF Stales
      <4>2. DOMAIN chunk' # {} => stage' \in {"manual", "scan"} \/ (stage' \in Firing \cup Landed /\ reason' = "manual")
        BY <3>1, <4>1
      <4>3. stage' \in Landed
        BY <3>1
      <4>4. ~late' => elapsed' <= 1
        BY <3>1 DEF WatchTypes
      <4>5. ~late' => UnreadSoon'
        BY <3>1, <4>4 DEF WatchTypes, UnreadSoon
      <4>6. QED
        BY <4>2, <4>3, <4>5 DEF Stales
    <3>6. QED
      BY <3>3, <3>4, <3>5
  <2>2. CASE ~pane
    <3>1. /\ stage = "inject" /\ stage' = After /\ left' = IF After \in {"sleep", "warning", "scrub"} THEN 1 ELSE 0
          /\ UNCHANGED <<reason, chunk, unread, debounced, elapsed, sinceFire, stale, holds, late>>
      BY <1>5, <2>2 DEF Inject, To, fireVars, clearVars
    <3>2. QED
      BY <1>1, <1>2, <3>1
  <2>3. QED
    BY <2>1, <2>2
<1>6. ASSUME SayWaits PROVE DueInv'
  <2>1. UNCHANGED <<stage, left, reason, chunk, unread, debounced, elapsed, sinceFire, stale, holds, late>>
    BY <1>6 DEF SayWaits, loopVars, sessionVars, clearVars
  <2>2. QED
    BY <2>1 DEF WatchTypes, Counted, Justified, Stales, UnreadSoon, HasStale
<1>7. ASSUME Say PROVE DueInv'
  <2>1. /\ stage \in {"announce", "escalate", "reassure"}
        /\ To(CASE stage = "announce" -> "scrub"
                [] stage = "escalate" -> After
                [] stage = "reassure" -> Warned)
        /\ UNCHANGED <<reason, chunk, unread, debounced, elapsed, sinceFire, stale, holds, late>>
    BY <1>7 DEF Say, Saying, fireVars, sessionVars, clearVars
  <2>2. CASE stage = "announce"
    <3>1. stage' = "scrub" /\ left' = 1
      BY <2>1, <2>2 DEF To
    <3>2. WatchTypes'
      BY <2>1, <3>1 DEF WatchTypes
    <3>3. Counted' /\ Justified'
      BY <2>1, <2>2, <3>1 DEF WatchTypes, Counted, Justified
    <3>4. Stales'
      BY <2>1, <2>2, <3>1, SMTT(30) DEF WatchTypes, Stales, UnreadSoon, HasStale
    <3>5. QED
      BY <3>2, <3>3, <3>4
  <2>3. CASE stage = "escalate"
    BY <1>1, <1>2, <2>1, <2>3 DEF To
  <2>4. CASE stage = "reassure"
    BY <1>2, <2>1, <2>4 DEF To, Warned
  <2>5. QED
    BY <2>1, <2>2, <2>3, <2>4
<1>8. ASSUME Fired PROVE DueInv'
  <2>1. /\ stage = "scrub" /\ stage' = After /\ left' = 0 /\ sinceFire' = elapsed /\ debounced' = TRUE
        /\ UNCHANGED <<reason, chunk, unread, elapsed, stale, holds, late>>
    BY <1>1, <1>8 DEF Fired, To, sessionVars, clearVars
  <2>2. WatchTypes'
    BY <1>1, <2>1 DEF WatchTypes
  <2>3. Counted' /\ Justified'
    BY <1>1, <2>1 DEF WatchTypes, Counted, Justified
  <2>4. Stales'
    BY <1>1, <2>1 DEF WatchTypes, Stales, UnreadSoon, HasStale
  <2>5. QED
    BY <2>2, <2>3, <2>4
<1>9. QED
  BY <1>3, <1>4, <1>5, <1>6, <1>7, <1>8

LEMMA DueInvElapse == DueInv /\ Elapse => DueInv'
<1> SUFFICES ASSUME DueInv, Elapse PROVE DueInv'
  OBVIOUS
<1> USE WatchAssumption DEF DueInv, Stage, Firing, Landed
<1>1. /\ left > 0 /\ left' = left - 1
      /\ elapsed' = (IF stage = "sleep" THEN elapsed ELSE AtMost(elapsed + 1, DEBOUNCE))
      /\ sinceFire' = AtMost(sinceFire + 1, DEBOUNCE)
      /\ holds' = (IF holds = 0 THEN 0 ELSE holds - 1)
      /\ UNCHANGED <<stage, reason, chunk, unread, debounced, stale, late>>
  BY DEF Elapse
<1>2. stage \in {"sleep", "warning", "scrub"} /\ left = 1
  BY <1>1 DEF WatchTypes, Counted
<1>3. /\ elapsed' \in 0 .. DEBOUNCE /\ sinceFire' \in 0 .. DEBOUNCE /\ holds' \in 0 .. DEBOUNCE
      /\ elapsed' <= elapsed + 1 /\ sinceFire' <= sinceFire + 1
      /\ holds > 0 => holds' = holds - 1
      /\ holds = 0 => holds' = 0
      /\ sinceFire = DEBOUNCE => sinceFire' = DEBOUNCE
  BY <1>1 DEF WatchTypes, AtMost
<1>4. WatchTypes'
  BY <1>1, <1>2, <1>3 DEF WatchTypes
<1>5. Counted'
  BY <1>1, <1>2, <1>3 DEF WatchTypes, Counted
<1>6. Justified'
  BY <1>1 DEF Justified
<1>7. Stales'
  BY <1>1, <1>2, <1>3 DEF WatchTypes, Stales, UnreadSoon, HasStale
<1>8. QED
  BY <1>4, <1>5, <1>6, <1>7

LEMMA DueInvWrites == DueInv => \A kind \in LineKind : Writes(kind) => DueInv'
<1> SUFFICES ASSUME DueInv, NEW kind \in LineKind, Writes(kind) PROVE DueInv'
  OBVIOUS
<1> DEFINE line == [kind |-> kind, stale |-> FALSE]
<1>1. /\ unread' = <<line>> \/ unread' = Append(unread, line)
      /\ UNCHANGED <<stage, left, reason, chunk, debounced, elapsed, sinceFire, stale, holds, late>>
  BY DEF Writes, loopVars, clearVars
<1>2. line \in Line /\ ~line.stale
  BY DEF Line
<1>3. unread \in Seq(Line)
  BY DEF DueInv, WatchTypes
<1> HIDE DEF line
<1>4. unread' \in Seq(Line) /\ (HasStale(unread') => HasStale(unread))
  <2>1. CASE unread' = <<line>>
    <3>1. DOMAIN <<line>> = {1} /\ <<line>>[1] = line /\ <<line>> \in Seq(Line)
      BY <1>2
    <3>2. QED
      BY <1>2, <2>1, <3>1 DEF HasStale
  <2>2. CASE unread' = Append(unread, line)
    <3>1. HasStale(Append(unread, line)) => HasStale(unread)
      BY <1>2, <1>3, StaleAppend
    <3>2. Append(unread, line) \in Seq(Line)
      BY <1>2, <1>3
    <3>3. QED
      BY <2>2, <3>1, <3>2
  <2>3. QED
    BY <1>1, <2>1, <2>2
<1>5. WatchTypes' /\ Counted' /\ Justified'
  BY <1>1, <1>4 DEF DueInv, WatchTypes, Counted, Justified
<1>6. UnreadSoon' = UnreadSoon
  BY <1>1 DEF UnreadSoon
<1>7. HasStale(chunk)' = HasStale(chunk) /\ HasStale(unread)' = HasStale(unread')
  BY <1>1 DEF HasStale
<1>8. Stales'
  BY <1>1, <1>4, <1>6, <1>7 DEF DueInv, Stales
<1>9. QED
  BY <1>5, <1>8 DEF DueInv

\* Every step keeps the clock and the lines in order.
LEMMA DueInvStep == DueInv /\ [WatchNext]_watchVars => DueInv'
<1> SUFFICES ASSUME DueInv, [WatchNext]_watchVars PROVE DueInv'
  OBVIOUS
<1>1. CASE Loop
  BY <1>1, DueInvLoop, DueInvScan, DueInvFire DEF Loop
<1>2. CASE Elapse
  BY <1>2, DueInvElapse
<1>3. CASE \E kind \in LineKind : Writes(kind)
  BY <1>3, DueInvWrites
<1>4. CASE Signal \/ PaneMoves \/ BotDies \/ BotReturns \/ UNCHANGED watchVars
  <2>1. UNCHANGED <<stage, left, reason, chunk, unread, debounced, elapsed, sinceFire, stale, holds, late>>
    BY <1>4 DEF Signal, PaneMoves, BotDies, BotReturns, watchVars, loopVars, sessionVars, clearVars
  <2>2. QED
    BY <2>1 DEF DueInv, WatchTypes, Counted, Justified, Stales, UnreadSoon, HasStale
<1>5. QED
  BY <1>1, <1>2, <1>3, <1>4 DEF WatchNext

\* An automatic /clear that lands comes DEBOUNCE_SEC after the last one of any
\* kind, less what that one's tick had slept before it; and none lands for a line
\* an earlier clear has made stale, unless clears had failed in that one's tick.
THEOREM ClearsAlwaysDue == WatchSpec => ClearsAreDue
<1>1. WatchInit => DueInv
  BY DueInvInit
<1>2. DueInv /\ [WatchNext]_watchVars => DueInv'
  BY DueInvStep
<1>3. DueInv => [Lands => Spaced /\ NotStale]_watchVars
  <2> SUFFICES ASSUME DueInv, Lands PROVE Spaced /\ NotStale
    OBVIOUS
  <2>1. stage = "inject"
    BY DEF Lands
  <2>2. reason # "manual" => holds = 0
    BY <2>1 DEF DueInv, WatchTypes, Counted, Justified, Firing, Landed
  <2>3. QED
    BY <2>1, <2>2 DEF DueInv, Justified, Firing, Spaced, NotStale
<1>4. QED
  BY <1>1, <1>2, <1>3, PTL DEF WatchSpec, ClearsAreDue

-----------------------------------------------------------------------------
(* The types of the rest of the state.  They are three invariants: the     *)
(* counts, the alarm of the operator with its age, and the FIFO, which is  *)
(* waited for only where the loop has something to say.                    *)

Counts == turns_since_clear \in 0 .. MAX_TURNS /\ silence \in 0 .. IDLE

Flags ==
    /\ attached \in BOOLEAN /\ fired_this_tick \in BOOLEAN /\ manual_fire \in BOOLEAN
    /\ idled \in BOOLEAN /\ cleared \in BOOLEAN /\ pending \in BOOLEAN
    /\ pendingBefore \in BOOLEAN /\ latched \in BOOLEAN /\ pane \in BOOLEAN

Alarm ==
    /\ failing \in {<< >>} \cup {<<n>> : n \in 0 .. RESOLVE_ALERT}
    /\ alerted \in BOOLEAN /\ (alerted => failing # << >>)

Waiting == fifo \in {"free", "waits", "orphan"} /\ (fifo # "free" => Saying) /\ bot \in {"up", "down"}

\* What is looked at of a chunk is so many turns.
LEMMA ScanCounts == DueInv /\ Counts /\ Scan => Counts'
<1> SUFFICES ASSUME DueInv, Counts, Scan PROVE Counts'
  OBVIOUS
<1> DEFINE stops == {i \in DOMAIN chunk : Matches(chunk[i])}
           first == CHOOSE i \in stops : \A j \in stops : i <= j
           seen  == IF stops = {} THEN chunk ELSE SubSeq(chunk, 1, first)
           heard == {i \in DOMAIN seen : seen[i].kind # "result"}
<1>1. turns_since_clear' = AtMost(turns_since_clear + Cardinality(heard), MAX_TURNS)
      /\ silence' = silence
  BY DEF Scan, tickVars, sessionVars
<1>2. chunk \in Seq(Line)
  BY DEF DueInv, WatchTypes
<1>3. stops # {} => first \in stops
  <2>1. stops \in SUBSET Nat
    BY <1>2
  <2>2. stops # {} => \E m \in stops : \A n \in stops : m <= n
    BY <2>1, Least
  <2>3. QED
    BY <2>2
<1>4. seen \in Seq(Line)
  <2>1. CASE stops = {}
    BY <1>2, <2>1
  <2>2. CASE stops # {}
    <3>1. first \in 1 .. Len(chunk)
      BY <1>2, <1>3, <2>2
    <3> HIDE DEF first, stops
    <3>2. SubSeq(chunk, 1, first) \in Seq(Line)
      BY <1>2, <3>1, SubSeqProperties
    <3>3. QED
      BY <2>2, <3>2
  <2>3. QED
    BY <2>1, <2>2
<1> HIDE DEF seen
<1>5. IsFiniteSet(heard) /\ Cardinality(heard) \in Nat
  <2>1. DOMAIN seen = 1 .. Len(seen) /\ Len(seen) \in Nat
    BY <1>4
  <2>2. IsFiniteSet(1 .. Len(seen))
    BY <2>1, FS_Interval
  <2>3. heard \subseteq 1 .. Len(seen)
    BY <2>1
  <2>4. QED
    BY <2>2, <2>3, FS_Subset, FS_CardinalityType
<1> HIDE DEF heard
<1>6. QED
  BY <1>1, <1>5, WatchAssumption DEF Counts, AtMost

\* The ages and the turns stay within their bounds.
LEMMA CountsStep == DueInv /\ Counts /\ [WatchNext]_watchVars => Counts'
<1> SUFFICES ASSUME DueInv, Counts, [WatchNext]_watchVars PROVE Counts'
  OBVIOUS
<1>1. CASE Scan
  BY <1>1, ScanCounts
<1>2. ASSUME turns_since_clear' \in {0, turns_since_clear}, silence' \in {0, silence}
      PROVE  Counts'
  BY <1>2, WatchAssumption DEF Counts
<1>3. CASE Poll \/ Manual \/ Turns \/ Idle \/ EndTick
  BY <1>2, <1>3 DEF Poll, Manual, Turns, Idle, EndTick, tickVars, sessionVars
<1>4. CASE Resolve \/ WarningEnds \/ Inject \/ SayWaits \/ Say \/ Fired
  BY <1>2, <1>4 DEF Resolve, WarningEnds, Inject, SayWaits, Say, Fired, sessionVars, loopVars
<1>5. CASE Elapse
  <2>1. silence' = AtMost(silence + 1, IDLE) /\ turns_since_clear' = turns_since_clear
    BY <1>5 DEF Elapse
  <2>2. QED
    BY <2>1, WatchAssumption DEF Counts, AtMost
<1>6. CASE Signal \/ PaneMoves \/ BotDies \/ BotReturns \/ UNCHANGED watchVars
  BY <1>2, <1>6 DEF Signal, PaneMoves, BotDies, BotReturns, watchVars, loopVars, sessionVars
<1>7. CASE \E kind \in LineKind : Writes(kind)
  BY <1>2, <1>7 DEF Writes, loopVars
<1>8. QED
  BY <1>1, <1>3, <1>4, <1>5, <1>6, <1>7 DEF WatchNext, Loop

\* What is true or false stays so.
LEMMA FlagsStep == Flags /\ [WatchNext]_watchVars => Flags'
<1> SUFFICES ASSUME Flags, [WatchNext]_watchVars PROVE Flags'
  OBVIOUS
<1> USE DEF Flags
<1>1. CASE Poll
  <2>1. attached' = TRUE /\ pendingBefore' = FALSE /\ idled' = (silence >= IDLE)
        /\ UNCHANGED <<fired_this_tick, manual_fire, cleared, pending, latched, pane>>
    BY <1>1 DEF Poll
  <2>2. (silence >= IDLE) \in BOOLEAN
    OBVIOUS
  <2>3. QED
    BY <2>1, <2>2, Zenon
<1>2. CASE Manual \/ Scan \/ Turns \/ Idle
  <2>1. manual_fire' \in {manual_fire, FALSE}
        /\ UNCHANGED <<attached, fired_this_tick, idled, cleared, pending, pendingBefore, latched, pane>>
    BY <1>2 DEF Manual, Scan, Turns, Idle, tickVars, sessionVars
  <2>2. QED
    BY <2>1, Zenon
<1>3. CASE EndTick
  BY <1>3, Zenon DEF EndTick
<1>4. CASE Resolve \/ WarningEnds \/ SayWaits \/ Say
  <2>1. UNCHANGED <<attached, fired_this_tick, manual_fire, idled, cleared, pending, pendingBefore, latched, pane>>
    BY <1>4 DEF Resolve, WarningEnds, SayWaits, Say, sessionVars, loopVars
  <2>2. QED
    BY <2>1, ZenonT(30)
<1>5. CASE Inject
  <2>1. latched' \in {latched, FALSE} /\ cleared' \in {cleared, TRUE}
        /\ UNCHANGED <<attached, fired_this_tick, manual_fire, idled, pending, pendingBefore, pane>>
    BY <1>5 DEF Inject
  <2>2. QED
    BY <2>1, Zenon
<1>6. CASE Fired
  BY <1>6, Zenon DEF Fired, sessionVars
<1>7. CASE Elapse \/ BotDies \/ BotReturns \/ UNCHANGED watchVars
  <2>1. UNCHANGED <<attached, fired_this_tick, manual_fire, idled, cleared, pending, pendingBefore, latched, pane>>
    BY <1>7 DEF Elapse, BotDies, BotReturns, watchVars, loopVars, sessionVars
  <2>2. QED
    BY <2>1, ZenonT(30)
<1>8. CASE Signal \/ PaneMoves
  BY <1>8, Zenon DEF Signal, PaneMoves, loopVars, sessionVars
<1>9. ASSUME NEW kind \in LineKind, Writes(kind)
      PROVE  Flags'
  <2>1. /\ attached' \in {attached, FALSE} /\ cleared' \in {cleared, FALSE}
        /\ pendingBefore' \in {pendingBefore, pending}
        /\ idled' = idled \/ idled' = (idled /\ ~attached)
        /\ pending' = (kind = "tool") /\ latched' = (kind \in {"refusal", "aup"})
        /\ UNCHANGED <<fired_this_tick, manual_fire, pane>>
    BY <1>9 DEF Writes, loopVars
  <2>2. /\ (idled /\ ~attached) \in BOOLEAN /\ (kind = "tool") \in BOOLEAN
        /\ (kind \in {"refusal", "aup"}) \in BOOLEAN
    OBVIOUS
  <2>3. idled' \in BOOLEAN
    BY <2>1, <2>2, Zenon
  <2>4. pending' \in BOOLEAN /\ latched' \in BOOLEAN
    BY <2>1, <2>2, Zenon
  <2>5. attached' \in BOOLEAN /\ cleared' \in BOOLEAN /\ pendingBefore' \in BOOLEAN
    BY <2>1, Zenon
  <2>6. fired_this_tick' \in BOOLEAN /\ manual_fire' \in BOOLEAN /\ pane' \in BOOLEAN
    BY <2>1, Zenon
  <2>7. QED
    BY <2>3, <2>4, <2>5, <2>6, Zenon
<1>10. QED
  BY <1>1, <1>2, <1>3, <1>4, <1>5, <1>6, <1>7, <1>8, <1>9 DEF WatchNext, Loop

\* The operator is alerted while no pane is found, and not after.
LEMMA AlarmStep == Alarm /\ [WatchNext]_watchVars => Alarm'
<1> SUFFICES ASSUME Alarm, [WatchNext]_watchVars PROVE Alarm'
  OBVIOUS
<1>1. RESOLVE_ALERT \in Nat
  BY WatchAssumption
<1>2. ASSUME UNCHANGED <<failing, alerted>> PROVE Alarm'
  BY <1>2 DEF Alarm
<1>3. CASE Resolve
  <2>1. CASE pane
    <3>1. failing' = << >> /\ alerted' = FALSE
      BY <1>3, <2>1 DEF Resolve
    <3>2. failing' \in {<< >>} \cup {<<n>> : n \in 0 .. RESOLVE_ALERT}
      BY <3>1
    <3>3. alerted' \in BOOLEAN /\ ~alerted'
      BY <3>1, Zenon
    <3>4. QED
      BY <3>2, <3>3 DEF Alarm
  <2>2. CASE ~pane
    <3>1. /\ failing' = IF failing = << >> THEN <<0>> ELSE failing
          /\ alerted' = alerted \/ (alerted' = TRUE /\ failing # << >>)
      BY <1>3, <2>2 DEF Resolve
    <3>2. <<0>> \in {<<n>> : n \in 0 .. RESOLVE_ALERT} /\ <<0>> # << >>
      <4>1. 0 \in 0 .. RESOLVE_ALERT
        BY <1>1
      <4>2. <<0>> # << >>
        OBVIOUS
      <4>3. QED
        BY <4>1, <4>2
    <3>3. failing' \in {<< >>} \cup {<<n>> : n \in 0 .. RESOLVE_ALERT} /\ failing' # << >>
      BY <3>1, <3>2 DEF Alarm
    <3>4. alerted' \in BOOLEAN
      BY <3>1, Zenon DEF Alarm
    <3>5. QED
      BY <3>3, <3>4 DEF Alarm
  <2>3. QED
    BY <2>1, <2>2
<1>4. CASE Elapse
  <2>1. failing' = (IF failing = << >> THEN failing ELSE <<AtMost(failing[1] + 1, RESOLVE_ALERT)>>)
        /\ alerted' = alerted
    BY <1>4 DEF Elapse
  <2>2. CASE failing = << >>
    BY <1>2, <2>1, <2>2
  <2>3. CASE failing # << >>
    <3>1. PICK n \in 0 .. RESOLVE_ALERT : failing = <<n>>
      BY <2>3 DEF Alarm
    <3>2. failing[1] = n
      BY <3>1
    <3>3. AtMost(n + 1, RESOLVE_ALERT) \in 0 .. RESOLVE_ALERT
      BY <1>1 DEF AtMost
    <3> DEFINE m == AtMost(n + 1, RESOLVE_ALERT)
    <3>4. failing' = <<m>> /\ m \in 0 .. RESOLVE_ALERT
      BY <2>1, <2>3, <3>2, <3>3
    <3> HIDE DEF m
    <3>5. <<m>> # << >>
      OBVIOUS
    <3>6. QED
      BY <2>1, <3>4, <3>5 DEF Alarm
  <2>4. QED
    BY <2>2, <2>3
<1>5. CASE Poll \/ Manual \/ Scan \/ Turns \/ Idle \/ EndTick
  BY <1>2, <1>5 DEF Poll, Manual, Scan, Turns, Idle, EndTick, tickVars
<1>6. CASE WarningEnds \/ Inject \/ SayWaits \/ Say \/ Fired
  BY <1>2, <1>6 DEF WarningEnds, Inject, SayWaits, Say, Fired, fireVars, loopVars
<1>7. CASE Signal \/ PaneMoves \/ BotDies \/ BotReturns \/ UNCHANGED watchVars
  BY <1>2, <1>7 DEF Signal, PaneMoves, BotDies, BotReturns, watchVars, loopVars
<1>8. CASE \E kind \in LineKind : Writes(kind)
  BY <1>2, <1>8 DEF Writes, loopVars
<1>9. QED
  BY <1>3, <1>4, <1>5, <1>6, <1>7, <1>8 DEF WatchNext, Loop

\* The FIFO is waited for only by who has something to say, and the loop says
\* nothing else meanwhile.
LEMMA WaitingStep == Waiting /\ [WatchNext]_watchVars => Waiting'
<1> SUFFICES ASSUME Waiting, [WatchNext]_watchVars PROVE Waiting'
  OBVIOUS
<1>1. ASSUME ~Saying \/ fifo = "free", UNCHANGED <<fifo, bot>> PROVE Waiting'
  BY <1>1 DEF Waiting
<1>2. CASE Poll \/ Manual \/ Scan \/ Turns \/ Idle \/ EndTick
  BY <1>1, <1>2 DEF Poll, Manual, Scan, Turns, Idle, EndTick, tickVars, Saying
<1>3. CASE Resolve \/ WarningEnds \/ Inject \/ Say \/ Fired
  BY <1>1, <1>3 DEF Resolve, WarningEnds, Inject, Say, Fired, Saying
<1>4. CASE SayWaits \/ BotDies \/ BotReturns
  BY <1>4 DEF SayWaits, BotDies, BotReturns, Waiting, Saying, loopVars
<1>5. CASE Elapse \/ Signal \/ PaneMoves \/ UNCHANGED watchVars
  BY <1>5 DEF Elapse, Signal, PaneMoves, watchVars, loopVars, Waiting, Saying
<1>6. CASE \E kind \in LineKind : Writes(kind)
  BY <1>6 DEF Writes, loopVars, Waiting, Saying
<1>7. QED
  BY <1>2, <1>3, <1>4, <1>5, <1>6 DEF WatchNext, Loop

\* At the start of the process.
LEMMA WatchTypesInit == WatchInit => Counts /\ Flags /\ Alarm /\ Waiting
<1> SUFFICES ASSUME WatchInit PROVE Counts /\ Flags /\ Alarm /\ Waiting
  OBVIOUS
<1>1. Counts
  BY WatchAssumption DEF WatchInit, Counts
<1>2. Flags
  BY Zenon DEF WatchInit, Flags
<1>3. Alarm
  <2>1. alerted \in BOOLEAN /\ ~alerted
    BY Zenon DEF WatchInit
  <2>2. QED
    BY <2>1 DEF WatchInit, Alarm
<1>4. Waiting
  BY DEF WatchInit, Waiting
<1>5. QED
  BY <1>1, <1>2, <1>3, <1>4

(* The types of the watchdog's state, whatever its delays and limits: the  *)
(* ages and counts stay within their bounds, the operator is held alerted  *)
(* only while no pane is found, and the FIFO is waited for only by a loop  *)
(* that has something to say.                                              *)
THEOREM WatchTypeCorrect == WatchSpec => []WatchTypeOK
<1>1. WatchInit => DueInv /\ Counts /\ Flags /\ Alarm /\ Waiting
  BY DueInvInit, WatchTypesInit
<1>2. (DueInv /\ Counts /\ Flags /\ Alarm /\ Waiting) /\ [WatchNext]_watchVars
        => (DueInv /\ Counts /\ Flags /\ Alarm /\ Waiting)'
  BY DueInvStep, CountsStep, FlagsStep, AlarmStep, WaitingStep
<1>3. DueInv /\ Counts /\ Flags /\ Alarm /\ Waiting => WatchTypeOK
  <2> SUFFICES ASSUME DueInv, Counts, Flags, Alarm, Waiting PROVE WatchTypeOK
    OBVIOUS
  <2>1. {attached, fired_this_tick, manual_fire, debounced, idled, cleared, pending, pendingBefore,
         latched, pane, alerted, stale} \subseteq BOOLEAN
    <3>1. debounced \in BOOLEAN /\ stale \in BOOLEAN /\ alerted \in BOOLEAN
      BY Zenon DEF DueInv, WatchTypes, Alarm
    <3>2. QED
      BY <3>1, Zenon DEF Flags
  <2>2. stage \in {"sleep", "manual", "scan", "turns", "idle", "end", "resolve", "warning", "inject",
                   "announce", "escalate", "reassure", "scrub"}
    BY DEF DueInv, WatchTypes, Stage, Firing, Landed
  <2>3. QED
    BY <2>1, <2>2 DEF WatchTypeOK, DueInv, WatchTypes, Counts, Alarm, Waiting
<1>4. QED
  BY <1>1, <1>2, <1>3, PTL DEF WatchSpec

-----------------------------------------------------------------------------
(* SplitSay.  The messages make the text, whatever the characters and      *)
(* MAX_BODY.                                                               *)

ByteOf == (DOMAIN Width) \X (1 .. 4)

\* The bytes of characters, all there.
Ends(b, i) == b[i][2] = Width[b[i][1]]
Encoded(b) ==
    /\ b \in Seq(ByteOf)
    /\ \A i \in 1 .. Len(b) :
        /\ b[i][2] <= Width[b[i][1]]
        /\ i = 1 => b[i][2] = 1
        /\ Ends(b, i) => i = Len(b) \/ b[i + 1][2] = 1
        /\ ~Ends(b, i) => i # Len(b) /\ b[i + 1] = <<b[i][1], b[i][2] + 1>>

LEMMA BytesOf ==
    ASSUME NEW b \in Seq(ByteOf)
    PROVE  /\ Len(b) \in Nat
           /\ \A i \in 1 .. Len(b) : /\ b[i] \in ByteOf
                                     /\ b[i][1] \in DOMAIN Width /\ b[i][2] \in 1 .. 4
                                     /\ Width[b[i][1]] \in 1 .. 4
<1>1. Len(b) \in Nat /\ \A i \in 1 .. Len(b) : b[i] \in ByteOf
  BY ElementOfSeq
<1>2. \A x \in ByteOf : x[1] \in DOMAIN Width /\ x[2] \in 1 .. 4
  BY DEF ByteOf
<1>3. QED
  BY <1>1, <1>2, SplitAssumption

\* A byte has those of its character before it,
LEMMA BytesBefore ==
    ASSUME NEW b, Encoded(b)
    PROVE  \A i \in 1 .. Len(b) : b[i][2] <= i
<1> DEFINE S == {i \in Nat : i \in 1 .. Len(b) => b[i][2] <= i}
<1>1. 0 \in S
  OBVIOUS
<1>2. ASSUME NEW i \in Nat, i \in S PROVE i + 1 \in S
  <2> SUFFICES ASSUME i + 1 \in 1 .. Len(b) PROVE b[i + 1][2] <= i + 1
    OBVIOUS
  <2>1. b \in Seq(ByteOf) /\ Len(b) \in Nat
    BY BytesOf DEF Encoded
  <2>2. CASE i = 0
    BY <2>1, <2>2 DEF Encoded
  <2>3. CASE i # 0
    <3>1. i \in 1 .. Len(b) /\ i # Len(b) /\ b[i][2] <= i
      BY <1>2, <2>1, <2>3
    <3>2. b[i + 1][2] = 1 \/ b[i + 1] = <<b[i][1], b[i][2] + 1>>
      BY <3>1 DEF Encoded
    <3>3. b[i][2] \in 1 .. 4
      BY <2>1, <3>1, BytesOf
    <3>4. QED
      BY <3>1, <3>2, <3>3
  <2>4. QED
    BY <2>2, <2>3
<1>3. Nat \subseteq S
  <2> HIDE DEF S
  <2>1. QED
    BY <1>1, <1>2, SetInduction
<1>4. QED
  BY <1>3

\* and behind it.
LEMMA BytesBehind ==
    ASSUME NEW b, Encoded(b)
    PROVE  \A i \in 1 .. Len(b) : i - b[i][2] + Width[b[i][1]] <= Len(b)
<1>1. b \in Seq(ByteOf) /\ Len(b) \in Nat
  BY BytesOf DEF Encoded
<1> DEFINE S == {d \in Nat : \A i \in 1 .. Len(b) : Width[b[i][1]] = b[i][2] + d => i + d <= Len(b)}
<1>2. 0 \in S
  BY <1>1
<1>3. ASSUME NEW d \in Nat, d \in S PROVE d + 1 \in S
  <2> SUFFICES ASSUME NEW i \in 1 .. Len(b), Width[b[i][1]] = b[i][2] + (d + 1)
               PROVE  i + (d + 1) <= Len(b)
    OBVIOUS
  <2>1. b[i][2] \in 1 .. 4 /\ Width[b[i][1]] \in 1 .. 4
    BY <1>1, BytesOf
  <2>2. ~Ends(b, i)
    BY <2>1 DEF Ends
  <2>3. i # Len(b) /\ b[i + 1] = <<b[i][1], b[i][2] + 1>>
    BY <2>2 DEF Encoded
  <2>4. i + 1 \in 1 .. Len(b) /\ b[i + 1][1] = b[i][1] /\ b[i + 1][2] = b[i][2] + 1
    BY <1>1, <2>3
  <2>5. Width[b[i + 1][1]] = b[i + 1][2] + d
    <3>1. Width[b[i + 1][1]] = Width[b[i][1]]
      BY <2>4
    <3>2. \A k \in 1 .. 4 : k + (d + 1) = (k + 1) + d
      OBVIOUS
    <3>3. b[i][2] + (d + 1) = (b[i][2] + 1) + d
      BY <2>1, <3>2, Zenon
    <3>4. QED
      BY <2>4, <3>1, <3>3
  <2>6. (i + 1) + d <= Len(b)
    BY <1>3, <2>4, <2>5
  <2>7. QED
    BY <1>1, <2>6
<1>4. Nat \subseteq S
  <2> HIDE DEF S
  <2>1. QED
    BY <1>2, <1>3, SetInduction
<1>5. ASSUME NEW i \in 1 .. Len(b) PROVE i - b[i][2] + Width[b[i][1]] <= Len(b)
  <2>1. b[i][2] \in 1 .. 4 /\ Width[b[i][1]] \in 1 .. 4 /\ b[i][2] <= Width[b[i][1]]
    BY <1>1, BytesOf DEF Encoded
  <2> DEFINE w == Width[b[i][1]]
             k == b[i][2]
  <2>2. w \in Nat /\ k \in Nat /\ k <= w /\ w = Width[b[i][1]] /\ k = b[i][2]
    BY <2>1
  <2> HIDE DEF w, k
  <2>3. w - k \in Nat /\ w = k + (w - k)
    <3>1. w \in Nat /\ k \in Nat /\ k <= w
      BY <2>2
    <3>2. QED
      BY <3>1
  <2> HIDE DEF S
  <2>4. w - k \in S
    BY <1>4, <2>3
  <2>5. i + (w - k) <= Len(b)
    BY <2>2, <2>3, <2>4 DEF S
  <2>6. i - k + w <= Len(b)
    BY <1>1, <2>2, <2>5
  <2>7. QED
    BY <2>2, <2>6
<1>6. QED
  BY <1>5

\* So the decoder ignores none.
LEMMA DecodesAll ==
    ASSUME NEW b, Encoded(b)
    PROVE  Decode(b) = b
<1> DEFINE complete(i) == b[i][2] <= i /\ i - b[i][2] + Width[b[i][1]] <= Len(b)
<1>1. b \in Seq(ByteOf) /\ DOMAIN b = 1 .. Len(b)
  BY LenProperties DEF Encoded
<1>2. \A i \in 1 .. Len(b) : complete(i)
  BY BytesBefore, BytesBehind
<1>3. [i \in DOMAIN b |-> IF complete(i) THEN <<b[i]>> ELSE << >>] = [i \in 1 .. Len(b) |-> <<b[i]>>]
  BY <1>1, <1>2
<1>4. QED
  BY <1>1, <1>3, FlattenSingletons DEF Decode

-----------------------------------------------------------------------------
\* Characters, one after the other.
LEMMA EncodedConcat ==
    ASSUME NEW a, NEW b, Encoded(a), Encoded(b)
    PROVE  Encoded(a \o b)
<1>1. a \in Seq(ByteOf) /\ b \in Seq(ByteOf) /\ Len(a) \in Nat /\ Len(b) \in Nat
  BY BytesOf DEF Encoded
<1>2. /\ a \o b \in Seq(ByteOf) /\ Len(a \o b) = Len(a) + Len(b)
      /\ \A i \in 1 .. Len(a) + Len(b) : (a \o b)[i] = IF i <= Len(a) THEN a[i] ELSE b[i - Len(a)]
  BY <1>1, ConcatProperties
<1> DEFINE c == a \o b
<1>3. ASSUME NEW i \in 1 .. Len(c)
      PROVE  /\ c[i][2] <= Width[c[i][1]]
             /\ i = 1 => c[i][2] = 1
             /\ Ends(c, i) => i = Len(c) \/ c[i + 1][2] = 1
             /\ ~Ends(c, i) => i # Len(c) /\ c[i + 1] = <<c[i][1], c[i][2] + 1>>
  <2> HIDE DEF c
  <2>1. CASE i < Len(a)
    <3>1. i \in 1 .. Len(a) /\ i + 1 \in 1 .. Len(a) /\ i # Len(a) /\ i # Len(c)
      BY <1>1, <1>2, <2>1 DEF c
    <3>2. c[i] = a[i] /\ c[i + 1] = a[i + 1]
      BY <1>1, <1>2, <3>1 DEF c
    <3>3. QED
      BY <3>1, <3>2 DEF Encoded, Ends
  <2>2. CASE i = Len(a)
    <3>1. i \in 1 .. Len(a) /\ c[i] = a[i] /\ Ends(a, i)
      BY <1>1, <1>2, <2>2 DEF c, Encoded
    <3>2. i = Len(c) \/ (1 \in 1 .. Len(b) /\ c[i + 1] = b[1])
      BY <1>1, <1>2, <2>2 DEF c
    <3>3. i = Len(c) \/ c[i + 1][2] = 1
      BY <3>2 DEF Encoded
    <3>4. QED
      BY <3>1, <3>3 DEF Encoded, Ends
  <2>3. CASE i > Len(a)
    <3> DEFINE j == i - Len(a)
    <3>1. j \in 1 .. Len(b) /\ c[i] = b[j] /\ (i = 1 => j = 1) /\ (i = Len(c) <=> j = Len(b))
      BY <1>1, <1>2, <2>3 DEF c
    <3>2. i # Len(c) => c[i + 1] = b[j + 1]
      <4>1. i # Len(c) => i + 1 \in 1 .. Len(a) + Len(b) /\ ~(i + 1 <= Len(a))
        <5>1. i \in 1 .. Len(a) + Len(b) /\ Len(c) = Len(a) + Len(b)
          BY <1>2 DEF c
        <5>2. QED
          BY <1>1, <2>3, <5>1
      <4>2. (i + 1) - Len(a) = j + 1
        BY <1>1, <1>2, <2>3 DEF c
      <4>3. QED
        BY <1>2, <4>1, <4>2 DEF c
    <3> HIDE DEF j
    <3>3. QED
      BY <3>1, <3>2 DEF Encoded, Ends
  <2>4. i \in Nat
    BY <1>1, <1>2 DEF c
  <2>5. QED
    BY <1>1, <2>1, <2>2, <2>3, <2>4
<1>4. QED
  BY <1>2, <1>3 DEF Encoded

\* A character.
LEMMA EncodedCharacter ==
    ASSUME NEW ch \in DOMAIN Width
    PROVE  Encoded([k \in 1 .. Width[ch] |-> <<ch, k>>])
<1> DEFINE c == [k \in 1 .. Width[ch] |-> <<ch, k>>]
<1>1. Width[ch] \in 1 .. 4
  BY SplitAssumption
<1>2. \A k \in 1 .. Width[ch] : <<ch, k>> \in ByteOf
  BY <1>1 DEF ByteOf
<1>3. c \in Seq(ByteOf) /\ Len(c) = Width[ch] /\ \A k \in 1 .. Len(c) : c[k] = <<ch, k>>
  BY <1>1, <1>2
<1> HIDE DEF c
<1>4. QED
  BY <1>1, <1>3 DEF Encoded, Ends, c

\* What encode makes of a text.
LEMMA EncodedText ==
    ASSUME NEW text \in Seq(DOMAIN Width)
    PROVE  Encoded(Encode(text))
<1> DEFINE Bytes(ch) == [k \in 1 .. Width[ch] |-> <<ch, k>>]
           Of(t) == [i \in 1 .. Len(t) |-> Bytes(t[i])]
           S == {t \in Seq(DOMAIN Width) : Encoded(FlattenSeq(Of(t)))}
<1>1. << >> \in S
  <2>1. Of(<< >>) = << >>
    BY EmptySeq
  <2>2. Encoded(<< >>)
    BY EmptySeq DEF Encoded
  <2>3. QED
    BY <2>1, <2>2, FlattenEmpty, EmptySeq
<1>2. \A ch \in DOMAIN Width : Encoded(Bytes(ch))
  BY EncodedCharacter
<1>3. \A ch \in DOMAIN Width : Bytes(ch) \in Seq(ByteOf)
  BY <1>2 DEF Encoded
<1>4. ASSUME NEW t \in Seq(DOMAIN Width) PROVE Of(t) \in Seq(Seq(ByteOf)) /\ Len(Of(t)) = Len(t)
  <2> HIDE DEF Bytes
  <2>1. QED
    BY <1>3, ElementOfSeq
<1>5. ASSUME NEW t \in Seq(DOMAIN Width), NEW ch \in DOMAIN Width, t \in S PROVE Append(t, ch) \in S
  <2> HIDE DEF Bytes
  <2>1. /\ Append(t, ch) \in Seq(DOMAIN Width) /\ Len(t) \in Nat /\ Len(Append(t, ch)) = Len(t) + 1
        /\ Append(t, ch)[Len(t) + 1] = ch
        /\ \A i \in 1 .. Len(t) : Append(t, ch)[i] = t[i]
    BY AppendProperties
  <2>2. /\ Append(Of(t), Bytes(ch)) \in Seq(Seq(ByteOf))
        /\ Len(Append(Of(t), Bytes(ch))) = Len(t) + 1
        /\ Append(Of(t), Bytes(ch))[Len(t) + 1] = Bytes(ch)
        /\ \A i \in 1 .. Len(t) : Append(Of(t), Bytes(ch))[i] = Of(t)[i]
    <3> HIDE DEF Of
    <3>1. QED
      BY <1>3, <1>4, AppendProperties
  <2>3. Of(Append(t, ch)) \in Seq(Seq(ByteOf)) /\ Len(Of(Append(t, ch))) = Len(t) + 1
    <3> HIDE DEF Of
    <3>1. QED
      BY <1>4, <2>1
  <2>4. ASSUME NEW i \in 1 .. Len(t) + 1 PROVE Of(Append(t, ch))[i] = Append(Of(t), Bytes(ch))[i]
    <3>1. CASE i = Len(t) + 1
      BY <2>1, <2>2, <3>1
    <3>2. CASE i # Len(t) + 1
      BY <2>1, <2>2, <3>2
    <3>3. QED
      BY <3>1, <3>2
  <2> HIDE DEF Of
  <2>5. Of(Append(t, ch)) = Append(Of(t), Bytes(ch))
    BY <2>2, <2>3, <2>4, SeqEqual
  <2>6. FlattenSeq(Of(Append(t, ch))) = FlattenSeq(Of(t)) \o Bytes(ch)
    BY <1>3, <1>4, <2>5, FlattenAppend
  <2>7. Encoded(FlattenSeq(Of(t)) \o Bytes(ch))
    BY <1>2, <1>5, EncodedConcat
  <2>8. QED
    BY <2>1, <2>6, <2>7
<1> HIDE DEF S
<1>6. Seq(DOMAIN Width) \subseteq S
  BY <1>1, <1>5, SeqSetInduction
<1>7. Encoded(FlattenSeq(Of(text)))
  BY <1>6 DEF S
<1>8. Encode(text) = FlattenSeq(Of(text))
  BY LenProperties DEF Encode
<1>9. QED
  BY <1>7, <1>8

\* A text cut where a character begins is two.
LEMMA EncodedCut ==
    ASSUME NEW b, Encoded(b), NEW n \in 1 .. Len(b), n = Len(b) \/ b[n + 1][2] = 1
    PROVE  Encoded(SubSeq(b, 1, n)) /\ Encoded(SubSeq(b, n + 1, Len(b)))
<1>1. b \in Seq(ByteOf) /\ Len(b) \in Nat /\ n \in Nat /\ n <= Len(b) /\ n >= 1
  BY BytesOf DEF Encoded
<1> DEFINE u == SubSeq(b, 1, n)
           v == SubSeq(b, n + 1, Len(b))
<1>2. u \in Seq(ByteOf) /\ Len(u) = n /\ \A i \in 1 .. n : u[i] = b[i]
  <2>1. \A i \in 1 .. n : b[i] \in ByteOf
    BY <1>1, ElementOfSeq
  <2>2. u \in Seq(ByteOf) /\ Len(u) = (IF 1 <= n THEN n - 1 + 1 ELSE 0) /\ \A i \in 1 .. n - 1 + 1 : u[i] = b[1 + i - 1]
    BY <1>1, <2>1, SubSeqProperties
  <2>3. QED
    BY <1>1, <2>2
<1>3. v \in Seq(ByteOf) /\ Len(v) = Len(b) - n /\ \A i \in 1 .. Len(b) - n : v[i] = b[n + i]
  <2>1. n \in 0 .. Len(b)
    BY <1>1
  <2>2. QED
    BY <1>1, <2>1, Rest
<1> HIDE DEF u, v
<1>4. Ends(b, n)
  <2>1. CASE n = Len(b)
    BY <1>1, <2>1 DEF Encoded
  <2>2. CASE n # Len(b)
    <3>1. b[n + 1][2] = 1 /\ n \in 1 .. Len(b) /\ b[n][2] \in 1 .. 4
      BY <1>1, <2>2, BytesOf
    <3>2. b[n + 1] # <<b[n][1], b[n][2] + 1>>
      BY <3>1
    <3>3. QED
      BY <3>1, <3>2 DEF Encoded
  <2>3. QED
    BY <2>1, <2>2
<1>5. Encoded(u)
  <2>1. ASSUME NEW i \in 1 .. n
        PROVE  /\ u[i][2] <= Width[u[i][1]]
               /\ i = 1 => u[i][2] = 1
               /\ Ends(u, i) => i = Len(u) \/ u[i + 1][2] = 1
               /\ ~Ends(u, i) => i # Len(u) /\ u[i + 1] = <<u[i][1], u[i][2] + 1>>
    <3>1. CASE i = n
      BY <1>1, <1>2, <1>4, <3>1 DEF Encoded, Ends
    <3>2. CASE i # n
      <4>1. i \in 1 .. Len(b) /\ i # Len(b) /\ i + 1 \in 1 .. n
        BY <1>1, <3>2
      <4>2. u[i] = b[i] /\ u[i + 1] = b[i + 1]
        BY <1>2, <4>1
      <4>3. QED
        BY <1>2, <3>2, <4>1, <4>2 DEF Encoded, Ends
    <3>3. QED
      BY <3>1, <3>2
  <2>2. QED
    BY <1>2, <2>1 DEF Encoded
<1>6. Encoded(v)
  <2> DEFINE L == Len(b)
             l == L - n
  <2>1. L \in Nat /\ l \in Nat /\ L = n + l /\ Len(v) = l /\ (\A i \in 1 .. l : v[i] = b[n + i]) /\ Len(b) = L
    <3>1. L \in Nat /\ n \in Nat /\ n <= L
      BY <1>1
    <3> HIDE DEF L
    <3>2. L - n \in Nat /\ L = n + (L - n)
      BY <3>1
    <3>3. Len(v) = L - n /\ (\A i \in 1 .. L - n : v[i] = b[n + i]) /\ Len(b) = L
      BY <1>3 DEF L
    <3>4. QED
      BY <3>1, <3>2, <3>3
  <2> HIDE DEF L, l
  <2>2. ASSUME NEW i \in 1 .. l
        PROVE  /\ v[i][2] <= Width[v[i][1]]
               /\ i = 1 => v[i][2] = 1
               /\ Ends(v, i) => i = Len(v) \/ v[i + 1][2] = 1
               /\ ~Ends(v, i) => i # Len(v) /\ v[i + 1] = <<v[i][1], v[i][2] + 1>>
    <3> DEFINE j == n + i
    <3>1. i \in Nat /\ i # 0 /\ j \in 1 .. Len(b) /\ (i = Len(v) <=> j = Len(b))
      <4>1. L \in Nat /\ l \in Nat /\ L = n + l /\ n \in Nat /\ i \in 1 .. l
        BY <1>1, <2>1
      <4>2. i \in Nat /\ i # 0 /\ j \in 1 .. L /\ (i = l <=> j = L)
        BY <4>1
      <4>3. Len(v) = l /\ Len(b) = L
        BY <2>1
      <4>4. QED
        BY <4>2, <4>3
    <3>2. i # Len(v) => i + 1 \in 1 .. l
      BY <2>1, <3>1
    <3>3. n + (i + 1) = j + 1
      BY <1>1, <3>1
    <3>4. v[i] = b[j] /\ (i # Len(v) => v[i + 1] = b[j + 1])
      BY <2>1, <3>1, <3>2, <3>3
    <3>5. i = 1 => v[i][2] = 1
      <4>1. i = 1 => n # Len(b) /\ j = n + 1
        BY <1>1, <2>1
      <4>2. QED
        BY <3>4, <4>1
    <3> HIDE DEF j
    <3>6. /\ b[j][2] <= Width[b[j][1]]
          /\ Ends(b, j) => j = Len(b) \/ b[j + 1][2] = 1
          /\ ~Ends(b, j) => j # Len(b) /\ b[j + 1] = <<b[j][1], b[j][2] + 1>>
      BY <3>1 DEF Encoded
    <3>7. QED
      BY <3>1, <3>4, <3>5, <3>6 DEF Ends
  <2>3. QED
    BY <1>3, <2>1, <2>2 DEF Encoded
<1>7. QED
  BY <1>5, <1>6 DEF u, v

\* Where Cut cuts a character begins, and a message is no longer than it may be.
LEMMA CutsBetween ==
    ASSUME NEW b, Encoded(b), Len(b) > MAX_BODY
    PROVE  /\ Cut(b) \in 1 .. Len(b)
           /\ Cut(b) = Len(b) \/ b[Cut(b) + 1][2] = 1
           /\ Cut(b) <= MAX_BODY \/ (Cut(b) = MAX_BODY + 1 /\ b[Cut(b)][1] = Space)
<1>1. /\ b \in Seq(ByteOf) /\ Len(b) \in Nat /\ MAX_BODY \in Nat /\ MAX_BODY >= 4
      /\ MAX_BODY + 1 <= Len(b)
  BY BytesOf, SplitAssumption DEF Encoded
<1> DEFINE spaces == {i \in 2 .. MAX_BODY + 1 : b[i][1] = Space}
           begins == {i \in 2 .. MAX_BODY : b[i + 1][2] = 1}
<1>2. CASE spaces # {}
  <2>1. Cut(b) = Max(spaces)
    BY <1>2, Zenon DEF Cut
  <2>2. spaces \in SUBSET Nat /\ MAX_BODY + 1 \in Nat /\ \A x \in spaces : x <= MAX_BODY + 1
    BY <1>1
  <2>3. Cut(b) \in spaces
    <3> HIDE DEF spaces
    <3>1. QED
      BY <1>2, <2>1, <2>2, Greatest
  <2> DEFINE c == Cut(b)
  <2> HIDE DEF c
  <2>4. c \in 1 .. Len(b) /\ c <= MAX_BODY + 1 /\ b[c][1] = Space /\ c \in Nat
    BY <1>1, <2>3 DEF c
  <2>5. Ends(b, c)
    <3>1. b[c][2] \in 1 .. 4 /\ b[c][2] <= Width[b[c][1]] /\ Width[b[c][1]] = 1
      BY <1>1, <2>4, BytesOf, SplitAssumption DEF Encoded
    <3>2. QED
      BY <3>1 DEF Ends
  <2>6. c = Len(b) \/ b[c + 1][2] = 1
    BY <2>4, <2>5 DEF Encoded
  <2>7. QED
    BY <1>1, <2>4, <2>6 DEF c
<1>3. CASE spaces = {}
  <2>1. Cut(b) = Max({1} \cup begins)
    BY <1>3, Zenon DEF Cut
  <2>2. {1} \cup begins \in SUBSET Nat /\ \A x \in {1} \cup begins : x <= MAX_BODY
    BY <1>1
  <2>3. Cut(b) \in {1} \cup begins /\ \A x \in {1} \cup begins : x <= Cut(b)
    <3> HIDE DEF begins
    <3>1. QED
      BY <1>1, <2>1, <2>2, Greatest
  <2> DEFINE c == Cut(b)
             w == Width[b[1][1]]
  <2>4. 1 \in 1 .. Len(b) /\ b[1][2] = 1 /\ w \in 1 .. 4
    BY <1>1, BytesOf DEF Encoded
  <2>5. b[w + 1][2] = 1
    <3> DEFINE S == {k \in Nat : k \in 1 .. w => Ends(b, k) = (k = w) /\ b[k] = <<b[1][1], k>>}
    <3> HIDE DEF w
    <3>1. b[1] = <<b[1][1], 1>>
      <4>1. b[1] \in ByteOf
        BY <1>1, <2>4, ElementOfSeq
      <4>2. \A x \in ByteOf : x = <<x[1], x[2]>>
        BY DEF ByteOf
      <4>3. QED
        BY <2>4, <4>1, <4>2
    <3>2. ASSUME NEW k \in 1 .. w, b[k] = <<b[1][1], k>> PROVE Ends(b, k) <=> k = w
      BY <3>2 DEF Ends, w
    <3>3. ASSUME NEW k \in 1 .. w, b[k] = <<b[1][1], k>>, k # w PROVE b[k + 1] = <<b[1][1], k + 1>>
      <4>1. ~Ends(b, k) /\ k \in 1 .. Len(b)
        BY <1>1, <2>4, <3>2, <3>3
      <4>2. b[k + 1] = <<b[k][1], b[k][2] + 1>>
        BY <4>1 DEF Encoded
      <4>3. QED
        BY <3>3, <4>2
    <3>4. b[w] = <<b[1][1], w>>
      <4>1. w \in {1, 2, 3, 4}
        BY <2>4
      <4>2. CASE w = 1
        BY <3>1, <4>2
      <4>3. CASE w # 1
        <5>1. b[2] = <<b[1][1], 2>>
          BY <3>1, <3>3, <4>1, <4>3
        <5>2. w # 2 => b[3] = <<b[1][1], 3>>
          BY <3>3, <4>1, <4>3, <5>1
        <5>3. w # 2 /\ w # 3 => b[4] = <<b[1][1], 4>>
          BY <3>3, <4>1, <4>3, <5>2
        <5>4. QED
          BY <4>1, <4>3, <5>1, <5>2, <5>3
      <4>4. QED
        BY <4>2, <4>3
    <3>5. w \in 1 .. w /\ w \in 1 .. Len(b) /\ w # Len(b)
      BY <1>1, <2>4
    <3>6. Ends(b, w)
      BY <3>2, <3>4, <3>5
    <3>7. QED
      BY <3>5, <3>6 DEF Encoded
  <2>6. b[c + 1][2] = 1
    <3>1. c \in begins => b[c + 1][2] = 1
      OBVIOUS
    <3>2. c = 1 => w = 1
      <4>1. w # 1 => w \in begins
        <5>1. w \in 1 .. 4 /\ b[w + 1][2] = 1
          BY <2>4, <2>5
        <5> HIDE DEF w
        <5>2. QED
          BY <1>1, <5>1
      <4> HIDE DEF begins, w
      <4>2. QED
        BY <2>3, <2>4, <4>1
    <3> HIDE DEF begins
    <3>3. QED
      BY <2>3, <2>5, <3>1, <3>2
  <2>7. c \in 1 .. MAX_BODY
    BY <1>1, <2>3
  <2> HIDE DEF c
  <2>8. c \in 1 .. Len(b) /\ c <= MAX_BODY
    BY <1>1, <2>7
  <2>9. QED
    BY <2>6, <2>8 DEF c
<1>4. QED
  BY <1>2, <1>3

-----------------------------------------------------------------------------
SplitInv ==
    /\ Encoded(rest) /\ whole \in Seq(ByteOf) /\ chunks \in Seq(Seq(ByteOf))
    /\ ChunksMakeTheText

\* Sending one more message of the text.
LEMMA SendsMore ==
    ASSUME SplitInv, NEW b, Encoded(b), NEW behind, Encoded(behind), rest = b \o behind, b # << >>,
           Len(b) <= MAX_BODY \/ (Len(b) = MAX_BODY + 1 /\ Last(b)[1] = Space),
           chunks' = Append(chunks, Decode(b)), rest' = behind, whole' = whole
    PROVE  SplitInv'
<1>1. Decode(b) = b /\ b \in Seq(ByteOf) /\ behind \in Seq(ByteOf) /\ chunks \in Seq(Seq(ByteOf))
  BY DecodesAll DEF Encoded, SplitInv
<1>2. /\ chunks' \in Seq(Seq(ByteOf)) /\ Len(chunks') = Len(chunks) + 1 /\ Len(chunks) \in Nat
      /\ DOMAIN chunks = 1 .. Len(chunks) /\ DOMAIN chunks' = 1 .. Len(chunks) + 1
      /\ \A i \in 1 .. Len(chunks) : chunks'[i] = chunks[i]
      /\ chunks'[Len(chunks) + 1] = b
  BY <1>1, AppendProperties, LenProperties
<1>3. FlattenSeq(chunks') = FlattenSeq(chunks) \o b /\ FlattenSeq(chunks) \in Seq(ByteOf)
  BY <1>1, FlattenAppend
<1>4. (FlattenSeq(chunks) \o b) \o behind = FlattenSeq(chunks) \o (b \o behind)
  <2>1. ASSUME NEW s \in Seq(ByteOf) PROVE (s \o b) \o behind = s \o (b \o behind)
    BY <1>1, ConcatAssociative
  <2>2. QED
    BY <1>1, <1>3, <2>1
<1>5. FlattenSeq(chunks') \o rest' = whole'
  BY <1>3, <1>4 DEF SplitInv, ChunksMakeTheText
<1>6. ASSUME NEW i \in DOMAIN chunks'
      PROVE  /\ chunks'[i] # << >>
             /\ \/ Len(chunks'[i]) <= MAX_BODY
                \/ Len(chunks'[i]) = MAX_BODY + 1 /\ Last(chunks'[i])[1] = Space
  <2>1. CASE i = Len(chunks) + 1
    BY <1>2, <2>1
  <2>2. CASE i # Len(chunks) + 1
    <3>1. i \in DOMAIN chunks /\ chunks'[i] = chunks[i]
      BY <1>2, <2>2
    <3>2. QED
      BY <3>1 DEF SplitInv, ChunksMakeTheText
  <2>3. QED
    BY <2>1, <2>2
<1>7. QED
  BY <1>2, <1>5, <1>6 DEF SplitInv, ChunksMakeTheText

LEMMA SplitInvNext == SplitInv /\ [SplitNext]_splitVars => SplitInv'
<1> SUFFICES ASSUME SplitInv, [SplitNext]_splitVars PROVE SplitInv'
  OBVIOUS
<1>1. rest \in Seq(ByteOf) /\ Len(rest) \in Nat /\ MAX_BODY \in Nat
  BY BytesOf, SplitAssumption DEF SplitInv, Encoded
<1>2. ASSUME NEW text \in Texts, split_say(text) PROVE SplitInv'
  <2>1. text \in Seq(DOMAIN Width)
    BY SplitAssumption DEF Texts, SeqOf
  <2>2. Encoded(Encode(text)) /\ Encode(text) \in Seq(ByteOf)
    BY <2>1, EncodedText DEF Encoded
  <2>3. FlattenSeq(chunks) \in Seq(ByteOf) /\ << >> \in Seq(ByteOf)
    BY FlattenType, EmptySeq DEF SplitInv
  <2>4. FlattenSeq(chunks) = << >>
    <3>1. FlattenSeq(chunks) \o << >> = << >>
      BY <1>2 DEF SplitInv, ChunksMakeTheText, split_say
    <3>2. QED
      BY <2>3, <3>1, ConcatEmptySeq
  <2>5. FlattenSeq(chunks') \o rest' = whole'
    BY <1>2, <2>2, <2>4, ConcatEmptySeq DEF split_say
  <2>6. QED
    BY <1>2, <2>2, <2>5 DEF SplitInv, ChunksMakeTheText, split_say
<1>3. CASE SayRest
  <2>1. rest = rest \o << >> /\ Encoded(<< >>)
    BY <1>1, ConcatEmptySeq, EmptySeq DEF Encoded
  <2>2. Encoded(rest)
    BY DEF SplitInv
  <2>3. QED
    BY <1>3, <2>1, <2>2, SendsMore DEF SayRest
<1>4. CASE SayChunk
  <2> DEFINE c == Cut(rest)
             b == SubSeq(rest, 1, c)
             behind == SubSeq(rest, c + 1, Len(rest))
  <2>1. Encoded(rest) /\ Len(rest) > MAX_BODY
    BY <1>4 DEF SayChunk, SplitInv
  <2>2. /\ c \in 1 .. Len(rest) /\ (c = Len(rest) \/ rest[c + 1][2] = 1)
        /\ c <= MAX_BODY \/ (c = MAX_BODY + 1 /\ rest[c][1] = Space)
    BY <2>1, CutsBetween
  <2>3. chunks' = Append(chunks, Decode(b)) /\ rest' = behind /\ whole' = whole
    BY <1>4 DEF SayChunk
  <2> HIDE DEF c
  <2>4. Encoded(b) /\ Encoded(behind)
    BY <2>1, <2>2, EncodedCut
  <2>5. rest = b \o behind
    <3>1. 1 \in 1 .. Len(rest) + 1 /\ c \in 1 - 1 .. Len(rest) /\ Len(rest) \in c .. Len(rest)
      BY <1>1, <2>2
    <3>2. SubSeq(rest, 1, c) \o SubSeq(rest, c + 1, Len(rest)) = SubSeq(rest, 1, Len(rest))
      BY <1>1, <3>1, ConcatAdjacentSubSeq
    <3>3. QED
      BY <1>1, <3>2, SubSeqFull
  <2>6. Len(b) = c /\ b[c] = rest[c] /\ b # << >>
    <3>1. \A i \in 1 .. c : rest[i] \in ByteOf
      BY <1>1, <2>2, ElementOfSeq
    <3>2. 1 \in Int /\ c \in Int
      BY <2>2
    <3>3. Len(b) = (IF 1 <= c THEN c - 1 + 1 ELSE 0) /\ \A i \in 1 .. c - 1 + 1 : b[i] = rest[1 + i - 1]
      BY <3>1, <3>2, SubSeqProperties
    <3>4. c >= 1 /\ c \in Nat
      BY <2>2
    <3>5. Len(b) = c /\ b[c] = rest[c]
      <4> HIDE DEF b
      <4>1. QED
        BY <3>3, <3>4
    <3>6. b # << >>
      <4> HIDE DEF b
      <4>1. QED
        BY <3>4, <3>5, EmptySeq
    <3>7. QED
      BY <3>4, <3>5, <3>6
  <2> HIDE DEF b, behind
  <2>7. Len(b) <= MAX_BODY \/ (Len(b) = MAX_BODY + 1 /\ Last(b)[1] = Space)
    BY <2>2, <2>6 DEF Last
  <2>8. QED
    BY <2>3, <2>4, <2>5, <2>6, <2>7, SendsMore
<1>5. CASE UNCHANGED splitVars
  BY <1>5 DEF splitVars, SplitInv, ChunksMakeTheText
<1>6. QED
  BY <1>2, <1>3, <1>4, <1>5 DEF SplitNext

\* split_say loses nothing of a text, and each message fits: for every text and
\* every MAX_BODY in which a character fits.
THEOREM ChunksAlwaysMakeTheText == SplitSpec => []ChunksMakeTheText
<1>1. SplitInit => SplitInv
  <2> SUFFICES ASSUME SplitInit PROVE SplitInv
    OBVIOUS
  <2>1. Encoded(<< >>) /\ << >> \in Seq(ByteOf) /\ << >> \in Seq(Seq(ByteOf)) /\ << >> \o << >> = << >>
    BY EmptySeq, ConcatEmptySeq DEF Encoded
  <2>2. QED
    BY <2>1, FlattenEmpty DEF SplitInit, SplitInv, ChunksMakeTheText
<1>2. SplitInv => ChunksMakeTheText
  BY DEF SplitInv
<1>3. QED
  BY <1>1, <1>2, SplitInvNext, PTL DEF SplitSpec

\* Every byte that is to send or sent is one of a character.
THEOREM SplitTypeCorrect == SplitSpec => []SplitTypeOK
<1>1. SplitInit => SplitTypeOK /\ SplitInv
  <2> SUFFICES ASSUME SplitInit PROVE SplitInv /\ SplitTypeOK
    OBVIOUS
  <2>1. Encoded(<< >>) /\ << >> \in Seq(ByteOf) /\ << >> \in Seq(Seq(ByteOf)) /\ << >> \o << >> = << >>
    BY EmptySeq, ConcatEmptySeq DEF Encoded
  <2>2. QED
    BY <2>1, FlattenEmpty DEF SplitInit, SplitInv, ChunksMakeTheText, SplitTypeOK, ByteOf
<1>2. SplitInv => SplitTypeOK
  BY DEF SplitInv, SplitTypeOK, Encoded, ByteOf
<1>3. QED
  BY <1>1, <1>2, SplitInvNext, PTL DEF SplitSpec

-----------------------------------------------------------------------------
(* ReaderLoop.  The lines arrive whole, however many bytes there are.      *)

Letter == Byte \ {"nl"}

\* A line without its returns is of the same letters.
LEMMA StrippedType ==
    ASSUME NEW raw \in Seq(Letter)
    PROVE  Stripped(raw) \in Seq(Letter)
<1> DEFINE S == {0} \cup {i \in DOMAIN raw : raw[i] # "cr"}
<1>1. Len(raw) \in Nat /\ DOMAIN raw = 1 .. Len(raw)
  BY LenProperties
<1>2. S \in SUBSET Nat /\ S # {} /\ \A i \in S : i <= Len(raw)
  BY <1>1
<1> HIDE DEF S
<1>3. Max(S) \in S
  BY <1>1, <1>2, Greatest
<1>4. Max(S) \in Nat /\ Max(S) <= Len(raw)
  BY <1>2, <1>3
<1>5. SubSeq(raw, 1, Max(S)) \in Seq(Letter)
  BY <1>1, <1>4, Piece
<1>6. QED
  BY <1>5 DEF Stripped, S

\* Where a line starts: behind the last newline before it.
LEMMA LineStarts ==
    ASSUME NEW b \in Seq(Byte), NEW n \in 1 .. Len(b)
    PROVE  /\ LineStart(b, n) \in Nat /\ LineStart(b, n) < n
           /\ LineStart(b, n) = 0 \/ LineStart(b, n) \in Newlines(b)
           /\ \A i \in Newlines(b) : i < n => i <= LineStart(b, n)
<1> DEFINE S == {0} \cup {i \in Newlines(b) : i < n}
<1>1. Len(b) \in Nat /\ DOMAIN b = 1 .. Len(b) /\ n \in Nat
  BY LenProperties
<1>2. S \in SUBSET Nat /\ S # {} /\ (\A i \in S : i <= n) /\ (\A i \in S : i < n)
  BY <1>1 DEF Newlines
<1>3. Max(S) \in S /\ \A i \in S : i <= Max(S)
  <2> HIDE DEF S
  <2>1. QED
    BY <1>1, <1>2, Greatest
<1>4. LineStart(b, n) = Max(S)
  BY DEF LineStart
<1> DEFINE m == Max(S)
<1> HIDE DEF m
<1>5. m \in S /\ \A i \in S : i <= m
  BY <1>3 DEF m
<1>6. m \in Nat /\ m < n /\ (m = 0 \/ m \in Newlines(b)) /\ \A i \in Newlines(b) : i < n => i <= m
  BY <1>2, <1>5
<1>7. QED
  BY <1>4, <1>6 DEF m

\* And only one such place is.
LEMMA LineStartIs ==
    ASSUME NEW b \in Seq(Byte), NEW n \in 1 .. Len(b), NEW m \in Nat, m < n,
           m = 0 \/ m \in Newlines(b), \A i \in Newlines(b) : i < n => i <= m
    PROVE  LineStart(b, n) = m
<1> DEFINE l == LineStart(b, n)
<1>1. /\ l \in Nat /\ l < n /\ (l = 0 \/ l \in Newlines(b))
      /\ \A i \in Newlines(b) : i < n => i <= l
  BY LineStarts
<1> HIDE DEF l
<1>2. l <= m
  BY <1>1
<1>3. m <= l
  BY <1>1
<1>4. l = m
  BY <1>1, <1>2, <1>3
<1>5. QED
  BY <1>4 DEF l

\* The letters of a line.
LEMMA LetterPiece ==
    ASSUME NEW b \in Seq(Byte), NEW m \in Nat, NEW n \in Nat, m < n, n <= Len(b),
           \A i \in Newlines(b) : i < n => i <= m
    PROVE  SubSeq(b, m + 1, n - 1) \in Seq(Letter)
<1>1. m + 1 \in Nat /\ n - 1 \in Nat /\ 1 <= m + 1 /\ m + 1 <= (n - 1) + 1 /\ n - 1 <= Len(b) /\ Len(b) \in Nat
  BY LenProperties
<1> DEFINE p == SubSeq(b, m + 1, n - 1)
<1>2. /\ p \in Seq(Byte) /\ Len(p) = (n - 1) + 1 - (m + 1)
      /\ \A i \in 1 .. (n - 1) + 1 - (m + 1) : p[i] = b[(m + 1) + i - 1]
  BY <1>1, Piece
<1> HIDE DEF p
<1>3. Len(p) \in Nat /\ \A i \in 1 .. Len(p) : m + i \in 1 .. Len(b) /\ m + i < n /\ m + i > m /\ p[i] = b[m + i]
  BY <1>1, <1>2
<1>4. ASSUME NEW i \in 1 .. Len(p) PROVE p[i] \in Letter
  <2>1. m + i \notin Newlines(b)
    BY <1>3
  <2>2. m + i \in DOMAIN b /\ b[m + i] \in Byte
    BY <1>3, ElementOfSeq, LenProperties
  <2>3. QED
    BY <1>3, <2>1, <2>2 DEF Newlines, Letter
<1>5. p \in Seq(Letter)
  BY <1>2, <1>4
<1>6. QED
  BY <1>5 DEF p

LEMMA LineAtType ==
    ASSUME NEW b \in Seq(Byte), NEW n \in 1 .. Len(b)
    PROVE  LineAt(b, n) \in Seq(Seq(Letter))
<1>1. LineStart(b, n) \in Nat /\ LineStart(b, n) < n /\ \A i \in Newlines(b) : i < n => i <= LineStart(b, n)
  BY LineStarts
<1>2. n \in Nat /\ n <= Len(b)
  BY LenProperties
<1>3. SubSeq(b, LineStart(b, n) + 1, n - 1) \in Seq(Letter)
  BY <1>1, <1>2, LetterPiece
<1>4. Stripped(SubSeq(b, LineStart(b, n) + 1, n - 1)) \in Seq(Letter)
  BY <1>3, StrippedType
<1>5. \A line \in Seq(Letter) : <<line>> \in Seq(Seq(Letter))
  BY FlattenOne
<1>6. QED
  BY <1>4, <1>5, EmptySeq DEF LineAt

LEMMA LinesOfType ==
    ASSUME NEW b \in Seq(Byte)
    PROVE  LinesOf(b) \in Seq(Seq(Letter))
<1>1. [n \in 1 .. Len(b) |-> LineAt(b, n)] \in Seq(Seq(Seq(Letter)))
  BY LineAtType, LenProperties
<1>2. DOMAIN b = 1 .. Len(b)
  BY LenProperties
<1>3. QED
  BY <1>1, <1>2, FlattenType DEF LinesOf

\* The lines behind a newline are those of what is behind it.
LEMMA LineBehind ==
    ASSUME NEW b \in Seq(Byte), NEW n \in Newlines(b), NEW v \in Seq(Byte),
           Len(v) = Len(b) - n, \A i \in 1 .. Len(v) : v[i] = b[n + i],
           NEW i \in 1 .. Len(v)
    PROVE  LineAt(b, n + i) = LineAt(v, i)
<1>1. /\ Len(b) \in Nat /\ Len(v) \in Nat /\ DOMAIN b = 1 .. Len(b) /\ DOMAIN v = 1 .. Len(v)
      /\ n \in 1 .. Len(b) /\ n + i \in 1 .. Len(b) /\ i \in Nat /\ n \in Nat
  BY LenProperties DEF Newlines
<1> DEFINE s == LineStart(v, i)
<1>2. /\ s \in Nat /\ s < i /\ (s = 0 \/ s \in Newlines(v))
      /\ \A j \in Newlines(v) : j < i => j <= s
  BY LineStarts
<1> HIDE DEF s
<1>3. LineStart(b, n + i) = n + s
  <2>1. n + s \in Nat /\ n + s < n + i
    BY <1>1, <1>2
  <2>2. n + s \in Newlines(b)
    <3>1. CASE s = 0
      BY <1>1, <3>1
    <3>2. CASE s # 0
      <4>1. s \in 1 .. Len(v) /\ v[s] = "nl"
        BY <1>1, <1>2, <3>2 DEF Newlines
      <4>2. n + s \in 1 .. Len(b) /\ b[n + s] = "nl"
        BY <1>1, <4>1
      <4>3. QED
        BY <1>1, <4>2 DEF Newlines
    <3>3. QED
      BY <3>1, <3>2
  <2>3. ASSUME NEW j \in Newlines(b), j < n + i PROVE j <= n + s
    <3>1. j \in 1 .. Len(b) /\ b[j] = "nl" /\ j \in Nat
      BY <1>1 DEF Newlines
    <3>2. CASE j <= n
      BY <1>1, <1>2, <3>1, <3>2
    <3>3. CASE j > n
      <4> DEFINE k == j - n
      <4>1. k \in 1 .. Len(v) /\ n + k = j /\ k < i
        BY <1>1, <2>3, <3>1, <3>3
      <4> HIDE DEF k
      <4>2. v[k] = "nl"
        BY <3>1, <4>1
      <4>3. k \in Newlines(v)
        BY <1>1, <4>1, <4>2 DEF Newlines
      <4>4. k <= s
        BY <1>2, <4>1, <4>3
      <4>5. QED
        BY <1>1, <1>2, <4>1, <4>4
    <3>4. QED
      BY <1>1, <3>1, <3>2, <3>3
  <2>4. QED
    BY <1>1, <2>1, <2>2, <2>3, LineStartIs
<1>4. SubSeq(b, (n + s) + 1, (n + i) - 1) = SubSeq(v, s + 1, i - 1)
  <2> DEFINE p == SubSeq(b, (n + s) + 1, (n + i) - 1)
             q == SubSeq(v, s + 1, i - 1)
             l == i - 1 - s
             bs == (n + s) + 1
             be == (n + i) - 1
             vs == s + 1
             ve == i - 1
  <2>1. /\ (n + s) + 1 \in Nat /\ (n + i) - 1 \in Nat /\ 1 <= (n + s) + 1
        /\ (n + s) + 1 <= ((n + i) - 1) + 1 /\ (n + i) - 1 <= Len(b)
        /\ ((n + i) - 1) + 1 - ((n + s) + 1) = l
    BY <1>1, <1>2
  <2>2. /\ s + 1 \in Nat /\ i - 1 \in Nat /\ 1 <= s + 1 /\ s + 1 <= (i - 1) + 1 /\ i - 1 <= Len(v)
        /\ (i - 1) + 1 - (s + 1) = l
    BY <1>1, <1>2
  <2>3. /\ p \in Seq(Byte) /\ Len(p) = ((n + i) - 1) + 1 - ((n + s) + 1)
        /\ \A k \in 1 .. ((n + i) - 1) + 1 - ((n + s) + 1) : p[k] = b[(n + s) + 1 + k - 1]
    <3>1. bs \in Nat /\ be \in Nat /\ 1 <= bs /\ bs <= be + 1 /\ be <= Len(b)
      BY <2>1
    <3> HIDE DEF bs, be, p
    <3>2. /\ SubSeq(b, bs, be) \in Seq(Byte) /\ Len(SubSeq(b, bs, be)) = be + 1 - bs
          /\ \A k \in 1 .. be + 1 - bs : SubSeq(b, bs, be)[k] = b[bs + k - 1]
      BY <1>1, <3>1, Piece
    <3>3. QED
      BY <3>2 DEF bs, be, p
  <2>4. /\ q \in Seq(Byte) /\ Len(q) = (i - 1) + 1 - (s + 1)
        /\ \A k \in 1 .. (i - 1) + 1 - (s + 1) : q[k] = v[s + 1 + k - 1]
    <3>1. vs \in Nat /\ ve \in Nat /\ 1 <= vs /\ vs <= ve + 1 /\ ve <= Len(v)
      BY <2>2
    <3> HIDE DEF vs, ve, q
    <3>2. /\ SubSeq(v, vs, ve) \in Seq(Byte) /\ Len(SubSeq(v, vs, ve)) = ve + 1 - vs
          /\ \A k \in 1 .. ve + 1 - vs : SubSeq(v, vs, ve)[k] = v[vs + k - 1]
      BY <1>1, <3>1, Piece
    <3>3. QED
      BY <3>2 DEF vs, ve, q
  <2> HIDE DEF p, q, bs, be, vs, ve
  <2>5. p \in Seq(Byte) /\ Len(p) = l /\ \A k \in 1 .. l : p[k] = b[(n + s) + 1 + k - 1]
    BY <2>1, <2>3
  <2>6. q \in Seq(Byte) /\ Len(q) = l /\ \A k \in 1 .. l : q[k] = v[s + 1 + k - 1]
    BY <2>2, <2>4
  <2>7. ASSUME NEW k \in 1 .. l PROVE p[k] = q[k]
    <3>1. s + k \in 1 .. Len(v) /\ s + 1 + k - 1 = s + k /\ (n + s) + 1 + k - 1 = n + (s + k)
      BY <1>1, <1>2
    <3>2. v[s + k] = b[n + (s + k)]
      BY <3>1
    <3>3. p[k] = b[n + (s + k)] /\ q[k] = v[s + k]
      BY <2>5, <2>6, <3>1
    <3>4. QED
      BY <3>2, <3>3
  <2>8. p = q
    BY <2>5, <2>6, <2>7, SeqEqual
  <2>9. QED
    BY <2>8 DEF p, q
<1>5. b[n + i] = v[i]
  OBVIOUS
<1>6. QED
  BY <1>3, <1>4, <1>5 DEF LineAt, s

\* The lines of a stream are its first and those behind it.
LEMMA LinesFirst ==
    ASSUME NEW b \in Seq(Byte), NEW n \in Newlines(b), \A m \in Newlines(b) : n <= m,
           NEW line, line = Stripped(SubSeq(b, 1, n - 1))
    PROVE  /\ line \in Seq(Letter) /\ SubSeq(b, n + 1, Len(b)) \in Seq(Byte)
           /\ LinesOf(b) = (IF line = << >> THEN << >> ELSE <<line>>)
                            \o LinesOf(SubSeq(b, n + 1, Len(b)))
<1>1. Len(b) \in Nat /\ DOMAIN b = 1 .. Len(b) /\ n \in 1 .. Len(b) /\ b[n] = "nl" /\ n \in Nat
  BY LenProperties DEF Newlines
<1> DEFINE v == SubSeq(b, n + 1, Len(b))
           at == [i \in 1 .. Len(b) |-> LineAt(b, i)]
           behind == [i \in 1 .. Len(v) |-> LineAt(v, i)]
           first == IF line = << >> THEN << >> ELSE <<line>>
<1>2. v \in Seq(Byte) /\ Len(v) = Len(b) - n /\ \A i \in 1 .. Len(v) : v[i] = b[n + i]
  <2>1. n \in 0 .. Len(b)
    BY <1>1
  <2>2. v \in Seq(Byte) /\ Len(v) = Len(b) - n /\ \A i \in 1 .. Len(b) - n : v[i] = b[n + i]
    BY <2>1, Rest
  <2> HIDE DEF v
  <2>3. QED
    BY <2>2
<1> HIDE DEF v
<1>3. LineStart(b, n) = 0
  BY <1>1, LineStartIs
<1>4. line \in Seq(Letter)
  <2>1. 0 \in Nat /\ 0 < n /\ n <= Len(b) /\ \A i \in Newlines(b) : i < n => i <= 0
    BY <1>1
  <2>2. SubSeq(b, 0 + 1, n - 1) \in Seq(Letter)
    BY <1>1, <2>1, LetterPiece
  <2>3. SubSeq(b, 1, n - 1) \in Seq(Letter)
    <3>1. 0 + 1 = 1
      OBVIOUS
    <3>2. QED
      BY <2>2, <3>1
  <2>4. QED
    BY <2>3, StrippedType
<1>5. LineAt(b, n) = first
  BY <1>1, <1>3 DEF LineAt
<1>6. \A i \in 1 .. n - 1 : LineAt(b, i) = << >>
  <2>1. ASSUME NEW i \in 1 .. n - 1 PROVE b[i] # "nl"
    <3>1. i \in DOMAIN b /\ i < n
      BY <1>1
    <3>2. QED
      BY <1>1, <3>1 DEF Newlines
  <2>2. QED
    BY <2>1 DEF LineAt
<1>7. /\ at \in Seq(Seq(Seq(Letter))) /\ Len(at) = Len(b)
      /\ behind \in Seq(Seq(Seq(Letter))) /\ Len(behind) = Len(v)
  <2>1. \A i \in 1 .. Len(b) : LineAt(b, i) \in Seq(Seq(Letter))
    BY LineAtType
  <2>2. \A i \in 1 .. Len(v) : LineAt(v, i) \in Seq(Seq(Letter))
    BY <1>2, LineAtType
  <2>3. Len(v) \in Nat
    BY <1>1, <1>2
  <2>4. QED
    BY <1>1, <2>1, <2>2, <2>3
<1>8. at[n] = first /\ \A i \in 1 .. n - 1 : at[i] = << >>
  <2>1. \A i \in 1 .. n - 1 : i \in 1 .. Len(b)
    BY <1>1
  <2>2. QED
    BY <1>1, <1>5, <1>6, <2>1
<1>9. \A i \in 1 .. Len(v) : behind[i] = at[n + i]
  <2>1. ASSUME NEW i \in 1 .. Len(v) PROVE n + i \in 1 .. Len(b)
    BY <1>1, <1>2
  <2>2. ASSUME NEW i \in 1 .. Len(v) PROVE LineAt(b, n + i) = LineAt(v, i)
    BY <1>2, LineBehind
  <2>3. QED
    BY <2>1, <2>2
<1>10. LinesOf(b) = FlattenSeq(at)
  BY <1>1 DEF LinesOf
<1>11. LinesOf(v) = FlattenSeq(behind)
  BY <1>2, LenProperties DEF LinesOf
<1> HIDE DEF at, behind, first
<1>12. FlattenSeq(at) = at[n] \o FlattenSeq(behind)
  <2>1. n \in 1 .. Len(at) /\ Len(behind) = Len(at) - n /\ \A i \in 1 .. Len(behind) : behind[i] = at[n + i]
    BY <1>1, <1>2, <1>7, <1>9
  <2>2. \A i \in 1 .. n - 1 : at[i] = << >>
    BY <1>8
  <2> DEFINE Lines == Seq(Letter)
  <2>3. at \in Seq(Seq(Lines)) /\ behind \in Seq(Seq(Lines))
    BY <1>7
  <2> HIDE DEF Lines
  <2>4. QED
    BY <2>1, <2>2, <2>3, FlattenAround
<1>13. LinesOf(b) = first \o LinesOf(v)
  BY <1>8, <1>10, <1>11, <1>12
<1>14. QED
  BY <1>2, <1>4, <1>13 DEF v, first

-----------------------------------------------------------------------------
ReaderInv ==
    /\ ReaderTypeOK /\ LinesArriveWhole
    /\ reader \in {"connects", "recv", "splits"} => retries <= RECV_RETRY_MAX
    /\ reader = "connects" => buf = << >> /\ handled = << >>

LEMMA ReaderInvInit == ReaderInit => ReaderInv
<1> SUFFICES ASSUME ReaderInit PROVE ReaderInv
  OBVIOUS
<1>1. << >> \in Seq(Byte) /\ << >> \in Seq(Seq(Byte \ {"nl"})) /\ << >> \o << >> = << >>
  BY EmptySeq, ConcatEmptySeq
<1>2. LinesOf(<< >>) \in Seq(Seq(Letter))
  BY <1>1, LinesOfType
<1>3. << >> \o LinesOf(<< >>) = LinesOf(<< >>)
  BY <1>2, ConcatEmptySeq
<1>4. Newlines(<< >>) = {}
  BY EmptySeq DEF Newlines
<1>5. QED
  BY <1>1, <1>3, <1>4, ReaderAssumption DEF ReaderInit, ReaderInv, ReaderTypeOK, LinesArriveWhole

LEMMA ReaderInvSplits == ReaderInv /\ Splits => ReaderInv'
<1> SUFFICES ASSUME ReaderInv, Splits PROVE ReaderInv'
  OBVIOUS
<1>1. /\ toCome \in Seq(Byte) /\ buf \in Seq(Byte) /\ stream \in Seq(Byte)
      /\ handled \in Seq(Seq(Letter)) /\ Len(buf) \in Nat /\ Len(toCome) \in Nat
      /\ DOMAIN buf = 1 .. Len(buf)
  BY LenProperties DEF ReaderInv, ReaderTypeOK, Letter
<1>2. CASE Newlines(buf) = {}
  BY <1>2 DEF Splits, ReaderInv, ReaderTypeOK, LinesArriveWhole
<1>3. CASE Newlines(buf) # {}
  <2> DEFINE n == Min(Newlines(buf))
             b == buf \o toCome
             line == Stripped(SubSeq(buf, 1, n - 1))
             first == IF line = << >> THEN << >> ELSE <<line>>
  <2>1. /\ buf' = SubSeq(buf, n + 1, Len(buf))
        /\ handled' = IF line = << >> THEN handled ELSE Append(handled, line)
        /\ reader = "splits" /\ UNCHANGED <<reader, toCome, retries, stream>>
    BY <1>3 DEF Splits
  <2>2. Newlines(buf) \in SUBSET Nat
    BY <1>1 DEF Newlines
  <2>3. n \in Newlines(buf) /\ \A m \in Newlines(buf) : n <= m
    <3>1. PICK x \in Newlines(buf) : \A y \in Newlines(buf) : x <= y
      BY <1>3, <2>2, Least
    <3>2. QED
      BY <3>1, Zenon DEF Min
  <2> HIDE DEF n
  <2>4. n \in 1 .. Len(buf) /\ n \in Nat /\ n \in 0 .. Len(buf)
    BY <1>1, <2>3 DEF Newlines
  <2>5. /\ b \in Seq(Byte) /\ Len(b) = Len(buf) + Len(toCome)
        /\ \A i \in 1 .. Len(buf) + Len(toCome) : b[i] = IF i <= Len(buf) THEN buf[i] ELSE toCome[i - Len(buf)]
    BY <1>1, ConcatProperties
  <2> HIDE DEF b
  <2>6. DOMAIN b = 1 .. Len(b) /\ Len(b) \in Nat
    BY <2>5, LenProperties
  <2>7. n \in Newlines(b) /\ \A m \in Newlines(b) : n <= m
    <3>1. n \in Newlines(b)
      BY <1>1, <2>3, <2>4, <2>5, <2>6 DEF Newlines
    <3>2. ASSUME NEW m \in Newlines(b) PROVE n <= m
      <4>1. m \in 1 .. Len(buf) + Len(toCome) /\ b[m] = "nl"
        BY <2>5, <2>6 DEF Newlines
      <4>2. m <= Len(buf) => m \in Newlines(buf)
        BY <1>1, <2>5, <4>1 DEF Newlines
      <4>3. QED
        BY <1>1, <2>3, <2>4, <4>1, <4>2
    <3>3. QED
      BY <3>1, <3>2
  <2>8. SubSeq(b, 1, n - 1) = SubSeq(buf, 1, n - 1)
    <3> DEFINE p == SubSeq(b, 1, n - 1)
               q == SubSeq(buf, 1, n - 1)
    <3>1. /\ 1 \in Nat /\ n - 1 \in Nat /\ 1 <= (n - 1) + 1 /\ n - 1 <= Len(b) /\ n - 1 <= Len(buf)
          /\ 1 <= 1 /\ (n - 1) + 1 - 1 = n - 1
      BY <1>1, <2>4, <2>5
    <3>2. p \in Seq(Byte) /\ Len(p) = (n - 1) + 1 - 1 /\ \A i \in 1 .. (n - 1) + 1 - 1 : p[i] = b[1 + i - 1]
      BY <2>5, <3>1, Piece
    <3>3. q \in Seq(Byte) /\ Len(q) = (n - 1) + 1 - 1 /\ \A i \in 1 .. (n - 1) + 1 - 1 : q[i] = buf[1 + i - 1]
      BY <1>1, <3>1, Piece
    <3> HIDE DEF p, q
    <3>4. ASSUME NEW i \in 1 .. n - 1 PROVE p[i] = q[i]
      <4>1. i \in 1 .. Len(buf) + Len(toCome) /\ i <= Len(buf) /\ 1 + i - 1 = i
        BY <1>1, <2>4
      <4>2. b[i] = buf[i]
        BY <2>5, <4>1
      <4>3. p[i] = b[i] /\ q[i] = buf[i]
        BY <3>1, <3>2, <3>3, <4>1
      <4>4. QED
        BY <4>2, <4>3
    <3>5. p = q
      BY <3>1, <3>2, <3>3, <3>4, SeqEqual
    <3>6. QED
      BY <3>5 DEF p, q
  <2>9. /\ line \in Seq(Letter) /\ SubSeq(b, n + 1, Len(b)) \in Seq(Byte)
        /\ LinesOf(b) = first \o LinesOf(SubSeq(b, n + 1, Len(b)))
    BY <2>5, <2>7, <2>8, LinesFirst
  <2>10. buf' \in Seq(Byte) /\ Len(buf') = Len(buf) - n /\ \A i \in 1 .. Len(buf) - n : buf'[i] = buf[n + i]
    <3> DEFINE p == SubSeq(buf, n + 1, Len(buf))
    <3>1. p \in Seq(Byte) /\ Len(p) = Len(buf) - n /\ \A i \in 1 .. Len(buf) - n : p[i] = buf[n + i]
      <4>1. buf \in Seq(Byte) /\ n \in 0 .. Len(buf)
        BY <1>1, <2>4
      <4>2. QED
        BY <4>1, Rest, Zenon
    <3>2. buf' = p
      BY <2>1
    <3> HIDE DEF p
    <3>3. QED
      BY <3>1, <3>2
  <2>11. SubSeq(b, n + 1, Len(b)) = buf' \o toCome
    <3> DEFINE p == SubSeq(b, n + 1, Len(b))
               q == buf' \o toCome
               L == Len(buf)
               M == Len(toCome)
    <3>1. n \in 0 .. Len(b)
      BY <1>1, <2>4, <2>5
    <3>2. p \in Seq(Byte) /\ Len(p) = Len(b) - n /\ \A i \in 1 .. Len(b) - n : p[i] = b[n + i]
      BY <2>5, <3>1, Rest
    <3>3. /\ q \in Seq(Byte) /\ Len(q) = Len(buf') + Len(toCome)
          /\ \A i \in 1 .. Len(buf') + Len(toCome) :
               q[i] = IF i <= Len(buf') THEN buf'[i] ELSE toCome[i - Len(buf')]
      BY <1>1, <2>10, ConcatProperties
    <3> HIDE DEF p, q
    <3>4. L \in Nat /\ M \in Nat /\ Len(b) = L + M /\ Len(buf') = L - n /\ n \in Nat /\ n <= L
      BY <1>1, <2>4, <2>5, <2>10
    <3>5. \A i \in 1 .. L + M : b[i] = IF i <= L THEN buf[i] ELSE toCome[i - L]
      BY <2>5
    <3>6. \A i \in 1 .. L - n : buf'[i] = buf[n + i]
      BY <2>10
    <3> HIDE DEF L, M
    <3>7. Len(p) = (L + M) - n /\ \A i \in 1 .. (L + M) - n : p[i] = b[n + i]
      BY <3>2, <3>4
    <3>8. Len(q) = (L + M) - n /\ \A i \in 1 .. (L + M) - n : q[i] = IF i <= L - n THEN buf'[i] ELSE toCome[i - (L - n)]
      <4>1. Len(toCome) = M
        BY DEF M
      <4>2. Len(q) = (L - n) + M
        BY <3>3, <3>4, <4>1
      <4>3. (L - n) + M = (L + M) - n
        BY <3>4
      <4>4. QED
        BY <3>3, <3>4, <4>1, <4>2, <4>3
    <3>9. ASSUME NEW i \in 1 .. (L + M) - n PROVE p[i] = q[i]
      <4>1. n + i \in 1 .. L + M /\ (n + i <= L <=> i <= L - n) /\ (n + i) - L = i - (L - n)
        BY <3>4
      <4>2. p[i] = IF n + i <= L THEN buf[n + i] ELSE toCome[(n + i) - L]
        BY <3>5, <3>7, <4>1
      <4>3. i <= L - n => i \in 1 .. L - n
        OBVIOUS
      <4>4. QED
        BY <3>6, <3>8, <4>1, <4>2, <4>3
    <3>10. p = q
      BY <3>2, <3>3, <3>7, <3>8, <3>9, SeqEqual
    <3>11. QED
      BY <3>10 DEF p, q
  <2>12. LinesOf(b) = first \o LinesOf(buf' \o toCome) /\ LinesOf(buf' \o toCome) \in Seq(Seq(Letter))
    BY <2>9, <2>11, LinesOfType
  <2> HIDE DEF line
  <2>13. first \in Seq(Seq(Letter)) /\ handled' = handled \o first /\ handled' \in Seq(Seq(Letter))
    <3>1. CASE line = << >>
      BY <1>1, <2>1, <3>1, ConcatEmptySeq, EmptySeq
    <3>2. CASE line # << >>
      <4>1. handled' = Append(handled, line) /\ first = <<line>>
        BY <2>1, <3>2
      <4>2. <<line>> \in Seq(Seq(Letter)) /\ Append(handled, line) = handled \o <<line>> /\ Append(handled, line) \in Seq(Seq(Letter))
        BY <1>1, <2>9, FlattenOne, AppendIsConcat, AppendProperties
      <4>3. QED
        BY <4>1, <4>2
    <3>3. QED
      BY <3>1, <3>2
  <2> HIDE DEF first
  <2>14. handled' \o LinesOf(buf' \o toCome) = handled \o LinesOf(b)
    <3> DEFINE z == LinesOf(buf' \o toCome)
    <3>1. z \in Seq(Seq(Letter)) /\ LinesOf(b) = first \o z
      BY <2>12
    <3> HIDE DEF z
    <3>2. (handled \o first) \o z = handled \o (first \o z)
      <4>1. handled \in Seq(Seq(Letter)) /\ first \in Seq(Seq(Letter)) /\ z \in Seq(Seq(Letter))
        BY <1>1, <2>13, <3>1
      <4>2. QED
        <5> DEFINE Lines == Seq(Letter)
        <5>1. handled \in Seq(Lines) /\ first \in Seq(Lines) /\ z \in Seq(Lines)
          BY <4>1
        <5> HIDE DEF Lines
        <5>2. QED
          BY <5>1, Together
    <3>3. handled' \o z = handled \o LinesOf(b)
      BY <2>13, <3>1, <3>2
    <3>4. QED
      BY <3>3 DEF z
  <2>15. handled' \o LinesOf(buf' \o toCome') = LinesOf(stream')
    BY <2>1, <2>14 DEF ReaderInv, LinesArriveWhole, b
  <2>16. QED
    BY <2>1, <2>10, <2>13, <2>15 DEF ReaderInv, ReaderTypeOK, LinesArriveWhole, Letter
<1>4. QED
  BY <1>2, <1>3

LEMMA ReaderInvNext == ReaderInv /\ [ReaderNext]_readerVars => ReaderInv'
<1> SUFFICES ASSUME ReaderInv, [ReaderNext]_readerVars PROVE ReaderInv'
  OBVIOUS
<1>1. CASE Connect
  <2>1. stream' \in Seq(Byte) /\ << >> \in Seq(Seq(Letter)) /\ Newlines(<< >>) = {}
    BY <1>1, ReaderAssumption, EmptySeq DEF Connect, SeqOf, Newlines
  <2>2. buf = << >> /\ handled = << >>
    BY <1>1 DEF Connect, ReaderInv
  <2>3. << >> \o stream' = stream' /\ << >> \o LinesOf(stream') = LinesOf(stream')
    BY <2>1, LinesOfType, ConcatEmptySeq
  <2>4. QED
    BY <1>1, <2>1, <2>2, <2>3 DEF Connect, ReaderInv, ReaderTypeOK, LinesArriveWhole
<1>2. CASE Recv
  <2>1. toCome \in Seq(Byte) /\ buf \in Seq(Byte) /\ Len(toCome) \in Nat
    BY LenProperties DEF ReaderInv, ReaderTypeOK
  <2>2. PICK n \in 1 .. Len(toCome) :
          /\ buf' = buf \o SubSeq(toCome, 1, n)
          /\ toCome' = SubSeq(toCome, n + 1, Len(toCome))
    BY <1>2 DEF Recv
  <2>3. SubSeq(toCome, 1, n) \in Seq(Byte) /\ SubSeq(toCome, n + 1, Len(toCome)) \in Seq(Byte)
    <3>1. 1 \in Nat /\ n \in Nat /\ 1 <= 1 /\ 1 <= n + 1 /\ n <= Len(toCome) /\ n \in 0 .. Len(toCome)
      BY <2>1
    <3>2. QED
      BY <2>1, <3>1, Piece, Rest
  <2>4. SubSeq(toCome, 1, n) \o SubSeq(toCome, n + 1, Len(toCome)) = toCome
    <3>1. 1 \in 1 .. Len(toCome) + 1 /\ n \in 1 - 1 .. Len(toCome) /\ Len(toCome) \in n .. Len(toCome)
      BY <2>1
    <3>2. SubSeq(toCome, 1, n) \o SubSeq(toCome, n + 1, Len(toCome)) = SubSeq(toCome, 1, Len(toCome))
      BY <2>1, <3>1, ConcatAdjacentSubSeq
    <3>3. QED
      BY <2>1, <3>2, SubSeqFull
  <2>5. buf' \in Seq(Byte) /\ toCome' \in Seq(Byte)
    BY <2>1, <2>2, <2>3, ConcatProperties
  <2>6. buf' \o toCome' = buf \o toCome
    <3> DEFINE y == SubSeq(toCome, 1, n)
               z == SubSeq(toCome, n + 1, Len(toCome))
    <3>1. y \in Seq(Byte) /\ z \in Seq(Byte) /\ y \o z = toCome /\ buf' = buf \o y /\ toCome' = z
      BY <2>2, <2>3, <2>4
    <3> HIDE DEF y, z
    <3>2. (buf \o y) \o z = buf \o (y \o z)
      <4>1. buf \in Seq(Byte) /\ y \in Seq(Byte) /\ z \in Seq(Byte)
        BY <2>1, <3>1
      <4>2. \A r, t, u \in Seq(Byte) : (r \o t) \o u = r \o (t \o u)
        BY Together
      <4>3. QED
        BY <4>1, <4>2, Zenon
    <3>3. QED
      BY <3>1, <3>2
  <2>7. retries' = 0 /\ reader' = "splits" /\ UNCHANGED <<stream, handled>>
    BY <1>2 DEF Recv
  <2>8. handled' \o LinesOf(buf' \o toCome') = LinesOf(stream')
    BY <2>6, <2>7 DEF ReaderInv, LinesArriveWhole
  <2>9. LinesArriveWhole'
    BY <2>7, <2>8 DEF LinesArriveWhole
  <2>10. ReaderTypeOK'
    BY <2>5, <2>7, ReaderAssumption DEF ReaderInv, ReaderTypeOK
  <2>11. QED
    BY <2>7, <2>9, <2>10, ReaderAssumption DEF ReaderInv
<1>3. CASE Splits
  BY <1>3, ReaderInvSplits
<1>4. CASE Retry
  BY <1>4, ReaderAssumption DEF Retry, ReaderInv, ReaderTypeOK, LinesArriveWhole
<1>5. CASE LinkEnds
  BY <1>5 DEF LinkEnds, ReaderInv, ReaderTypeOK, LinesArriveWhole
<1>6. CASE UNCHANGED readerVars
  BY <1>6 DEF readerVars, ReaderInv, ReaderTypeOK, LinesArriveWhole
<1>7. QED
  BY <1>1, <1>2, <1>3, <1>4, <1>5, <1>6 DEF ReaderNext, reader_loop

\* However the stream is cut, its lines are handled whole, once and in order: for
\* a stream of any length.
THEOREM LinesAlwaysArriveWhole == ReaderSpec => []LinesArriveWhole
<1>1. ReaderInv => LinesArriveWhole
  BY DEF ReaderInv
<1>2. QED
  BY <1>1, ReaderInvInit, ReaderInvNext, PTL DEF ReaderSpec

\* The types; a reader that still reads has not used its retries up.
THEOREM ReaderTypeCorrect == ReaderSpec => []ReaderTypeOK
<1>1. ReaderInv => ReaderTypeOK
  BY DEF ReaderInv
<1>2. QED
  BY <1>1, ReaderInvInit, ReaderInvNext, PTL DEF ReaderSpec

-----------------------------------------------------------------------------
(* RollCounter.  Each line counted is counted once, and dated right.       *)

\* A day and what is left of it.
LEMMA DayAndStamp ==
    ASSUME NEW x \in Nat
    PROVE  /\ x \div DAY \in Nat /\ x % DAY \in 0 .. DAY - 1
           /\ x = (x \div DAY) * DAY + (x % DAY)
<1>1. DAY \in Nat /\ DAY > 0
  BY RollAssumption
<1>2. QED
  BY <1>1, Z3

\* A product that is less than two days, and more than none back, is one or none.
LEMMA LessThanTwo ==
    ASSUME NEW D \in Nat, D > 0, NEW k \in Int, k * D < 2 * D, k * D > -D
    PROVE  k = 0 \/ k = 1
<1>1. ~(k >= 2)
  <2> SUFFICES ASSUME k >= 2 PROVE FALSE
    OBVIOUS
  <2>1. k - 2 \in Nat
    OBVIOUS
  <2>2. (k - 2) * D >= 0
    BY <2>1, Z3
  <2>3. (k - 2) * D = k * D - 2 * D
    BY Z3
  <2>4. QED
    BY <2>2, <2>3, Z3
<1>2. ~(k <= -1)
  <2> SUFFICES ASSUME k <= -1 PROVE FALSE
    OBVIOUS
  <2>1. -1 - k \in Nat
    OBVIOUS
  <2>2. (-1 - k) * D >= 0
    BY <2>1, Z3
  <2>3. (-1 - k) * D = -D - k * D
    BY Z3
  <2>4. QED
    BY <2>2, <2>3, Z3
<1>3. QED
  BY <1>1, <1>2

\* Of two times less than a day apart the stamp goes back where a midnight is.
LEMMA Midnight ==
    ASSUME NEW a \in Nat, NEW b \in Nat, a <= b, b - a < DAY
    PROVE  b \div DAY = IF b % DAY < a % DAY THEN (a \div DAY) + 1 ELSE a \div DAY
<1> DEFINE p == a \div DAY
           q == b \div DAY
           r == a % DAY
           t == b % DAY
<1>1. DAY \in Nat /\ DAY > 0
  BY RollAssumption
<1>2. /\ p \in Nat /\ q \in Nat /\ r \in Nat /\ t \in Nat /\ r < DAY /\ t < DAY
      /\ a = p * DAY + r /\ b = q * DAY + t
  BY <1>1, DayAndStamp
<1> HIDE DEF p, q, r, t
<1> DEFINE k == q - p
<1>3. k \in Int /\ k * DAY = q * DAY - p * DAY
  BY <1>1, <1>2, Z3
<1>4. q * DAY \in Nat /\ p * DAY \in Nat
  BY <1>1, <1>2, Z3
<1> HIDE DEF k
<1>5. k * DAY = (b - a) + (r - t)
  BY <1>1, <1>2, <1>3, <1>4
<1>6. k * DAY < 2 * DAY /\ k * DAY > -DAY
  BY <1>1, <1>2, <1>5
<1>7. k = 0 \/ k = 1
  BY <1>1, <1>3, <1>6, LessThanTwo
<1>8. CASE k = 0
  <2>1. k * DAY = 0
    BY <1>1, <1>8
  <2>2. ~(t < r)
    BY <1>1, <1>2, <1>5, <2>1
  <2>3. q = p
    BY <1>2, <1>8 DEF k
  <2>4. QED
    BY <2>2, <2>3 DEF p, q, r, t
<1>9. CASE k = 1
  <2>1. k * DAY = DAY
    BY <1>1, <1>9
  <2>2. t < r
    BY <1>1, <1>2, <1>5, <2>1
  <2>3. q = p + 1
    BY <1>2, <1>9 DEF k
  <2>4. QED
    BY <2>2, <2>3 DEF p, q, r, t
<1>10. QED
  BY <1>7, <1>8, <1>9

-----------------------------------------------------------------------------
-----------------------------------------------------------------------------
Entry == [at : 0 .. MaxTime, scores : BOOLEAN]
Event == [line : DOMAIN log, ts : Int, by : {"backfill", "tail"}]

\* From line i on the stamps are in step.
Steady(i) == \A k \in i + 1 .. Len(log) : InStep(k)

\* An event is dated as DatedRight has it, but for what slipped.
RightDate(e) == e.by = "backfill" /\ Steady(e.line) => e.ts = WallOf(e.line)
DatesRight(d) == \A i \in DOMAIN d.events : RightDate(d.events[i])
Tailed(d) == \A i \in DOMAIN d.events : TailedRight(d.events[i])
Once(d) == \A i, j \in DOMAIN d.events : d.events[i].line = d.events[j].line => i = j

LEMMA RolloversType == ASSUME NEW n \in Nat PROVE Rollovers(n) \in Nat
<1> DEFINE R == {i \in 2 .. n : Stamp(i) < Stamp(i - 1)}
<1>1. IsFiniteSet(2 .. n)
  BY FS_Interval
<1>2. IsFiniteSet(R)
  BY <1>1, FS_Subset
<1> HIDE DEF R
<1>3. Cardinality(R) \in Nat
  BY <1>2, FS_CardinalityType
<1>4. QED
  BY <1>3 DEF R, Rollovers

\* One line more: one more midnight, if its stamp goes back.
LEMMA OneMoreLine ==
    ASSUME NEW n \in Nat, n > 0
    PROVE  Rollovers(n + 1) = IF Stamp(n + 1) < Stamp(n) THEN Rollovers(n) + 1 ELSE Rollovers(n)
<1> DEFINE R == {i \in 2 .. n : Stamp(i) < Stamp(i - 1)}
           R1 == {i \in 2 .. n + 1 : Stamp(i) < Stamp(i - 1)}
<1>1. IsFiniteSet(2 .. n)
  BY FS_Interval
<1>2. IsFiniteSet(R)
  BY <1>1, FS_Subset
<1>3. n + 1 \notin R
  OBVIOUS
<1>4. (n + 1) - 1 = n /\ n + 1 \in 2 .. n + 1 /\ 2 .. n + 1 = (2 .. n) \cup {n + 1}
  OBVIOUS
<1>5. CASE Stamp(n + 1) < Stamp(n)
  <2>1. R1 = R \cup {n + 1}
    BY <1>4, <1>5
  <2> HIDE DEF R, R1
  <2>2. Cardinality(R1) = Cardinality(R) + 1
    BY <1>2, <1>3, <2>1, FS_AddElement
  <2>3. QED
    BY <1>5, <2>2 DEF R, R1, Rollovers
<1>6. CASE ~(Stamp(n + 1) < Stamp(n))
  <2>1. R1 = R
    BY <1>4, <1>6
  <2>2. QED
    BY <1>6, <2>1 DEF Rollovers
<1>7. QED
  BY <1>5, <1>6

LEMMA WallType == ASSUME NEW t \in Nat PROVE Wall(t) \in Nat
<1>1. Fold \in Nat /\ Back \in Nat /\ Back <= Fold
  BY RollAssumption
<1>2. QED
  BY <1>1 DEF Wall

LEMMA WallTypes ==
    ASSUME log \in Seq(Entry)
    PROVE  /\ Len(log) \in Nat
           /\ \A i \in 1 .. Len(log) : WallOf(i) \in Nat /\ Stamp(i) \in Nat /\ DateOf(i) \in Nat
<1>1. Len(log) \in Nat
  BY LenProperties
<1>2. ASSUME NEW i \in 1 .. Len(log) PROVE WallOf(i) \in Nat /\ Stamp(i) \in Nat /\ DateOf(i) \in Nat
  <2>1. log[i] \in Entry
    BY ElementOfSeq
  <2>2. log[i].at \in Nat
    BY <2>1, RollAssumption DEF Entry
  <2> DEFINE w == WallOf(i)
  <2>3. w \in Nat
    BY <2>2, WallType DEF WallOf
  <2>4. Stamp(i) = w % DAY /\ DateOf(i) = w \div DAY
    BY DEF Stamp, DateOf
  <2> HIDE DEF w
  <2>5. w \div DAY \in Nat /\ w % DAY \in 0 .. DAY - 1 /\ DAY \in Nat
    BY <2>3, DayAndStamp, RollAssumption
  <2>6. Stamp(i) \in Nat /\ DateOf(i) \in Nat
    BY <2>4, <2>5
  <2>7. QED
    BY <2>3, <2>6 DEF w
<1>3. QED
  BY <1>1, <1>2

\* Of two lines in step, the stamp goes back where a midnight is.
LEMMA OneMoreDay ==
    ASSUME log \in Seq(Entry), NEW n \in 1 .. Len(log), n + 1 \in 1 .. Len(log), InStep(n + 1)
    PROVE  DateOf(n + 1) - DateOf(n) = Rollovers(n + 1) - Rollovers(n)
<1> DEFINE a == WallOf(n)
           b == WallOf(n + 1)
<1>1. /\ a \in Nat /\ b \in Nat /\ DateOf(n) \in Nat /\ n \in Nat /\ n > 0 /\ (n + 1) - 1 = n
  BY WallTypes
<1>2. a <= b /\ b - a < DAY
  BY <1>1 DEF InStep
<1>3. Stamp(n) = a % DAY /\ Stamp(n + 1) = b % DAY /\ DateOf(n) = a \div DAY /\ DateOf(n + 1) = b \div DAY
  BY DEF Stamp, DateOf
<1> HIDE DEF a, b
<1>4. DateOf(n + 1) = IF Stamp(n + 1) < Stamp(n) THEN DateOf(n) + 1 ELSE DateOf(n)
  BY <1>1, <1>2, <1>3, Midnight
<1>5. Rollovers(n + 1) = IF Stamp(n + 1) < Stamp(n) THEN Rollovers(n) + 1 ELSE Rollovers(n)
  BY <1>1, OneMoreLine
<1>6. Rollovers(n) \in Nat
  BY <1>1, RolloversType
<1>7. QED
  BY <1>1, <1>4, <1>5, <1>6

\* And so after a step.
LEMMA OneMoreDayThen ==
    (\A n \in 1 .. Len(log) : log \in Seq(Entry) /\ n + 1 \in 1 .. Len(log) /\ InStep(n + 1) =>
        DateOf(n + 1) - DateOf(n) = Rollovers(n + 1) - Rollovers(n))'
<1>1. \A n \in 1 .. Len(log) : log \in Seq(Entry) /\ n + 1 \in 1 .. Len(log) /\ InStep(n + 1) =>
        DateOf(n + 1) - DateOf(n) = Rollovers(n + 1) - Rollovers(n)
  BY OneMoreDay
<1>2. QED
  BY <1>1, PTL

LEMMA RolloversTypeThen ==
    /\ (\A n \in Nat : Rollovers(n) \in Nat)'
    /\ (\A n \in 1 .. Len(log) : log \in Seq(Entry) => DateOf(n) \in Nat)'
<1>1. \A n \in Nat : Rollovers(n) \in Nat
  BY RolloversType
<1>2. \A n \in 1 .. Len(log) : log \in Seq(Entry) => DateOf(n) \in Nat
  BY WallTypes
<1>3. QED
  BY <1>1, <1>2, PTL

\* So from a line on, the stamps tell how many days later another is.
LEMMA RolloversAreDays ==
    ASSUME log \in Seq(Entry), NEW i \in 1 .. Len(log), Steady(i)
    PROVE  DateOf(Len(log)) - DateOf(i) = Rollovers(Len(log)) - Rollovers(i)
<1>1. Len(log) \in Nat /\ i \in Nat
  BY WallTypes
<1> DEFINE S == {m \in Nat : i + m \in 1 .. Len(log) =>
                                DateOf(i + m) - DateOf(i) = Rollovers(i + m) - Rollovers(i)}
<1>2. 0 \in S
  <2>1. i + 0 = i /\ DateOf(i) \in Nat /\ Rollovers(i) \in Nat
    BY <1>1, WallTypes, RolloversType
  <2>2. QED
    BY <2>1
<1>3. ASSUME NEW m \in Nat, m \in S PROVE m + 1 \in S
  <2> SUFFICES ASSUME i + (m + 1) \in 1 .. Len(log)
               PROVE  DateOf(i + (m + 1)) - DateOf(i) = Rollovers(i + (m + 1)) - Rollovers(i)
    OBVIOUS
  <2> DEFINE n == i + m
  <2>1. /\ n \in 1 .. Len(log) /\ n + 1 \in 1 .. Len(log) /\ i + (m + 1) = n + 1
        /\ n + 1 \in i + 1 .. Len(log)
    BY <1>1
  <2>2. DateOf(n) - DateOf(i) = Rollovers(n) - Rollovers(i)
    BY <1>3, <2>1
  <2> HIDE DEF n, S
  <2>3. InStep(n + 1)
    BY <2>1 DEF Steady
  <2>4. DateOf(n + 1) - DateOf(n) = Rollovers(n + 1) - Rollovers(n)
    BY <2>1, <2>3, OneMoreDay
  <2>5. /\ DateOf(n) \in Nat /\ DateOf(n + 1) \in Nat /\ DateOf(i) \in Nat
        /\ Rollovers(n) \in Nat /\ Rollovers(n + 1) \in Nat /\ Rollovers(i) \in Nat
    BY <1>1, <2>1, WallTypes, RolloversType
  <2>6. DateOf(n + 1) - DateOf(i) = Rollovers(n + 1) - Rollovers(i)
    BY <2>2, <2>4, <2>5
  <2>7. QED
    BY <2>1, <2>6
<1>4. Nat \subseteq S
  <2> HIDE DEF S
  <2>1. QED
    BY <1>2, <1>3, SetInduction
<1> DEFINE m == Len(log) - i
<1>5. m \in Nat /\ i + m = Len(log) /\ i + m \in 1 .. Len(log)
  BY <1>1
<1>6. m \in S
  BY <1>4, <1>5
<1> HIDE DEF m
<1>7. DateOf(i + m) - DateOf(i) = Rollovers(i + m) - Rollovers(i)
  BY <1>5, <1>6
<1>8. QED
  BY <1>5, <1>7

-----------------------------------------------------------------------------
Tally == [backfilled : BOOLEAN, events : Seq(Event)]

\* The date of the first line, as it is counted from any line that is in step with the last.
Anchored == \A i \in DOMAIN log : Steady(i) => anchor + Rollovers(i) = DateOf(i)

RollInv ==
    /\ RollTypeOK
    /\ \A i \in DOMAIN log : log[i].at <= time
    /\ Once(data) /\ Once(rolls) /\ Tailed(data) /\ Tailed(rolls)
    /\ doing \in {"tails", "saves"} => \A i \in DOMAIN data.events : data.events[i].line <= pos
    /\ doing \in {"down", "backfills", "counted"} => data = empty
    /\ doing \in {"backfills", "counted"} => ~rolls.backfilled
    /\ ~slipped =>
        /\ doing = "counted" => Anchored
        /\ DatesRight(data)
        /\ rolls.backfilled => DatesRight(rolls)

LEMMA RollTypes ==
    ASSUME RollTypeOK
    PROVE  /\ time \in Nat /\ mtime \in Nat /\ log \in Seq(Entry) /\ Len(log) \in Nat /\ DOMAIN log = 1 .. Len(log)
           /\ \A i \in 1 .. Len(log) : log[i] \in Entry /\ log[i].at \in Nat
           /\ data \in Tally /\ rolls \in Tally /\ anchor \in Int /\ pos \in Nat
<1>1. /\ log \in Seq(Entry) /\ {time, mtime} \subseteq 0 .. MaxTime /\ data \in Tally /\ rolls \in Tally
      /\ anchor \in Int /\ pos \in 0 .. Len(log)
  BY Zenon DEF RollTypeOK, Entry, Event, Tally
<1>2. Len(log) \in Nat /\ DOMAIN log = 1 .. Len(log)
  BY <1>1, LenProperties
<1>3. \A i \in 1 .. Len(log) : log[i] \in Entry
  BY <1>1, ElementOfSeq
<1>4. \A i \in 1 .. Len(log) : log[i].at \in Nat
  BY <1>3, RollAssumption DEF Entry
<1>5. pos \in Nat /\ time \in Nat /\ mtime \in Nat
  BY <1>1, <1>2, RollAssumption
<1>6. QED
  BY <1>1, <1>2, <1>3, <1>4, <1>5

\* The events of the daemon, or of the file.
LEMMA EventTypes ==
    ASSUME NEW d \in Tally
    PROVE  /\ d.backfilled \in BOOLEAN /\ d.events \in Seq(Event) /\ Len(d.events) \in Nat
           /\ DOMAIN d.events = 1 .. Len(d.events)
           /\ \A i \in 1 .. Len(d.events) :
                d.events[i] \in Event /\ d.events[i].line \in DOMAIN log /\ d.events[i].ts \in Int
<1>1. d.backfilled \in BOOLEAN /\ d.events \in Seq(Event)
  BY DEF Tally
<1>2. \A i \in 1 .. Len(d.events) : d.events[i] \in Event
  BY <1>1, ElementOfSeq
<1>3. QED
  BY <1>1, <1>2, LenProperties DEF Event

LEMMA NoEvents ==
    /\ empty \in Tally /\ empty.events = << >> /\ DOMAIN empty.events = {}
    /\ Once(empty) /\ DatesRight(empty) /\ Tailed(empty)
<1>1. << >> \in Seq(Event) /\ DOMAIN << >> = {}
  BY EmptySeq
<1>2. QED
  BY <1>1 DEF empty, Tally, Once, DatesRight, Tailed

LEMMA MtimeDate == RollTypeOK => Wall(mtime) \div DAY \in Int
<1> SUFFICES ASSUME RollTypeOK PROVE Wall(mtime) \div DAY \in Int
  OBVIOUS
<1> DEFINE w == Wall(mtime)
<1>1. w \in Nat
  BY RollTypes, WallType
<1> HIDE DEF w
<1>2. w \div DAY \in Int
  BY <1>1, DayAndStamp
<1>3. QED
  BY <1>2 DEF w

LEMMA RollInvInit == RollInit => RollInv
<1> SUFFICES ASSUME RollInit PROVE RollInv
  OBVIOUS
<1>1. /\ time = 0 /\ log = << >> /\ mtime = 0 /\ rolls = empty /\ data = empty /\ doing = "down"
      /\ anchor = 0 /\ pos = 0 /\ slipped = FALSE /\ kills = 0
  BY DEF RollInit
<1>2. << >> \in Seq(Entry) /\ DOMAIN << >> = {} /\ Len(<< >>) = 0
  BY EmptySeq
<1>3. RollTypeOK
  <2>1. /\ {time, mtime} \subseteq 0 .. MaxTime /\ anchor \in Int /\ pos \in 0 .. Len(log)
        /\ slipped \in BOOLEAN /\ kills \in 0 .. MaxKills
    <3>1. MaxTime \in Nat /\ MaxKills \in Nat /\ Len(log) = 0
      BY <1>1, <1>2, RollAssumption
    <3>2. {time, mtime} \subseteq 0 .. MaxTime /\ kills \in 0 .. MaxKills
      BY <1>1, <3>1
    <3>3. pos \in 0 .. Len(log) /\ anchor \in Int
      BY <1>1, <3>1
    <3>4. slipped \in BOOLEAN
      BY <1>1
    <3>5. QED
      BY <3>2, <3>3, <3>4, Zenon
  <2>2. log \in Seq(Entry) /\ rolls \in Tally /\ data \in Tally
    BY <1>1, <1>2, NoEvents
  <2>3. QED
    BY <1>1, <2>1, <2>2, Zenon DEF RollTypeOK, Entry, Event, Tally
<1>4. QED
  BY <1>1, <1>2, <1>3, NoEvents DEF RollInv, empty

LEMMA RollInvStarts == RollInv /\ Starts => RollInv'
<1> SUFFICES ASSUME RollInv, Starts PROVE RollInv'
  OBVIOUS
<1>1. UNCHANGED <<time, log, mtime, rolls, pos, slipped, kills>>
  BY Zenon DEF Starts
<1>2. \/ rolls.backfilled /\ data' = rolls /\ doing' = "starts-tail" /\ anchor' = anchor
      \/ ~rolls.backfilled /\ data' = empty /\ doing' = "backfills" /\ anchor' = Wall(mtime) \div DAY
  BY Zenon DEF Starts
<1>3. Wall(mtime) \div DAY \in Int
  BY MtimeDate DEF RollInv
<1>4. DatesRight(rolls)' <=> DatesRight(rolls)
  BY <1>1 DEF DatesRight, RightDate, Steady, InStep, WallOf
<1>5. RollTypeOK'
  <2>1. data' \in Tally /\ anchor' \in Int /\ rolls \in Tally /\ RollTypeOK
    BY <1>2, <1>3, NoEvents, RollTypes DEF RollInv
  <2>2. doing' \in {"down", "backfills", "counted", "starts-tail", "tails", "saves"}
    BY <1>2
  <2>3. Tally' = Tally
    BY <1>1 DEF Tally, Event
  <2>4. (rolls \in Tally)' /\ (data \in Tally)'
    BY <1>1, <2>1, <2>3
  <2>5. QED
    BY <1>1, <2>1, <2>2, <2>4, Zenon DEF RollTypeOK, Entry, Event, Tally
<1>6. Once(data)' /\ Once(rolls)' /\ Tailed(data)' /\ Tailed(rolls)'
  <2>1. CASE data' = rolls
    BY <1>1, <2>1 DEF RollInv, Once, Tailed, TailedRight
  <2>2. CASE data' = empty
    BY <1>1, <2>2, NoEvents DEF RollInv, Once, Tailed, TailedRight
  <2>3. QED
    BY <1>2, <2>1, <2>2
<1>7. ~slipped => DatesRight(data)' /\ (rolls.backfilled => DatesRight(rolls)')
  <2>1. CASE data' = rolls /\ rolls.backfilled
    <3>1. DatesRight(data)' <=> DatesRight(rolls)
      BY <1>1, <2>1 DEF DatesRight, RightDate, Steady, InStep, WallOf
    <3>2. QED
      BY <1>4, <2>1, <3>1 DEF RollInv
  <2>2. CASE data' = empty /\ ~rolls.backfilled
    BY <2>2, NoEvents DEF DatesRight
  <2>3. QED
    BY <1>2, <2>1, <2>2
<1>8. /\ doing' \in {"starts-tail", "backfills"}
      /\ doing' \in {"down", "backfills", "counted"} => data' = empty
      /\ doing' \in {"backfills", "counted"} => ~rolls.backfilled
  BY <1>2
<1>9. QED
  BY <1>1, <1>5, <1>6, <1>7, <1>8 DEF RollInv

LEMMA RollInvCounts == RollInv /\ CountRollovers => RollInv'
<1> SUFFICES ASSUME RollInv, CountRollovers PROVE RollInv'
  OBVIOUS
<1>1. /\ doing = "backfills" /\ doing' = "counted" /\ anchor' = anchor - Rollovers(Len(log))
      /\ slipped' = (log # << >> /\ anchor # DateOf(Len(log)))
      /\ UNCHANGED <<time, log, mtime, rolls, data, pos, kills>>
  BY DEF CountRollovers
<1>2. RollTypeOK
  BY DEF RollInv
<1>3. /\ log \in Seq(Entry) /\ DOMAIN log = 1 .. Len(log) /\ Len(log) \in Nat /\ anchor \in Int
      /\ Rollovers(Len(log)) \in Nat
  BY <1>2, RollTypes, RolloversType
<1>4. anchor' \in Int /\ slipped' \in BOOLEAN
  BY <1>1, <1>3
<1>5. RollTypeOK'
  BY <1>1, <1>2, <1>4 DEF RollTypeOK
<1>6. ASSUME ~slipped', NEW i \in DOMAIN log, Steady(i)
      PROVE  anchor' + Rollovers(i) = DateOf(i)
  <2>1. i \in 1 .. Len(log) /\ Len(log) \in 1 .. Len(log) /\ log # << >>
    BY <1>3, EmptySeq
  <2>2. anchor = DateOf(Len(log))
    BY <1>1, <1>6, <2>1
  <2>3. DateOf(Len(log)) - DateOf(i) = Rollovers(Len(log)) - Rollovers(i)
    BY <1>3, <1>6, <2>1, RolloversAreDays
  <2>4. DateOf(i) \in Nat /\ DateOf(Len(log)) \in Nat /\ Rollovers(i) \in Nat
    <3>1. \A k \in 1 .. Len(log) : DateOf(k) \in Nat
      BY <1>3, WallTypes
    <3>2. i \in Nat
      BY <1>3, <2>1
    <3>3. QED
      BY <2>1, <3>1, <3>2, RolloversType
  <2>5. QED
    BY <1>1, <1>3, <2>2, <2>3, <2>4
<1>7. ~slipped' => Anchored'
  <2>1. /\ DOMAIN log' = DOMAIN log
        /\ \A i \in DOMAIN log : /\ Steady(i)' <=> Steady(i)
                                 /\ Rollovers(i)' = Rollovers(i) /\ DateOf(i)' = DateOf(i)
    BY <1>1 DEF Steady, InStep, Rollovers, Stamp, DateOf, WallOf
  <2>2. QED
    BY <1>6, <2>1 DEF Anchored
<1>8. data = empty /\ ~rolls.backfilled
  BY <1>1 DEF RollInv
<1>9. DatesRight(data)' /\ Tailed(data)' /\ Tailed(rolls)'
  BY <1>1, <1>8, NoEvents DEF RollInv, DatesRight, Tailed, TailedRight
<1>10. QED
  BY <1>1, <1>5, <1>7, <1>8, <1>9 DEF RollInv, Once

LEMMA RollInvBackfill == RollInv /\ Backfill => RollInv'
<1> SUFFICES ASSUME RollInv, Backfill PROVE RollInv'
  OBVIOUS
<1> DEFINE dated(i) == (anchor + Rollovers(i)) * DAY + Stamp(i)
           pieces == [i \in DOMAIN log |-> Scored(i, dated(i), "backfill")]
           found == FlattenSeq(pieces)
<1>1. /\ doing = "counted" /\ doing' = "starts-tail" /\ rolls' = data'
      /\ data' = [backfilled |-> TRUE, events |-> data.events \o found]
      /\ UNCHANGED <<time, log, mtime, anchor, pos, slipped, kills>>
  BY DEF Backfill
<1>2. RollTypeOK
  BY DEF RollInv
<1>3. /\ log \in Seq(Entry) /\ Len(log) \in Nat /\ DOMAIN log = 1 .. Len(log) /\ anchor \in Int
  BY <1>2, RollTypes
<1>4. ASSUME NEW i \in 1 .. Len(log)
      PROVE  dated(i) \in Int
  <2> DEFINE r == Rollovers(i)
             k == anchor + r
             w == Stamp(i)
  <2>1. r \in Nat /\ DAY \in Nat /\ w \in Nat
    BY <1>3, RolloversType, WallTypes, RollAssumption
  <2> HIDE DEF w, r
  <2>2. k \in Int
    BY <1>3, <2>1
  <2> HIDE DEF k
  <2>3. k * DAY + w \in Int
    BY <2>1, <2>2, Z3
  <2>4. QED
    BY <2>3 DEF k, w, r
<1>5. ASSUME NEW i \in 1 .. Len(log), ~slipped, Steady(i)
      PROVE  dated(i) = WallOf(i)
  <2> DEFINE x == WallOf(i)
             k == anchor + Rollovers(i)
             w == Stamp(i)
  <2>1. k = DateOf(i)
    BY <1>1, <1>3, <1>5 DEF RollInv, Anchored
  <2>2. x \in Nat /\ k = x \div DAY /\ w = x % DAY
    BY <1>3, <2>1, WallTypes DEF DateOf, Stamp
  <2> HIDE DEF x, k, w
  <2>3. x = k * DAY + w
    BY <2>2, DayAndStamp
  <2>4. QED
    BY <2>3 DEF x, k, w
<1> HIDE DEF dated
<1>6. ASSUME NEW i \in 1 .. Len(log)
      PROVE  \/ pieces[i] = << >>
             \/ \E e \in Event :
                  /\ pieces[i] = <<e>> /\ e.line = i
                  /\ e = [line |-> i, ts |-> dated(i), by |-> "backfill"]
  <2> DEFINE e == [line |-> i, ts |-> dated(i), by |-> "backfill"]
  <2>1. e \in Event /\ e.line = i
    BY <1>3, <1>4 DEF Event
  <2>2. pieces[i] = Scored(i, dated(i), "backfill")
    BY <1>3
  <2>3. pieces[i] = << >> \/ pieces[i] = <<e>>
    BY <2>2 DEF Scored
  <2> HIDE DEF e, pieces
  <2>4. QED
    BY <2>1, <2>3 DEF e
<1>7. pieces \in Seq(Seq(Event)) /\ Len(pieces) = Len(log)
  <2>1. \A i \in 1 .. Len(log) : pieces[i] \in Seq(Event)
    <3> HIDE DEF pieces
    <3>1. << >> \in Seq(Event) /\ \A e \in Event : <<e>> \in Seq(Event)
      OBVIOUS
    <3>2. QED
      BY <1>6, <3>1
  <2>2. pieces = [i \in 1 .. Len(log) |-> pieces[i]]
    BY <1>3
  <2> HIDE DEF pieces
  <2> DEFINE U == Seq(Event)
  <2>3. \A i \in 1 .. Len(log) : pieces[i] \in U
    BY <2>1
  <2> HIDE DEF U
  <2>4. pieces \in [1 .. Len(log) -> U]
    BY <2>2, <2>3
  <2>5. pieces \in Seq(U) /\ Len(pieces) = Len(log)
    BY <1>3, <2>4
  <2>6. QED
    BY <2>5 DEF U
<1> HIDE DEF pieces, found
<1>8. /\ found \in Seq(Event)
      /\ \A a \in 1 .. Len(found) : found[a].line \in 1 .. Len(log) /\ pieces[found[a].line] = <<found[a]>>
      /\ \A a, b \in 1 .. Len(found) : found[a].line = found[b].line => a = b
  <2>1. \A i \in 1 .. Len(pieces) : pieces[i] = << >> \/ \E e \in Event : pieces[i] = <<e>> /\ e.line = i
    BY <1>6, <1>7
  <2>2. /\ FlattenSeq(pieces) \in Seq(Event)
        /\ \A a \in 1 .. Len(FlattenSeq(pieces)) :
             /\ FlattenSeq(pieces)[a].line \in 1 .. Len(pieces)
             /\ pieces[FlattenSeq(pieces)[a].line] = <<FlattenSeq(pieces)[a]>>
        /\ \A a, b \in 1 .. Len(FlattenSeq(pieces)) :
             FlattenSeq(pieces)[a].line = FlattenSeq(pieces)[b].line => a = b
    BY <1>7, <2>1, FlattenOnes
  <2>3. QED
    BY <1>7, <2>2 DEF found
<1>9. ASSUME NEW a \in 1 .. Len(found)
      PROVE  /\ found[a].ts = dated(found[a].line) /\ found[a].line \in 1 .. Len(log)
             /\ found[a].by = "backfill"
  <2> DEFINE i == found[a].line
  <2>1. i \in 1 .. Len(log) /\ pieces[i] = <<found[a]>>
    BY <1>8
  <2> HIDE DEF i
  <2>2. PICK e \in Event : pieces[i] = <<e>> /\ e = [line |-> i, ts |-> dated(i), by |-> "backfill"]
    <3>1. \/ pieces[i] = << >>
          \/ \E e \in Event : pieces[i] = <<e>> /\ e = [line |-> i, ts |-> dated(i), by |-> "backfill"]
      BY <1>6, <2>1
    <3>2. pieces[i] # << >>
      BY <2>1
    <3>3. QED
      BY <3>1, <3>2
  <2>3. found[a] = e
    BY <2>1, <2>2
  <2>4. QED
    BY <2>1, <2>2, <2>3 DEF i
<1>10. data.events = << >> /\ data.events \o found = found
  BY <1>1, <1>8, NoEvents, ConcatEmptySeq DEF RollInv
<1>11. data' = [backfilled |-> TRUE, events |-> found] /\ rolls' = data'
  BY <1>1, <1>10
<1>12. /\ data' \in Tally /\ data'.events = found /\ DOMAIN found = 1 .. Len(found)
  BY <1>8, <1>11, LenProperties DEF Tally
<1>13. Once(data') /\ Once(rolls')
  BY <1>8, <1>11, <1>12 DEF Once
<1>14. ~slipped => DatesRight(data)' /\ DatesRight(rolls)'
  <2> SUFFICES ASSUME ~slipped PROVE DatesRight(data)'
    BY <1>1 DEF DatesRight
  <2> SUFFICES ASSUME NEW a \in DOMAIN found PROVE RightDate(data.events[a])'
    BY <1>12 DEF DatesRight
  <2>1. PICK e \in Event : e = found[a]
    BY <1>8, <1>12, ElementOfSeq
  <2>2. PICK i \in 1 .. Len(log) : i = e.line
    BY <1>9, <1>12, <2>1
  <2>3. e.ts = dated(i) /\ e.by = "backfill"
    BY <1>9, <1>12, <2>1, <2>2
  <2>4. Steady(i) => e.ts = WallOf(i)
    BY <1>5, <2>3
  <2>5. (Steady(i)' <=> Steady(i)) /\ WallOf(i)' = WallOf(i)
    BY <1>1 DEF Steady, InStep, WallOf
  <2>6. RightDate(e)'
    BY <2>2, <2>3, <2>4, <2>5 DEF RightDate
  <2>7. data'.events[a] = e
    BY <1>12, <2>1
  <2>8. QED
    BY <2>6, <2>7 DEF RightDate, Steady, InStep, WallOf
<1>15. Tailed(data)' /\ Tailed(rolls)'
  <2>1. \A a \in DOMAIN data'.events : data'.events[a].by = "backfill"
    BY <1>9, <1>12
  <2>2. QED
    BY <1>1, <2>1 DEF Tailed, TailedRight
<1>16. RollTypeOK'
  <2>1. Tally' = Tally
    BY <1>1 DEF Tally, Event
  <2>2. (rolls \in Tally)' /\ (data \in Tally)'
    BY <1>11, <1>12, <2>1
  <2>3. QED
    BY <1>1, <1>2, <2>2, Zenon DEF RollTypeOK, Entry, Event, Tally
<1>17. QED
  BY <1>1, <1>13, <1>14, <1>16, <1>15 DEF RollInv, Once

LEMMA RollInvTails == RollInv /\ StartTail => RollInv'
<1> SUFFICES ASSUME RollInv, StartTail PROVE RollInv'
  OBVIOUS
<1>1. /\ doing = "starts-tail" /\ doing' = "tails" /\ pos' = Len(log)
      /\ UNCHANGED <<time, log, mtime, rolls, data, anchor, slipped, kills>>
  BY DEF StartTail
<1>2. RollTypeOK
  BY DEF RollInv
<1>3. pos' \in 0 .. Len(log)'
  BY <1>1, <1>2, RollTypes
<1>4. RollTypeOK'
  BY <1>1, <1>2, <1>3 DEF RollTypeOK
<1>5. \A i \in DOMAIN data.events : data.events[i].line <= Len(log)
  <2>1. DOMAIN log = 1 .. Len(log) /\ Len(log) \in Nat /\ data \in Tally
    BY <1>2, RollTypes
  <2>2. \A i \in DOMAIN data.events : data.events[i].line \in DOMAIN log
    BY <2>1, EventTypes
  <2>3. \A m \in DOMAIN log : m <= Len(log)
    BY <2>1
  <2>4. QED
    BY <2>2, <2>3
<1>6. QED
  BY <1>1, <1>4, <1>5 DEF RollInv, Once, Tailed, TailedRight, DatesRight, RightDate, Steady, InStep, WallOf

LEMMA RollInvLine == RollInv /\ TailLine => RollInv'
<1> SUFFICES ASSUME RollInv, TailLine PROVE RollInv'
  OBVIOUS
<1> DEFINE n == pos + 1
           e == [line |-> n, ts |-> time, by |-> "tail"]
           old == data.events
           new == data'.events
<1>1. /\ doing = "tails" /\ pos < Len(log) /\ pos' = n
      /\ data' = [data EXCEPT !.events = @ \o Scored(n, time, "tail")]
      /\ doing' = IF log[n].scores THEN "saves" ELSE "tails"
      /\ UNCHANGED <<time, log, mtime, rolls, anchor, slipped, kills>>
  BY DEF TailLine, Process
<1>2. RollTypeOK
  BY DEF RollInv
<1>3. /\ time \in Nat /\ Len(log) \in Nat /\ DOMAIN log = 1 .. Len(log)
      /\ pos \in Nat /\ data \in Tally /\ rolls \in Tally
      /\ \A i \in 1 .. Len(log) : log[i].at \in Nat
  BY <1>2, RollTypes
<1>4. n \in DOMAIN log /\ n \in 1 .. Len(log) /\ n \in Nat
  BY <1>1, <1>3
<1>5. /\ old \in Seq(Event) /\ Len(old) \in Nat /\ DOMAIN old = 1 .. Len(old)
      /\ data.backfilled \in BOOLEAN
      /\ \A i \in 1 .. Len(old) : old[i] \in Event /\ old[i].line \in DOMAIN log
  BY <1>3, EventTypes
<1>6. \A i \in 1 .. Len(old) : old[i].line <= pos
  BY <1>1, <1>5 DEF RollInv
<1>7. Scored(n, time, "tail") = << >> \/ Scored(n, time, "tail") = <<e>>
  BY DEF Scored
<1>8. e \in Event /\ e.line = n /\ e.ts = time /\ e.by = "tail"
  BY <1>3, <1>4 DEF Event
<1> HIDE DEF e
<1>9. new = old \/ new = Append(old, e)
  <2>1. new = old \o Scored(n, time, "tail")
    <3>1. data = [backfilled |-> data.backfilled, events |-> data.events]
      BY <1>3 DEF Tally
    <3>2. QED
      BY <1>1, <3>1
  <2>2. CASE Scored(n, time, "tail") = << >>
    BY <1>5, <2>1, <2>2, ConcatEmptySeq
  <2>3. CASE Scored(n, time, "tail") = <<e>>
    BY <1>5, <1>8, <2>1, <2>3, AppendIsConcat
  <2>4. QED
    BY <1>7, <2>2, <2>3
<1>10. data' = [backfilled |-> data.backfilled, events |-> new]
  <2>1. data = [backfilled |-> data.backfilled, events |-> data.events]
    BY <1>3 DEF Tally
  <2>2. QED
    BY <1>1, <2>1
<1> HIDE DEF n, old, new
<1>11. /\ new \in Seq(Event) /\ Len(new) \in Nat /\ DOMAIN new = 1 .. Len(new)
       /\ \A i \in 1 .. Len(new) : \/ i \in 1 .. Len(old) /\ new[i] = old[i]
                                   \/ i = Len(old) + 1 /\ new[i] = e
  <2>1. CASE new = old
    BY <1>5, <2>1
  <2>2. CASE new = Append(old, e)
    <3>1. /\ Append(old, e) \in Seq(Event) /\ Len(Append(old, e)) = Len(old) + 1
          /\ Append(old, e)[Len(old) + 1] = e
          /\ \A i \in 1 .. Len(old) : Append(old, e)[i] = old[i]
      BY <1>5, <1>8, AppendProperties
    <3>2. new \in Seq(Event) /\ Len(new) = Len(old) + 1 /\ new[Len(old) + 1] = e
          /\ \A i \in 1 .. Len(old) : new[i] = old[i]
      BY <2>2, <3>1
    <3>3. Len(new) \in Nat /\ DOMAIN new = 1 .. Len(new)
      BY <3>2, LenProperties
    <3>4. ASSUME NEW i \in 1 .. Len(new)
          PROVE  \/ i \in 1 .. Len(old) /\ new[i] = old[i]
                 \/ i = Len(old) + 1 /\ new[i] = e
      <4>1. i \in 1 .. Len(old) \/ i = Len(old) + 1
        BY <1>5, <3>2
      <4>2. QED
        BY <3>2, <4>1
    <3>5. QED
      BY <3>2, <3>3, <3>4
  <2>3. QED
    BY <1>9, <2>1, <2>2
<1>12. \A i \in 1 .. Len(new) : new[i].line <= n
  BY <1>3, <1>4, <1>5, <1>6, <1>8, <1>11 DEF n
<1>13. ASSUME NEW i \in 1 .. Len(new), NEW j \in 1 .. Len(new), new[i].line = new[j].line
       PROVE  i = j
  <2>1. \A k \in 1 .. Len(old) : old[k].line # n
    BY <1>3, <1>6 DEF n
  <2>2. i \in 1 .. Len(old) <=> j \in 1 .. Len(old)
    BY <1>5, <1>8, <1>11, <1>13, <2>1
  <2>3. CASE i \in 1 .. Len(old)
    <3>1. new[i] = old[i] /\ new[j] = old[j] /\ j \in 1 .. Len(old)
      BY <1>5, <1>11, <2>2, <2>3
    <3>2. DOMAIN data.events = 1 .. Len(old)
      BY <1>5 DEF old
    <3>3. old[i].line = old[j].line => i = j
      BY <2>3, <3>1, <3>2 DEF RollInv, Once, old
    <3>4. QED
      BY <1>13, <3>1, <3>3
  <2>4. CASE i \notin 1 .. Len(old)
    BY <1>11, <2>2, <2>4
  <2>5. QED
    BY <2>3, <2>4
<1>14. data' \in Tally /\ data'.events = new
  BY <1>5, <1>10, <1>11 DEF Tally
<1>15. Once(data')
  BY <1>11, <1>13, <1>14 DEF Once
<1>16. ~slipped => DatesRight(data)' /\ (rolls.backfilled => DatesRight(rolls)')
  <2> SUFFICES ASSUME ~slipped
               PROVE  DatesRight(data)' /\ (rolls.backfilled => DatesRight(rolls)')
    OBVIOUS
  <2>1. DatesRight(data) /\ (rolls.backfilled => DatesRight(rolls))
    BY DEF RollInv
  <2>2. \A i \in 1 .. Len(old) : RightDate(old[i])
    BY <1>5, <2>1 DEF DatesRight, old
  <2>4. RightDate(e)
    BY <1>8 DEF RightDate
  <2>5. \A i \in 1 .. Len(new) : RightDate(new[i])
    BY <1>11, <2>2, <2>4
  <2>6. \A i \in DOMAIN data'.events : RightDate(data'.events[i])
    BY <1>11, <1>14, <2>5
  <2>7. DatesRight(data)'
    BY <1>1, <2>6 DEF DatesRight, RightDate, Steady, InStep, WallOf
  <2>8. DatesRight(rolls)' <=> DatesRight(rolls)
    BY <1>1 DEF DatesRight, RightDate, Steady, InStep, WallOf
  <2>9. QED
    BY <2>1, <2>7, <2>8
<1>17. Tailed(data)' /\ Tailed(rolls)'
  <2>1. log[n].at <= time
    BY <1>4 DEF RollInv
  <2>2. TailedRight(e)
    BY <1>3, <1>4, <1>8, <2>1 DEF TailedRight
  <2>3. \A i \in 1 .. Len(old) : TailedRight(old[i])
    BY <1>5 DEF RollInv, Tailed, old
  <2>4. \A i \in 1 .. Len(new) : TailedRight(new[i])
    BY <1>11, <2>2, <2>3
  <2>5. \A i \in DOMAIN data'.events : TailedRight(data'.events[i])
    BY <1>11, <1>14, <2>4
  <2>6. Tailed(data)'
    BY <1>1, <2>5 DEF Tailed, TailedRight
  <2>7. Tailed(rolls)'
    BY <1>1 DEF RollInv, Tailed, TailedRight
  <2>8. QED
    BY <2>6, <2>7
<1>18. RollTypeOK'
  <2>1. Tally' = Tally
    BY <1>1 DEF Tally, Event
  <2>2. (rolls \in Tally)' /\ (data \in Tally)'
    BY <1>1, <1>3, <1>14, <2>1
  <2>3. pos' \in 0 .. Len(log)' /\ doing' \in {"saves", "tails"}
    BY <1>1, <1>3, <1>4
  <2>4. QED
    BY <1>1, <1>2, <2>2, <2>3 DEF RollTypeOK, Entry, Event, Tally
<1>19. \A i \in DOMAIN data'.events : data'.events[i].line <= pos'
  BY <1>1, <1>11, <1>12, <1>14
<1>20. /\ doing' \in {"saves", "tails"}
       /\ Once(rolls)' /\ \A i \in DOMAIN log' : log'[i].at <= time'
  BY <1>1 DEF RollInv, Once
<1>21. QED
  BY <1>1, <1>15, <1>16, <1>18, <1>19, <1>20, <1>17 DEF RollInv, Once

LEMMA RollInvSaves == RollInv /\ Save => RollInv'
<1> SUFFICES ASSUME RollInv, Save PROVE RollInv'
  OBVIOUS
<1>1. /\ doing = "saves" /\ doing' = "tails" /\ rolls' = data
      /\ UNCHANGED <<time, log, mtime, data, anchor, pos, slipped, kills>>
  BY DEF Save
<1>2. RollTypeOK'
  BY <1>1, Zenon DEF RollInv, RollTypeOK
<1>3. QED
  BY <1>1, <1>2 DEF RollInv, Once, Tailed, TailedRight, DatesRight, RightDate, Steady, InStep, WallOf

LEMMA RollInvKill == RollInv /\ Kill => RollInv'
<1> SUFFICES ASSUME RollInv, Kill PROVE RollInv'
  OBVIOUS
<1>1. /\ kills < MaxKills /\ kills' = kills + 1 /\ doing' = "down" /\ data' = empty
      /\ UNCHANGED <<time, log, mtime, rolls, anchor, pos, slipped>>
  BY DEF Kill
<1>2. RollTypeOK
  BY DEF RollInv
<1>3. kills' \in 0 .. MaxKills
  BY <1>1, <1>2, RollAssumption DEF RollTypeOK
<1>4. RollTypeOK'
  <2>1. Tally' = Tally
    BY <1>1 DEF Tally, Event
  <2>2. (rolls \in Tally)' /\ (data \in Tally)'
    BY <1>1, <1>2, <2>1, RollTypes, NoEvents
  <2>3. QED
    BY <1>1, <1>2, <1>3, <2>2, Zenon DEF RollTypeOK, Entry, Event, Tally
<1>5. Once(data)' /\ DatesRight(data)' /\ Tailed(data)' /\ Tailed(rolls)'
  BY <1>1, NoEvents DEF RollInv, Once, DatesRight, Tailed, TailedRight
<1>6. QED
  BY <1>1, <1>4, <1>5 DEF RollInv, Once, DatesRight, RightDate, Steady, InStep, WallOf

LEMMA RollInvFlip == RollInv /\ Flip => RollInv'
<1> SUFFICES ASSUME RollInv, Flip PROVE RollInv'
  OBVIOUS
<1>1. /\ doing = "down" /\ kills < MaxKills /\ kills' = kills + 1
      /\ rolls' = [rolls EXCEPT !.backfilled = FALSE]
      /\ UNCHANGED <<time, log, mtime, data, doing, anchor, pos, slipped>>
  BY DEF Flip
<1>2. RollTypeOK
  BY DEF RollInv
<1>3. rolls \in Tally
  BY <1>2, RollTypes
<1>4. rolls' \in Tally /\ rolls'.events = rolls.events /\ ~rolls'.backfilled
  BY <1>1, <1>3 DEF Tally
<1>5. kills' \in 0 .. MaxKills
  BY <1>1, <1>2, RollAssumption DEF RollTypeOK
<1>6. RollTypeOK'
  <2>1. Tally' = Tally
    BY <1>1 DEF Tally, Event
  <2>2. (rolls \in Tally)' /\ (data \in Tally)'
    BY <1>1, <1>2, <1>4, <2>1, RollTypes
  <2>3. QED
    BY <1>1, <1>2, <1>5, <2>2, Zenon DEF RollTypeOK, Entry, Event, Tally
<1>7. /\ (Once(rolls)' <=> Once(rolls)) /\ Once(data)' /\ (DatesRight(data)' <=> DatesRight(data))
      /\ Tailed(data)' /\ Tailed(rolls)'
  BY <1>1, <1>4 DEF RollInv, Once, Tailed, TailedRight, DatesRight, RightDate, Steady, InStep, WallOf
<1>8. QED
  BY <1>1, <1>4, <1>6, <1>7 DEF RollInv

LEMMA RollInvTime == RollInv /\ TimePasses => RollInv'
<1> SUFFICES ASSUME RollInv, TimePasses PROVE RollInv'
  OBVIOUS
<1>1. /\ time < MaxTime /\ time' = time + 1
      /\ UNCHANGED <<log, mtime, rolls, data, doing, anchor, pos, slipped, kills>>
  BY DEF TimePasses
<1>2. RollTypeOK
  BY DEF RollInv
<1>3. /\ time \in Nat /\ DOMAIN log = 1 .. Len(log)
      /\ \A i \in 1 .. Len(log) : log[i].at \in Nat
  BY <1>2, RollTypes
<1>4. {time, mtime}' \subseteq 0 .. MaxTime
  BY <1>1, <1>2, <1>3, RollAssumption DEF RollTypeOK
<1>5. RollTypeOK'
  BY <1>1, <1>2, <1>4, Zenon DEF RollTypeOK
<1>6. \A i \in DOMAIN log : log[i].at <= time'
  BY <1>1, <1>3 DEF RollInv
<1>7. /\ Once(data)' /\ Once(rolls)' /\ Tailed(data)' /\ Tailed(rolls)' /\ (Anchored' <=> Anchored)
      /\ (DatesRight(data)' <=> DatesRight(data)) /\ (DatesRight(rolls)' <=> DatesRight(rolls))
  BY <1>1 DEF RollInv, Once, Tailed, TailedRight, Anchored, Rollovers, Stamp, DateOf, DatesRight, RightDate,
     Steady, InStep, WallOf
<1>8. QED
  BY <1>1, <1>5, <1>6, <1>7 DEF RollInv

LEMMA RollInvLogs ==
    ASSUME NEW at \in 0 .. time, NEW scores \in BOOLEAN, RollInv, BotLogs(at, scores)
    PROVE  RollInv'
<1> DEFINE x == [at |-> at, scores |-> scores]
<1>1. /\ log' = Append(log, x)
      /\ slipped' = (\/ slipped
                     \/ doing = "counted" /\ (log = << >> \/ ~InStep(Len(log))'))
      /\ mtime' = time
      /\ UNCHANGED <<time, rolls, data, doing, anchor, pos, kills>>
  BY DEF BotLogs
<1>2. RollTypeOK
  BY DEF RollInv
<1>3. /\ time \in Nat /\ time \in 0 .. MaxTime /\ at \in 0 .. MaxTime /\ at \in Nat /\ at <= time /\ log \in Seq(Entry) /\ Len(log) \in Nat
      /\ DOMAIN log = 1 .. Len(log) /\ data \in Tally /\ rolls \in Tally /\ pos \in 0 .. Len(log)
      /\ \A i \in 1 .. Len(log) : log[i].at \in Nat /\ log[i].at <= time
  <2>1. time \in 0 .. MaxTime /\ pos \in 0 .. Len(log)
    BY <1>2 DEF RollTypeOK
  <2>5. at \in 0 .. MaxTime /\ at \in Nat /\ at <= time
    BY <2>1, RollAssumption
  <2>2. DOMAIN log = 1 .. Len(log)
    BY <1>2, RollTypes
  <2>3. \A i \in 1 .. Len(log) : log[i].at <= time
    BY <2>2 DEF RollInv
  <2>4. QED
    BY <1>2, <2>1, <2>3, <2>5, RollTypes
<1>4. x \in Entry /\ x.at = at
  BY <1>3 DEF Entry
<1> HIDE DEF x
<1>5. /\ log' \in Seq(Entry) /\ Len(log') = Len(log) + 1 /\ log'[Len(log) + 1] = x
      /\ DOMAIN log' = 1 .. Len(log')
      /\ \A i \in 1 .. Len(log) : log'[i] = log[i]
  <2> DEFINE more == Append(log, x)
  <2>1. /\ more \in Seq(Entry) /\ Len(more) = Len(log) + 1 /\ more[Len(log) + 1] = x
        /\ \A i \in 1 .. Len(log) : more[i] = log[i]
    BY <1>3, <1>4, AppendProperties
  <2>2. log' = more
    BY <1>1
  <2> HIDE DEF more
  <2>3. DOMAIN more = 1 .. Len(more)
    BY <2>1, LenProperties
  <2>4. QED
    BY <2>1, <2>2, <2>3
<1>6. \A i \in DOMAIN log' : log'[i].at <= time'
  <2>1. \A i \in 1 .. Len(log) + 1 : i \in 1 .. Len(log) \/ i = Len(log) + 1
    BY <1>3
  <2>2. QED
    BY <1>1, <1>3, <1>4, <1>5, <2>1
<1>7. ASSUME NEW i \in 1 .. Len(log)
      PROVE  /\ WallOf(i)' = WallOf(i) /\ Stamp(i)' = Stamp(i) /\ DateOf(i)' = DateOf(i)
             /\ Rollovers(i)' = Rollovers(i)
             /\ Steady(i)' => Steady(i)
  <2>1. \A k \in 1 .. Len(log) : WallOf(k)' = WallOf(k) /\ Stamp(k)' = Stamp(k) /\ DateOf(k)' = DateOf(k)
    BY <1>5 DEF WallOf, Stamp, DateOf
  <2>2. \A k \in 2 .. i : k \in 1 .. Len(log) /\ k - 1 \in 1 .. Len(log)
    BY <1>3
  <2>3. Rollovers(i)' = Rollovers(i)
    <3>1. {k \in 2 .. i : Stamp(k) < Stamp(k - 1)}' = {k \in 2 .. i : Stamp(k) < Stamp(k - 1)}
      BY <2>1, <2>2
    <3>2. QED
      BY <3>1 DEF Rollovers
  <2>4. ASSUME Steady(i)', NEW k \in i + 1 .. Len(log) PROVE InStep(k)
    <3>1. k \in i + 1 .. Len(log)' /\ k \in 1 .. Len(log) /\ k - 1 \in 1 .. Len(log)
      BY <1>3, <1>5
    <3>2. InStep(k)'
      BY <2>4, <3>1 DEF Steady
    <3>3. QED
      BY <2>1, <3>1, <3>2 DEF InStep
  <2>5. Steady(i)' => Steady(i)
    BY <2>4 DEF Steady
  <2>6. QED
    BY <2>1, <2>3, <2>5
<1>8. Event \subseteq Event'
  BY <1>3, <1>5 DEF Event
<1>9. ASSUME NEW d \in Tally PROVE (d \in Tally)'
  <2> DEFINE E == Event'
  <2>1. d = [backfilled |-> d.backfilled, events |-> d.events] /\ d.backfilled \in BOOLEAN /\ d.events \in Seq(Event)
    BY DEF Tally
  <2>2. Event \subseteq E
    BY <1>8
  <2> HIDE DEF E
  <2>3. d.events \in Seq(E)
    <3>1. d.events \in [1 .. Len(d.events) -> Event] /\ Len(d.events) \in Nat
      BY <2>1, LenProperties
    <3>2. d.events \in [1 .. Len(d.events) -> E]
      BY <2>2, <3>1
    <3>3. QED
      BY <3>1, <3>2
  <2>4. d \in [backfilled : BOOLEAN, events : Seq(E)]
    BY <2>1, <2>3
  <2>5. QED
    BY <2>4 DEF Tally, E
<1>10. RollTypeOK'
  <2>1. (rolls \in Tally)' /\ (data \in Tally)'
    BY <1>1, <1>3, <1>9
  <2>2. pos' \in 0 .. Len(log') /\ {time, mtime}' \subseteq 0 .. MaxTime
    BY <1>1, <1>3, <1>5
  <2>3. slipped' \in BOOLEAN
    BY <1>1
  <2>4. QED
    BY <1>1, <1>2, <1>5, <2>1, <2>2, <2>3, Zenon DEF RollTypeOK, Entry, Event, Tally
<1>11. ASSUME NEW d \in Tally, DatesRight(d) PROVE DatesRight(d)'
  <2> SUFFICES ASSUME NEW a \in DOMAIN d.events PROVE RightDate(d.events[a])'
    BY DEF DatesRight
  <2> DEFINE e == d.events[a]
             i == e.line
  <2>1. i \in 1 .. Len(log) /\ RightDate(e)
    BY <1>3, <1>11, EventTypes DEF DatesRight
  <2> HIDE DEF e
  <2>2. log'[i] = log[i] /\ WallOf(i)' = WallOf(i) /\ (Steady(i)' => Steady(i))
    BY <1>5, <1>7, <2>1
  <2>3. RightDate(e)'
    BY <2>1, <2>2 DEF RightDate
  <2>4. QED
    BY <2>3 DEF e
<1>12. ASSUME ~slipped', doing = "counted", NEW i \in 1 .. Len(log) + 1, Steady(i)'
       PROVE  anchor + Rollovers(i)' = DateOf(i)'
  <2> PICK n \in Nat : n = Len(log)
    BY <1>3
  <2>1. ~slipped /\ Anchored /\ log # << >> /\ InStep(n + 1)'
    <3>1. ~slipped /\ log # << >> /\ InStep(Len(log))'
      BY <1>1, <1>12
    <3>2. Len(log)' = n + 1
      BY <1>5
    <3>3. InStep(n + 1)'
      BY <3>1, <3>2 DEF InStep, WallOf
    <3>4. QED
      BY <1>12, <3>1, <3>3 DEF RollInv
  <2>2. n \in 1 .. n
    BY <1>3, <2>1, EmptySeq
  <2>3. CASE i \in 1 .. n
    BY <1>3, <1>7, <1>12, <2>1, <2>3 DEF Anchored
  <2>4. CASE i = n + 1
    <3>1. Steady(n)
      BY <2>2 DEF Steady
    <3>2. anchor + Rollovers(n) = DateOf(n)
      BY <1>3, <2>1, <2>2, <3>1 DEF Anchored
    <3>3. Rollovers(n)' = Rollovers(n) /\ DateOf(n)' = DateOf(n)
      BY <1>7, <2>2
    <3>4. DateOf(n + 1)' - DateOf(n)' = Rollovers(n + 1)' - Rollovers(n)'
      <4>1. /\ (log \in Seq(Entry))' /\ (n \in 1 .. Len(log')) /\ (n + 1 \in 1 .. Len(log'))
        BY <1>5, <2>2
      <4>2. QED
        BY <2>1, <4>1, OneMoreDayThen
    <3>5. /\ Rollovers(n)' \in Nat /\ Rollovers(n + 1)' \in Nat /\ DateOf(n)' \in Nat /\ DateOf(n + 1)' \in Nat
      <4>1. (log \in Seq(Entry))' /\ n \in 1 .. Len(log') /\ n + 1 \in 1 .. Len(log') /\ n + 1 \in Nat
        BY <1>5, <2>2
      <4>2. QED
        BY <4>1, RolloversTypeThen
    <3>6. anchor \in Int
      BY <1>2, RollTypes
    <3>7. anchor + Rollovers(n + 1)' = DateOf(n + 1)'
      <4>1. \A c \in Int, p, q, d, e \in Nat : c + p = d /\ e - d = q - p => c + q = e
        OBVIOUS
      <4>2. anchor + Rollovers(n)' = DateOf(n)'
        BY <3>2, <3>3
      <4>3. QED
        BY <3>4, <3>5, <3>6, <4>1, <4>2
    <3>8. QED
      BY <2>4, <3>7
  <2>5. QED
    BY <1>12, <2>2, <2>3, <2>4
<1>13. /\ ~slipped' /\ doing = "counted" => Anchored'
       /\ ~slipped' => DatesRight(data)' /\ (rolls.backfilled => DatesRight(rolls)')
  <2>1. ~slipped' => ~slipped
    BY <1>1
  <2>2. DOMAIN log' = 1 .. Len(log) + 1
    BY <1>5
  <2>3. ~slipped' /\ doing = "counted" => Anchored'
    BY <1>1, <1>12, <2>2 DEF Anchored
  <2>4. ~slipped' => DatesRight(data)' /\ (rolls.backfilled => DatesRight(rolls)')
    BY <1>1, <1>3, <1>11, <2>1 DEF RollInv
  <2>5. QED
    BY <2>3, <2>4
<1>14. Once(data)' /\ Once(rolls)' /\ Tailed(data)' /\ Tailed(rolls)'
  <2>1. ASSUME NEW d \in Tally, Tailed(d) PROVE Tailed(d)'
    <3>1. \A i \in DOMAIN d.events : log'[d.events[i].line] = log[d.events[i].line]
      BY <1>3, <1>5, EventTypes
    <3>2. QED
      BY <2>1, <3>1 DEF Tailed, TailedRight
  <2>2. Tailed(data)' /\ Tailed(rolls)'
    BY <1>1, <1>3, <2>1 DEF RollInv
  <2>3. QED
    BY <1>1, <2>2 DEF RollInv, Once
<1>15. /\ doing' \in {"tails", "saves"} => \A i \in DOMAIN data'.events : data'.events[i].line <= pos'
       /\ doing' \in {"down", "backfills", "counted"} => data' = empty
       /\ doing' \in {"backfills", "counted"} => ~rolls'.backfilled
  BY <1>1 DEF RollInv
<1>16. QED
  BY <1>1, <1>6, <1>10, <1>14, <1>15, <1>13 DEF RollInv

LEMMA RollInvNext == RollInv /\ [RollNext]_rollVars => RollInv'
<1> SUFFICES ASSUME RollInv, [RollNext]_rollVars PROVE RollInv'
  OBVIOUS
<1>1. CASE UNCHANGED rollVars
  BY <1>1 DEF rollVars, RollInv, RollTypeOK, Once, Tailed, TailedRight, Anchored, Rollovers, Stamp, DateOf, DatesRight,
     RightDate, Steady, InStep, WallOf
<1>2. ASSUME NEW at \in {t \in 0 .. time : t + MaxLate >= time}, NEW scores \in BOOLEAN, BotLogs(at, scores)
      PROVE  RollInv'
  BY <1>2, RollInvLogs
<1>3. CASE RollNext
  BY <1>2, <1>3, RollInvStarts, RollInvCounts, RollInvBackfill, RollInvTails, RollInvLine, RollInvSaves,
     RollInvKill, RollInvFlip, RollInvTime DEF RollNext
<1>4. QED
  BY <1>1, <1>3

\* Every line that is counted is counted once: whatever the log, its length, and the
\* kills and restarts.
THEOREM AlwaysCountedOnce == RollSpec => []CountedOnce
<1>1. RollInv => CountedOnce
  BY Zenon DEF RollInv, Once, CountedOnce
<1>2. QED
  BY <1>1, RollInvInit, RollInvNext, PTL DEF RollSpec

\* And dated right by tail, and by a backfill whose mtime_date was that of the last line
\* counted, if the stamps after the line are in step: whatever comes before it, in
\* whichever order the bot's threads write and whenever their clock goes back.
THEOREM AlwaysDatedRight == RollSpec => []DatedRight
<1>1. RollInv => DatedRight
  <2> SUFFICES ASSUME RollInv, NEW i \in DOMAIN data.events
               PROVE  TailedRight(data.events[i]) /\ BackfilledRight(data.events[i])
    BY DEF DatedRight
  <2>1. ~slipped => RightDate(data.events[i])
    BY DEF RollInv, DatesRight
  <2>2. TailedRight(data.events[i])
    BY DEF RollInv, Tailed
  <2>3. BackfilledRight(data.events[i])
    BY <2>1 DEF RightDate, BackfilledRight, Steady
  <2>4. QED
    BY <2>2, <2>3
<1>2. QED
  BY <1>1, RollInvInit, RollInvNext, PTL DEF RollSpec

\* Both, as the run asks them.
THEOREM AlwaysCountedRight == RollSpec => []CountedRight
  BY AlwaysCountedOnce, AlwaysDatedRight, PTL DEF CountedRight

\* The types.
THEOREM RollTypeCorrect == RollSpec => []RollTypeOK
<1>1. RollInv => RollTypeOK
  BY DEF RollInv
<1>2. QED
  BY <1>1, RollInvInit, RollInvNext, PTL DEF RollSpec
=============================================================================
