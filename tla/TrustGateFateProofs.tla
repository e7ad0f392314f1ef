------------------------ MODULE TrustGateFateProofs -------------------------
(***************************************************************************)
(* What TrustGate makes of each line, proved for any nicks, rules, bounds  *)
(* and DM_HOLD_MAX: strangers stay out, who is trusted has identified, who *)
(* had identified is not turned away, and every line has one place, in     *)
(* order.  Each rests on an invariant of its own besides GateInv: InSight- *)
(* Inv, TruthfulLines with EndsTellTheTruth, and PlacesInv.                *)
(***************************************************************************)
EXTENDS TrustGateProofs, FiniteSetTheorems

-----------------------------------------------------------------------------
(* What a step of the reader does to the wire, the queues and the events.  *)

\* The line read leaves the wire, the others move up by one.
LEMMA ReadShift ==
    ASSUME TypeOK, NEW cmds, Reads(cmds)
    PROVE  /\ Len(toBot) \in Nat /\ DOMAIN toBot = 1 .. Len(toBot)
           /\ 1 \in DOMAIN toBot /\ Head(toBot) = toBot[1] /\ toBot[1] \in Line
           /\ Len(toBot') = Len(toBot) - 1 /\ DOMAIN toBot' = 1 .. Len(toBot')
           /\ \A i \in DOMAIN toBot' : i + 1 \in DOMAIN toBot /\ toBot'[i] = toBot[i + 1]
<1>1. toBot \in Seq(Line) /\ toBot # << >> /\ toBot' = Tail(toBot)
  BY DEF TypeOK, Reads
<1>2. /\ Len(toBot) \in Nat /\ DOMAIN toBot = 1 .. Len(toBot)
      /\ Len(toBot) # 0 /\ Head(toBot) = toBot[1]
  BY <1>1
<1>3. /\ Tail(toBot) \in Seq(Line) /\ Len(Tail(toBot)) = Len(toBot) - 1
      /\ \A i \in 1 .. Len(Tail(toBot)) : Tail(toBot)[i] = toBot[i + 1]
  BY <1>1, HeadTailProperties
<1>4. QED
  BY <1>1, <1>2, <1>3

\* What is put after a sequence is found there, behind what it had.
LEMMA ConcatElements ==
    ASSUME NEW S, NEW s \in Seq(S), NEW t \in Seq(S)
    PROVE  /\ Len(s \o t) = Len(s) + Len(t)
           /\ \A k \in 1 .. Len(s) : (s \o t)[k] = s[k]
           /\ \A j \in 1 .. Len(t) : (s \o t)[Len(s) + j] = t[j]
<1>1. Len(s) \in Nat /\ Len(t) \in Nat
  OBVIOUS
<1>2. /\ Len(s \o t) = Len(s) + Len(t)
      /\ \A i \in 1 .. Len(s) + Len(t) :
            (s \o t)[i] = IF i <= Len(s) THEN s[i] ELSE t[i - Len(s)]
  BY ConcatProperties
<1>3. ASSUME NEW j \in 1 .. Len(t) PROVE (s \o t)[Len(s) + j] = t[j]
  <2>1. /\ Len(s) + j \in 1 .. Len(s) + Len(t)
        /\ ~(Len(s) + j <= Len(s))
        /\ (Len(s) + j) - Len(s) = j
    BY <1>1, <1>3
  <2>2. QED
    BY <1>2, <2>1
<1>4. QED
  BY <1>1, <1>2, <1>3

\* A flush: the events of one queue, in its order, after those before.
LEMMA FlushEnds ==
    ASSUME TypeOK, NEW n \in Nick, NEW confirmed, NEW reason \in Fate,
           dm_flush(n, confirmed, reason)
    PROVE  /\ Len(events') = Len(events) + Len(dm_held[n])
           /\ \A k \in 1 .. Len(events) : events'[k] = events[k]
           /\ \A j \in 1 .. Len(dm_held[n]) :
                 events'[Len(events) + j]
                   = Ended(dm_held[n][j],
                           IF n \in confirmed /\ host_matches(n, dm_held[n][j].host)
                           THEN "TRUSTED" ELSE reason)
<1> DEFINE q == dm_held[n]
           fate(l) == IF n \in confirmed /\ host_matches(n, l.host) THEN "TRUSTED" ELSE reason
           ends == [i \in 1 .. Len(q) |-> Ended(q[i], fate(q[i]))]
<1>1. events' = events \o ends
  BY DEF dm_flush
<1>2. q \in Seq(Spoken) /\ events \in Seq(Event)
  BY DEF TypeOK
<1>3. \A l \in Spoken : fate(l) \in Fate
  BY DEF Fate
<1>4. \A i \in 1 .. Len(q) :
         ends[i] = Ended(q[i], IF n \in confirmed /\ host_matches(n, q[i].host)
                               THEN "TRUSTED" ELSE reason)
  OBVIOUS
<1>5. ends \in Seq(Event) /\ Len(ends) = Len(q) /\ Len(q) \in Nat
  <2> HIDE DEF q, fate
  <2>1. \A i \in 1 .. Len(q) : Ended(q[i], fate(q[i])) \in Event
    BY <1>2, <1>3, EndedType
  <2>2. QED
    BY <1>2, <2>1, IsASeq
<1> HIDE DEF ends
<1>6. /\ Len(events') = Len(events) + Len(ends)
      /\ \A k \in 1 .. Len(events) : events'[k] = events[k]
      /\ \A j \in 1 .. Len(ends) : events'[Len(events) + j] = ends[j]
  <2> DEFINE all == events \o ends
  <2>1. /\ Len(all) = Len(events) + Len(ends)
        /\ \A k \in 1 .. Len(events) : all[k] = events[k]
        /\ \A j \in 1 .. Len(ends) : all[Len(events) + j] = ends[j]
    <3>1. ends \in Seq(Event)
      BY <1>5
    <3>2. QED
      BY <1>2, <3>1, ConcatElements
  <2>2. events' = all
    BY <1>1
  <2> HIDE DEF all
  <2>3. QED
    BY <2>1, <2>2
<1>7. QED
  BY <1>4, <1>5, <1>6

\* A message parked: so many of the oldest are evicted, the others move up.
LEMMA HoldEnds ==
    ASSUME TypeOK, NEW l \in Spoken, dm_hold(l)
    PROVE  \E d \in 0 .. Len(dm_held[l.nick]) :
              /\ Len(dm_held'[l.nick]) = Len(dm_held[l.nick]) + 1 - d
              /\ \A j \in 1 .. Len(dm_held[l.nick]) - d :
                    dm_held'[l.nick][j] = dm_held[l.nick][j + d]
              /\ dm_held'[l.nick][Len(dm_held[l.nick]) + 1 - d] = l
              /\ Len(events') = Len(events) + d
              /\ \A k \in 1 .. Len(events) : events'[k] = events[k]
              /\ \A j \in 1 .. d :
                    events'[Len(events) + j] = Ended(dm_held[l.nick][j], "evicted")
<1> DEFINE h == dm_held[l.nick]
           q == Append(h, l)
           out == Evicted(q)
           d == Len(out)
           ends == [i \in 1 .. d |-> Ended(out[i], "evicted")]
<1>1. l.nick \in Nick /\ h \in Seq(Spoken) /\ events \in Seq(Event) /\ dm_held \in [Nick -> Seq(Spoken)]
  BY DEF TypeOK, Spoken
<1>2. /\ q \in Seq(Spoken) /\ Len(q) = Len(h) + 1 /\ Len(h) \in Nat
      /\ \A i \in 1 .. Len(h) : q[i] = h[i]
      /\ q[Len(h) + 1] = l
  BY <1>1
<1>3. dm_held'[l.nick] = Newest(q) /\ events' = events \o ends
  BY <1>1 DEF dm_hold
<1> HIDE DEF q
<1>4. DM_HOLD_MAX \in Nat /\ DM_HOLD_MAX > 0
  BY TrustAssumption
<1>5. /\ out \in Seq(Spoken) /\ d \in 0 .. Len(h) /\ Len(Newest(q)) = Len(q) - d
      /\ \A i \in 1 .. Len(Newest(q)) : Newest(q)[i] = q[i + d]
      /\ \A i \in 1 .. d : out[i] = q[i]
  <2>1. CASE Len(q) > DM_HOLD_MAX
    <3> DEFINE new == SubSeq(q, Len(q) - DM_HOLD_MAX + 1, Len(q))
               m == Len(q) - DM_HOLD_MAX
    <3>1. Newest(q) = new
      BY <2>1 DEF Newest
    <3>2. m \in 1 .. Len(h) /\ m + 1 \in 1 .. Len(q) /\ Len(q) \in Nat
      BY <1>2, <1>4, <2>1
    <3>3. /\ Len(new) = DM_HOLD_MAX
          /\ \A i \in 1 .. DM_HOLD_MAX : new[i] = q[(m + 1) + i - 1]
      BY <1>2, <1>4, <3>2, SubSeqProperties
    <3>4. out = SubSeq(q, 1, m)
      BY <3>1, <3>2, <3>3, <1>4 DEF Evicted
    <3>5. /\ SubSeq(q, 1, m) \in Seq(Spoken) /\ Len(SubSeq(q, 1, m)) = m
          /\ \A i \in 1 .. m : SubSeq(q, 1, m)[i] = q[1 + i - 1]
      BY <1>2, <3>2, SubSeqProperties
    <3> HIDE DEF new
    <3>6. QED
      BY <1>2, <1>4, <3>1, <3>2, <3>3, <3>4, <3>5
  <2>2. CASE ~(Len(q) > DM_HOLD_MAX)
    <3>1. Newest(q) = q
      BY <2>2 DEF Newest
    <3>2. out = SubSeq(q, 1, 0)
      BY <1>2, <3>1 DEF Evicted
    <3>3. SubSeq(q, 1, 0) \in Seq(Spoken) /\ Len(SubSeq(q, 1, 0)) = 0
      BY <1>2, SubSeqProperties
    <3>4. QED
      BY <1>2, <3>1, <3>2, <3>3
  <2>3. QED
    BY <2>1, <2>2
<1> HIDE DEF out
<1>6. ends \in Seq(Event) /\ Len(ends) = d
  <2>1. \A i \in 1 .. d : Ended(out[i], "evicted") \in Event
    BY <1>5, EndedType DEF Fate
  <2>2. QED
    BY <1>5, <2>1, IsASeq
<1>7. \A i \in 1 .. d : ends[i] = Ended(out[i], "evicted")
  OBVIOUS
<1> HIDE DEF ends
<1>8. /\ Len(events') = Len(events) + Len(ends)
      /\ \A k \in 1 .. Len(events) : events'[k] = events[k]
      /\ \A j \in 1 .. Len(ends) : events'[Len(events) + j] = ends[j]
  <2> DEFINE all == events \o ends
  <2>1. /\ Len(all) = Len(events) + Len(ends)
        /\ \A k \in 1 .. Len(events) : all[k] = events[k]
        /\ \A j \in 1 .. Len(ends) : all[Len(events) + j] = ends[j]
    <3>1. ends \in Seq(Event)
      BY <1>6
    <3>2. QED
      BY <1>1, <3>1, ConcatElements
  <2>2. events' = all
    BY <1>3
  <2> HIDE DEF all
  <2>3. QED
    BY <2>1, <2>2
<1>9. \A j \in 1 .. d : out[j] = h[j]
  BY <1>2, <1>5
<1> HIDE DEF d
<1> HIDE DEF h
<1>10. /\ \A j \in 1 .. Len(h) - d : Newest(q)[j] = h[j + d]
       /\ Newest(q)[Len(h) + 1 - d] = l
       /\ Len(Newest(q)) = Len(h) + 1 - d
  <2>1. d \in 0 .. Len(h) /\ Len(h) \in Nat /\ Len(Newest(q)) = Len(h) + 1 - d
    BY <1>2, <1>5
  <2>2. ASSUME NEW j \in 1 .. Len(h) - d PROVE Newest(q)[j] = h[j + d]
    <3>1. j \in 1 .. Len(Newest(q)) /\ j + d \in 1 .. Len(h)
      BY <2>1
    <3>2. QED
      BY <1>2, <1>5, <3>1
  <2>3. Newest(q)[Len(h) + 1 - d] = l
    <3>1. Len(h) + 1 - d \in 1 .. Len(Newest(q)) /\ (Len(h) + 1 - d) + d = Len(h) + 1
      BY <2>1
    <3>2. QED
      BY <1>2, <1>5, <3>1
  <2>4. QED
    BY <2>1, <2>2, <2>3
<1>11. /\ d \in 0 .. Len(h)
       /\ Len(dm_held'[l.nick]) = Len(h) + 1 - d
       /\ \A j \in 1 .. Len(h) - d : dm_held'[l.nick][j] = h[j + d]
       /\ dm_held'[l.nick][Len(h) + 1 - d] = l
       /\ Len(events') = Len(events) + d
       /\ \A k \in 1 .. Len(events) : events'[k] = events[k]
       /\ \A j \in 1 .. d : events'[Len(events) + j] = Ended(h[j], "evicted")
  BY <1>3, <1>5, <1>6, <1>7, <1>8, <1>9, <1>10
<1>12. QED
  BY <1>11 DEF h

-----------------------------------------------------------------------------
(* The reader's steps come in four kinds.                                  *)

SaidBy(l, n)   == l.cmd \in {"dm", "channel", "invite"} /\ l.nick = n
Vouches(l, n)  == l.cmd \in {"307", "330"} /\ l.nick = n
Concludes(l, n) == l.cmd = "318" /\ l.nick = n
Leaves(l, n)   == l.cmd \in {"QUIT", "NICK"} /\ l.nick = n

\* What is parked under a nick is a private message of it, from a listed host.
ParkedFits ==
    \A n \in Nick : \A j \in 1 .. Len(dm_held[n]) :
        /\ dm_held[n][j].cmd = "dm" /\ dm_held[n][j].nick = n
        /\ host_matches(n, dm_held[n][j].host)

\* 001 only asks.
ReaderAsks ==
    /\ Head(toBot).cmd = "001"
    /\ UNCHANGED <<verified, dm_held, events>>

\* 307, 330, 318 and the moves end what their nick has parked, all one way.
ReaderFlushes(n) ==
    \E fate \in {"TRUSTED", "318", "reset"} :
        /\ Head(toBot).nick = n
        /\ \/ Vouches(Head(toBot), n) /\ fate = "TRUSTED" /\ verified' = verified \cup {n}
           \/ Concludes(Head(toBot), n) /\ fate = "318" /\ verified' = verified
           \/ Head(toBot).cmd \in {"PART", "QUIT", "NICK"} /\ fate = "reset" /\ verified' = verified \ {n}
        /\ dm_held'[n] = << >>
        /\ \A m \in Nick : m # n => dm_held'[m] = dm_held[m]
        /\ Len(events') = Len(events) + Len(dm_held[n])
        /\ \A k \in 1 .. Len(events) : events'[k] = events[k]
        /\ \A j \in 1 .. Len(dm_held[n]) : events'[Len(events) + j] = Ended(dm_held[n][j], fate)

\* A line that says something ends at once.
ReaderEnds(n) ==
    \E fate \in {"TRUSTED", "JOINED", "UNTRUSTED", "IGNORED", "DM_BLOCKED"} :
        /\ SaidBy(Head(toBot), n)
        /\ fate \in {"TRUSTED", "JOINED"} => n \in verified /\ host_matches(n, Head(toBot).host)
        /\ Head(toBot).cmd = "dm" /\ fate = "UNTRUSTED"
              => ~is_trust_listed(n) /\ dm_allowed(n, Head(toBot).host)
        /\ UNCHANGED <<verified, dm_held>>
        /\ Len(events') = Len(events) + 1
        /\ \A k \in 1 .. Len(events) : events'[k] = events[k]
        /\ events'[Len(events) + 1] = Ended(Head(toBot), fate)

\* Or it is parked, and the d oldest of its queue end.
ReaderParks(n) ==
    \E d \in 0 .. Len(dm_held[n]) :
        /\ SaidBy(Head(toBot), n) /\ Head(toBot).cmd = "dm"
        /\ n \notin verified /\ verified' = verified
        /\ host_matches(n, Head(toBot).host)
        /\ Len(dm_held'[n]) = Len(dm_held[n]) + 1 - d
        /\ \A j \in 1 .. Len(dm_held[n]) - d : dm_held'[n][j] = dm_held[n][j + d]
        /\ dm_held'[n][Len(dm_held[n]) + 1 - d] = Head(toBot)
        /\ \A m \in Nick : m # n => dm_held'[m] = dm_held[m]
        /\ Len(events') = Len(events) + d
        /\ \A k \in 1 .. Len(events) : events'[k] = events[k]
        /\ \A j \in 1 .. d : events'[Len(events) + j] = Ended(dm_held[n][j], "evicted")

\* A line that says something has one of these ends.
LEMMA EndsOneWay ==
    ASSUME TypeOK, NEW l \in Spoken, NEW fate, events' = Append(events, Ended(l, fate)),
           fate \in Fate
    PROVE  /\ Len(events') = Len(events) + 1
           /\ \A k \in 1 .. Len(events) : events'[k] = events[k]
           /\ events'[Len(events) + 1] = Ended(l, fate)
<1>1. Ended(l, fate) \in Event /\ events \in Seq(Event)
  BY EndedType DEF TypeOK
<1>2. QED
  BY <1>1

\* A line read does one of four things: it asks, resolves one nick's queue,
\* ends one line, or parks one.
LEMMA ReaderKinds ==
    ASSUME GateInv, ParkedFits, handle_server_line
    PROVE  /\ \E cmds : Reads(cmds)
           /\ UNCHANGED serverVars
           /\ \/ ReaderAsks
              \/ \E n \in Nick : ReaderFlushes(n) \/ ReaderEnds(n) \/ ReaderParks(n)
<1> USE DEF GateInv
<1> DEFINE h == Head(toBot)
<1>1. CASE ReadWelcome
  BY <1>1 DEF ReadWelcome, Reads, ReaderAsks
<1>2. CASE ReadIdentified \/ ReadEndOfWhois \/ ReadMoved
  <2> DEFINE n == h.nick
  <2>1. /\ \E cmds : Reads(cmds) /\ UNCHANGED serverVars
        /\ n \in Nick
    BY <1>2, ReadsProperties, LineKinds DEF ReadIdentified, ReadEndOfWhois, ReadMoved, Reply, Moved
  <2> HIDE DEF n
  <2>2. \A j \in 1 .. Len(dm_held[n]) :
            n \notin verified /\ host_matches(n, dm_held[n][j].host)
    <3>1. dm_held[n] \in Seq(Spoken)
      BY <2>1 DEF TypeOK
    <3>2. QED
      BY <2>1, <3>1 DEF ParkedFits, HeldAwaitsWhois
  <2>3. PICK fate \in {"TRUSTED", "318", "reset"}, reason \in Fate, confirmed \in {verified, verified'} :
            /\ \/ Vouches(h, n) /\ fate = "TRUSTED" /\ verified' = verified \cup {n}
                  /\ confirmed = verified'
               \/ Concludes(h, n) /\ fate = "318" /\ verified' = verified
                  /\ confirmed = verified /\ reason = fate
               \/ h.cmd \in {"PART", "QUIT", "NICK"} /\ fate = "reset" /\ verified' = verified \ {n}
                  /\ confirmed = verified /\ reason = fate
            /\ dm_flush(n, confirmed, reason)
    <3>1. CASE ReadIdentified
      <4>1. h.cmd \in Fate /\ h.cmd \in {"307", "330"}
        BY <3>1 DEF ReadIdentified, Reads, Fate
      <4>2. verified' = verified \cup {n} /\ dm_flush(n, verified', h.cmd)
        BY <3>1 DEF ReadIdentified, n
      <4>3. Vouches(h, n)
        BY <4>1 DEF Vouches, n
      <4>4. QED
        BY <4>1, <4>2, <4>3
    <3>2. CASE ReadEndOfWhois
      <4>1. verified' = verified /\ dm_flush(n, verified, "318") /\ "318" \in Fate
        BY <3>2 DEF ReadEndOfWhois, n, Fate
      <4>2. Concludes(h, n)
        BY <3>2 DEF ReadEndOfWhois, Reads, Concludes, n
      <4>3. QED
        BY <4>1, <4>2
    <3>3. CASE ReadMoved
      <4>1. /\ verified' = verified \ {n} /\ dm_flush(n, verified, "reset") /\ "reset" \in Fate
            /\ h.cmd \in {"PART", "QUIT", "NICK"}
        BY <3>3 DEF ReadMoved, trust_reset, Reads, n, Fate
      <4>2. QED
        BY <4>1
    <3>4. QED
      BY <1>2, <3>1, <3>2, <3>3
  <2>4. /\ dm_held'[n] = << >> /\ \A m \in Nick : m # n => dm_held'[m] = dm_held[m]
    BY <2>1, <2>3, FlushProperties
  <2>5. /\ Len(events') = Len(events) + Len(dm_held[n])
        /\ \A k \in 1 .. Len(events) : events'[k] = events[k]
        /\ \A j \in 1 .. Len(dm_held[n]) :
                 events'[Len(events) + j]
                   = Ended(dm_held[n][j],
                           IF n \in confirmed /\ host_matches(n, dm_held[n][j].host)
                           THEN "TRUSTED" ELSE reason)
    BY <2>1, <2>3, FlushEnds
  <2>6. ASSUME NEW j \in 1 .. Len(dm_held[n])
        PROVE  (IF n \in confirmed /\ host_matches(n, dm_held[n][j].host)
                THEN "TRUSTED" ELSE reason) = fate
    BY <2>2, <2>3
  <2>7. h.nick = n
    BY DEF n
  <2>8. ReaderFlushes(n)
    BY <2>3, <2>4, <2>5, <2>6, <2>7 DEF ReaderFlushes
  <2>9. QED
    BY <2>1, <2>8
<1>3. CASE ReadInvite \/ ReadChannelLine \/ ReadAllowedDm \/ ReadBlockedDm \/ ReadTrustedDm
  <2>1. h \in Spoken /\ UNCHANGED serverVars /\ \E cmds : Reads(cmds)
    BY <1>3, ReadsProperties, LineKinds
       DEF ReadInvite, ReadChannelLine, ReadAllowedDm, ReadBlockedDm, ReadTrustedDm
  <2>2. h.nick \in Nick /\ SaidBy(h, h.nick)
    BY <2>1 DEF Spoken, SaidBy
  <2>3. PICK fate \in {"TRUSTED", "JOINED", "UNTRUSTED", "IGNORED", "DM_BLOCKED"} :
            /\ events' = Append(events, Ended(h, fate))
            /\ fate \in {"TRUSTED", "JOINED"} => Verdict(h.nick, h.host) = "ok"
            /\ h.cmd = "dm" /\ fate = "UNTRUSTED" => Readable(h)
    BY <1>3 DEF ReadInvite, ReadChannelLine, ReadAllowedDm, ReadBlockedDm, ReadTrustedDm, Reads
  <2>4. UNCHANGED <<verified, dm_held>>
    BY <1>3 DEF ReadInvite, ReadChannelLine, ReadAllowedDm, ReadBlockedDm, ReadTrustedDm, gateVars
  <2>5. Verdict(h.nick, h.host) = "ok" => h.nick \in verified /\ host_matches(h.nick, h.host)
    BY DEF Verdict, is_trust_listed, host_matches
  <2>6. fate \in Fate
    BY DEF Fate
  <2>7. /\ Len(events') = Len(events) + 1
        /\ \A k \in 1 .. Len(events) : events'[k] = events[k]
        /\ events'[Len(events) + 1] = Ended(h, fate)
    BY <2>1, <2>3, <2>6, EndsOneWay
  <2>8. ReaderEnds(h.nick)
    BY <2>2, <2>3, <2>4, <2>5, <2>7 DEF ReaderEnds, Readable
  <2>9. QED
    BY <2>1, <2>2, <2>8
<1>4. CASE ReadUnverifiedDm
  <2>1. h \in Spoken /\ UNCHANGED serverVars /\ Reads({"dm"}) /\ h.cmd = "dm"
    BY <1>4, ReadsProperties, LineKinds DEF ReadUnverifiedDm
  <2>2. h.nick \in Nick /\ SaidBy(h, h.nick)
    BY <2>1 DEF Spoken, SaidBy
  <2>3. verified' = verified /\ Verdict(h.nick, h.host) = "pending-whois" /\ dm_hold(h)
    BY <1>4 DEF ReadUnverifiedDm
  <2>4. h.nick \notin verified /\ host_matches(h.nick, h.host)
    BY <2>3 DEF Verdict, is_trust_listed, host_matches
  <2>5. \A m \in Nick : m # h.nick => dm_held'[m] = dm_held[m]
    BY <2>1, <2>3, HoldProperties
  <2>6. ReaderParks(h.nick)
    BY <2>1, <2>2, <2>3, <2>4, <2>5, HoldEnds DEF ReaderParks
  <2>7. QED
    BY <2>1, <2>2, <2>6
<1>5. QED
  BY <1>1, <1>2, <1>3, <1>4 DEF handle_server_line

\* The others' steps leave the gate and the events alone.
LEMMA OthersLeaveTheGate ==
    ASSUME [Next]_vars, ~handle_server_line
    PROVE  UNCHANGED <<verified, dm_held, events>>
<1>1. CASE AnswerWhois
  BY <1>1 DEF AnswerWhois, botIdle, gateVars
<1>2. CASE Users
  BY <1>2 DEF Users, Connect, Identify, Quit, Part, Rename, Say, botIdle, gateVars
<1>3. CASE (\E n \in Nick : OperatorWhois(n)) \/ Clock \/ UNCHANGED vars
  BY <1>3 DEF OperatorWhois, Clock, vars, gateVars
<1>4. QED
  BY <1>1, <1>2, <1>3 DEF Next

\* No step parks a message that the gate would not judge again.
LEMMA ParkedFitsStep ==
    ASSUME GateInv, ParkedFits, [Next]_vars
    PROVE  ParkedFits'
<1>1. CASE ~handle_server_line
  BY <1>1, OthersLeaveTheGate DEF ParkedFits
<1>2. CASE handle_server_line
  <2>1. CASE ReaderAsks
    BY <2>1 DEF ReaderAsks, ParkedFits
  <2>2. ASSUME NEW n \in Nick, ReaderFlushes(n) PROVE ParkedFits'
    <3>1. dm_held'[n] = << >> /\ \A m \in Nick : m # n => dm_held'[m] = dm_held[m]
      BY <2>2 DEF ReaderFlushes
    <3>2. QED
      BY <3>1 DEF ParkedFits
  <2>3. ASSUME NEW n \in Nick, ReaderEnds(n) PROVE ParkedFits'
    BY <2>3 DEF ReaderEnds, ParkedFits
  <2>4. ASSUME NEW n \in Nick, ReaderParks(n) PROVE ParkedFits'
    <3>1. PICK d \in 0 .. Len(dm_held[n]) :
              /\ Len(dm_held'[n]) = Len(dm_held[n]) + 1 - d
              /\ \A j \in 1 .. Len(dm_held[n]) - d : dm_held'[n][j] = dm_held[n][j + d]
              /\ dm_held'[n][Len(dm_held[n]) + 1 - d] = Head(toBot)
      BY <2>4 DEF ReaderParks
    <3>2. /\ SaidBy(Head(toBot), n) /\ Head(toBot).cmd = "dm" /\ host_matches(n, Head(toBot).host)
          /\ \A m \in Nick : m # n => dm_held'[m] = dm_held[m]
      BY <2>4 DEF ReaderParks
    <3>3. Len(dm_held[n]) \in Nat
      BY DEF GateInv, TypeOK
    <3>4. ASSUME NEW j \in 1 .. Len(dm_held'[n])
          PROVE  dm_held'[n][j] = Head(toBot) \/ \E i \in 1 .. Len(dm_held[n]) : dm_held'[n][j] = dm_held[n][i]
      <4>1. CASE j = Len(dm_held[n]) + 1 - d
        BY <3>1, <4>1
      <4>2. CASE j # Len(dm_held[n]) + 1 - d
        <5>1. j \in 1 .. Len(dm_held[n]) - d /\ j + d \in 1 .. Len(dm_held[n])
          BY <3>1, <3>3, <4>2
        <5>2. QED
          BY <3>1, <5>1
      <4>3. QED
        BY <4>1, <4>2
    <3>5. QED
      BY <3>2, <3>4 DEF ParkedFits, SaidBy
  <2>5. QED
    BY <1>2, <2>1, <2>2, <2>3, <2>4, ReaderKinds
<1>3. QED
  BY <1>1, <1>2

-----------------------------------------------------------------------------
(* Who reaches the stream.                                                 *)

\* A listed host is a listed nick's.
LEMMA HostOfAListedNick ==
    ASSUME NEW n, NEW h, host_matches(n, h)
    PROVE  is_trust_listed(n)
  BY DEF host_matches, is_trust_listed

\* What the reader adds to the events, whatever the line.
LEMMA NewEvents ==
    ASSUME GateInv, ParkedFits, handle_server_line, NEW k \in DOMAIN events'
    PROVE  \/ k \in DOMAIN events /\ events'[k] = events[k]
           \/ \E n \in Nick :
                 \/ \E j \in 1 .. Len(dm_held[n]), fate \in {"TRUSTED", "318", "reset", "evicted"} :
                       /\ events'[k] = Ended(dm_held[n][j], fate)
                       /\ fate = "TRUSTED" => Vouches(Head(toBot), n)
                       /\ fate = "318" => Concludes(Head(toBot), n)
                 \/ \E fate \in {"TRUSTED", "JOINED", "UNTRUSTED", "IGNORED", "DM_BLOCKED"} :
                       /\ events'[k] = Ended(Head(toBot), fate)
                       /\ SaidBy(Head(toBot), n)
                       /\ fate \in {"TRUSTED", "JOINED"} => n \in verified /\ host_matches(n, Head(toBot).host)
                       /\ Head(toBot).cmd = "dm" /\ fate = "UNTRUSTED"
                             => ~is_trust_listed(n) /\ dm_allowed(n, Head(toBot).host)
<1>1. /\ DOMAIN events = 1 .. Len(events) /\ Len(events) \in Nat
      /\ \A n \in Nick : Len(dm_held[n]) \in Nat
  BY DEF GateInv, TypeOK
<1>2. DOMAIN events' = 1 .. Len(events')
  BY GateInvStep DEF GateInv, TypeOK, Next
<1>3. CASE ReaderAsks
  BY <1>3 DEF ReaderAsks
<1>4. ASSUME NEW n \in Nick, ReaderFlushes(n), k \notin DOMAIN events
      PROVE  \E j \in 1 .. Len(dm_held[n]), fate \in {"TRUSTED", "318", "reset", "evicted"} :
                       /\ events'[k] = Ended(dm_held[n][j], fate)
                       /\ fate = "TRUSTED" => Vouches(Head(toBot), n)
                       /\ fate = "318" => Concludes(Head(toBot), n)
  <2>1. PICK fate \in {"TRUSTED", "318", "reset"} :
          /\ fate = "TRUSTED" => Vouches(Head(toBot), n)
          /\ fate = "318" => Concludes(Head(toBot), n)
          /\ Len(events') = Len(events) + Len(dm_held[n])
          /\ \A j \in 1 .. Len(dm_held[n]) : events'[Len(events) + j] = Ended(dm_held[n][j], fate)
    BY <1>4 DEF ReaderFlushes
  <2>2. k - Len(events) \in 1 .. Len(dm_held[n]) /\ Len(events) + (k - Len(events)) = k
    BY <1>1, <1>2, <1>4, <2>1
  <2>3. events'[k] = Ended(dm_held[n][k - Len(events)], fate)
    BY <2>1, <2>2
  <2>4. QED
    BY <2>1, <2>2, <2>3
<1>5. ASSUME NEW n \in Nick, ReaderParks(n), k \notin DOMAIN events
      PROVE  \E j \in 1 .. Len(dm_held[n]) : events'[k] = Ended(dm_held[n][j], "evicted")
  <2>1. PICK d \in 0 .. Len(dm_held[n]) :
          /\ Len(events') = Len(events) + d
          /\ \A j \in 1 .. d : events'[Len(events) + j] = Ended(dm_held[n][j], "evicted")
    BY <1>5 DEF ReaderParks
  <2>2. k - Len(events) \in 1 .. d /\ Len(events) + (k - Len(events)) = k
    BY <1>1, <1>2, <1>5, <2>1
  <2>3. QED
    BY <1>1, <2>1, <2>2
<1>6. ASSUME NEW n \in Nick, ReaderEnds(n), k \notin DOMAIN events
      PROVE  \E fate \in {"TRUSTED", "JOINED", "UNTRUSTED", "IGNORED", "DM_BLOCKED"} :
                       /\ events'[k] = Ended(Head(toBot), fate)
                       /\ SaidBy(Head(toBot), n)
                       /\ fate \in {"TRUSTED", "JOINED"} => n \in verified /\ host_matches(n, Head(toBot).host)
                       /\ Head(toBot).cmd = "dm" /\ fate = "UNTRUSTED"
                             => ~is_trust_listed(n) /\ dm_allowed(n, Head(toBot).host)
  <2>1. Len(events') = Len(events) + 1
    BY <1>6 DEF ReaderEnds
  <2>2. k = Len(events) + 1
    BY <1>1, <1>2, <1>6, <2>1
  <2>3. QED
    BY <1>6, <2>2 DEF ReaderEnds
<1>7. ASSUME NEW n \in Nick, ReaderFlushes(n) \/ ReaderParks(n) \/ ReaderEnds(n), k \in DOMAIN events
      PROVE  events'[k] = events[k]
  BY <1>1, <1>7 DEF ReaderFlushes, ReaderParks, ReaderEnds
<1>8. QED
  BY <1>3, <1>4, <1>5, <1>6, <1>7, ReaderKinds

\* No step shows a stranger's message where it must not.
LEMMA StrangersStayOutStep ==
    ASSUME GateInv, ParkedFits, StrangersStayOut, [Next]_vars
    PROVE  StrangersStayOut'
<1>1. CASE ~handle_server_line
  BY <1>1, OthersLeaveTheGate DEF StrangersStayOut
<1>2. CASE handle_server_line
  <2> SUFFICES ASSUME NEW k \in DOMAIN events', events'[k].line.cmd = "dm"
               PROVE  LET l == events'[k].line IN
                      /\ events'[k].fate = "UNTRUSTED" => ~is_trust_listed(l.nick) /\ dm_allowed(l.nick, l.host)
                      /\ events'[k].fate = "TRUSTED" => is_trust_listed(l.nick)
    BY DEF StrangersStayOut
  <2>1. CASE k \in DOMAIN events /\ events'[k] = events[k]
    BY <2>1 DEF StrangersStayOut
  <2>2. ASSUME NEW n \in Nick, NEW j \in 1 .. Len(dm_held[n]),
               NEW fate \in {"TRUSTED", "318", "reset", "evicted"},
               events'[k] = Ended(dm_held[n][j], fate)
        PROVE  events'[k].fate # "UNTRUSTED" /\ is_trust_listed(events'[k].line.nick)
    BY <2>2, HostOfAListedNick DEF ParkedFits, Ended
  <2>3. ASSUME NEW n \in Nick,
               NEW fate \in {"TRUSTED", "JOINED", "UNTRUSTED", "IGNORED", "DM_BLOCKED"},
               events'[k] = Ended(Head(toBot), fate), SaidBy(Head(toBot), n),
               fate \in {"TRUSTED", "JOINED"} => host_matches(n, Head(toBot).host),
               Head(toBot).cmd = "dm" /\ fate = "UNTRUSTED"
                             => ~is_trust_listed(n) /\ dm_allowed(n, Head(toBot).host)
        PROVE  LET l == events'[k].line IN
               /\ events'[k].fate = "UNTRUSTED" => ~is_trust_listed(l.nick) /\ dm_allowed(l.nick, l.host)
               /\ events'[k].fate = "TRUSTED" => is_trust_listed(l.nick)
    BY <2>3, HostOfAListedNick DEF Ended, SaidBy
  <2>4. QED
    BY <1>2, <2>1, <2>2, <2>3, NewEvents
<1>3. QED
  BY <1>1, <1>2

(* Whatever the rules, and however the WHOISes, their answers and the moves *)
(* interleave, a stranger's private message is shown only by bot.dmallow,   *)
(* and a listed nick's never as UNTRUSTED.                                  *)
THEOREM StrangersAlwaysStayOut == Spec => []StrangersStayOut
<1>1. Init => GateInv /\ ParkedFits /\ StrangersStayOut
  BY GateInvInit DEF Init, ParkedFits, StrangersStayOut
<1>2. GateInv /\ ParkedFits /\ StrangersStayOut /\ [Next]_vars
        => (GateInv /\ ParkedFits /\ StrangersStayOut)'
  BY GateInvStep, ParkedFitsStep, StrangersStayOutStep
<1>3. QED
  BY <1>1, <1>2, PTL DEF Spec

-----------------------------------------------------------------------------
(* Whose the lines are.  Between two of its moves on the wire, all that is *)
(* said by a nick in sight is one tenure's; a 307 or 330 among it means    *)
(* that this tenure identified.  What the bot has read counts as being in  *)
(* front of the wire, and behind the last move is who holds the nick now.  *)

\* No QUIT or NICK of n among the lines j to k.
Stays(n, j, k) == \A i \in DOMAIN toBot : j <= i /\ i <= k => ~Leaves(toBot[i], n)

\* A 307 or 330 vouches for what its tenure said: parked, or on the wire before
\* the next move; a verified nick is vouched for to the first move on the wire.
VouchedFor(n) ==
    /\ \A i, k \in DOMAIN toBot :
          SaidBy(toBot[i], n) /\ Vouches(toBot[k], n) /\ Stays(n, i, k) /\ Stays(n, k, i)
              => toBot[i].tenure \in proved
    /\ \A i \in DOMAIN toBot :
          n \in verified /\ SaidBy(toBot[i], n) /\ Stays(n, 1, i) => toBot[i].tenure \in proved
    /\ \A j \in 1 .. Len(dm_held[n]), k \in DOMAIN toBot :
          Vouches(toBot[k], n) /\ Stays(n, 1, k) => dm_held[n][j].tenure \in proved

\* What no move on the wire follows was said by who holds the nick now.
HeldNow(n) ==
    /\ \A i \in DOMAIN toBot :
          SaidBy(toBot[i], n) /\ Stays(n, i, Len(toBot))
              => holder[n] # 0 /\ toBot[i].tenure = holder[n]
    /\ \A k \in DOMAIN toBot :
          Vouches(toBot[k], n) /\ Stays(n, k, Len(toBot)) => holder[n] \in proved
    /\ n \in verified /\ Stays(n, 1, Len(toBot)) => holder[n] \in proved
    /\ \A j \in 1 .. Len(dm_held[n]) :
          Stays(n, 1, Len(toBot)) => holder[n] # 0 /\ dm_held[n][j].tenure = holder[n]

\* All of it, for the nicks in sight; nobody's tenure, 0, never identifies.
InSightInv ==
    /\ 0 \notin proved
    /\ \A n \in InSight : VouchedFor(n) /\ HeldNow(n)

\* What a step of the reader does to one nick.
LEMMA ReaderOnNick ==
    ASSUME GateInv, ParkedFits, handle_server_line, NEW n \in Nick
    PROVE  /\ n \in verified' => (n \in verified \/ Vouches(Head(toBot), n)) /\ ~Leaves(Head(toBot), n)
           /\ \A j \in 1 .. Len(dm_held'[n]) :
                 /\ ~Leaves(Head(toBot), n) /\ ~Vouches(Head(toBot), n)
                 /\ \/ SaidBy(Head(toBot), n) /\ dm_held'[n][j] = Head(toBot)
                    \/ \E i \in 1 .. Len(dm_held[n]) : dm_held'[n][j] = dm_held[n][i]
<1> DEFINE h == Head(toBot)
           Kept == \A j \in 1 .. Len(dm_held'[n]) :
                 \/ SaidBy(h, n) /\ dm_held'[n][j] = h
                 \/ \E i \in 1 .. Len(dm_held[n]) : dm_held'[n][j] = dm_held[n][i]
<1>1. CASE ReaderAsks
  <2>1. ~Leaves(h, n) /\ ~Vouches(h, n)
    BY <1>1 DEF ReaderAsks, Leaves, Vouches
  <2>2. verified' = verified /\ dm_held'[n] = dm_held[n]
    BY <1>1 DEF ReaderAsks
  <2>3. QED
    BY <2>1, <2>2
<1>2. ASSUME NEW m \in Nick, ReaderFlushes(m)
      PROVE  /\ n \in verified' => (n \in verified \/ Vouches(h, n)) /\ ~Leaves(h, n)
             /\ \A j \in 1 .. Len(dm_held'[n]) :
                   ~Leaves(h, n) /\ ~Vouches(h, n) /\ dm_held'[n][j] = dm_held[n][j]
             /\ Len(dm_held'[n]) \in {0, Len(dm_held[n])}
  <2>1. /\ h.nick = m
        /\ \/ Vouches(h, m) /\ verified' = verified \cup {m}
           \/ Concludes(h, m) /\ verified' = verified
           \/ h.cmd \in {"PART", "QUIT", "NICK"} /\ verified' = verified \ {m}
        /\ dm_held'[m] = << >> /\ (n # m => dm_held'[n] = dm_held[n])
    BY <1>2 DEF ReaderFlushes
  <2>2. n # m => ~Leaves(h, n) /\ ~Vouches(h, n)
    BY <2>1 DEF Leaves, Vouches
  <2>3. n \in verified' => (n \in verified \/ Vouches(h, n)) /\ ~Leaves(h, n)
    BY <2>1, <2>2 DEF Leaves, Vouches, Concludes
  <2>4. CASE n = m
    BY <2>1, <2>3, <2>4
  <2>5. CASE n # m
    BY <2>1, <2>2, <2>3, <2>5
  <2>6. QED
    BY <2>4, <2>5
<1>3. ASSUME NEW m \in Nick, ReaderEnds(m)
      PROVE  /\ ~Leaves(h, n) /\ ~Vouches(h, n)
             /\ verified' = verified /\ dm_held'[n] = dm_held[n]
  BY <1>3 DEF ReaderEnds, SaidBy, Leaves, Vouches
<1>4. ASSUME NEW m \in Nick, ReaderParks(m)
      PROVE  /\ ~Leaves(h, n) /\ ~Vouches(h, n)
             /\ verified' = verified /\ Kept
  <2>1. PICK d \in 0 .. Len(dm_held[m]) :
              /\ Len(dm_held'[m]) = Len(dm_held[m]) + 1 - d
              /\ \A j \in 1 .. Len(dm_held[m]) - d : dm_held'[m][j] = dm_held[m][j + d]
              /\ dm_held'[m][Len(dm_held[m]) + 1 - d] = h
    BY <1>4 DEF ReaderParks
  <2>2. SaidBy(h, m) /\ verified' = verified /\ (n # m => dm_held'[n] = dm_held[n])
    BY <1>4 DEF ReaderParks
  <2>3. ~Leaves(h, n) /\ ~Vouches(h, n)
    BY <2>2 DEF SaidBy, Leaves, Vouches
  <2>4. CASE n = m
    <3>1. Len(dm_held[n]) \in Nat
      BY DEF GateInv, TypeOK
    <3>2. ASSUME NEW j \in 1 .. Len(dm_held'[n])
          PROVE  \/ SaidBy(h, n) /\ dm_held'[n][j] = h
                 \/ \E i \in 1 .. Len(dm_held[n]) : dm_held'[n][j] = dm_held[n][i]
      <4>1. CASE j = Len(dm_held[n]) + 1 - d
        BY <2>1, <2>2, <2>4, <4>1
      <4>2. CASE j # Len(dm_held[n]) + 1 - d
        <5>1. j \in 1 .. Len(dm_held[n]) - d /\ j + d \in 1 .. Len(dm_held[n])
          BY <2>1, <2>4, <3>1, <4>2
        <5>2. QED
          BY <2>1, <2>4, <5>1
      <4>3. QED
        BY <4>1, <4>2
    <3>3. QED
      BY <2>2, <2>3, <3>2
  <2>5. CASE n # m
    BY <2>2, <2>3, <2>5
  <2>6. QED
    BY <2>2, <2>3, <2>4, <2>5
<1>5. QED
  BY <1>1, <1>2, <1>3, <1>4, ReaderKinds

\* A line less on the wire: the stretches without a move stay such.
LEMMA StaysShift ==
    ASSUME TypeOK, NEW cmds, Reads(cmds), NEW n
    PROVE  /\ \A j, k \in DOMAIN toBot' : Stays(n, j, k)' => Stays(n, j + 1, k + 1)
           /\ \A k \in DOMAIN toBot' \cup {0} :
                 Stays(n, 1, k)' /\ ~Leaves(Head(toBot), n) => Stays(n, 1, k + 1)
<1>1. /\ Len(toBot) \in Nat /\ DOMAIN toBot = 1 .. Len(toBot) /\ Head(toBot) = toBot[1]
      /\ Len(toBot') = Len(toBot) - 1 /\ DOMAIN toBot' = 1 .. Len(toBot')
      /\ \A i \in DOMAIN toBot' : toBot'[i] = toBot[i + 1]
  BY ReadShift
<1>2. \A i \in DOMAIN toBot : i # 1 => i - 1 \in DOMAIN toBot' /\ toBot[i] = toBot'[i - 1]
  <2> SUFFICES ASSUME NEW i \in DOMAIN toBot, i # 1
               PROVE  i - 1 \in DOMAIN toBot' /\ toBot[i] = toBot'[i - 1]
    OBVIOUS
  <2>1. i - 1 \in DOMAIN toBot' /\ (i - 1) + 1 = i
    BY <1>1
  <2>2. QED
    BY <1>1, <2>1
<1>3. ASSUME NEW j \in DOMAIN toBot', NEW k \in DOMAIN toBot', Stays(n, j, k)'
      PROVE  Stays(n, j + 1, k + 1)
  <2> SUFFICES ASSUME NEW i \in DOMAIN toBot, j + 1 <= i, i <= k + 1
               PROVE  ~Leaves(toBot[i], n)
    BY DEF Stays
  <2>1. i # 1 /\ j <= i - 1 /\ i - 1 <= k
    BY <1>1
  <2>2. QED
    BY <1>2, <1>3, <2>1 DEF Stays
<1>4. ASSUME NEW k \in DOMAIN toBot' \cup {0}, Stays(n, 1, k)', ~Leaves(Head(toBot), n)
      PROVE  Stays(n, 1, k + 1)
  <2> SUFFICES ASSUME NEW i \in DOMAIN toBot, i <= k + 1
               PROVE  ~Leaves(toBot[i], n)
    BY DEF Stays
  <2>1. CASE i = 1
    BY <1>1, <1>4, <2>1
  <2>2. CASE i # 1
    <3>1. 1 <= i - 1 /\ i - 1 <= k
      BY <1>1, <2>2
    <3>2. QED
      BY <1>2, <1>4, <2>2, <3>1 DEF Stays
  <2>3. QED
    BY <2>1, <2>2
<1>5. QED
  BY <1>3, <1>4

\* A line read moves the front of the wire, not whose the lines are.
LEMMA ReaderKeepsSight ==
    ASSUME GateInv, ParkedFits, InSightInv, handle_server_line, NEW n \in InSight
    PROVE  VouchedFor(n)' /\ HeldNow(n)'
<1> DEFINE h == Head(toBot)
<1>1. n \in Nick /\ VouchedFor(n) /\ HeldNow(n)
  BY TrustAssumption DEF InSightInv
<1>2. PICK cmds : Reads(cmds)
  BY ReaderKinds
<1>3. UNCHANGED serverVars
  BY ReaderKinds
<1>4. holder' = holder /\ proved' = proved
  BY <1>3 DEF serverVars
<1>5. /\ Len(toBot) \in Nat /\ DOMAIN toBot = 1 .. Len(toBot) /\ 1 \in DOMAIN toBot /\ h = toBot[1]
      /\ Len(toBot') = Len(toBot) - 1 /\ DOMAIN toBot' = 1 .. Len(toBot')
      /\ \A i \in DOMAIN toBot' : i + 1 \in DOMAIN toBot /\ toBot'[i] = toBot[i + 1]
  BY <1>2, ReadShift DEF GateInv
<1>6. /\ \A j, k \in DOMAIN toBot' : Stays(n, j, k)' => Stays(n, j + 1, k + 1)
      /\ \A k \in DOMAIN toBot' \cup {0} : Stays(n, 1, k)' /\ ~Leaves(h, n) => Stays(n, 1, k + 1)
  BY <1>2, StaysShift DEF GateInv
<1>7. /\ n \in verified' => (n \in verified \/ Vouches(h, n)) /\ ~Leaves(h, n)
      /\ \A j \in 1 .. Len(dm_held'[n]) :
            /\ ~Leaves(h, n) /\ ~Vouches(h, n)
            /\ \/ SaidBy(h, n) /\ dm_held'[n][j] = h
               \/ \E i \in 1 .. Len(dm_held[n]) : dm_held'[n][j] = dm_held[n][i]
  BY <1>1, ReaderOnNick
<1>8. \A k \in DOMAIN toBot' : Stays(n, k + 1, 1)
  BY <1>5 DEF Stays
<1> HIDE DEF h
<1>9. VouchedFor(n)'
  <2>1. ASSUME NEW i \in DOMAIN toBot', NEW k \in DOMAIN toBot',
               SaidBy(toBot'[i], n), Vouches(toBot'[k], n), Stays(n, i, k)', Stays(n, k, i)'
        PROVE  toBot'[i].tenure \in proved'
    BY <1>1, <1>4, <1>5, <1>6, <2>1 DEF VouchedFor
  <2>2. ASSUME NEW i \in DOMAIN toBot', n \in verified', SaidBy(toBot'[i], n), Stays(n, 1, i)'
        PROVE  toBot'[i].tenure \in proved'
    <3>1. /\ i + 1 \in DOMAIN toBot /\ SaidBy(toBot[i + 1], n) /\ toBot'[i] = toBot[i + 1]
          /\ Stays(n, 1, i + 1) /\ Stays(n, i + 1, 1)
      BY <1>5, <1>6, <1>7, <1>8, <2>2
    <3>2. CASE n \in verified
      BY <1>1, <1>4, <3>1, <3>2 DEF VouchedFor
    <3>3. CASE Vouches(toBot[1], n)
      BY <1>1, <1>4, <1>5, <3>1, <3>3 DEF VouchedFor
    <3>4. QED
      BY <1>5, <1>7, <2>2, <3>2, <3>3
  <2>3. ASSUME NEW j \in 1 .. Len(dm_held'[n]), NEW k \in DOMAIN toBot',
               Vouches(toBot'[k], n), Stays(n, 1, k)'
        PROVE  dm_held'[n][j].tenure \in proved'
    <3>1. /\ k + 1 \in DOMAIN toBot /\ Vouches(toBot[k + 1], n)
          /\ Stays(n, 1, k + 1) /\ Stays(n, k + 1, 1)
      BY <1>5, <1>6, <1>7, <1>8, <2>3
    <3>2. CASE SaidBy(toBot[1], n) /\ dm_held'[n][j] = toBot[1]
      BY <1>1, <1>4, <1>5, <3>1, <3>2 DEF VouchedFor
    <3>3. CASE \E i \in 1 .. Len(dm_held[n]) : dm_held'[n][j] = dm_held[n][i]
      BY <1>1, <1>4, <3>1, <3>3 DEF VouchedFor
    <3>4. QED
      BY <1>5, <1>7, <3>2, <3>3
  <2>4. QED
    BY <2>1, <2>2, <2>3 DEF VouchedFor
<1>10. HeldNow(n)'
  <2>1. Len(toBot') \in DOMAIN toBot' \cup {0} /\ Len(toBot') + 1 = Len(toBot)
    BY <1>5
  <2>2. ASSUME NEW i \in DOMAIN toBot', Stays(n, i, Len(toBot))'
        PROVE  i + 1 \in DOMAIN toBot /\ toBot'[i] = toBot[i + 1] /\ Stays(n, i + 1, Len(toBot))
    <3>1. Len(toBot') \in DOMAIN toBot'
      BY <1>5
    <3>2. QED
      BY <1>5, <1>6, <2>1, <2>2, <3>1
  <2>3. Stays(n, 1, Len(toBot))' /\ ~Leaves(h, n) => Stays(n, 1, Len(toBot))
    BY <1>6, <2>1
  <2>4. ASSUME NEW i \in DOMAIN toBot', SaidBy(toBot'[i], n), Stays(n, i, Len(toBot))'
        PROVE  holder'[n] # 0 /\ toBot'[i].tenure = holder'[n]
    BY <1>1, <1>4, <2>2, <2>4 DEF HeldNow
  <2>5. ASSUME NEW k \in DOMAIN toBot', Vouches(toBot'[k], n), Stays(n, k, Len(toBot))'
        PROVE  holder'[n] \in proved'
    BY <1>1, <1>4, <2>2, <2>5 DEF HeldNow
  <2>6. ASSUME n \in verified', Stays(n, 1, Len(toBot))'
        PROVE  holder'[n] \in proved'
    BY <1>1, <1>4, <1>5, <1>7, <2>3, <2>6 DEF HeldNow
  <2>7. ASSUME NEW j \in 1 .. Len(dm_held'[n]), Stays(n, 1, Len(toBot))'
        PROVE  holder'[n] # 0 /\ dm_held'[n][j].tenure = holder'[n]
    <3>1. Stays(n, 1, Len(toBot))
      BY <1>7, <2>3, <2>7
    <3>2. CASE SaidBy(toBot[1], n) /\ dm_held'[n][j] = toBot[1]
      BY <1>1, <1>4, <1>5, <3>1, <3>2 DEF HeldNow
    <3>3. CASE \E i \in 1 .. Len(dm_held[n]) : dm_held'[n][j] = dm_held[n][i]
      BY <1>1, <1>4, <3>1, <3>3 DEF HeldNow
    <3>4. QED
      BY <1>5, <1>7, <3>2, <3>3
  <2>8. QED
    BY <2>4, <2>5, <2>6, <2>7 DEF HeldNow
<1>11. QED
  BY <1>9, <1>10

\* What is added to the wire says what holds now; and a tenure does not end
\* without its move behind it.
WireGrowsInSight(n) ==
    /\ Len(toBot) <= Len(toBot') /\ \A i \in DOMAIN toBot : toBot'[i] = toBot[i]
    /\ \A i \in DOMAIN toBot' \ DOMAIN toBot :
          /\ SaidBy(toBot'[i], n) => holder[n] # 0 /\ toBot'[i].tenure = holder[n]
          /\ Vouches(toBot'[i], n) => holder[n] \in proved
    /\ \/ holder'[n] = holder[n]
       \/ holder[n] = 0
       \/ Len(toBot) < Len(toBot') /\ Leaves(toBot'[Len(toBot')], n)

\* Lines added to the wire by n's moves and messages keep it told apart by tenure.
LEMMA WireGrowthKeepsSight ==
    ASSUME GateInv, GateInv', InSightInv, NEW n \in InSight, WireGrowsInSight(n),
           UNCHANGED <<verified, dm_held>>, proved \subseteq proved'
    PROVE  VouchedFor(n)' /\ HeldNow(n)'
<1>1. VouchedFor(n) /\ HeldNow(n) /\ 0 \notin proved
  BY DEF InSightInv
<1>2. /\ Len(toBot) \in Nat /\ DOMAIN toBot = 1 .. Len(toBot)
      /\ Len(toBot') \in Nat /\ DOMAIN toBot' = 1 .. Len(toBot') /\ Len(toBot) <= Len(toBot')
      /\ \A i \in DOMAIN toBot : toBot'[i] = toBot[i]
  BY DEF GateInv, TypeOK, WireGrowsInSight
<1>3. ASSUME NEW j \in Nat, NEW k \in Nat, Stays(n, j, k)'
      PROVE  /\ Stays(n, j, k)
             /\ Len(toBot) <= k => Stays(n, j, Len(toBot))
  BY <1>2, <1>3 DEF Stays
<1>4. ASSUME NEW j \in Nat, j <= Len(toBot'), Stays(n, j, Len(toBot))', Len(toBot') # 0
      PROVE  holder'[n] = holder[n] \/ holder[n] = 0
  <2>1. ~Leaves(toBot'[Len(toBot')], n)
    BY <1>2, <1>4 DEF Stays
  <2>2. QED
    BY <2>1 DEF WireGrowsInSight
<1>5. \A i \in DOMAIN toBot' : i \notin DOMAIN toBot =>
          /\ Len(toBot) < i
          /\ SaidBy(toBot'[i], n) => holder[n] # 0 /\ toBot'[i].tenure = holder[n]
          /\ Vouches(toBot'[i], n) => holder[n] \in proved
  BY <1>2 DEF WireGrowsInSight
<1>6. VouchedFor(n)'
  <2>1. ASSUME NEW i \in DOMAIN toBot', NEW k \in DOMAIN toBot',
               SaidBy(toBot'[i], n), Vouches(toBot'[k], n), Stays(n, i, k)', Stays(n, k, i)'
        PROVE  toBot'[i].tenure \in proved'
    <3>1. CASE i \in DOMAIN toBot /\ k \in DOMAIN toBot
      BY <1>1, <1>2, <1>3, <2>1, <3>1 DEF VouchedFor
    <3>2. CASE i \in DOMAIN toBot /\ k \notin DOMAIN toBot
      <4>1. Stays(n, i, Len(toBot)) /\ holder[n] \in proved
        BY <1>2, <1>3, <1>5, <2>1, <3>2
      <4>2. QED
        BY <1>1, <1>2, <2>1, <3>2, <4>1 DEF HeldNow
    <3>3. CASE i \notin DOMAIN toBot /\ k \in DOMAIN toBot
      <4>1. Stays(n, k, Len(toBot)) /\ toBot'[i].tenure = holder[n]
        BY <1>2, <1>3, <1>5, <2>1, <3>3
      <4>2. QED
        BY <1>1, <1>2, <2>1, <3>3, <4>1 DEF HeldNow
    <3>4. CASE i \notin DOMAIN toBot /\ k \notin DOMAIN toBot
      BY <1>5, <2>1, <3>4
    <3>5. QED
      BY <3>1, <3>2, <3>3, <3>4
  <2>2. ASSUME NEW i \in DOMAIN toBot', n \in verified', SaidBy(toBot'[i], n), Stays(n, 1, i)'
        PROVE  toBot'[i].tenure \in proved'
    <3>1. CASE i \in DOMAIN toBot
      BY <1>1, <1>2, <1>3, <2>2, <3>1 DEF VouchedFor
    <3>2. CASE i \notin DOMAIN toBot
      <4>1. Stays(n, 1, Len(toBot)) /\ toBot'[i].tenure = holder[n]
        BY <1>2, <1>3, <1>5, <2>2, <3>2
      <4>2. QED
        BY <1>1, <2>2, <4>1 DEF HeldNow
    <3>3. QED
      BY <3>1, <3>2
  <2>3. ASSUME NEW j \in 1 .. Len(dm_held'[n]), NEW k \in DOMAIN toBot',
               Vouches(toBot'[k], n), Stays(n, 1, k)'
        PROVE  dm_held'[n][j].tenure \in proved'
    <3>1. CASE k \in DOMAIN toBot
      BY <1>1, <1>2, <1>3, <2>3, <3>1 DEF VouchedFor
    <3>2. CASE k \notin DOMAIN toBot
      <4>1. Stays(n, 1, Len(toBot)) /\ holder[n] \in proved
        BY <1>2, <1>3, <1>5, <2>3, <3>2
      <4>2. QED
        BY <1>1, <2>3, <4>1 DEF HeldNow
    <3>3. QED
      BY <3>1, <3>2
  <2>4. QED
    BY <2>1, <2>2, <2>3 DEF VouchedFor
<1>7. HeldNow(n)'
  <2>1. ASSUME NEW i \in DOMAIN toBot', SaidBy(toBot'[i], n), Stays(n, i, Len(toBot))'
        PROVE  holder'[n] # 0 /\ toBot'[i].tenure = holder'[n]
    <3>1. holder'[n] = holder[n] \/ holder[n] = 0
      BY <1>2, <1>4, <2>1
    <3>2. CASE i \in DOMAIN toBot
      BY <1>1, <1>2, <1>3, <2>1, <3>1, <3>2 DEF HeldNow
    <3>3. CASE i \notin DOMAIN toBot
      BY <1>5, <2>1, <3>1, <3>3
    <3>4. QED
      BY <3>2, <3>3
  <2>2. ASSUME NEW k \in DOMAIN toBot', Vouches(toBot'[k], n), Stays(n, k, Len(toBot))'
        PROVE  holder'[n] \in proved'
    <3>1. holder'[n] = holder[n] \/ holder[n] = 0
      BY <1>2, <1>4, <2>2
    <3>2. holder[n] \in proved
      <4>1. CASE k \in DOMAIN toBot
        BY <1>1, <1>2, <1>3, <2>2, <4>1 DEF HeldNow
      <4>2. CASE k \notin DOMAIN toBot
        BY <1>5, <2>2, <4>2
      <4>3. QED
        BY <4>1, <4>2
    <3>3. QED
      BY <1>1, <3>1, <3>2
  <2>3. ASSUME Stays(n, 1, Len(toBot))', holder[n] # 0
        PROVE  Stays(n, 1, Len(toBot)) /\ holder'[n] = holder[n]
    <3>1. Stays(n, 1, Len(toBot))
      BY <1>2, <1>3, <2>3
    <3>2. CASE Len(toBot') = 0
      <4>1. ~(Len(toBot) < Len(toBot')) /\ holder[n] # 0
        BY <1>2, <2>3, <3>2
      <4>2. holder'[n] = holder[n]
        BY <4>1 DEF WireGrowsInSight
      <4>3. QED
        BY <3>1, <4>2
    <3>3. CASE Len(toBot') # 0
      <4>1. 1 \in Nat /\ 1 <= Len(toBot')
        BY <1>2, <3>3
      <4>2. holder'[n] = holder[n] \/ holder[n] = 0
        BY <1>4, <2>3, <3>3, <4>1
      <4>3. QED
        BY <2>3, <3>1, <4>2
    <3>4. QED
      BY <3>1, <3>2, <3>3
  <2>4. Stays(n, 1, Len(toBot))' => Stays(n, 1, Len(toBot))
    BY <1>2, <1>3
  <2>5. ASSUME n \in verified', Stays(n, 1, Len(toBot))'
        PROVE  holder'[n] \in proved'
    BY <1>1, <2>3, <2>4, <2>5 DEF HeldNow
  <2>6. ASSUME NEW j \in 1 .. Len(dm_held'[n]), Stays(n, 1, Len(toBot))'
        PROVE  holder'[n] # 0 /\ dm_held'[n][j].tenure = holder'[n]
    BY <1>1, <2>3, <2>4, <2>6 DEF HeldNow
  <2>7. QED
    BY <2>1, <2>2, <2>5, <2>6 DEF HeldNow
<1>8. QED
  BY <1>6, <1>7

\* One line added, or none.
LEMMA OneMoreLine ==
    ASSUME TypeOK, NEW l \in Line, toBot' = Append(toBot, l)
    PROVE  /\ Len(toBot) \in Nat /\ DOMAIN toBot = 1 .. Len(toBot)
           /\ Len(toBot') = Len(toBot) + 1 /\ DOMAIN toBot' = 1 .. Len(toBot')
           /\ \A i \in DOMAIN toBot : toBot'[i] = toBot[i]
           /\ toBot'[Len(toBot')] = l
           /\ DOMAIN toBot' \ DOMAIN toBot = {Len(toBot')}
  BY DEF TypeOK

\* Only who holds a nick identifies.
LEMMA UsersProve ==
    ASSUME GateInv, Users, 0 \notin proved
    PROVE  proved \subseteq proved' /\ 0 \notin proved'
  BY DEF Users, Connect, Identify, Quit, Part, Rename, Say

\* The users' steps, seen from a nick in sight.
LEMMA UsersInSight ==
    ASSUME GateInv, InSightInv, Users, NEW n \in InSight
    PROVE  WireGrowsInSight(n) /\ proved \subseteq proved' /\ 0 \notin proved'
<1> USE DEF GateInv
<1>0. n \in Nick /\ 0 \notin proved /\ holder \in [Nick -> Nat] /\ tenures \in Nat
  BY TrustAssumption DEF InSightInv, TypeOK
<1>1. ASSUME NEW m \in Nick, NEW h \in Host, Connect(m, h)
      PROVE  WireGrowsInSight(n) /\ proved' = proved
  BY <1>0, <1>1 DEF Connect, WireGrowsInSight, TypeOK
<1>2. ASSUME NEW m \in Nick, Identify(m)
      PROVE  WireGrowsInSight(n) /\ proved \subseteq proved' /\ 0 \notin proved'
  BY <1>0, <1>2 DEF Identify, WireGrowsInSight, TypeOK
<1>3. ASSUME NEW m \in Nick, Quit(m)
      PROVE  WireGrowsInSight(n) /\ proved' = proved
  <2>1. /\ proved' = proved /\ holder' = [holder EXCEPT ![m] = 0]
        /\ toBot' = Append(toBot, [cmd |-> "QUIT", nick |-> m]) \/ (m # n /\ toBot' = toBot)
    BY <1>3 DEF Quit, Hears
  <2>2. CASE m # n /\ toBot' = toBot
    BY <1>0, <2>1, <2>2 DEF WireGrowsInSight, TypeOK
  <2>3. CASE toBot' = Append(toBot, [cmd |-> "QUIT", nick |-> m])
    <3> DEFINE l == [cmd |-> "QUIT", nick |-> m]
    <3>1. l \in Line
      BY <1>3, SentLines
    <3>2. ~SaidBy(l, n) /\ ~Vouches(l, n) /\ (m = n => Leaves(l, n))
      BY DEF SaidBy, Vouches, Leaves
    <3> HIDE DEF l
    <3>3. toBot' = Append(toBot, l)
      BY <2>3 DEF l
    <3>4. holder'[n] = holder[n] \/ m = n
      BY <1>0, <2>1
    <3>5. QED
      BY <2>1, <3>1, <3>2, <3>3, <3>4, OneMoreLine DEF WireGrowsInSight
  <2>4. QED
    BY <2>1, <2>2, <2>3
<1>4. ASSUME NEW m \in Nick, Part(m)
      PROVE  WireGrowsInSight(n) /\ proved' = proved
  <2> DEFINE l == [cmd |-> "PART", nick |-> m]
  <2>1. l \in Line
    BY <1>4, SentLines
  <2>2. ~SaidBy(l, n) /\ ~Vouches(l, n)
    BY DEF SaidBy, Vouches
  <2>3. toBot' = Append(toBot, l) /\ holder' = holder /\ proved' = proved
    BY <1>4 DEF Part
  <2> HIDE DEF l
  <2>4. QED
    BY <2>1, <2>2, <2>3, OneMoreLine DEF WireGrowsInSight
<1>5. ASSUME NEW a \in Nick, NEW b \in Nick, Rename(a, b)
      PROVE  WireGrowsInSight(n) /\ proved' = proved
  <2>1. /\ proved' = proved /\ holder[b] = 0
        /\ holder' = [holder EXCEPT ![a] = 0, ![b] = tenures + 1]
        /\ toBot' = Append(toBot, [cmd |-> "NICK", nick |-> a]) \/ (a # n /\ toBot' = toBot)
    BY <1>5 DEF Rename, Hears
  <2>2. holder'[n] = holder[n] \/ n = a \/ holder[n] = 0
    BY <1>0, <2>1
  <2>3. CASE a # n /\ toBot' = toBot
    BY <1>0, <2>1, <2>2, <2>3 DEF WireGrowsInSight, TypeOK
  <2>4. CASE toBot' = Append(toBot, [cmd |-> "NICK", nick |-> a])
    <3> DEFINE l == [cmd |-> "NICK", nick |-> a]
    <3>1. l \in Line
      BY <1>5, SentLines
    <3>2. ~SaidBy(l, n) /\ ~Vouches(l, n) /\ (a = n => Leaves(l, n))
      BY DEF SaidBy, Vouches, Leaves
    <3> HIDE DEF l
    <3>3. toBot' = Append(toBot, l)
      BY <2>4 DEF l
    <3>4. QED
      BY <2>1, <2>2, <3>1, <3>2, <3>3, OneMoreLine DEF WireGrowsInSight
  <2>5. QED
    BY <2>1, <2>3, <2>4
<1>6. ASSUME NEW m \in Nick, NEW cmd \in {"dm", "channel", "invite"}, Say(m, cmd)
      PROVE  WireGrowsInSight(n) /\ proved' = proved
  <2> DEFINE l == [cmd |-> cmd, nick |-> m, host |-> hostOf[m], id |-> said + 1,
                   tenure |-> holder[m], identified |-> holder[m] \in proved]
  <2>1. l \in Line
    <3>1. hostOf[m] \in Host /\ holder[m] \in Nat /\ said + 1 \in Nat
          /\ (holder[m] \in proved) \in BOOLEAN
      BY DEF TypeOK
    <3>2. QED
      BY <3>1, SentLines
  <2>2. ~Vouches(l, n) /\ (SaidBy(l, n) => m = n /\ l.tenure = holder[n])
    BY DEF SaidBy, Vouches
  <2>3. toBot' = Append(toBot, l) /\ holder' = holder /\ proved' = proved /\ holder[m] # 0
    BY <1>6 DEF Say
  <2> HIDE DEF l
  <2>4. QED
    BY <2>1, <2>2, <2>3, OneMoreLine DEF WireGrowsInSight
<1>7. QED
  BY <1>0, <1>1, <1>2, <1>3, <1>4, <1>5, <1>6, TrustAssumption DEF Users

\* The answer to a WHOIS, seen from a nick in sight.
LEMMA AnswerInSight ==
    ASSUME GateInv, AnswerWhois, NEW n \in InSight
    PROVE  WireGrowsInSight(n) /\ proved' = proved
<1> DEFINE m == Head(toServer)
           end == [cmd |-> "318", nick |-> m]
           ident == [cmd |-> IdentReply, nick |-> m]
<1>1. /\ m \in Nick /\ UNCHANGED serverVars /\ toBot \in Seq(Line)
  BY AnswerWhoisType DEF GateInv, TypeOK
<1>2. proved' = proved /\ holder' = holder
  BY <1>1 DEF serverVars
<1>3. end \in Line /\ ident \in Line
  BY <1>1, SentLines, TrustAssumption
<1>4. ~SaidBy(end, n) /\ ~Vouches(end, n)
  BY DEF SaidBy, Vouches
<1>5. ~SaidBy(ident, n) /\ (Vouches(ident, n) => m = n)
  BY TrustAssumption DEF SaidBy, Vouches
<1>6. \/ toBot' = toBot \o <<ident, end>> /\ holder[m] \in proved
      \/ toBot' = Append(toBot, end)
  BY DEF AnswerWhois
<1> HIDE DEF m, end, ident
<1>7. CASE toBot' = Append(toBot, end)
  BY <1>2, <1>3, <1>4, <1>7, OneMoreLine DEF WireGrowsInSight, GateInv
<1>8. CASE toBot' = toBot \o <<ident, end>> /\ holder[m] \in proved
  <2>1. /\ Len(toBot) \in Nat /\ DOMAIN toBot = 1 .. Len(toBot)
        /\ Len(toBot') = Len(toBot) + 2 /\ DOMAIN toBot' = 1 .. Len(toBot) + 2
        /\ \A i \in DOMAIN toBot : toBot'[i] = toBot[i]
        /\ toBot'[Len(toBot) + 1] = ident /\ toBot'[Len(toBot) + 2] = end
    BY <1>1, <1>3, <1>8
  <2>2. \A i \in DOMAIN toBot' \ DOMAIN toBot : i = Len(toBot) + 1 \/ i = Len(toBot) + 2
    BY <2>1
  <2>3. QED
    BY <1>2, <1>4, <1>5, <1>8, <2>1, <2>2 DEF WireGrowsInSight
<1>9. QED
  BY <1>6, <1>7, <1>8

\* Every step keeps the wire of the nicks in sight told apart by tenure.
LEMMA InSightStep ==
    ASSUME GateInv, ParkedFits, InSightInv, [Next]_vars
    PROVE  InSightInv'
<1>1. GateInv'
  BY GateInvStep
<1>2. CASE handle_server_line
  <2>1. proved' = proved
    BY <1>2, ReaderKinds DEF serverVars
  <2>2. QED
    BY <1>2, <2>1, ReaderKeepsSight DEF InSightInv
<1>3. CASE ~handle_server_line
  <2>1. UNCHANGED <<verified, dm_held>>
    BY <1>3, OthersLeaveTheGate
  <2>2. ASSUME NEW n \in InSight
        PROVE  WireGrowsInSight(n) /\ proved \subseteq proved' /\ 0 \notin proved'
    <3>1. 0 \notin proved /\ n \in Nick
      BY TrustAssumption DEF InSightInv
    <3>2. CASE Users
      BY <3>2, UsersInSight
    <3>3. CASE AnswerWhois
      BY <3>1, <3>3, AnswerInSight
    <3>4. CASE (\E m \in Nick : OperatorWhois(m)) \/ Clock \/ UNCHANGED vars
      <4>1. UNCHANGED <<toBot, holder, proved>>
        BY <3>4 DEF OperatorWhois, Clock, vars, serverVars
      <4>2. QED
        BY <3>1, <4>1 DEF WireGrowsInSight, GateInv, TypeOK
    <3>5. QED
      BY <1>3, <3>2, <3>3, <3>4 DEF Next
  <2>3. 0 \notin proved'
    <3>1. CASE Users
      BY <3>1, UsersProve DEF InSightInv
    <3>2. CASE ~Users
      <4>1. proved' = proved
        BY <1>3, <3>2 DEF Next, AnswerWhois, OperatorWhois, Clock, vars, serverVars
      <4>2. QED
        BY <4>1 DEF InSightInv
    <3>3. QED
      BY <3>1, <3>2
  <2>4. QED
    BY <1>1, <2>1, <2>2, <2>3, WireGrowthKeepsSight DEF InSightInv
<1>4. QED
  BY <1>2, <1>3

\* No step trusts a line whose speaker has not identified.
LEMMA TrustedIsIdentifiedStep ==
    ASSUME GateInv, ParkedFits, InSightInv, TrustedIsIdentified, [Next]_vars
    PROVE  TrustedIsIdentified'
<1>1. CASE ~handle_server_line
  BY <1>1, OthersLeaveTheGate DEF TrustedIsIdentified
<1>2. CASE handle_server_line
  <2> SUFFICES ASSUME NEW k \in DOMAIN events', events'[k].fate \in {"TRUSTED", "JOINED"},
                      events'[k].line.nick \in InSight
               PROVE  events'[k].proved /\ host_matches(events'[k].line.nick, events'[k].line.host)
    BY DEF TrustedIsIdentified
  <2>1. CASE k \in DOMAIN events /\ events'[k] = events[k]
    BY <2>1 DEF TrustedIsIdentified
  <2>2. PICK cmds : Reads(cmds)
    BY <1>2, ReaderKinds
  <2>3. /\ 1 \in DOMAIN toBot /\ Head(toBot) = toBot[1]
        /\ DOMAIN toBot = 1 .. Len(toBot) /\ Len(toBot) \in Nat
    BY <2>2, ReadShift DEF GateInv
  <2>4. ASSUME NEW n \in Nick, NEW j \in 1 .. Len(dm_held[n]),
               NEW fate \in {"TRUSTED", "318", "reset", "evicted"},
               events'[k] = Ended(dm_held[n][j], fate),
               fate = "TRUSTED" => Vouches(Head(toBot), n)
        PROVE  events'[k].proved /\ host_matches(events'[k].line.nick, events'[k].line.host)
    <3>1. fate = "TRUSTED" /\ events'[k].line = dm_held[n][j]
          /\ events'[k].proved = (dm_held[n][j].tenure \in proved)
      BY <2>4 DEF Ended
    <3>2. dm_held[n][j].nick = n /\ host_matches(n, dm_held[n][j].host)
      BY DEF ParkedFits
    <3>3. n \in InSight /\ Vouches(toBot[1], n)
      BY <2>3, <2>4, <3>1, <3>2
    <3>4. Stays(n, 1, 1)
      BY <2>3, <3>3 DEF Stays, Vouches, Leaves
    <3>5. dm_held[n][j].tenure \in proved
      BY <2>3, <3>3, <3>4 DEF InSightInv, VouchedFor
    <3>6. QED
      BY <3>1, <3>2, <3>5
  <2>5. ASSUME NEW n \in Nick,
               NEW fate \in {"TRUSTED", "JOINED", "UNTRUSTED", "IGNORED", "DM_BLOCKED"},
               events'[k] = Ended(Head(toBot), fate), SaidBy(Head(toBot), n),
               fate \in {"TRUSTED", "JOINED"} => n \in verified /\ host_matches(n, Head(toBot).host)
        PROVE  events'[k].proved /\ host_matches(events'[k].line.nick, events'[k].line.host)
    <3>1. fate \in {"TRUSTED", "JOINED"} /\ events'[k].line = toBot[1]
          /\ events'[k].proved = (toBot[1].tenure \in proved) /\ toBot[1].nick = n
      BY <2>3, <2>5 DEF Ended, SaidBy
    <3>2. n \in InSight /\ n \in verified /\ SaidBy(toBot[1], n) /\ host_matches(n, toBot[1].host)
      BY <2>3, <2>5, <3>1
    <3>3. Stays(n, 1, 1)
      BY <2>3, <3>2 DEF Stays, SaidBy, Leaves
    <3>4. toBot[1].tenure \in proved
      BY <2>3, <3>2, <3>3 DEF InSightInv, VouchedFor
    <3>5. QED
      BY <3>1, <3>2, <3>4
  <2>6. QED
    BY <1>2, <2>1, <2>4, <2>5, NewEvents
<1>3. QED
  BY <1>1, <1>2

\* At the start there is nothing on the wire but the 001.
LEMMA InSightInit ==
    ASSUME Init
    PROVE  GateInv /\ ParkedFits /\ InSightInv
<1>1. GateInv /\ ParkedFits
  BY GateInvInit DEF Init, ParkedFits
<1>2. /\ toBot = <<[cmd |-> "001"]>> /\ DOMAIN toBot = {1} /\ toBot[1].cmd = "001"
      /\ verified = {} /\ proved = {}
      /\ \A n \in InSight : Len(dm_held[n]) = 0
  BY TrustAssumption DEF Init
<1>3. \A n : ~SaidBy(toBot[1], n) /\ ~Vouches(toBot[1], n)
  BY <1>2 DEF SaidBy, Vouches
<1>4. InSightInv
  BY <1>2, <1>3 DEF InSightInv, VouchedFor, HeldNow
<1>5. QED
  BY <1>1, <1>4

(* What TRUSTED means, for any number of users, tenures and rules: the one *)
(* who said the line had identified to services, and speaks from a host of *)
(* bot.trust, for every nick whose moves the bot sees.                     *)
THEOREM TrustedAlwaysIdentified == Spec => []TrustedIsIdentified
<1> DEFINE Inv == GateInv /\ ParkedFits /\ InSightInv /\ TrustedIsIdentified
<1>1. Init => Inv
  BY InSightInit DEF Init, TrustedIsIdentified
<1>2. Inv /\ [Next]_vars => Inv'
  BY GateInvStep, ParkedFitsStep, InSightStep, TrustedIsIdentifiedStep
<1>3. Inv => TrustedIsIdentified
  OBVIOUS
<1>4. QED
  BY <1>1, <1>2, <1>3, PTL DEF Spec

-----------------------------------------------------------------------------
(* Whom the gate turns away.  A 318 with no 307 or 330 in front of it says *)
(* that nobody had identified when it was sent, and so neither had who     *)
(* spoke before it.                                                        *)

\* The 318 at k comes right behind its 307 or 330.
Confirmed(n, k) == IF k = 1 THEN n \in verified ELSE Vouches(toBot[k - 1], n)

\* Who is said to have identified when it spoke has.
TruthfulLines ==
    /\ \A i \in DOMAIN toBot : \A n \in Nick :
          SaidBy(toBot[i], n) /\ toBot[i].identified => toBot[i].tenure \in proved
    /\ \A n \in Nick : \A j \in 1 .. Len(dm_held[n]) :
          dm_held[n][j].identified => dm_held[n][j].tenure \in proved

\* Nothing said in front of the 318 at k, by whom it is about, was said identified.
Denied(n, k) ==
    /\ \A i \in DOMAIN toBot :
          i < k /\ SaidBy(toBot[i], n) /\ Stays(n, i, k) => ~toBot[i].identified
    /\ \A j \in 1 .. Len(dm_held[n]) : Stays(n, 1, k) => ~dm_held[n][j].identified

\* A 318 that does not come right behind a 307 or 330 denies.
EndsTellTheTruth ==
    \A n \in InSight : \A k \in DOMAIN toBot :
        Concludes(toBot[k], n) /\ ~Confirmed(n, k) => Denied(n, k)

\* A 307 or 330 read leaves its nick verified.
LEMMA VouchedIsVerified ==
    ASSUME GateInv, ParkedFits, handle_server_line, NEW n \in Nick, Vouches(Head(toBot), n)
    PROVE  n \in verified'
<1>1. ~ReaderAsks
  BY DEF Vouches, ReaderAsks
<1>2. ASSUME NEW m \in Nick PROVE ~ReaderEnds(m) /\ ~ReaderParks(m)
  BY DEF Vouches, ReaderEnds, ReaderParks, SaidBy
<1>3. ASSUME NEW m \in Nick, ReaderFlushes(m) PROVE n \in verified'
  BY <1>3 DEF Vouches, ReaderFlushes, Concludes
<1>4. QED
  BY <1>1, <1>2, <1>3, ReaderKinds

\* A line read leaves the rest of the wire truthful, and ends its lines truthfully.
LEMMA ReaderKeepsTruth ==
    ASSUME GateInv, ParkedFits, TruthfulLines, EndsTellTheTruth, handle_server_line
    PROVE  (TruthfulLines /\ EndsTellTheTruth)'
<1>1. PICK cmds : Reads(cmds)
  BY ReaderKinds
<1>2. proved' = proved
  BY ReaderKinds DEF serverVars
<1>3. /\ Len(toBot) \in Nat /\ DOMAIN toBot = 1 .. Len(toBot) /\ 1 \in DOMAIN toBot
      /\ Head(toBot) = toBot[1]
      /\ Len(toBot') = Len(toBot) - 1 /\ DOMAIN toBot' = 1 .. Len(toBot')
      /\ \A i \in DOMAIN toBot' : i + 1 \in DOMAIN toBot /\ toBot'[i] = toBot[i + 1]
  BY <1>1, ReadShift DEF GateInv
<1>4. ASSUME NEW n \in Nick, NEW j \in 1 .. Len(dm_held'[n])
      PROVE  /\ ~Leaves(toBot[1], n)
             /\ \/ SaidBy(toBot[1], n) /\ dm_held'[n][j] = toBot[1]
                \/ \E i \in 1 .. Len(dm_held[n]) : dm_held'[n][j] = dm_held[n][i]
  BY <1>3, ReaderOnNick
<1>5. TruthfulLines'
  <2>1. ASSUME NEW i \in DOMAIN toBot', NEW n \in Nick, SaidBy(toBot'[i], n), toBot'[i].identified
        PROVE  toBot'[i].tenure \in proved'
    BY <1>2, <1>3, <2>1 DEF TruthfulLines
  <2>2. ASSUME NEW n \in Nick, NEW j \in 1 .. Len(dm_held'[n]), dm_held'[n][j].identified
        PROVE  dm_held'[n][j].tenure \in proved'
    BY <1>2, <1>3, <1>4, <2>2 DEF TruthfulLines
  <2>3. QED
    BY <2>1, <2>2 DEF TruthfulLines
<1>6. EndsTellTheTruth'
  <2> SUFFICES ASSUME NEW n \in InSight, NEW k \in DOMAIN toBot',
                      Concludes(toBot'[k], n), ~Confirmed(n, k)'
               PROVE  Denied(n, k)'
    BY DEF EndsTellTheTruth
  <2>1. n \in Nick
    BY TrustAssumption
  <2>2. /\ \A i \in DOMAIN toBot' : Stays(n, i, k)' => Stays(n, i + 1, k + 1)
        /\ Stays(n, 1, k)' /\ ~Leaves(toBot[1], n) => Stays(n, 1, k + 1)
    BY <1>1, <1>3, StaysShift DEF GateInv
  <2>3. ~Confirmed(n, k + 1)
    <3>1. CASE k = 1
      <4>1. ~Vouches(toBot[1], n)
        BY <1>3, <2>1, <3>1, VouchedIsVerified DEF Confirmed
      <4>2. QED
        BY <3>1, <4>1 DEF Confirmed
    <3>2. CASE k # 1
      <4>1. k - 1 \in DOMAIN toBot' /\ (k - 1) + 1 = k /\ k + 1 # 1 /\ (k + 1) - 1 = k
        BY <1>3, <3>2
      <4>2. toBot'[k - 1] = toBot[k]
        BY <1>3, <4>1
      <4>3. QED
        BY <3>2, <4>1, <4>2 DEF Confirmed
    <3>3. QED
      BY <3>1, <3>2
  <2>4. Denied(n, k + 1)
    BY <1>3, <2>3 DEF EndsTellTheTruth
  <2>5. ASSUME NEW i \in DOMAIN toBot', i < k, SaidBy(toBot'[i], n), Stays(n, i, k)'
        PROVE  ~toBot'[i].identified
    <3>1. i + 1 \in DOMAIN toBot /\ i + 1 < k + 1 /\ toBot'[i] = toBot[i + 1] /\ Stays(n, i + 1, k + 1)
      BY <1>3, <2>2, <2>5
    <3>2. QED
      BY <2>4, <2>5, <3>1 DEF Denied
  <2>6. ASSUME NEW j \in 1 .. Len(dm_held'[n]), Stays(n, 1, k)'
        PROVE  ~dm_held'[n][j].identified
    <3>1. Stays(n, 1, k + 1) /\ 1 < k + 1
      BY <1>3, <1>4, <2>1, <2>2, <2>6
    <3>2. QED
      BY <1>3, <1>4, <2>1, <2>4, <3>1 DEF Denied
  <2>7. QED
    BY <2>5, <2>6 DEF Denied
<1>7. QED
  BY <1>5, <1>6

\* What is added to the wire tells the truth about now.
WireGrowsTruthfully ==
    /\ Len(toBot) <= Len(toBot') /\ \A i \in DOMAIN toBot : toBot'[i] = toBot[i]
    /\ \A k \in DOMAIN toBot' \ DOMAIN toBot : \A n \in Nick :
          /\ SaidBy(toBot'[k], n) /\ toBot'[k].identified => toBot'[k].tenure \in proved
          /\ Concludes(toBot'[k], n) =>
                \/ k > 1 /\ Vouches(toBot'[k - 1], n)
                \/ k = Len(toBot) + 1 /\ holder[n] \notin proved

\* Lines added truthfully to the wire keep it truthful.
LEMMA WireGrowthKeepsTruth ==
    ASSUME GateInv, GateInv', InSightInv, TruthfulLines, EndsTellTheTruth,
           WireGrowsTruthfully, UNCHANGED <<verified, dm_held>>, proved \subseteq proved'
    PROVE  (TruthfulLines /\ EndsTellTheTruth)'
<1>1. /\ Len(toBot) \in Nat /\ DOMAIN toBot = 1 .. Len(toBot)
      /\ Len(toBot') \in Nat /\ DOMAIN toBot' = 1 .. Len(toBot') /\ Len(toBot) <= Len(toBot')
      /\ \A i \in DOMAIN toBot : toBot'[i] = toBot[i]
  BY DEF GateInv, TypeOK, WireGrowsTruthfully
<1>2. ASSUME NEW n, NEW j \in Nat, NEW k \in Nat, Stays(n, j, k)'
      PROVE  /\ Stays(n, j, k)
             /\ Len(toBot) <= k => Stays(n, j, Len(toBot))
  BY <1>1, <1>2 DEF Stays
<1>3. TruthfulLines'
  <2>1. ASSUME NEW i \in DOMAIN toBot', NEW n \in Nick, SaidBy(toBot'[i], n), toBot'[i].identified
        PROVE  toBot'[i].tenure \in proved'
    <3>1. CASE i \in DOMAIN toBot
      BY <1>1, <2>1, <3>1 DEF TruthfulLines
    <3>2. CASE i \notin DOMAIN toBot
      BY <2>1, <3>2 DEF WireGrowsTruthfully
    <3>3. QED
      BY <3>1, <3>2
  <2>2. QED
    BY <2>1 DEF TruthfulLines
<1>4. EndsTellTheTruth'
  <2> SUFFICES ASSUME NEW n \in InSight, NEW k \in DOMAIN toBot',
                      Concludes(toBot'[k], n), ~Confirmed(n, k)'
               PROVE  Denied(n, k)'
    BY DEF EndsTellTheTruth
  <2>1. n \in Nick
    BY TrustAssumption
  <2>2. CASE k \in DOMAIN toBot
    <3>1. ~Confirmed(n, k)
      <4>1. k # 1 => k - 1 \in DOMAIN toBot
        BY <1>1, <2>2
      <4>2. QED
        BY <1>1, <4>1 DEF Confirmed
    <3>2. Denied(n, k)
      BY <1>1, <2>2, <3>1 DEF EndsTellTheTruth
    <3>3. ASSUME NEW i \in DOMAIN toBot', i < k, SaidBy(toBot'[i], n), Stays(n, i, k)'
          PROVE  ~toBot'[i].identified
      <4>1. i \in DOMAIN toBot
        BY <1>1, <2>2, <3>3
      <4>2. QED
        BY <1>1, <1>2, <3>2, <3>3, <4>1 DEF Denied
    <3>4. ASSUME NEW j \in 1 .. Len(dm_held'[n]), Stays(n, 1, k)'
          PROVE  ~dm_held'[n][j].identified
      <4>1. 1 \in Nat /\ k \in Nat
        BY <1>1
      <4>2. Stays(n, 1, k)
        BY <1>2, <3>4, <4>1
      <4>3. QED
        BY <3>2, <3>4, <4>2 DEF Denied
    <3>5. QED
      BY <3>3, <3>4 DEF Denied
  <2>3. CASE k \notin DOMAIN toBot
    <3>1. k = Len(toBot) + 1 /\ holder[n] \notin proved
      <4>1. \/ k > 1 /\ Vouches(toBot'[k - 1], n)
            \/ k = Len(toBot) + 1 /\ holder[n] \notin proved
        BY <2>1, <2>3 DEF WireGrowsTruthfully
      <4>2. ~(k > 1 /\ Vouches(toBot'[k - 1], n))
        BY DEF Confirmed
      <4>3. QED
        BY <4>1, <4>2
    <3>2. HeldNow(n)
      BY DEF InSightInv
    <3>3. ASSUME NEW i \in DOMAIN toBot', i < k, SaidBy(toBot'[i], n), Stays(n, i, k)'
          PROVE  ~toBot'[i].identified
      <4>1. i \in DOMAIN toBot /\ Stays(n, i, Len(toBot))
        BY <1>1, <1>2, <3>1, <3>3
      <4>2. toBot[i].tenure = holder[n]
        BY <1>1, <3>2, <3>3, <4>1 DEF HeldNow
      <4>3. QED
        BY <1>1, <2>1, <3>1, <3>3, <4>1, <4>2 DEF TruthfulLines
    <3>4. ASSUME NEW j \in 1 .. Len(dm_held'[n]), Stays(n, 1, k)'
          PROVE  ~dm_held'[n][j].identified
      <4>1. Stays(n, 1, Len(toBot))
        BY <1>1, <1>2, <3>1, <3>4
      <4>2. QED
        BY <2>1, <3>1, <3>2, <3>4, <4>1 DEF HeldNow, TruthfulLines
    <3>5. QED
      BY <3>3, <3>4 DEF Denied
  <2>4. QED
    BY <2>2, <2>3
<1>5. QED
  BY <1>3, <1>4

\* One line that is no answer, and not a lie.
LEMMA OneLineIsTruthful ==
    ASSUME TypeOK, NEW l \in Line, toBot' = Append(toBot, l), l.cmd # "318",
           \A n \in Nick : SaidBy(l, n) /\ l.identified => l.tenure \in proved
    PROVE  WireGrowsTruthfully
  BY OneMoreLine DEF WireGrowsTruthfully, Concludes

\* No user's doing puts a lie on the wire.
LEMMA UsersAreTruthful ==
    ASSUME GateInv, Users
    PROVE  WireGrowsTruthfully
<1> USE DEF GateInv
<1>1. CASE toBot' = toBot
  BY <1>1 DEF WireGrowsTruthfully, TypeOK
<1>2. ASSUME NEW m \in Nick, NEW cmd \in {"PART", "QUIT", "NICK"},
             toBot' = Append(toBot, [cmd |-> cmd, nick |-> m])
      PROVE  WireGrowsTruthfully
  <2> DEFINE l == [cmd |-> cmd, nick |-> m]
  <2>1. l \in Line
    BY SentLines
  <2>2. l.cmd # "318" /\ \A n \in Nick : ~SaidBy(l, n)
    BY DEF SaidBy
  <2>3. toBot' = Append(toBot, l)
    BY <1>2
  <2> HIDE DEF l
  <2>4. QED
    BY <2>1, <2>2, <2>3, OneLineIsTruthful
<1>3. ASSUME NEW m \in Nick, NEW cmd \in {"dm", "channel", "invite"}, Say(m, cmd)
      PROVE  WireGrowsTruthfully
  <2> DEFINE l == [cmd |-> cmd, nick |-> m, host |-> hostOf[m], id |-> said + 1,
                   tenure |-> holder[m], identified |-> holder[m] \in proved]
  <2>1. l \in Line
    <3>1. hostOf[m] \in Host /\ holder[m] \in Nat /\ said + 1 \in Nat
          /\ (holder[m] \in proved) \in BOOLEAN
      BY DEF TypeOK
    <3>2. QED
      BY <3>1, SentLines
  <2>2. l.cmd # "318" /\ (l.identified => l.tenure \in proved)
    OBVIOUS
  <2>3. toBot' = Append(toBot, l)
    BY <1>3 DEF Say
  <2> HIDE DEF l
  <2>4. QED
    BY <2>1, <2>2, <2>3, OneLineIsTruthful
<1>4. QED
  BY <1>1, <1>2, <1>3, TrustAssumption DEF Users, Connect, Identify, Quit, Part, Rename, Hears

\* Nor does an answer to a WHOIS: the 318 comes alone only for the unidentified.
LEMMA AnswersAreTruthful ==
    ASSUME GateInv, AnswerWhois
    PROVE  WireGrowsTruthfully
<1> DEFINE m == Head(toServer)
           end == [cmd |-> "318", nick |-> m]
           ident == [cmd |-> IdentReply, nick |-> m]
<1>1. m \in Nick /\ toBot \in Seq(Line)
  BY AnswerWhoisType DEF GateInv, TypeOK
<1>2. end \in Line /\ ident \in Line
  BY <1>1, SentLines, TrustAssumption
<1>3. \A n : ~SaidBy(end, n) /\ (Concludes(end, n) => n = m)
  BY DEF SaidBy, Concludes
<1>4. Vouches(ident, m) /\ \A n : ~SaidBy(ident, n) /\ ~Concludes(ident, n)
  BY TrustAssumption DEF SaidBy, Vouches, Concludes
<1>5. \/ toBot' = toBot \o <<ident, end>>
      \/ toBot' = Append(toBot, end) /\ holder[m] \notin proved
  BY DEF AnswerWhois
<1> HIDE DEF m, end, ident
<1>6. CASE toBot' = Append(toBot, end) /\ holder[m] \notin proved
  BY <1>2, <1>3, <1>6, OneMoreLine DEF WireGrowsTruthfully, GateInv
<1>7. CASE toBot' = toBot \o <<ident, end>>
  <2>1. /\ Len(toBot) \in Nat /\ DOMAIN toBot = 1 .. Len(toBot)
        /\ Len(toBot') = Len(toBot) + 2 /\ DOMAIN toBot' = 1 .. Len(toBot) + 2
        /\ \A i \in DOMAIN toBot : toBot'[i] = toBot[i]
        /\ toBot'[Len(toBot) + 1] = ident /\ toBot'[Len(toBot) + 2] = end
    BY <1>1, <1>2, <1>7
  <2>2. \A i \in DOMAIN toBot' \ DOMAIN toBot : i = Len(toBot) + 1 \/ i = Len(toBot) + 2
    BY <2>1
  <2>3. (Len(toBot) + 2) - 1 = Len(toBot) + 1 /\ Len(toBot) + 2 > 1
    BY <2>1
  <2>4. QED
    BY <1>3, <1>4, <2>1, <2>2, <2>3 DEF WireGrowsTruthfully
<1>8. QED
  BY <1>5, <1>6, <1>7

\* Every step keeps the wire truthful, and the ends of the lines with it.
LEMMA TruthStep ==
    ASSUME GateInv, ParkedFits, InSightInv, TruthfulLines, EndsTellTheTruth, [Next]_vars
    PROVE  (TruthfulLines /\ EndsTellTheTruth)'
<1>1. CASE handle_server_line
  BY <1>1, ReaderKeepsTruth
<1>2. CASE ~handle_server_line
  <2>1. UNCHANGED <<verified, dm_held>> /\ GateInv'
    BY <1>2, OthersLeaveTheGate, GateInvStep
  <2>2. WireGrowsTruthfully /\ proved \subseteq proved'
    <3>1. CASE Users
      BY <3>1, UsersAreTruthful, UsersProve DEF InSightInv
    <3>2. CASE AnswerWhois
      <4>1. proved' = proved
        BY <3>2, AnswerWhoisType DEF serverVars, GateInv
      <4>2. QED
        BY <3>2, <4>1, AnswersAreTruthful
    <3>3. CASE (\E m \in Nick : OperatorWhois(m)) \/ Clock \/ UNCHANGED vars
      <4>1. UNCHANGED <<toBot, proved>>
        BY <3>3 DEF OperatorWhois, Clock, vars, serverVars
      <4>2. QED
        BY <4>1 DEF WireGrowsTruthfully, GateInv, TypeOK
    <3>4. QED
      BY <1>2, <3>1, <3>2, <3>3 DEF Next
  <2>3. QED
    BY <2>1, <2>2, WireGrowthKeepsTruth
<1>3. QED
  BY <1>1, <1>2

\* No step drops a message whose sender had identified.
LEMMA IdentifiedDmNotLostStep ==
    ASSUME GateInv, ParkedFits, EndsTellTheTruth, IdentifiedDmNotLost, [Next]_vars
    PROVE  IdentifiedDmNotLost'
<1>1. CASE ~handle_server_line
  BY <1>1, OthersLeaveTheGate DEF IdentifiedDmNotLost
<1>2. CASE handle_server_line
  <2> SUFFICES ASSUME NEW k \in DOMAIN events'
               PROVE  /\ events'[k].fate = "318" /\ events'[k].line.nick \in InSight
                            => ~events'[k].line.identified
                      /\ events'[k].fate \notin {"307", "330"}
    BY DEF IdentifiedDmNotLost
  <2>1. CASE k \in DOMAIN events /\ events'[k] = events[k]
    BY <2>1 DEF IdentifiedDmNotLost
  <2>2. PICK cmds : Reads(cmds)
    BY <1>2, ReaderKinds
  <2>3. /\ 1 \in DOMAIN toBot /\ Head(toBot) = toBot[1]
        /\ DOMAIN toBot = 1 .. Len(toBot) /\ Len(toBot) \in Nat
    BY <2>2, ReadShift DEF GateInv
  <2>4. ASSUME NEW n \in Nick, NEW j \in 1 .. Len(dm_held[n]),
               NEW fate \in {"TRUSTED", "318", "reset", "evicted"},
               events'[k] = Ended(dm_held[n][j], fate),
               fate = "318" => Concludes(Head(toBot), n)
        PROVE  /\ events'[k].fate = "318" /\ events'[k].line.nick \in InSight
                     => ~events'[k].line.identified
               /\ events'[k].fate \notin {"307", "330"}
    <3>1. events'[k].fate = fate /\ events'[k].line = dm_held[n][j] /\ dm_held[n][j].nick = n
      BY <2>4 DEF Ended, ParkedFits
    <3>2. ASSUME fate = "318", n \in InSight
          PROVE  ~dm_held[n][j].identified
      <4>1. Concludes(toBot[1], n)
        BY <2>3, <2>4, <3>2
      <4>2. Stays(n, 1, 1)
        BY <2>3, <4>1 DEF Stays, Concludes, Leaves
      <4>3. n \notin verified
        <5>1. dm_held[n] # << >>
          BY <2>4
        <5>2. QED
          BY <5>1 DEF GateInv, HeldAwaitsWhois
      <4>4. ~Confirmed(n, 1)
        BY <4>3 DEF Confirmed
      <4>5. Denied(n, 1)
        BY <2>3, <3>2, <4>1, <4>4 DEF EndsTellTheTruth
      <4>6. QED
        BY <4>2, <4>5 DEF Denied
    <3>3. QED
      BY <3>1, <3>2
  <2>5. ASSUME NEW fate \in {"TRUSTED", "JOINED", "UNTRUSTED", "IGNORED", "DM_BLOCKED"},
               events'[k] = Ended(Head(toBot), fate)
        PROVE  events'[k].fate \notin {"318", "307", "330"}
    BY <2>5 DEF Ended
  <2>6. QED
    BY <1>2, <2>1, <2>4, <2>5, NewEvents
<1>3. QED
  BY <1>1, <1>2

(* Nobody who had identified when it wrote is told that it is not          *)
(* registered, and no parked message is dropped by the numeric that proves *)
(* its sender.                                                             *)
THEOREM IdentifiedDmNeverLost == Spec => []IdentifiedDmNotLost
<1> DEFINE Inv == /\ GateInv /\ ParkedFits /\ InSightInv
                  /\ TruthfulLines /\ EndsTellTheTruth /\ IdentifiedDmNotLost
<1>1. Init => Inv
  <2> SUFFICES ASSUME Init PROVE Inv
    OBVIOUS
  <2>1. /\ toBot = <<[cmd |-> "001"]>> /\ DOMAIN toBot = {1} /\ toBot[1].cmd = "001"
        /\ events = << >> /\ \A n \in Nick : Len(dm_held[n]) = 0
    BY DEF Init
  <2>2. \A n : ~SaidBy(toBot[1], n) /\ ~Concludes(toBot[1], n)
    BY <2>1 DEF SaidBy, Concludes
  <2>3. TruthfulLines /\ EndsTellTheTruth /\ IdentifiedDmNotLost
    BY <2>1, <2>2 DEF TruthfulLines, EndsTellTheTruth, IdentifiedDmNotLost
  <2>4. QED
    BY <2>3, InSightInit
<1>2. Inv /\ [Next]_vars => Inv'
  BY GateInvStep, ParkedFitsStep, InSightStep, TruthStep, IdentifiedDmNotLostStep
<1>3. Inv => IdentifiedDmNotLost
  OBVIOUS
<1>4. QED
  BY <1>1, <1>2, <1>3, PTL DEF Spec

-----------------------------------------------------------------------------
(* Where the lines are.  The numbers grow along the wire, and along each   *)
(* queue; a line parked or ended was said before all that is on the wire;  *)
(* and no number is in two places, or in none.                             *)

Speaks(l) == l.cmd \in {"dm", "channel", "invite"}

\* The line x was said before those on the wire; it is one of them.
BeforeWire(x) == \A k \in DOMAIN toBot : Speaks(toBot[k]) => x < toBot[k].id
OnWire(x)     == \E k \in DOMAIN toBot : Speaks(toBot[k]) /\ toBot[k].id = x

\* On the wire the numbers grow.
WireNumbers ==
    \A i \in DOMAIN toBot : Speaks(toBot[i]) =>
        /\ toBot[i].id \in 1 .. said
        /\ \A k \in DOMAIN toBot : i < k /\ Speaks(toBot[k]) => toBot[i].id < toBot[k].id

\* In a queue too, and they are smaller than those on the wire.
HeldNumbers ==
    \A n \in Nick : \A j \in 1 .. Len(dm_held[n]) :
        /\ dm_held[n][j].id \in 1 .. said /\ BeforeWire(dm_held[n][j].id)
        /\ \A k \in 1 .. Len(dm_held[n]) : j < k => dm_held[n][j].id < dm_held[n][k].id

\* And so are those of the events.
PastNumbers ==
    \A k \in DOMAIN events :
        events[k].line.id \in 1 .. said /\ BeforeWire(events[k].line.id)

\* A trusted message of a nick was said before all it has parked.
TrustedBeforeHeld ==
    \A k \in DOMAIN events :
        events[k].fate = "TRUSTED" /\ events[k].line.cmd = "dm" =>
            \A j \in 1 .. Len(dm_held[events[k].line.nick]) :
                events[k].line.id < dm_held[events[k].line.nick][j].id

\* No number in two events, in two places of the queues, or in both.
EventsOnce == \A j, k \in DOMAIN events : events[j].line.id = events[k].line.id => j = k

HeldOnce ==
    \A m, n \in Nick : \A i \in 1 .. Len(dm_held[m]), j \in 1 .. Len(dm_held[n]) :
        dm_held[m][i].id = dm_held[n][j].id => m = n /\ i = j

HeldNotPast ==
    \A n \in Nick : \A j \in 1 .. Len(dm_held[n]), k \in DOMAIN events :
        events[k].line.id # dm_held[n][j].id

\* And every number is somewhere.
NoneMissing ==
    \A x \in 1 .. said :
        \/ OnWire(x)
        \/ \E n \in Nick : \E j \in 1 .. Len(dm_held[n]) : dm_held[n][j].id = x
        \/ \E k \in DOMAIN events : events[k].line.id = x

\* Together, and the order that follows from them.
PlacesInv ==
    /\ WireNumbers /\ HeldNumbers /\ PastNumbers /\ TrustedBeforeHeld
    /\ EventsOnce /\ HeldOnce /\ HeldNotPast /\ NoneMissing /\ TrustedDmsInOrder

\* A line read leaves the wire, and comes before the rest of it.
LEMMA ReaderWireNumbers ==
    ASSUME GateInv, ParkedFits, PlacesInv, handle_server_line
    PROVE  /\ WireNumbers' /\ said' = said /\ said \in Nat
           /\ \A x : BeforeWire(x) => BeforeWire(x)'
           /\ Speaks(Head(toBot)) =>
                 /\ Head(toBot).id \in 1 .. said
                 /\ \A x : x = Head(toBot).id => BeforeWire(x)'
                 /\ \A x : BeforeWire(x) => x < Head(toBot).id
           /\ \A x : OnWire(x) => OnWire(x)' \/ (Speaks(Head(toBot)) /\ x = Head(toBot).id)
<1>1. PICK cmds : Reads(cmds)
  BY ReaderKinds
<1>2. said' = said /\ said \in Nat
  BY ReaderKinds DEF serverVars, GateInv, TypeOK
<1>3. /\ Len(toBot) \in Nat /\ DOMAIN toBot = 1 .. Len(toBot) /\ 1 \in DOMAIN toBot
      /\ Head(toBot) = toBot[1]
      /\ Len(toBot') = Len(toBot) - 1 /\ DOMAIN toBot' = 1 .. Len(toBot')
      /\ \A i \in DOMAIN toBot' : i + 1 \in DOMAIN toBot /\ toBot'[i] = toBot[i + 1]
  BY <1>1, ReadShift DEF GateInv
<1>4. WireNumbers'
  <2>1. ASSUME NEW i \in DOMAIN toBot', Speaks(toBot'[i])
        PROVE  /\ toBot'[i].id \in 1 .. said'
               /\ \A k \in DOMAIN toBot' : i < k /\ Speaks(toBot'[k]) => toBot'[i].id < toBot'[k].id
    BY <1>2, <1>3, <2>1 DEF PlacesInv, WireNumbers
  <2>2. QED
    BY <2>1 DEF WireNumbers
<1>5. ASSUME NEW x, BeforeWire(x) PROVE BeforeWire(x)'
  <2>1. ASSUME NEW k \in DOMAIN toBot', Speaks(toBot'[k]) PROVE x < toBot'[k].id
    BY <1>3, <1>5, <2>1 DEF BeforeWire
  <2>2. QED
    BY <2>1 DEF BeforeWire
<1>6. ASSUME Speaks(Head(toBot))
      PROVE  /\ Head(toBot).id \in 1 .. said
             /\ \A x : x = Head(toBot).id => BeforeWire(x)'
             /\ \A x : BeforeWire(x) => x < Head(toBot).id
  <2>1. ASSUME NEW k \in DOMAIN toBot', Speaks(toBot'[k]) PROVE toBot[1].id < toBot'[k].id
    <3>1. 1 < k + 1
      BY <1>3
    <3>2. QED
      BY <1>3, <1>6, <2>1, <3>1 DEF PlacesInv, WireNumbers
  <2>2. \A k \in DOMAIN toBot' : Speaks(toBot'[k]) => Head(toBot).id < toBot'[k].id
    BY <1>3, <2>1
  <2>3. ASSUME NEW x, x = Head(toBot).id PROVE BeforeWire(x)'
    BY <2>2, <2>3 DEF BeforeWire
  <2>4. Head(toBot).id \in 1 .. said /\ \A x : BeforeWire(x) => x < Head(toBot).id
    BY <1>3, <1>6 DEF PlacesInv, WireNumbers, BeforeWire
  <2>5. QED
    BY <2>3, <2>4
<1>7. ASSUME NEW x, OnWire(x) PROVE OnWire(x)' \/ (Speaks(Head(toBot)) /\ x = Head(toBot).id)
  <2>1. PICK k \in DOMAIN toBot : Speaks(toBot[k]) /\ toBot[k].id = x
    BY <1>7 DEF OnWire
  <2>2. CASE k = 1
    BY <1>3, <2>1, <2>2
  <2>3. CASE k # 1
    <3>1. k - 1 \in DOMAIN toBot' /\ (k - 1) + 1 = k
      BY <1>3, <2>3
    <3>2. Speaks(toBot'[k - 1]) /\ toBot'[k - 1].id = x
      BY <1>3, <2>1, <3>1
    <3>3. QED
      BY <3>1, <3>2 DEF OnWire
  <2>4. QED
    BY <2>2, <2>3
<1>8. QED
  BY <1>2, <1>4, <1>5, <1>6, <1>7

\* Each kind of step of the reader keeps every line in its place.
LEMMA AsksKeepsPlaces ==
    ASSUME GateInv, ParkedFits, PlacesInv, handle_server_line, ReaderAsks
    PROVE  PlacesInv'
<1>1. UNCHANGED <<events, dm_held, said>> /\ ~Speaks(Head(toBot))
  BY ReaderWireNumbers DEF ReaderAsks, Speaks
<1>2. /\ WireNumbers' /\ \A x : BeforeWire(x) => BeforeWire(x)'
      /\ \A x : OnWire(x) => OnWire(x)'
  BY <1>1, ReaderWireNumbers
<1>3. HeldNumbers' /\ PastNumbers' /\ NoneMissing'
  BY <1>1, <1>2 DEF PlacesInv, HeldNumbers, PastNumbers, NoneMissing
<1>4. TrustedBeforeHeld' /\ EventsOnce' /\ HeldOnce' /\ HeldNotPast' /\ TrustedDmsInOrder'
  BY <1>1 DEF PlacesInv, TrustedBeforeHeld, EventsOnce, HeldOnce, HeldNotPast, TrustedDmsInOrder
<1>5. QED
  BY <1>2, <1>3, <1>4 DEF PlacesInv

\* A flush moves a queue, in its order, to the end of the events.
LEMMA FlushKeepsPlaces ==
    ASSUME GateInv, ParkedFits, PlacesInv, handle_server_line, NEW n \in Nick, ReaderFlushes(n)
    PROVE  PlacesInv'
<1> DEFINE q == dm_held[n]
<1>1. PICK fate \in {"TRUSTED", "318", "reset"} :
        /\ Vouches(Head(toBot), n) \/ Concludes(Head(toBot), n)
              \/ Head(toBot).cmd \in {"PART", "QUIT", "NICK"}
        /\ dm_held'[n] = << >>
        /\ \A m \in Nick : m # n => dm_held'[m] = dm_held[m]
        /\ Len(events') = Len(events) + Len(q)
        /\ \A k \in 1 .. Len(events) : events'[k] = events[k]
        /\ \A j \in 1 .. Len(q) : events'[Len(events) + j] = Ended(q[j], fate)
  BY DEF ReaderFlushes
<1>2. said' = said /\ ~Speaks(Head(toBot))
  BY <1>1, ReaderWireNumbers DEF Vouches, Concludes, Speaks
<1>3. /\ WireNumbers' /\ \A x : BeforeWire(x) => BeforeWire(x)'
      /\ \A x : OnWire(x) => OnWire(x)'
  BY <1>2, ReaderWireNumbers
<1>4. /\ Len(q) \in Nat /\ Len(events) \in Nat /\ DOMAIN events = 1 .. Len(events)
      /\ DOMAIN events' = 1 .. Len(events')
  BY GateInvStep DEF GateInv, TypeOK, Next
<1>5. \A j \in 1 .. Len(q) : q[j].nick = n /\ q[j].cmd = "dm"
  BY DEF ParkedFits
<1>6. /\ HeldNumbers /\ PastNumbers /\ TrustedBeforeHeld /\ EventsOnce /\ HeldOnce
      /\ HeldNotPast /\ NoneMissing /\ TrustedDmsInOrder
  BY DEF PlacesInv
<1>7. /\ \A k \in DOMAIN events : k \in DOMAIN events' /\ events'[k] = events[k]
      /\ \A j \in 1 .. Len(q) :
            /\ Len(events) + j \in DOMAIN events'
            /\ events'[Len(events) + j].line = q[j]
      /\ \A k \in DOMAIN events' : k \notin DOMAIN events =>
            /\ k > Len(events) /\ k - Len(events) \in 1 .. Len(q)
            /\ events'[k].line = q[k - Len(events)]
  <2>1. ASSUME NEW k \in DOMAIN events', k \notin DOMAIN events
        PROVE  /\ k > Len(events) /\ k - Len(events) \in 1 .. Len(q)
               /\ events'[k].line = q[k - Len(events)]
    <3>1. k > Len(events) /\ k - Len(events) \in 1 .. Len(q) /\ Len(events) + (k - Len(events)) = k
      BY <1>1, <1>4, <2>1
    <3>2. events'[k] = Ended(q[k - Len(events)], fate)
      BY <1>1, <3>1
    <3>3. QED
      BY <3>1, <3>2 DEF Ended
  <2>2. ASSUME NEW j \in 1 .. Len(q)
        PROVE  Len(events) + j \in DOMAIN events' /\ events'[Len(events) + j].line = q[j]
    <3>1. Len(events) + j \in DOMAIN events'
      BY <1>1, <1>4
    <3>2. events'[Len(events) + j] = Ended(q[j], fate)
      BY <1>1
    <3>3. QED
      BY <3>1, <3>2 DEF Ended
  <2>3. \A k \in DOMAIN events : k \in DOMAIN events' /\ events'[k] = events[k]
    BY <1>1, <1>4
  <2>4. QED
    BY <2>1, <2>2, <2>3
<1> HIDE DEF q
<1>8. HeldNumbers' /\ HeldOnce'
  <2>1. \A m \in Nick : \A j \in 1 .. Len(dm_held'[m]) : m # n /\ dm_held'[m] = dm_held[m]
    BY <1>1
  <2>2. ASSUME NEW m \in Nick, NEW j \in 1 .. Len(dm_held'[m]), NEW x, x = dm_held'[m][j].id
        PROVE  /\ x \in 1 .. said' /\ BeforeWire(x)'
               /\ \A k \in 1 .. Len(dm_held'[m]) : j < k => x < dm_held'[m][k].id
    BY <1>2, <1>3, <1>6, <2>1, <2>2 DEF HeldNumbers
  <2>3. HeldNumbers'
    BY <2>2 DEF HeldNumbers
  <2>4. HeldOnce'
    BY <1>6, <2>1 DEF HeldOnce
  <2>5. QED
    BY <2>3, <2>4
<1>9. ASSUME NEW k \in DOMAIN events'
      PROVE  events'[k].line.id \in 1 .. said /\ BeforeWire(events'[k].line.id)
  BY <1>6, <1>7 DEF PastNumbers, HeldNumbers, q
<1>10. PastNumbers'
  <2>1. ASSUME NEW k \in DOMAIN events', NEW x, x = events'[k].line.id
        PROVE  x \in 1 .. said' /\ BeforeWire(x)'
    BY <1>2, <1>3, <1>9, <2>1
  <2>2. QED
    BY <2>1 DEF PastNumbers
<1>11. TrustedBeforeHeld'
  <2> SUFFICES ASSUME NEW k \in DOMAIN events', events'[k].fate = "TRUSTED", events'[k].line.cmd = "dm",
                      NEW j \in 1 .. Len(dm_held'[events'[k].line.nick])
               PROVE  events'[k].line.id < dm_held'[events'[k].line.nick][j].id
    BY DEF TrustedBeforeHeld
  <2> DEFINE m == events'[k].line.nick
  <2>1. m \in Nick
    <3>1. events' \in Seq(Event)
      BY GateInvStep DEF GateInv, TypeOK, Next
    <3>2. events'[k] \in Event
      BY <3>1
    <3>3. QED
      BY <3>2 DEF Event, Spoken
  <2>2. m # n /\ dm_held'[m] = dm_held[m]
    BY <1>1, <2>1
  <2>3. k \in DOMAIN events /\ events'[k] = events[k]
    BY <1>5, <1>7, <2>2 DEF q
  <2>4. QED
    BY <1>6, <2>2, <2>3 DEF TrustedBeforeHeld
<1>12. EventsOnce'
  <2> SUFFICES ASSUME NEW j \in DOMAIN events', NEW k \in DOMAIN events',
                      events'[j].line.id = events'[k].line.id
               PROVE  j = k
    BY DEF EventsOnce
  <2>1. CASE j \in DOMAIN events /\ k \in DOMAIN events
    BY <1>6, <1>7, <2>1 DEF EventsOnce
  <2>2. CASE j \in DOMAIN events /\ k \notin DOMAIN events
    BY <1>6, <1>7, <2>2 DEF HeldNotPast, q
  <2>3. CASE j \notin DOMAIN events /\ k \in DOMAIN events
    BY <1>6, <1>7, <2>3 DEF HeldNotPast, q
  <2>4. CASE j \notin DOMAIN events /\ k \notin DOMAIN events
    <3>1. j - Len(events) = k - Len(events)
      BY <1>6, <1>7, <2>4 DEF HeldOnce, q
    <3>2. QED
      BY <1>4, <3>1
  <2>5. QED
    BY <2>1, <2>2, <2>3, <2>4
<1>13. HeldNotPast'
  <2> SUFFICES ASSUME NEW m \in Nick, NEW j \in 1 .. Len(dm_held'[m]), NEW k \in DOMAIN events'
               PROVE  events'[k].line.id # dm_held'[m][j].id
    BY DEF HeldNotPast
  <2>1. m # n /\ dm_held'[m] = dm_held[m]
    BY <1>1
  <2>2. CASE k \in DOMAIN events
    BY <1>6, <1>7, <2>1, <2>2 DEF HeldNotPast
  <2>3. CASE k \notin DOMAIN events
    <3>1. k - Len(events) \in 1 .. Len(dm_held[n]) /\ events'[k].line = dm_held[n][k - Len(events)]
      BY <1>7, <2>3 DEF q
    <3>2. QED
      BY <1>6, <2>1, <3>1 DEF HeldOnce
  <2>4. QED
    BY <2>2, <2>3
<1>14. NoneMissing'
  <2> SUFFICES ASSUME NEW x \in 1 .. said
               PROVE  \/ OnWire(x)'
                      \/ \E m \in Nick : \E j \in 1 .. Len(dm_held'[m]) : dm_held'[m][j].id = x
                      \/ \E k \in DOMAIN events' : events'[k].line.id = x
    BY <1>2 DEF NoneMissing
  <2>1. CASE OnWire(x)
    BY <1>3, <2>1
  <2>2. ASSUME NEW m \in Nick, NEW j \in 1 .. Len(dm_held[m]), dm_held[m][j].id = x
        PROVE  \/ \E i \in 1 .. Len(dm_held'[m]) : dm_held'[m][i].id = x
               \/ \E k \in DOMAIN events' : events'[k].line.id = x
    <3>1. CASE m = n
      BY <1>7, <2>2, <3>1 DEF q
    <3>2. CASE m # n
      BY <1>1, <2>2, <3>2
    <3>3. QED
      BY <3>1, <3>2
  <2>3. CASE \E k \in DOMAIN events : events[k].line.id = x
    BY <1>7, <2>3
  <2>4. QED
    BY <1>6, <2>1, <2>2, <2>3 DEF NoneMissing
<1>15. TrustedDmsInOrder'
  <2> SUFFICES ASSUME NEW j \in DOMAIN events', NEW k \in DOMAIN events', j < k,
                      events'[j].line.nick = events'[k].line.nick,
                      events'[j].line.cmd = "dm", events'[k].line.cmd = "dm",
                      events'[j].fate = "TRUSTED", events'[k].fate = "TRUSTED"
               PROVE  events'[j].line.id < events'[k].line.id
    BY DEF TrustedDmsInOrder
  <2>1. CASE j \in DOMAIN events /\ k \in DOMAIN events
    BY <1>6, <1>7, <2>1 DEF TrustedDmsInOrder
  <2>2. CASE j \in DOMAIN events /\ k \notin DOMAIN events
    <3>1. k - Len(events) \in 1 .. Len(dm_held[n]) /\ events'[k].line = dm_held[n][k - Len(events)]
          /\ events'[k].line.nick = n
      BY <1>5, <1>7, <2>2 DEF q
    <3>2. QED
      BY <1>6, <1>7, <2>2, <3>1 DEF TrustedBeforeHeld
  <2>3. CASE j \notin DOMAIN events /\ k \notin DOMAIN events
    <3>1. /\ j - Len(events) \in 1 .. Len(dm_held[n]) /\ events'[j].line = dm_held[n][j - Len(events)]
          /\ k - Len(events) \in 1 .. Len(dm_held[n]) /\ events'[k].line = dm_held[n][k - Len(events)]
      BY <1>7, <2>3 DEF q
    <3>2. j - Len(events) < k - Len(events)
      BY <1>4
    <3>3. QED
      BY <1>6, <3>1, <3>2 DEF HeldNumbers
  <2>4. CASE j \notin DOMAIN events /\ k \in DOMAIN events
    BY <1>4, <2>4
  <2>5. QED
    BY <2>1, <2>2, <2>3, <2>4
<1>16. QED
  BY <1>3, <1>8, <1>10, <1>11, <1>12, <1>13, <1>14, <1>15 DEF PlacesInv

\* A line ended as it is read moves from the head of the wire to the events.
LEMMA EndsKeepsPlaces ==
    ASSUME GateInv, ParkedFits, PlacesInv, handle_server_line, NEW n \in Nick, ReaderEnds(n)
    PROVE  PlacesInv'
<1> DEFINE h == Head(toBot)
           last == Len(events) + 1
<1>1. PICK fate \in {"TRUSTED", "JOINED", "UNTRUSTED", "IGNORED", "DM_BLOCKED"} :
        /\ SaidBy(h, n)
        /\ fate \in {"TRUSTED", "JOINED"} => n \in verified
        /\ dm_held' = dm_held
        /\ Len(events') = Len(events) + 1
        /\ \A k \in 1 .. Len(events) : events'[k] = events[k]
        /\ events'[Len(events) + 1] = Ended(h, fate)
  BY DEF ReaderEnds
<1>2. said' = said /\ Speaks(h) /\ h.nick = n
  BY <1>1, ReaderWireNumbers DEF SaidBy, Speaks
<1>3. /\ WireNumbers' /\ \A x : BeforeWire(x) => BeforeWire(x)'
      /\ h.id \in 1 .. said /\ \A x : x = h.id => BeforeWire(x)'
      /\ \A x : BeforeWire(x) => x < h.id
      /\ \A x : OnWire(x) => OnWire(x)' \/ x = h.id
      /\ said \in Nat
  BY <1>2, ReaderWireNumbers
<1>4. /\ Len(events) \in Nat /\ DOMAIN events = 1 .. Len(events)
      /\ DOMAIN events' = 1 .. Len(events')
  BY GateInvStep DEF GateInv, TypeOK, Next
<1>5. /\ HeldNumbers /\ PastNumbers /\ TrustedBeforeHeld /\ EventsOnce /\ HeldOnce
      /\ HeldNotPast /\ NoneMissing /\ TrustedDmsInOrder
  BY DEF PlacesInv
<1>6. fate = "TRUSTED" => Len(dm_held[n]) = 0
  BY <1>1 DEF GateInv, HeldAwaitsWhois, TypeOK
<1> HIDE DEF h
<1>7. /\ \A k \in DOMAIN events : k \in DOMAIN events' /\ events'[k] = events[k] /\ k < last
      /\ last \in DOMAIN events' /\ events'[last].line = h /\ events'[last].fate = fate
      /\ \A k \in DOMAIN events' : k \notin DOMAIN events => k = last
  BY <1>1, <1>4 DEF Ended
<1> HIDE DEF last
<1>8. HeldNumbers' /\ HeldOnce'
  <2>1. ASSUME NEW m \in Nick, NEW j \in 1 .. Len(dm_held'[m]), NEW x, x = dm_held'[m][j].id
        PROVE  /\ x \in 1 .. said' /\ BeforeWire(x)'
               /\ \A k \in 1 .. Len(dm_held'[m]) : j < k => x < dm_held'[m][k].id
    BY <1>1, <1>2, <1>3, <1>5, <2>1 DEF HeldNumbers
  <2>2. HeldNumbers'
    BY <2>1 DEF HeldNumbers
  <2>3. HeldOnce'
    BY <1>1, <1>5 DEF HeldOnce
  <2>4. QED
    BY <2>2, <2>3
<1>9. PastNumbers'
  <2>1. ASSUME NEW k \in DOMAIN events', NEW x, x = events'[k].line.id
        PROVE  x \in 1 .. said' /\ BeforeWire(x)'
    BY <1>2, <1>3, <1>5, <1>7, <2>1 DEF PastNumbers
  <2>2. QED
    BY <2>1 DEF PastNumbers
<1>10. \A k \in DOMAIN events : events[k].line.id < h.id
  BY <1>3, <1>5 DEF PastNumbers
<1>11. TrustedBeforeHeld'
  <2> SUFFICES ASSUME NEW k \in DOMAIN events', events'[k].fate = "TRUSTED", events'[k].line.cmd = "dm",
                      NEW j \in 1 .. Len(dm_held'[events'[k].line.nick])
               PROVE  events'[k].line.id < dm_held'[events'[k].line.nick][j].id
    BY DEF TrustedBeforeHeld
  <2>1. k \in DOMAIN events
    BY <1>1, <1>2, <1>6, <1>7
  <2>2. QED
    BY <1>1, <1>5, <1>7, <2>1 DEF TrustedBeforeHeld
<1>12. EventsOnce'
  <2> SUFFICES ASSUME NEW j \in DOMAIN events', NEW k \in DOMAIN events',
                      events'[j].line.id = events'[k].line.id
               PROVE  j = k
    BY DEF EventsOnce
  <2>1. CASE j \in DOMAIN events /\ k \in DOMAIN events
    BY <1>5, <1>7, <2>1 DEF EventsOnce
  <2>2. \A i \in DOMAIN events : events[i].line.id # h.id
    BY <1>3, <1>5, <1>10 DEF PastNumbers
  <2>3. QED
    BY <1>7, <2>1, <2>2
<1>13. HeldNotPast'
  <2> SUFFICES ASSUME NEW m \in Nick, NEW j \in 1 .. Len(dm_held'[m]), NEW k \in DOMAIN events'
               PROVE  events'[k].line.id # dm_held'[m][j].id
    BY DEF HeldNotPast
  <2>1. CASE k \in DOMAIN events
    BY <1>1, <1>5, <1>7, <2>1 DEF HeldNotPast
  <2>2. CASE k \notin DOMAIN events
    <3>1. dm_held[m][j].id \in 1 .. said /\ dm_held[m][j].id < h.id
      BY <1>1, <1>3, <1>5 DEF HeldNumbers
    <3>2. QED
      BY <1>1, <1>3, <1>7, <2>2, <3>1
  <2>3. QED
    BY <2>1, <2>2
<1>14. NoneMissing'
  <2> SUFFICES ASSUME NEW x \in 1 .. said
               PROVE  \/ OnWire(x)'
                      \/ \E m \in Nick : \E j \in 1 .. Len(dm_held'[m]) : dm_held'[m][j].id = x
                      \/ \E k \in DOMAIN events' : events'[k].line.id = x
    BY <1>2 DEF NoneMissing
  <2>1. CASE OnWire(x)
    BY <1>3, <1>7, <2>1
  <2>2. CASE \E m \in Nick : \E j \in 1 .. Len(dm_held[m]) : dm_held[m][j].id = x
    BY <1>1, <2>2
  <2>3. CASE \E k \in DOMAIN events : events[k].line.id = x
    BY <1>7, <2>3
  <2>4. QED
    BY <1>5, <2>1, <2>2, <2>3 DEF NoneMissing
<1>15. TrustedDmsInOrder'
  <2> SUFFICES ASSUME NEW j \in DOMAIN events', NEW k \in DOMAIN events', j < k,
                      events'[j].line.nick = events'[k].line.nick,
                      events'[j].line.cmd = "dm", events'[k].line.cmd = "dm",
                      events'[j].fate = "TRUSTED", events'[k].fate = "TRUSTED"
               PROVE  events'[j].line.id < events'[k].line.id
    BY DEF TrustedDmsInOrder
  <2>1. CASE j \in DOMAIN events /\ k \in DOMAIN events
    BY <1>5, <1>7, <2>1 DEF TrustedDmsInOrder
  <2>2. CASE j \in DOMAIN events /\ k \notin DOMAIN events
    BY <1>7, <1>10, <2>2
  <2>3. CASE j \notin DOMAIN events
    <3>1. k # last /\ k \notin DOMAIN events
      <4>1. j = last /\ last = Len(events) + 1
        BY <1>7, <2>3 DEF last
      <4>2. QED
        BY <1>4, <4>1
    <3>2. QED
      BY <1>7, <3>1
  <2>4. QED
    BY <2>1, <2>2, <2>3
<1>16. QED
  BY <1>3, <1>8, <1>9, <1>11, <1>12, <1>13, <1>14, <1>15 DEF PlacesInv

\* A line parked moves from the head of the wire to the end of its queue, and
\* what the queue evicts from there to the events.
LEMMA ParksKeepsPlaces ==
    ASSUME GateInv, ParkedFits, PlacesInv, handle_server_line, NEW n \in Nick, ReaderParks(n)
    PROVE  PlacesInv'
<1> DEFINE h == Head(toBot)
           q == dm_held[n]
           new == dm_held'[n]
<1>1. PICK d \in 0 .. Len(q) :
        /\ Len(new) = Len(q) + 1 - d
        /\ \A j \in 1 .. Len(q) - d : new[j] = q[j + d]
        /\ new[Len(q) + 1 - d] = h
        /\ Len(events') = Len(events) + d
        /\ \A k \in 1 .. Len(events) : events'[k] = events[k]
        /\ \A j \in 1 .. d : events'[Len(events) + j] = Ended(q[j], "evicted")
  BY DEF ReaderParks
<1>2. said' = said /\ SaidBy(h, n) /\ Speaks(h) /\ \A m \in Nick : m # n => dm_held'[m] = dm_held[m]
  BY ReaderWireNumbers DEF ReaderParks, SaidBy, Speaks
<1>3. /\ WireNumbers' /\ \A x : BeforeWire(x) => BeforeWire(x)'
      /\ h.id \in 1 .. said /\ \A x : x = h.id => BeforeWire(x)'
      /\ \A x : BeforeWire(x) => x < h.id
      /\ \A x : OnWire(x) => OnWire(x)' \/ x = h.id
      /\ said \in Nat
  BY <1>2, ReaderWireNumbers
<1>4. /\ Len(q) \in Nat /\ Len(events) \in Nat /\ DOMAIN events = 1 .. Len(events)
      /\ DOMAIN events' = 1 .. Len(events')
  BY GateInvStep DEF GateInv, TypeOK, Next
<1>5. /\ HeldNumbers /\ PastNumbers /\ TrustedBeforeHeld /\ EventsOnce /\ HeldOnce
      /\ HeldNotPast /\ NoneMissing /\ TrustedDmsInOrder
  BY DEF PlacesInv
<1>6. /\ \A j \in 1 .. Len(q) : /\ q[j].nick = n /\ q[j].id \in 1 .. said /\ BeforeWire(q[j].id)
                               /\ q[j].id < h.id
                               /\ \A k \in 1 .. Len(q) : j < k => q[j].id < q[k].id
      /\ \A k \in DOMAIN events : events[k].line.id \in 1 .. said /\ events[k].line.id < h.id
      /\ \A m \in Nick : \A j \in 1 .. Len(dm_held[m]) :
            dm_held[m][j].id \in 1 .. said /\ dm_held[m][j].id < h.id
  BY <1>3, <1>5 DEF ParkedFits, HeldNumbers, PastNumbers
<1> HIDE DEF q, h, new
<1>7. /\ \A k \in DOMAIN events : k \in DOMAIN events' /\ events'[k] = events[k]
      /\ \A j \in 1 .. d : Len(events) + j \in DOMAIN events' /\ events'[Len(events) + j].line = q[j]
      /\ \A k \in DOMAIN events' : k \notin DOMAIN events =>
            /\ k > Len(events) /\ k - Len(events) \in 1 .. d /\ k - Len(events) \in 1 .. Len(q)
            /\ events'[k].line = q[k - Len(events)] /\ events'[k].fate = "evicted"
  <2>1. ASSUME NEW k \in DOMAIN events', k \notin DOMAIN events
        PROVE  /\ k > Len(events) /\ k - Len(events) \in 1 .. d /\ k - Len(events) \in 1 .. Len(q)
               /\ events'[k].line = q[k - Len(events)] /\ events'[k].fate = "evicted"
    <3>1. /\ k > Len(events) /\ k - Len(events) \in 1 .. d /\ k - Len(events) \in 1 .. Len(q)
          /\ Len(events) + (k - Len(events)) = k
      BY <1>1, <1>4, <2>1
    <3>2. events'[k] = Ended(q[k - Len(events)], "evicted")
      BY <1>1, <3>1
    <3>3. QED
      BY <3>1, <3>2 DEF Ended
  <2>2. ASSUME NEW j \in 1 .. d
        PROVE  Len(events) + j \in DOMAIN events' /\ events'[Len(events) + j].line = q[j]
    <3>1. Len(events) + j \in DOMAIN events'
      BY <1>1, <1>4
    <3>2. events'[Len(events) + j] = Ended(q[j], "evicted")
      BY <1>1
    <3>3. QED
      BY <3>1, <3>2 DEF Ended
  <2>3. \A k \in DOMAIN events : k \in DOMAIN events' /\ events'[k] = events[k]
    BY <1>1, <1>4
  <2>4. QED
    BY <2>1, <2>2, <2>3
<1>8. \A j \in 1 .. Len(new) :
         \/ j = Len(new) /\ new[j] = h
         \/ j < Len(new) /\ j + d \in 1 .. Len(q) /\ new[j] = q[j + d]
  BY <1>1, <1>4
<1>9. Len(new) \in Nat /\ d \in Nat /\ dm_held'[n] = new /\ dm_held[n] = q
  BY <1>1, <1>4 DEF new, q
<1>10. HeldNumbers'
  <2>1. ASSUME NEW j \in 1 .. Len(new), NEW x, x = new[j].id
        PROVE  /\ x \in 1 .. said' /\ BeforeWire(x)'
               /\ \A k \in 1 .. Len(new) : j < k => x < new[k].id
    <3>1. x \in 1 .. said' /\ BeforeWire(x)'
      BY <1>2, <1>3, <1>6, <1>8, <2>1
    <3>2. ASSUME NEW k \in 1 .. Len(new), j < k PROVE x < new[k].id
      <4>1. j + d \in 1 .. Len(q) /\ x = q[j + d].id
        BY <1>8, <1>9, <2>1, <3>2
      <4>2. CASE new[k] = h
        BY <1>6, <4>1, <4>2
      <4>3. CASE k + d \in 1 .. Len(q) /\ new[k] = q[k + d]
        <5>1. j + d < k + d
          BY <1>9, <3>2
        <5>2. QED
          BY <1>6, <4>1, <4>3, <5>1
      <4>4. QED
        BY <1>8, <4>2, <4>3
    <3>3. QED
      BY <3>1, <3>2
  <2>2. ASSUME NEW m \in Nick, NEW j \in 1 .. Len(dm_held'[m]), NEW x, x = dm_held'[m][j].id
        PROVE  /\ x \in 1 .. said' /\ BeforeWire(x)'
               /\ \A k \in 1 .. Len(dm_held'[m]) : j < k => x < dm_held'[m][k].id
    <3>1. CASE m = n
      BY <1>9, <2>1, <2>2, <3>1
    <3>2. CASE m # n
      BY <1>2, <1>3, <1>5, <2>2, <3>2 DEF HeldNumbers
    <3>3. QED
      BY <3>1, <3>2
  <2>3. QED
    BY <2>2 DEF HeldNumbers
<1>11. HeldOnce'
  <2> SUFFICES ASSUME NEW m \in Nick, NEW o \in Nick,
                      NEW i \in 1 .. Len(dm_held'[m]), NEW j \in 1 .. Len(dm_held'[o]),
                      dm_held'[m][i].id = dm_held'[o][j].id
               PROVE  m = o /\ i = j
    BY DEF HeldOnce
  <2>1. CASE m # n /\ o # n
    BY <1>2, <1>5, <2>1 DEF HeldOnce
  <2>2. ASSUME NEW a \in Nick, a # n, NEW k \in 1 .. Len(dm_held[a]), NEW l \in 1 .. Len(new)
        PROVE  dm_held[a][k].id # new[l].id
    <3>1. CASE new[l] = h
      BY <1>3, <1>6, <3>1
    <3>2. CASE l + d \in 1 .. Len(q) /\ new[l] = q[l + d]
      BY <1>5, <1>9, <2>2, <3>2 DEF HeldOnce
    <3>3. QED
      BY <1>8, <3>1, <3>2
  <2>3. CASE m = n /\ o # n
    BY <1>2, <1>9, <2>2, <2>3
  <2>4. CASE m # n /\ o = n
    BY <1>2, <1>9, <2>2, <2>4
  <2>5. CASE m = n /\ o = n
    <3>1. i \in 1 .. Len(new) /\ j \in 1 .. Len(new) /\ new[i].id = new[j].id
      BY <1>9, <2>5
    <3>2. CASE i + d \in 1 .. Len(q) /\ new[i] = q[i + d] /\ j + d \in 1 .. Len(q) /\ new[j] = q[j + d]
      <4>1. i + d = j + d
        BY <1>5, <1>9, <3>1, <3>2 DEF HeldOnce
      <4>2. QED
        BY <1>9, <2>5, <3>1, <4>1
    <3>3. CASE i = Len(new) /\ j = Len(new)
      BY <2>5, <3>3
    <3>4. ASSUME NEW k \in 1 .. Len(q) PROVE q[k].id # h.id
      BY <1>3, <1>6
    <3>5. QED
      BY <1>8, <3>1, <3>2, <3>3, <3>4
  <2>6. QED
    BY <2>1, <2>3, <2>4, <2>5
<1>12. PastNumbers'
  <2>1. ASSUME NEW k \in DOMAIN events', NEW x, x = events'[k].line.id
        PROVE  x \in 1 .. said' /\ BeforeWire(x)'
    <3>1. CASE k \in DOMAIN events
      BY <1>2, <1>3, <1>5, <1>7, <2>1, <3>1 DEF PastNumbers
    <3>2. CASE k \notin DOMAIN events
      BY <1>2, <1>3, <1>6, <1>7, <2>1, <3>2
    <3>3. QED
      BY <3>1, <3>2
  <2>2. QED
    BY <2>1 DEF PastNumbers
<1>13. TrustedBeforeHeld'
  <2> SUFFICES ASSUME NEW k \in DOMAIN events', events'[k].fate = "TRUSTED", events'[k].line.cmd = "dm",
                      NEW j \in 1 .. Len(dm_held'[events'[k].line.nick])
               PROVE  events'[k].line.id < dm_held'[events'[k].line.nick][j].id
    BY DEF TrustedBeforeHeld
  <2>1. k \in DOMAIN events /\ events'[k] = events[k]
    BY <1>7
  <2>2. events[k].line.nick \in Nick
    <3>1. events[k] \in Event
      BY <2>1 DEF GateInv, TypeOK
    <3>2. QED
      BY <3>1 DEF Event, Spoken
  <2>3. CASE events[k].line.nick # n
    BY <1>2, <1>5, <2>1, <2>2, <2>3 DEF TrustedBeforeHeld
  <2>4. CASE events[k].line.nick = n
    <3>1. \A i \in 1 .. Len(q) : events[k].line.id < q[i].id
      BY <1>5, <1>9, <2>1, <2>4 DEF TrustedBeforeHeld
    <3>2. j \in 1 .. Len(new) /\ dm_held'[events'[k].line.nick] = new
      BY <1>9, <2>1, <2>4
    <3>3. events[k].line.id < new[j].id
      BY <1>6, <1>8, <2>1, <3>1, <3>2
    <3>4. QED
      BY <2>1, <3>2, <3>3
  <2>5. QED
    BY <2>3, <2>4
<1>14. EventsOnce'
  <2> SUFFICES ASSUME NEW j \in DOMAIN events', NEW k \in DOMAIN events',
                      events'[j].line.id = events'[k].line.id
               PROVE  j = k
    BY DEF EventsOnce
  <2>1. CASE j \in DOMAIN events /\ k \in DOMAIN events
    BY <1>5, <1>7, <2>1 DEF EventsOnce
  <2>2. CASE j \in DOMAIN events /\ k \notin DOMAIN events
    BY <1>5, <1>7, <1>9, <2>2 DEF HeldNotPast
  <2>3. CASE j \notin DOMAIN events /\ k \in DOMAIN events
    BY <1>5, <1>7, <1>9, <2>3 DEF HeldNotPast
  <2>4. CASE j \notin DOMAIN events /\ k \notin DOMAIN events
    <3>1. /\ j - Len(events) \in 1 .. Len(dm_held[n]) /\ events'[j].line = dm_held[n][j - Len(events)]
          /\ k - Len(events) \in 1 .. Len(dm_held[n]) /\ events'[k].line = dm_held[n][k - Len(events)]
      BY <1>7, <1>9, <2>4
    <3>2. j - Len(events) = k - Len(events)
      BY <1>5, <3>1 DEF HeldOnce
    <3>3. QED
      BY <1>4, <3>2
  <2>5. QED
    BY <2>1, <2>2, <2>3, <2>4
<1>15. HeldNotPast'
  <2> SUFFICES ASSUME NEW m \in Nick, NEW j \in 1 .. Len(dm_held'[m]), NEW k \in DOMAIN events'
               PROVE  events'[k].line.id # dm_held'[m][j].id
    BY DEF HeldNotPast
  <2>1. CASE m # n /\ k \in DOMAIN events
    BY <1>2, <1>5, <1>7, <2>1 DEF HeldNotPast
  <2>2. CASE m # n /\ k \notin DOMAIN events
    <3>1. k - Len(events) \in 1 .. Len(dm_held[n]) /\ events'[k].line = dm_held[n][k - Len(events)]
      BY <1>7, <1>9, <2>2
    <3>2. dm_held'[m] = dm_held[m]
      BY <1>2, <2>2
    <3>3. QED
      BY <1>5, <2>2, <3>1, <3>2 DEF HeldOnce
  <2>3. CASE m = n /\ k \in DOMAIN events
    <3>1. j \in 1 .. Len(new) /\ dm_held'[m] = new /\ events'[k] = events[k]
      BY <1>7, <1>9, <2>3
    <3>2. CASE new[j] = h
      BY <1>3, <1>6, <2>3, <3>1, <3>2
    <3>3. CASE j + d \in 1 .. Len(q) /\ new[j] = q[j + d]
      BY <1>5, <1>9, <2>3, <3>1, <3>3 DEF HeldNotPast
    <3>4. QED
      BY <1>8, <3>1, <3>2, <3>3
  <2>4. CASE m = n /\ k \notin DOMAIN events
    <3> DEFINE i == k - Len(events)
    <3>1. /\ j \in 1 .. Len(new) /\ dm_held'[m] = new
          /\ i \in 1 .. d /\ i \in 1 .. Len(q) /\ events'[k].line = q[i]
      BY <1>7, <1>9, <2>4
    <3> HIDE DEF i
    <3>2. CASE new[j] = h
      BY <1>3, <1>6, <3>1, <3>2
    <3>3. CASE j + d \in 1 .. Len(q) /\ new[j] = q[j + d]
      <4>1. i # j + d
        BY <1>9, <3>1
      <4>2. QED
        BY <1>5, <1>9, <3>1, <3>3, <4>1 DEF HeldOnce
    <3>4. QED
      BY <1>8, <3>1, <3>2, <3>3
  <2>5. QED
    BY <2>1, <2>2, <2>3, <2>4
<1>16. NoneMissing'
  <2> SUFFICES ASSUME NEW x \in 1 .. said
               PROVE  \/ OnWire(x)'
                      \/ \E m \in Nick : \E j \in 1 .. Len(dm_held'[m]) : dm_held'[m][j].id = x
                      \/ \E k \in DOMAIN events' : events'[k].line.id = x
    BY <1>2 DEF NoneMissing
  <2>1. CASE OnWire(x) \/ x = h.id
    <3>1. Len(new) \in 1 .. Len(new) /\ new[Len(new)] = h
      BY <1>1, <1>4
    <3>2. QED
      BY <1>3, <1>9, <2>1, <3>1
  <2>2. ASSUME NEW m \in Nick, NEW j \in 1 .. Len(dm_held[m]), dm_held[m][j].id = x
        PROVE  \/ \E i \in 1 .. Len(dm_held'[m]) : dm_held'[m][i].id = x
               \/ \E k \in DOMAIN events' : events'[k].line.id = x
    <3>1. CASE m = n /\ j \in 1 .. d
      BY <1>7, <1>9, <2>2, <3>1
    <3>2. CASE m = n /\ j \notin 1 .. d
      <4>1. j - d \in 1 .. Len(q) - d /\ (j - d) + d = j /\ j - d \in 1 .. Len(new)
        BY <1>1, <1>4, <1>9, <2>2, <3>2
      <4>2. new[j - d] = q[j]
        BY <1>1, <4>1
      <4>3. QED
        BY <1>9, <2>2, <3>2, <4>1, <4>2
    <3>3. CASE m # n
      BY <1>2, <2>2, <3>3
    <3>4. QED
      BY <3>1, <3>2, <3>3
  <2>3. CASE \E k \in DOMAIN events : events[k].line.id = x
    BY <1>7, <2>3
  <2>4. QED
    BY <1>5, <2>1, <2>2, <2>3 DEF NoneMissing
<1>17. TrustedDmsInOrder'
  <2> SUFFICES ASSUME NEW j \in DOMAIN events', NEW k \in DOMAIN events', j < k,
                      events'[j].line.nick = events'[k].line.nick,
                      events'[j].line.cmd = "dm", events'[k].line.cmd = "dm",
                      events'[j].fate = "TRUSTED", events'[k].fate = "TRUSTED"
               PROVE  events'[j].line.id < events'[k].line.id
    BY DEF TrustedDmsInOrder
  <2>1. j \in DOMAIN events /\ k \in DOMAIN events
    BY <1>7
  <2>2. QED
    BY <1>5, <1>7, <2>1 DEF TrustedDmsInOrder
<1>18. QED
  BY <1>3, <1>10, <1>11, <1>12, <1>13, <1>14, <1>15, <1>16, <1>17 DEF PlacesInv

\* What is added to the wire that says something is the next line said.
WireGrowsByNumber ==
    /\ Len(toBot) <= Len(toBot') /\ \A i \in DOMAIN toBot : toBot'[i] = toBot[i]
    /\ \/ said' = said /\ \A k \in DOMAIN toBot' \ DOMAIN toBot : ~Speaks(toBot'[k])
       \/ /\ said' = said + 1 /\ Len(toBot') = Len(toBot) + 1
          /\ Speaks(toBot'[Len(toBot')]) /\ toBot'[Len(toBot')].id = said + 1

\* A line said, or a line that says nothing, at the end of the wire.
LEMMA WireGrowthKeepsPlaces ==
    ASSUME GateInv, GateInv', PlacesInv, WireGrowsByNumber, UNCHANGED <<dm_held, events>>
    PROVE  PlacesInv'
<1>1. /\ Len(toBot) \in Nat /\ DOMAIN toBot = 1 .. Len(toBot) /\ said \in Nat
      /\ Len(toBot') \in Nat /\ DOMAIN toBot' = 1 .. Len(toBot') /\ Len(toBot) <= Len(toBot')
      /\ \A i \in DOMAIN toBot : i \in DOMAIN toBot' /\ toBot'[i] = toBot[i]
  BY DEF GateInv, TypeOK, WireGrowsByNumber
<1>2. \A k \in DOMAIN toBot' : k \notin DOMAIN toBot /\ Speaks(toBot'[k]) =>
          /\ said' = said + 1 /\ k = Len(toBot') /\ k = Len(toBot) + 1 /\ toBot'[k].id = said + 1
  <2> SUFFICES ASSUME NEW k \in DOMAIN toBot', k \notin DOMAIN toBot, Speaks(toBot'[k])
               PROVE  /\ said' = said + 1 /\ k = Len(toBot') /\ k = Len(toBot) + 1
                      /\ toBot'[k].id = said + 1
    OBVIOUS
  <2>1. said' = said + 1 /\ Len(toBot') = Len(toBot) + 1 /\ toBot'[Len(toBot')].id = said + 1
    <3>1. CASE said' = said /\ \A i \in DOMAIN toBot' \ DOMAIN toBot : ~Speaks(toBot'[i])
      BY <3>1
    <3>2. QED
      BY <3>1 DEF WireGrowsByNumber
  <2>2. k = Len(toBot')
    BY <1>1, <2>1
  <2>3. QED
    BY <2>1, <2>2
<1>3. said' = said \/ said' = said + 1
  BY DEF WireGrowsByNumber
<1>4. /\ WireNumbers /\ HeldNumbers /\ PastNumbers /\ TrustedBeforeHeld /\ EventsOnce /\ HeldOnce
      /\ HeldNotPast /\ NoneMissing /\ TrustedDmsInOrder
  BY DEF PlacesInv
<1>5. ASSUME NEW x \in 1 .. said, BeforeWire(x) PROVE x \in 1 .. said' /\ BeforeWire(x)'
  <2>1. ASSUME NEW k \in DOMAIN toBot', Speaks(toBot'[k]) PROVE x < toBot'[k].id
    BY <1>1, <1>2, <1>5, <2>1 DEF BeforeWire
  <2>2. QED
    BY <1>1, <1>3, <2>1 DEF BeforeWire
<1>6. WireNumbers'
  <2>1. ASSUME NEW i \in DOMAIN toBot', Speaks(toBot'[i])
        PROVE  toBot'[i].id \in 1 .. said'
    BY <1>1, <1>2, <1>3, <1>4, <2>1 DEF WireNumbers
  <2>2. ASSUME NEW i \in DOMAIN toBot', Speaks(toBot'[i]),
               NEW k \in DOMAIN toBot', i < k, Speaks(toBot'[k])
        PROVE  toBot'[i].id < toBot'[k].id
    <3>1. i \in DOMAIN toBot
      BY <1>1, <1>2, <2>2
    <3>2. toBot'[i].id \in 1 .. said
      BY <1>1, <1>4, <2>2, <3>1 DEF WireNumbers
    <3>3. CASE k \in DOMAIN toBot
      BY <1>1, <1>4, <2>2, <3>1, <3>3 DEF WireNumbers
    <3>4. CASE k \notin DOMAIN toBot
      BY <1>1, <1>2, <2>2, <3>2, <3>4
    <3>5. QED
      BY <3>3, <3>4
  <2>3. QED
    BY <2>1, <2>2 DEF WireNumbers
<1>7. HeldNumbers'
  <2>1. ASSUME NEW m \in Nick, NEW j \in 1 .. Len(dm_held'[m]), NEW x, x = dm_held'[m][j].id
        PROVE  /\ x \in 1 .. said' /\ BeforeWire(x)'
               /\ \A k \in 1 .. Len(dm_held'[m]) : j < k => x < dm_held'[m][k].id
    BY <1>4, <1>5, <2>1 DEF HeldNumbers
  <2>2. QED
    BY <2>1 DEF HeldNumbers
<1>8. PastNumbers'
  <2>1. ASSUME NEW k \in DOMAIN events', NEW x, x = events'[k].line.id
        PROVE  x \in 1 .. said' /\ BeforeWire(x)'
    BY <1>4, <1>5, <2>1 DEF PastNumbers
  <2>2. QED
    BY <2>1 DEF PastNumbers
<1>9. NoneMissing'
  <2> SUFFICES ASSUME NEW x \in 1 .. said'
               PROVE  \/ OnWire(x)'
                      \/ \E m \in Nick : \E j \in 1 .. Len(dm_held[m]) : dm_held[m][j].id = x
                      \/ \E k \in DOMAIN events : events[k].line.id = x
    BY DEF NoneMissing
  <2>1. CASE x \in 1 .. said
    <3>1. OnWire(x) => OnWire(x)'
      BY <1>1 DEF OnWire
    <3>2. QED
      BY <1>4, <2>1, <3>1 DEF NoneMissing
  <2>2. CASE x \notin 1 .. said
    <3>1. x = said + 1 /\ said' = said + 1
      BY <1>1, <1>3, <2>2
    <3>2. said' # said
      BY <1>1, <3>1
    <3>3. /\ Len(toBot') = Len(toBot) + 1 /\ Speaks(toBot'[Len(toBot')])
          /\ toBot'[Len(toBot')].id = said + 1
      BY <3>2 DEF WireGrowsByNumber
    <3>4. Len(toBot') \in DOMAIN toBot'
      BY <1>1, <3>3
    <3>5. QED
      BY <3>1, <3>3, <3>4 DEF OnWire
  <2>3. QED
    BY <2>1, <2>2
<1>10. TrustedBeforeHeld' /\ EventsOnce' /\ HeldOnce' /\ HeldNotPast' /\ TrustedDmsInOrder'
  BY <1>4 DEF TrustedBeforeHeld, EventsOnce, HeldOnce, HeldNotPast, TrustedDmsInOrder
<1>11. QED
  BY <1>6, <1>7, <1>8, <1>9, <1>10 DEF PlacesInv

\* What users say is numbered one after the other.
LEMMA UsersNumberTheirLines ==
    ASSUME GateInv, Users
    PROVE  WireGrowsByNumber
<1> USE DEF GateInv
<1>1. CASE toBot' = toBot /\ said' = said
  BY <1>1 DEF WireGrowsByNumber, TypeOK
<1>2. ASSUME NEW m \in Nick, NEW cmd \in {"PART", "QUIT", "NICK"}, said' = said,
             toBot' = Append(toBot, [cmd |-> cmd, nick |-> m])
      PROVE  WireGrowsByNumber
  <2> DEFINE l == [cmd |-> cmd, nick |-> m]
  <2>1. l \in Line /\ ~Speaks(l)
    BY SentLines DEF Speaks
  <2>2. toBot' = Append(toBot, l)
    BY <1>2
  <2> HIDE DEF l
  <2>3. QED
    BY <1>2, <2>1, <2>2, OneMoreLine DEF WireGrowsByNumber
<1>3. ASSUME NEW m \in Nick, NEW cmd \in {"dm", "channel", "invite"}, Say(m, cmd)
      PROVE  WireGrowsByNumber
  <2> DEFINE l == [cmd |-> cmd, nick |-> m, host |-> hostOf[m], id |-> said + 1,
                   tenure |-> holder[m], identified |-> holder[m] \in proved]
  <2>1. l \in Line
    <3>1. hostOf[m] \in Host /\ holder[m] \in Nat /\ said + 1 \in Nat
          /\ (holder[m] \in proved) \in BOOLEAN
      BY DEF TypeOK
    <3>2. QED
      BY <3>1, SentLines
  <2>2. Speaks(l) /\ l.id = said + 1
    BY DEF Speaks
  <2>3. toBot' = Append(toBot, l) /\ said' = said + 1
    BY <1>3 DEF Say
  <2> HIDE DEF l
  <2>4. QED
    BY <2>1, <2>2, <2>3, OneMoreLine DEF WireGrowsByNumber
<1>4. QED
  BY <1>1, <1>2, <1>3, TrustAssumption DEF Users, Connect, Identify, Quit, Part, Rename, Hears

\* The answer to a WHOIS says nothing.
LEMMA AnswersAreNoLines ==
    ASSUME GateInv, AnswerWhois
    PROVE  WireGrowsByNumber
<1> DEFINE m == Head(toServer)
           end == [cmd |-> "318", nick |-> m]
           ident == [cmd |-> IdentReply, nick |-> m]
<1>1. m \in Nick /\ toBot \in Seq(Line) /\ said' = said
  BY AnswerWhoisType DEF GateInv, TypeOK, serverVars
<1>2. end \in Line /\ ident \in Line
  BY <1>1, SentLines, TrustAssumption
<1>3. ~Speaks(end) /\ ~Speaks(ident)
  BY TrustAssumption DEF Speaks
<1>4. \/ toBot' = toBot \o <<ident, end>>
      \/ toBot' = Append(toBot, end)
  BY DEF AnswerWhois
<1> HIDE DEF m, end, ident
<1>5. CASE toBot' = Append(toBot, end)
  BY <1>1, <1>2, <1>3, <1>5, OneMoreLine DEF WireGrowsByNumber, GateInv
<1>6. CASE toBot' = toBot \o <<ident, end>>
  <2>1. /\ Len(toBot) \in Nat /\ DOMAIN toBot = 1 .. Len(toBot)
        /\ Len(toBot') = Len(toBot) + 2 /\ DOMAIN toBot' = 1 .. Len(toBot) + 2
        /\ \A i \in DOMAIN toBot : toBot'[i] = toBot[i]
        /\ toBot'[Len(toBot) + 1] = ident /\ toBot'[Len(toBot) + 2] = end
    BY <1>1, <1>2, <1>6
  <2>2. \A i \in DOMAIN toBot' \ DOMAIN toBot : i = Len(toBot) + 1 \/ i = Len(toBot) + 2
    BY <2>1
  <2>3. QED
    BY <1>1, <1>3, <2>1, <2>2 DEF WireGrowsByNumber
<1>7. QED
  BY <1>4, <1>5, <1>6

\* At the start no line has been said.
LEMMA PlacesInvInit ==
    ASSUME Init
    PROVE  PlacesInv
<1>1. /\ toBot = <<[cmd |-> "001"]>> /\ DOMAIN toBot = {1} /\ toBot[1].cmd = "001"
      /\ events = << >> /\ said = 0 /\ \A n \in Nick : Len(dm_held[n]) = 0
  BY DEF Init
<1>2. ~Speaks(toBot[1])
  BY <1>1 DEF Speaks
<1>3. QED
  BY <1>1, <1>2 DEF PlacesInv, WireNumbers, HeldNumbers, PastNumbers, TrustedBeforeHeld,
     EventsOnce, HeldOnce, HeldNotPast, NoneMissing, TrustedDmsInOrder

\* Every step keeps each line in one place.
LEMMA PlacesStep ==
    ASSUME GateInv, ParkedFits, PlacesInv, [Next]_vars
    PROVE  PlacesInv'
<1>1. CASE handle_server_line
  BY <1>1, ReaderKinds, AsksKeepsPlaces, FlushKeepsPlaces, EndsKeepsPlaces, ParksKeepsPlaces
<1>2. CASE ~handle_server_line
  <2>1. UNCHANGED <<dm_held, events>> /\ GateInv'
    BY <1>2, OthersLeaveTheGate, GateInvStep
  <2>2. CASE (\E m \in Nick : OperatorWhois(m)) \/ Clock \/ UNCHANGED vars
    <3>1. UNCHANGED <<toBot, said>>
      BY <2>2 DEF OperatorWhois, Clock, vars, serverVars
    <3>2. WireGrowsByNumber
      BY <3>1 DEF WireGrowsByNumber, GateInv, TypeOK
    <3>3. QED
      BY <2>1, <3>2, WireGrowthKeepsPlaces
  <2>3. QED
    BY <1>2, <2>1, <2>2, UsersNumberTheirLines, AnswersAreNoLines, WireGrowthKeepsPlaces DEF Next
<1>3. QED
  BY <1>1, <1>2

\* A number that is in one place, and in one only, counts for one.
LEMMA PlacesAreCounted ==
    ASSUME GateInv, PlacesInv
    PROVE  EveryLineAccounted
<1> SUFFICES ASSUME NEW x \in 1 .. said
             PROVE  Cardinality({k \in DOMAIN toBot : toBot[k] \in Spoken /\ toBot[k].id = x})
                    + Cardinality({p \in Nick \X (1 .. DM_HOLD_MAX) :
                          p[2] \in DOMAIN dm_held[p[1]] /\ dm_held[p[1]][p[2]].id = x})
                    + Cardinality({k \in DOMAIN events : events[k].line.id = x})
                    = 1
  BY DEF EveryLineAccounted
<1> DEFINE A == {k \in DOMAIN toBot : toBot[k] \in Spoken /\ toBot[k].id = x}
           B == {p \in Nick \X (1 .. DM_HOLD_MAX) :
                    p[2] \in DOMAIN dm_held[p[1]] /\ dm_held[p[1]][p[2]].id = x}
           C == {k \in DOMAIN events : events[k].line.id = x}
<1>1. /\ DOMAIN toBot = 1 .. Len(toBot) /\ Len(toBot) \in Nat /\ said \in Nat
      /\ \A k \in DOMAIN toBot : toBot[k] \in Spoken <=> Speaks(toBot[k])
  <2>1. \A k \in DOMAIN toBot : toBot[k] \in Line
    BY DEF GateInv, TypeOK
  <2>2. QED
    BY <2>1, LineKinds DEF GateInv, TypeOK, Speaks, Spoken
<1>2. \A n \in Nick : /\ DOMAIN dm_held[n] = 1 .. Len(dm_held[n]) /\ Len(dm_held[n]) \in Nat
                      /\ Len(dm_held[n]) <= DM_HOLD_MAX
  <2>1. ASSUME NEW n \in Nick PROVE Len(dm_held[n]) <= DM_HOLD_MAX
    <3>1. dm_held[n] \in Seq(Spoken) /\ DM_HOLD_MAX \in Nat
      BY TrustAssumption DEF GateInv, TypeOK
    <3>2. CASE dm_held[n] = << >>
      BY <3>1, <3>2
    <3>3. CASE dm_held[n] # << >>
      BY <3>3 DEF GateInv, HeldAwaitsWhois
    <3>4. QED
      BY <3>2, <3>3
  <2>2. QED
    BY <2>1 DEF GateInv, TypeOK
<1>3. /\ WireNumbers /\ HeldNumbers /\ PastNumbers /\ EventsOnce /\ HeldOnce
      /\ HeldNotPast /\ NoneMissing
  BY DEF PlacesInv
<1>4. \A k, l \in A : k = l
  BY <1>1, <1>3 DEF WireNumbers
<1>5. \A p \in B : /\ p[1] \in Nick /\ p[2] \in 1 .. Len(dm_held[p[1]])
                   /\ dm_held[p[1]][p[2]].id = x /\ p = <<p[1], p[2]>>
  BY <1>2
<1>6. \A p, r \in B : p = r
  BY <1>3, <1>5 DEF HeldOnce
<1>7. \A k, l \in C : k = l
  BY <1>3 DEF EventsOnce
<1>8. A = {} \/ B = {}
  BY <1>1, <1>3, <1>5 DEF HeldNumbers, BeforeWire
<1>9. A = {} \/ C = {}
  BY <1>1, <1>3 DEF PastNumbers, BeforeWire
<1>10. B = {} \/ C = {}
  BY <1>3, <1>5 DEF HeldNotPast
<1>11. A # {} \/ B # {} \/ C # {}
  <2>1. CASE OnWire(x)
    BY <1>1, <2>1 DEF OnWire
  <2>2. ASSUME NEW n \in Nick, NEW j \in 1 .. Len(dm_held[n]), dm_held[n][j].id = x
        PROVE  B # {}
    <3>1. j \in 1 .. DM_HOLD_MAX
      BY <1>2, TrustAssumption
    <3>2. <<n, j>> \in B
      BY <1>2, <2>2, <3>1
    <3>3. QED
      BY <3>2
  <2>3. CASE \E k \in DOMAIN events : events[k].line.id = x
    BY <2>3
  <2>4. QED
    BY <1>3, <2>1, <2>2, <2>3 DEF NoneMissing
<1> HIDE DEF A, B, C
<1>12. ASSUME NEW S, \A a, b \in S : a = b
       PROVE  Cardinality(S) = IF S = {} THEN 0 ELSE 1
  <2>1. CASE S = {}
    BY <2>1, FS_EmptySet
  <2>2. CASE S # {}
    <3>1. PICK s \in S : TRUE
      BY <2>2
    <3>2. S = {s}
      BY <1>12, <3>1
    <3>3. QED
      BY <2>2, <3>2, FS_Singleton
  <2>3. QED
    BY <2>1, <2>2
<1>13. Cardinality(A) + Cardinality(B) + Cardinality(C) = 1
  BY <1>4, <1>6, <1>7, <1>8, <1>9, <1>10, <1>11, <1>12
<1>14. QED
  BY <1>13 DEF A, B, C

(* No private message is lost without an event, and none is shown twice:   *)
(* every line said is on the wire, parked, or ended with one event, for    *)
(* any DM_HOLD_MAX and any number of lines.                                *)
THEOREM EveryLineAlwaysAccounted == Spec => []EveryLineAccounted
<1> DEFINE Inv == GateInv /\ ParkedFits /\ PlacesInv
<1>1. Init => Inv
  BY InSightInit, PlacesInvInit
<1>2. Inv /\ [Next]_vars => Inv'
  BY GateInvStep, ParkedFitsStep, PlacesStep
<1>3. Inv => EveryLineAccounted
  BY PlacesAreCounted
<1>4. QED
  BY <1>1, <1>2, <1>3, PTL DEF Spec

(* Parking keeps the order of a nick's trusted private messages.           *)
THEOREM TrustedDmsAlwaysInOrder == Spec => []TrustedDmsInOrder
<1> DEFINE Inv == GateInv /\ ParkedFits /\ PlacesInv
<1>1. Init => Inv
  BY InSightInit, PlacesInvInit
<1>2. Inv /\ [Next]_vars => Inv'
  BY GateInvStep, ParkedFitsStep, PlacesStep
<1>3. Inv => TrustedDmsInOrder
  BY DEF PlacesInv
<1>4. QED
  BY <1>1, <1>2, <1>3, PTL DEF Spec

-----------------------------------------------------------------------------
(* The gate keeps the promise of LineFate.  Its reader ends lines that were *)
(* said and had not ended (PlacesInv), and vouches for those it shows as    *)
(* trusted (TrustedIsIdentified); every other step ends none, and takes no  *)
(* line and no proof of identity away.                                      *)

\* What is not in LineFate: the bound on the lines said.
SaidBounded == said <= MaxLines

PromiseInv ==
    GateInv /\ ParkedFits /\ InSightInv /\ TrustedIsIdentified /\ PlacesInv /\ SaidBounded

EndsIn(evs, x) ==
    LET at == {k \in DOMAIN evs : evs[k].line.id = x}
    IN  [j \in 1 .. Cardinality(at) |->
            evs[CHOOSE k \in at : Cardinality({m \in at : m <= k}) = j].fate]

\* A line with no event has not ended; one with one event has ended that way.
LEMMA OneEndOrNone ==
    ASSUME NEW evs \in Seq(Event), NEW x
    PROVE  /\ (\A k \in DOMAIN evs : evs[k].line.id # x) => EndsIn(evs, x) = << >>
           /\ \A k \in DOMAIN evs :
                 evs[k].line.id = x /\ (\A m \in DOMAIN evs : evs[m].line.id = x => m = k)
                    => EndsIn(evs, x) = <<evs[k].fate>>
<1> DEFINE at == {k \in DOMAIN evs : evs[k].line.id = x}
           nth(j) == CHOOSE k \in at : Cardinality({m \in at : m <= k}) = j
<1>1. EndsIn(evs, x) = [j \in 1 .. Cardinality(at) |-> evs[nth(j)].fate]
  BY DEF EndsIn
<1>2. ASSUME \A k \in DOMAIN evs : evs[k].line.id # x
      PROVE  EndsIn(evs, x) = << >>
  <2>1. at = {}
    BY <1>2
  <2>2. Cardinality(at) = 0
    BY <2>1, FS_EmptySet
  <2> HIDE DEF at, nth
  <2>3. EndsIn(evs, x) = [j \in 1 .. 0 |-> evs[nth(j)].fate]
    BY <1>1, <2>2
  <2>4. QED
    BY <2>3
<1>3. ASSUME NEW k \in DOMAIN evs, evs[k].line.id = x,
             \A m \in DOMAIN evs : evs[m].line.id = x => m = k
      PROVE  EndsIn(evs, x) = <<evs[k].fate>>
  <2>1. at = {k}
    BY <1>3
  <2>2. k \in Nat
    BY <1>3
  <2>3. {m \in at : m <= k} = {k}
    BY <2>1, <2>2
  <2>4. Cardinality({k}) = 1
    BY FS_Singleton
  <2>5. Cardinality(at) = 1
    BY <2>1, <2>4
  <2>6. k \in at /\ Cardinality({m \in at : m <= k}) = 1
    BY <2>1, <2>3, <2>4
  <2>7. nth(1) \in at
    BY <2>6
  <2> HIDE DEF nth
  <2>8. nth(1) = k
    BY <2>1, <2>7
  <2> HIDE DEF at
  <2>9. EndsIn(evs, x) = [j \in 1 .. 1 |-> evs[nth(j)].fate]
    BY <1>1, <2>5
  <2>10. QED
    BY <2>8, <2>9
<1>4. QED
  BY <1>2, <1>3

\* Whoever is vouched for has said something.
LEMMA VouchedHasSpoken ==
    GateInv /\ PlacesInv => Vouched \subseteq 1 .. said
<1> SUFFICES ASSUME GateInv, PlacesInv, NEW l \in Everywhere PROVE l.id \in 1 .. said
  BY DEF Vouched
<1>1. CASE l \in Range(toBot) \cap Spoken
  <2>1. PICK k \in DOMAIN toBot : toBot[k] = l
    BY <1>1 DEF Range
  <2>2. Speaks(l)
    BY <1>1 DEF Spoken, Speaks
  <2>3. QED
    BY <2>1, <2>2 DEF PlacesInv, WireNumbers
<1>2. ASSUME NEW n \in DOMAIN dm_held, l \in Range(dm_held[n]) PROVE l.id \in 1 .. said
  <2>1. n \in Nick /\ dm_held[n] \in Seq(Spoken)
    BY <1>2 DEF GateInv, TypeOK
  <2>2. PICK j \in 1 .. Len(dm_held[n]) : dm_held[n][j] = l
    BY <1>2, <2>1 DEF Range
  <2>3. QED
    BY <2>1, <2>2 DEF PlacesInv, HeldNumbers
<1>3. ASSUME NEW e \in Range(events), l = e.line PROVE l.id \in 1 .. said
  BY <1>3 DEF Range, PlacesInv, PastNumbers
<1>4. QED
  BY <1>1, <1>2, <1>3 DEF Everywhere

\* A wire that grows takes nobody's line away, and brings the line said.
LEMMA WireGrowthKeepsLines ==
    ASSUME GateInv, GateInv', WireGrowsByNumber, UNCHANGED <<dm_held, events>>
    PROVE  /\ Everywhere \subseteq Everywhere'
           /\ \A l \in Everywhere' : l \in Everywhere \/ (said' = said + 1 /\ l.id = said + 1)
<1>1. /\ Len(toBot) \in Nat /\ DOMAIN toBot = 1 .. Len(toBot) /\ Len(toBot) <= Len(toBot')
      /\ Len(toBot') \in Nat /\ DOMAIN toBot' = 1 .. Len(toBot')
      /\ \A i \in DOMAIN toBot : i \in DOMAIN toBot' /\ toBot'[i] = toBot[i]
  BY DEF GateInv, TypeOK, WireGrowsByNumber
<1>2. Range(toBot) \subseteq Range(toBot')
  BY <1>1 DEF Range
<1>3. ASSUME NEW l \in Range(toBot') \cap Spoken, l \notin Range(toBot)
      PROVE  said' = said + 1 /\ l.id = said + 1
  <2>1. PICK k \in DOMAIN toBot' : toBot'[k] = l
    BY <1>3 DEF Range
  <2>2. k \notin DOMAIN toBot
    BY <1>1, <1>3, <2>1 DEF Range
  <2>3. Speaks(toBot'[k])
    BY <1>3, <2>1 DEF Spoken, Speaks
  <2>4. /\ said' = said + 1 /\ Len(toBot') = Len(toBot) + 1
        /\ toBot'[Len(toBot')].id = said + 1
    BY <2>2, <2>3 DEF WireGrowsByNumber
  <2>5. k = Len(toBot')
    BY <1>1, <2>2, <2>4
  <2>6. QED
    BY <2>1, <2>4, <2>5
<1>4. QED
  BY <1>2, <1>3 DEF Everywhere

\* Who is vouched for stays so; only the line said may join them.
LEMMA WireGrowthVouches ==
    ASSUME GateInv, GateInv', WireGrowsByNumber, UNCHANGED <<dm_held, events>>,
           proved \subseteq proved'
    PROVE  /\ Vouched \subseteq Vouched'
           /\ proved' = proved => Vouched' \in {Vouched, Vouched \cup {said + 1}}
<1>1. /\ Everywhere \subseteq Everywhere'
      /\ \A l \in Everywhere' : l \in Everywhere \/ l.id = said + 1
  BY WireGrowthKeepsLines
<1>2. Vouched \subseteq Vouched'
  BY <1>1 DEF Vouched
<1>3. ASSUME proved' = proved PROVE Vouched' \subseteq Vouched \cup {said + 1}
  BY <1>1, <1>3 DEF Vouched
<1>4. QED
  BY <1>2, <1>3

\* A step that says nothing and ends nothing judges no line.
LEMMA NothingEnds ==
    ASSUME PromiseInv, PromiseInv', UNCHANGED <<said, events>>, Vouched \subseteq Vouched'
    PROVE  Promise!Next
<1>1. Vouched' \subseteq 1 .. said
  <2>1. GateInv' /\ PlacesInv'
    BY DEF PromiseInv
  <2>2. (Vouched \subseteq 1 .. said)'
    BY <2>1, VouchedHasSpoken, PTL
  <2>3. QED
    BY <2>2
<1>2. \A i : EndedAs(i)' = EndedAs(i)
  BY DEF EndedAs
<1>3. {} \in SUBSET Promise!Open
  OBVIOUS
<1>4. [i \in {} |-> "reset"] \in [{} -> Fate]
  OBVIOUS
<1>5. \E f \in [{} -> Fate] :
         /\ [i \in 1 .. MaxLines |-> EndedAs(i)']
               = [l \in 1 .. MaxLines |->
                     IF l \in {} THEN <<f[l]>> ELSE [i \in 1 .. MaxLines |-> EndedAs(i)][l]]
         /\ \A l \in {} : f[l] \in {"TRUSTED", "JOINED"} => l \in Vouched'
  BY <1>2, <1>4
<1>6. ASSUME NEW M, M = {} PROVE Promise!Judge(M)
  BY <1>1, <1>5, <1>6 DEF Promise!Judge
<1>7. QED
  BY <1>3, <1>6 DEF Promise!Next

\* What is ended stays vouched for, or not: its line is the event's.
LEMMA EndedStaysVouched ==
    ASSUME PromiseInv, PromiseInv', proved' = proved,
           \A k \in DOMAIN events : k \in DOMAIN events' /\ events'[k] = events[k],
           NEW k \in DOMAIN events, events[k].line.id \in Vouched
    PROVE  events[k].line.id \in Vouched'
<1> DEFINE e == events[k].line
<1>1. PICK l \in Everywhere : l.id = e.id /\ (l.tenure \in proved \/ l.nick \notin InSight)
  BY DEF Vouched
<1>2. GateInv /\ PlacesInv
  BY DEF PromiseInv
<1>3. l = e
  <2>1. ASSUME l \in Range(toBot) \cap Spoken PROVE FALSE
    <3>1. PICK i \in DOMAIN toBot : toBot[i] = l
      BY <2>1 DEF Range
    <3>2. Speaks(l)
      BY <2>1 DEF Spoken, Speaks
    <3>3. BeforeWire(e.id) /\ e.id \in 1 .. said /\ said \in Nat
      BY <1>2 DEF PlacesInv, PastNumbers, GateInv, TypeOK
    <3>4. e.id < l.id
      BY <3>1, <3>2, <3>3 DEF BeforeWire
    <3>5. QED
      BY <1>1, <3>3, <3>4
  <2>2. ASSUME NEW n \in DOMAIN dm_held, l \in Range(dm_held[n]) PROVE FALSE
    <3>1. n \in Nick /\ dm_held[n] \in Seq(Spoken)
      BY <1>2, <2>2 DEF GateInv, TypeOK
    <3>2. PICK j \in 1 .. Len(dm_held[n]) : dm_held[n][j] = l
      BY <2>2, <3>1 DEF Range
    <3>3. QED
      BY <1>1, <1>2, <3>1, <3>2 DEF PlacesInv, HeldNotPast
  <2>3. ASSUME NEW g \in Range(events), l = g.line PROVE l = e
    <3>1. PICK m \in DOMAIN events : events[m] = g
      BY <2>3 DEF Range
    <3>2. m = k
      BY <1>1, <1>2, <2>3, <3>1 DEF PlacesInv, EventsOnce
    <3>3. QED
      BY <2>3, <3>1, <3>2
  <2>4. QED
    BY <2>1, <2>2, <2>3 DEF Everywhere
<1>4. e \in Everywhere'
  <2>1. events'[k] \in Range(events') /\ events'[k].line = e
    BY DEF Range
  <2>2. QED
    BY <2>1 DEF Everywhere
<1>5. QED
  BY <1>1, <1>3, <1>4 DEF Vouched

\* What the reader ends has not ended before; what it trusts is vouched for.
LEMMA ReaderEndsOpenLines ==
    ASSUME PromiseInv, PromiseInv', handle_server_line
    PROVE  /\ said' = said /\ proved' = proved
           /\ \A k \in DOMAIN events : k \in DOMAIN events' /\ events'[k] = events[k]
           /\ \A k \in DOMAIN events' \ DOMAIN events :
                 /\ events'[k].line.id \in 1 .. said
                 /\ events'[k].fate \in Fate
                 /\ \A m \in DOMAIN events : events[m].line.id # events'[k].line.id
                 /\ events'[k].fate \in {"TRUSTED", "JOINED"} => events'[k].line.id \in Vouched'
<1> USE DEF PromiseInv
<1>1. said' = said /\ proved' = proved
  BY ReaderKinds DEF serverVars
<1>2. /\ DOMAIN events = 1 .. Len(events) /\ Len(events) \in Nat
      /\ DOMAIN events' = 1 .. Len(events') /\ Len(events') \in Nat
      /\ events' \in Seq(Event)
      /\ \A n \in Nick : Len(dm_held[n]) \in Nat
  BY DEF GateInv, TypeOK
<1>3. Len(events) <= Len(events') /\ \A k \in 1 .. Len(events) : events'[k] = events[k]
  <2>1. CASE ReaderAsks
    BY <1>2, <2>1 DEF ReaderAsks
  <2>2. ASSUME NEW n \in Nick, ReaderFlushes(n)
        PROVE  Len(events) <= Len(events') /\ \A k \in 1 .. Len(events) : events'[k] = events[k]
    <3>1. /\ Len(events') = Len(events) + Len(dm_held[n])
          /\ \A k \in 1 .. Len(events) : events'[k] = events[k]
      BY <2>2 DEF ReaderFlushes
    <3>2. QED
      BY <1>2, <3>1
  <2>3. ASSUME NEW n \in Nick, ReaderEnds(n)
        PROVE  Len(events) <= Len(events') /\ \A k \in 1 .. Len(events) : events'[k] = events[k]
    <3>1. /\ Len(events') = Len(events) + 1
          /\ \A k \in 1 .. Len(events) : events'[k] = events[k]
      BY <2>3 DEF ReaderEnds
    <3>2. QED
      BY <1>2, <3>1
  <2>4. ASSUME NEW n \in Nick, ReaderParks(n)
        PROVE  Len(events) <= Len(events') /\ \A k \in 1 .. Len(events) : events'[k] = events[k]
    <3>1. PICK d \in 0 .. Len(dm_held[n]) :
             /\ Len(events') = Len(events) + d
             /\ \A k \in 1 .. Len(events) : events'[k] = events[k]
      BY <2>4 DEF ReaderParks
    <3>2. QED
      BY <1>2, <3>1
  <2>5. QED
    BY <2>1, <2>2, <2>3, <2>4, ReaderKinds
<1>4. \A k \in DOMAIN events : k \in DOMAIN events' /\ events'[k] = events[k]
  BY <1>2, <1>3
<1>5. ASSUME NEW k \in DOMAIN events' \ DOMAIN events
      PROVE  /\ events'[k].line.id \in 1 .. said
             /\ events'[k].fate \in Fate
             /\ \A m \in DOMAIN events : events[m].line.id # events'[k].line.id
             /\ events'[k].fate \in {"TRUSTED", "JOINED"} => events'[k].line.id \in Vouched'
  <2>1. events'[k] \in Event
    BY <1>2
  <2>2. events'[k].fate \in Fate
    BY <2>1 DEF Event
  <2>3. events'[k].line.id \in 1 .. said
    BY <1>1 DEF PlacesInv, PastNumbers
  <2>4. \A m \in DOMAIN events : events[m].line.id # events'[k].line.id
    <3>1. EventsOnce'
      BY DEF PlacesInv
    <3>2. QED
      BY <1>4, <3>1 DEF EventsOnce
  <2>5. ASSUME events'[k].fate \in {"TRUSTED", "JOINED"}
        PROVE  events'[k].line.id \in Vouched'
    <3> DEFINE l == events'[k].line
    <3>1. events'[k].proved = (l.tenure \in proved)
      BY <1>5, NewEvents DEF Ended
    <3>2. l.nick \in InSight => l.tenure \in proved
      BY <2>5, <3>1 DEF TrustedIsIdentified
    <3>3. l \in Everywhere'
      <4>1. events'[k] \in Range(events')
        BY DEF Range
      <4>2. QED
        BY <4>1 DEF Everywhere
    <3>4. QED
      BY <1>1, <3>2, <3>3 DEF Vouched
  <2>6. QED
    BY <2>2, <2>3, <2>4, <2>5
<1>6. QED
  BY <1>1, <1>4, <1>5

\* A line read judges the lines it ends.
LEMMA ReaderJudges ==
    ASSUME PromiseInv, PromiseInv', handle_server_line
    PROVE  Promise!Next
<1> DEFINE New == DOMAIN events' \ DOMAIN events
           L == {events'[k].line.id : k \in New}
           Which(x) == CHOOSE k \in New : events'[k].line.id = x
           fate == [x \in L |-> events'[Which(x)].fate]
<1>1. /\ said' = said /\ proved' = proved
      /\ \A k \in DOMAIN events : k \in DOMAIN events' /\ events'[k] = events[k]
      /\ \A k \in New :
            /\ events'[k].line.id \in 1 .. said
            /\ events'[k].fate \in Fate
            /\ \A m \in DOMAIN events : events[m].line.id # events'[k].line.id
            /\ events'[k].fate \in {"TRUSTED", "JOINED"} => events'[k].line.id \in Vouched'
  BY ReaderEndsOpenLines
<1>2. events \in Seq(Event) /\ events' \in Seq(Event) /\ EventsOnce /\ EventsOnce'
      /\ said \in Nat /\ MaxLines \in Nat /\ said <= MaxLines
  BY TrustAssumption DEF PromiseInv, GateInv, TypeOK, PlacesInv, SaidBounded
<1>3. \A x \in L : Which(x) \in New /\ events'[Which(x)].line.id = x
  OBVIOUS
<1> HIDE DEF Which
<1>4. \A x \in L : fate[x] = events'[Which(x)].fate
  OBVIOUS
<1>5. fate \in [L -> Fate]
  BY <1>1, <1>3
<1>6. \A x \in L : x \in 1 .. MaxLines /\ x \in 1 .. said /\ EndedAs(x) = << >>
  <2> SUFFICES ASSUME NEW x \in L
               PROVE  x \in 1 .. MaxLines /\ x \in 1 .. said /\ EndedAs(x) = << >>
    OBVIOUS
  <2>1. x \in 1 .. said /\ x \in 1 .. MaxLines
    BY <1>1, <1>2
  <2>2. \A m \in DOMAIN events : events[m].line.id # x
    BY <1>1
  <2>3. EndsIn(events, x) = << >>
    BY <1>2, <2>2, OneEndOrNone
  <2>4. QED
    BY <2>1, <2>3 DEF EndedAs, EndsIn
<1>7. \A x \in L : EndedAs(x)' = <<fate[x]>>
  <2> SUFFICES ASSUME NEW x \in L PROVE EndedAs(x)' = <<fate[x]>>
    OBVIOUS
  <2>1. Which(x) \in DOMAIN events' /\ events'[Which(x)].line.id = x
    BY <1>3
  <2>2. \A m \in DOMAIN events' : events'[m].line.id = x => m = Which(x)
    BY <1>2, <2>1 DEF EventsOnce
  <2>3. EndsIn(events', x) = <<events'[Which(x)].fate>>
    BY <1>2, <2>1, <2>2, OneEndOrNone
  <2>4. EndsIn(events', x) = <<fate[x]>>
    BY <1>4, <2>3
  <2>5. QED
    BY <2>4 DEF EndedAs, EndsIn
<1>8. ASSUME NEW x \in 1 .. MaxLines, x \notin L PROVE EndedAs(x)' = EndedAs(x)
  <2>1. CASE \A m \in DOMAIN events : events[m].line.id # x
    <3>1. \A m \in DOMAIN events' : events'[m].line.id # x
      BY <1>1, <1>8, <2>1
    <3>2. EndsIn(events, x) = << >> /\ EndsIn(events', x) = << >>
      BY <1>2, <2>1, <3>1, OneEndOrNone
    <3>3. QED
      BY <3>2 DEF EndedAs, EndsIn
  <2>2. ASSUME NEW k \in DOMAIN events, events[k].line.id = x
        PROVE  EndedAs(x)' = EndedAs(x)
    <3>1. k \in DOMAIN events' /\ events'[k] = events[k]
      BY <1>1
    <3>2. /\ \A m \in DOMAIN events : events[m].line.id = x => m = k
          /\ \A m \in DOMAIN events' : events'[m].line.id = x => m = k
      BY <1>2, <2>2, <3>1 DEF EventsOnce
    <3>3. EndsIn(events, x) = <<events[k].fate>>
      BY <1>2, <2>2, <3>2, OneEndOrNone
    <3>4. EndsIn(events', x) = <<events'[k].fate>>
      <4>1. k \in DOMAIN events' /\ events'[k].line.id = x
        BY <2>2, <3>1
      <4>2. QED
        BY <1>2, <3>2, <4>1, OneEndOrNone
    <3>5. EndsIn(events', x) = EndsIn(events, x)
      BY <3>1, <3>3, <3>4
    <3>6. QED
      BY <3>5 DEF EndedAs, EndsIn
  <2>3. QED
    BY <2>1, <2>2
<1>9. \A x \in L : fate[x] \in {"TRUSTED", "JOINED"} => x \in Vouched'
  BY <1>1, <1>3, <1>4
<1> DEFINE before == [i \in 1 .. MaxLines |-> EndedAs(i)]
           after == [i \in 1 .. MaxLines |-> EndedAs(i)']
<1>10. L \in SUBSET Promise!Open
  <2>1. ASSUME NEW x \in L PROVE x \in 1 .. said /\ before[x] = << >>
    BY <1>6
  <2>2. QED
    BY <2>1 DEF Promise!Open
<1>11. Vouched' \in SUBSET (1 .. said)
  <2>1. GateInv' /\ PlacesInv'
    BY DEF PromiseInv
  <2>2. (Vouched \subseteq 1 .. said)'
    BY <2>1, VouchedHasSpoken, PTL
  <2>3. QED
    BY <1>1, <2>2
<1>12. ASSUME NEW x \in Vouched, x \notin Promise!Open PROVE x \in Vouched'
  <2>1. x \in 1 .. said
    BY <1>12, VouchedHasSpoken DEF PromiseInv
  <2>2. x \in 1 .. MaxLines
    BY <1>2, <2>1
  <2>3. EndedAs(x) # << >>
    BY <1>12, <2>1, <2>2 DEF Promise!Open
  <2>4. \E k \in DOMAIN events : events[k].line.id = x
    <3>1. EndsIn(events, x) # << >>
      BY <2>3 DEF EndedAs, EndsIn
    <3>2. QED
      BY <1>2, <3>1, OneEndOrNone
  <2>5. PICK k \in DOMAIN events : events[k].line.id = x
    BY <2>4
  <2>6. QED
    BY <1>1, <1>12, <2>5, EndedStaysVouched
<1> HIDE DEF New, L, fate
<1>13. after = [l \in 1 .. MaxLines |-> IF l \in L THEN <<fate[l]>> ELSE before[l]]
  <2>1. ASSUME NEW l \in 1 .. MaxLines
        PROVE  after[l] = IF l \in L THEN <<fate[l]>> ELSE before[l]
    BY <1>7, <1>8
  <2> HIDE DEF before
  <2>2. QED
    BY <2>1
<1>14. \E f \in [L -> Fate] :
          /\ after = [l \in 1 .. MaxLines |-> IF l \in L THEN <<f[l]>> ELSE before[l]]
          /\ \A l \in L : f[l] \in {"TRUSTED", "JOINED"} => l \in Vouched'
  BY <1>5, <1>9, <1>13
<1>15. Vouched \ Promise!Open \subseteq Vouched'
  BY <1>12
<1>16. ASSUME NEW M, M = L PROVE Promise!Judge(M)
  BY <1>1, <1>11, <1>14, <1>15, <1>16 DEF Promise!Judge
<1>17. QED
  BY <1>10, <1>16 DEF Promise!Next

\* A line said is said in LineFate too.
LEMMA SayingSays ==
    ASSUME PromiseInv, PromiseInv', NEW n \in Nick, NEW cmd \in {"dm", "channel", "invite"},
           Say(n, cmd), WireGrowsByNumber
    PROVE  Promise!Next
<1>1. /\ said' = said + 1 /\ said < MaxLines /\ proved' = proved
      /\ UNCHANGED <<dm_held, events>>
  BY DEF Say, botIdle, gateVars
<1>2. said \in Nat /\ MaxLines \in Nat /\ GateInv /\ GateInv'
  BY TrustAssumption DEF PromiseInv, GateInv, TypeOK
<1>3. PICK l \in 1 .. MaxLines : l = said + 1
  BY <1>1, <1>2
<1>4. Vouched' \in {Vouched, Vouched \cup {l}}
  BY <1>1, <1>2, <1>3, WireGrowthVouches
<1>5. \A i : EndedAs(i)' = EndedAs(i)
  BY <1>1 DEF EndedAs
<1>6. l \notin 1 .. said /\ 1 .. said' = (1 .. said) \cup {l}
  BY <1>1, <1>2, <1>3
<1>7. Promise!Say(l)
  BY <1>4, <1>5, <1>6 DEF Promise!Say
<1>8. QED
  BY <1>7 DEF Promise!Next

\* No step says more lines than MaxLines.
LEMMA SaidBoundedStep ==
    ASSUME GateInv, ParkedFits, SaidBounded, [Next]_vars
    PROVE  SaidBounded'
<1>1. said \in Nat /\ MaxLines \in Nat
  BY TrustAssumption DEF GateInv, TypeOK
<1>2. CASE handle_server_line
  BY <1>2, ReaderKinds DEF serverVars, SaidBounded
<1>3. CASE AnswerWhois \/ Clock \/ (\E n \in Nick : OperatorWhois(n)) \/ UNCHANGED vars
  BY <1>3 DEF AnswerWhois, Clock, OperatorWhois, vars, serverVars, SaidBounded
<1>4. CASE Users
  <2>1. said' = said \/ (said < MaxLines /\ said' = said + 1)
    BY <1>4 DEF Users, Connect, Identify, Quit, Part, Rename, Say
  <2>2. QED
    BY <1>1, <2>1 DEF SaidBounded
<1>5. QED
  BY <1>2, <1>3, <1>4 DEF Next

LEMMA PromiseInvStep ==
    ASSUME PromiseInv, [Next]_vars
    PROVE  PromiseInv'
  BY GateInvStep, ParkedFitsStep, InSightStep, TrustedIsIdentifiedStep, PlacesStep, SaidBoundedStep
     DEF PromiseInv

\* Every step is one of LineFate's.
LEMMA GateStepsPromise ==
    ASSUME PromiseInv, [Next]_vars
    PROVE  Promise!Next
<1>1. PromiseInv'
  BY PromiseInvStep
<1>2. GateInv /\ GateInv' /\ 0 \notin proved
  BY <1>1 DEF PromiseInv, InSightInv
<1>3. CASE handle_server_line
  BY <1>1, <1>3, ReaderJudges
<1>4. ASSUME ~handle_server_line, UNCHANGED said, WireGrowsByNumber, proved \subseteq proved'
      PROVE  Promise!Next
  <2>1. UNCHANGED <<dm_held, events>>
    BY <1>4, OthersLeaveTheGate
  <2>2. Vouched \subseteq Vouched'
    BY <1>2, <1>4, <2>1, WireGrowthVouches
  <2>3. QED
    BY <1>1, <1>4, <2>1, <2>2, NothingEnds
<1>5. CASE ~handle_server_line /\ Users
  <2>1. WireGrowsByNumber /\ proved \subseteq proved'
    BY <1>2, <1>5, UsersNumberTheirLines, UsersProve
  <2>2. ASSUME NEW n \in Nick, NEW cmd \in {"dm", "channel", "invite"}, Say(n, cmd)
        PROVE  Promise!Next
    BY <1>1, <2>1, <2>2, SayingSays
  <2>3. CASE said' = said
    BY <1>4, <1>5, <2>1, <2>3
  <2>4. said' = said \/ \E n \in Nick, cmd \in {"dm", "channel", "invite"} : Say(n, cmd)
    BY <1>5, TrustAssumption DEF Users, Connect, Identify, Quit, Part, Rename, Hears
  <2>5. QED
    BY <2>2, <2>3, <2>4
<1>6. CASE ~handle_server_line /\ AnswerWhois
  <2>1. WireGrowsByNumber /\ proved' = proved /\ said' = said
    BY <1>2, <1>6, AnswersAreNoLines DEF AnswerWhois, serverVars
  <2>2. QED
    BY <1>4, <1>6, <2>1
<1>7. CASE ~handle_server_line /\ ((\E n \in Nick : OperatorWhois(n)) \/ Clock \/ UNCHANGED vars)
  <2>1. UNCHANGED <<toBot, said, proved>>
    BY <1>7 DEF OperatorWhois, Clock, vars, serverVars
  <2>2. WireGrowsByNumber
    BY <1>2, <2>1 DEF WireGrowsByNumber, GateInv, TypeOK
  <2>3. QED
    BY <1>4, <1>7, <2>1, <2>2
<1>8. QED
  BY <1>3, <1>5, <1>6, <1>7 DEF Next

\* At the start nothing is said, and nobody vouched for.
LEMMA GateStartsPromise ==
    ASSUME Init
    PROVE  PromiseInv /\ Promise!Init
<1>1. /\ said = 0 /\ events = << >> /\ toBot = <<[cmd |-> "001"]>>
      /\ dm_held = [n \in Nick |-> << >>]
  BY DEF Init
<1>2. PromiseInv
  BY <1>1, InSightInit, PlacesInvInit, TrustAssumption
     DEF PromiseInv, TrustedIsIdentified, SaidBounded
<1>3. 1 .. said = {}
  BY <1>1
<1>4. Vouched = {}
  BY <1>2, <1>3, VouchedHasSpoken DEF PromiseInv
<1>5. \A i : EndedAs(i) = << >>
  <2>1. events \in Seq(Event) /\ DOMAIN events = {}
    BY <1>1
  <2>2. \A i : EndsIn(events, i) = << >>
    BY <2>1, OneEndOrNone
  <2>3. QED
    BY <2>2 DEF EndedAs, EndsIn
<1>6. QED
  BY <1>2, <1>3, <1>4, <1>5 DEF Promise!Init

(* The trust gate keeps the promise of LineFate, for any nicks, rules and   *)
(* bounds: each line ends at most once, after it was said, and as trusted   *)
(* only if services have vouched for its author.                            *)
THEOREM TrustGateImplementsLineFate == Spec => ImplementsLineFate
<1>1. Init => PromiseInv /\ Promise!Init
  BY GateStartsPromise
<1>2. PromiseInv /\ [Next]_vars => PromiseInv' /\ [Promise!Next]_Promise!vars
  BY PromiseInvStep, GateStepsPromise
<1>3. QED
  BY <1>1, <1>2, PTL DEF Spec, ImplementsLineFate, Promise!Spec

=============================================================================
