--------------------------- MODULE OrderGateProofs ---------------------------
(***************************************************************************)
(* Proofs about OrderGate, for any nicks, persons, pins and bounds.  The   *)
(* inductive invariant OrderInv says where each line is, as counts over the*)
(* queues (SequenceFacts), and of whom each challenge was asked; with it  *)
(* a line is never lost or ended twice, and the gate implements LineFate.  *)
(***************************************************************************)
EXTENDS OrderGate, SequenceFacts

-----------------------------------------------------------------------------
(* Types, and where the lines can be.                                      *)

Spoken == 1 .. Len(said)

\* What is on the wire, in the reader's hand, parked or held was said; it is
\* parked under its nick, and a client's ACK is for a line of its user.
LinesKnown ==
    /\ Len(said) <= MaxLines
    /\ \A i \in DOMAIN toBot :
          /\ toBot[i].kind \in {"plain", "ack"} => toBot[i].line \in Spoken
          /\ toBot[i].kind = "ack" => said[toBot[i].line].by = toBot[i].by
    /\ \A i \in DOMAIN hand : hand[i].line \in Spoken /\ gated[hand[i].line] = NoKey
    /\ \A i \in DOMAIN flushing : flushing[i] \in Spoken
    /\ \A n \in Nick : \A i \in DOMAIN dm_held[n] :
          dm_held[n][i] \in Spoken /\ said[dm_held[n][i]].nick = n
    /\ held \subseteq Spoken
    /\ \A o \in outstanding : o.line \in Spoken

Known == TypeOK /\ LinesKnown

PlainLine == [kind : {"plain"}, line : Line]
TextLine  == [kind : {"text"}, nick : Nick, by : Person]
AckLine   == [kind : {"ack"}, nick : Nick, by : Person, line : Line]
WireLine  == PlainLine \cup TextLine \cup AckLine
Saying    == [nick : Nick, by : Person, form : {"pm", "order", "chatter"}]
Held      == [line : Line, next : {"layer1", "release"}]

\* What a line read is.
LEMMA Wire ==
    ASSUME Known, NEW kind, Reads(kind)
    PROVE  /\ Head(toBot) \in WireLine /\ toBot' \in Seq(WireLine) /\ toBot # << >>
           /\ Head(toBot).kind = kind /\ toBot' = Tail(toBot)
           /\ kind = "plain" => Head(toBot) \in PlainLine /\ Head(toBot).line \in Spoken
           /\ kind = "text" => Head(toBot) \in TextLine
           /\ kind = "ack" => /\ Head(toBot) \in AckLine /\ Head(toBot).line \in Spoken
                              /\ said[Head(toBot).line].by = Head(toBot).by
           /\ \A i \in DOMAIN toBot' : i + 1 \in DOMAIN toBot /\ toBot'[i] = toBot[i + 1]
<1>1. toBot \in Seq(WireLine) /\ toBot # << >> /\ toBot' = Tail(toBot) /\ Head(toBot).kind = kind
  BY DEF Known, TypeOK, Reads, WireLine, PlainLine, TextLine, AckLine
<1>2. /\ Len(toBot) \in Nat /\ Len(toBot) # 0 /\ DOMAIN toBot = 1 .. Len(toBot)
      /\ Head(toBot) = toBot[1] /\ Tail(toBot) \in Seq(WireLine)
      /\ Len(Tail(toBot)) = Len(toBot) - 1
      /\ \A i \in 1 .. Len(Tail(toBot)) : Tail(toBot)[i] = toBot[i + 1]
  BY <1>1, HeadTailProperties
<1>3. 1 \in DOMAIN toBot /\ Head(toBot) \in WireLine
  BY <1>1, <1>2
<1>4. /\ kind = "plain" => Head(toBot) \in PlainLine
      /\ kind = "text" => Head(toBot) \in TextLine
      /\ kind = "ack" => Head(toBot) \in AckLine
  BY <1>1, <1>3 DEF WireLine, PlainLine, TextLine, AckLine
<1>5. /\ kind \in {"plain", "ack"} => Head(toBot).line \in Spoken
      /\ kind = "ack" => said[Head(toBot).line].by = Head(toBot).by
  BY <1>1, <1>2, <1>3 DEF Known, LinesKnown
<1>6. \A i \in DOMAIN toBot' : i + 1 \in DOMAIN toBot /\ toBot'[i] = toBot[i + 1]
  BY <1>1, <1>2
<1>7. QED
  BY <1>1, <1>2, <1>3, <1>4, <1>5, <1>6

\* A line said has a nick, an author and a form; it is a line.
LEMMA SpokenLine ==
    ASSUME Known, NEW l \in Spoken
    PROVE  l \in Line /\ said[l] \in Saying /\ said[l].nick \in Nick /\ said[l].by \in Person
<1>1. said \in Seq(Saying) /\ Len(said) <= MaxLines
  BY DEF Known, TypeOK, LinesKnown, Saying
<1>2. l \in 1 .. Len(said) /\ Len(said) \in Nat
  BY <1>1 DEF Spoken
<1>3. said[l] \in Saying /\ MaxLines \in Nat
  BY <1>1, <1>2, OrderAssumption
<1>4. QED
  BY <1>1, <1>2, <1>3 DEF Saying, Line

\* An event is added to one line.
LEMMA EndsType ==
    ASSUME Known, NEW l \in Line, NEW how \in {"TRUSTED", "UNTRUSTED", "DROPPED"}, Ends(l, how)
    PROVE  ends' \in [Line -> Seq({"TRUSTED", "UNTRUSTED", "DROPPED"})]
<1>1. ends \in [Line -> Seq({"TRUSTED", "UNTRUSTED", "DROPPED"})]
  BY DEF Known, TypeOK
<1>2. Append(ends[l], how) \in Seq({"TRUSTED", "UNTRUSTED", "DROPPED"})
  BY <1>1, AppendProperties
<1>3. QED
  BY <1>1, <1>2 DEF Ends

\* What the reader holds: nothing, or one line.
LEMMA Hand ==
    ASSUME Known, hand # << >>
    PROVE  /\ hand = <<hand[1]>> /\ hand[1] \in Held /\ Len(hand) = 1
           /\ hand[1].line \in Spoken /\ gated[hand[1].line] = NoKey
<1>1. hand \in Seq(Held) /\ Len(hand) <= 1
  BY DEF Known, TypeOK, Held
<1>2. Len(hand) \in Nat /\ Len(hand) # 0 /\ DOMAIN hand = 1 .. Len(hand)
  BY <1>1
<1>5. Len(hand) = 1 /\ DOMAIN hand = {1} /\ hand[1] \in Held
  BY <1>1, <1>2
<1>3. hand = <<hand[1]>>
  BY <1>1, <1>5
<1>4. QED
  BY <1>1, <1>5, <1>3 DEF Known, LinesKnown

\* A line ended TRUSTED: the conversation turns plain with it.
LEMMA ReleasedType ==
    ASSUME Known, NEW l \in Spoken, Released(l)
    PROVE  /\ ends' \in [Line -> Seq({"TRUSTED", "UNTRUSTED", "DROPPED"})]
           /\ reply_mode' \in [Nick -> {"off", "fresh", "old"}]
           /\ last' \in [Nick -> {"none", "plain", "encrypted", "lapsed"}]
<1>1. l \in Line /\ said[l].nick \in Nick
  BY SpokenLine
<1>2. Ends(l, "TRUSTED")
  BY DEF Released
<1>3. QED
  BY <1>1, <1>2, EndsType DEF Released, Known, TypeOK

\* A line parked, or the oldest of its queue dropped for it.
LEMMA DmHoldType ==
    ASSUME Known, NEW l \in Spoken, DmHold(l)
    PROVE  /\ ends' \in [Line -> Seq({"TRUSTED", "UNTRUSTED", "DROPPED"})]
           /\ dm_held' \in [Nick -> Seq(Line)]
           /\ \A n \in Nick : \A i \in DOMAIN dm_held'[n] :
                 dm_held'[n][i] \in Spoken /\ said[dm_held'[n][i]].nick = n
<1> DEFINE m == said[l].nick
           q == Append(dm_held[m], l)
<1>1. l \in Line /\ m \in Nick /\ dm_held \in [Nick -> Seq(Line)] /\ dm_held[m] \in Seq(Line)
  BY SpokenLine DEF Known, TypeOK
<1>2. /\ q \in Seq(Line) /\ q # << >> /\ Len(q) = Len(dm_held[m]) + 1 /\ Len(dm_held[m]) \in Nat
      /\ \A i \in 1 .. Len(dm_held[m]) : q[i] = dm_held[m][i]
      /\ q[Len(dm_held[m]) + 1] = l
  BY <1>1, AppendProperties
<1>3. \A i \in DOMAIN q : q[i] \in Spoken /\ said[q[i]].nick = m
  BY <1>1, <1>2 DEF Known, LinesKnown
<1>4. Tail(q) \in Seq(Line) /\ Head(q) \in Line
      /\ \A i \in DOMAIN Tail(q) : i + 1 \in DOMAIN q /\ Tail(q)[i] = q[i + 1]
  BY <1>2, HeadTailProperties
<1>5. dm_held' = [dm_held EXCEPT ![m] = Tail(q)] \/ dm_held' = [dm_held EXCEPT ![m] = q]
  BY DEF DmHold
<1>6. ends' \in [Line -> Seq({"TRUSTED", "UNTRUSTED", "DROPPED"})]
  <2>1. CASE Len(q) > DM_HOLD_MAX
    <3>1. Ends(Head(q), "DROPPED")
      BY <2>1 DEF DmHold
    <3>2. QED
      BY <1>4, <3>1, EndsType
  <2>2. CASE ~(Len(q) > DM_HOLD_MAX)
    BY <2>2 DEF DmHold, Known, TypeOK
  <2>3. QED
    BY <2>1, <2>2
<1> HIDE DEF m, q
<1>7. ASSUME NEW r \in Seq(Line), dm_held' = [dm_held EXCEPT ![m] = r],
             \A i \in DOMAIN r : r[i] \in Spoken /\ said[r[i]].nick = m
      PROVE  /\ dm_held' \in [Nick -> Seq(Line)]
             /\ \A n \in Nick : \A i \in DOMAIN dm_held'[n] :
                   dm_held'[n][i] \in Spoken /\ said[dm_held'[n][i]].nick = n
  <2>1. dm_held'[m] = r /\ \A n \in Nick : n # m => dm_held'[n] = dm_held[n]
    BY <1>1, <1>7
  <2>2. dm_held' \in [Nick -> Seq(Line)]
    BY <1>1, <1>7
  <2>3. ASSUME NEW n \in Nick, NEW i \in DOMAIN dm_held'[n]
        PROVE  dm_held'[n][i] \in Spoken /\ said[dm_held'[n][i]].nick = n
    BY <1>7, <2>1, <2>3 DEF Known, LinesKnown
  <2>4. QED
    BY <2>2, <2>3
<1>8. \A i \in DOMAIN Tail(q) : Tail(q)[i] \in Spoken /\ said[Tail(q)[i]].nick = m
  BY <1>3, <1>4
<1>9. QED
  BY <1>2, <1>3, <1>4, <1>5, <1>6, <1>7, <1>8

\* One more element at the end of a sequence.
LEMMA OneMore ==
    ASSUME NEW T, NEW s \in Seq(T), NEW x \in T, NEW t, t = Append(s, x)
    PROVE  /\ t \in Seq(T) /\ Len(s) \in Nat /\ DOMAIN s = 1 .. Len(s) /\ Len(t) = Len(s) + 1
           /\ DOMAIN t = 1 .. Len(s) + 1 /\ t[Len(s) + 1] = x
           /\ \A i \in DOMAIN s : t[i] = s[i]
  BY AppendProperties

\* The steps that touch no line.
LEMMA AsideKnown ==
    ASSUME Known, \/ TickStat \/ TickRead \/ PacerDies \/ Edit
                  \/ (\E n \in Nick : HourPasses(n)) \/ (\E p \in Person : Move(p))
                  \/ UNCHANGED vars
    PROVE  Known'
<1>1. /\ UNCHANGED <<toBot, said, held, outstanding, readerVars, chals, written, texts, gated, ends>>
  BY DEF TickStat, TickRead, PacerDies, Edit, HourPasses, Move, vars, pinsVars, readerVars,
         bridgeVars, peerVars, history
<1>2. LinesKnown'
  BY <1>1 DEF Known, LinesKnown, Spoken, readerVars
<1>3. /\ pins' \in Pins /\ file' \in [pins : Pins, ok : BOOLEAN] /\ pacerDead' \in BOOLEAN
      /\ fileSig' \in Nat /\ sig' \in Nat
  <2>1. CASE TickRead
    <3>1. lock # << >> /\ lock \in {<< >>} \cup {<<v>> : v \in 0 .. fileSig} /\ fileSig \in Nat
      BY <2>1 DEF TickRead, Known, TypeOK
    <3>2. lock[1] \in Nat
      BY <3>1
    <3>3. QED
      BY <2>1, <3>2 DEF TickRead, Known, TypeOK
  <2>2. CASE Edit
    <3>1. /\ file \in [pins : Pins, ok : BOOLEAN] /\ pins \in Pins /\ pacerDead \in BOOLEAN
          /\ fileSig \in Nat /\ sig \in Nat
      BY DEF Known, TypeOK
    <3>2. UNCHANGED <<pins, pacerDead, sig>> /\ fileSig' = fileSig + 1
      BY <2>2 DEF Edit
    <3>3. file' \in [pins : Pins, ok : BOOLEAN]
      <4>1. ASSUME NEW q \in Pins, file' = [pins |-> q, ok |-> TRUE] PROVE file' \in [pins : Pins, ok : BOOLEAN]
        BY <4>1
      <4>2. CASE file' = [file EXCEPT !.ok = FALSE]
        BY <3>1, <4>2
      <4>3. QED
        BY <2>2, <4>1, <4>2 DEF Edit
    <3>4. QED
      BY <3>1, <3>2, <3>3
  <2>3. CASE ~TickRead /\ ~Edit
    <3>1. UNCHANGED <<pins, file, fileSig, sig>> /\ pacerDead' \in {pacerDead, TRUE}
      BY <2>3 DEF TickStat, PacerDies, HourPasses, Move, vars, pinsVars, readerVars,
         bridgeVars, peerVars, history
    <3>2. QED
      BY <3>1 DEF Known, TypeOK
  <2>4. QED
    BY <2>1, <2>2, <2>3
<1>4. lock' \in {<< >>} \cup {<<v>> : v \in 0 .. fileSig'}
  <2>1. lock \in {<< >>} \cup {<<v>> : v \in 0 .. fileSig} /\ fileSig \in Nat
    BY DEF Known, TypeOK
  <2>2. /\ lock' \in {lock, << >>, <<fileSig>>}
        /\ fileSig' = fileSig \/ fileSig' = fileSig + 1
    BY DEF Known, TypeOK, TickStat, TickRead, PacerDies, Edit, HourPasses, Move, vars, pinsVars,
           readerVars, bridgeVars, peerVars, history
  <2>3. 0 .. fileSig \subseteq 0 .. fileSig' /\ fileSig \in 0 .. fileSig'
    BY <2>1, <2>2
  <2>4. QED
    BY <2>1, <2>2, <2>3
<1>5. /\ nickOf' \in [Person -> Nick \cup {NoNick}]
      /\ reply_mode' \in [Nick -> {"off", "fresh", "old"}]
      /\ last' \in [Nick -> {"none", "plain", "encrypted", "lapsed"}]
  <2>1. /\ nickOf \in [Person -> Nick \cup {NoNick}]
        /\ reply_mode \in [Nick -> {"off", "fresh", "old"}]
        /\ last \in [Nick -> {"none", "plain", "encrypted", "lapsed"}]
    BY DEF Known, TypeOK
  <2>2. ASSUME NEW n \in Nick, HourPasses(n)
        PROVE  /\ nickOf' = nickOf /\ reply_mode' = [reply_mode EXCEPT ![n] = "old"]
               /\ last' = [last EXCEPT ![n] = "lapsed"]
    BY <2>2 DEF HourPasses, peerVars
  <2>3. ASSUME NEW p \in Person, Move(p)
        PROVE  /\ UNCHANGED <<reply_mode, last>>
               /\ \E n \in Nick \cup {NoNick} : nickOf' = [nickOf EXCEPT ![p] = n]
    BY <2>3 DEF Move, bridgeVars, history
  <2>4. CASE TickStat \/ TickRead \/ PacerDies \/ Edit \/ UNCHANGED vars
    BY <2>1, <2>4 DEF TickStat, TickRead, PacerDies, Edit, vars, bridgeVars, peerVars, history
  <2>5. QED
    BY <2>1, <2>2, <2>3, <2>4
<1>6. TypeOK'
  BY <1>1, <1>3, <1>4, <1>5 DEF Known, TypeOK, readerVars
<1>7. QED
  BY <1>2, <1>6 DEF Known

\* A line that reaches the wire.
LEMMA WireGrowsKnown ==
    ASSUME Known, NEW l \in WireLine, toBot' = Append(toBot, l),
           l.kind \in {"plain", "ack"} => l.line \in Spoken',
           l.kind = "ack" => said'[l.line].by = l.by,
           \/ said' = said
           \/ \E s \in Saying : said' = Append(said, s) /\ Len(said) < MaxLines,
           chals' \subseteq chals, texts' = texts \/ texts' = texts + 1,
           UNCHANGED <<pinsVars, readerVars, held, reply_mode, outstanding, written, nickOf,
                       moves, history, pacerDead>>
    PROVE  Known'
<1>1. toBot \in Seq(WireLine)
  BY DEF Known, TypeOK, WireLine, PlainLine, TextLine, AckLine
<1>2. /\ toBot' \in Seq(WireLine) /\ Len(toBot) \in Nat /\ DOMAIN toBot = 1 .. Len(toBot)
      /\ DOMAIN toBot' = 1 .. Len(toBot) + 1
      /\ \A i \in DOMAIN toBot : toBot'[i] = toBot[i]
      /\ toBot'[Len(toBot) + 1] = l
  <2>1. toBot' = Append(toBot, l) /\ l \in WireLine
    OBVIOUS
  <2>2. QED
    BY ONLY <1>1, <2>1, OneMore
<1>3. /\ said \in Seq(Saying) /\ Len(said) \in Nat /\ Len(said) <= MaxLines /\ MaxLines \in Nat
  <2>1. said \in Seq(Saying)
    BY DEF Known, TypeOK, Saying
  <2>2. Len(said) <= MaxLines
    BY DEF Known, LinesKnown
  <2>3. QED
    BY <2>1, <2>2, OrderAssumption
<1>4. /\ said' \in Seq(Saying) /\ Len(said') <= MaxLines /\ Spoken \subseteq Spoken'
      /\ \A k \in Spoken : said'[k] = said[k]
  <2>1. CASE said' = said
    BY <1>3, <2>1 DEF Spoken
  <2>2. ASSUME NEW s \in Saying, said' = Append(said, s), Len(said) < MaxLines
        PROVE  /\ said' \in Seq(Saying) /\ Len(said') <= MaxLines /\ Spoken \subseteq Spoken'
               /\ \A k \in Spoken : said'[k] = said[k]
    BY <1>3, <2>2, AppendProperties DEF Spoken
  <2>3. QED
    BY <2>1, <2>2
<1>5. TypeOK'
  <2>1. toBot' \in Seq([kind : {"plain"}, line : Line] \cup [kind : {"text"}, nick : Nick, by : Person]
                       \cup [kind : {"ack"}, nick : Nick, by : Person, line : Line])
    BY <1>2 DEF WireLine, PlainLine, TextLine, AckLine
  <2>2. said' \in Seq([nick : Nick, by : Person, form : {"pm", "order", "chatter"}])
    BY <1>4 DEF Saying
  <2>3. QED
    BY <2>1, <2>2 DEF Known, TypeOK, pinsVars, readerVars, history
<1>6. \A i \in DOMAIN toBot' :
          /\ toBot'[i].kind \in {"plain", "ack"} => toBot'[i].line \in Spoken'
          /\ toBot'[i].kind = "ack" => said'[toBot'[i].line].by = toBot'[i].by
  <2>1. ASSUME NEW i \in DOMAIN toBot, NEW m, m = toBot[i]
        PROVE  /\ m.kind \in {"plain", "ack"} => m.line \in Spoken'
               /\ m.kind = "ack" => said'[m.line].by = m.by
    BY <1>4, <2>1 DEF Known, LinesKnown
  <2>2. \A i \in DOMAIN toBot' : i \in DOMAIN toBot \/ i = Len(toBot) + 1
    BY <1>2
  <2>3. QED
    BY <1>2, <2>1, <2>2
<1>7. LinesKnown'
  <2>1. \A n \in Nick : \A i \in DOMAIN dm_held'[n] :
          dm_held'[n][i] \in Spoken' /\ said'[dm_held'[n][i]].nick = n
    BY <1>4 DEF Known, LinesKnown, readerVars
  <2>2. /\ \A i \in DOMAIN hand' : hand'[i].line \in Spoken' /\ gated'[hand'[i].line] = NoKey
        /\ \A i \in DOMAIN flushing' : flushing'[i] \in Spoken'
        /\ held' \subseteq Spoken'
        /\ \A o \in outstanding' : o.line \in Spoken'
    BY <1>4 DEF Known, LinesKnown, readerVars, history
  <2>3. QED
    BY <1>4, <1>6, <2>1, <2>2 DEF LinesKnown
<1>8. QED
  BY <1>5, <1>7 DEF Known

\* What users say, in plain or encrypted, and what their clients answer.
LEMMA PeersKnown ==
    ASSUME Known, NEW p \in Person,
           SayEncrypted(p) \/ ClientAcks(p) \/ \E form \in {"pm", "order", "chatter"} : Say(p, form)
    PROVE  Known'
<1> USE DEF pinsVars, readerVars, bridgeVars, peerVars, history
<1>0. nickOf[p] # NoNick /\ nickOf[p] \in Nick
  BY DEF SayEncrypted, ClientAcks, Say, Known, TypeOK
<1>1. CASE SayEncrypted(p)
  <2> DEFINE l == [kind |-> "text", nick |-> nickOf[p], by |-> p]
  <2>1. l \in WireLine /\ l.kind = "text"
    BY <1>0 DEF WireLine, TextLine
  <2>2. toBot' = Append(toBot, l)
    BY <1>1 DEF SayEncrypted
  <2> HIDE DEF l
  <2>3. /\ said' = said /\ chals' \subseteq chals /\ texts' = texts + 1
        /\ UNCHANGED <<pinsVars, readerVars, held, reply_mode, outstanding, written, nickOf,
                       moves, history, pacerDead>>
    BY <1>1 DEF SayEncrypted
  <2>4. QED
    BY <2>1, <2>2, <2>3, WireGrowsKnown
<1>2. CASE ClientAcks(p)
  <2>1. PICK o \in outstanding :
           /\ o.key = p /\ o.line \in chals /\ said[o.line].by = p
           /\ chals' = chals \ {o.line}
           /\ toBot' = Append(toBot, [kind |-> "ack", nick |-> nickOf[p], by |-> p, line |-> o.line])
    BY <1>2 DEF ClientAcks
  <2> DEFINE l == [kind |-> "ack", nick |-> nickOf[p], by |-> p, line |-> o.line]
  <2>2. o.line \in Spoken /\ o.line \in Line
    BY <2>1 DEF Known, LinesKnown, TypeOK
  <2>3. l \in WireLine /\ l.kind = "ack" /\ l.line = o.line /\ l.by = p
    BY <1>0, <2>2 DEF WireLine, AckLine
  <2>4. toBot' = Append(toBot, l)
    BY <2>1
  <2> HIDE DEF l
  <2>5. /\ said' = said /\ chals' \subseteq chals /\ texts' = texts
        /\ UNCHANGED <<pinsVars, readerVars, held, reply_mode, outstanding, written, nickOf,
                       moves, history, pacerDead>>
    BY <1>2, <2>1 DEF ClientAcks
  <2>6. Spoken' = Spoken
    BY <2>5 DEF Spoken
  <2>7. QED
    BY <2>1, <2>2, <2>3, <2>4, <2>5, <2>6, WireGrowsKnown
<1>3. ASSUME NEW form \in {"pm", "order", "chatter"}, Say(p, form)
      PROVE  Known'
  <2> DEFINE l == [kind |-> "plain", line |-> Len(said) + 1]
             s == [nick |-> nickOf[p], by |-> p, form |-> form]
  <2>1. said \in Seq(Saying) /\ Len(said) < MaxLines /\ MaxLines \in Nat
    BY <1>3, OrderAssumption DEF Say, Known, TypeOK, Saying
  <2>2. l \in WireLine /\ l.kind = "plain" /\ l.line = Len(said) + 1
    BY <2>1 DEF WireLine, PlainLine, Line
  <2>3. toBot' = Append(toBot, l) /\ said' = Append(said, s)
    BY <1>3 DEF Say
  <2>4. s \in Saying
    BY <1>0, <1>3 DEF Saying
  <2> HIDE DEF l, s
  <2>5. Len(said) + 1 \in Spoken'
    BY <2>1, <2>3, <2>4, AppendProperties DEF Spoken
  <2>6. /\ chals' \subseteq chals /\ texts' = texts
        /\ UNCHANGED <<pinsVars, readerVars, held, reply_mode, outstanding, written, nickOf,
                       moves, history, pacerDead>>
    BY <1>3 DEF Say
  <2>7. QED
    BY <2>1, <2>2, <2>3, <2>4, <2>5, <2>6, WireGrowsKnown
<1>4. QED
  BY <1>1, <1>2, <1>3

-----------------------------------------------------------------------------
(* The reader's steps, and the ticker's.                                   *)

\* The parts of TypeOK that a line read or expired can change.
LinesTyped ==
    /\ hand \in Seq(Held) /\ Len(hand) <= 1
    /\ flushing \in Seq(Line) /\ dm_held \in [Nick -> Seq(Line)]
    /\ held \subseteq Line /\ chals \subseteq Line
    /\ reply_mode \in [Nick -> {"off", "fresh", "old"}]
    /\ outstanding \subseteq [line : Line, key : Person] /\ written \subseteq Person
    /\ toBot \in Seq(WireLine)
    /\ gated \in [Line -> Person \cup {NoKey}]
    /\ ends \in [Line -> Seq({"TRUSTED", "UNTRUSTED", "DROPPED"})]
    /\ last \in [Nick -> {"none", "plain", "encrypted", "lapsed"}]

\* The types of what a line read or expired can change.
LEMMA KnownTyped ==
    ASSUME Known
    PROVE  LinesTyped
<1> USE DEF Known, TypeOK
<1>1. hand \in Seq(Held) /\ Len(hand) <= 1 /\ flushing \in Seq(Line) /\ dm_held \in [Nick -> Seq(Line)]
  BY DEF Held
<1>2. toBot \in Seq(WireLine)
  BY DEF WireLine, PlainLine, TextLine, AckLine
<1>3. QED
  BY <1>1, <1>2 DEF LinesTyped

\* Those are all that such a step has to keep.
LEMMA TypedKnown ==
    ASSUME Known, UNCHANGED <<pinsVars, peerVars, pacerDead>>, LinesTyped', LinesKnown'
    PROVE  Known'
<1>1. /\ hand' \in Seq([line : Line, next : {"layer1", "release"}])
      /\ toBot' \in Seq([kind : {"plain"}, line : Line] \cup [kind : {"text"}, nick : Nick, by : Person]
                       \cup [kind : {"ack"}, nick : Nick, by : Person, line : Line])
  BY DEF LinesTyped, Held, WireLine, PlainLine, TextLine, AckLine
<1>2. QED
  BY <1>1 DEF Known, TypeOK, LinesTyped, pinsVars, peerVars

\* The wire behind the line read.
LEMMA ReadLeaves ==
    ASSUME Known, NEW kind, Reads(kind), said' = said
    PROVE  \A i \in DOMAIN toBot' :
              /\ toBot'[i].kind \in {"plain", "ack"} => toBot'[i].line \in Spoken'
              /\ toBot'[i].kind = "ack" => said'[toBot'[i].line].by = toBot'[i].by
<1>1. ASSUME NEW i \in DOMAIN toBot', NEW m, m = toBot'[i]
      PROVE  /\ m.kind \in {"plain", "ack"} => m.line \in Spoken'
             /\ m.kind = "ack" => said'[m.line].by = m.by
  BY <1>1, Wire DEF Known, LinesKnown, Spoken
<1>2. QED
  BY <1>1

\* A sequence of one.
LEMMA Single ==
    ASSUME NEW T, NEW x \in T, NEW t, t = <<x>>
    PROVE  t \in Seq(T) /\ Len(t) = 1 /\ DOMAIN t = {1} /\ t[1] = x
  OBVIOUS

\* The empty sequence.
LEMMA Empty ==
    ASSUME NEW T, NEW t, t = << >>
    PROVE  t \in Seq(T) /\ Len(t) = 0 /\ DOMAIN t = {}
  OBVIOUS

\* What the gate of the pins does to a line: it lets it on, to layer 1 or to its
\* release; or it ends it; or it holds it and asks its key.
LetOn(l, next) ==
    /\ hand' = <<[line |-> l, next |-> next]>> /\ gated'[l] = NoKey
    /\ UNCHANGED <<held, outstanding, chals, ends>>

EndedThere(l) ==
    hand' = hand /\ Ends(l, "UNTRUSTED") /\ UNCHANGED <<held, outstanding, chals>>

Challenged(l) ==
    /\ hand' = hand /\ gated'[l] \in Person /\ held' = held \cup {l} /\ UNCHANGED ends
    /\ outstanding' = outstanding \cup {[line |-> l, key |-> gated'[l]]}
    /\ chals' \subseteq chals \cup {l}

\* The three outcomes of the gate, and their types.
LEMMA GateKnown ==
    ASSUME Known, NEW l \in Spoken, NEW next \in {"layer1", "release"},
           GatePlaintext(l, next)
    PROVE  /\ gated' \in [Line -> Person \cup {NoKey}]
           /\ gated'[l] = pins[said[l].nick] /\ \A k \in Line : k # l => gated'[k] = gated[k]
           /\ hand' \in Seq(Held) /\ Len(hand') <= 1
           /\ ends' \in [Line -> Seq({"TRUSTED", "UNTRUSTED", "DROPPED"})]
           /\ LetOn(l, next) \/ EndedThere(l) \/ Challenged(l)
<1>1. l \in Line /\ said[l].nick \in Nick
  BY SpokenLine
<1>2. pins \in [Nick -> Person \cup {NoKey}] /\ gated \in [Line -> Person \cup {NoKey}]
      /\ ends \in [Line -> Seq({"TRUSTED", "UNTRUSTED", "DROPPED"})]
  BY OrderAssumption DEF Known, TypeOK
<1>3. pins[said[l].nick] \in Person \cup {NoKey}
  BY <1>1, <1>2
<1>4. gated' = [gated EXCEPT ![l] = pins[said[l].nick]]
  BY DEF GatePlaintext
<1>5. /\ gated' \in [Line -> Person \cup {NoKey}]
      /\ gated'[l] = pins[said[l].nick] /\ \A k \in Line : k # l => gated'[k] = gated[k]
  BY <1>1, <1>2, <1>3, <1>4
<1>6. LetOn(l, next) \/ EndedThere(l) \/ Challenged(l)
  <2>1. CASE pins[said[l].nick] = NoKey
    BY <1>5, <2>1 DEF GatePlaintext, LetOn
  <2>2. CASE pins[said[l].nick] # NoKey /\ said[l].form = "chatter"
    BY <2>2 DEF GatePlaintext, EndedThere
  <2>3. CASE pins[said[l].nick] # NoKey /\ said[l].form # "chatter"
    <3>1. hand' = hand /\ Challenge(l) /\ UNCHANGED ends
      BY <2>3 DEF GatePlaintext
    <3>2. gated'[l] \in Person
      BY <1>3, <1>5, <2>3
    <3>3. /\ held' = held \cup {l}
          /\ outstanding' = outstanding \cup {[line |-> l, key |-> gated'[l]]}
          /\ chals' \subseteq chals \cup {l}
      BY <1>5, <3>1 DEF Challenge
    <3>4. QED
      BY <3>1, <3>2, <3>3 DEF Challenged
  <2>4. QED
    BY <2>1, <2>2, <2>3
<1>7. ASSUME NEW r, r = [line |-> l, next |-> next], hand' = <<r>>
      PROVE  hand' \in Seq(Held) /\ Len(hand') <= 1
  <2>1. r \in Held
    BY <1>1, <1>7 DEF Held
  <2>2. hand' \in Seq(Held) /\ Len(hand') = 1
    BY <1>7, <2>1, Single
  <2>3. QED
    BY <2>2
<1>8. hand' \in Seq(Held) /\ Len(hand') <= 1
  <2>1. hand' = hand \/ hand' = <<[line |-> l, next |-> next]>>
    BY <1>6 DEF LetOn, EndedThere, Challenged
  <2>2. hand \in Seq(Held) /\ Len(hand) <= 1
    BY KnownTyped DEF LinesTyped
  <2>3. QED
    BY <1>7, <2>1, <2>2
<1>9. ends' \in [Line -> Seq({"TRUSTED", "UNTRUSTED", "DROPPED"})]
  BY <1>1, <1>2, <1>6, EndsType DEF LetOn, EndedThere, Challenged
<1>10. QED
  BY <1>5, <1>6, <1>8, <1>9

\* The lines stay known when one is gated.
LEMMA GatedKnown ==
    ASSUME Known, NEW l \in Spoken, NEW next \in {"layer1", "release"},
           GatePlaintext(l, next), said' = said, Len(hand) = 0
    PROVE  /\ \A i \in DOMAIN hand' : hand'[i].line \in Spoken' /\ gated'[hand'[i].line] = NoKey
           /\ held' \subseteq Spoken' /\ held' \subseteq Line /\ chals' \subseteq Line
           /\ outstanding' \subseteq [line : Line, key : Person]
           /\ \A o \in outstanding' : o.line \in Spoken'
<1>1. Spoken' = Spoken /\ l \in Line
  BY SpokenLine DEF Spoken
<1>2. /\ held \subseteq Spoken /\ held \subseteq Line /\ chals \subseteq Line
      /\ outstanding \subseteq [line : Line, key : Person] /\ \A o \in outstanding : o.line \in Spoken
  BY KnownTyped DEF Known, LinesKnown, LinesTyped
<1>7. hand \in Seq(Held)
  BY KnownTyped DEF LinesTyped
<1>8. \A i \in DOMAIN hand : FALSE
  BY <1>7
<1>9. ASSUME NEW r, r = [line |-> l, next |-> next], hand' = <<r>>, gated'[l] = NoKey
      PROVE  \A i \in DOMAIN hand' : hand'[i].line \in Spoken' /\ gated'[hand'[i].line] = NoKey
  <2>1. r \in Held /\ r.line = l
    BY <1>1, <1>9 DEF Held
  <2>2. DOMAIN hand' = {1} /\ hand'[1] = r
    BY <1>9, <2>1, Single
  <2>3. QED
    BY <1>1, <1>9, <2>1, <2>2
<1>3. \A i \in DOMAIN hand' : hand'[i].line \in Spoken' /\ gated'[hand'[i].line] = NoKey
  <2>1. LetOn(l, next) \/ EndedThere(l) \/ Challenged(l)
    BY GateKnown
  <2>2. CASE EndedThere(l) \/ Challenged(l)
    <3>1. hand' = hand
      BY <2>2 DEF EndedThere, Challenged
    <3>2. QED
      BY <1>8, <3>1
  <2>3. CASE LetOn(l, next)
    <3>1. hand' = <<[line |-> l, next |-> next]>> /\ gated'[l] = NoKey
      BY <2>3 DEF LetOn
    <3>2. QED
      BY <1>9, <3>1
  <2>4. QED
    BY <2>1, <2>2, <2>3
<1>4. /\ held' \subseteq held \cup {l} /\ chals' \subseteq chals \cup {l}
      /\ \/ outstanding' = outstanding
         \/ gated'[l] \in Person /\ outstanding' = outstanding \cup {[line |-> l, key |-> gated'[l]]}
  <2>1. LetOn(l, next) \/ EndedThere(l) \/ Challenged(l)
    BY GateKnown
  <2>2. CASE LetOn(l, next) \/ EndedThere(l)
    BY <2>2 DEF LetOn, EndedThere
  <2>3. CASE Challenged(l)
    BY <2>3 DEF Challenged
  <2>4. QED
    BY <2>1, <2>2, <2>3
<1>5. /\ outstanding' \subseteq [line : Line, key : Person]
      /\ \A o \in outstanding' : o.line \in Spoken'
  <2>1. CASE outstanding' = outstanding
    BY <1>1, <1>2, <2>1
  <2>2. ASSUME gated'[l] \in Person, outstanding' = outstanding \cup {[line |-> l, key |-> gated'[l]]}
        PROVE  /\ outstanding' \subseteq [line : Line, key : Person]
               /\ \A o \in outstanding' : o.line \in Spoken'
    <3> DEFINE r == [line |-> l, key |-> gated'[l]]
    <3>1. r \in [line : Line, key : Person] /\ r.line = l
      BY <1>1, <2>2
    <3>2. outstanding' = outstanding \cup {r}
      BY <2>2
    <3> HIDE DEF r
    <3>3. QED
      BY <1>1, <1>2, <3>1, <3>2
  <2>3. QED
    BY <1>4, <2>1, <2>2
<1>6. QED
  BY <1>1, <1>2, <1>3, <1>4, <1>5

\* A plain line is read.
LEMMA ReadPlainKnown ==
    ASSUME Known, ReadPlain
    PROVE  Known'
<1> DEFINE l == Head(toBot).line
<1>1. Reads("plain") /\ GatePlaintext(l, "layer1")
      /\ UNCHANGED <<pinsVars, flushing, dm_held, reply_mode, written, peerVars, last, pacerDead>>
  BY DEF ReadPlain
<1>2. l \in Spoken /\ toBot' \in Seq(WireLine) /\ said' = said /\ Len(hand) = 0
  BY <1>1, Wire DEF peerVars, Reads, Reading
<1> HIDE DEF l
<1>3. LinesTyped'
  BY <1>1, <1>2, KnownTyped, GateKnown, GatedKnown DEF LinesTyped
<1>4. LinesKnown'
  BY <1>1, <1>2, GatedKnown, ReadLeaves DEF Known, LinesKnown, Spoken
<1>5. QED
  BY <1>1, <1>3, <1>4, TypedKnown

\* A parked line is looked at again.
LEMMA FlushOneKnown ==
    ASSUME Known, FlushOne
    PROVE  Known'
<1> DEFINE l == Head(flushing)
<1>1. flushing # << >> /\ flushing' = Tail(flushing) /\ GatePlaintext(l, "release")
      /\ Len(hand) = 0
      /\ UNCHANGED <<pinsVars, dm_held, reply_mode, written, peerVars, last, toBot, pacerDead>>
  BY DEF FlushOne
<1>2. flushing \in Seq(Line)
  BY DEF Known, TypeOK
<1>3. /\ flushing' \in Seq(Line) /\ l = flushing[1] /\ 1 \in DOMAIN flushing
      /\ \A i \in DOMAIN flushing' : i + 1 \in DOMAIN flushing /\ flushing'[i] = flushing[i + 1]
  BY <1>1, <1>2, HeadTailProperties
<1>4. l \in Spoken /\ said' = said
  BY <1>1, <1>3 DEF Known, LinesKnown, peerVars
<1> HIDE DEF l
<1>5. LinesTyped'
  BY <1>1, <1>3, <1>4, KnownTyped, GateKnown, GatedKnown DEF LinesTyped
<1>6. LinesKnown'
  <2>1. Spoken' = Spoken
    BY <1>4 DEF Spoken
  <2>2. \A i \in DOMAIN flushing' : flushing'[i] \in Spoken
    BY <1>3 DEF Known, LinesKnown
  <2>3. /\ \A i \in DOMAIN hand' : hand'[i].line \in Spoken' /\ gated'[hand'[i].line] = NoKey
        /\ held' \subseteq Spoken' /\ \A o \in outstanding' : o.line \in Spoken'
    BY <1>1, <1>4, GatedKnown
  <2>4. QED
    BY <1>1, <1>4, <2>1, <2>2, <2>3 DEF Known, LinesKnown
<1>7. QED
  BY <1>1, <1>5, <1>6, TypedKnown

\* Layer 1 gives its verdict.
LEMMA LayerOneKnown ==
    ASSUME Known, LayerOne
    PROVE  Known'
<1> DEFINE l == hand[1].line
<1>1. /\ hand # << >> /\ hand' = << >>
      /\ UNCHANGED <<pinsVars, flushing, held, outstanding, written, chals, peerVars, gated, toBot,
                     pacerDead>>
      /\ \/ Released(l) /\ UNCHANGED dm_held
         \/ DmHold(l) /\ UNCHANGED <<reply_mode, last>>
         \/ Ends(l, "DROPPED") /\ UNCHANGED <<dm_held, reply_mode, last>>
         \/ Ends(l, "UNTRUSTED") /\ UNCHANGED <<dm_held, reply_mode, last>>
  BY DEF LayerOne
<1>2. l \in Spoken /\ l \in Line
  BY <1>1, Hand, SpokenLine
<1> HIDE DEF l
<1>3. /\ ends' \in [Line -> Seq({"TRUSTED", "UNTRUSTED", "DROPPED"})]
      /\ reply_mode' \in [Nick -> {"off", "fresh", "old"}]
      /\ last' \in [Nick -> {"none", "plain", "encrypted", "lapsed"}]
      /\ dm_held' \in [Nick -> Seq(Line)]
      /\ \A n \in Nick : \A i \in DOMAIN dm_held'[n] :
            dm_held'[n][i] \in Spoken /\ said[dm_held'[n][i]].nick = n
  <2>1. CASE Released(l) /\ UNCHANGED dm_held
    BY <1>2, <2>1, ReleasedType, KnownTyped DEF LinesTyped, Known, LinesKnown
  <2>2. CASE DmHold(l) /\ UNCHANGED <<reply_mode, last>>
    BY <1>2, <2>2, DmHoldType, KnownTyped DEF LinesTyped
  <2>3. CASE (Ends(l, "DROPPED") \/ Ends(l, "UNTRUSTED")) /\ UNCHANGED <<dm_held, reply_mode, last>>
    BY <1>2, <2>3, EndsType, KnownTyped DEF LinesTyped, Known, LinesKnown
  <2>4. QED
    BY <1>1, <2>1, <2>2, <2>3
<1>4. LinesTyped'
  <2>1. LinesTyped /\ hand' \in Seq(Held) /\ Len(hand') <= 1
    BY <1>1, KnownTyped
  <2>2. QED
    BY <1>1, <1>3, <2>1 DEF LinesTyped
<1>5. LinesKnown'
  <2>1. DOMAIN hand' = {}
    BY <1>1
  <2>2. Spoken' = Spoken /\ said' = said
    BY <1>1 DEF Spoken, peerVars
  <2>3. QED
    BY <1>1, <1>3, <2>1, <2>2 DEF Known, LinesKnown
<1>6. QED
  BY <1>1, <1>4, <1>5, TypedKnown

\* A parked line is released.
LEMMA FlushReleasesKnown ==
    ASSUME Known, FlushReleases
    PROVE  Known'
<1> DEFINE l == hand[1].line
<1>1. /\ hand # << >> /\ hand' = << >> /\ Released(l)
      /\ UNCHANGED <<pinsVars, flushing, dm_held, held, outstanding, written, chals, peerVars, gated,
                     toBot, pacerDead>>
  BY DEF FlushReleases
<1>2. l \in Spoken
  BY <1>1, Hand
<1> HIDE DEF l
<1>3. LinesTyped'
  <2>1. LinesTyped /\ hand' \in Seq(Held) /\ Len(hand') <= 1
    BY <1>1, KnownTyped
  <2>2. /\ ends' \in [Line -> Seq({"TRUSTED", "UNTRUSTED", "DROPPED"})]
        /\ reply_mode' \in [Nick -> {"off", "fresh", "old"}]
        /\ last' \in [Nick -> {"none", "plain", "encrypted", "lapsed"}]
    BY <1>1, <1>2, ReleasedType
  <2>3. QED
    BY <1>1, <2>1, <2>2 DEF LinesTyped
<1>4. LinesKnown'
  <2>1. DOMAIN hand' = {}
    BY <1>1
  <2>2. Spoken' = Spoken /\ said' = said
    BY <1>1 DEF Spoken, peerVars
  <2>3. QED
    BY <1>1, <2>1, <2>2 DEF Known, LinesKnown
<1>5. QED
  BY <1>1, <1>3, <1>4, TypedKnown

\* The queue of a nick is popped.
LEMMA DmFlushKnown ==
    ASSUME Known, NEW n \in Nick, DmFlush(n)
    PROVE  Known'
<1>1. /\ dm_held' = [dm_held EXCEPT ![n] = << >>] /\ hand' = hand
      /\ \/ flushing' = dm_held[n] /\ UNCHANGED ends
         \/ /\ ends' = [l \in Line |-> IF Contains(dm_held[n], l) THEN Append(ends[l], "DROPPED")
                                        ELSE ends[l]]
            /\ UNCHANGED flushing
      /\ UNCHANGED <<pinsVars, bridgeVars, peerVars, gated, last, toBot, pacerDead>>
  BY DEF DmFlush
<1>2. /\ dm_held \in [Nick -> Seq(Line)] /\ flushing \in Seq(Line)
      /\ ends \in [Line -> Seq({"TRUSTED", "UNTRUSTED", "DROPPED"})]
  BY DEF Known, TypeOK
<1>3. /\ dm_held' \in [Nick -> Seq(Line)] /\ dm_held'[n] = << >>
      /\ \A m \in Nick : m # n => dm_held'[m] = dm_held[m]
  BY <1>1, <1>2
<1>4. ends' \in [Line -> Seq({"TRUSTED", "UNTRUSTED", "DROPPED"})]
  <2>1. \A l \in Line : Append(ends[l], "DROPPED") \in Seq({"TRUSTED", "UNTRUSTED", "DROPPED"})
    BY <1>2, AppendProperties
  <2>2. QED
    BY <1>1, <1>2, <2>1
<1>5. flushing' \in Seq(Line) /\ \A i \in DOMAIN flushing' : flushing'[i] \in Spoken
  BY <1>1, <1>2 DEF Known, LinesKnown
<1>6. LinesTyped'
  BY <1>1, <1>3, <1>4, <1>5, KnownTyped DEF LinesTyped, bridgeVars
<1>7. \A m \in Nick : \A i \in DOMAIN dm_held'[m] :
            dm_held'[m][i] \in Spoken /\ said[dm_held'[m][i]].nick = m
  <2>1. DOMAIN << >> = {}
    OBVIOUS
  <2>2. QED
    BY <1>3, <2>1 DEF Known, LinesKnown
<1>8. LinesKnown'
  BY <1>1, <1>5, <1>7 DEF Known, LinesKnown, Spoken, peerVars, bridgeVars
<1>9. QED
  BY <1>1, <1>6, <1>8, TypedKnown

\* An encrypted message is read: no line is touched.
LEMMA ReadTextKnown ==
    ASSUME Known, ReadText
    PROVE  Known'
<1> DEFINE m == Head(toBot)
<1>1. Reads("text") /\ written' = (IF Heard(m) THEN written \cup {m.by} ELSE written)
      /\ \/ reply_mode' = [reply_mode EXCEPT ![m.nick] = "fresh"]
            /\ last' = [last EXCEPT ![m.nick] = "encrypted"]
         \/ UNCHANGED <<reply_mode, last>>
      /\ UNCHANGED <<pinsVars, readerVars, held, outstanding, chals, peerVars, gated, ends, pacerDead>>
  BY DEF ReadText
<1>2. m \in TextLine /\ toBot' \in Seq(WireLine) /\ said' = said
  BY <1>1, Wire DEF peerVars
<1>3. m.by \in Person
  BY <1>2 DEF TextLine
<1> HIDE DEF m
<1>4. LinesTyped'
  <2>1. LinesTyped
    BY KnownTyped
  <2>2. written' \subseteq Person
    BY <1>1, <1>3, <2>1 DEF LinesTyped
  <2>3. /\ reply_mode' \in [Nick -> {"off", "fresh", "old"}]
        /\ last' \in [Nick -> {"none", "plain", "encrypted", "lapsed"}]
    BY <1>1, <2>1 DEF LinesTyped
  <2>4. QED
    BY <1>1, <1>2, <2>1, <2>2, <2>3 DEF LinesTyped, readerVars
<1>5. LinesKnown'
  BY <1>1, <1>2, ReadLeaves DEF Known, LinesKnown, Spoken, readerVars
<1>6. QED
  BY <1>1, <1>4, <1>5, TypedKnown

\* An ACK is read: what it leaves is some of what there was, and at most the
\* line answered ends.
LEMMA ReadAckKnown ==
    ASSUME Known, ReadAck
    PROVE  Known'
<1> DEFINE m == Head(toBot)
           l == m.line
<1>1. Reads("ack") /\ outstanding' \subseteq outstanding
      /\ \/ held' = held \ {l} /\ Released(l)
         \/ UNCHANGED <<held, ends, reply_mode, last>>
      /\ UNCHANGED <<pinsVars, readerVars, written, chals, peerVars, gated, pacerDead>>
  BY DEF ReadAck, Release
<1>2. l \in Spoken /\ toBot' \in Seq(WireLine) /\ said' = said
  BY <1>1, Wire DEF peerVars
<1> HIDE DEF m, l
<1>3. /\ held' \subseteq held
      /\ ends' \in [Line -> Seq({"TRUSTED", "UNTRUSTED", "DROPPED"})]
      /\ reply_mode' \in [Nick -> {"off", "fresh", "old"}]
      /\ last' \in [Nick -> {"none", "plain", "encrypted", "lapsed"}]
  BY <1>1, <1>2, ReleasedType, KnownTyped DEF LinesTyped
<1>4. LinesTyped'
  BY <1>1, <1>2, <1>3, KnownTyped DEF LinesTyped, readerVars
<1>5. LinesKnown'
  BY <1>1, <1>2, <1>3, ReadLeaves DEF Known, LinesKnown, Spoken, readerVars
<1>6. QED
  BY <1>1, <1>4, <1>5, TypedKnown

\* A challenge expires.
\* A challenge is over: its line ends if it is held, unless dispatch raises.
LEMMA Expires ==
    ASSUME TickExpires
    PROVE  \E o \in outstanding :
              /\ outstanding' = outstanding \ {o}
              /\ \/ o.line \in held /\ held' = held \ {o.line} /\ Ends(o.line, Unconfirmed(o.line))
                 \/ held' = held /\ UNCHANGED ends
<1>1. PICK o \in outstanding :
         /\ outstanding' = outstanding \ {o}
         /\ \/ /\ held' = held \ {o.line}
               /\ IF o.line \in held THEN Ends(o.line, Unconfirmed(o.line)) ELSE UNCHANGED ends
            \/ UNCHANGED <<held, ends>>
  BY DEF TickExpires
<1>2. o.line \notin held => held \ {o.line} = held
  OBVIOUS
<1>3. QED
  BY <1>1, <1>2

LEMMA TickExpiresKnown ==
    ASSUME Known, TickExpires
    PROVE  Known'
<1>1. PICK o \in outstanding :
         /\ outstanding' = outstanding \ {o}
         /\ \/ held' = held \ {o.line} /\ Ends(o.line, Unconfirmed(o.line))
            \/ held' = held /\ UNCHANGED ends
  BY Expires
<1>2. UNCHANGED <<pinsVars, readerVars, reply_mode, written, chals, peerVars, gated, last, toBot,
                   pacerDead>>
  BY DEF TickExpires
<1>3. o.line \in Line /\ Unconfirmed(o.line) \in {"TRUSTED", "UNTRUSTED", "DROPPED"}
  BY SpokenLine DEF Unconfirmed, Known, LinesKnown
<1>4. ends' \in [Line -> Seq({"TRUSTED", "UNTRUSTED", "DROPPED"})]
  BY <1>1, <1>3, EndsType, KnownTyped DEF LinesTyped
<1>5. LinesTyped'
  BY <1>1, <1>2, <1>4, KnownTyped DEF LinesTyped, readerVars
<1>6. LinesKnown'
  BY <1>1, <1>2 DEF Known, LinesKnown, Spoken, readerVars, peerVars
<1>7. QED
  BY <1>2, <1>5, <1>6, TypedKnown

\* It all holds at first.
LEMMA KnownInit ==
    ASSUME Init
    PROVE  Known
<1>1. TypeOK
  <2>1. file \in [pins : Pins, ok : BOOLEAN] /\ pins \in Pins
    BY DEF Init
  <2>2. /\ fileSig = 0 /\ sig = 0 /\ lock = << >>
        /\ hand \in Seq(Held) /\ Len(hand) <= 1 /\ flushing \in Seq(Line)
        /\ said \in Seq(Saying) /\ toBot \in Seq(WireLine)
    BY DEF Init
  <2>3. /\ dm_held \in [Nick -> Seq(Line)]
        /\ ends \in [Line -> Seq({"TRUSTED", "UNTRUSTED", "DROPPED"})]
    BY DEF Init
  <2>4. /\ held \subseteq Line /\ chals \subseteq Line
        /\ reply_mode \in [Nick -> {"off", "fresh", "old"}]
        /\ outstanding \subseteq [line : Line, key : Person]
        /\ written \subseteq Person /\ pacerDead \in BOOLEAN
        /\ nickOf \in [Person -> Nick \cup {NoNick}]
        /\ gated \in [Line -> Person \cup {NoKey}]
        /\ last \in [Nick -> {"none", "plain", "encrypted", "lapsed"}]
    BY OrderAssumption DEF Init
  <2>5. /\ hand \in Seq([line : Line, next : {"layer1", "release"}])
        /\ said \in Seq([nick : Nick, by : Person, form : {"pm", "order", "chatter"}])
        /\ toBot \in Seq([kind : {"plain"}, line : Line] \cup [kind : {"text"}, nick : Nick, by : Person]
                         \cup [kind : {"ack"}, nick : Nick, by : Person, line : Line])
    BY <2>2 DEF Held, Saying, WireLine, PlainLine, TextLine, AckLine
  <2>6. QED
    BY <2>1, <2>2, <2>3, <2>4, <2>5 DEF TypeOK
<1>2. LinesKnown
  <2>1. Len(said) = 0 /\ MaxLines \in Nat
    BY OrderAssumption DEF Init
  <2>2. DOMAIN toBot = {} /\ DOMAIN hand = {} /\ DOMAIN flushing = {}
    BY Empty DEF Init
  <2>3. \A n \in Nick : DOMAIN dm_held[n] = {}
    BY Empty DEF Init
  <2>4. held = {} /\ outstanding = {}
    BY DEF Init
  <2>5. QED
    BY <2>1, <2>2, <2>3, <2>4 DEF LinesKnown
<1>3. QED
  BY <1>1, <1>2 DEF Known

\* Every step keeps the types and the places.
LEMMA KnownStep ==
    ASSUME Known, [Next]_vars
    PROVE  Known'
<1>1. CASE TickExpires
  BY <1>1, TickExpiresKnown
<1>2. CASE handle_server_line
  BY <1>2, ReadPlainKnown, ReadTextKnown, ReadAckKnown, LayerOneKnown, FlushOneKnown,
     FlushReleasesKnown, DmFlushKnown DEF handle_server_line
<1>3. ASSUME NEW p \in Person,
             SayEncrypted(p) \/ ClientAcks(p) \/ \E form \in {"pm", "order", "chatter"} : Say(p, form)
      PROVE  Known'
  BY <1>3, PeersKnown
<1>4. CASE \/ TickStat \/ TickRead \/ PacerDies \/ Edit
           \/ (\E n \in Nick : HourPasses(n)) \/ (\E p \in Person : Move(p))
           \/ UNCHANGED vars
  BY <1>4, AsideKnown
<1>5. QED
  BY <1>1, <1>2, <1>3, <1>4 DEF Next

\* The types of the gate and the bridge, and where each line can be.
THEOREM AlwaysKnown == Spec => []Known
<1>1. Init => Known
  BY KnownInit
<1>2. Known /\ [Next]_vars => Known'
  BY KnownStep
<1>3. QED
  BY <1>1, <1>2, PTL DEF Spec

\* The gate and the bridge keep their types.
THEOREM OrderGateTypeCorrect == Spec => []TypeOK
<1>1. Known => TypeOK
  BY DEF Known
<1>2. QED
  BY <1>1, AlwaysKnown, PTL

-----------------------------------------------------------------------------
(* The mode of the replies.                                                *)

\* The mode and the history move together whenever a line is released.
LEMMA ReleasedReply ==
    ASSUME Known, ReplyFollowsTheLastDm, NEW l \in Spoken, Released(l)
    PROVE  ReplyFollowsTheLastDm'
<1>1. said[l].nick \in Nick
  BY SpokenLine
<1>2. QED
  BY <1>1, KnownTyped DEF Released, ReplyFollowsTheLastDm, LinesTyped

\* Every step keeps the replies in step with the last private message.
LEMMA ReplyStep ==
    ASSUME Known, ReplyFollowsTheLastDm, [Next]_vars
    PROVE  ReplyFollowsTheLastDm'
<1>1. ASSUME UNCHANGED <<reply_mode, last>> PROVE ReplyFollowsTheLastDm'
  BY <1>1 DEF ReplyFollowsTheLastDm
<1>2. CASE LayerOne
  <2>1. hand[1].line \in Spoken
    BY <1>2, Hand DEF LayerOne
  <2>2. Released(hand[1].line) \/ UNCHANGED <<reply_mode, last>>
    BY <1>2 DEF LayerOne
  <2>3. QED
    BY <1>1, <2>1, <2>2, ReleasedReply
<1>3. CASE FlushReleases
  <2>1. hand[1].line \in Spoken /\ Released(hand[1].line)
    BY <1>3, Hand DEF FlushReleases
  <2>2. QED
    BY <2>1, ReleasedReply
<1>4. CASE ReadAck
  <2>1. Head(toBot).line \in Spoken
    BY <1>4, Wire DEF ReadAck
  <2>2. Released(Head(toBot).line) \/ UNCHANGED <<reply_mode, last>>
    BY <1>4 DEF ReadAck, Release
  <2>3. QED
    BY <1>1, <2>1, <2>2, ReleasedReply
<1>5. CASE ReadText
  <2>1. \/ UNCHANGED <<reply_mode, last>>
        \/ /\ reply_mode' = [reply_mode EXCEPT ![Head(toBot).nick] = "fresh"]
           /\ last' = [last EXCEPT ![Head(toBot).nick] = "encrypted"]
    BY <1>5 DEF ReadText
  <2>2. QED
    BY <1>1, <2>1, KnownTyped DEF ReplyFollowsTheLastDm, LinesTyped
<1>6. ASSUME NEW n \in Nick, HourPasses(n) PROVE ReplyFollowsTheLastDm'
  BY <1>6, KnownTyped DEF HourPasses, ReplyFollowsTheLastDm, LinesTyped
<1>7. CASE ReadPlain \/ FlushOne \/ (\E n \in Nick : DmFlush(n))
  <2>1. UNCHANGED <<reply_mode, last>>
    BY <1>7 DEF ReadPlain, FlushOne, DmFlush, bridgeVars
  <2>2. QED
    BY <1>1, <2>1
<1>8. CASE \/ TickStat \/ TickRead \/ TickExpires \/ PacerDies \/ Edit \/ UNCHANGED vars
  <2>1. UNCHANGED <<reply_mode, last>>
    BY <1>8 DEF TickStat, TickRead, TickExpires, PacerDies, Edit, vars, bridgeVars, history
  <2>2. QED
    BY <1>1, <2>1
<1>9. ASSUME NEW p \in Person, \/ SayEncrypted(p) \/ ClientAcks(p) \/ Move(p)
                               \/ \E form \in {"pm", "order", "chatter"} : Say(p, form)
      PROVE  ReplyFollowsTheLastDm'
  <2>1. UNCHANGED <<reply_mode, last>>
    BY <1>9 DEF SayEncrypted, ClientAcks, Move, Say, bridgeVars, history
  <2>2. QED
    BY <1>1, <2>1
<1>10. QED
  BY <1>2, <1>3, <1>4, <1>5, <1>6, <1>7, <1>8, <1>9 DEF Next, handle_server_line

\* The replies to a nick go encrypted just while its last private message
\* released was encrypted, less than an hour ago.
THEOREM RepliesFollowTheLastDm == Spec => []ReplyFollowsTheLastDm
<1>1. Init => ReplyFollowsTheLastDm
  BY DEF Init, ReplyFollowsTheLastDm
<1>2. Known /\ ReplyFollowsTheLastDm /\ [Next]_vars => ReplyFollowsTheLastDm'
  BY ReplyStep
<1>3. QED
  BY <1>1, <1>2, AlwaysKnown, PTL DEF Spec

-----------------------------------------------------------------------------
(* Every line once: where a line is, as counts.                            *)

OnWire(l)   == Count(toBot, {[kind |-> "plain", line |-> l]})
InHand(l)   == Count(hand, {h \in Held : h.line = l})
InFlush(l)  == Count(flushing, {l})
Parked(l)   == Count(dm_held[said[l].nick], {l})
Asked(l)    == IF l \in held THEN 1 ELSE 0
Ended(l)    == Len(ends[l])

Places(l) == OnWire(l) + InHand(l) + InFlush(l) + Parked(l) + Asked(l) + Ended(l)

\* Nothing has ended a line not said yet.
Once == /\ \A l \in Spoken : Places(l) = 1
        /\ \A l \in Line \ Spoken : Ended(l) = 0

\* The counts are numbers.
LEMMA PlacesType ==
    ASSUME Known, NEW l \in Spoken
    PROVE  /\ OnWire(l) \in Nat /\ InHand(l) \in Nat /\ InFlush(l) \in Nat
           /\ Parked(l) \in Nat /\ Asked(l) \in {0, 1} /\ Ended(l) \in Nat
<1>1. /\ toBot \in Seq(WireLine) /\ hand \in Seq(Held) /\ flushing \in Seq(Line)
      /\ dm_held \in [Nick -> Seq(Line)]
      /\ ends \in [Line -> Seq({"TRUSTED", "UNTRUSTED", "DROPPED"})]
  BY KnownTyped DEF LinesTyped
<1>2. l \in Line /\ said[l].nick \in Nick
  BY SpokenLine
<1>3. dm_held[said[l].nick] \in Seq(Line) /\ Len(ends[l]) \in Nat
  BY <1>1, <1>2
<1>4. OnWire(l) \in Nat
  BY <1>1, CountType DEF OnWire
<1>5. InHand(l) \in Nat
  BY <1>1, CountType DEF InHand
<1>6. InFlush(l) \in Nat
  BY <1>1, CountType DEF InFlush
<1>7. Parked(l) \in Nat
  BY <1>3, CountType DEF Parked
<1>8. QED
  BY <1>3, <1>4, <1>5, <1>6, <1>7 DEF Asked, Ended

\* The counts are those of EveryLineOnce.
LEMMA OnceIsEveryLineOnce ==
    ASSUME Known
    PROVE  EveryLineOnce <=> \A l \in Spoken : Places(l) = 1
<1>1. hand \in Seq(Held)
  BY KnownTyped DEF LinesTyped
<1>2. ASSUME NEW l \in Spoken
      PROVE  Places(l) = Cardinality({i \in DOMAIN toBot : toBot[i] = [kind |-> "plain", line |-> l]})
                         + Cardinality({i \in DOMAIN hand : hand[i].line = l})
                         + Cardinality({i \in DOMAIN flushing : flushing[i] = l})
                         + Cardinality({i \in DOMAIN dm_held[said[l].nick] : dm_held[said[l].nick][i] = l})
                         + Cardinality(held \cap {l}) + Len(ends[l])
  <2>1. OnWire(l) = Cardinality({i \in DOMAIN toBot : toBot[i] = [kind |-> "plain", line |-> l]})
    BY DEF OnWire, Count, Meets
  <2>2. InHand(l) = Cardinality({i \in DOMAIN hand : hand[i].line = l})
    <3>1. \A i \in DOMAIN hand : hand[i] \in {h \in Held : h.line = l} <=> hand[i].line = l
      BY <1>1
    <3>2. Meets(hand, {h \in Held : h.line = l}) = {i \in DOMAIN hand : hand[i].line = l}
      BY <3>1 DEF Meets
    <3>3. QED
      BY <3>2 DEF InHand, Count
  <2>3. InFlush(l) = Cardinality({i \in DOMAIN flushing : flushing[i] = l})
    BY DEF InFlush, Count, Meets
  <2>4. Parked(l) = Cardinality({i \in DOMAIN dm_held[said[l].nick] : dm_held[said[l].nick][i] = l})
    BY DEF Parked, Count, Meets
  <2>5. Asked(l) = Cardinality(held \cap {l})
    <3>1. CASE l \in held
      <4>1. held \cap {l} = {l}
        BY <3>1
      <4>2. QED
        BY <3>1, <4>1, FS_Singleton DEF Asked
    <3>2. CASE l \notin held
      <4>1. held \cap {l} = {}
        BY <3>2
      <4>2. QED
        BY <3>2, <4>1, FS_EmptySet DEF Asked
    <3>3. QED
      BY <3>1, <3>2
  <2>6. QED
    BY <2>1, <2>2, <2>3, <2>4, <2>5 DEF Places, Ended
<1>3. QED
  BY <1>2 DEF EveryLineOnce, Spoken

\* A sequence of no length has no element.
LEMMA NothingIn ==
    ASSUME NEW T, NEW s \in Seq(T), Len(s) = 0
    PROVE  \A i \in DOMAIN s : FALSE
  OBVIOUS

\* A line read leaves the wire.
LEMMA WireRead ==
    ASSUME Known, NEW kind, Reads(kind), NEW l
    PROVE  /\ OnWire(l)' \in Nat
           /\ OnWire(l) = OnWire(l)' + IF kind = "plain" /\ Head(toBot).line = l THEN 1 ELSE 0
<1> DEFINE p == [kind |-> "plain", line |-> l]
<1>1. toBot \in Seq(WireLine) /\ toBot' \in Seq(WireLine) /\ toBot # << >> /\ toBot' = Tail(toBot)
  BY Wire, KnownTyped DEF LinesTyped
<1>2. Head(toBot) \in {p} <=> kind = "plain" /\ Head(toBot).line = l
  BY Wire DEF PlainLine
<1> HIDE DEF p
<1>3. Count(toBot, {p}) = Count(toBot', {p}) + IF Head(toBot) \in {p} THEN 1 ELSE 0
  BY <1>1, CountTail
<1>4. Count(toBot', {p}) \in Nat
  BY <1>1, CountType
<1>5. OnWire(l) = Count(toBot, {p}) /\ OnWire(l)' = Count(toBot', {p})
  BY DEF OnWire, p
<1>6. QED
  BY <1>2, <1>3, <1>4, <1>5

\* What is added to the wire.
LEMMA WireAdded ==
    ASSUME Known, NEW m \in WireLine, toBot' = Append(toBot, m), NEW l
    PROVE  OnWire(l)' = OnWire(l) + IF m.kind = "plain" /\ m.line = l THEN 1 ELSE 0
<1> DEFINE p == [kind |-> "plain", line |-> l]
<1>1. toBot \in Seq(WireLine)
  BY KnownTyped DEF LinesTyped
<1>2. m \in {p} <=> m.kind = "plain" /\ m.line = l
  BY DEF WireLine, PlainLine, TextLine, AckLine
<1> HIDE DEF p
<1>3. Count(toBot', {p}) = Count(toBot, {p}) + IF m \in {p} THEN 1 ELSE 0
  BY <1>1, CountAppend
<1>4. OnWire(l) = Count(toBot, {p}) /\ OnWire(l)' = Count(toBot', {p})
  BY DEF OnWire, p
<1>5. QED
  BY <1>2, <1>3, <1>4

\* What the reader holds counts for its line.
LEMMA HandHolds ==
    ASSUME Known, hand # << >>, NEW l
    PROVE  InHand(l) = IF hand[1].line = l THEN 1 ELSE 0
<1> DEFINE S == {h \in Held : h.line = l}
<1>1. hand \in Seq(Held) /\ hand[1] \in Held /\ Len(hand) = 1
  BY Hand, KnownTyped DEF LinesTyped
<1>2. Head(hand) = hand[1] /\ Tail(hand) \in Seq(Held) /\ Len(Tail(hand)) = 0
  BY <1>1, HeadTailProperties
<1>3. hand[1] \in S <=> hand[1].line = l
  BY <1>1
<1> HIDE DEF S
<1>4. Count(hand, S) = Count(Tail(hand), S) + IF Head(hand) \in S THEN 1 ELSE 0
  BY <1>1, CountTail
<1>5. Count(Tail(hand), S) = 0
  <2>1. \A i \in DOMAIN Tail(hand) : FALSE
    BY <1>2, NothingIn
  <2>2. QED
    BY <1>2, <2>1, CountType
<1>6. InHand(l) = Count(hand, S)
  BY DEF InHand, S
<1>7. QED
  BY <1>2, <1>3, <1>4, <1>5, <1>6

\* An empty hand holds no line.
LEMMA HandEmpty ==
    ASSUME Known, Len(hand) = 0, NEW l
    PROVE  InHand(l) = 0
<1>1. hand \in Seq(Held)
  BY KnownTyped DEF LinesTyped
<1>2. \A i \in DOMAIN hand : FALSE
  BY <1>1
<1>3. QED
  BY <1>1, <1>2, CountType DEF InHand

\* An event counts for its line.
LEMMA EndedOne ==
    ASSUME Known, NEW k \in Line, NEW how \in {"TRUSTED", "UNTRUSTED", "DROPPED"}, Ends(k, how),
           NEW l \in Line
    PROVE  /\ Ended(l)' = Ended(l) + (IF l = k THEN 1 ELSE 0)
           /\ ends'[l] = IF l = k THEN Append(ends[l], how) ELSE ends[l]
<1>1. ends \in [Line -> Seq({"TRUSTED", "UNTRUSTED", "DROPPED"})]
  BY KnownTyped DEF LinesTyped
<1>2. ends'[l] = IF l = k THEN Append(ends[l], how) ELSE ends[l]
  BY <1>1 DEF Ends
<1>3. Len(Append(ends[l], how)) = Len(ends[l]) + 1
  BY <1>1, AppendProperties
<1>4. Len(ends[l]) \in Nat
  BY <1>1
<1>5. CASE l = k
  <2>1. Len(ends'[l]) = Len(ends[l]) + 1
    BY <1>2, <1>3, <1>5
  <2>2. QED
    BY <1>2, <1>4, <1>5, <2>1 DEF Ended
<1>6. CASE l # k
  BY <1>2, <1>4, <1>6 DEF Ended
<1>7. QED
  BY <1>5, <1>6

\* A line gated is in the hand, waits for its ACK, or has ended.
LEMMA GatedOnce ==
    ASSUME Known, NEW k \in Spoken, NEW next \in {"layer1", "release"}, GatePlaintext(k, next),
           Len(hand) = 0, k \notin held, NEW l \in Line
    PROVE  /\ InHand(l)' \in Nat /\ Asked(l)' \in Nat /\ Ended(l)' \in Nat
           /\ InHand(l)' + Asked(l)' + Ended(l)'
             = InHand(l) + Asked(l) + Ended(l) + (IF l = k THEN 1 ELSE 0)
<1>1. k \in Line /\ InHand(l) = 0 /\ Ended(l) \in Nat
  <2>1. ends[l] \in Seq({"TRUSTED", "UNTRUSTED", "DROPPED"})
    BY KnownTyped DEF LinesTyped
  <2>2. QED
    BY <2>1, SpokenLine, HandEmpty DEF Ended
<1>2. LetOn(k, next) \/ EndedThere(k) \/ Challenged(k)
  BY GateKnown
<1>3. CASE LetOn(k, next)
  <2>1. InHand(l)' = IF l = k THEN 1 ELSE 0
    <3>1. ASSUME NEW r, r = [line |-> k, next |-> next], hand' = <<r>>
          PROVE  InHand(l)' = IF l = k THEN 1 ELSE 0
      <4>1. r \in Held /\ (r \in {h \in Held : h.line = l} <=> l = k)
        BY <1>1, <3>1 DEF Held
      <4>2. Count(hand', {h \in Held : h.line = l})
              = IF r \in {h \in Held : h.line = l} THEN 1 ELSE 0
        BY <3>1, <4>1, CountSingle
      <4>3. QED
        BY <4>1, <4>2 DEF InHand
    <3>2. QED
      BY <1>3, <3>1 DEF LetOn
  <2>2. Asked(l)' = Asked(l) /\ Ended(l)' = Ended(l)
    BY <1>3 DEF LetOn, Asked, Ended
  <2>3. QED
    BY <1>1, <2>1, <2>2 DEF Asked
<1>4. CASE EndedThere(k)
  <2>1. InHand(l)' = InHand(l) /\ Asked(l)' = Asked(l)
    BY <1>4 DEF EndedThere, InHand, Asked
  <2>2. Ended(l)' = Ended(l) + (IF l = k THEN 1 ELSE 0)
    BY <1>1, <1>4, EndedOne DEF EndedThere
  <2>3. QED
    BY <1>1, <2>1, <2>2 DEF Asked
<1>5. CASE Challenged(k)
  <2>1. InHand(l)' = InHand(l) /\ Ended(l)' = Ended(l)
    BY <1>5 DEF Challenged, InHand, Ended
  <2>2. Asked(l)' = Asked(l) + (IF l = k THEN 1 ELSE 0)
    BY <1>5 DEF Challenged, Asked
  <2>3. QED
    BY <1>1, <2>1, <2>2 DEF Asked
<1>6. QED
  BY <1>2, <1>3, <1>4, <1>5

-----------------------------------------------------------------------------
(* Who is vouched for.                                                     *)

\* A challenge asked for is out for a line that still waits or has ended, and it
\* went to the key its nick had when the line was last gated.
AskedOfItsKey ==
    \A o \in outstanding :
        /\ o.line \in Spoken /\ gated[o.line] = o.key
        /\ o.line \in held \/ Ended(o.line) > 0

Fates == {"TRUSTED", "UNTRUSTED", "DROPPED"}

\* What a step does to the ends: it adds at most one event to a line, one said
\* before, and TRUSTED only to a line whose nick had no key, or its author's.
EndsWell ==
    \A l \in Line :
        \/ ends'[l] = ends[l]
        \/ /\ l \in Spoken
           /\ \E how \in Fates :
                 /\ ends'[l] = Append(ends[l], how)
                 /\ how = "TRUSTED" => gated'[l] \in {NoKey, said[l].by}

\* A step that ends one line.
LEMMA OneEnds ==
    ASSUME Known, NEW k \in Spoken, NEW how \in Fates, Ends(k, how),
           how = "TRUSTED" => gated'[k] \in {NoKey, said[k].by}
    PROVE  EndsWell
<1>1. k \in Line
  BY SpokenLine
<1>2. \A l \in Line : ends'[l] = IF l = k THEN Append(ends[l], how) ELSE ends[l]
  BY <1>1, EndedOne DEF Fates
<1>3. QED
  BY <1>2 DEF EndsWell

\* A step that ends none.
LEMMA NoneEnds ==
    ASSUME UNCHANGED ends
    PROVE  EndsWell
  BY DEF EndsWell

\* What dm_hold drops was parked there, or is the line it parks.
LEMMA Evicted ==
    ASSUME Known, NEW k \in Spoken
    PROVE  LET q == Append(dm_held[said[k].nick], k)
           IN  Head(q) \in Spoken /\ said[Head(q)].nick = said[k].nick
<1> DEFINE s == dm_held[said[k].nick]
           q == Append(s, k)
<1>1. k \in Line /\ said[k].nick \in Nick /\ s \in Seq(Line)
  BY SpokenLine, KnownTyped DEF LinesTyped
<1>2. /\ q \in Seq(Line) /\ Len(q) = Len(s) + 1 /\ Len(s) \in Nat
      /\ \A i \in 1 .. Len(s) : q[i] = s[i]
      /\ q[Len(s) + 1] = k
  BY <1>1, AppendProperties
<1>3. \A i \in 1 .. Len(s) : s[i] \in Spoken /\ said[s[i]].nick = said[k].nick
  BY <1>1 DEF Known, LinesKnown
<1>4. q[1] \in Spoken /\ said[q[1]].nick = said[k].nick
  BY <1>2, <1>3
<1>5. Head(q) = q[1]
  BY <1>2
<1>6. QED
  BY <1>4, <1>5

\* The line taken from the queue that dm_flush popped.
LEMMA Flushed ==
    ASSUME Known, flushing # << >>
    PROVE  /\ flushing \in Seq(Line) /\ Head(flushing) \in Spoken
           /\ Tail(flushing) \in Seq(Line)
<1>1. flushing \in Seq(Line)
  BY KnownTyped DEF LinesTyped
<1>2. /\ Head(flushing) = flushing[1] /\ 1 \in DOMAIN flushing
      /\ Tail(flushing) \in Seq(Line)
  BY <1>1, HeadTailProperties
<1>3. QED
  BY <1>1, <1>2 DEF Known, LinesKnown

\* Every step ends lines well.
LEMMA EndsStep ==
    ASSUME Known, AskedOfItsKey, [Next]_vars
    PROVE  EndsWell
<1>1. CASE LayerOne
  <2> DEFINE k == hand[1].line
  <2>1. /\ UNCHANGED gated
        /\ Ends(k, "TRUSTED") \/ Ends(k, "UNTRUSTED") \/ Ends(k, "DROPPED") \/ DmHold(k)
    BY <1>1 DEF LayerOne, Released
  <2>2. k \in Spoken /\ gated[k] = NoKey
    BY <1>1, Hand DEF LayerOne
  <2> HIDE DEF k
  <2>3. ASSUME NEW how \in Fates, Ends(k, how) PROVE EndsWell
    BY <2>1, <2>2, <2>3, OneEnds
  <2>4. ASSUME DmHold(k) PROVE EndsWell
    <3> DEFINE q == Append(dm_held[said[k].nick], k)
    <3>1. Ends(Head(q), "DROPPED") \/ UNCHANGED ends
      BY <2>4 DEF DmHold
    <3>2. Head(q) \in Spoken
      BY <2>2, Evicted
    <3> HIDE DEF q
    <3>3. QED
      BY <3>1, <3>2, OneEnds, NoneEnds DEF Fates
  <2>5. QED
    BY <2>1, <2>3, <2>4 DEF Fates
<1>2. CASE FlushReleases
  <2>1. /\ hand[1].line \in Spoken /\ gated'[hand[1].line] = NoKey
        /\ Ends(hand[1].line, "TRUSTED")
    BY <1>2, Hand DEF FlushReleases, Released
  <2>2. QED
    BY <2>1, OneEnds DEF Fates
<1>3. CASE ReadAck
  <2> DEFINE m == Head(toBot)
             k == m.line
             o == [line |-> k, key |-> m.by]
  <2>1. Reads("ack") /\ UNCHANGED gated
    BY <1>3 DEF ReadAck
  <2>2. UNCHANGED ends \/ (o \in outstanding /\ Ends(k, "TRUSTED"))
    BY <1>3 DEF ReadAck, Release, Released
  <2>3. k \in Spoken /\ said[k].by = m.by
    BY <2>1, Wire
  <2>4. o \in outstanding => gated[k] = m.by
    BY DEF AskedOfItsKey
  <2> HIDE DEF k, m, o
  <2>5. QED
    BY <2>1, <2>2, <2>3, <2>4, OneEnds, NoneEnds DEF Fates
<1>4. CASE TickExpires
  <2>1. PICK o \in outstanding : Ends(o.line, Unconfirmed(o.line)) \/ UNCHANGED ends
    BY <1>4, Expires
  <2>2. o.line \in Spoken /\ Unconfirmed(o.line) \in Fates \ {"TRUSTED"}
    BY DEF Known, LinesKnown, Unconfirmed, Fates
  <2>3. QED
    BY <2>1, <2>2, OneEnds, NoneEnds
<1>5. ASSUME NEW k \in Spoken, NEW next \in {"layer1", "release"}, GatePlaintext(k, next)
      PROVE  EndsWell
  <2>1. UNCHANGED ends \/ Ends(k, "UNTRUSTED")
    BY <1>5, GateKnown DEF LetOn, EndedThere, Challenged
  <2>2. QED
    BY <2>1, OneEnds, NoneEnds DEF Fates
<1>6. CASE ReadPlain
  <2>1. Head(toBot).line \in Spoken /\ GatePlaintext(Head(toBot).line, "layer1")
    BY <1>6, Wire DEF ReadPlain
  <2>2. QED
    BY <1>5, <2>1
<1>7. CASE FlushOne
  <2>1. Head(flushing) \in Spoken /\ GatePlaintext(Head(flushing), "release")
    BY <1>7, Flushed DEF FlushOne
  <2>2. QED
    BY <1>5, <2>1
<1>8. ASSUME NEW n \in Nick, DmFlush(n) PROVE EndsWell
  <2>1. \/ UNCHANGED ends
        \/ ends' = [l \in Line |-> IF Contains(dm_held[n], l) THEN Append(ends[l], "DROPPED")
                                    ELSE ends[l]]
    BY <1>8 DEF DmFlush
  <2>2. dm_held[n] \in Seq(Line)
    BY KnownTyped DEF LinesTyped
  <2>3. \A l \in Line : Contains(dm_held[n], l) => l \in Spoken
    BY <2>2 DEF Contains, Known, LinesKnown
  <2>4. QED
    BY <2>1, <2>3 DEF EndsWell, Fates
<1>9. CASE \/ ReadText \/ TickStat \/ TickRead \/ PacerDies \/ Edit \/ UNCHANGED vars
           \/ \E n \in Nick : HourPasses(n)
  <2>1. UNCHANGED ends
    BY <1>9 DEF ReadText, TickStat, TickRead, PacerDies, Edit, HourPasses, vars, history
  <2>2. QED
    BY <2>1, NoneEnds
<1>10. ASSUME NEW p \in Person, \/ SayEncrypted(p) \/ ClientAcks(p) \/ Move(p)
                                \/ \E form \in {"pm", "order", "chatter"} : Say(p, form)
       PROVE  EndsWell
  <2>1. UNCHANGED ends
    BY <1>10 DEF SayEncrypted, ClientAcks, Move, Say, history
  <2>2. QED
    BY <2>1, NoneEnds
<1>11. QED
  BY <1>1, <1>2, <1>3, <1>4, <1>6, <1>7, <1>8, <1>9, <1>10 DEF Next, handle_server_line

-----------------------------------------------------------------------------
(* No step loses a line or doubles it.                                     *)

\* A line met on the wire, in the hand or in the queue popped is not held.
LEMMA NotAsked ==
    ASSUME Known, Once, NEW l \in Spoken, OnWire(l) + InHand(l) + InFlush(l) + Parked(l) > 0
    PROVE  l \notin held /\ Ended(l) = 0
<1>1. Places(l) = 1
  BY DEF Once
<1>2. QED
  BY <1>1, PlacesType DEF Places, Asked

\* The line taken leaves the queue popped.
LEMMA FlushLeaves ==
    ASSUME Known, flushing # << >>, flushing' = Tail(flushing), NEW l
    PROVE  /\ InFlush(l)' \in Nat
           /\ InFlush(l) = InFlush(l)' + (IF Head(flushing) = l THEN 1 ELSE 0)
<1>1. flushing \in Seq(Line) /\ Tail(flushing) \in Seq(Line)
  BY Flushed
<1>2. Count(flushing, {l}) = Count(Tail(flushing), {l}) + IF Head(flushing) \in {l} THEN 1 ELSE 0
  BY <1>1, CountTail
<1>3. Count(Tail(flushing), {l}) \in Nat
  BY <1>1, CountType
<1>4. InFlush(l) = Count(flushing, {l}) /\ InFlush(l)' = Count(Tail(flushing), {l})
  BY DEF InFlush
<1>5. QED
  BY <1>2, <1>3, <1>4

\* A line that is gated has not been asked about, nor has it ended.
LEMMA FirstOnWire ==
    ASSUME Known, Once, Reads("plain")
    PROVE  Head(toBot).line \in Spoken \ held /\ Ended(Head(toBot).line) = 0
<1>1. Head(toBot).line \in Spoken
  BY Wire
<1>2. ASSUME NEW l \in Spoken, l = Head(toBot).line PROVE l \notin held /\ Ended(l) = 0
  <2>1. OnWire(l)' \in Nat /\ OnWire(l) = OnWire(l)' + 1
    BY <1>2, WireRead
  <2>2. OnWire(l) \in Nat /\ InHand(l) \in Nat /\ InFlush(l) \in Nat /\ Parked(l) \in Nat
    BY PlacesType
  <2>3. OnWire(l) + InHand(l) + InFlush(l) + Parked(l) > 0
    BY <2>1, <2>2
  <2>4. QED
    BY <2>3, NotAsked
<1>3. QED
  BY <1>1, <1>2

\* Nor has the next of the queue popped.
LEMMA FirstInFlush ==
    ASSUME Known, Once, flushing # << >>, flushing' = Tail(flushing)
    PROVE  Head(flushing) \in Spoken \ held /\ Ended(Head(flushing)) = 0
<1>1. Head(flushing) \in Spoken
  BY Flushed
<1>2. ASSUME NEW l \in Spoken, l = Head(flushing) PROVE l \notin held /\ Ended(l) = 0
  <2>1. InFlush(l)' \in Nat /\ InFlush(l) = InFlush(l)' + 1
    BY <1>2, FlushLeaves
  <2>2. OnWire(l) \in Nat /\ InHand(l) \in Nat /\ InFlush(l) \in Nat /\ Parked(l) \in Nat
    BY PlacesType
  <2>3. OnWire(l) + InHand(l) + InFlush(l) + Parked(l) > 0
    BY <2>1, <2>2
  <2>4. QED
    BY <2>3, NotAsked
<1>3. QED
  BY <1>1, <1>2

\* A line read is gated: it leaves the wire for the hand, the ACK or its end.
LEMMA ReadPlainOnce ==
    ASSUME Known, Once, ReadPlain, NEW l \in Spoken
    PROVE  Places(l)' = Places(l)
<1> DEFINE k == Head(toBot).line
<1>1. /\ Reads("plain") /\ GatePlaintext(k, "layer1")
      /\ UNCHANGED <<flushing, dm_held, said>>
  BY DEF ReadPlain, peerVars
<1>2. Len(hand) = 0
  BY DEF ReadPlain, Reads, Reading
<1>3. k \in Spoken
  BY <1>1, Wire
<1>4. \A j \in Spoken : OnWire(j)' \in Nat /\ OnWire(j) = OnWire(j)' + (IF k = j THEN 1 ELSE 0)
  BY <1>1, WireRead
<1> HIDE DEF k
<1>5. k \notin held
  BY <1>1, FirstOnWire DEF k
<1>6. /\ InHand(l)' \in Nat /\ Asked(l)' \in Nat /\ Ended(l)' \in Nat
      /\ InHand(l)' + Asked(l)' + Ended(l)'
             = InHand(l) + Asked(l) + Ended(l) + (IF l = k THEN 1 ELSE 0)
  BY <1>1, <1>2, <1>3, <1>5, GatedOnce, SpokenLine
<1>7. InFlush(l)' = InFlush(l) /\ Parked(l)' = Parked(l)
  BY <1>1 DEF InFlush, Parked
<1>8. OnWire(l)' \in Nat /\ OnWire(l) = OnWire(l)' + (IF l = k THEN 1 ELSE 0)
  BY <1>4
<1>9. /\ OnWire(l) \in Nat /\ InHand(l) \in Nat /\ InFlush(l) \in Nat
      /\ Parked(l) \in Nat /\ Asked(l) \in Nat /\ Ended(l) \in Nat
  BY PlacesType
<1>10. QED
  BY <1>6, <1>7, <1>8, <1>9 DEF Places

\* So does one from the queue popped.
LEMMA FlushOneOnce ==
    ASSUME Known, Once, FlushOne, NEW l \in Spoken
    PROVE  Places(l)' = Places(l)
<1> DEFINE k == Head(flushing)
<1>1. /\ flushing # << >> /\ flushing' = Tail(flushing) /\ GatePlaintext(k, "release")
      /\ UNCHANGED <<toBot, dm_held, said>>
  BY DEF FlushOne, peerVars
<1>2. Len(hand) = 0
  BY DEF FlushOne
<1>3. k \in Spoken /\ flushing \in Seq(Line)
  BY <1>1, Flushed
<1> HIDE DEF k
<1>4. \A j \in Spoken : InFlush(j)' \in Nat /\ InFlush(j) = InFlush(j)' + (IF k = j THEN 1 ELSE 0)
  BY <1>1, FlushLeaves DEF k
<1>5. k \notin held
  BY <1>1, FirstInFlush DEF k
<1>6. /\ InHand(l)' \in Nat /\ Asked(l)' \in Nat /\ Ended(l)' \in Nat
      /\ InHand(l)' + Asked(l)' + Ended(l)'
             = InHand(l) + Asked(l) + Ended(l) + (IF l = k THEN 1 ELSE 0)
  BY <1>1, <1>2, <1>3, <1>5, GatedOnce, SpokenLine
<1>7. OnWire(l)' = OnWire(l) /\ Parked(l)' = Parked(l)
  BY <1>1 DEF OnWire, Parked
<1>8. InFlush(l)' \in Nat /\ InFlush(l) = InFlush(l)' + (IF l = k THEN 1 ELSE 0)
  BY <1>4
<1>9. /\ OnWire(l) \in Nat /\ InHand(l) \in Nat /\ InFlush(l) \in Nat
      /\ Parked(l) \in Nat /\ Asked(l) \in Nat /\ Ended(l) \in Nat
  BY PlacesType
<1>10. QED
  BY <1>6, <1>7, <1>8, <1>9 DEF Places

\* A line is parked, and may push the
\* oldest of its queue out.
LEMMA ParkedOnce ==
    ASSUME Known, NEW k \in Spoken, DmHold(k), said' = said, NEW l \in Spoken
    PROVE  /\ Parked(l)' \in Nat /\ Ended(l)' \in Nat
           /\ Parked(l)' + Ended(l)' = Parked(l) + Ended(l) + (IF l = k THEN 1 ELSE 0)
<1> DEFINE n == said[k].nick
           s == dm_held[n]
           q == Append(s, k)
<1>1. /\ k \in Line /\ n \in Nick /\ s \in Seq(Line) /\ dm_held \in [Nick -> Seq(Line)]
      /\ l \in Line /\ said[l].nick \in Nick
  BY SpokenLine, KnownTyped DEF LinesTyped
<1>2. Head(q) \in Spoken /\ said[Head(q)].nick = n
  BY Evicted
<1>3. q \in Seq(Line) /\ q # << >> /\ Tail(q) \in Seq(Line)
  BY <1>1, AppendProperties, HeadTailProperties
<1>4. /\ \/ dm_held' = [dm_held EXCEPT ![n] = Tail(q)] /\ Ends(Head(q), "DROPPED")
         \/ dm_held' = [dm_held EXCEPT ![n] = q] /\ UNCHANGED ends
  BY DEF DmHold
<1>5. Count(q, {l}) = Count(s, {l}) + IF k \in {l} THEN 1 ELSE 0
  BY <1>1, CountAppend
<1>6. Count(q, {l}) = Count(Tail(q), {l}) + IF Head(q) \in {l} THEN 1 ELSE 0
  BY <1>3, CountTail
<1>7. Count(s, {l}) \in Nat /\ Count(Tail(q), {l}) \in Nat
  BY <1>1, <1>3, CountType
<1>8. ASSUME Ends(Head(q), "DROPPED")
      PROVE  Ended(l)' = Ended(l) + (IF l = Head(q) THEN 1 ELSE 0)
  BY <1>1, <1>2, <1>8, SpokenLine, EndedOne
<1>9. CASE said[l].nick = n
  <2>1. Parked(l) = Count(s, {l})
    BY <1>9 DEF Parked
  <2>2. ASSUME dm_held' = [dm_held EXCEPT ![n] = Tail(q)], Ends(Head(q), "DROPPED")
        PROVE  /\ Parked(l)' \in Nat /\ Ended(l)' \in Nat
               /\ Parked(l)' + Ended(l)' = Parked(l) + Ended(l) + (IF l = k THEN 1 ELSE 0)
    <3>1. Parked(l)' = Count(Tail(q), {l})
      BY <1>1, <1>9, <2>2 DEF Parked
    <3>2. Ended(l)' = Ended(l) + (IF l = Head(q) THEN 1 ELSE 0)
      BY <1>8, <2>2
    <3>3. Parked(l) + (IF k = l THEN 1 ELSE 0) = Parked(l)' + (IF Head(q) = l THEN 1 ELSE 0)
      BY <1>5, <1>6, <2>1, <3>1
    <3>4. Parked(l)' \in Nat /\ Parked(l) \in Nat /\ Ended(l) \in Nat
      BY <1>7, <3>1, PlacesType
    <3> HIDE DEF q, s, n
    <3>5. QED
      BY <3>2, <3>3, <3>4
  <2>3. ASSUME dm_held' = [dm_held EXCEPT ![n] = q], UNCHANGED ends
        PROVE  /\ Parked(l)' \in Nat /\ Ended(l)' \in Nat
               /\ Parked(l)' + Ended(l)' = Parked(l) + Ended(l) + (IF l = k THEN 1 ELSE 0)
    <3>1. Parked(l)' = Count(q, {l})
      BY <1>1, <1>9, <2>3 DEF Parked
    <3>2. Ended(l)' = Ended(l)
      BY <2>3 DEF Ended
    <3> HIDE DEF q, s, n
    <3>3. QED
      BY <1>5, <1>7, <2>1, <3>1, <3>2, PlacesType
  <2>4. QED
    BY <1>4, <2>2, <2>3
<1>10. CASE said[l].nick # n
  <2>1. l # Head(q) /\ l # k
    BY <1>2, <1>10
  <2>2. dm_held'[said[l].nick] = dm_held[said[l].nick]
    BY <1>1, <1>4, <1>10
  <2>3. Parked(l)' = Parked(l)
    BY <2>2 DEF Parked
  <2>4. Ended(l)' = Ended(l)
    <3>1. CASE UNCHANGED ends
      BY <3>1 DEF Ended
    <3>2. CASE Ends(Head(q), "DROPPED")
      BY <1>8, <2>1, <3>2, PlacesType
    <3>3. QED
      BY <1>4, <3>1, <3>2
  <2>5. QED
    BY <2>1, <2>3, <2>4, PlacesType
<1>11. QED
  BY <1>9, <1>10

\* The verdict of layer 1 ends the line in the hand, or parks it.
LEMMA LayerOneOnce ==
    ASSUME Known, Once, LayerOne, NEW l \in Spoken
    PROVE  Places(l)' = Places(l)
<1> DEFINE k == hand[1].line
<1>1. /\ hand # << >> /\ hand' = << >>
      /\ \/ Ends(k, "TRUSTED") /\ UNCHANGED dm_held
         \/ Ends(k, "UNTRUSTED") /\ UNCHANGED dm_held
         \/ Ends(k, "DROPPED") /\ UNCHANGED dm_held
         \/ DmHold(k)
      /\ UNCHANGED <<flushing, held, toBot, said>>
  BY DEF LayerOne, Released, peerVars
<1>2. k \in Spoken /\ k \in Line /\ l \in Line
  BY <1>1, Hand, SpokenLine
<1>3. InHand(l) = (IF k = l THEN 1 ELSE 0) /\ InHand(l)' = 0
  BY <1>1, HandHolds, CountEmpty DEF InHand
<1> HIDE DEF k
<1>4. /\ Parked(l)' \in Nat /\ Ended(l)' \in Nat
      /\ Parked(l)' + Ended(l)' = Parked(l) + Ended(l) + (IF l = k THEN 1 ELSE 0)
  <2>1. ASSUME NEW how \in {"TRUSTED", "UNTRUSTED", "DROPPED"}, Ends(k, how), UNCHANGED dm_held
        PROVE  /\ Parked(l)' \in Nat /\ Ended(l)' \in Nat
               /\ Parked(l)' + Ended(l)' = Parked(l) + Ended(l) + (IF l = k THEN 1 ELSE 0)
    <3>1. Ended(l)' = Ended(l) + (IF l = k THEN 1 ELSE 0)
      BY <1>2, <2>1, EndedOne
    <3>2. Parked(l)' = Parked(l)
      BY <1>1, <2>1 DEF Parked
    <3>3. QED
      BY <3>1, <3>2, PlacesType
  <2>2. CASE DmHold(k)
    BY <1>1, <1>2, <2>2, ParkedOnce
  <2>3. QED
    BY <1>1, <2>1, <2>2
<1>5. OnWire(l)' = OnWire(l) /\ InFlush(l)' = InFlush(l) /\ Asked(l)' = Asked(l)
  BY <1>1 DEF OnWire, InFlush, Asked
<1>6. QED
  BY <1>3, <1>4, <1>5, PlacesType DEF Places

\* The release of a parked line ends it.
LEMMA FlushReleasesOnce ==
    ASSUME Known, Once, FlushReleases, NEW l \in Spoken
    PROVE  Places(l)' = Places(l)
<1> DEFINE k == hand[1].line
<1>1. /\ hand # << >> /\ hand' = << >> /\ Ends(k, "TRUSTED")
      /\ UNCHANGED <<flushing, dm_held, held, toBot, said>>
  BY DEF FlushReleases, Released, peerVars
<1>2. k \in Line /\ l \in Line
  BY <1>1, Hand, SpokenLine
<1>3. InHand(l) = (IF k = l THEN 1 ELSE 0) /\ InHand(l)' = 0
  BY <1>1, HandHolds, CountEmpty DEF InHand
<1> HIDE DEF k
<1>4. Ended(l)' = Ended(l) + (IF l = k THEN 1 ELSE 0)
  BY <1>1, <1>2, EndedOne
<1>5. /\ OnWire(l)' = OnWire(l) /\ InFlush(l)' = InFlush(l) /\ Asked(l)' = Asked(l)
      /\ Parked(l)' = Parked(l)
  BY <1>1 DEF OnWire, InFlush, Asked, Parked
<1>6. QED
  BY <1>3, <1>4, <1>5, PlacesType DEF Places

\* A held line that ends stops waiting.
LEMMA HeldEnds ==
    ASSUME Known, NEW k \in Spoken, k \in held, held' = held \ {k},
           NEW how \in {"TRUSTED", "UNTRUSTED", "DROPPED"}, Ends(k, how), NEW l \in Spoken
    PROVE  /\ Asked(l)' \in Nat /\ Ended(l)' \in Nat
           /\ Asked(l)' + Ended(l)' = Asked(l) + Ended(l)
<1>1. k \in Line /\ l \in Line
  BY SpokenLine
<1>2. Ended(l)' = Ended(l) + (IF l = k THEN 1 ELSE 0)
  BY <1>1, EndedOne
<1>3. Asked(l) = Asked(l)' + (IF l = k THEN 1 ELSE 0) /\ Asked(l)' \in {0, 1}
  BY DEF Asked
<1>4. Ended(l) \in Nat
  BY PlacesType
<1>5. QED
  BY <1>2, <1>3, <1>4

\* An encrypted message moves no line.
LEMMA ReadTextOnce ==
    ASSUME Known, ReadText, NEW l \in Spoken
    PROVE  Places(l)' = Places(l)
<1>1. Reads("text") /\ UNCHANGED <<hand, flushing, dm_held, held, said, ends>>
  BY DEF ReadText, readerVars, peerVars
<1>2. OnWire(l)' \in Nat /\ OnWire(l) = OnWire(l)'
  BY <1>1, WireRead
<1>3. /\ InHand(l)' = InHand(l) /\ InFlush(l)' = InFlush(l) /\ Parked(l)' = Parked(l)
      /\ Asked(l)' = Asked(l) /\ Ended(l)' = Ended(l)
  BY <1>1 DEF InHand, InFlush, Parked, Asked, Ended
<1>4. QED
  BY <1>2, <1>3 DEF Places

\* An ACK ends the line it answers if that line still waits.
LEMMA ReadAckOnce ==
    ASSUME Known, ReadAck, NEW l \in Spoken
    PROVE  Places(l)' = Places(l)
<1> DEFINE k == Head(toBot).line
<1>1. /\ Reads("ack") /\ UNCHANGED <<hand, flushing, dm_held, said>>
      /\ \/ UNCHANGED <<held, ends>>
         \/ k \in held /\ held' = held \ {k} /\ Ends(k, "TRUSTED")
  BY DEF ReadAck, Release, Released, readerVars, peerVars
<1>2. k \in Spoken
  BY <1>1, Wire
<1> HIDE DEF k
<1>3. OnWire(l)' \in Nat /\ OnWire(l) = OnWire(l)'
  BY <1>1, WireRead
<1>4. InHand(l)' = InHand(l) /\ InFlush(l)' = InFlush(l) /\ Parked(l)' = Parked(l)
  BY <1>1 DEF InHand, InFlush, Parked
<1>5. /\ Asked(l)' \in Nat /\ Ended(l)' \in Nat
      /\ Asked(l)' + Ended(l)' = Asked(l) + Ended(l)
  <2>1. CASE UNCHANGED <<held, ends>>
    <3>1. Asked(l)' = Asked(l) /\ Ended(l)' = Ended(l)
      BY <2>1 DEF Asked, Ended
    <3>2. QED
      BY <3>1, PlacesType
  <2>2. CASE k \in held /\ held' = held \ {k} /\ Ends(k, "TRUSTED")
    BY <1>2, <2>2, HeldEnds
  <2>3. QED
    BY <1>1, <2>1, <2>2
<1>6. QED
  BY <1>3, <1>4, <1>5, PlacesType DEF Places

\* So does the end of its 15 s.
LEMMA TickExpiresOnce ==
    ASSUME Known, TickExpires, NEW l \in Spoken
    PROVE  Places(l)' = Places(l)
<1>1. PICK o \in outstanding :
         \/ o.line \in held /\ held' = held \ {o.line} /\ Ends(o.line, Unconfirmed(o.line))
         \/ held' = held /\ UNCHANGED ends
  BY Expires
<1>2. UNCHANGED <<toBot, hand, flushing, dm_held, said>>
  BY DEF TickExpires, readerVars, peerVars
<1>3. o.line \in Spoken /\ Unconfirmed(o.line) \in {"TRUSTED", "UNTRUSTED", "DROPPED"}
  BY DEF Known, LinesKnown, Unconfirmed
<1>4. /\ OnWire(l)' = OnWire(l) /\ InHand(l)' = InHand(l) /\ InFlush(l)' = InFlush(l)
      /\ Parked(l)' = Parked(l)
  BY <1>2 DEF OnWire, InHand, InFlush, Parked
<1>5. /\ Asked(l)' \in Nat /\ Ended(l)' \in Nat
      /\ Asked(l)' + Ended(l)' = Asked(l) + Ended(l)
  <2>1. CASE held' = held /\ UNCHANGED ends
    <3>1. Asked(l)' = Asked(l) /\ Ended(l)' = Ended(l)
      BY <2>1 DEF Asked, Ended
    <3>2. QED
      BY <3>1, PlacesType
  <2>2. CASE /\ o.line \in held /\ held' = held \ {o.line}
             /\ Ends(o.line, Unconfirmed(o.line))
    BY <1>3, <2>2, HeldEnds
  <2>3. QED
    BY <1>1, <2>1, <2>2
<1>6. QED
  BY <1>4, <1>5, PlacesType DEF Places

\* The queue popped is on its way to its release, or has ended.
LEMMA DmFlushOnce ==
    ASSUME Known, Once, NEW n \in Nick, DmFlush(n), NEW l \in Spoken
    PROVE  Places(l)' = Places(l)
<1> DEFINE s == dm_held[n]
<1>1. /\ Len(flushing) = 0 /\ dm_held' = [dm_held EXCEPT ![n] = << >>]
      /\ \/ flushing' = s /\ UNCHANGED ends
         \/ /\ ends' = [j \in Line |-> IF Contains(s, j) THEN Append(ends[j], "DROPPED") ELSE ends[j]]
            /\ UNCHANGED flushing
      /\ UNCHANGED <<toBot, hand, held, said>>
  BY DEF DmFlush, Reading, bridgeVars, peerVars
<1>2. /\ s \in Seq(Line) /\ dm_held \in [Nick -> Seq(Line)] /\ flushing \in Seq(Line)
      /\ ends \in [Line -> Seq({"TRUSTED", "UNTRUSTED", "DROPPED"})]
      /\ l \in Line /\ said[l].nick \in Nick
  BY SpokenLine, KnownTyped DEF LinesTyped
<1>3. OnWire(l)' = OnWire(l) /\ InHand(l)' = InHand(l) /\ Asked(l)' = Asked(l)
  BY <1>1 DEF OnWire, InHand, Asked
<1>4. InFlush(l) = 0
  <2>1. \A i \in DOMAIN flushing : FALSE
    BY <1>1, <1>2, NothingIn
  <2>2. QED
    BY <1>2, <2>1, CountType DEF InFlush
<1>5. Parked(l) = Parked(l)' + Count(s, {l}) /\ Parked(l)' \in Nat /\ Count(s, {l}) \in Nat
  <2>1. CASE said[l].nick = n
    <3>1. dm_held'[said[l].nick] = << >> /\ said'[l] = said[l]
      BY <1>1, <1>2, <2>1
    <3>2. Parked(l)' = 0
      BY <3>1, CountEmpty DEF Parked
    <3>3. Parked(l) = Count(s, {l})
      BY <2>1 DEF Parked
    <3>4. QED
      BY <3>2, <3>3, PlacesType
  <2>2. CASE said[l].nick # n
    <3>1. dm_held'[said[l].nick] = dm_held[said[l].nick] /\ said'[l] = said[l]
      BY <1>1, <1>2, <2>2
    <3>2. Parked(l)' = Parked(l)
      BY <3>1 DEF Parked
    <3>3. \A i \in DOMAIN s : s[i] \notin {l}
      BY <2>2 DEF Known, LinesKnown
    <3>4. Count(s, {l}) = 0
      BY <1>2, <3>3, CountType
    <3>5. QED
      BY <3>2, <3>4, PlacesType
  <2>3. QED
    BY <2>1, <2>2
<1>6. InFlush(l)' + Ended(l)' = Ended(l) + Count(s, {l}) /\ InFlush(l)' \in Nat /\ Ended(l)' \in Nat
  <2>1. CASE flushing' = s /\ UNCHANGED ends
    <3>1. InFlush(l)' = Count(s, {l}) /\ Ended(l)' = Ended(l)
      BY <2>1 DEF InFlush, Ended
    <3> HIDE DEF s
    <3>2. QED
      BY <1>5, <3>1, PlacesType
  <2>2. ASSUME ends' = [j \in Line |-> IF Contains(s, j) THEN Append(ends[j], "DROPPED") ELSE ends[j]],
               UNCHANGED flushing
        PROVE  InFlush(l)' + Ended(l)' = Ended(l) + Count(s, {l}) /\ InFlush(l)' \in Nat
               /\ Ended(l)' \in Nat
    <3>1. InFlush(l)' = 0
      BY <1>4, <2>2 DEF InFlush
    <3>2. Contains(s, l) <=> Count(s, {l}) # 0
      <4>1. DOMAIN s = 1 .. Len(s)
        BY <1>2
      <4>2. Count(s, {l}) = 0 <=> \A i \in DOMAIN s : s[i] \notin {l}
        BY <1>2, CountType
      <4> HIDE DEF s
      <4>3. QED
        BY <4>1, <4>2 DEF Contains
    <3>3. Count(s, {l}) <= 1
      <4>1. Places(l) = 1
        BY DEF Once
      <4> HIDE DEF s
      <4>2. QED
        BY <1>5, <4>1, PlacesType DEF Places, Asked
    <3>4. Len(Append(ends[l], "DROPPED")) = Len(ends[l]) + 1 /\ Len(ends[l]) \in Nat
      BY <1>2, AppendProperties
    <3> HIDE DEF s
    <3>5. ends'[l] = IF Contains(s, l) THEN Append(ends[l], "DROPPED") ELSE ends[l]
      BY <1>2, <2>2
    <3>6. CASE Contains(s, l)
      <4>1. Len(ends'[l]) = Len(ends[l]) + 1 /\ Count(s, {l}) = 1
        BY <1>5, <3>2, <3>3, <3>4, <3>5, <3>6
      <4>2. QED
        BY <3>1, <3>4, <4>1 DEF Ended
    <3>7. CASE ~Contains(s, l)
      <4>1. ends'[l] = ends[l] /\ Count(s, {l}) = 0
        BY <3>2, <3>5, <3>7
      <4>2. QED
        BY <3>1, <3>4, <4>1 DEF Ended
    <3>8. QED
      BY <3>6, <3>7
  <2>3. QED
    BY <1>1, <2>1, <2>2
<1> HIDE DEF s
<1>7. QED
  BY <1>3, <1>4, <1>5, <1>6, PlacesType DEF Places

\* A line said is on the wire, and nowhere else.
LEMMA SayOnce ==
    ASSUME Known, Once, NEW p \in Person, NEW form \in {"pm", "order", "chatter"}, Say(p, form)
    PROVE  Once'
<1> DEFINE new == Len(said) + 1
           m == [kind |-> "plain", line |-> new]
           s == [nick |-> nickOf[p], by |-> p, form |-> form]
<1>1. /\ nickOf[p] \in Nick /\ said \in Seq(Saying) /\ Len(said) < MaxLines /\ MaxLines \in Nat
      /\ nickOf \in [Person -> Nick \cup {NoNick}]
  BY OrderAssumption DEF Say, Known, TypeOK, Saying
<1>2. /\ said' = Append(said, s) /\ toBot' = Append(toBot, m)
      /\ UNCHANGED <<hand, flushing, dm_held, held, ends>>
  BY DEF Say, readerVars, bridgeVars, history
<1>3. m \in WireLine /\ m.kind = "plain" /\ m.line = new /\ new \in Line
  BY <1>1 DEF WireLine, PlainLine, Line
<1>4. s \in Saying /\ s.nick \in Nick
  BY <1>1 DEF Saying
<1> HIDE DEF m, s
<1>5. /\ Spoken' = Spoken \cup {new} /\ new \notin Spoken
      /\ said'[new] = s /\ \A l \in Spoken : said'[l] = said[l]
  BY <1>1, <1>2, <1>4, OneMore DEF Spoken
<1> HIDE DEF new
<1>6. \A l \in Spoken : Places(l)' = 1
  <2>1. ASSUME NEW l \in Spoken PROVE Places(l)' = 1
    <3>1. OnWire(l)' = OnWire(l)
      BY <1>2, <1>3, <1>5, WireAdded, PlacesType
    <3>2. said'[l] = said[l]
      BY <1>5
    <3>3. /\ InHand(l)' = InHand(l) /\ InFlush(l)' = InFlush(l) /\ Parked(l)' = Parked(l)
          /\ Asked(l)' = Asked(l) /\ Ended(l)' = Ended(l)
      BY <1>2, <3>2 DEF InHand, InFlush, Parked, Asked, Ended
    <3>4. Places(l) = 1
      BY DEF Once
    <3>5. QED
      BY <3>1, <3>3, <3>4 DEF Places
  <2>2. QED
    BY <2>1
<1>7. ASSUME NEW l, l = new PROVE Places(l)' = 1
  <2>0. /\ toBot \in Seq(WireLine) /\ hand \in Seq(Held) /\ flushing \in Seq(Line)
        /\ dm_held \in [Nick -> Seq(Line)]
    BY KnownTyped DEF LinesTyped
  <2>1. OnWire(l)' = 1
    <3>1. \A i \in DOMAIN toBot : toBot[i] \notin {[kind |-> "plain", line |-> l]}
      BY <1>5, <1>7 DEF Known, LinesKnown
    <3>2. OnWire(l) = 0
      BY <2>0, <3>1, CountType DEF OnWire
    <3>3. QED
      BY <1>2, <1>3, <1>7, <3>2, WireAdded
  <2>2. InHand(l)' = 0
    <3>1. \A i \in DOMAIN hand : hand[i] \notin {h \in Held : h.line = l}
      BY <1>5, <1>7 DEF Known, LinesKnown
    <3>2. InHand(l) = 0
      BY <2>0, <3>1, CountType DEF InHand
    <3>3. QED
      BY <1>2, <3>2 DEF InHand
  <2>3. InFlush(l)' = 0
    <3>1. \A i \in DOMAIN flushing : flushing[i] \notin {l}
      BY <1>5, <1>7 DEF Known, LinesKnown
    <3>2. InFlush(l) = 0
      BY <2>0, <3>1, CountType DEF InFlush
    <3>3. QED
      BY <1>2, <3>2 DEF InFlush
  <2>4. Parked(l)' = 0
    <3>1. said'[l].nick \in Nick /\ dm_held' = dm_held
      BY <1>2, <1>4, <1>5, <1>7
    <3>2. dm_held[said'[l].nick] \in Seq(Line)
      BY <2>0, <3>1
    <3>3. \A i \in DOMAIN dm_held[said'[l].nick] : dm_held[said'[l].nick][i] \notin {l}
      BY <1>5, <1>7, <3>1 DEF Known, LinesKnown
    <3>4. Count(dm_held[said'[l].nick], {l}) = 0
      BY <3>2, <3>3, CountType
    <3>5. QED
      BY <3>1, <3>4 DEF Parked
  <2>5. Asked(l)' = 0
    BY <1>2, <1>5, <1>7 DEF Known, LinesKnown, Asked
  <2>6. Ended(l)' = 0
    BY <1>2, <1>3, <1>5, <1>7 DEF Once, Ended
  <2>7. QED
    BY <2>1, <2>2, <2>3, <2>4, <2>5, <2>6 DEF Places
<1>8. \A l \in Line \ Spoken' : Ended(l)' = 0
  BY <1>2, <1>5 DEF Once, Ended
<1>9. \A l \in Spoken' : Places(l)' = 1
  BY <1>5, <1>6, <1>7
<1>10. QED
  BY <1>8, <1>9 DEF Once

\* The steps that move no line.
LEMMA AsideOnce ==
    ASSUME Known, UNCHANGED <<hand, flushing, dm_held, held, ends, said>>, NEW l \in Spoken,
           \/ UNCHANGED toBot
           \/ \E m \in WireLine : m.kind # "plain" /\ toBot' = Append(toBot, m)
    PROVE  Places(l)' = Places(l)
<1>1. OnWire(l)' = OnWire(l)
  <2>1. CASE UNCHANGED toBot
    BY <2>1 DEF OnWire
  <2>2. ASSUME NEW m \in WireLine, m.kind # "plain", toBot' = Append(toBot, m)
        PROVE  OnWire(l)' = OnWire(l)
    BY <2>2, WireAdded, PlacesType
  <2>3. QED
    BY <2>1, <2>2
<1>2. /\ InHand(l)' = InHand(l) /\ InFlush(l)' = InFlush(l) /\ Parked(l)' = Parked(l)
      /\ Asked(l)' = Asked(l) /\ Ended(l)' = Ended(l)
  BY DEF InHand, InFlush, Parked, Asked, Ended
<1>3. QED
  BY <1>1, <1>2 DEF Places

\* Every step keeps each line where it is once.
LEMMA OnceStep ==
    ASSUME Known, Once, AskedOfItsKey, [Next]_vars
    PROVE  Once'
<1>1. ASSUME said' = said, \A l \in Spoken : Places(l)' = Places(l) PROVE Once'
  <2>1. Spoken' = Spoken
    BY <1>1 DEF Spoken
  <2>2. \A l \in Line \ Spoken : ends'[l] = ends[l]
    BY EndsStep DEF EndsWell
  <2>3. \A l \in Line \ Spoken : Ended(l)' = 0
    BY <2>2 DEF Once, Ended
  <2>4. \A l \in Spoken : Places(l)' = 1
    BY <1>1 DEF Once
  <2>5. QED
    BY <2>1, <2>3, <2>4 DEF Once
<1>2. CASE handle_server_line
  <2>1. said' = said
    BY <1>2 DEF handle_server_line, ReadPlain, ReadText, ReadAck, LayerOne, FlushOne, FlushReleases,
                DmFlush, peerVars
  <2>2. \A l \in Spoken : Places(l)' = Places(l)
    BY <1>2, ReadPlainOnce, ReadTextOnce, ReadAckOnce, LayerOneOnce, FlushOneOnce,
       FlushReleasesOnce, DmFlushOnce DEF handle_server_line
  <2>3. QED
    BY <1>1, <2>1, <2>2
<1>3. CASE TickExpires
  <2>1. said' = said
    BY <1>3 DEF TickExpires, peerVars
  <2>2. QED
    BY <1>1, <1>3, <2>1, TickExpiresOnce
<1>4. CASE \/ TickStat \/ TickRead \/ PacerDies \/ Edit \/ UNCHANGED vars
           \/ (\E n \in Nick : HourPasses(n)) \/ (\E p \in Person : Move(p))
  <2>1. UNCHANGED <<toBot, hand, flushing, dm_held, held, ends, said>>
    BY <1>4 DEF TickStat, TickRead, PacerDies, Edit, HourPasses, Move, vars, readerVars, bridgeVars,
                peerVars, history
  <2>2. QED
    BY <1>1, <2>1, AsideOnce
<1>5. ASSUME NEW p \in Person, SayEncrypted(p) \/ ClientAcks(p) PROVE Once'
  <2>1. UNCHANGED <<hand, flushing, dm_held, held, ends, said>>
    BY <1>5 DEF SayEncrypted, ClientAcks, readerVars, bridgeVars, peerVars, history
  <2>2. nickOf[p] \in Nick
    BY <1>5 DEF SayEncrypted, ClientAcks, Known, TypeOK
  <2>3. CASE SayEncrypted(p)
    <3>1. ASSUME NEW m, m = [kind |-> "text", nick |-> nickOf[p], by |-> p], toBot' = Append(toBot, m)
          PROVE  Once'
      <4>1. m \in WireLine /\ m.kind # "plain"
        BY <2>2, <3>1 DEF WireLine, TextLine
      <4>2. QED
        BY <1>1, <2>1, <3>1, <4>1, AsideOnce
    <3>2. QED
      BY <2>3, <3>1 DEF SayEncrypted
  <2>4. CASE ClientAcks(p)
    <3>1. PICK o \in outstanding :
            toBot' = Append(toBot, [kind |-> "ack", nick |-> nickOf[p], by |-> p, line |-> o.line])
      BY <2>4 DEF ClientAcks
    <3>2. o.line \in Line
      BY KnownTyped DEF LinesTyped
    <3>3. ASSUME NEW m, m = [kind |-> "ack", nick |-> nickOf[p], by |-> p, line |-> o.line],
                 toBot' = Append(toBot, m)
          PROVE  Once'
      <4>1. m \in WireLine /\ m.kind # "plain"
        BY <2>2, <3>2, <3>3 DEF WireLine, AckLine
      <4>2. QED
        BY <1>1, <2>1, <3>3, <4>1, AsideOnce
    <3>4. QED
      BY <3>1, <3>3
  <2>5. QED
    BY <1>5, <2>3, <2>4
<1>6. ASSUME NEW p \in Person, NEW form \in {"pm", "order", "chatter"}, Say(p, form) PROVE Once'
  BY <1>6, SayOnce
<1>7. QED
  BY <1>2, <1>3, <1>4, <1>5, <1>6 DEF Next

-----------------------------------------------------------------------------
(* The order gate keeps the promise of LineFate.                           *)

\* A line gated again has not ended, and nobody has been asked about it.
LEMMA GatedFresh ==
    ASSUME Known, Once, ReadPlain \/ FlushOne
    PROVE  \E k \in Spoken, next \in {"layer1", "release"} :
              GatePlaintext(k, next) /\ Len(hand) = 0 /\ k \notin held /\ Ended(k) = 0 /\ said' = said
<1>1. CASE ReadPlain
  <2>1. Reads("plain") /\ GatePlaintext(Head(toBot).line, "layer1") /\ Len(hand) = 0 /\ said' = said
    BY <1>1 DEF ReadPlain, Reads, Reading, peerVars
  <2>2. QED
    BY <2>1, FirstOnWire
<1>2. CASE FlushOne
  <2>1. /\ flushing # << >> /\ flushing' = Tail(flushing) /\ GatePlaintext(Head(flushing), "release")
        /\ Len(hand) = 0 /\ said' = said
    BY <1>2 DEF FlushOne, peerVars
  <2>2. QED
    BY <2>1, FirstInFlush
<1>3. QED
  BY <1>1, <1>2

\* What has ended stays so.
LEMMA EndedStays ==
    ASSUME Known, EndsWell, NEW l \in Line, Ended(l) > 0
    PROVE  Ended(l)' > 0
<1>1. ends[l] \in Seq({"TRUSTED", "UNTRUSTED", "DROPPED"})
  BY KnownTyped DEF LinesTyped
<1>2. CASE ends'[l] = ends[l]
  BY <1>2 DEF Ended
<1>3. ASSUME NEW how \in Fates, ends'[l] = Append(ends[l], how) PROVE Ended(l)' > 0
  <2>1. Len(Append(ends[l], how)) = Len(ends[l]) + 1 /\ Len(ends[l]) \in Nat
    BY <1>1, AppendProperties DEF Fates
  <2>2. Len(ends'[l]) = Len(ends[l]) + 1
    BY <1>3, <2>1
  <2>3. QED
    BY <2>1, <2>2 DEF Ended
<1>4. QED
  BY <1>2, <1>3 DEF EndsWell

\* Steps that gate nothing.
LEMMA AskedKept ==
    ASSUME Known, AskedOfItsKey, EndsWell, outstanding' \subseteq outstanding, UNCHANGED gated,
           Spoken \subseteq Spoken', \A l \in held : l \in held' \/ Ended(l)' > 0
    PROVE  AskedOfItsKey'
<1>1. ASSUME NEW o \in outstanding', NEW l, l = o.line
      PROVE  l \in Spoken' /\ gated'[l] = o.key /\ (l \in held' \/ Ended(l)' > 0)
  <2>1. l \in Spoken /\ gated[l] = o.key /\ (l \in held \/ Ended(l) > 0)
    BY <1>1 DEF AskedOfItsKey
  <2>2. l \in Line
    BY <2>1, SpokenLine
  <2>3. QED
    BY <2>1, <2>2, EndedStays
<1>2. QED
  BY <1>1 DEF AskedOfItsKey, Ended

\* The step that asks: the line it asks about is fresh.
LEMMA AskedGate ==
    ASSUME Known, AskedOfItsKey, EndsWell, said' = said,
           NEW k \in Spoken, NEW next \in {"layer1", "release"}, GatePlaintext(k, next),
           Len(hand) = 0, k \notin held, Ended(k) = 0
    PROVE  AskedOfItsKey'
<1>1. /\ \A j \in Line : j # k => gated'[j] = gated[j]
      /\ k \in Line /\ Spoken' = Spoken
  BY GateKnown, SpokenLine DEF Spoken
<1>2. /\ held \subseteq held'
      /\ \A o \in outstanding' : \/ o \in outstanding
                                 \/ o.line = k /\ o.key = gated'[k] /\ k \in held'
  <2>1. LetOn(k, next) \/ EndedThere(k) \/ Challenged(k)
    BY GateKnown
  <2>2. CASE LetOn(k, next) \/ EndedThere(k)
    BY <2>2 DEF LetOn, EndedThere
  <2>3. CASE Challenged(k)
    <3>1. ASSUME NEW r, r = [line |-> k, key |-> gated'[k]], outstanding' = outstanding \cup {r}
          PROVE  \A o \in outstanding' : o \in outstanding \/ (o.line = k /\ o.key = gated'[k])
      <4>1. r.line = k /\ r.key = gated'[k]
        BY <3>1
      <4>2. QED
        BY <3>1, <4>1
    <3>2. QED
      BY <2>3, <3>1 DEF Challenged
  <2>4. QED
    BY <2>1, <2>2, <2>3
<1>3. ASSUME NEW o \in outstanding', NEW l, l = o.line
      PROVE  l \in Spoken' /\ gated'[l] = o.key /\ (l \in held' \/ Ended(l)' > 0)
  <2>1. CASE o \in outstanding
    <3>1. l \in Spoken /\ gated[l] = o.key /\ (l \in held \/ Ended(l) > 0)
      BY <1>3, <2>1 DEF AskedOfItsKey
    <3>2. l \in Line /\ l # k
      BY <3>1, SpokenLine
    <3>3. QED
      BY <1>1, <1>2, <3>1, <3>2, EndedStays
  <2>2. CASE o.line = k /\ o.key = gated'[k] /\ k \in held'
    BY <1>1, <1>3, <2>2
  <2>3. QED
    BY <1>2, <2>1, <2>2
<1>4. QED
  BY <1>3 DEF AskedOfItsKey, Ended

\* Saying a line leaves the others said, as they were.
LEMMA SaidGrows ==
    ASSUME Known, NEW p \in Person, NEW form \in {"pm", "order", "chatter"}, Say(p, form)
    PROVE  /\ Spoken' = Spoken \cup {Len(said) + 1} /\ Len(said) + 1 \in Line \ Spoken
           /\ \A l \in Spoken : said'[l] = said[l]
<1> DEFINE s == [nick |-> nickOf[p], by |-> p, form |-> form]
<1>1. /\ nickOf[p] \in Nick /\ said \in Seq(Saying) /\ Len(said) < MaxLines /\ MaxLines \in Nat
  BY OrderAssumption DEF Say, Known, TypeOK, Saying
<1>2. said' = Append(said, s)
  BY DEF Say
<1>3. s \in Saying
  BY <1>1 DEF Saying
<1> HIDE DEF s
<1>4. QED
  BY <1>1, <1>2, <1>3, OneMore DEF Spoken, Line

\* Whoever is asked is the key the line was gated under.
LEMMA AskedStep ==
    ASSUME Known, Once, AskedOfItsKey, [Next]_vars
    PROVE  AskedOfItsKey'
<1>1. EndsWell
  BY EndsStep
<1>2. CASE ReadPlain \/ FlushOne
  BY <1>1, <1>2, GatedFresh, AskedGate
<1>3. ASSUME NEW k \in Spoken, NEW how \in Fates, held' = held \ {k}, Ends(k, how),
             UNCHANGED <<gated, said>>, outstanding' \subseteq outstanding
      PROVE  AskedOfItsKey'
  <2>1. k \in Line
    BY SpokenLine
  <2>2. ASSUME NEW l, l = k PROVE Ended(l)' > 0
    <3>1. Ended(l)' = Ended(l) + 1 /\ Ended(l) \in Nat
      BY <1>3, <2>1, <2>2, EndedOne, PlacesType DEF Fates
    <3>2. QED
      BY <3>1
  <2>3. \A l \in held : l \in held' \/ Ended(l)' > 0
    BY <1>3, <2>2
  <2>4. Spoken \subseteq Spoken'
    BY <1>3 DEF Spoken
  <2>5. QED
    BY <1>1, <1>3, <2>3, <2>4, AskedKept
<1>4. ASSUME UNCHANGED <<held, gated, said>>, outstanding' \subseteq outstanding
      PROVE  AskedOfItsKey'
  <2>1. Spoken \subseteq Spoken' /\ \A l \in held : l \in held'
    BY <1>4 DEF Spoken
  <2>2. QED
    BY <1>1, <1>4, <2>1, AskedKept
<1>5. CASE ReadAck
  <2> DEFINE k == Head(toBot).line
  <2>1. /\ Reads("ack") /\ UNCHANGED <<gated, said>> /\ outstanding' \subseteq outstanding
        /\ UNCHANGED held \/ (held' = held \ {k} /\ Ends(k, "TRUSTED"))
    BY <1>5 DEF ReadAck, Release, Released, peerVars
  <2>2. k \in Spoken
    BY <2>1, Wire
  <2> HIDE DEF k
  <2>3. QED
    BY <1>3, <1>4, <2>1, <2>2 DEF Fates
<1>6. CASE TickExpires
  <2>1. PICK o \in outstanding :
           /\ outstanding' = outstanding \ {o}
           /\ \/ o.line \in held /\ held' = held \ {o.line} /\ Ends(o.line, Unconfirmed(o.line))
              \/ held' = held
    BY <1>6, Expires
  <2>2. UNCHANGED <<gated, said>>
    BY <1>6 DEF TickExpires, peerVars
  <2>3. o.line \in Spoken /\ Unconfirmed(o.line) \in Fates
    BY DEF Known, LinesKnown, Unconfirmed, Fates
  <2>4. CASE held' # held
    BY <1>3, <2>1, <2>2, <2>3, <2>4
  <2>5. CASE held' = held
    <3>1. held' = held
      BY <2>5
    <3>2. QED
      BY <1>4, <2>1, <2>2, <3>1
  <2>6. QED
    BY <2>4, <2>5
<1>7. CASE LayerOne \/ FlushReleases \/ ReadText \/ (\E n \in Nick : DmFlush(n))
  <2>1. UNCHANGED <<held, gated, said, outstanding>>
    BY <1>7 DEF LayerOne, FlushReleases, ReadText, DmFlush, bridgeVars, peerVars
  <2>2. QED
    BY <1>4, <2>1
<1>8. CASE TickStat \/ TickRead \/ PacerDies \/ Edit \/ (\E n \in Nick : HourPasses(n)) \/ UNCHANGED vars
  <2>1. UNCHANGED <<held, gated, said, outstanding>>
    BY <1>8 DEF TickStat, TickRead, PacerDies, Edit, HourPasses, vars, bridgeVars, peerVars, history
  <2>2. QED
    BY <1>4, <2>1
<1>9. ASSUME NEW p \in Person, SayEncrypted(p) \/ ClientAcks(p) \/ Move(p) PROVE AskedOfItsKey'
  <2>1. UNCHANGED <<held, gated, said, outstanding>>
    BY <1>9 DEF SayEncrypted, ClientAcks, Move, bridgeVars, peerVars, history
  <2>2. QED
    BY <1>4, <2>1
<1>10. ASSUME NEW p \in Person, NEW form \in {"pm", "order", "chatter"}, Say(p, form)
       PROVE  AskedOfItsKey'
  <2>1. UNCHANGED <<held, gated, outstanding>>
    BY <1>10 DEF Say, bridgeVars, history
  <2>2. Spoken \subseteq Spoken'
    BY <1>10, SaidGrows
  <2>3. QED
    BY <1>1, <2>1, <2>2, AskedKept
<1>11. QED
  BY <1>2, <1>5, <1>6, <1>7, <1>8, <1>9, <1>10 DEF Next, handle_server_line

\* The invariant of the gate.
OrderInv == Known /\ Once /\ AskedOfItsKey

\* The invariant holds at first.
LEMMA OrderInvInit == Init => OrderInv
<1> SUFFICES ASSUME Init PROVE OrderInv
  OBVIOUS
<1>1. Known
  BY KnownInit
<1>2. Once
  <2>1. Len(said) = 0
    BY DEF Init
  <2>2. \A l \in Line : ends[l] = << >>
    BY DEF Init
  <2>3. \A l \in Line : Len(ends[l]) = 0
    BY <2>2
  <2>4. Spoken = {}
    BY <2>1 DEF Spoken
  <2>5. QED
    BY <2>3, <2>4 DEF Once, Ended
<1>3. AskedOfItsKey
  BY DEF Init, AskedOfItsKey
<1>4. QED
  BY <1>1, <1>2, <1>3 DEF OrderInv

\* Every step keeps it.
LEMMA OrderInvStep == OrderInv /\ [Next]_vars => OrderInv'
  BY KnownStep, OnceStep, AskedStep DEF OrderInv

\* It always holds.
THEOREM AlwaysInOrder == Spec => []OrderInv
<1>1. QED
  BY OrderInvInit, OrderInvStep, PTL DEF Spec

\* A line is never lost, nor ended twice, nor in two places.
THEOREM EveryLineAlwaysOnce == Spec => []EveryLineOnce
<1>1. OrderInv => EveryLineOnce
  BY OnceIsEveryLineOnce DEF OrderInv, Once
<1>2. QED
  BY <1>1, AlwaysInOrder, PTL

\* The counts after a step are numbers.
LEMMA PlacesNext ==
    ASSUME Known', NEW l \in Spoken'
    PROVE  /\ OnWire(l)' \in Nat /\ InHand(l)' \in Nat /\ InFlush(l)' \in Nat
           /\ Parked(l)' \in Nat /\ Asked(l)' \in Nat /\ Ended(l)' \in Nat
<1>1. /\ toBot' \in Seq(WireLine) /\ hand' \in Seq(Held) /\ flushing' \in Seq(Line)
      /\ dm_held' \in [Nick -> Seq(Line)]
      /\ ends' \in [Line -> Seq({"TRUSTED", "UNTRUSTED", "DROPPED"})]
      /\ said' \in Seq(Saying) /\ Len(said') <= MaxLines /\ MaxLines \in Nat
  BY OrderAssumption DEF Known, TypeOK, LinesKnown, WireLine, PlainLine, TextLine, AckLine, Held, Saying
<1>2. l \in Line /\ said'[l].nick \in Nick
  <2>1. Len(said') \in Nat /\ DOMAIN said' = 1 .. Len(said')
    BY <1>1
  <2>2. said'[l] \in Saying
    BY <1>1, <2>1 DEF Spoken
  <2>3. QED
    BY <1>1, <2>1, <2>2 DEF Spoken, Line, Saying
<1>3. dm_held'[said'[l].nick] \in Seq(Line) /\ Len(ends'[l]) \in Nat
  BY <1>1, <1>2
<1>4. OnWire(l)' \in Nat
  BY <1>1, CountType DEF OnWire
<1>5. InHand(l)' \in Nat
  BY <1>1, CountType DEF InHand
<1>6. InFlush(l)' \in Nat
  BY <1>1, CountType DEF InFlush
<1>7. Parked(l)' \in Nat
  BY <1>3, CountType DEF Parked
<1>8. QED
  BY <1>3, <1>4, <1>5, <1>6, <1>7 DEF Asked, Ended

\* The line that a step ends had not ended, and is vouched for if it ends so.
LEMMA EndsFirst ==
    ASSUME OrderInv, [Next]_vars, said' = said, NEW l \in Line, ends'[l] # ends[l]
    PROVE  /\ l \in Spoken /\ ends[l] = << >>
           /\ \E how \in Fates : /\ ends'[l] = <<how>>
                                 /\ how = "TRUSTED" => gated'[l] \in {NoKey, said[l].by}
<1>1. Known /\ Once /\ AskedOfItsKey
  BY DEF OrderInv
<1>2. Once' /\ Known'
  BY <1>1, OnceStep, KnownStep
<1>3. PICK how \in Fates : /\ l \in Spoken
                           /\ ends'[l] = Append(ends[l], how)
                           /\ how = "TRUSTED" => gated'[l] \in {NoKey, said[l].by}
  BY <1>1, EndsStep DEF EndsWell
<1>4. ends[l] \in Seq(Fates)
  BY <1>1, KnownTyped DEF LinesTyped, Fates
<1>5. Len(ends'[l]) = Len(ends[l]) + 1 /\ Len(ends[l]) \in Nat
  <2>1. Len(Append(ends[l], how)) = Len(ends[l]) + 1 /\ Len(ends[l]) \in Nat
    BY <1>4, AppendProperties
  <2>2. QED
    BY <1>3, <2>1
<1>6. Len(ends'[l]) <= 1
  <2>1. l \in Spoken'
    BY <1>3 DEF Spoken
  <2>2. Places(l)' = 1
    BY <1>2, <2>1 DEF Once
  <2>3. /\ OnWire(l)' \in Nat /\ InHand(l)' \in Nat /\ InFlush(l)' \in Nat
        /\ Parked(l)' \in Nat /\ Asked(l)' \in Nat /\ Ended(l)' \in Nat
    BY <1>2, <2>1, PlacesNext
  <2>4. QED
    BY <2>2, <2>3 DEF Places, Ended
<1>7. Len(ends[l]) = 0
  BY <1>5, <1>6
<1>8. ends[l] = << >>
  BY <1>4, <1>7, EmptySeq
<1>9. ends'[l] = <<how>>
  BY <1>3, <1>8
<1>10. QED
  BY <1>3, <1>8, <1>9

\* A line that has ended is not gated again.
LEMMA GatedStays ==
    ASSUME OrderInv, [Next]_vars, NEW l \in Line, Ended(l) > 0
    PROVE  gated'[l] = gated[l]
<1>1. Known /\ Once
  BY DEF OrderInv
<1>2. CASE ReadPlain \/ FlushOne
  <2>1. PICK k \in Spoken, next \in {"layer1", "release"} : GatePlaintext(k, next) /\ Ended(k) = 0
    BY <1>1, <1>2, GatedFresh
  <2>2. l # k
    BY <2>1
  <2>3. QED
    BY <1>1, <2>1, <2>2, GateKnown
<1>3. CASE LayerOne \/ FlushReleases \/ ReadText \/ ReadAck \/ (\E n \in Nick : DmFlush(n))
  BY <1>3 DEF LayerOne, FlushReleases, ReadText, ReadAck, DmFlush
<1>4. CASE \/ TickStat \/ TickRead \/ TickExpires \/ PacerDies \/ Edit \/ UNCHANGED vars
           \/ (\E n \in Nick : HourPasses(n))
  BY <1>4 DEF TickStat, TickRead, TickExpires, PacerDies, Edit, HourPasses, vars, history
<1>5. ASSUME NEW p \in Person, \/ SayEncrypted(p) \/ ClientAcks(p) \/ Move(p)
                               \/ \E form \in {"pm", "order", "chatter"} : Say(p, form)
      PROVE  gated'[l] = gated[l]
  BY <1>5 DEF SayEncrypted, ClientAcks, Move, Say, history
<1>6. QED
  BY <1>2, <1>3, <1>4, <1>5 DEF Next, handle_server_line

\* What OrderGate means by vouched for.
Vouched == {l \in 1 .. Len(said) : gated[l] \in {NoKey, said[l].by}}

\* A line said is said in LineFate too.
LEMMA SayRefines ==
    ASSUME OrderInv, NEW p \in Person, NEW form \in {"pm", "order", "chatter"}, Say(p, form)
    PROVE  Promise!Next
<1>1. /\ Spoken' = Spoken \cup {Len(said) + 1} /\ Len(said) + 1 \in Line \ Spoken
      /\ \A l \in Spoken : said'[l] = said[l]
  BY SaidGrows DEF OrderInv
<1>2. UNCHANGED <<ends, gated>>
  BY DEF Say, history
<1> DEFINE new == Len(said) + 1
<1>3. PICK l \in Line : l = new
  BY <1>1
<1>4. Vouched' \in {Vouched, Vouched \cup {l}}
  <2>1. Vouched' = {j \in Spoken \cup {l} : gated[j] \in {NoKey, said'[j].by}}
    BY <1>1, <1>2, <1>3 DEF Vouched, Spoken
  <2>2. Vouched = {j \in Spoken : gated[j] \in {NoKey, said'[j].by}}
    BY <1>1 DEF Vouched, Spoken
  <2>3. QED
    BY <2>1, <2>2
<1>5. Promise!Say(l)
  BY <1>1, <1>2, <1>3, <1>4 DEF Promise!Say, Spoken, Vouched
<1>6. QED
  BY <1>5 DEF Promise!Next

\* Any other step judges the lines it ends.
LEMMA JudgeRefines ==
    ASSUME OrderInv, [Next]_vars, said' = said
    PROVE  Promise!Next
<1> DEFINE L == {l \in Line : ends'[l] # ends[l]}
           fate == [l \in L |-> ends'[l][1]]
<1>1. /\ ends \in [Line -> Seq(Fates)] /\ ends' \in [Line -> Seq(Fates)]
  <2>1. Known /\ Known'
    BY OrderInvStep DEF OrderInv
  <2>2. QED
    BY <2>1 DEF Known, TypeOK, Fates
<1>2. \A l \in L : /\ l \in Spoken /\ ends[l] = << >>
                   /\ fate[l] \in Fates /\ ends'[l] = <<fate[l]>>
                   /\ fate[l] = "TRUSTED" => gated'[l] \in {NoKey, said[l].by}
  <2>1. ASSUME NEW l \in L
        PROVE  /\ l \in Spoken /\ ends[l] = << >>
               /\ fate[l] \in Fates /\ ends'[l] = <<fate[l]>>
               /\ fate[l] = "TRUSTED" => gated'[l] \in {NoKey, said[l].by}
    <3>1. PICK how \in Fates :
             /\ l \in Spoken /\ ends[l] = << >> /\ ends'[l] = <<how>>
             /\ how = "TRUSTED" => gated'[l] \in {NoKey, said[l].by}
      BY EndsFirst
    <3>2. fate[l] = how
      BY <3>1
    <3> HIDE DEF fate
    <3>3. QED
      BY <3>1, <3>2
  <2>2. QED
    BY <2>1
<1>3. L \in SUBSET Promise!Open
  BY <1>2 DEF Promise!Open, Spoken
<1>4. Vouched' \in SUBSET (1 .. Len(said))
  BY DEF Vouched
<1>5. Vouched \ Promise!Open \subseteq Vouched'
  <2>1. ASSUME NEW l \in Vouched, l \notin Promise!Open PROVE l \in Vouched'
    <3>1. l \in Spoken /\ ends[l] # << >> /\ gated[l] \in {NoKey, said[l].by}
      BY <2>1 DEF Vouched, Promise!Open, Spoken
    <3>2. l \in Line
      BY <3>1, SpokenLine DEF OrderInv
    <3>3. Ended(l) > 0
      BY <1>1, <3>1, <3>2, EmptySeq DEF Ended
    <3>4. gated'[l] = gated[l]
      BY <3>2, <3>3, GatedStays
    <3>5. QED
      BY <3>1, <3>4 DEF Vouched, Spoken
  <2>2. QED
    BY <2>1
<1>6. fate \in [L -> Fates]
  BY <1>2
<1>7. ends' = [l \in Line |-> IF l \in L THEN <<fate[l]>> ELSE ends[l]]
  <2>1. \A l \in Line : ends'[l] = IF l \in L THEN <<fate[l]>> ELSE ends[l]
    BY <1>2
  <2> HIDE DEF L, fate
  <2>2. QED
    BY <1>1, <2>1
<1>8. \A l \in L : fate[l] \in {"TRUSTED"} => l \in Vouched'
  BY <1>2 DEF Vouched, Spoken
<1> HIDE DEF L, fate
<1>9. \E f \in [L -> Fates] :
         /\ ends' = [l \in Line |-> IF l \in L THEN <<f[l]>> ELSE ends[l]]
         /\ \A l \in L : f[l] \in {"TRUSTED"} => l \in Vouched'
  BY <1>6, <1>7, <1>8
<1>10. ASSUME NEW M, M = L PROVE Promise!Judge(M)
  BY <1>4, <1>5, <1>9, <1>10 DEF Promise!Judge, Vouched, Fates
<1>11. QED
  BY <1>3, <1>10 DEF Promise!Next

\* The gate of the pinned keys keeps the promise of LineFate: each line ends at
\* most once, and TRUSTED only under layer 1 or the key of its author.
THEOREM OrderGateImplementsLineFate == Spec => ImplementsLineFate
<1>1. Init => Promise!Init
  <2> SUFFICES ASSUME Init PROVE Promise!Init
    OBVIOUS
  <2>1. Len(said) = 0 /\ ends = [l \in Line |-> << >>]
    BY DEF Init
  <2>2. 1 .. Len(said) = {}
    BY <2>1
  <2>3. QED
    BY <2>1, <2>2 DEF Promise!Init
<1>2. OrderInv /\ [Next]_vars => [Promise!Next]_Promise!vars
  <2> SUFFICES ASSUME OrderInv, [Next]_vars PROVE Promise!Next
    OBVIOUS
  <2>1. CASE said' = said
    BY <2>1, JudgeRefines
  <2>2. ASSUME NEW p \in Person, NEW form \in {"pm", "order", "chatter"}, Say(p, form)
        PROVE  Promise!Next
    BY <2>2, SayRefines
  <2>3. ASSUME NEW p \in Person, SayEncrypted(p) \/ ClientAcks(p) \/ Move(p)
        PROVE  said' = said
    BY <2>3 DEF SayEncrypted, ClientAcks, Move, peerVars
  <2>4. CASE handle_server_line \/ TickExpires
    <3>1. said' = said
      BY <2>4 DEF handle_server_line, ReadPlain, ReadText, ReadAck, LayerOne, FlushOne, FlushReleases,
                DmFlush, TickExpires, peerVars
    <3>2. QED
      BY <2>1, <3>1
  <2>5. CASE TickStat \/ TickRead \/ PacerDies \/ Edit \/ (\E n \in Nick : HourPasses(n)) \/ UNCHANGED vars
    <3>1. said' = said
      BY <2>5 DEF TickStat, TickRead, PacerDies, Edit, HourPasses, vars, peerVars
    <3>2. QED
      BY <2>1, <3>1
  <2>6. QED
    BY <2>1, <2>2, <2>3, <2>4, <2>5 DEF Next
<1>3. QED
  BY <1>1, <1>2, AlwaysInOrder, PTL DEF Spec, ImplementsLineFate, Promise!Spec
==============================================================================
