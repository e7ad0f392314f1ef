---------------------------- MODULE ThreadsProofs ----------------------------
(***************************************************************************)
(* Proofs about the bot's smaller threads, the components MCThreads checks *)
(* next to OrderGate.                                                      *)
(***************************************************************************)
EXTENDS IdleTick, DccSend, Fifo, ReplyPath, SequenceTheorems, FiniteSetTheorems,
        WellFoundedInduction, TLAPS

-----------------------------------------------------------------------------
(* IdleTick.  Once per silence, whatever the channels and the range of     *)
(* their delays.                                                           *)

\* Whether the ticker has an IDLE of c in hand, as a number.
LEMMA InHand ==
    ASSUME NEW c, NEW S
    PROVE  Cardinality(S \cap {c}) = IF c \in S THEN 1 ELSE 0
<1>1. CASE c \in S
  <2>1. S \cap {c} = {c}
    BY <1>1
  <2>2. QED
    BY <1>1, <2>1, FS_Singleton
<1>2. CASE c \notin S
  <2>1. S \cap {c} = {}
    BY <1>2
  <2>2. QED
    BY <1>2, <2>1, FS_EmptySet
<1>3. QED
  BY <1>1, <1>2

\* OneIdlePerSilence without the cardinality.
Owed(c) == idles[c] + (IF c \in fired THEN 1 ELSE 0) + (IF Armed(c) THEN 1 ELSE 0) <= humans[c]
LongEnough(c) == Armed(c) => idle_state[c] + silent[c] >= Lo
IdleInv == IdleTypeOK /\ \A c \in IdleChan : Owed(c) /\ LongEnough(c)

LEMMA IdleInvIsOneIdlePerSilence == IdleInv => OneIdlePerSilence
BY InHand DEF IdleInv, Owed, LongEnough, OneIdlePerSilence

LEMMA IdleInvInit == IdleInit => IdleInv
BY IdleAssumption DEF IdleInit, IdleInv, IdleTypeOK, Owed, LongEnough, Armed, Disarmed

LEMMA IdleInvHuman ==
    ASSUME IdleInv, NEW c \in IdleChan, Human(c)
    PROVE  IdleInv'
<1> USE IdleAssumption DEF IdleInv, IdleTypeOK, Human, Armed, Disarmed
<1>1. IdleTypeOK'
  OBVIOUS
<1>2. ASSUME NEW d \in IdleChan PROVE (Owed(d) /\ LongEnough(d))'
  BY DEF Owed, LongEnough
<1>3. QED
  BY <1>1, <1>2

LEMMA IdleInvTenSeconds ==
    ASSUME IdleInv, TenSeconds
    PROVE  IdleInv'
<1> USE IdleAssumption DEF IdleInv, IdleTypeOK, TenSeconds, Armed, Disarmed
<1>1. IdleTypeOK'
  <2>1. idle_state' \in [IdleChan -> 0 .. Disarmed] /\ silent' \in [IdleChan -> 0 .. Hi]
    OBVIOUS
  <2>2. looked' \in BOOLEAN /\ fired' \subseteq IdleChan
    OBVIOUS
  <2>3. QED
    BY <2>1, <2>2
<1>2. ASSUME NEW d \in IdleChan PROVE (Owed(d) /\ LongEnough(d))'
  BY DEF Owed, LongEnough
<1>3. QED
  BY <1>1, <1>2

LEMMA IdleInvLook ==
    ASSUME IdleInv, Look
    PROVE  IdleInv'
<1> USE IdleAssumption DEF IdleInv, IdleTypeOK, Look, Armed, Disarmed
<1>1. IdleTypeOK'
  OBVIOUS
<1>2. ASSUME NEW d \in IdleChan PROVE (Owed(d) /\ LongEnough(d))'
  BY DEF Owed, LongEnough
<1>3. QED
  BY <1>1, <1>2

\* One IDLE more is one owed before, so idles stays within the lines of humans.
LEMMA IdleInvAnnounce ==
    ASSUME IdleInv, NEW c \in IdleChan, Announce(c)
    PROVE  IdleInv'
<1> USE IdleAssumption DEF IdleInv, IdleTypeOK, Announce, Armed, Disarmed
<1>1. idles[c] + 1 <= humans[c]
  BY DEF Owed
<1>2. IdleTypeOK'
  BY <1>1
<1>3. ASSUME NEW d \in IdleChan PROVE (Owed(d) /\ LongEnough(d))'
  BY DEF Owed, LongEnough
<1>4. QED
  BY <1>2, <1>3

LEMMA IdleInvInductive == IdleInv /\ [IdleNext]_idleVars => IdleInv'
<1> SUFFICES ASSUME IdleInv, [IdleNext]_idleVars PROVE IdleInv'
  OBVIOUS
<1>1. CASE UNCHANGED idleVars
  BY <1>1 DEF idleVars, IdleInv, IdleTypeOK, Owed, LongEnough, Armed
<1>2. CASE IdleNext
  BY <1>2, IdleInvHuman, IdleInvTenSeconds, IdleInvLook, IdleInvAnnounce DEF IdleNext, idle_ticker_loop
<1>3. QED
  BY <1>1, <1>2

(* A silence is worth one IDLE at most, though the ticker says it after it  *)
(* has let the lock go (bot.py, idle_ticker_loop).                          *)
THEOREM OneIdleAlways == IdleSpec => []OneIdlePerSilence
<1>1. IdleSpec => []IdleInv
  BY IdleInvInit, IdleInvInductive, PTL DEF IdleSpec
<1>2. QED
  BY <1>1, IdleInvIsOneIdlePerSilence, PTL

\* The types; no count exceeds the lines of humans, nor a silence the range.
THEOREM IdleTypeCorrect == IdleSpec => []IdleTypeOK
<1>1. IdleInv => IdleTypeOK
  BY DEF IdleInv
<1>2. QED
  BY <1>1, IdleInvInit, IdleInvInductive, PTL DEF IdleSpec

-----------------------------------------------------------------------------
(* DccSend.  What a peer gets, for any range of ports, any number of       *)
(* offers, any file and any buffer.                                        *)

\* The first free port is one of them.
LEMMA MinIsIn ==
    ASSUME NEW S \in SUBSET Nat, S # {}
    PROVE  Min(S) \in S
<1> DEFINE LT == {ss \in Nat \X Nat : ss[1] < ss[2]}
<1>1. IsWellFoundedOn(LT, Nat)
  BY NatLessThanWellFounded, Zenon DEF OpToRel
<1> HIDE DEF LT
<1>2. PICK x \in S : \A y \in S : <<y, x>> \notin LT
  BY <1>1, WFMin, Zenon
<1>3. ASSUME NEW y \in S PROVE x <= y
  <2>1. x \in Nat /\ y \in Nat /\ <<y, x>> \notin LT
    BY <1>2
  <2>2. y < x => <<y, x>> \in LT
    BY <2>1 DEF LT
  <2>3. QED
    BY <2>1, <2>2
<1>4. QED
  BY <1>3 DEF Min

-----------------------------------------------------------------------------
Visited == {"sends", "drains", "DCC_DONE", "DCC_ERROR"}
TimedOut(n) == \E q \in Offer : phase[q] = "DCC_TIMEOUT" /\ port[q] = n

\* An offer has a visitor from its accept on; a peer visits one offer, and
\* only after its own was made.
Visits ==
    /\ \A o \in Offer : visitor[o] # 0 <=> phase[o] \in Visited
    /\ \A o, p \in Offer : visitor[o] # 0 /\ visitor[o] = visitor[p] => o = p
    /\ \A o \in Offer : visitor[o] # 0 => peer[visitor[o]] \in {"reads", "gone"}
    /\ \A o \in Offer : phase[o] = "none" => peer[o] = "away"

\* Blocks are sent, then received; the half-close comes after the last.
Sent ==
    /\ \A o \in Offer : flow[o].got <= flow[o].sent
    /\ \A o \in Offer : phase[o] \in {"drains", "DCC_DONE"} => flow[o].sent = Blocks

\* A peer that went had it all, or was reset, or was slow.
Leaves ==
    /\ reset \subseteq {o \in Offer : phase[o] \in Ended}
    /\ \A o \in Offer : visitor[o] # 0 /\ peer[visitor[o]] = "gone"
                          => o \in slow \/ o \in reset \/ flow[o].got = Blocks

\* Without a timeout a transfer ends well, and after its peer has left.
EndsWell ==
    \A o \in Offer \ slow :
        /\ o \notin reset /\ phase[o] # "DCC_ERROR"
        /\ phase[o] = "DCC_DONE" => flow[o].got = Blocks /\ peer[visitor[o]] = "gone"

\* One listener per port; a peer that has not called yet finds its own offer
\* there, unless one of that port has timed out.
Called ==
    /\ \A o, p \in Offer : phase[o] = "listens" /\ phase[p] = "listens" /\ port[o] = port[p] => o = p
    /\ \A p \in Offer : peer[p] = "knows" => phase[p] = "listens" \/ TimedOut(port[p])
    /\ \A o \in Offer : visitor[o] \notin {0, o} => TimedOut(port[o])

DccInv == DccTypeOK /\ Visits /\ Sent /\ Leaves /\ EndsWell /\ Called

LEMMA DccInvIsReadersGetTheirFile == DccInv => ReadersGetTheirFile
BY DEF DccInv, EndsWell, Called, TimedOut, ReadersGetTheirFile

LEMMA DccInvInit == DccInit => DccInv
BY DccAssumption DEF DccInit, DccInv, DccTypeOK, Visits, Sent, Leaves, EndsWell, Called, Visited,
    TimedOut, Ended, Offer, Flow

\* A new offer takes a port nobody listens on.
LEMMA DccInv_dcc_send ==
    ASSUME DccInv, NEW o \in Offer, dcc_send(o)
    PROVE  DccInv'
<1> USE DccAssumption DEF DccInv, DccTypeOK, Offer, Flow
<1>1. phase[o] = "none" /\ visitor[o] = 0
  BY DEF dcc_send, Visits, Visited
<1>2. UNCHANGED <<visitor, flow, slow, reset>>
  BY DEF dcc_send
<1>3. CASE FreePorts = {}
  <2>1. phase' = [phase EXCEPT ![o] = "CMD_ERROR"] /\ UNCHANGED <<port, peer>>
    BY <1>3 DEF dcc_send
  <2>2. DccTypeOK'
    BY <1>2, <2>1 DEF Ended
  <2>3. (Visits /\ Sent)'
    BY <1>1, <1>2, <2>1 DEF Visits, Visited, Sent
  <2>4. (Leaves /\ EndsWell)'
    BY <1>1, <1>2, <2>1 DEF Leaves, EndsWell, Ended
  <2>5. Called'
    BY <1>1, <1>2, <2>1 DEF Called, TimedOut
  <2>6. QED
    BY <2>2, <2>3, <2>4, <2>5
<1>4. CASE FreePorts # {}
  <2> DEFINE n == Min(FreePorts)
  <2>1. n \in Ports /\ \A p \in Offer : phase[p] = "listens" => port[p] # n
    <3>1. FreePorts \in SUBSET Nat
      BY DEF FreePorts
    <3>2. n \in FreePorts
      BY <1>4, <3>1, MinIsIn
    <3>3. QED
      BY <3>2 DEF FreePorts
  <2>2. /\ phase' = [phase EXCEPT ![o] = "listens"]
        /\ port' = [port EXCEPT ![o] = n]
        /\ peer' = [peer EXCEPT ![o] = "knows"]
    BY <1>4 DEF dcc_send
  <2> HIDE DEF n
  <2>3. DccTypeOK'
    BY <1>2, <2>1, <2>2
  <2>4. (Visits /\ Sent)'
    <3>1. \A p \in Offer : visitor[p] # o
      <4>1. peer[o] = "away" /\ o # 0
        BY <1>1 DEF Visits
      <4>2. QED
        BY <4>1 DEF Visits
    <3>2. QED
      BY <1>1, <1>2, <2>2, <3>1 DEF Visits, Visited, Sent
  <2>5. (Leaves /\ EndsWell)'
    <3>1. Leaves'
      BY <1>1, <1>2, <2>2, SMTT(30) DEF Leaves, Ended
    <3>2. ASSUME NEW p \in Offer \ slow
          PROVE  /\ p \notin reset /\ phase'[p] # "DCC_ERROR"
                 /\ phase'[p] = "DCC_DONE" => flow[p].got = Blocks /\ peer'[visitor[p]] = "gone"
      <4>1. p # o /\ phase'[p] = "DCC_DONE" => visitor[p] \in Offer \ {o}
        <5>1. visitor[p] # o
          <6>1. peer[o] = "away" /\ o # 0
            BY <1>1 DEF Visits
          <6>2. QED
            BY <3>2, <6>1 DEF Visits
        <5>2. QED
          <6>1. phase'[p] = "DCC_DONE" => p # o /\ phase[p] = "DCC_DONE"
            BY <2>2, <3>2
          <6>2. phase[p] = "DCC_DONE" => visitor[p] # 0
            BY <3>2 DEF Visits, Visited
          <6>3. visitor[p] \in Offer \cup {0} /\ visitor[p] # o
            BY <3>2, <5>1
          <6>4. QED
            BY <6>1, <6>2, <6>3
      <4>2. QED
        BY <1>1, <1>2, <2>2, <3>2, <4>1 DEF EndsWell
    <3>3. QED
      BY <1>2, <2>2, <3>1, <3>2 DEF EndsWell
  <2>6. Called'
    <3>1. \A m : TimedOut(m) => TimedOut(m)'
      BY <1>1, <2>2 DEF TimedOut
    <3>2. QED
      BY <1>1, <1>2, <2>1, <2>2, <3>1 DEF Called
  <2>7. QED
    BY <2>3, <2>4, <2>5, <2>6
<1>5. QED
  BY <1>3, <1>4

\* A peer that calls another's offer does so after a timeout on that port.
LEMMA DccInv_Accept ==
    ASSUME DccInv, NEW o \in Offer, NEW p \in Offer, Accept(o, p)
    PROVE  DccInv'
<1> USE DccAssumption DEF DccInv, DccTypeOK, Offer, Flow
<1>1. PICK acks \in BOOLEAN : flow' = [flow EXCEPT ![o].acks = acks]
  BY DEF Accept
<1>2. /\ peer[p] = "knows" /\ port[p] = port[o] /\ phase[o] = "listens"
      /\ phase' = [phase EXCEPT ![o] = "sends"]
      /\ visitor' = [visitor EXCEPT ![o] = p]
      /\ peer' = [peer EXCEPT ![p] = "reads"]
      /\ UNCHANGED <<port, slow, reset>>
  BY DEF Accept
<1>3. \A q \in Offer : flow'[q].sent = flow[q].sent /\ flow'[q].got = flow[q].got
  BY <1>1
<1>4. DccTypeOK'
  <2>1. flow' \in [Offer -> Flow]
    <3> DEFINE r == [flow[o] EXCEPT !.acks = acks]
    <3>1. r \in Flow
      <4>1. flow[o] \in Flow
        OBVIOUS
      <4>2. QED
        BY <4>1
    <3>2. flow' = [flow EXCEPT ![o] = r]
      BY <1>1
    <3>3. QED
      BY <3>1, <3>2
  <2>2. QED
    BY <1>2, <2>1
<1>5. Visits'
  <2>1. visitor[o] = 0
    BY <1>2 DEF Visits, Visited
  <2>2. \A q \in Offer : visitor[q] # p
    <3>1. p # 0
      OBVIOUS
    <3>2. QED
      BY <1>2, <3>1 DEF Visits
  <2>3. QED
    BY <1>2, <2>1, <2>2 DEF Visits, Visited
<1>6. Sent'
  BY <1>2, <1>3 DEF Sent
<1>7. (Leaves /\ EndsWell)'
  <2>1. \A q \in Offer : q # o /\ visitor[q] # 0 => visitor[q] # p /\ peer'[visitor[q]] = peer[visitor[q]]
    BY <1>2 DEF Visits
  <2>2. peer'[visitor'[o]] = "reads"
    BY <1>2
  <2>3. Leaves'
    <3>1. (reset \subseteq {q \in Offer : phase[q] \in Ended})'
      BY <1>2 DEF Leaves, Ended
    <3>2. ASSUME NEW q \in Offer, visitor'[q] # 0, peer'[visitor'[q]] = "gone"
          PROVE  q \in slow \/ q \in reset \/ flow[q].got = Blocks
      <4>1. q # o
        BY <2>2, <3>2
      <4>2. visitor'[q] = visitor[q]
        BY <1>2, <4>1
      <4>3. QED
        BY <2>1, <3>2, <4>1, <4>2 DEF Leaves
    <3>3. QED
      BY <1>2, <1>3, <3>1, <3>2 DEF Leaves
  <2>4. EndsWell'
    BY <1>2, <1>3 DEF EndsWell
  <2>5. QED
    BY <2>3, <2>4
<1>8. Called'
  <2>1. \A m : TimedOut(m) => TimedOut(m)'
    BY <1>2 DEF TimedOut
  <2>2. o = p \/ TimedOut(port[o])
    BY <1>2 DEF Called
  <2>3. \A q \in Offer : peer'[q] = "knows" => phase'[q] = "listens" \/ TimedOut(port[q])'
    BY <1>2, <2>1, <2>2 DEF Called
  <2>4. QED
    BY <1>2, <2>1, <2>2, <2>3 DEF Called
<1>9. QED
  BY <1>4, <1>5, <1>6, <1>7, <1>8

LEMMA DccInv_AcceptTimesOut ==
    ASSUME DccInv, NEW o \in Offer, AcceptTimesOut(o)
    PROVE  DccInv'
<1> USE DccAssumption DEF DccInv, DccTypeOK, AcceptTimesOut, Offer, Flow
<1>1. DccTypeOK'
  <2>1. phase' \in [Offer -> Ended \cup {"none", "listens", "sends", "drains"}]
    BY DEF Ended
  <2>2. port' \in [Offer -> Ports \cup {0}] /\ visitor' \in [Offer -> Offer \cup {0}]
    OBVIOUS
  <2>3. peer' \in [Offer -> {"away", "knows", "reads", "gone"}]
    OBVIOUS
  <2>4. flow' \in [Offer -> Flow]
    BY DEF Sent
  <2>5. slow' \subseteq Offer /\ reset' \subseteq Offer
    OBVIOUS
  <2>6. QED
    BY <2>1, <2>2, <2>3, <2>4, <2>5
<1>2. Visits'
  BY DEF Visits, Visited
<1>3. Sent'
  BY DEF Sent
<1>4. Leaves'
  BY DEF Leaves, Visits, Visited, Sent, Ended
<1>5. EndsWell'
  BY DEF EndsWell, Leaves, Visits, Visited, Sent, Ended
<1>6. Called'
  BY DEF Called, Visits, Visited, TimedOut
<1>7. QED
  BY <1>1, <1>2, <1>3, <1>4, <1>5, <1>6

LEMMA DccInv_SendBlock ==
    ASSUME DccInv, NEW o \in Offer, SendBlock(o)
    PROVE  DccInv'
<1> USE DccAssumption DEF DccInv, DccTypeOK, SendBlock, PeerReading, Offer, Flow
<1>1. DccTypeOK'
  <2>1. phase' \in [Offer -> Ended \cup {"none", "listens", "sends", "drains"}]
    BY DEF Ended
  <2>2. port' \in [Offer -> Ports \cup {0}] /\ visitor' \in [Offer -> Offer \cup {0}]
    OBVIOUS
  <2>3. peer' \in [Offer -> {"away", "knows", "reads", "gone"}]
    OBVIOUS
  <2>4. flow' \in [Offer -> Flow]
    <3> DEFINE r == [flow[o] EXCEPT !.sent = @ + 1]
    <3>1. r \in Flow
      <4>1. flow[o] \in Flow
        OBVIOUS
      <4>2. flow[o].sent + 1 \in 0 .. Blocks
        BY <4>1 DEF Sent
      <4>3. QED
        BY <4>1, <4>2
    <3>2. flow' = [flow EXCEPT ![o] = r]
      OBVIOUS
    <3>3. QED
      BY <3>1, <3>2, SMTT(30)
  <2>5. slow' \subseteq Offer /\ reset' \subseteq Offer
    OBVIOUS
  <2>6. QED
    BY <2>1, <2>2, <2>3, <2>4, <2>5
<1>2. Visits'
  BY DEF Visits, Visited
<1>3. Sent'
  BY SMTT(30) DEF Sent
<1>4. Leaves'
  BY DEF Leaves, Visits, Visited, Sent, Ended
<1>5. EndsWell'
  BY DEF EndsWell, Leaves, Visits, Visited, Sent, Ended
<1>6. Called'
  BY SMTT(30) DEF Called, Visits, Visited, TimedOut
<1>7. QED
  BY <1>1, <1>2, <1>3, <1>4, <1>5, <1>6

LEMMA DccInv_SendFails ==
    ASSUME DccInv, NEW o \in Offer, SendFails(o)
    PROVE  DccInv'
<1> USE DccAssumption DEF DccInv, DccTypeOK, SendFails, PeerReading, CloseAs, Offer, Flow
<1>1. DccTypeOK'
  <2>1. phase' \in [Offer -> Ended \cup {"none", "listens", "sends", "drains"}]
    BY DEF Ended
  <2>2. port' \in [Offer -> Ports \cup {0}] /\ visitor' \in [Offer -> Offer \cup {0}]
    OBVIOUS
  <2>3. peer' \in [Offer -> {"away", "knows", "reads", "gone"}]
    OBVIOUS
  <2>4. flow' \in [Offer -> Flow]
    BY DEF Sent
  <2>5. slow' \subseteq Offer /\ reset' \subseteq Offer
    <3>1. slow \subseteq Offer /\ reset \subseteq Offer
      OBVIOUS
    <3>2. slow' \in {slow, slow \cup {o}}
      OBVIOUS
    <3>3. reset' \in {reset, reset \cup {o}}
      OBVIOUS
    <3> HIDE DEF DccInv, DccTypeOK, SendFails, PeerReading, CloseAs
    <3>4. QED
      BY <3>1, <3>2, <3>3
  <2>6. QED
    BY <2>1, <2>2, <2>3, <2>4, <2>5
<1>2. Visits'
  BY DEF Visits, Visited
<1>3. Sent'
  BY DEF Sent
<1>4. Leaves'
  <2>1. reset' \subseteq {p \in Offer : phase'[p] \in Ended}
    BY DEF Leaves, Ended
  <2>2. ASSUME NEW p \in Offer, visitor'[p] # 0, peer'[visitor'[p]] = "gone"
        PROVE  p \in slow' \/ p \in reset' \/ flow'[p].got = Blocks
    BY <2>2 DEF Leaves
  <2>3. QED
    BY <2>1, <2>2 DEF Leaves
<1>5. EndsWell'
  BY SMTT(30) DEF EndsWell, Leaves, Visits, Visited, Sent, Ended
<1>6. Called'
  BY DEF Called, Visits, Visited, TimedOut
<1>7. QED
  BY <1>1, <1>2, <1>3, <1>4, <1>5, <1>6

LEMMA DccInv_EndOfFile ==
    ASSUME DccInv, NEW o \in Offer, EndOfFile(o)
    PROVE  DccInv'
<1> USE DccAssumption DEF DccInv, DccTypeOK, EndOfFile, Offer, Flow
<1>1. DccTypeOK'
  OBVIOUS
<1>2. Visits'
  BY DEF Visits, Visited
<1>3. Sent'
  BY DEF Sent
<1>4. Leaves'
  BY DEF Leaves, Visits, Visited, Sent, Ended
<1>5. EndsWell'
  BY DEF EndsWell, Leaves, Visits, Visited, Sent, Ended
<1>6. Called'
  BY DEF Called, Visits, Visited, TimedOut
<1>7. QED
  BY <1>1, <1>2, <1>3, <1>4, <1>5, <1>6

LEMMA DccInv_DrainReads ==
    ASSUME DccInv, NEW o \in Offer, DrainReads(o)
    PROVE  DccInv'
<1> USE DccAssumption DEF DccInv, DccTypeOK, DrainReads, Offer, Flow
<1>1. DccTypeOK'
  <2>1. flow[o] \in Flow /\ [flow[o] EXCEPT !.read = flow[o].got, !.more = FALSE] \in Flow
    OBVIOUS
  <2>2. flow' = [flow EXCEPT ![o] = [flow[o] EXCEPT !.read = flow[o].got, !.more = FALSE]]
    OBVIOUS
  <2>3. flow' \in [Offer -> Flow]
    BY <2>1, <2>2
  <2>4. QED
    BY <2>3
<1>2. Visits'
  BY DEF Visits, Visited
<1>3. Sent'
  BY DEF Sent
<1>4. Leaves'
  BY DEF Leaves, Visits, Visited, Sent, Ended
<1>5. EndsWell'
  BY DEF EndsWell, Leaves, Visits, Visited, Sent, Ended
<1>6. Called'
  BY SMTT(30) DEF Called, Visits, Visited, TimedOut
<1>7. QED
  BY <1>1, <1>2, <1>3, <1>4, <1>5, <1>6

LEMMA DccInv_DrainEnds ==
    ASSUME DccInv, NEW o \in Offer, DrainEnds(o)
    PROVE  DccInv'
<1> USE DccAssumption DEF DccInv, DccTypeOK, DrainEnds, PeerReading, CloseAs, Offer, Flow
<1>1. DccTypeOK'
  <2>1. phase' \in [Offer -> Ended \cup {"none", "listens", "sends", "drains"}]
    BY DEF Ended
  <2>2. port' \in [Offer -> Ports \cup {0}] /\ visitor' \in [Offer -> Offer \cup {0}]
    OBVIOUS
  <2>3. peer' \in [Offer -> {"away", "knows", "reads", "gone"}]
    OBVIOUS
  <2>4. flow' \in [Offer -> Flow]
    BY DEF Sent
  <2>5. slow' \subseteq Offer /\ reset' \subseteq Offer
    OBVIOUS
  <2>6. QED
    BY <2>1, <2>2, <2>3, <2>4, <2>5
<1>2. Visits'
  BY DEF Visits, Visited
<1>3. Sent'
  BY DEF Sent
<1>4. Leaves'
  BY DEF Leaves, Visits, Visited, Sent, Ended
<1>5. EndsWell'
  BY DEF EndsWell, Leaves, Visits, Visited, Sent, Ended
<1>6. Called'
  BY SMTT(30) DEF Called, Visits, Visited, TimedOut
<1>7. QED
  BY <1>1, <1>2, <1>3, <1>4, <1>5, <1>6

LEMMA DccInv_PeerReads ==
    ASSUME DccInv, NEW o \in Offer, PeerReads(o)
    PROVE  DccInv'
<1> USE DccAssumption DEF DccInv, DccTypeOK, PeerReads, PeerReading, Offer, Flow
<1>1. DccTypeOK'
  <2>1. phase' \in [Offer -> Ended \cup {"none", "listens", "sends", "drains"}]
    BY DEF Ended
  <2>2. port' \in [Offer -> Ports \cup {0}] /\ visitor' \in [Offer -> Offer \cup {0}]
    OBVIOUS
  <2>3. peer' \in [Offer -> {"away", "knows", "reads", "gone"}]
    OBVIOUS
  <2>4. flow' \in [Offer -> Flow]
    <3> DEFINE r == [flow[o] EXCEPT !.got = @ + 1]
    <3>1. r \in Flow
      <4>1. flow[o] \in Flow
        OBVIOUS
      <4>2. flow[o].got + 1 \in 0 .. Blocks
        BY <4>1 DEF Sent
      <4>3. QED
        BY <4>1, <4>2
    <3>2. flow' = [flow EXCEPT ![o] = r]
      OBVIOUS
    <3>3. QED
      BY <3>1, <3>2
  <2>5. slow' \subseteq Offer /\ reset' \subseteq Offer
    OBVIOUS
  <2>6. QED
    BY <2>1, <2>2, <2>3, <2>4, <2>5
<1>2. Visits'
  BY DEF Visits, Visited
<1>3. Sent'
  BY SMTT(30) DEF Sent
<1>4. Leaves'
  BY SMTT(30) DEF Leaves, Visits, Visited, Sent, Ended
<1>5. EndsWell'
  BY SMTT(30) DEF EndsWell, Leaves, Visits, Visited, Sent, Ended
<1>6. Called'
  BY SMTT(30) DEF Called, Visits, Visited, TimedOut
<1>7. QED
  BY <1>1, <1>2, <1>3, <1>4, <1>5, <1>6

LEMMA DccInv_PeerTalks ==
    ASSUME DccInv, NEW o \in Offer, PeerTalks(o)
    PROVE  DccInv'
<1> USE DccAssumption DEF DccInv, DccTypeOK, PeerTalks, PeerReading, Offer
<1>1. /\ flow \in [Offer -> Flow] /\ flow' = [flow EXCEPT ![o] = [flow[o] EXCEPT !.more = TRUE]]
      /\ \A p \in Offer : flow'[p].got = flow[p].got /\ flow'[p].sent = flow[p].sent
  BY DEF Flow
<1>2. DccTypeOK'
  <2>1. flow[o] \in Flow
    BY <1>1
  <2>2. flow' \in [Offer -> Flow]
    <3>1. [flow[o] EXCEPT !.more = TRUE] \in Flow
      BY <2>1 DEF Flow
    <3>2. QED
      BY <1>1, <3>1
  <2>3. slow' = slow /\ (reset' = reset \/ reset' = reset \cup {o})
    OBVIOUS
  <2>4. slow' \subseteq Offer /\ reset' \subseteq Offer
    <3>1. slow \subseteq Offer /\ reset \subseteq Offer /\ o \in Offer
      OBVIOUS
    <3> HIDE DEF DccInv, DccTypeOK, PeerTalks, Offer
    <3>2. QED
      BY <2>3, <3>1
  <2>5. QED
    BY <2>2, <2>4
<1>3. Visits'
  BY DEF Visits, Visited
<1>4. Sent'
  BY <1>1 DEF Sent
<1>5. Leaves'
  BY <1>1, SMTT(30) DEF Leaves, Visits, Visited, Sent, Ended
<1>6. EndsWell'
  BY <1>1, SMTT(30) DEF EndsWell, Leaves, Visits, Visited, Sent, Ended
<1>7. Called'
  BY SMTT(30) DEF Called, Visits, Visited, TimedOut
<1>8. QED
  BY <1>2, <1>3, <1>4, <1>5, <1>6, <1>7

LEMMA DccInv_PeerLeaves ==
    ASSUME DccInv, NEW o \in Offer, PeerLeaves(o)
    PROVE  DccInv'
<1> USE DccAssumption DEF DccInv, DccTypeOK, PeerLeaves, PeerReading, Offer, Flow
<1>1. DccTypeOK'
  OBVIOUS
<1>2. Visits'
  BY DEF Visits, Visited
<1>3. Sent'
  BY DEF Sent
<1>4. Leaves'
  BY SMTT(30) DEF Leaves, Visits, Visited, Sent, Ended
<1>5. EndsWell'
  BY DEF EndsWell, Leaves, Visits, Visited, Sent, Ended
<1>6. Called'
  BY DEF Called, Visits, Visited, TimedOut
<1>7. QED
  BY <1>1, <1>2, <1>3, <1>4, <1>5, <1>6

LEMMA DccInvInductive == DccInv /\ [DccNext]_dccVars => DccInv'
<1> SUFFICES ASSUME DccInv, [DccNext]_dccVars PROVE DccInv'
  OBVIOUS
<1>1. CASE UNCHANGED dccVars
  BY <1>1 DEF dccVars, DccInv, DccTypeOK, Visits, Sent, Leaves, EndsWell, Called, TimedOut
<1>2. CASE DccNext
  BY <1>2, DccInv_dcc_send, DccInv_Accept, DccInv_AcceptTimesOut, DccInv_SendBlock, DccInv_SendFails, DccInv_EndOfFile,
     DccInv_DrainReads, DccInv_DrainEnds, DccInv_PeerReads, DccInv_PeerTalks, DccInv_PeerLeaves DEF DccNext, _dcc_serve
<1>3. QED
  BY <1>1, <1>2

(* A peer that keeps reading gets the whole file, and its own offer's unless *)
(* one of that port timed out uncalled (bot.py, _dcc_serve and _dcc_drain).  *)
THEOREM ReadersAlwaysGetTheirFile == DccSpec => []ReadersGetTheirFile
<1>1. DccSpec => []DccInv
  BY DccInvInit, DccInvInductive, PTL DEF DccSpec
<1>2. QED
  BY <1>1, DccInvIsReadersGetTheirFile, PTL

\* The types; what is sent, received and read of a file is never more than it has.
THEOREM DccTypeCorrect == DccSpec => []DccTypeOK
<1>1. DccInv => DccTypeOK
  BY DEF DccInv
<1>2. QED
  BY <1>1, DccInvInit, DccInvInductive, PTL DEF DccSpec

-----------------------------------------------------------------------------
(* The command pipe: what has run, what is in the thread's hand and what is*)
(* in the pipe are one sequence.                                           *)

Line == Sayer \X Nat
Through == (ran \o inHand) \o inPipe

\* The numbers of the lines of s among the first n of q.
Numbers(q, n, s) == {q[j][2] : j \in {j \in 1 .. n : q[j][1] = s}}

\* Each line of q comes after just those its sayer said before it.
InTurn(q) == \A i \in 1 .. Len(q) : Numbers(q, i - 1, q[i][1]) = 1 .. q[i][2] - 1

\* Who may still write: what it wrote is what is through.
Going(s) == at[s] \in {"ready", "waits"} \/ (at[s] = "writes" /\ writer # "dead")

\* A sayer that has not begun to write has written nothing.
Fresh(s) == at[s] \in {"ready", "waits"} => wrote[s] = 0

FifoInv ==
    /\ FifoTypeOK
    /\ wrote \in [Sayer -> Nat]
    /\ InTurn(Through)
    /\ \A s \in Sayer : Fresh(s) /\ (Going(s) => Numbers(Through, Len(Through), s) = 1 .. wrote[s])

\* The lines of each place.
LEMMA FifoTypes ==
    ASSUME FifoTypeOK
    PROVE  /\ ran \in Seq(Line) /\ inHand \in Seq(Line) /\ inPipe \in Seq(Line)
           /\ ran \o inHand \in Seq(Line) /\ Through \in Seq(Line)
  BY ConcatProperties DEF FifoTypeOK, Line, Through

\* What is in turn stays so when its end is cut off.
LEMMA InTurnPrefix ==
    ASSUME NEW p \in Seq(Line), NEW q \in Seq(Line), InTurn(p \o q)
    PROVE  InTurn(p)
<1>1. /\ Len(p) \in Nat /\ Len(q) \in Nat /\ Len(p \o q) = Len(p) + Len(q)
      /\ \A i \in 1 .. Len(p) : (p \o q)[i] = p[i]
  BY ConcatProperties
<1> DEFINE r == p \o q
<1> HIDE DEF r
<1>2. ASSUME NEW i \in 1 .. Len(p)
      PROVE  Numbers(p, i - 1, p[i][1]) = 1 .. p[i][2] - 1
  <2>1. i \in 1 .. Len(r) /\ r[i] = p[i] /\ \A j \in 1 .. i - 1 : r[j] = p[j]
    BY <1>1 DEF r
  <2>2. Numbers(r, i - 1, r[i][1]) = 1 .. r[i][2] - 1
    BY <2>1 DEF InTurn, r
  <2>3. Numbers(r, i - 1, r[i][1]) = Numbers(p, i - 1, p[i][1])
    BY <2>1 DEF Numbers
  <2>4. QED
    BY <2>1, <2>2, <2>3
<1>3. QED
  BY <1>2 DEF InTurn

\* A line with the next number, at the end.
LEMMA InTurnAppend ==
    ASSUME NEW q \in Seq(Line), InTurn(q), NEW s \in Sayer, NEW n \in Nat,
           Numbers(q, Len(q), s) = 1 .. n
    PROVE  LET r == Append(q, <<s, n + 1>>) IN
           /\ InTurn(r)
           /\ Numbers(r, Len(r), s) = 1 .. n + 1
           /\ \A t \in Sayer : t # s => Numbers(r, Len(r), t) = Numbers(q, Len(q), t)
<1> DEFINE r == Append(q, <<s, n + 1>>)
<1>0. <<s, n + 1>> \in Line
  BY DEF Line
<1>1. /\ Len(q) \in Nat /\ Len(r) = Len(q) + 1 /\ r[Len(q) + 1] = <<s, n + 1>>
      /\ \A i \in 1 .. Len(q) : r[i] = q[i]
  BY <1>0, AppendProperties
<1> HIDE DEF r
<1>2. ASSUME NEW t \in Sayer, NEW m \in 0 .. Len(q)
      PROVE  Numbers(r, m, t) = Numbers(q, m, t)
  <2>1. \A j \in 1 .. m : j \in 1 .. Len(q) /\ r[j] = q[j]
    BY <1>1
  <2>2. QED
    BY <2>1 DEF Numbers
<1>3. ASSUME NEW i \in 1 .. Len(r)
      PROVE  Numbers(r, i - 1, r[i][1]) = 1 .. r[i][2] - 1
  <2>1. CASE i \in 1 .. Len(q)
    <3>1. i - 1 \in 0 .. Len(q) /\ q[i] \in Line /\ q[i][1] \in Sayer
      BY <1>1, <2>1 DEF Line
    <3>2. Numbers(q, i - 1, q[i][1]) = 1 .. q[i][2] - 1
      BY <2>1 DEF InTurn
    <3>3. Numbers(r, i - 1, q[i][1]) = Numbers(q, i - 1, q[i][1])
      BY <1>2, <3>1
    <3>4. QED
      BY <1>1, <2>1, <3>2, <3>3
  <2>2. CASE i = Len(q) + 1
    <3>1. i - 1 = Len(q) /\ r[i][1] = s /\ r[i][2] - 1 = n
      BY <1>1, <2>2
    <3>2. Numbers(r, Len(q), s) = Numbers(q, Len(q), s)
      BY <1>1, <1>2
    <3>3. QED
      BY <3>1, <3>2
  <2>3. QED
    BY <1>1, <2>1, <2>2
<1>4. InTurn(r)
  BY <1>3 DEF InTurn
<1>5. \A j : j \in 1 .. Len(r) <=> j \in 1 .. Len(q) \/ j = Len(q) + 1
  BY <1>1
<1>6. Numbers(r, Len(r), s) = Numbers(r, Len(q), s) \cup {n + 1}
  BY <1>1, <1>5 DEF Numbers
<1>7. Numbers(r, Len(r), s) = 1 .. n + 1
  <2>1. Numbers(r, Len(q), s) = 1 .. n
    BY <1>1, <1>2
  <2>2. QED
    BY <1>6, <2>1
<1>8. ASSUME NEW t \in Sayer, t # s
      PROVE  Numbers(r, Len(r), t) = Numbers(q, Len(q), t)
  <2>1. Numbers(r, Len(r), t) = Numbers(r, Len(q), t)
    BY <1>1, <1>5, <1>8 DEF Numbers
  <2>2. QED
    BY <1>1, <1>2, <2>1
<1>9. QED
  BY <1>4, <1>7, <1>8 DEF r

LEMMA FifoTypesNext ==
    FifoTypeOK /\ wrote \in [Sayer -> Nat] /\ [FifoNext]_fifoVars
        => FifoTypeOK' /\ wrote' \in [Sayer -> Nat]
<1> SUFFICES ASSUME FifoTypeOK, wrote \in [Sayer -> Nat], [FifoNext]_fifoVars
             PROVE  FifoTypeOK' /\ wrote' \in [Sayer -> Nat]
  OBVIOUS
<1> DEFINE At == [Sayer -> {"ready", "waits", "writes", "done", "filed", "killed", "orphan"}]
<1>1. /\ ran \in Seq(Line) /\ inHand \in Seq(Line) /\ inPipe \in Seq(Line)
      /\ << >> \in Seq(Line) /\ at \in At /\ \A s \in Sayer : SayLines[s] \in Nat \ {0}
  BY FifoTypes, FifoAssumption, EmptySeq DEF FifoTypeOK
<1>2. FifoTypeOK <=>
        /\ node \in {"fifo", "file", "nothing"}
        /\ writer \in {"starts", "makes", "opens", "reads", "eof", "closed", "dead"}
        /\ inPipe \in Seq(Line) /\ inHand \in Seq(Line) /\ ran \in Seq(Line)
        /\ at \in At
        /\ \A s \in Sayer : wrote[s] \in 0 .. SayLines[s]
        /\ restarts \in 0 .. MaxRestarts
        /\ Having("waits") # {} => node = "fifo" /\ ~ReadEnd
        /\ inHand # << >> => writer = "reads"
  BY DEF FifoTypeOK, Line
<1>3. CASE RemoveOld
  BY <1>1, <1>2, <1>3 DEF FifoTypeOK, RemoveOld, Line, Having, Become, ReadEnd
<1>4. CASE MakeFifo
  BY <1>1, <1>2, <1>4 DEF FifoTypeOK, MakeFifo, Line, Having, ReadEnd
<1>5. CASE OpenRead
  BY <1>1, <1>2, <1>5 DEF FifoTypeOK, OpenRead, Line, Having, Become, ReadEnd
<1>6. CASE ReadChunk
  BY <1>1, <1>2, <1>6 DEF FifoTypeOK, ReadChunk, Line, Having, ReadEnd
<1>7. CASE RunCmd
  <2>1. Head(inHand) \in Line /\ Tail(inHand) \in Seq(Line)
    BY <1>1, <1>7, HeadTailProperties DEF RunCmd
  <2>2. ran' \in Seq(Line) /\ inHand' \in Seq(Line)
    BY <1>1, <1>7, <2>1, AppendProperties DEF RunCmd
  <2>3. QED
    BY <1>1, <1>2, <1>7, <2>2 DEF FifoTypeOK, RunCmd, Line, Having, ReadEnd
<1>8. CASE ReadEof
  BY <1>1, <1>2, <1>8 DEF FifoTypeOK, ReadEof, Line, Having, ReadEnd
<1>9. CASE CloseRead
  BY <1>1, <1>2, <1>9 DEF FifoTypeOK, CloseRead, Line, Having, ReadEnd
<1>10. CASE Restart
  <2>1. at' \in At /\ Having("waits")' = Having("waits")
    BY <1>1, <1>10 DEF Restart, Having
  <2>2. restarts' \in 0 .. MaxRestarts /\ MaxRestarts \in Nat
    BY <1>2, <1>10, FifoAssumption DEF Restart
  <2>3. node' = node /\ wrote' = wrote /\ ran' = ran /\ inHand' = << >> /\ inPipe' = << >>
        /\ writer' = "starts"
    BY <1>10 DEF Restart
  <2>4. QED
    BY <1>1, <1>2, <2>1, <2>2, <2>3 DEF FifoTypeOK, Line, ReadEnd
<1>11. ASSUME NEW s \in Sayer, SayOpens(s)
       PROVE  FifoTypeOK' /\ wrote' \in [Sayer -> Nat]
  <2>1. CASE node = "fifo"
    <3>1. /\ at' = [at EXCEPT ![s] = IF ReadEnd THEN "writes" ELSE "waits"]
          /\ writer' = IF writer = "opens" THEN "reads" ELSE writer
          /\ UNCHANGED <<node, wrote, inPipe, inHand, ran, restarts>>
      BY <1>11, <2>1 DEF SayOpens
    <3>2. at' \in At /\ \A t \in Sayer : t # s => at'[t] = at[t]
      BY <1>1, <3>1
    <3>3. ReadEnd <=> ReadEnd'
      BY <3>1 DEF ReadEnd
    <3>4. ReadEnd => Having("waits")' = {}
      BY <1>1, <1>2, <3>1, <3>2 DEF Having
    <3>5. (Having("waits") # {} => node = "fifo" /\ ~ReadEnd)'
      BY <2>1, <3>1, <3>3, <3>4
    <3>6. QED
      BY <1>1, <1>2, <3>1, <3>2, <3>5 DEF FifoTypeOK, Line
  <2>2. CASE node # "fifo"
    <3>1. /\ node' = "file"
          /\ at' = [at EXCEPT ![s] = "filed"]
          /\ wrote' = [wrote EXCEPT ![s] = SayLines[s]]
          /\ UNCHANGED <<writer, inPipe, inHand, ran, restarts>>
      BY <1>11, <2>2 DEF SayOpens
    <3>2. at' \in At /\ Having("waits")' = {}
      BY <1>1, <1>2, <2>2, <3>1 DEF Having
    <3>3. QED
      BY <1>1, <1>2, <3>1, <3>2 DEF FifoTypeOK, Line
  <2>3. QED
    BY <2>1, <2>2
<1>12. ASSUME NEW s \in Sayer, SayWrites(s)
       PROVE  FifoTypeOK' /\ wrote' \in [Sayer -> Nat]
  <2>1. <<s, wrote[s] + 1>> \in Line
    BY DEF Line
  <2>2. Append(inPipe, <<s, wrote[s] + 1>>) \in Seq(Line)
    BY <1>1, <2>1, AppendProperties
  <2>3. QED
    <3>1. CASE ReadEnd
      <4>1. /\ inPipe' = Append(inPipe, <<s, wrote[s] + 1>>)
            /\ wrote' = [wrote EXCEPT ![s] = @ + 1]
            /\ wrote[s] < SayLines[s]
            /\ UNCHANGED <<node, writer, at, inHand, ran, restarts>>
        BY <1>12, <3>1 DEF SayWrites
      <4>2. wrote' \in [Sayer -> Nat] /\ \A t \in Sayer : wrote'[t] \in 0 .. SayLines[t]
        BY <1>1, <1>2, <4>1
      <4>3. QED
        BY <1>1, <1>2, <2>2, <4>1, <4>2 DEF FifoTypeOK, Line, Having, ReadEnd
    <3>2. CASE ~ReadEnd
      <4>1. /\ at' = [at EXCEPT ![s] = "killed"]
            /\ UNCHANGED <<node, writer, inPipe, wrote, inHand, ran, restarts>>
        BY <1>12, <3>2 DEF SayWrites
      <4>2. QED
        BY <1>1, <1>2, <4>1 DEF FifoTypeOK, Line, Having, ReadEnd
    <3>3. QED
      BY <3>1, <3>2
<1>13. ASSUME NEW s \in Sayer, SayCloses(s)
       PROVE  FifoTypeOK' /\ wrote' \in [Sayer -> Nat]
  BY <1>1, <1>2, <1>13 DEF FifoTypeOK, SayCloses, Line, Having, ReadEnd
<1>14. CASE UNCHANGED fifoVars
  BY <1>14 DEF FifoTypeOK, fifoVars, Having, ReadEnd
<1>15. QED
  BY <1>3, <1>4, <1>5, <1>6, <1>7, <1>8, <1>9, <1>10, <1>11, <1>12, <1>13, <1>14
     DEF FifoNext, writer_loop

\* What goes through stays as it is, or loses its end and with it the sayers
\* that were going to add to it.
LEMMA FifoLoses ==
    ASSUME FifoInv, FifoTypeOK', wrote' \in [Sayer -> Nat],
           NEW q, q \in Seq(Line), Through = Through' \o q,
           \A s \in Sayer :
              /\ at'[s] \in {"ready", "waits"} => at[s] \in {"ready", "waits"}
              /\ Going(s)' => /\ Going(s) /\ wrote'[s] = wrote[s]
                              /\ q = << >> \/ at[s] # "writes"
    PROVE  FifoInv'
<1> DEFINE p == Through'
<1>1. p \in Seq(Line) /\ Through \in Seq(Line)
  <2>1. ran' \in Seq(Line) /\ inHand' \in Seq(Line) /\ inPipe' \in Seq(Line)
    BY DEF FifoTypeOK, Line
  <2>2. p = (ran' \o inHand') \o inPipe'
    BY DEF Through
  <2> HIDE DEF p
  <2>3. p \in Seq(Line)
    BY <2>1, <2>2, ConcatProperties
  <2>4. QED
    BY <2>3, FifoTypes DEF FifoInv
<1>2. InTurn(p \o q) /\ Through = p \o q
  BY DEF FifoInv
<1> HIDE DEF p
<1>3. InTurn(p)
  BY <1>1, <1>2, InTurnPrefix
<1>4. ASSUME NEW s \in Sayer, Going(s)'
      PROVE  Numbers(p, Len(p), s) = 1 .. wrote'[s]
  <2>1. /\ Going(s) /\ Numbers(p \o q, Len(p \o q), s) = 1 .. wrote[s]
        /\ wrote'[s] = wrote[s] /\ (q = << >> \/ at[s] # "writes")
    BY <1>2, <1>4 DEF FifoInv
  <2>2. CASE q = << >>
    BY <1>1, <2>1, <2>2, ConcatEmptySeq
  <2>3. CASE at[s] # "writes"
    <3>1. wrote[s] = 0
      BY <2>1, <2>3 DEF FifoInv, Going, Fresh
    <3>2. Numbers(p \o q, Len(p \o q), s) = {}
      BY <2>1, <3>1
    <3>3. /\ Len(p) \in Nat /\ Len(p \o q) = Len(p) + Len(q) /\ Len(q) \in Nat
          /\ \A i \in 1 .. Len(p) : (p \o q)[i] = p[i]
      BY <1>1, ConcatProperties
    <3>4. \A j \in 1 .. Len(p) : j \in 1 .. Len(p \o q) /\ (p \o q)[j] = p[j]
      BY <3>3
    <3>5. ASSUME NEW j \in 1 .. Len(p), p[j][1] = s PROVE FALSE
      <4>1. j \in {i \in 1 .. Len(p \o q) : (p \o q)[i][1] = s}
        BY <3>4, <3>5
      <4>2. (p \o q)[j][2] \in Numbers(p \o q, Len(p \o q), s)
        BY <4>1 DEF Numbers
      <4>3. QED
        BY <3>2, <4>2
    <3>6. Numbers(p, Len(p), s) = {}
      BY <3>5 DEF Numbers
    <3>7. QED
      BY <2>1, <3>1, <3>6
  <2>4. QED
    BY <2>1, <2>2, <2>3
<1>5. ASSUME NEW s \in Sayer PROVE Fresh(s)'
  BY DEF FifoInv, Fresh, Going
<1>6. ASSUME NEW s \in Sayer
      PROVE  (Going(s) => Numbers(Through, Len(Through), s) = 1 .. wrote[s])'
  BY <1>4 DEF p
<1>7. InTurn(Through)'
  BY <1>3 DEF p, InTurn, Numbers
<1>8. wrote' \in [Sayer -> Nat]
  BY DEF FifoInv
<1>9. QED
  BY <1>5, <1>6, <1>7, <1>8 DEF FifoInv

\* A line that goes from the hand to run_cmd stays in its place.
LEMMA HeadOver ==
    ASSUME NEW r \in Seq(Line), NEW h \in Seq(Line), h # << >>
    PROVE  Append(r, Head(h)) \o Tail(h) = r \o h
<1>1. /\ Head(h) \in Line /\ Tail(h) \in Seq(Line) /\ Head(h) = h[1]
      /\ Len(h) \in Nat /\ Len(Tail(h)) = Len(h) - 1 /\ Len(r) \in Nat /\ Len(h) > 0
      /\ \A i \in 1 .. Len(Tail(h)) : Tail(h)[i] = h[i + 1]
  BY HeadTailProperties, EmptySeq
<1> DEFINE a == Append(r, Head(h))
           b == Tail(h)
<1>2. /\ a \in Seq(Line) /\ Len(a) = Len(r) + 1 /\ a[Len(r) + 1] = Head(h)
      /\ \A i \in 1 .. Len(r) : a[i] = r[i]
  BY <1>1, AppendProperties
<1> HIDE DEF a, b
<1>3. /\ b \in Seq(Line) /\ Len(b) = Len(h) - 1
      /\ \A i \in 1 .. Len(h) - 1 : b[i] = h[i + 1]
  BY <1>1 DEF b
<1>4. /\ a \o b \in Seq(Line) /\ Len(a \o b) = Len(r) + Len(h)
      /\ \A i \in 1 .. Len(r) + Len(h) :
            (a \o b)[i] = IF i <= Len(r) + 1 THEN a[i] ELSE b[i - (Len(r) + 1)]
  <2>1. /\ a \o b \in Seq(Line) /\ Len(a \o b) = Len(a) + Len(b)
        /\ \A i \in 1 .. Len(a) + Len(b) :
              (a \o b)[i] = IF i <= Len(a) THEN a[i] ELSE b[i - Len(a)]
    BY <1>2, <1>3, ConcatProperties
  <2>2. Len(a) = Len(r) + 1 /\ Len(a) + Len(b) = Len(r) + Len(h)
    BY <1>1, <1>2, <1>3
  <2>3. QED
    BY <2>1, <2>2
<1>5. /\ r \o h \in Seq(Line) /\ Len(r \o h) = Len(r) + Len(h)
      /\ \A i \in 1 .. Len(r) + Len(h) : (r \o h)[i] = IF i <= Len(r) THEN r[i] ELSE h[i - Len(r)]
  BY ConcatProperties
<1>6. ASSUME NEW i \in 1 .. Len(r) + Len(h)
      PROVE  (a \o b)[i] = (r \o h)[i]
  <2>1. CASE i <= Len(r)
    BY <1>1, <1>2, <1>4, <1>5, <2>1
  <2>2. CASE i = Len(r) + 1
    <3>1. (r \o h)[i] = h[1]
      BY <1>1, <1>5, <2>2
    <3>2. QED
      BY <1>1, <1>2, <1>4, <2>2, <3>1
  <2>3. CASE i > Len(r) + 1
    <3>1. i - (Len(r) + 1) \in 1 .. Len(h) - 1 /\ (i - (Len(r) + 1)) + 1 = i - Len(r)
      BY <1>1, <2>3
    <3>2. b[i - (Len(r) + 1)] = h[i - Len(r)]
      BY <1>3, <3>1
    <3>3. QED
      BY <1>1, <1>4, <1>5, <2>3, <3>2
  <2>4. i <= Len(r) \/ i = Len(r) + 1 \/ i > Len(r) + 1
    <3>1. Len(r) \in Nat /\ Len(h) \in Nat
      OBVIOUS
    <3>2. QED
      BY <3>1
  <2>5. QED
    BY <2>1, <2>2, <2>3, <2>4
<1>7. a \o b = r \o h
  <2> DEFINE x == a \o b
             y == r \o h
  <2>1. x \in Seq(Line) /\ y \in Seq(Line) /\ Len(x) = Len(y) /\ Len(x) = Len(r) + Len(h)
    BY <1>4, <1>5
  <2>2. \A i \in 1 .. Len(r) + Len(h) : x[i] = y[i]
    BY <1>6
  <2> HIDE DEF x, y
  <2>3. x = y
    BY <2>1, <2>2, SeqEqual
  <2>4. QED
    BY <2>3 DEF x, y
<1>8. QED
  BY <1>7 DEF a, b

\* A line that goes into the pipe comes after all that is through.
LEMMA AppendOver ==
    ASSUME NEW p \in Seq(Line), NEW q \in Seq(Line), NEW l \in Line
    PROVE  p \o Append(q, l) = Append(p \o q, l)
<1> DEFINE one == <<l>>
<1>1. one \in Seq(Line) /\ p \o q \in Seq(Line)
  BY ConcatProperties
<1>2. Append(q, l) = q \o one /\ Append(p \o q, l) = (p \o q) \o one
  BY <1>1, AppendIsConcat
<1> HIDE DEF one
<1>3. (p \o q) \o one = p \o (q \o one)
  BY <1>1, ConcatAssociative
<1>4. QED
  BY <1>2, <1>3

\* When at most one sayer has the pipe open, the one that closes it was it.
LEMMA OnlyOneHas ==
    ASSUME NEW s \in Sayer, at[s] = "writes", ~(Cardinality(Having("writes")) > 1)
    PROVE  \A t \in Sayer : at[t] = "writes" => t = s
<1> SUFFICES ASSUME NEW t \in Sayer, at[t] = "writes", t # s PROVE FALSE
  OBVIOUS
<1> DEFINE H == Having("writes")
<1>1. IsFiniteSet(H) /\ {s, t} \in SUBSET H
  <2>1. H \in SUBSET Sayer /\ {s, t} \in SUBSET H
    BY DEF Having
  <2>2. QED
    BY <2>1, FifoAssumption, FS_Subset
<1>2. Cardinality({s, t}) = 2
  <2>1. IsFiniteSet({s}) /\ Cardinality({s}) = 1
    BY FS_Singleton
  <2>2. {s, t} = {s} \cup {t}
    OBVIOUS
  <2>3. QED
    BY <2>1, <2>2, FS_AddElement
<1> HIDE DEF H
<1>3. Cardinality({s, t}) <= Cardinality(H) /\ Cardinality(H) \in Nat
  BY <1>1, FS_Subset, FS_CardinalityType
<1>4. QED
  BY <1>2, <1>3 DEF H

LEMMA FifoInvInductive == FifoInv /\ [FifoNext]_fifoVars => FifoInv'
<1> SUFFICES ASSUME FifoInv, [FifoNext]_fifoVars PROVE FifoInv'
  OBVIOUS
<1>1. /\ FifoTypeOK' /\ wrote' \in [Sayer -> Nat]
      /\ FifoTypeOK /\ wrote \in [Sayer -> Nat]
  BY FifoTypesNext DEF FifoInv
<1>2. /\ ran \in Seq(Line) /\ inHand \in Seq(Line) /\ inPipe \in Seq(Line)
      /\ ran \o inHand \in Seq(Line) /\ Through \in Seq(Line)
      /\ << >> \in Seq(Line)
      /\ at \in [Sayer -> {"ready", "waits", "writes", "done", "filed", "killed", "orphan"}]
  BY <1>1, FifoTypes, EmptySeq DEF FifoTypeOK
\* Nothing moves through the pipe, and no sayer begins to go.
<1>3. ASSUME UNCHANGED <<ran, inHand, inPipe>>,
             \A s \in Sayer :
                /\ at'[s] \in {"ready", "waits"} => at[s] \in {"ready", "waits"}
                /\ Going(s)' => Going(s) /\ wrote'[s] = wrote[s]
      PROVE  FifoInv'
  <2>1. Through = Through' \o << >>
    BY <1>2, <1>3, ConcatEmptySeq DEF Through
  <2>2. QED
    BY <1>1, <1>2, <1>3, <2>1, FifoLoses
\* What is in the pipe is lost, with nobody in the middle of a message.
<1>4. ASSUME UNCHANGED <<ran, inHand>>, inPipe' = << >>,
             \A s \in Sayer :
                /\ at'[s] \in {"ready", "waits"} => at[s] \in {"ready", "waits"}
                /\ Going(s)' => Going(s) /\ wrote'[s] = wrote[s] /\ at[s] # "writes"
      PROVE  FifoInv'
  <2>1. Through' = ran \o inHand
    BY <1>2, <1>4, ConcatEmptySeq DEF Through
  <2>2. Through = Through' \o inPipe
    BY <2>1 DEF Through
  <2>3. QED
    BY <1>1, <1>2, <1>4, <2>2, FifoLoses
<1>5. CASE RemoveOld
  BY <1>2, <1>3, <1>5 DEF RemoveOld, Become, Going
<1>6. CASE MakeFifo
  BY <1>2, <1>3, <1>6 DEF MakeFifo, Going
<1>7. CASE OpenRead
  BY <1>2, <1>3, <1>7 DEF OpenRead, Become, Going
<1>8. CASE ReadChunk
  <2>1. CASE Range(inPipe) \cap Garbled = {}
    <3>1. /\ inHand = << >> /\ inHand' = inPipe /\ inPipe' = << >>
          /\ UNCHANGED <<writer, at, wrote, ran>>
      BY <1>8, <2>1 DEF ReadChunk
    <3>2. Through = ran \o inPipe /\ Through' = ran \o inPipe
      BY <1>2, <3>1, ConcatEmptySeq, ConcatProperties DEF Through
    <3>3. Through = Through' \o << >>
      BY <1>2, <3>2, ConcatEmptySeq
    <3>4. \A s \in Sayer : Going(s)' => Going(s)
      BY <3>1 DEF Going
    <3>5. QED
      BY <1>1, <1>2, <3>1, <3>3, <3>4, FifoLoses
  <2>2. CASE Range(inPipe) \cap Garbled # {}
    BY <1>2, <1>4, <1>8, <2>2 DEF ReadChunk, Going
  <2>3. QED
    BY <2>1, <2>2
<1>9. CASE RunCmd
  <2>1. /\ inHand # << >> /\ ran' = Append(ran, Head(inHand)) /\ inHand' = Tail(inHand)
        /\ UNCHANGED <<writer, inPipe, at, wrote>>
    BY <1>9 DEF RunCmd
  <2>2. ran' \o inHand' = ran \o inHand
    BY <1>2, <2>1, HeadOver
  <2>3. Through = Through' \o << >>
    BY <1>2, <2>1, <2>2, ConcatEmptySeq DEF Through
  <2>4. \A s \in Sayer : Going(s)' => Going(s)
    BY <2>1 DEF Going
  <2>5. QED
    BY <1>1, <1>2, <2>1, <2>3, <2>4, FifoLoses
<1>10. CASE ReadEof
  BY <1>2, <1>3, <1>10 DEF ReadEof, Going
<1>11. CASE CloseRead
  <2>1. CASE Having("writes") = {}
    <3>1. \A s \in Sayer : at[s] # "writes"
      BY <2>1 DEF Having
    <3>2. QED
      BY <1>2, <1>4, <1>11, <2>1, <3>1 DEF CloseRead, Going
  <2>2. CASE Having("writes") # {}
    BY <1>2, <1>3, <1>11, <2>2 DEF CloseRead, Going
  <2>3. QED
    BY <2>1, <2>2
<1>12. CASE Restart
  <2>1. /\ ran' = ran /\ inHand' = << >> /\ inPipe' = << >> /\ wrote' = wrote
        /\ \A s \in Sayer : /\ at'[s] \in {"ready", "waits"} => at[s] = at'[s]
                            /\ at'[s] # "writes"
    BY <1>2, <1>12 DEF Restart
  <2>2. Through' = ran
    BY <1>2, <2>1, ConcatEmptySeq DEF Through
  <2>3. Through = Through' \o (inHand \o inPipe)
    BY <1>2, <2>2, ConcatAssociative DEF Through
  <2>4. inHand \o inPipe \in Seq(Line)
    BY <1>2, ConcatProperties
  <2>5. \A s \in Sayer : Going(s)' => Going(s) /\ at[s] # "writes"
    BY <2>1 DEF Going
  <2>6. QED
    BY <1>1, <2>1, <2>3, <2>4, <2>5, FifoLoses
<1>13. ASSUME NEW s \in Sayer, SayOpens(s)
       PROVE  FifoInv'
  <2>1. CASE node = "fifo"
    <3>1. /\ at[s] = "ready" /\ at' = [at EXCEPT ![s] = IF ReadEnd THEN "writes" ELSE "waits"]
          /\ writer' = "dead" => writer = "dead"
          /\ writer = "dead" => writer' = "dead"
          /\ UNCHANGED <<wrote, inPipe, inHand, ran>>
      BY <1>13, <2>1 DEF SayOpens
    <3>2. \A t \in Sayer : Going(t)' => Going(t)
      BY <1>2, <3>1 DEF Going
    <3>3. QED
      BY <1>2, <1>3, <3>1, <3>2
  <2>2. CASE node # "fifo"
    <3>1. /\ at' = [at EXCEPT ![s] = "filed"]
          /\ wrote' = [wrote EXCEPT ![s] = SayLines[s]]
          /\ UNCHANGED <<writer, inPipe, inHand, ran>>
      BY <1>13, <2>2 DEF SayOpens
    <3>2. \A t \in Sayer : Going(t)' => Going(t) /\ wrote'[t] = wrote[t]
      BY <1>1, <1>2, <3>1 DEF Going
    <3>3. QED
      BY <1>2, <1>3, <3>1, <3>2
  <2>3. QED
    BY <2>1, <2>2
<1>14. ASSUME NEW s \in Sayer, SayWrites(s)
       PROVE  FifoInv'
  <2>1. CASE ReadEnd
    <3> DEFINE n == wrote[s]
    <3>1. /\ inPipe' = Append(inPipe, <<s, n + 1>>)
          /\ wrote' = [wrote EXCEPT ![s] = n + 1]
          /\ at[s] = "writes" /\ writer # "dead"
          /\ UNCHANGED <<writer, at, inHand, ran>>
      BY <1>14, <2>1 DEF SayWrites, ReadEnd
    <3>2. n \in Nat /\ <<s, n + 1>> \in Line
      BY <1>1 DEF Line
    <3>3. Through' = Append(Through, <<s, n + 1>>)
      BY <1>2, <3>1, <3>2, AppendOver DEF Through
    <3>4. InTurn(Through) /\ Numbers(Through, Len(Through), s) = 1 .. n
      BY <3>1 DEF FifoInv, Going
    <3>5. /\ InTurn(Through')
          /\ Numbers(Through', Len(Through'), s) = 1 .. n + 1
          /\ \A t \in Sayer : t # s =>
                Numbers(Through', Len(Through'), t) = Numbers(Through, Len(Through), t)
      <4> HIDE DEF n
      <4>1. QED
        BY <1>2, <3>2, <3>3, <3>4, InTurnAppend
    <3>6. wrote'[s] = n + 1 /\ \A t \in Sayer : t # s => wrote'[t] = wrote[t]
      BY <1>1, <3>1
    <3>7. \A t \in Sayer : Going(t)' = Going(t)
      BY <3>1 DEF Going
    <3>8. \A t \in Sayer : Going(t)' => Numbers(Through', Len(Through'), t) = 1 .. wrote'[t]
      <4> HIDE DEF n
      <4>1. ASSUME NEW t \in Sayer, Going(t)', t # s
            PROVE  Numbers(Through', Len(Through'), t) = 1 .. wrote'[t]
        BY <3>5, <3>6, <3>7, <4>1 DEF FifoInv
      <4>2. QED
        BY <3>5, <3>6, <4>1
    <3>9. \A t \in Sayer : Fresh(t)'
      BY <3>1, <3>6 DEF FifoInv, Fresh
    <3> HIDE DEF n
    <3>10. InTurn(Through)'
      BY <3>5 DEF InTurn, Numbers
    <3>11. \A t \in Sayer : (Going(t) => Numbers(Through, Len(Through), t) = 1 .. wrote[t])'
      BY <3>8 DEF Numbers
    <3>12. QED
      BY <1>1, <3>9, <3>10, <3>11 DEF FifoInv
  <2>2. CASE ~ReadEnd
    BY <1>2, <1>3, <1>14, <2>2 DEF SayWrites, Going
  <2>3. QED
    BY <2>1, <2>2
<1>15. ASSUME NEW s \in Sayer, SayCloses(s)
       PROVE  FifoInv'
  <2>1. /\ at[s] = "writes" /\ at' = [at EXCEPT ![s] = "done"]
        /\ inPipe' = IF ReadEnd \/ Cardinality(Having("writes")) > 1 THEN inPipe ELSE << >>
        /\ UNCHANGED <<writer, inHand, wrote, ran>>
    BY <1>15 DEF SayCloses
  <2>2. CASE ReadEnd \/ Cardinality(Having("writes")) > 1
    BY <1>2, <1>3, <2>1, <2>2 DEF Going
  <2>3. CASE ~(ReadEnd \/ Cardinality(Having("writes")) > 1)
    <3>1. \A t \in Sayer : at[t] = "writes" => t = s
      BY <2>1, <2>3, OnlyOneHas
    <3>2. \A t \in Sayer : /\ at'[t] \in {"ready", "waits"} => at[t] \in {"ready", "waits"}
                           /\ Going(t)' => Going(t) /\ at[t] # "writes"
      BY <1>2, <2>1, <3>1 DEF Going
    <3>3. QED
      BY <1>4, <2>1, <2>3, <3>2
  <2>4. QED
    BY <2>2, <2>3
<1>16. CASE UNCHANGED fifoVars
  BY <1>2, <1>3, <1>16 DEF fifoVars, Going
<1>17. QED
  BY <1>5, <1>6, <1>7, <1>8, <1>9, <1>10, <1>11, <1>12, <1>13, <1>14, <1>15, <1>16
     DEF FifoNext, writer_loop

LEMMA FifoInvInit == FifoInit => FifoInv
<1> SUFFICES ASSUME FifoInit PROVE FifoInv
  OBVIOUS
<1>1. Through = << >> /\ Len(Through) = 0
  BY EmptySeq, ConcatEmptySeq DEF FifoInit, Through
<1>2. FifoTypeOK /\ wrote \in [Sayer -> Nat]
  BY FifoAssumption DEF FifoInit, FifoTypeOK, Having
<1>3. InTurn(Through)
  BY <1>1 DEF InTurn
<1>4. \A s \in Sayer : wrote[s] = 0 /\ Numbers(Through, Len(Through), s) = {}
  BY <1>1 DEF FifoInit, Numbers
<1>5. 1 .. 0 = {}
  OBVIOUS
<1>6. QED
  BY <1>2, <1>3, <1>4, <1>5 DEF FifoInv, Fresh

(* What runs of a bot.say comes in its order and without holes, for any     *)
(* sayers, messages and restarts of the bot.                                *)
THEOREM MessagesNeverHoled == FifoSpec => []NoHolesInAMessage
<1>1. FifoInv => NoHolesInAMessage
  <2> SUFFICES ASSUME FifoInv PROVE NoHolesInAMessage
    OBVIOUS
  <2>1. /\ ran \in Seq(Line) /\ inHand \o inPipe \in Seq(Line)
        /\ Through = ran \o (inHand \o inPipe)
    BY FifoTypes, ConcatProperties, ConcatAssociative DEF FifoInv, Through
  <2>2. InTurn(ran)
    BY <2>1, InTurnPrefix DEF FifoInv
  <2>3. DOMAIN ran = 1 .. Len(ran)
    BY <2>1
  <2>4. QED
    BY <2>2, <2>3 DEF InTurn, Numbers, NoHolesInAMessage
<1>2. QED
  BY <1>1, FifoInvInit, FifoInvInductive, PTL DEF FifoSpec

\* The types; who waits for the writer waits on a pipe that is there, and the
\* writer has lines in hand only while it reads.
THEOREM FifoTypeCorrect == FifoSpec => []FifoTypeOK
<1>1. FifoInv => FifoTypeOK
  BY DEF FifoInv
<1>2. QED
  BY <1>1, FifoInvInit, FifoInvInductive, PTL DEF FifoSpec

-----------------------------------------------------------------------------
(* ReplyPath.  A lost reply is told once, whatever the room in the pacer,  *)
(* the msgids remembered, and how often modes and pins turn.               *)

\* The places a text can be in, as sets.
AtWriter ==
    IF command # NoCommand /\ \A d \in Range(dispatching) : d.by # "writer" THEN {brought} ELSE {}
AtRefused == UNION {d.refused : d \in Range(dispatching)}

In(t, S) == IF t \in S THEN 1 ELSE 0

Spots(t) ==
    In(t, AtWriter) + In(t, AtRefused) + In(t, Range(awaiting)) + In(t, Range(paced))
    + In(t, Range(losing)) + In(t, delivered) + In(t, inClear) + told[t]

\* A text is in one place or has been told lost once, unless it was overtaken.
Settled(t) ==
    IF t \in 1 .. brought THEN Spots(t) = 1 \/ (Spots(t) = 0 /\ Overtaken(t)) ELSE Spots(t) = 0

\* What the writer does while dispatch holds the lock for it.
Writing ==
    /\ command # NoCommand => command.at \in {"asks", "sends"} /\ brought \in Reply
    /\ Len(dispatching) <= 1
    /\ \A d \in Range(dispatching) :
          d.by = "writer" => command # NoCommand /\ command.at = "sends" /\ command.bound

\* How many texts the pacer took that dispatch has not noted yet.
Pending == IF dispatching = << >> THEN 0 ELSE Len(dispatching[1].taken)

\* The i-th text accepted is the last time that t was.
LastTime(t, i) ==
    /\ i \in DOMAIN accepted /\ accepted[i] = t
    /\ \A j \in i + 1 .. Len(accepted) : accepted[j] # t

\* The list of msgids still has t, or it is overtaken: as many were noted after
\* it as the pacer took.
Noted(t) ==
    \E i \in DOMAIN accepted :
        /\ LastTime(t, i)
        /\ \/ Len(accepted) - i >= SENT_MAX
           \/ \E p \in DOMAIN recent :
                 recent[p] = t /\ Len(recent) - p <= Len(accepted) - Pending - i

\* The texts being noted are the last that the pacer took.
NotedNow ==
    dispatching # << >> =>
        LET taken == dispatching[1].taken IN
        /\ Len(taken) <= Len(accepted)
        /\ \A p \in DOMAIN taken : accepted[Len(accepted) - Len(taken) + p] = taken[p]
        /\ IsInjective(taken)

InPacer ==
    \A t \in Range(paced) \cup Range(losing) :
        Noted(t) \/ (dispatching # << >> /\ t \in Range(dispatching[1].taken))

Tracked ==
    /\ \A t \in Reply : Settled(t)
    /\ IsInjective(awaiting) /\ IsInjective(paced)
    /\ NotedNow
    /\ InPacer

ReplyInv == ReplyTypeOK /\ Writing /\ (pacerDown \/ Tracked)

\* What a sequence of texts holds.
LEMMA RangeIn ==
    ASSUME NEW q \in Seq(Reply)
    PROVE  /\ Range(q) \subseteq Reply
           /\ \A x : x \in Range(q) <=> \E i \in 1 .. Len(q) : q[i] = x
           /\ DOMAIN q = 1 .. Len(q) /\ Len(q) \in Nat
  BY DEF Range

LEMMA RangeEmpty == Range(<< >>) = {}
  BY DEF Range

LEMMA RangeOne ==
    ASSUME NEW x
    PROVE  Range(<<x>>) = {x}
<1>1. DOMAIN <<x>> = {1} /\ <<x>>[1] = x
  OBVIOUS
<1>2. QED
  BY <1>1 DEF Range

LEMMA RangeConcat ==
    ASSUME NEW p \in Seq(Reply), NEW q \in Seq(Reply)
    PROVE  Range(p \o q) = Range(p) \cup Range(q)
<1> DEFINE r == p \o q
<1>1. /\ r \in Seq(Reply) /\ Len(r) = Len(p) + Len(q) /\ Len(p) \in Nat /\ Len(q) \in Nat
      /\ \A i \in 1 .. Len(p) + Len(q) : r[i] = IF i <= Len(p) THEN p[i] ELSE q[i - Len(p)]
  BY ConcatProperties
<1> HIDE DEF r
<1>2. ASSUME NEW x \in Range(r) PROVE x \in Range(p) \cup Range(q)
  <2>1. PICK i \in 1 .. Len(r) : r[i] = x
    BY <1>1, <1>2, RangeIn
  <2>2. CASE i <= Len(p)
    BY <1>1, <2>1, <2>2, RangeIn
  <2>3. CASE ~(i <= Len(p))
    <3>1. i - Len(p) \in 1 .. Len(q) /\ q[i - Len(p)] = x
      BY <1>1, <2>1, <2>3
    <3>2. QED
      BY <3>1, RangeIn
  <2>4. QED
    BY <2>2, <2>3
<1>3. ASSUME NEW x \in Range(p) PROVE x \in Range(r)
  <2>1. PICK i \in 1 .. Len(p) : p[i] = x
    BY <1>3, RangeIn
  <2>2. i \in 1 .. Len(r) /\ r[i] = x
    BY <1>1, <2>1
  <2>3. QED
    BY <1>1, <2>2, RangeIn
<1>4. ASSUME NEW x \in Range(q) PROVE x \in Range(r)
  <2>1. PICK i \in 1 .. Len(q) : q[i] = x
    BY <1>4, RangeIn
  <2>2. i + Len(p) \in 1 .. Len(r) /\ ~(i + Len(p) <= Len(p)) /\ (i + Len(p)) - Len(p) = i
    BY <1>1
  <2>3. r[i + Len(p)] = x
    BY <1>1, <2>1, <2>2
  <2>4. QED
    BY <1>1, <2>2, <2>3, RangeIn
<1>5. Range(r) = Range(p) \cup Range(q)
  BY <1>2, <1>3, <1>4
<1>6. QED
  BY <1>5 DEF r

\* Two queues without repetitions and nothing in common make one of both.
LEMMA InjectiveConcat ==
    ASSUME NEW p \in Seq(Reply), NEW q \in Seq(Reply),
           IsInjective(p), IsInjective(q), Range(p) \cap Range(q) = {}
    PROVE  IsInjective(p \o q)
<1> DEFINE r == p \o q
<1>1. /\ r \in Seq(Reply) /\ Len(r) = Len(p) + Len(q) /\ Len(p) \in Nat /\ Len(q) \in Nat
      /\ \A i \in 1 .. Len(p) + Len(q) : r[i] = IF i <= Len(p) THEN p[i] ELSE q[i - Len(p)]
  BY ConcatProperties
<1> HIDE DEF r
<1>2. ASSUME NEW i \in 1 .. Len(r), NEW j \in 1 .. Len(r), r[i] = r[j], i < j
      PROVE  FALSE
  <2>1. CASE j <= Len(p)
    <3>1. i \in 1 .. Len(p) /\ j \in 1 .. Len(p) /\ p[i] = p[j]
      BY <1>1, <1>2, <2>1
    <3>2. QED
      BY <1>2, <3>1 DEF IsInjective
  <2>2. CASE i > Len(p)
    <3>1. i - Len(p) \in 1 .. Len(q) /\ j - Len(p) \in 1 .. Len(q) /\ q[i - Len(p)] = q[j - Len(p)]
      BY <1>1, <1>2, <2>2
    <3>2. i - Len(p) = j - Len(p)
      BY <3>1 DEF IsInjective
    <3>3. QED
      BY <1>1, <1>2, <3>2
  <2>3. CASE i <= Len(p) /\ j > Len(p)
    <3>1. i \in 1 .. Len(p) /\ j - Len(p) \in 1 .. Len(q) /\ p[i] = q[j - Len(p)]
      BY <1>1, <1>2, <2>3
    <3>2. p[i] \in Range(p) /\ q[j - Len(p)] \in Range(q)
      BY <3>1, RangeIn
    <3>3. QED
      BY <3>1, <3>2
  <2>4. QED
    BY <1>1, <1>2, <2>1, <2>2, <2>3
<1>3. \A i, j \in 1 .. Len(r) : r[i] = r[j] => i = j
  <2>1. \A i, j \in 1 .. Len(r) : i < j \/ j < i \/ i = j
    BY <1>1
  <2>2. QED
    BY <1>2, <2>1
<1>4. IsInjective(r)
  BY <1>1, <1>3 DEF IsInjective
<1>5. QED
  BY <1>4 DEF r

\* The head of a queue without repetitions leaves it for good.
LEMMA RangeTail ==
    ASSUME NEW q \in Seq(Reply), q # << >>, IsInjective(q)
    PROVE  /\ Tail(q) \in Seq(Reply) /\ Head(q) \in Reply /\ Head(q) \in Range(q)
           /\ Len(Tail(q)) <= Len(q)
           /\ Range(Tail(q)) = Range(q) \ {Head(q)}
           /\ IsInjective(Tail(q))
<1> DEFINE t == Tail(q)
<1>1. /\ t \in Seq(Reply) /\ Head(q) \in Reply /\ Head(q) = q[1]
      /\ Len(q) \in Nat \ {0} /\ Len(t) = Len(q) - 1
      /\ \A i \in 1 .. Len(t) : t[i] = q[i + 1]
  BY HeadTailProperties, EmptySeq
<1> HIDE DEF t
<1>2. \A i, j \in 1 .. Len(q) : q[i] = q[j] => i = j
  BY DEF IsInjective
<1>3. Head(q) \in Range(q)
  BY <1>1, RangeIn
<1>4. \A i \in 1 .. Len(t) : i + 1 \in 1 .. Len(q) /\ i + 1 # 1 /\ t[i] = q[i + 1]
  BY <1>1
<1>5. ASSUME NEW x \in Range(t) PROVE x \in Range(q) \ {Head(q)}
  <2>1. PICK i \in 1 .. Len(t) : t[i] = x
    BY <1>1, <1>5, RangeIn
  <2>2. x = q[i + 1] /\ x # q[1]
    BY <1>1, <1>2, <1>4, <2>1
  <2>3. QED
    BY <1>1, <1>4, <2>2, RangeIn
<1>6. ASSUME NEW x \in Range(q), x # Head(q) PROVE x \in Range(t)
  <2>1. PICK i \in 1 .. Len(q) : q[i] = x
    BY <1>6, RangeIn
  <2>2. i # 1
    BY <1>1, <1>6, <2>1
  <2>3. i - 1 \in 1 .. Len(t) /\ (i - 1) + 1 = i
    BY <1>1, <2>2
  <2>4. t[i - 1] = x
    BY <1>4, <2>1, <2>3
  <2>5. QED
    BY <1>1, <2>3, <2>4, RangeIn
<1>7. \A i, j \in 1 .. Len(t) : t[i] = t[j] => i = j
  <2>1. \A i, j \in 1 .. Len(t) : i + 1 = j + 1 => i = j
    BY <1>1
  <2>2. QED
    BY <1>2, <1>4, <2>1
<1>8. QED
  BY <1>1, <1>3, <1>5, <1>6, <1>7 DEF t, IsInjective

\* submit takes a first part of the texts, as long as there is room.
LEMMA SubmitTakes ==
    ASSUME ReplyTypeOK, NEW texts \in Seq(Reply), NEW by \in {"writer", "reader"},
           Submit(texts, by)
    PROVE  \E took \in Seq(Reply) :
              /\ paced' = paced \o took /\ accepted' = accepted \o took
              /\ dispatching' = <<[by |-> by, taken |-> took, refused |-> Range(texts) \ Range(took)]>>
              /\ Range(took) \subseteq Range(texts) /\ (IsInjective(texts) => IsInjective(took))
              /\ Len(paced) + Len(took) <= Room
<1> DEFINE n == IF Len(paced) + Len(texts) <= Room THEN Len(texts)
                ELSE IF Len(paced) < Room THEN Room - Len(paced) ELSE 0
           took == SubSeq(texts, 1, n)
<1>1. Len(paced) \in Nat /\ Len(texts) \in Nat /\ Len(paced) <= Room /\ Room \in Nat
  BY ReplyAssumption DEF ReplyTypeOK
<1>2. n \in 0 .. Len(texts) /\ Len(paced) + n <= Room
  BY <1>1
<1>3. /\ paced' = paced \o took /\ accepted' = accepted \o took
      /\ dispatching' = <<[by |-> by, taken |-> took, refused |-> Range(texts) \ Range(took)]>>
  BY DEF Submit
<1> HIDE DEF n
<1>4. /\ took \in Seq(Reply) /\ Len(took) = n
      /\ \A i \in 1 .. n : took[i] = texts[i]
  <2>1. \A i \in 1 .. n : texts[i] \in Reply
    BY <1>1, <1>2
  <2>2. QED
    BY <1>1, <1>2, <2>1, SubSeqProperties
<1> HIDE DEF took
<1>5. \A i \in 1 .. n : i \in 1 .. Len(texts)
  BY <1>1, <1>2
<1>6. Range(took) \subseteq Range(texts)
  <2> SUFFICES ASSUME NEW x \in Range(took) PROVE x \in Range(texts)
    OBVIOUS
  <2>1. PICK i \in 1 .. n : took[i] = x
    BY <1>4, RangeIn
  <2>2. QED
    BY <1>4, <1>5, <2>1, RangeIn
<1>7. IsInjective(texts) => IsInjective(took)
  BY <1>4, <1>5 DEF IsInjective
<1>8. QED
  BY <1>2, <1>3, <1>4, <1>6, <1>7

\* Types of a dispatch.
Dispatch == [by : {"writer", "reader"}, taken : Seq(Reply), refused : SUBSET Reply]

\* What dispatch keeps of the msgids.
LEMMA RememberLastTypes ==
    ASSUME NEW ids \in Seq(Reply)
    PROVE  RememberLast(ids) \in Seq(Reply) /\ Len(RememberLast(ids)) <= SENT_MAX
<1>1. Len(ids) \in Nat /\ SENT_MAX \in Nat \ {0}
  BY ReplyAssumption
<1>2. CASE Len(ids) > SENT_MAX
  <2> DEFINE m == Len(ids) - SENT_MAX + 1
  <2>1. m \in 1 .. Len(ids) /\ Len(ids) - m + 1 = SENT_MAX /\ m <= Len(ids)
    BY <1>1, <1>2
  <2>2. RememberLast(ids) = SubSeq(ids, m, Len(ids))
    BY <1>2 DEF RememberLast
  <2> HIDE DEF m
  <2>3. \A i \in m .. Len(ids) : ids[i] \in Reply
    BY <1>1, <2>1
  <2>4. SubSeq(ids, m, Len(ids)) \in Seq(Reply) /\ Len(SubSeq(ids, m, Len(ids))) = Len(ids) - m + 1
    BY <1>1, <2>1, <2>3, SubSeqProperties
  <2>5. QED
    BY <1>1, <2>1, <2>2, <2>4
<1>3. CASE ~(Len(ids) > SENT_MAX)
  BY <1>1, <1>3 DEF RememberLast
<1>4. QED
  BY <1>2, <1>3

\* Where a text is the last time in a list.
LEMMA LastPlace ==
    ASSUME NEW ids \in Seq(Reply), NEW t \in Range(ids)
    PROVE  \E i \in 1 .. Len(ids) : ids[i] = t /\ \A j \in i + 1 .. Len(ids) : ids[j] # t
<1> DEFINE S == {k \in Nat : k < Len(ids) /\ ids[Len(ids) - k] = t}
           LT == {ss \in Nat \X Nat : ss[1] < ss[2]}
<1>1. Len(ids) \in Nat
  OBVIOUS
<1>2. PICK i \in 1 .. Len(ids) : ids[i] = t
  BY RangeIn
<1>3. Len(ids) - i \in S
  <2>1. Len(ids) - i \in Nat /\ Len(ids) - i < Len(ids) /\ Len(ids) - (Len(ids) - i) = i
    BY <1>1, <1>2
  <2>2. QED
    BY <1>2, <2>1
<1>4. IsWellFoundedOn(LT, Nat)
  BY NatLessThanWellFounded, Zenon DEF OpToRel
<1>5. S \subseteq Nat
  OBVIOUS
<1> HIDE DEF LT
<1>6. PICK k \in S : \A y \in S : <<y, k>> \notin LT
  <2> HIDE DEF S
  <2>1. S \in SUBSET Nat /\ S # {}
    BY <1>3, <1>5
  <2>2. QED
    BY <1>4, <2>1, WFMin, Zenon
<1>7. k \in Nat /\ k < Len(ids) /\ ids[Len(ids) - k] = t
  BY <1>6
<1>8. ASSUME NEW j \in Len(ids) - k + 1 .. Len(ids), ids[j] = t PROVE FALSE
  <2>1. Len(ids) - j \in Nat /\ Len(ids) - j < Len(ids) /\ Len(ids) - (Len(ids) - j) = j
        /\ Len(ids) - j < k
    BY <1>1, <1>7
  <2>2. Len(ids) - j \in S
    BY <1>8, <2>1
  <2>3. <<Len(ids) - j, k>> \in LT
    BY <1>7, <2>1 DEF LT
  <2>4. QED
    BY <1>6, <2>2, <2>3
<1>9. Len(ids) - k \in 1 .. Len(ids)
  BY <1>1, <1>7
<1>10. QED
  BY <1>7, <1>8, <1>9

\* Deleting a msgid of t: those of the others stay, none further from the end.
LEMMA DeleteTextKeeps ==
    ASSUME NEW ids \in Seq(Reply), NEW t \in Reply
    PROVE  /\ DeleteText(ids, t) \in Seq(Reply)
           /\ Len(DeleteText(ids, t)) <= Len(ids)
           /\ \A p \in 1 .. Len(ids) : ids[p] # t =>
                 \E r \in 1 .. Len(DeleteText(ids, t)) :
                    /\ DeleteText(ids, t)[r] = ids[p]
                    /\ Len(DeleteText(ids, t)) - r <= Len(ids) - p
<1>0. Len(ids) \in Nat
  OBVIOUS
<1>1. CASE Contains(ids, t)
  <2> DEFINE IsLast(i) == ids[i] = t /\ \A j \in i + 1 .. Len(ids) : ids[j] # t
             i == CHOOSE k \in DOMAIN ids : IsLast(k)
             front == SubSeq(ids, 1, i - 1)
             back == SubSeq(ids, i + 1, Len(ids))
             d == front \o back
  <2>1. \E k \in 1 .. Len(ids) : IsLast(k)
    <3>1. t \in Range(ids)
      BY <1>1, RangeIn DEF Contains
    <3>2. QED
      BY <3>1, LastPlace
  <2>2. i \in 1 .. Len(ids) /\ ids[i] = t
    BY <2>1
  <2>3. DeleteText(ids, t) = d
    BY <1>1 DEF DeleteText, RemoveAt
  <2> HIDE DEF i
  <2>4. /\ front \in Seq(Reply) /\ Len(front) = i - 1
        /\ \A k \in 1 .. i - 1 : front[k] = ids[k]
    <3>1. \A k \in 1 .. i - 1 : ids[k] \in Reply
      BY <1>0, <2>2
    <3>2. QED
      BY <1>0, <2>2, <3>1, SubSeqProperties
  <2>5. /\ back \in Seq(Reply) /\ Len(back) = Len(ids) - i
        /\ \A k \in 1 .. Len(ids) - i : back[k] = ids[i + k]
    <3>1. \A k \in i + 1 .. Len(ids) : ids[k] \in Reply
      BY <1>0, <2>2
    <3>2. QED
      BY <1>0, <2>2, <3>1, SubSeqProperties
  <2> HIDE DEF front, back
  <2>6. /\ d \in Seq(Reply) /\ Len(d) = Len(front) + Len(back)
        /\ \A k \in 1 .. Len(front) + Len(back) :
              d[k] = IF k <= Len(front) THEN front[k] ELSE back[k - Len(front)]
    BY <2>4, <2>5, ConcatProperties
  <2>7. Len(d) = Len(ids) - 1
    BY <1>0, <2>2, <2>4, <2>5, <2>6
  <2> HIDE DEF d
  <2>8. ASSUME NEW p \in 1 .. Len(ids), ids[p] # t
        PROVE  \E r \in 1 .. Len(d) : d[r] = ids[p] /\ Len(d) - r <= Len(ids) - p
    <3>1. p # i
      BY <2>2, <2>8
    <3>2. CASE p < i
      <4>1. p \in 1 .. Len(d) /\ p \in 1 .. i - 1 /\ p <= Len(front) /\ p \in 1 .. Len(front) + Len(back)
        BY <1>0, <2>2, <2>4, <2>5, <2>7, <3>2
      <4>2. d[p] = ids[p]
        BY <2>4, <2>6, <4>1
      <4>3. Len(d) - p <= Len(ids) - p
        BY <1>0, <2>7
      <4>4. QED
        BY <4>1, <4>2, <4>3
    <3>3. CASE p > i
      <4>1. /\ p - 1 \in 1 .. Len(d) /\ ~(p - 1 <= Len(front)) /\ p - 1 \in 1 .. Len(front) + Len(back)
            /\ (p - 1) - Len(front) = p - i /\ p - i \in 1 .. Len(ids) - i /\ i + (p - i) = p
        BY <1>0, <2>2, <2>4, <2>5, <2>7, <3>3
      <4>2. d[p - 1] = back[p - i]
        BY <2>6, <4>1
      <4>3. back[p - i] = ids[p]
        BY <2>5, <4>1
      <4>4. Len(d) - (p - 1) <= Len(ids) - p
        BY <1>0, <2>7
      <4>5. QED
        BY <4>1, <4>2, <4>3, <4>4
    <3>4. QED
      BY <1>0, <2>2, <3>1, <3>2, <3>3
  <2>9. QED
    BY <1>0, <2>3, <2>6, <2>7, <2>8, SMTT(30)
<1>2. CASE ~Contains(ids, t)
  <2>1. DeleteText(ids, t) = ids
    BY <1>2 DEF DeleteText
  <2>2. QED
    BY <1>0, <2>1
<1>3. QED
  BY <1>1, <1>2

LEMMA ReplyTypesNext == ReplyTypeOK /\ Writing /\ [ReplyNext]_replyVars => ReplyTypeOK' /\ Writing'
<1> SUFFICES ASSUME ReplyTypeOK, Writing, [ReplyNext]_replyVars
             PROVE  ReplyTypeOK' /\ Writing'
  OBVIOUS
<1> DEFINE Command == [verb : {"none", "SAY", "ESAY"}, at : {"idle", "asks", "sends"}, bound : BOOLEAN]
           CommandOK == command \in Command /\ brought \in 0 .. MaxReplies
           ModeOK == nacks \in Nat /\ turns \in Nat /\ encrypted \in BOOLEAN /\ hasPin \in BOOLEAN
                     /\ pacerDown \in BOOLEAN
           QueueOK == /\ awaiting \in Seq(Reply) /\ paced \in Seq(Reply) /\ losing \in Seq(Reply)
                      /\ Len(paced) <= Room /\ Len(losing) <= 1
           NoteOK == /\ recent \in Seq(Reply) /\ accepted \in Seq(Reply) /\ Len(recent) <= SENT_MAX
                     /\ dispatching \in Seq(Dispatch)
           PastOK == delivered \subseteq Reply /\ inClear \subseteq Reply /\ told \in [Reply -> Nat]
<1>1. ReplyTypeOK <=> CommandOK /\ ModeOK /\ QueueOK /\ NoteOK /\ PastOK
  BY DEF ReplyTypeOK, Dispatch
<1>2. (CommandOK /\ ModeOK /\ QueueOK /\ NoteOK /\ PastOK)' => ReplyTypeOK'
  BY DEF ReplyTypeOK, Dispatch
<1>3. /\ Room \in Nat /\ SENT_MAX \in Nat /\ MaxReplies \in Nat
      /\ << >> \in Seq(Reply) /\ << >> \in Seq(Dispatch) /\ Len(<< >>) = 0
      /\ NoCommand \in Command /\ NoCommand.at = "idle"
  BY ReplyAssumption, EmptySeq DEF NoCommand
<1> HIDE DEF Command, CommandOK, ModeOK, QueueOK, NoteOK, PastOK
\* Telling and submitting keep the types.
<1>4. ASSUME NEW S, Tell(S) PROVE told' \in [Reply -> Nat]
  BY <1>1, <1>4 DEF Tell, PastOK
<1>5. ASSUME NEW texts \in Seq(Reply), NEW by \in {"writer", "reader"}, Submit(texts, by),
             recent' = recent, awaiting' \in Seq(Reply), losing' = losing
      PROVE  /\ QueueOK' /\ NoteOK' /\ Len(dispatching') = 1
             /\ \A d \in Range(dispatching') : d.by = by
  <2>1. PICK took \in Seq(Reply) :
              /\ paced' = paced \o took /\ accepted' = accepted \o took
              /\ dispatching' = <<[by |-> by, taken |-> took, refused |-> Range(texts) \ Range(took)]>>
              /\ Range(took) \subseteq Range(texts) /\ (IsInjective(texts) => IsInjective(took))
              /\ Len(paced) + Len(took) <= Room
    BY <1>5, SubmitTakes
  <2>2. /\ paced \o took \in Seq(Reply) /\ Len(paced \o took) = Len(paced) + Len(took)
        /\ accepted \o took \in Seq(Reply)
    BY <1>1, ConcatProperties DEF QueueOK, NoteOK
  <2>3. QueueOK'
    BY <1>1, <1>5, <2>1, <2>2 DEF QueueOK
  <2> DEFINE d == [by |-> by, taken |-> took, refused |-> Range(texts) \ Range(took)]
  <2>4. d \in Dispatch /\ d.by = by
    BY RangeIn DEF Dispatch
  <2>5. dispatching' = <<d>>
    BY <2>1
  <2> HIDE DEF d
  <2>6. dispatching' \in Seq(Dispatch) /\ Len(dispatching') = 1
    BY <2>4, <2>5
  <2>7. Range(dispatching') = {d}
    BY <2>5, RangeOne
  <2>8. NoteOK'
    BY <1>1, <1>5, <2>1, <2>2, <2>6 DEF NoteOK
  <2>9. QED
    BY <2>3, <2>4, <2>6, <2>7, <2>8
\* The writer.
<1>6. /\ command # NoCommand => command.at \in {"asks", "sends"} /\ brought \in Reply
      /\ Len(dispatching) <= 1
      /\ \A d \in Range(dispatching) :
            d.by = "writer" => command # NoCommand /\ command.at = "sends" /\ command.bound
  BY DEF Writing
<1>7. command.at # "idle" => command # NoCommand
  BY <1>3
<1>8. Range(<< >>) = {}
  BY RangeEmpty
<1>9. ASSUME NEW verb \in {"SAY", "ESAY"}, Bring(verb) PROVE ReplyTypeOK' /\ Writing'
  <2> DEFINE next == [verb |-> verb, at |-> "asks", bound |-> verb = "ESAY"]
  <2>0. /\ command = NoCommand /\ brought' = brought + 1 /\ brought < MaxReplies
        /\ command' = next \/ command' = command
    BY <1>9 DEF Bring
  <2>1. brought \in 0 .. MaxReplies
    BY <1>1 DEF CommandOK
  <2>2. brought' \in Reply /\ brought' \in 0 .. MaxReplies
    BY <1>3, <2>0, <2>1 DEF Reply
  <2>3. (verb = "ESAY") \in BOOLEAN
    OBVIOUS
  <2>4. next \in Command /\ next.at = "asks"
    BY <2>3 DEF Command
  <2> HIDE DEF next
  <2>5. command' \in Command /\ (command' # NoCommand => command'.at = "asks")
    BY <1>3, <2>0, <2>4
  <2>6. CommandOK'
    BY <2>2, <2>5 DEF CommandOK
  <2>7. told' \in [Reply -> Nat]
    BY <1>1, <1>4, <1>9 DEF Bring, PastOK
  <2>8. ModeOK' /\ QueueOK' /\ NoteOK' /\ PastOK'
    BY <1>1, <1>9, <2>7 DEF Bring, engineVars, dispatchVars, modeVars, ModeOK, QueueOK, NoteOK, PastOK
  <2>9. dispatching' = dispatching
    BY <1>9 DEF Bring, dispatchVars
  <2>10. \A d \in Range(dispatching) : d.by # "writer"
    BY <1>6, <2>0
  <2>11. Writing'
    BY <1>6, <2>2, <2>5, <2>9, <2>10 DEF Writing
  <2>12. QED
    BY <1>2, <2>6, <2>8, <2>11
<1>10. CASE AskMode
  <2>1. /\ command.at = "asks" /\ dispatching = << >> /\ brought' = brought /\ dispatching' = << >>
        /\ command' = [command EXCEPT !.at = "sends", !.bound = @ \/ encrypted]
    BY <1>10 DEF AskMode, dispatchVars, Unlocked
  <2>2. command' \in Command /\ command'.at = "sends"
    BY <1>1, <2>1 DEF CommandOK, Command, ModeOK
  <2>3. CommandOK' /\ Writing'
    BY <1>1, <1>3, <1>6, <1>7, <1>8, <2>1, <2>2 DEF CommandOK, Writing
  <2>4. ModeOK' /\ QueueOK' /\ NoteOK' /\ PastOK'
    BY <1>1, <1>10 DEF AskMode, engineVars, dispatchVars, modeVars, replyHistory, ModeOK, QueueOK, NoteOK, PastOK
  <2>5. QED
    BY <1>2, <2>3, <2>4
<1>11. CASE SayPlain
  <2>1. /\ command' = NoCommand /\ brought' = brought /\ dispatching' = dispatching
        /\ inClear' = inClear \cup {brought} /\ command.at = "sends" /\ ~command.bound
        /\ UNCHANGED <<delivered, told>>
    BY <1>11 DEF SayPlain, dispatchVars
  <2>2. brought \in Reply /\ \A d \in Range(dispatching) : d.by # "writer"
    BY <1>6, <1>7, <2>1
  <2>3. CommandOK' /\ Writing' /\ PastOK'
    BY <1>1, <1>3, <1>6, <2>1, <2>2 DEF CommandOK, Writing, PastOK
  <2>4. ModeOK' /\ QueueOK' /\ NoteOK'
    BY <1>1, <1>11 DEF SayPlain, engineVars, dispatchVars, modeVars, ModeOK, QueueOK, NoteOK
  <2>5. QED
    BY <1>2, <2>3, <2>4
<1>12. CASE SendRefused \/ SendRaises
  <2>1. /\ command' = NoCommand /\ brought' = brought /\ dispatching = << >> /\ Tell({brought})
        /\ UNCHANGED <<engineVars, dispatchVars, modeVars, delivered, inClear, accepted, nacks>>
    BY <1>12 DEF SendRefused, SendRaises, Unlocked
  <2>2. CommandOK' /\ Writing'
    BY <1>1, <1>3, <1>8, <2>1 DEF CommandOK, Writing, dispatchVars
  <2>3. ModeOK' /\ QueueOK' /\ NoteOK'
    BY <1>1, <2>1 DEF engineVars, dispatchVars, modeVars, ModeOK, QueueOK, NoteOK
  <2>4. PastOK'
    BY <1>1, <1>4, <2>1 DEF PastOK
  <2>5. QED
    BY <1>2, <2>2, <2>3, <2>4
<1>13. CASE SendText
  <2>1. /\ command.at = "sends" /\ command.bound /\ dispatching = << >> /\ brought' = brought
        /\ UNCHANGED <<losing, pacerDown, recent, modeVars, delivered, inClear, told, nacks>>
    BY <1>13 DEF SendText, Unlocked
  <2>2. brought \in Reply /\ <<brought>> \in Seq(Reply)
    BY <1>6, <1>7, <2>1
  <2>3. ModeOK' /\ PastOK'
    BY <1>1, <2>1 DEF modeVars, ModeOK, PastOK
  <2>4. CASE /\ awaiting' = Append(awaiting, brought)
             /\ command' = NoCommand
             /\ UNCHANGED <<paced, dispatching, accepted>>
    <3>1. awaiting' \in Seq(Reply)
      BY <1>1, <2>2, <2>4 DEF QueueOK
    <3>2. QueueOK' /\ NoteOK'
      BY <1>1, <2>1, <2>4, <3>1 DEF QueueOK, NoteOK
    <3>3. CommandOK' /\ Writing'
      BY <1>1, <1>3, <1>8, <2>1, <2>4 DEF CommandOK, Writing
    <3>4. QED
      BY <1>2, <2>3, <3>2, <3>3
  <2>5. CASE Submit(<<brought>>, "writer") /\ UNCHANGED <<awaiting, command>>
    <3>1. awaiting' \in Seq(Reply)
      BY <1>1, <2>5 DEF QueueOK
    <3>2. /\ QueueOK' /\ NoteOK' /\ Len(dispatching') = 1
          /\ \A d \in Range(dispatching') : d.by = "writer"
      BY <1>5, <2>1, <2>2, <2>5, <3>1
    <3>3. CommandOK' /\ Writing'
      BY <1>1, <1>6, <1>7, <2>1, <2>5, <3>2 DEF CommandOK, Writing
    <3>4. QED
      BY <1>2, <2>3, <3>2, <3>3
  <2>6. QED
    BY <1>13, <2>4, <2>5 DEF SendText
<1>14. CASE DispatchEnds
  <2> DEFINE d == dispatching[1]
  <2>1. /\ dispatching # << >> /\ Tell(d.refused) /\ recent' = RememberLast(recent \o d.taken)
        /\ command' = IF d.by = "writer" THEN NoCommand ELSE command
        /\ dispatching' = << >>
        /\ UNCHANGED <<brought, engineVars, modeVars, delivered, inClear, accepted, nacks>>
    BY <1>14 DEF DispatchEnds, Unlocked
  <2>2. Len(dispatching) = 1 /\ d \in Dispatch
    <3>1. dispatching \in Seq(Dispatch) /\ dispatching # << >>
      BY <1>1, <2>1 DEF NoteOK
    <3>2. Len(dispatching) \in Nat /\ Len(dispatching) # 0
      BY <3>1, EmptySeq
    <3>3. Len(dispatching) = 1
      BY <1>6, <3>2
    <3>4. 1 \in 1 .. Len(dispatching)
      BY <3>3
    <3>5. QED
      BY <3>1, <3>3, <3>4
  <2>3. recent \o d.taken \in Seq(Reply)
    BY <1>1, <2>2, ConcatProperties DEF NoteOK, Dispatch
  <2> HIDE DEF d
  <2>4. recent' \in Seq(Reply) /\ Len(recent') <= SENT_MAX
    BY <2>1, <2>3, RememberLastTypes
  <2>5. CommandOK' /\ Writing'
    BY <1>1, <1>3, <1>6, <1>8, <2>1 DEF CommandOK, Writing
  <2>6. ModeOK' /\ QueueOK' /\ NoteOK'
    BY <1>1, <1>3, <2>1, <2>4 DEF engineVars, modeVars, ModeOK, QueueOK, NoteOK
  <2>7. PastOK'
    BY <1>1, <1>4, <2>1 DEF PastOK
  <2>8. QED
    BY <1>2, <2>5, <2>6, <2>7
<1>15. CASE TurnMode \/ PinTurns
  <2>1. /\ UNCHANGED <<command, brought, engineVars, dispatchVars, replyHistory, nacks>>
        /\ ModeOK'
    <3>1. UNCHANGED <<command, brought, engineVars, dispatchVars, replyHistory, nacks>>
      BY <1>15 DEF TurnMode, PinTurns
    <3>2. /\ turns' = turns + 1
          /\ (encrypted' = ~encrypted /\ hasPin' = hasPin) \/ (hasPin' = ~hasPin /\ encrypted' = encrypted)
      BY <1>15 DEF TurnMode, PinTurns
    <3>3. nacks' = nacks /\ pacerDown' = pacerDown
      BY <3>1 DEF engineVars
    <3>4. turns' \in Nat
      BY <1>1, <3>2 DEF ModeOK
    <3>5. encrypted' \in BOOLEAN /\ hasPin' \in BOOLEAN
      BY <1>1, <3>2, Zenon DEF ModeOK
    <3>6. QED
      BY <1>1, <3>1, <3>3, <3>4, <3>5 DEF ModeOK
  <2>2. CommandOK' /\ QueueOK' /\ NoteOK' /\ PastOK' /\ Writing'
    BY <1>1, <1>6, <2>1 DEF engineVars, dispatchVars, replyHistory, CommandOK, QueueOK, NoteOK, PastOK, Writing
  <2>3. QED
    BY <1>2, <2>1, <2>2
<1>16. CASE KeysCome
  <2>1. /\ awaiting' = << >> /\ dispatching = << >>
        /\ UNCHANGED <<command, brought, losing, pacerDown, recent, modeVars, delivered, inClear, told, nacks>>
    BY <1>16 DEF KeysCome, Unlocked
  <2>2. CommandOK' /\ ModeOK' /\ PastOK'
    BY <1>1, <2>1 DEF modeVars, CommandOK, ModeOK, PastOK
  <2>3. CASE UNCHANGED <<paced, dispatching, accepted>>
    <3>1. QueueOK' /\ NoteOK' /\ Writing'
      BY <1>1, <1>3, <1>6, <1>8, <2>1, <2>3 DEF QueueOK, NoteOK, Writing
    <3>2. QED
      BY <1>2, <2>2, <3>1
  <2>4. CASE Submit(awaiting, "reader")
    <3>1. awaiting' \in Seq(Reply) /\ awaiting \in Seq(Reply)
      BY <1>1, <1>3, <2>1 DEF QueueOK
    <3>2. /\ QueueOK' /\ NoteOK' /\ Len(dispatching') = 1
          /\ \A d \in Range(dispatching') : d.by = "reader"
      BY <1>5, <2>1, <2>4, <3>1
    <3>3. Writing'
      BY <1>6, <2>1, <3>2 DEF Writing
    <3>4. QED
      BY <1>2, <2>2, <3>2, <3>3
  <2>5. QED
    BY <1>16, <2>3, <2>4 DEF KeysCome
<1>17. ASSUME NEW t \in Reply, Nacked(t) PROVE ReplyTypeOK' /\ Writing'
  <2>1. /\ dispatching = << >> /\ nacks' = nacks + 1 /\ delivered' = delivered \ {t}
        /\ UNCHANGED <<command, brought, awaiting, losing, pacerDown, recent, modeVars, inClear>>
    BY <1>17 DEF Nacked, Unlocked
  <2>2. CommandOK' /\ ModeOK'
    BY <1>1, <2>1 DEF modeVars, CommandOK, ModeOK
  <2>3. CASE Tell({t}) /\ UNCHANGED <<paced, dispatching, accepted>>
    <3>1. QueueOK' /\ NoteOK' /\ Writing' /\ PastOK'
      BY <1>1, <1>3, <1>4, <1>6, <1>8, <2>1, <2>3 DEF QueueOK, NoteOK, Writing, PastOK
    <3>2. QED
      BY <1>2, <2>2, <3>1
  <2>4. CASE Submit(<<t>>, "reader") /\ UNCHANGED told
    <3>1. awaiting' \in Seq(Reply) /\ <<t>> \in Seq(Reply)
      BY <1>1, <2>1 DEF QueueOK
    <3>2. /\ QueueOK' /\ NoteOK' /\ Len(dispatching') = 1
          /\ \A d \in Range(dispatching') : d.by = "reader"
      BY <1>5, <2>1, <2>4, <3>1
    <3>3. Writing' /\ PastOK'
      BY <1>1, <1>6, <2>1, <2>4, <3>2 DEF Writing, PastOK
    <3>4. QED
      BY <1>2, <2>2, <3>2, <3>3
  <2>5. QED
    BY <1>17, <2>3, <2>4 DEF Nacked
<1>18. CASE GiveUpOnKeys
  <2>1. /\ awaiting' = << >> /\ Tell(Range(awaiting))
        /\ UNCHANGED <<command, brought, paced, losing, pacerDown, dispatchVars, modeVars, delivered,
                   inClear, accepted, nacks>>
    BY <1>18 DEF GiveUpOnKeys
  <2>2. CommandOK' /\ ModeOK' /\ QueueOK' /\ NoteOK' /\ Writing'
    BY <1>1, <1>3, <1>6, <2>1 DEF dispatchVars, modeVars, CommandOK, ModeOK, QueueOK, NoteOK, Writing
  <2>3. PastOK'
    BY <1>1, <1>4, <2>1 DEF PastOK
  <2>4. QED
    BY <1>2, <2>2, <2>3
<1>19. CASE PacerWrites
  <2>1. /\ paced # << >> /\ paced' = Tail(paced)
        /\ \/ delivered' = delivered \cup {Head(paced)} /\ UNCHANGED losing
           \/ losing' = <<Head(paced)>> /\ UNCHANGED delivered
        /\ UNCHANGED <<command, brought, awaiting, pacerDown, dispatchVars, modeVars, inClear, told,
                   accepted, nacks>>
    BY <1>19 DEF PacerWrites
  <2>2. /\ Tail(paced) \in Seq(Reply) /\ Head(paced) \in Reply /\ Len(Tail(paced)) = Len(paced) - 1
        /\ Len(paced) \in Nat
    BY <1>1, <2>1, HeadTailProperties DEF QueueOK
  <2>3. losing' \in Seq(Reply) /\ Len(losing') <= 1
    <3>1. CASE losing' = losing
      BY <1>1, <3>1 DEF QueueOK
    <3>2. CASE losing' = <<Head(paced)>>
      BY <2>2, <3>2
    <3>3. QED
      BY <2>1, <3>1, <3>2
  <2>4. QueueOK'
    BY <1>1, <1>3, <2>1, <2>2, <2>3 DEF QueueOK
  <2>5. CommandOK' /\ ModeOK' /\ NoteOK' /\ Writing' /\ PastOK'
    BY <1>1, <1>6, <2>1, <2>2 DEF dispatchVars, modeVars, CommandOK, ModeOK, NoteOK, Writing, PastOK
  <2>6. QED
    BY <1>2, <2>4, <2>5
<1>20. CASE OnLost
  <2>1. /\ losing # << >> /\ losing' = << >> /\ Tell(Range(losing) \cap Range(recent))
        /\ recent' = DeleteText(recent, losing[1])
        /\ UNCHANGED <<command, brought, awaiting, paced, pacerDown, dispatching, modeVars, delivered,
                   inClear, accepted, nacks>>
    BY <1>20 DEF OnLost
  <2>2. losing[1] \in Reply /\ Len(recent) \in Nat
    BY <1>1, <2>1, EmptySeq DEF QueueOK, NoteOK
  <2>3. recent' \in Seq(Reply) /\ Len(recent') <= Len(recent)
    BY <1>1, <2>1, <2>2, DeleteTextKeeps DEF NoteOK
  <2>4. Len(recent') \in Nat
    BY <2>3
  <2>5. NoteOK' /\ QueueOK'
    BY <1>1, <1>3, <2>1, <2>2, <2>3, <2>4 DEF NoteOK, QueueOK
  <2>6. CommandOK' /\ ModeOK' /\ Writing'
    BY <1>1, <1>6, <2>1 DEF modeVars, CommandOK, ModeOK, Writing
  <2>7. PastOK'
    BY <1>1, <1>4, <2>1 DEF PastOK
  <2>8. QED
    BY <1>2, <2>5, <2>6, <2>7
<1>21. CASE PacerDiesNow
  <2>1. CommandOK' /\ ModeOK' /\ QueueOK' /\ NoteOK' /\ PastOK' /\ Writing'
    BY <1>1, <1>6, <1>21 DEF PacerDiesNow, dispatchVars, modeVars, replyHistory, CommandOK, ModeOK, QueueOK,
       NoteOK, PastOK, Writing
  <2>2. QED
    BY <1>2, <2>1
<1>22. CASE UNCHANGED replyVars
  <2>1. CommandOK' /\ ModeOK' /\ QueueOK' /\ NoteOK' /\ PastOK' /\ Writing'
    BY <1>1, <1>6, <1>22 DEF replyVars, engineVars, dispatchVars, modeVars, replyHistory, CommandOK,
       ModeOK, QueueOK, NoteOK, PastOK, Writing
  <2>2. QED
    BY <1>2, <2>1
<1>23. QED
  BY <1>9, <1>10, <1>11, <1>12, <1>13, <1>14, <1>15, <1>16, <1>17, <1>18, <1>19, <1>20, <1>21, <1>22
     DEF ReplyNext, Writer

-----------------------------------------------------------------------------
\* An msgid dispatch no longer remembers had SENT_MAX after it.
LEMMA RememberLastKeeps ==
    ASSUME NEW ids \in Seq(Reply), NEW q \in 1 .. Len(ids)
    PROVE  \/ Len(ids) - q >= SENT_MAX
           \/ \E r \in DOMAIN RememberLast(ids) :
                 RememberLast(ids)[r] = ids[q] /\ Len(RememberLast(ids)) - r = Len(ids) - q
<1>1. Len(ids) \in Nat /\ SENT_MAX \in Nat \ {0} /\ DOMAIN ids = 1 .. Len(ids)
  BY ReplyAssumption
<1>2. CASE Len(ids) > SENT_MAX /\ Len(ids) - q < SENT_MAX
  <2> DEFINE m == Len(ids) - SENT_MAX + 1
             kept == SubSeq(ids, m, Len(ids))
             r == q - (Len(ids) - SENT_MAX)
  <2>1. m \in 1 .. Len(ids) /\ Len(ids) - m + 1 = SENT_MAX
    BY <1>1, <1>2
  <2>2. RememberLast(ids) = kept
    BY <1>2 DEF RememberLast
  <2>3. r \in 1 .. SENT_MAX /\ m + r - 1 = q /\ SENT_MAX - r = Len(ids) - q
    BY <1>1, <1>2
  <2> HIDE DEF m, r
  <2>4. \A i \in m .. Len(ids) : ids[i] \in Reply
    BY <1>1, <2>1
  <2>5. /\ kept \in Seq(Reply) /\ Len(kept) = Len(ids) - m + 1
        /\ \A i \in 1 .. Len(ids) - m + 1 : kept[i] = ids[m + i - 1]
    BY <1>1, <2>1, <2>4, SubSeqProperties
  <2> HIDE DEF kept
  <2>6. DOMAIN kept = 1 .. SENT_MAX /\ Len(kept) = SENT_MAX
    BY <2>1, <2>5
  <2>7. kept[r] = ids[q]
    BY <2>1, <2>3, <2>5
  <2>8. QED
    BY <2>2, <2>3, <2>6, <2>7
<1>3. CASE ~(Len(ids) > SENT_MAX)
  <2>1. RememberLast(ids) = ids
    BY <1>3 DEF RememberLast
  <2>2. QED
    BY <1>1, <2>1
<1>4. QED
  BY <1>1, <1>2, <1>3

\* The last time of a text not among those taken now is where it was.
LEMMA LastTimeKept ==
    \A took \in Seq(Reply) : accepted \in Seq(Reply) /\ accepted' = accepted \o took =>
        /\ Len(accepted') = Len(accepted) + Len(took)
        /\ \A t, i : t \notin Range(took) /\ LastTime(t, i) => LastTime(t, i)'
<1> SUFFICES ASSUME NEW took \in Seq(Reply), accepted \in Seq(Reply), accepted' = accepted \o took
             PROVE  /\ Len(accepted') = Len(accepted) + Len(took)
                    /\ \A t, i : t \notin Range(took) /\ LastTime(t, i) => LastTime(t, i)'
  OBVIOUS
<1>1. /\ accepted' \in Seq(Reply) /\ Len(accepted') = Len(accepted) + Len(took)
      /\ Len(accepted) \in Nat /\ Len(took) \in Nat
      /\ \A i \in 1 .. Len(accepted) + Len(took) :
            accepted'[i] = IF i <= Len(accepted) THEN accepted[i] ELSE took[i - Len(accepted)]
  BY ConcatProperties
<1>2. DOMAIN accepted = 1 .. Len(accepted) /\ DOMAIN accepted' = 1 .. Len(accepted) + Len(took)
  BY <1>1
<1>3. ASSUME NEW t, NEW i, t \notin Range(took), LastTime(t, i) PROVE LastTime(t, i)'
  <2>1. /\ i \in 1 .. Len(accepted) /\ accepted[i] = t
        /\ \A j \in i + 1 .. Len(accepted) : accepted[j] # t
    BY <1>2, <1>3 DEF LastTime
  <2>2. i \in DOMAIN accepted' /\ accepted'[i] = t
    BY <1>1, <1>2, <2>1
  <2>3. ASSUME NEW j \in i + 1 .. Len(accepted') PROVE accepted'[j] # t
    <3>1. CASE j <= Len(accepted)
      <4>1. j \in i + 1 .. Len(accepted) /\ j \in 1 .. Len(accepted) + Len(took)
        BY <1>1, <2>1, <2>3, <3>1
      <4>2. QED
        BY <1>1, <2>1, <3>1, <4>1
    <3>2. CASE ~(j <= Len(accepted))
      <4>1. j - Len(accepted) \in 1 .. Len(took) /\ j \in 1 .. Len(accepted) + Len(took)
        BY <1>1, <2>1, <2>3, <3>2
      <4>2. took[j - Len(accepted)] \in Range(took)
        BY <4>1, RangeIn
      <4>3. QED
        BY <1>1, <1>3, <3>2, <4>1, <4>2
    <3>3. QED
      BY <3>1, <3>2
  <2>4. QED
    BY <2>2, <2>3 DEF LastTime
<1>4. QED
  BY <1>1, <1>3

LEMMA OvertakenIs == \A t : Overtaken(t) <=> \E i \in DOMAIN accepted : LastTime(t, i) /\ Len(accepted) - i >= SENT_MAX
  BY DEF Overtaken, LastTime

\* What submit does to the places of the texts it is given.
LEMMA SubmitTracks ==
    \A texts \in Seq(Reply), by \in {"writer", "reader"} :
        /\ ReplyTypeOK /\ Tracked /\ dispatching = << >> /\ Submit(texts, by)
        /\ recent' = recent /\ losing' = losing
        /\ IsInjective(texts) /\ Range(texts) \cap (Range(paced) \cup Range(losing)) = {}
        =>
        /\ IsInjective(paced') /\ NotedNow' /\ InPacer'
        /\ Range(dispatching) = {}
        /\ \E d : Range(dispatching') = {d} /\ d.by = by
        /\ AtRefused = {}
        /\ Range(paced') \cup AtRefused' = Range(paced) \cup Range(texts)
        /\ Range(paced') \cap AtRefused' = {}
        /\ \A t : t \notin Range(texts) /\ Overtaken(t) => Overtaken(t)'
<1> SUFFICES ASSUME NEW texts \in Seq(Reply), NEW by \in {"writer", "reader"},
                    ReplyTypeOK, Tracked, dispatching = << >>, Submit(texts, by),
                    recent' = recent, losing' = losing, IsInjective(texts),
                    Range(texts) \cap (Range(paced) \cup Range(losing)) = {}
             PROVE  /\ IsInjective(paced') /\ NotedNow' /\ InPacer'
                    /\ Range(dispatching) = {}
                    /\ \E d : Range(dispatching') = {d} /\ d.by = by
                    /\ AtRefused = {}
                    /\ Range(paced') \cup AtRefused' = Range(paced) \cup Range(texts)
                    /\ Range(paced') \cap AtRefused' = {}
                    /\ \A t : t \notin Range(texts) /\ Overtaken(t) => Overtaken(t)'
  OBVIOUS
<1>1. PICK took \in Seq(Reply) :
        /\ paced' = paced \o took /\ accepted' = accepted \o took
        /\ dispatching' = <<[by |-> by, taken |-> took, refused |-> Range(texts) \ Range(took)]>>
        /\ Range(took) \subseteq Range(texts) /\ (IsInjective(texts) => IsInjective(took))
        /\ Len(paced) + Len(took) <= Room
  BY SubmitTakes
<1> DEFINE d == [by |-> by, taken |-> took, refused |-> Range(texts) \ Range(took)]
<1>2. d.by = by /\ d.taken = took /\ d.refused = Range(texts) \ Range(took)
  OBVIOUS
<1>3. dispatching' = <<d>>
  BY <1>1
<1> HIDE DEF d
<1>4. dispatching' # << >> /\ dispatching'[1] = d /\ Range(dispatching') = {d}
  <2>1. Len(<<d>>) = 1 /\ Len(<< >>) = 0 /\ <<d>>[1] = d
    OBVIOUS
  <2>2. QED
    BY <1>3, <2>1, RangeOne
<1>5. /\ paced \in Seq(Reply) /\ accepted \in Seq(Reply) /\ recent \in Seq(Reply)
      /\ IsInjective(paced) /\ InPacer
  BY DEF ReplyTypeOK, Tracked
<1>6. Range(paced') = Range(paced) \cup Range(took)
  BY <1>1, <1>5, RangeConcat
<1>7. IsInjective(paced')
  BY <1>1, <1>5, InjectiveConcat
<1>8. Range(dispatching) = {} /\ AtRefused = {} /\ AtRefused' = Range(texts) \ Range(took)
  <2>1. Range(dispatching) = {}
    BY RangeEmpty
  <2>2. QED
    BY <1>2, <1>4, <2>1 DEF AtRefused
<1>9. /\ accepted' \in Seq(Reply) /\ Len(accepted') = Len(accepted) + Len(took)
      /\ Len(accepted) \in Nat /\ Len(took) \in Nat /\ DOMAIN took = 1 .. Len(took)
      /\ \A i \in 1 .. Len(accepted) + Len(took) :
            accepted'[i] = IF i <= Len(accepted) THEN accepted[i] ELSE took[i - Len(accepted)]
  BY <1>1, <1>5, ConcatProperties
<1>10. NotedNow'
  <2>1. \A p \in 1 .. Len(took) :
          /\ Len(accepted) + p \in 1 .. Len(accepted) + Len(took) /\ ~(Len(accepted) + p <= Len(accepted))
          /\ (Len(accepted) + p) - Len(accepted) = p
          /\ (Len(accepted) + Len(took)) - Len(took) = Len(accepted)
    BY <1>9
  <2>2. \A p \in DOMAIN took : accepted'[Len(accepted') - Len(took) + p] = took[p]
    BY <1>9, <2>1
  <2>3. Len(took) <= Len(accepted')
    BY <1>9
  <2>4. QED
    BY <1>1, <1>2, <1>4, <2>2, <2>3 DEF NotedNow
<1>11. \A t, i : t \notin Range(took) /\ LastTime(t, i) => LastTime(t, i)'
  BY <1>1, <1>5, LastTimeKept
<1>12. \A i \in DOMAIN accepted : i \in DOMAIN accepted' /\ Len(accepted') - i >= Len(accepted) - i
  <2>1. DOMAIN accepted = 1 .. Len(accepted) /\ DOMAIN accepted' = 1 .. Len(accepted')
    BY <1>5, <1>9
  <2>2. QED
    BY <1>9, <2>1
<1>13. SENT_MAX \in Nat
  BY ReplyAssumption
<1>14. \A t : t \notin Range(texts) /\ Overtaken(t) => Overtaken(t)'
  <2> SUFFICES ASSUME NEW t, t \notin Range(texts), Overtaken(t) PROVE Overtaken(t)'
    OBVIOUS
  <2>1. PICK i \in DOMAIN accepted : LastTime(t, i) /\ Len(accepted) - i >= SENT_MAX
    BY OvertakenIs
  <2>2. LastTime(t, i)'
    BY <1>1, <1>11, <2>1
  <2>3. i \in DOMAIN accepted' /\ Len(accepted') - i >= Len(accepted) - i
    BY <1>12
  <2>4. i \in 1 .. Len(accepted)
    BY <1>5
  <2>5. Len(accepted') - i >= SENT_MAX
    BY <1>9, <1>13, <2>1, <2>3, <2>4
  <2>6. QED
    BY <2>2, <2>3, <2>5 DEF Overtaken, LastTime
<1>15. Pending = 0 /\ Pending' = Len(took)
  BY <1>2, <1>4 DEF Pending
<1>16. ASSUME NEW t, t \notin Range(took), Noted(t) PROVE Noted(t)'
  <2>1. PICK i \in DOMAIN accepted :
          /\ LastTime(t, i)
          /\ \/ Len(accepted) - i >= SENT_MAX
             \/ \E p \in DOMAIN recent : recent[p] = t /\ Len(recent) - p <= Len(accepted) - Pending - i
    BY <1>16 DEF Noted
  <2>2. LastTime(t, i)'
    BY <1>11, <1>16, <2>1
  <2>3. i \in DOMAIN accepted' /\ i \in 1 .. Len(accepted)
    BY <1>5, <1>12
  <2>4. CASE Len(accepted) - i >= SENT_MAX
    <3>1. Len(accepted') - i >= SENT_MAX
      BY <1>9, <1>13, <2>3, <2>4
    <3>2. QED
      BY <2>2, <2>3, <3>1 DEF Noted
  <2>5. CASE \E p \in DOMAIN recent : recent[p] = t /\ Len(recent) - p <= Len(accepted) - Pending - i
    <3>1. PICK p \in DOMAIN recent : recent[p] = t /\ Len(recent) - p <= Len(accepted) - Pending - i
      BY <2>5
    <3>2. Len(accepted') - Pending' - i = Len(accepted) - Pending - i
      BY <1>9, <1>15, <2>3
    <3>3. p \in DOMAIN recent' /\ recent'[p] = t /\ Len(recent') - p <= Len(accepted') - Pending' - i
      BY <3>1, <3>2
    <3>4. QED
      BY <2>2, <2>3, <3>3 DEF Noted
  <2>6. QED
    BY <2>1, <2>4, <2>5
<1>17. InPacer'
  <2> SUFFICES ASSUME NEW t \in Range(paced') \cup Range(losing')
               PROVE  Noted(t)' \/ (dispatching' # << >> /\ t \in Range(dispatching'[1].taken))
    BY DEF InPacer
  <2>1. CASE t \in Range(took)
    BY <1>2, <1>4, <2>1
  <2>2. CASE t \notin Range(took)
    <3>1. t \in Range(paced) \cup Range(losing)
      BY <1>6, <2>2
    <3>2. Noted(t)
      BY <1>5, <3>1 DEF InPacer
    <3>3. QED
      BY <1>16, <2>2, <3>2
  <2>3. QED
    BY <2>1, <2>2
<1>18. Range(paced') \cup AtRefused' = Range(paced) \cup Range(texts)
  BY <1>1, <1>6, <1>8
<1>19. Range(paced') \cap AtRefused' = {}
  BY <1>1, <1>6, <1>8
<1>20. QED
  BY <1>2, <1>4, <1>7, <1>8, <1>10, <1>14, <1>17, <1>18, <1>19

\* When dispatch has noted the msgids, the texts in the pacer are noted.
LEMMA DispatchNotes ==
    /\ ReplyTypeOK /\ ReplyTypeOK' /\ Writing /\ NotedNow /\ InPacer /\ DispatchEnds
    => InPacer'
<1> SUFFICES ASSUME ReplyTypeOK, ReplyTypeOK', Writing, NotedNow, InPacer, DispatchEnds
             PROVE  InPacer'
  OBVIOUS
<1> DEFINE d == dispatching[1]
           ids == recent \o d.taken
<1>1. /\ dispatching # << >> /\ dispatching' = << >> /\ recent' = RememberLast(ids)
      /\ accepted' = accepted /\ paced' = paced /\ losing' = losing
  BY DEF DispatchEnds, Unlocked, engineVars
<1>2. /\ recent \in Seq(Reply) /\ accepted \in Seq(Reply) /\ dispatching \in Seq(Dispatch)
      /\ recent' \in Seq(Reply) /\ SENT_MAX \in Nat
  BY ReplyAssumption DEF ReplyTypeOK, Dispatch
<1>3. d \in Dispatch
  <2>1. Len(dispatching) \in Nat /\ Len(dispatching) # 0
    BY <1>1, <1>2, EmptySeq
  <2>2. 1 \in 1 .. Len(dispatching)
    BY <2>1
  <2>3. QED
    BY <1>2, <2>2
<1>4. d.taken \in Seq(Reply)
  BY <1>3 DEF Dispatch
<1>5. /\ Len(d.taken) <= Len(accepted)
      /\ \A p \in DOMAIN d.taken : accepted[Len(accepted) - Len(d.taken) + p] = d.taken[p]
      /\ IsInjective(d.taken)
  BY <1>1 DEF NotedNow
<1>6. Pending = Len(d.taken) /\ Pending' = 0
  BY <1>1 DEF Pending
<1> DEFINE taken == d.taken
<1> HIDE DEF d
<1>7. /\ ids \in Seq(Reply) /\ Len(ids) = Len(recent) + Len(taken)
      /\ Len(recent) \in Nat /\ Len(taken) \in Nat /\ Len(accepted) \in Nat
      /\ \A i \in 1 .. Len(recent) + Len(taken) :
            ids[i] = IF i <= Len(recent) THEN recent[i] ELSE taken[i - Len(recent)]
  BY <1>2, <1>4, ConcatProperties
<1>8. /\ DOMAIN taken = 1 .. Len(taken) /\ DOMAIN recent = 1 .. Len(recent)
      /\ DOMAIN accepted = 1 .. Len(accepted) /\ DOMAIN ids = 1 .. Len(ids)
  BY <1>2, <1>4, <1>7
<1>9. /\ Len(taken) <= Len(accepted) /\ IsInjective(taken)
      /\ \A p \in 1 .. Len(taken) : accepted[Len(accepted) - Len(taken) + p] = taken[p]
  BY <1>5, <1>8
<1>10. Pending = Len(taken) /\ taken \in Seq(Reply)
  BY <1>4, <1>6
<1> HIDE DEF taken, ids
\* A text noted no further from the end than it was accepted.
<1>11. ASSUME NEW t, NEW i \in 1 .. Len(accepted), LastTime(t, i),
              NEW q \in 1 .. Len(ids), ids[q] = t, Len(ids) - q <= Len(accepted) - i
       PROVE  Noted(t)'
  <2>1. LastTime(t, i)' /\ i \in DOMAIN accepted'
    BY <1>1, <1>8, <1>11 DEF LastTime
  <2>2. CASE Len(ids) - q >= SENT_MAX
    <3>1. Len(accepted') - i >= SENT_MAX
      BY <1>1, <1>2, <1>7, <1>11, <2>2
    <3>2. QED
      BY <2>1, <3>1 DEF Noted
  <2>3. CASE \E r \in DOMAIN RememberLast(ids) :
                 RememberLast(ids)[r] = ids[q] /\ Len(RememberLast(ids)) - r = Len(ids) - q
    <3>1. PICK r \in DOMAIN recent' : recent'[r] = ids[q] /\ Len(recent') - r = Len(ids) - q
      BY <1>1, <2>3
    <3>2. Len(recent') - r <= Len(accepted') - Pending' - i
      BY <1>1, <1>6, <1>7, <1>11, <3>1
    <3>3. QED
      BY <1>11, <2>1, <3>1, <3>2 DEF Noted
  <2>4. QED
    BY <1>7, <2>2, <2>3, RememberLastKeeps
<1>12. ASSUME NEW t \in Range(taken) PROVE Noted(t)'
  <2>1. PICK p \in 1 .. Len(taken) : taken[p] = t
    BY <1>10, <1>12, RangeIn
  <2> DEFINE i == Len(accepted) - Len(taken) + p
             q == Len(recent) + p
  <2>2. /\ i \in 1 .. Len(accepted) /\ q \in 1 .. Len(ids) /\ q \in 1 .. Len(recent) + Len(taken)
        /\ Len(ids) - q <= Len(accepted) - i /\ ~(q <= Len(recent)) /\ q - Len(recent) = p
    BY <1>7, <1>9
  <2>3. accepted[i] = t
    BY <1>9, <2>1
  <2>4. ids[q] = t
    BY <1>7, <2>1, <2>2
  <2>5. ASSUME NEW j \in i + 1 .. Len(accepted), accepted[j] = t PROVE FALSE
    <3> DEFINE k == j - (Len(accepted) - Len(taken))
    <3>1. k \in 1 .. Len(taken) /\ k # p /\ Len(accepted) - Len(taken) + k = j
      BY <1>7, <1>9, <2>5
    <3>2. taken[k] = t
      BY <1>9, <2>5, <3>1
    <3>3. QED
      BY <1>8, <1>9, <2>1, <3>1, <3>2 DEF IsInjective
  <2>6. LastTime(t, i)
    BY <1>8, <2>2, <2>3, <2>5 DEF LastTime
  <2> HIDE DEF i, q
  <2>7. QED
    BY <1>11, <2>2, <2>4, <2>6
<1>13. ASSUME NEW t, Noted(t) PROVE Noted(t)'
  <2>1. PICK i \in DOMAIN accepted :
          /\ LastTime(t, i)
          /\ \/ Len(accepted) - i >= SENT_MAX
             \/ \E p \in DOMAIN recent : recent[p] = t /\ Len(recent) - p <= Len(accepted) - Pending - i
    BY <1>13 DEF Noted
  <2>2. CASE Len(accepted) - i >= SENT_MAX
    BY <1>1, <2>1, <2>2 DEF Noted, LastTime
  <2>3. CASE \E p \in DOMAIN recent : recent[p] = t /\ Len(recent) - p <= Len(accepted) - Pending - i
    <3>1. PICK p \in 1 .. Len(recent) : recent[p] = t /\ Len(recent) - p <= Len(accepted) - Len(taken) - i
      BY <1>8, <1>10, <2>3
    <3>2. i \in 1 .. Len(accepted)
      BY <1>8
    <3>3. p \in 1 .. Len(ids) /\ p \in 1 .. Len(recent) + Len(taken) /\ Len(ids) - p <= Len(accepted) - i
      BY <1>7, <3>1, <3>2
    <3>4. ids[p] = t
      BY <1>7, <3>1, <3>3
    <3>5. QED
      BY <1>11, <2>1, <3>2, <3>3, <3>4
  <2>4. QED
    BY <2>1, <2>2, <2>3
<1>14. InPacer'
  <2> SUFFICES ASSUME NEW t \in Range(paced) \cup Range(losing) PROVE Noted(t)'
    BY <1>1 DEF InPacer
  <2>1. Noted(t) \/ t \in Range(taken)
    BY DEF InPacer, taken, d
  <2>2. QED
    BY <1>12, <1>13, <2>1
<1>15. QED
  BY <1>14

\* When a lost text is forgotten, those still in the pacer stay noted.
LEMMA OnLostNotes ==
    /\ ReplyTypeOK /\ InPacer /\ OnLost /\ losing[1] \notin Range(paced) => InPacer'
<1> SUFFICES ASSUME ReplyTypeOK, InPacer, OnLost, losing[1] \notin Range(paced) PROVE InPacer'
  OBVIOUS
<1>1. /\ losing # << >> /\ losing' = << >> /\ dispatching = << >> /\ dispatching' = << >>
      /\ recent' = DeleteText(recent, losing[1])
      /\ paced' = paced /\ accepted' = accepted
  BY DEF OnLost, Unlocked
<1>2. recent \in Seq(Reply) /\ losing \in Seq(Reply) /\ accepted \in Seq(Reply)
  BY DEF ReplyTypeOK
<1>3. losing[1] \in Reply
  <2>1. Len(losing) \in Nat /\ Len(losing) # 0
    BY <1>1, <1>2, EmptySeq
  <2>2. 1 \in 1 .. Len(losing)
    BY <2>1
  <2>3. QED
    BY <1>2, <2>2
<1>4. Range(losing') = {}
  BY <1>1, RangeEmpty
<1>5. Pending' = Pending
  BY <1>1 DEF Pending
<1>6. Pending = 0
  BY <1>1 DEF Pending
<1>7. /\ recent' \in Seq(Reply)
      /\ \A p \in 1 .. Len(recent) : recent[p] # losing[1] =>
            \E r \in 1 .. Len(recent') : recent'[r] = recent[p] /\ Len(recent') - r <= Len(recent) - p
  BY <1>1, <1>2, <1>3, DeleteTextKeeps
<1>8. DOMAIN recent = 1 .. Len(recent) /\ DOMAIN recent' = 1 .. Len(recent')
      /\ Len(recent) \in Nat /\ Len(recent') \in Nat /\ Len(accepted) \in Nat
      /\ DOMAIN accepted = 1 .. Len(accepted)
  BY <1>2, <1>7
<1>9. ASSUME NEW t \in Range(paced) PROVE Noted(t)'
  <2>1. Noted(t) /\ t # losing[1]
    BY <1>1, <1>9 DEF InPacer
  <2>2. PICK i \in DOMAIN accepted :
          /\ LastTime(t, i)
          /\ \/ Len(accepted) - i >= SENT_MAX
             \/ \E p \in DOMAIN recent : recent[p] = t /\ Len(recent) - p <= Len(accepted) - Pending - i
    BY <2>1 DEF Noted
  <2>3. CASE Len(accepted) - i >= SENT_MAX
    BY <1>1, <2>2, <2>3 DEF Noted, LastTime
  <2>4. CASE \E p \in DOMAIN recent : recent[p] = t /\ Len(recent) - p <= Len(accepted) - Pending - i
    <3>1. PICK p \in 1 .. Len(recent) : recent[p] = t /\ Len(recent) - p <= Len(accepted) - Pending - i
      BY <1>8, <2>4
    <3>2. PICK r \in 1 .. Len(recent') : recent'[r] = t /\ Len(recent') - r <= Len(recent) - p
      BY <1>7, <2>1, <3>1
    <3>3. Len(recent') - r <= Len(accepted) - Pending - i
      BY <1>6, <1>8, <3>1, <3>2
    <3>4. Len(recent') - r <= Len(accepted') - Pending' - i
      BY <1>1, <1>5, <3>3
    <3>5. LastTime(t, i)' /\ i \in DOMAIN accepted' /\ r \in DOMAIN recent'
      BY <1>1, <1>8, <2>2, <3>2 DEF LastTime
    <3>6. QED
      BY <3>2, <3>4, <3>5 DEF Noted
  <2>5. QED
    BY <2>2, <2>3, <2>4
<1>10. QED
  BY <1>1, <1>4, <1>9 DEF InPacer

\* A text with the same number of places stays settled.
LEMMA StaysSettled ==
    \A t \in Reply :
        Settled(t) /\ brought' = brought /\ Spots(t)' = Spots(t)
        /\ (Spots(t) = 0 /\ Overtaken(t) => Overtaken(t)') => Settled(t)'
  BY DEF Settled

\* The places of the texts are apart.
LEMMA SpotsApart ==
    \A t \in Reply : told \in [Reply -> Nat] /\ Settled(t) =>
        /\ Spots(t) \in 0 .. 1
        /\ t \notin 1 .. brought => Spots(t) = 0
  BY DEF Settled, Spots, In

LEMMA TrackedNext ==
    /\ ReplyTypeOK /\ ReplyTypeOK' /\ Writing /\ Tracked /\ ~pacerDown' /\ [ReplyNext]_replyVars
    => Tracked'
<1> SUFFICES ASSUME ReplyTypeOK, ReplyTypeOK', Writing, Tracked, ~pacerDown', [ReplyNext]_replyVars
             PROVE  Tracked'
  OBVIOUS
<1>1. /\ told \in [Reply -> Nat] /\ told' \in [Reply -> Nat] /\ brought \in Nat
      /\ awaiting \in Seq(Reply) /\ paced \in Seq(Reply) /\ losing \in Seq(Reply)
      /\ delivered \subseteq Reply
  BY SMTT(30) DEF ReplyTypeOK
<1>2. /\ \A t \in Reply : Settled(t)
      /\ IsInjective(awaiting) /\ IsInjective(paced) /\ NotedNow /\ InPacer
  BY DEF Tracked
<1>3. \A t \in Reply : Spots(t) \in 0 .. 1 /\ (t \notin 1 .. brought => Spots(t) = 0)
  BY <1>1, <1>2, SpotsApart
<1>4. ASSUME NEW S, Tell(S), NEW t \in Reply
      PROVE  told'[t] = told[t] + IF t \in S THEN 1 ELSE 0
  BY <1>4 DEF Tell
<1>5. Range(<< >>) = {}
  BY RangeEmpty
\* Where a text is, the text is nowhere else.
<1>6. \A t \in Reply :
        Spots(t) = In(t, AtWriter) + In(t, AtRefused) + In(t, Range(awaiting)) + In(t, Range(paced))
                   + In(t, Range(losing)) + In(t, delivered) + In(t, inClear) + told[t]
  BY DEF Spots
<1>7. \A t \in Reply :
        Spots(t)' = In(t, AtWriter') + In(t, AtRefused') + In(t, Range(awaiting')) + In(t, Range(paced'))
                   + In(t, Range(losing')) + In(t, delivered') + In(t, inClear') + told'[t]
  BY DEF Spots, In
<1>8. (accepted' = accepted /\ recent' = recent /\ dispatching' = dispatching)
      => /\ \A t : Overtaken(t) => Overtaken(t)'
         /\ NotedNow'
         /\ \A t : Noted(t) => Noted(t)'
  BY <1>2 DEF Overtaken, NotedNow, Noted, LastTime, Pending
<1>9. accepted' = accepted => \A t : Overtaken(t) => Overtaken(t)'
  BY DEF Overtaken
<1>10. (accepted' = accepted /\ recent' = recent /\ dispatching' = dispatching
        /\ Range(paced') \cup Range(losing') \subseteq Range(paced) \cup Range(losing)) => InPacer'
  BY <1>2, <1>8 DEF InPacer
<1>11. dispatching' = dispatching => AtRefused' = AtRefused
  BY DEF AtRefused
<1>12. dispatching = << >> => Range(dispatching) = {} /\ AtRefused = {}
  BY <1>5 DEF AtRefused
<1>13. command # NoCommand => brought \in Reply /\ command.at \in {"asks", "sends"}
  BY DEF Writing
<1>14. command.at \in {"asks", "sends"} => command # NoCommand
  BY DEF NoCommand
<1>15. \A t, S : In(t, S) \in {0, 1} /\ (In(t, S) = 1 <=> t \in S)
  BY DEF In
<1>16. \A t \in Reply : told[t] \in Nat /\ told'[t] \in Nat
  BY <1>1
\* A step that moves no text.
<1>17. ASSUME brought' = brought, AtWriter' = AtWriter, UNCHANGED <<engineVars, dispatchVars, replyHistory>>
       PROVE  Tracked'
  <2>1. /\ AtRefused' = AtRefused /\ awaiting' = awaiting /\ paced' = paced /\ losing' = losing
        /\ delivered' = delivered /\ inClear' = inClear /\ told' = told
        /\ accepted' = accepted /\ recent' = recent /\ dispatching' = dispatching
    BY <1>11, <1>17 DEF engineVars, dispatchVars, replyHistory
  <2>2. \A t \in Reply : Spots(t)' = Spots(t)
    BY <1>6, <1>7, <1>17, <2>1
  <2>3. \A t \in Reply : Settled(t)'
    BY <1>2, <1>9, <1>17, <2>1, <2>2, StaysSettled
  <2>4. QED
    BY <1>2, <1>8, <1>10, <2>1, <2>3 DEF Tracked
<1>18. CASE \E verb \in {"SAY", "ESAY"} : Bring(verb)
  <2>1. PICK verb \in {"SAY", "ESAY"} : Bring(verb)
    BY <1>18
  <2>2. /\ command = NoCommand /\ brought' = brought + 1
        /\ \/ command' = [verb |-> verb, at |-> "asks", bound |-> verb = "ESAY"] /\ told' = told
           \/ command' = command /\ Tell({brought + 1})
        /\ UNCHANGED <<engineVars, dispatchVars, delivered, inClear, accepted>>
    BY <2>1 DEF Bring
  <2>3. /\ AtRefused' = AtRefused /\ awaiting' = awaiting /\ paced' = paced /\ losing' = losing
        /\ delivered' = delivered /\ inClear' = inClear
        /\ accepted' = accepted /\ recent' = recent /\ dispatching' = dispatching
    BY <1>11, <2>2 DEF engineVars, dispatchVars
  <2>4. AtWriter = {}
    BY <2>2 DEF AtWriter
  <2>5. \A d \in Range(dispatching) : d.by # "writer"
    BY <2>2 DEF Writing
  <2>6. ASSUME NEW t \in Reply
        PROVE  Spots(t)' = Spots(t) + IF t = brought + 1 THEN 1 ELSE 0
    <3>1. CASE command' = [verb |-> verb, at |-> "asks", bound |-> verb = "ESAY"] /\ told' = told
      <4>1. command' # NoCommand
        BY <3>1 DEF NoCommand
      <4>2. AtWriter' = {brought + 1}
        BY <2>2, <2>3, <2>5, <4>1 DEF AtWriter
      <4>3. In(t, AtWriter') = In(t, AtWriter) + IF t = brought + 1 THEN 1 ELSE 0
        BY <2>4, <4>2 DEF In
      <4>4. QED
        BY <1>1, <1>6, <1>7, <2>3, <3>1, <4>3 DEF In
    <3>2. CASE command' = command /\ Tell({brought + 1})
      <4>1. AtWriter' = {}
        BY <2>2, <3>2 DEF AtWriter
      <4>2. told'[t] = told[t] + IF t = brought + 1 THEN 1 ELSE 0
        BY <1>4, <3>2
      <4>3. QED
        BY <1>1, <1>6, <1>7, <2>3, <2>4, <4>1, <4>2 DEF In
    <3>3. QED
      BY <2>2, <3>1, <3>2
  <2>7. ASSUME NEW t \in Reply PROVE Settled(t)'
    <3>1. CASE t = brought + 1
      <4>1. t \notin 1 .. brought /\ t \in 1 .. brought'
        BY <1>1, <2>2, <3>1
      <4>2. Spots(t)' = 1
        BY <1>3, <2>6, <3>1, <4>1
      <4>3. QED
        BY <4>1, <4>2 DEF Settled
    <3>2. CASE t # brought + 1
      <4>1. Spots(t)' = Spots(t)
        BY <1>3, <2>6, <3>2
      <4>2. t \in 1 .. brought <=> t \in 1 .. brought'
        BY <1>1, <2>2, <3>2 DEF Reply
      <4>3. Overtaken(t) => Overtaken(t)'
        BY <1>9, <2>3
      <4>4. Settled(t)
        BY <1>2
      <4>5. QED
        BY <4>1, <4>2, <4>3, <4>4 DEF Settled
    <3>3. QED
      BY <3>1, <3>2
  <2>8. QED
    BY <1>2, <1>8, <1>10, <2>3, <2>7 DEF Tracked
<1>19. CASE AskMode
  <2>1. /\ command.at = "asks" /\ brought' = brought
        /\ command' = [command EXCEPT !.at = "sends", !.bound = @ \/ encrypted]
        /\ UNCHANGED <<engineVars, dispatchVars, replyHistory>>
    BY <1>19 DEF AskMode
  <2>2. command # NoCommand
    BY <1>14, <2>1
  <2>3. command'.at = "sends"
    BY <2>1 DEF ReplyTypeOK
  <2>4. command' # NoCommand
    BY <2>3 DEF NoCommand
  <2>5. AtWriter' = AtWriter
    BY <2>1, <2>2, <2>4 DEF AtWriter, dispatchVars
  <2>6. QED
    BY <1>17, <2>1, <2>5
<1>20. CASE TurnMode \/ PinTurns \/ UNCHANGED replyVars
  <2>1. /\ command' = command /\ brought' = brought /\ UNCHANGED <<engineVars, dispatchVars, replyHistory>>
    BY <1>20 DEF TurnMode, PinTurns, replyVars
  <2>2. AtWriter' = AtWriter
    BY <2>1 DEF AtWriter, dispatchVars
  <2>3. QED
    BY <1>17, <2>1, <2>2
<1>21. CASE SayPlain
  <2>1. /\ command.at = "sends" /\ ~command.bound /\ command' = NoCommand /\ brought' = brought
        /\ inClear' = inClear \cup {brought}
        /\ UNCHANGED <<engineVars, dispatchVars, delivered, told, accepted>>
    BY <1>21 DEF SayPlain
  <2>2. /\ AtRefused' = AtRefused /\ awaiting' = awaiting /\ paced' = paced /\ losing' = losing
        /\ delivered' = delivered /\ told' = told
        /\ accepted' = accepted /\ recent' = recent /\ dispatching' = dispatching
    BY <1>11, <2>1 DEF engineVars, dispatchVars
  <2>3. command # NoCommand /\ brought \in Reply /\ \A d \in Range(dispatching) : d.by # "writer"
    BY <1>13, <1>14, <2>1 DEF Writing
  <2>4. AtWriter = {brought} /\ AtWriter' = {}
    BY <2>1, <2>3 DEF AtWriter
  <2>5. ASSUME NEW t \in Reply PROVE Spots(t)' = Spots(t)
    <3>1. /\ In(t, AtRefused') = In(t, AtRefused) /\ In(t, Range(awaiting')) = In(t, Range(awaiting))
          /\ In(t, Range(paced')) = In(t, Range(paced)) /\ In(t, Range(losing')) = In(t, Range(losing))
          /\ In(t, delivered') = In(t, delivered) /\ told'[t] = told[t] /\ In(t, AtWriter') = 0
      BY <1>15, <2>2, <2>4
    <3>2. CASE t = brought
      <4>1. In(t, AtWriter) = 1 /\ In(t, inClear') = 1
        BY <1>15, <2>1, <2>4, <3>2
      <4>2. Spots(t) <= 1
        BY <1>3
      <4>3. In(t, inClear) = 0
        BY <1>6, <1>15, <1>16, <4>1, <4>2
      <4>4. QED
        BY <1>6, <1>7, <1>15, <1>16, <3>1, <4>1, <4>3
    <3>3. CASE t # brought
      <4>1. In(t, AtWriter) = 0 /\ In(t, inClear') = In(t, inClear)
        BY <1>15, <2>1, <2>4, <3>3
      <4>2. QED
        BY <1>6, <1>7, <1>15, <1>16, <3>1, <4>1
    <3>4. QED
      BY <3>2, <3>3
  <2>6. \A t \in Reply : Settled(t)'
    BY <1>2, <1>9, <2>1, <2>2, <2>5, StaysSettled
  <2>7. QED
    BY <1>2, <1>8, <1>10, <2>2, <2>6 DEF Tracked
<1>22. CASE SendRefused \/ SendRaises
  <2>1. /\ command.at = "sends" /\ dispatching = << >> /\ command' = NoCommand /\ brought' = brought
        /\ Tell({brought})
        /\ UNCHANGED <<engineVars, dispatchVars, delivered, inClear, accepted>>
    BY <1>22 DEF SendRefused, SendRaises, Unlocked
  <2>2. /\ AtRefused' = AtRefused /\ awaiting' = awaiting /\ paced' = paced /\ losing' = losing
        /\ delivered' = delivered /\ inClear' = inClear
        /\ accepted' = accepted /\ recent' = recent /\ dispatching' = dispatching
    BY <1>11, <2>1 DEF engineVars, dispatchVars
  <2>3. AtWriter = {brought} /\ AtWriter' = {} /\ brought \in Reply
    BY <1>12, <1>13, <1>14, <2>1 DEF AtWriter
  <2>4. ASSUME NEW t \in Reply PROVE Spots(t)' = Spots(t)
    <3>1. /\ In(t, AtRefused') = In(t, AtRefused) /\ In(t, Range(awaiting')) = In(t, Range(awaiting))
          /\ In(t, Range(paced')) = In(t, Range(paced)) /\ In(t, Range(losing')) = In(t, Range(losing))
          /\ In(t, delivered') = In(t, delivered) /\ In(t, inClear') = In(t, inClear)
          /\ In(t, AtWriter') = 0
      BY <1>15, <2>2, <2>3
    <3>2. told'[t] = told[t] + In(t, AtWriter)
      BY <1>4, <2>1, <2>3 DEF In
    <3>3. QED
      BY <1>6, <1>7, <1>15, <1>16, <3>1, <3>2
  <2>5. \A t \in Reply : Settled(t)'
    BY <1>2, <1>9, <2>1, <2>2, <2>4, StaysSettled
  <2>6. QED
    BY <1>2, <1>8, <1>10, <2>2, <2>5 DEF Tracked
<1>23. CASE GiveUpOnKeys
  <2>1. /\ awaiting' = << >> /\ Tell(Range(awaiting)) /\ brought' = brought /\ command' = command
        /\ UNCHANGED <<paced, losing, dispatchVars, delivered, inClear, accepted>>
    BY <1>23 DEF GiveUpOnKeys
  <2>2. /\ AtRefused' = AtRefused /\ AtWriter' = AtWriter /\ Range(awaiting') = {} /\ paced' = paced
        /\ losing' = losing /\ delivered' = delivered /\ inClear' = inClear
        /\ accepted' = accepted /\ recent' = recent /\ dispatching' = dispatching
    BY <1>5, <1>11, <2>1 DEF dispatchVars, AtWriter
  <2>3. ASSUME NEW t \in Reply PROVE Spots(t)' = Spots(t)
    <3>1. /\ In(t, AtRefused') = In(t, AtRefused) /\ In(t, AtWriter') = In(t, AtWriter)
          /\ In(t, Range(paced')) = In(t, Range(paced)) /\ In(t, Range(losing')) = In(t, Range(losing))
          /\ In(t, delivered') = In(t, delivered) /\ In(t, inClear') = In(t, inClear)
          /\ In(t, Range(awaiting')) = 0
      BY <1>15, <2>2
    <3>2. told'[t] = told[t] + In(t, Range(awaiting))
      BY <1>4, <2>1 DEF In
    <3>3. QED
      BY <1>6, <1>7, <1>15, <1>16, <3>1, <3>2
  <2>4. \A t \in Reply : Settled(t)'
    BY <1>2, <1>9, <2>1, <2>2, <2>3, StaysSettled
  <2>5. IsInjective(awaiting')
    <3>1. DOMAIN << >> = {}
      OBVIOUS
    <3>2. QED
      BY <2>1, <3>1 DEF IsInjective
  <2>6. QED
    BY <1>2, <1>8, <1>10, <2>2, <2>4, <2>5 DEF Tracked
<1>24. CASE PacerWrites
  <2>1. /\ losing = << >> /\ paced # << >> /\ paced' = Tail(paced) /\ brought' = brought /\ command' = command
        /\ \/ delivered' = delivered \cup {Head(paced)} /\ losing' = losing
           \/ losing' = <<Head(paced)>> /\ delivered' = delivered
        /\ UNCHANGED <<awaiting, dispatchVars, inClear, told, accepted>>
    BY <1>24 DEF PacerWrites
  <2>2. /\ AtRefused' = AtRefused /\ AtWriter' = AtWriter /\ awaiting' = awaiting /\ inClear' = inClear
        /\ told' = told /\ accepted' = accepted /\ recent' = recent /\ dispatching' = dispatching
    BY <1>11, <2>1 DEF dispatchVars, AtWriter
  <2>3. /\ Head(paced) \in Range(paced) /\ Range(paced') = Range(paced) \ {Head(paced)}
        /\ IsInjective(paced') /\ Head(paced) \in Reply
    BY <1>1, <1>2, <2>1, RangeTail
  <2>4. \/ delivered' = delivered \cup {Head(paced)} /\ Range(losing') = Range(losing)
        \/ Range(losing') = Range(losing) \cup {Head(paced)} /\ delivered' = delivered
    BY <1>5, <2>1, RangeOne
  <2>5. ASSUME NEW t \in Reply PROVE Spots(t)' = Spots(t)
    <3>1. /\ In(t, AtRefused') = In(t, AtRefused) /\ In(t, AtWriter') = In(t, AtWriter)
          /\ In(t, Range(awaiting')) = In(t, Range(awaiting))
          /\ In(t, inClear') = In(t, inClear) /\ told'[t] = told[t]
      BY <1>15, <2>2
    <3>2. CASE t = Head(paced)
      <4>1. In(t, Range(paced)) = 1 /\ In(t, Range(paced')) = 0
        BY <1>15, <2>3, <3>2
      <4>2. Spots(t) <= 1
        BY <1>3
      <4>3. In(t, delivered) = 0 /\ In(t, Range(losing)) = 0
        BY <1>6, <1>15, <1>16, <4>1, <4>2
      <4>4. \/ In(t, delivered') = 1 /\ In(t, Range(losing')) = 0
            \/ In(t, delivered') = 0 /\ In(t, Range(losing')) = 1
        BY <1>15, <2>4, <3>2, <4>3
      <4>5. QED
        BY <1>6, <1>7, <1>15, <1>16, <3>1, <4>1, <4>3, <4>4
    <3>3. CASE t # Head(paced)
      <4>1. /\ In(t, Range(paced')) = In(t, Range(paced)) /\ In(t, Range(losing')) = In(t, Range(losing))
            /\ In(t, delivered') = In(t, delivered)
        BY <1>15, <2>3, <2>4, <3>3
      <4>2. QED
        BY <1>6, <1>7, <1>15, <1>16, <3>1, <4>1
    <3>4. QED
      BY <3>2, <3>3
  <2>6. \A t \in Reply : Settled(t)'
    BY <1>2, <1>9, <2>1, <2>2, <2>5, StaysSettled
  <2>7. QED
    BY <1>2, <1>8, <1>10, <2>2, <2>3, <2>4, <2>6 DEF Tracked
\* A step that submits texts.
<1>25. ASSUME NEW texts \in Seq(Reply), NEW by \in {"writer", "reader"},
              dispatching = << >>, Submit(texts, by), IsInjective(texts), IsInjective(awaiting'),
              UNCHANGED <<brought, losing, recent, told, inClear>>,
              \A t \in Reply :
                 In(t, AtWriter') + In(t, Range(awaiting')) + In(t, delivered') + In(t, Range(texts))
                 = In(t, AtWriter) + In(t, Range(awaiting)) + In(t, delivered)
       PROVE  Tracked'
  <2>1. ASSUME NEW t \in Range(texts)
        PROVE  t \in Reply /\ Spots(t) = 1 /\ In(t, Range(paced)) = 0 /\ In(t, Range(losing)) = 0
    <3>1. t \in Reply
      BY RangeIn
    <3>2. In(t, AtWriter) + In(t, Range(awaiting)) + In(t, delivered) >= 1
      <4>1. In(t, Range(texts)) = 1
        BY <1>15
      <4>2. QED
        BY <1>25, <1>15, <3>1, <4>1
    <3>3. Spots(t) <= 1
      BY <1>3, <3>1
    <3>4. QED
      BY <1>6, <1>15, <1>16, <3>1, <3>2, <3>3, SMTT(30)
  <2>2. Range(texts) \cap (Range(paced) \cup Range(losing)) = {}
    BY <1>15, <2>1
  <2>3. /\ IsInjective(paced') /\ NotedNow' /\ InPacer'
        /\ Range(dispatching) = {}
        /\ \E d : Range(dispatching') = {d} /\ d.by = by
        /\ AtRefused = {}
        /\ Range(paced') \cup AtRefused' = Range(paced) \cup Range(texts)
        /\ Range(paced') \cap AtRefused' = {}
        /\ \A t : t \notin Range(texts) /\ Overtaken(t) => Overtaken(t)'
    BY <1>25, <2>2, SubmitTracks
  <2>4. ASSUME NEW t \in Reply PROVE Spots(t)' = Spots(t)
    <3>1. In(t, Range(losing')) = In(t, Range(losing)) /\ In(t, inClear') = In(t, inClear)
          /\ told'[t] = told[t] /\ In(t, AtRefused) = 0
      BY <1>25, <1>15, <2>3
    <3>2. In(t, Range(paced')) + In(t, AtRefused') = In(t, Range(paced)) + In(t, Range(texts))
      <4>1. ~(t \in Range(texts) /\ t \in Range(paced))
        BY <2>2
      <4>2. /\ t \in Range(paced') \/ t \in AtRefused' <=> t \in Range(paced) \/ t \in Range(texts)
            /\ ~(t \in Range(paced') /\ t \in AtRefused')
        BY <2>3
      <4>3. QED
        BY <4>1, <4>2 DEF In
    <3>3. In(t, AtWriter') + In(t, Range(awaiting')) + In(t, delivered') + In(t, Range(texts))
          = In(t, AtWriter) + In(t, Range(awaiting)) + In(t, delivered)
      BY <1>25
    <3>4. QED
      BY <1>6, <1>7, <1>15, <1>16, <3>1, <3>2, <3>3
  <2>5. \A t \in Reply : Settled(t)'
    <3>1. \A t \in Reply : Spots(t) = 0 /\ Overtaken(t) => Overtaken(t)'
      BY <2>1, <2>3
    <3>2. QED
      BY <1>2, <1>25, <2>4, <3>1, StaysSettled
  <2>6. QED
    BY <1>25, <2>3, <2>5 DEF Tracked
<1>26. IsInjective(<< >>) /\ \A x : IsInjective(<<x>>)
  <2>1. DOMAIN << >> = {} /\ \A x : DOMAIN <<x>> = {1}
    OBVIOUS
  <2>2. QED
    BY <2>1 DEF IsInjective
<1>27. CASE SendText
  <2>1. /\ command.at = "sends" /\ dispatching = << >> /\ brought' = brought
        /\ UNCHANGED <<losing, recent, delivered, inClear, told>>
    BY <1>27 DEF SendText, Unlocked
  <2>2. command # NoCommand /\ brought \in Reply
    BY <1>13, <1>14, <2>1
  <2>3. AtWriter = {brought}
    BY <1>12, <2>1, <2>2 DEF AtWriter
  <2>4. CASE /\ awaiting' = Append(awaiting, brought)
             /\ command' = NoCommand
             /\ UNCHANGED <<paced, dispatching, accepted>>
    <3>1. AtWriter' = {} /\ AtRefused' = AtRefused
      BY <1>11, <2>4 DEF AtWriter
    <3>2. brought \notin Range(awaiting)
      <4>1. In(brought, AtWriter) = 1
        BY <1>15, <2>3
      <4>2. Spots(brought) <= 1
        BY <1>3, <2>2
      <4>3. In(brought, Range(awaiting)) = 0
        BY <1>6, <1>15, <1>16, <2>2, <4>1, <4>2
      <4>4. QED
        BY <1>15, <4>3
    <3>3. <<brought>> \in Seq(Reply) /\ Range(<<brought>>) = {brought}
      BY <2>2, RangeOne
    <3>4. awaiting' = awaiting \o <<brought>>
      BY <1>1, <2>2, <2>4, AppendIsConcat
    <3>5. Range(awaiting') = Range(awaiting) \cup {brought}
      <4>1. Range(awaiting \o <<brought>>) = Range(awaiting) \cup Range(<<brought>>)
        BY <1>1, <3>3, RangeConcat
      <4>2. QED
        BY <3>3, <3>4, <4>1
    <3>6. IsInjective(awaiting')
      BY <1>1, <1>2, <1>26, <3>2, <3>3, <3>4, InjectiveConcat
    <3>7. ASSUME NEW t \in Reply PROVE Spots(t)' = Spots(t)
      <4>1. /\ In(t, AtRefused') = In(t, AtRefused) /\ In(t, Range(paced')) = In(t, Range(paced))
            /\ In(t, Range(losing')) = In(t, Range(losing)) /\ In(t, delivered') = In(t, delivered)
            /\ In(t, inClear') = In(t, inClear) /\ told'[t] = told[t] /\ In(t, AtWriter') = 0
        BY <1>15, <2>1, <2>4, <3>1
      <4>2. In(t, Range(awaiting')) = In(t, Range(awaiting)) + In(t, AtWriter)
        BY <2>3, <3>2, <3>5 DEF In
      <4>3. QED
        BY <1>6, <1>7, <1>15, <1>16, <4>1, <4>2
    <3>8. \A t \in Reply : Settled(t)'
      BY <1>2, <1>9, <2>1, <2>4, <3>7, StaysSettled
    <3>9. QED
      BY <1>2, <1>8, <1>10, <2>1, <2>4, <3>6, <3>8 DEF Tracked
  <2>5. CASE awaiting = << >> /\ Submit(<<brought>>, "writer") /\ UNCHANGED <<awaiting, command>>
    <3>1. <<brought>> \in Seq(Reply) /\ Range(<<brought>>) = {brought} /\ IsInjective(<<brought>>)
      BY <1>26, <2>2, RangeOne
    <3>2. AtWriter' = {}
      <4>1. PICK took \in Seq(Reply) :
              dispatching' = <<[by |-> "writer", taken |-> took, refused |-> Range(<<brought>>) \ Range(took)]>>
        BY <2>5, <3>1, SubmitTakes
      <4> DEFINE d == [by |-> "writer", taken |-> took, refused |-> Range(<<brought>>) \ Range(took)]
      <4>2. d.by = "writer"
        OBVIOUS
      <4>3. dispatching' = <<d>>
        BY <4>1
      <4> HIDE DEF d
      <4>4. Range(dispatching') = {d}
        BY <4>3, RangeOne
      <4>5. QED
        BY <4>2, <4>4 DEF AtWriter
    <3>3. IsInjective(awaiting')
      BY <1>2, <2>5
    <3>4. ASSUME NEW t \in Reply
          PROVE  In(t, AtWriter') + In(t, Range(awaiting')) + In(t, delivered') + In(t, Range(<<brought>>))
                 = In(t, AtWriter) + In(t, Range(awaiting)) + In(t, delivered)
      <4>1. /\ In(t, AtWriter') = 0 /\ In(t, Range(awaiting')) = In(t, Range(awaiting))
            /\ In(t, delivered') = In(t, delivered) /\ In(t, Range(<<brought>>)) = In(t, AtWriter)
        BY <1>15, <2>1, <2>3, <2>5, <3>1, <3>2
      <4>2. QED
        BY <1>15, <4>1
    <3>5. QED
      BY <1>25, <2>1, <2>5, <3>1, <3>3, <3>4
  <2>6. QED
    BY <1>27, <2>4, <2>5 DEF SendText
<1>28. CASE KeysCome
  <2>1. /\ dispatching = << >> /\ awaiting' = << >> /\ brought' = brought /\ command' = command
        /\ UNCHANGED <<losing, recent, delivered, inClear, told>> /\ Submit(awaiting, "reader")
    BY <1>28 DEF KeysCome, Unlocked
  <2>2. AtWriter' = AtWriter
    <3>1. PICK took \in Seq(Reply) :
            dispatching' = <<[by |-> "reader", taken |-> took, refused |-> Range(awaiting) \ Range(took)]>>
      BY <1>1, <2>1, SubmitTakes
    <3> DEFINE d == [by |-> "reader", taken |-> took, refused |-> Range(awaiting) \ Range(took)]
    <3>2. d.by # "writer"
      OBVIOUS
    <3>3. dispatching' = <<d>>
      BY <3>1
    <3> HIDE DEF d
    <3>4. Range(dispatching') = {d} /\ Range(dispatching) = {}
      BY <1>12, <2>1, <3>3, RangeOne
    <3>5. QED
      BY <2>1, <3>2, <3>4 DEF AtWriter
  <2>3. ASSUME NEW t \in Reply
        PROVE  In(t, AtWriter') + In(t, Range(awaiting')) + In(t, delivered') + In(t, Range(awaiting))
               = In(t, AtWriter) + In(t, Range(awaiting)) + In(t, delivered)
    <3>1. In(t, AtWriter') = In(t, AtWriter) /\ In(t, Range(awaiting')) = 0 /\ In(t, delivered') = In(t, delivered)
      BY <1>5, <1>15, <2>1, <2>2
    <3>2. QED
      BY <1>15, <3>1
  <2>4. QED
    BY <1>1, <1>2, <1>25, <1>26, <2>1, <2>3
<1>29. ASSUME NEW x \in Reply, Nacked(x) PROVE Tracked'
  <2>1. /\ dispatching = << >> /\ x \in delivered /\ delivered' = delivered \ {x}
        /\ UNCHANGED <<command, brought, awaiting, losing, recent, inClear>>
    BY <1>29 DEF Nacked, Unlocked
  <2>2. CASE Tell({x}) /\ UNCHANGED <<paced, dispatching, accepted>>
    <3>1. AtWriter' = AtWriter /\ AtRefused' = AtRefused
      BY <1>11, <2>1, <2>2 DEF AtWriter
    <3>2. ASSUME NEW t \in Reply PROVE Spots(t)' = Spots(t)
      <4>1. /\ In(t, AtRefused') = In(t, AtRefused) /\ In(t, Range(paced')) = In(t, Range(paced))
            /\ In(t, Range(losing')) = In(t, Range(losing)) /\ In(t, AtWriter') = In(t, AtWriter)
            /\ In(t, inClear') = In(t, inClear) /\ In(t, Range(awaiting')) = In(t, Range(awaiting))
        BY <1>15, <2>1, <2>2, <3>1
      <4>2. told'[t] = told[t] + IF t \in {x} THEN 1 ELSE 0
        BY <1>4, <2>2
      <4>3. In(t, delivered') = In(t, delivered) - IF t \in {x} THEN 1 ELSE 0
        BY <2>1 DEF In
      <4>4. QED
        BY <1>6, <1>7, <1>15, <1>16, <4>1, <4>2, <4>3
    <3>3. \A t \in Reply : Settled(t)'
      BY <1>2, <1>9, <2>1, <2>2, <3>2, StaysSettled
    <3>4. QED
      BY <1>2, <1>8, <1>10, <2>1, <2>2, <3>3 DEF Tracked
  <2>3. CASE Submit(<<x>>, "reader") /\ UNCHANGED told
    <3>1. <<x>> \in Seq(Reply) /\ Range(<<x>>) = {x} /\ IsInjective(<<x>>)
      BY <1>26, RangeOne
    <3>2. AtWriter' = AtWriter
      <4>1. PICK took \in Seq(Reply) :
              dispatching' = <<[by |-> "reader", taken |-> took, refused |-> Range(<<x>>) \ Range(took)]>>
        BY <2>3, <3>1, SubmitTakes
      <4> DEFINE d == [by |-> "reader", taken |-> took, refused |-> Range(<<x>>) \ Range(took)]
      <4>2. d.by # "writer"
        OBVIOUS
      <4>3. dispatching' = <<d>>
        BY <4>1
      <4> HIDE DEF d
      <4>4. Range(dispatching') = {d} /\ Range(dispatching) = {}
        BY <1>12, <2>1, <4>3, RangeOne
      <4>5. QED
        BY <2>1, <4>2, <4>4 DEF AtWriter
    <3>3. IsInjective(awaiting')
      BY <1>2, <2>1
    <3>4. ASSUME NEW t \in Reply
          PROVE  In(t, AtWriter') + In(t, Range(awaiting')) + In(t, delivered') + In(t, Range(<<x>>))
                 = In(t, AtWriter) + In(t, Range(awaiting)) + In(t, delivered)
      <4>1. In(t, AtWriter') = In(t, AtWriter) /\ In(t, Range(awaiting')) = In(t, Range(awaiting))
        BY <1>15, <2>1, <3>2
      <4>2. In(t, delivered') + In(t, Range(<<x>>)) = In(t, delivered)
        BY <2>1, <3>1 DEF In
      <4>3. QED
        BY <1>15, <4>1, <4>2
    <3>5. QED
      BY <1>25, <2>1, <2>3, <3>1, <3>3, <3>4
  <2>4. QED
    BY <1>29, <2>2, <2>3 DEF Nacked
<1>30. CASE DispatchEnds
  <2> DEFINE d == dispatching[1]
  <2>1. /\ dispatching # << >> /\ Tell(d.refused)
        /\ command' = IF d.by = "writer" THEN NoCommand ELSE command
        /\ dispatching' = << >>
        /\ UNCHANGED <<brought, engineVars, delivered, inClear, accepted>>
    BY <1>30 DEF DispatchEnds, Unlocked
  <2>2. Range(dispatching) = {d} /\ Range(dispatching') = {}
    <3>1. dispatching \in Seq(Dispatch)
      BY DEF ReplyTypeOK, Dispatch
    <3>2. Len(dispatching) \in Nat /\ Len(dispatching) # 0 /\ Len(dispatching) <= 1
      BY <2>1, <3>1, EmptySeq DEF Writing
    <3>3. DOMAIN dispatching = {1}
      <4>1. DOMAIN dispatching = 1 .. Len(dispatching) /\ Len(dispatching) = 1
        BY <3>1, <3>2
      <4>2. QED
        BY <4>1
    <3>4. QED
      BY <1>5, <2>1, <3>3 DEF Range
  <2>3. AtRefused = d.refused /\ AtRefused' = {}
    BY <2>2 DEF AtRefused
  <2>4. AtWriter' = AtWriter
    BY <2>1, <2>2 DEF AtWriter
  <2>5. /\ awaiting' = awaiting /\ paced' = paced /\ losing' = losing /\ delivered' = delivered
        /\ inClear' = inClear /\ accepted' = accepted /\ brought' = brought
    BY <2>1 DEF engineVars
  <2> HIDE DEF d
  <2>6. ASSUME NEW t \in Reply PROVE Spots(t)' = Spots(t)
    <3>1. /\ In(t, AtWriter') = In(t, AtWriter) /\ In(t, Range(paced')) = In(t, Range(paced))
          /\ In(t, Range(losing')) = In(t, Range(losing)) /\ In(t, delivered') = In(t, delivered)
          /\ In(t, inClear') = In(t, inClear) /\ In(t, Range(awaiting')) = In(t, Range(awaiting))
          /\ In(t, AtRefused') = 0
      BY <1>15, <2>3, <2>4, <2>5
    <3>2. told'[t] = told[t] + In(t, AtRefused)
      BY <1>4, <2>1, <2>3 DEF In
    <3>3. QED
      BY <1>6, <1>7, <1>15, <1>16, <3>1, <3>2
  <2>7. \A t \in Reply : Settled(t)'
    BY <1>2, <1>9, <2>5, <2>6, StaysSettled
  <2>8. InPacer'
    BY <1>2, <1>30, DispatchNotes
  <2>9. NotedNow'
    BY <2>1 DEF NotedNow
  <2>10. QED
    BY <1>2, <2>5, <2>7, <2>8, <2>9 DEF Tracked
<1>31. CASE OnLost
  <2>1. /\ losing # << >> /\ losing' = << >> /\ dispatching = << >> /\ dispatching' = << >>
        /\ Tell(Range(losing) \cap Range(recent))
        /\ UNCHANGED <<command, brought, awaiting, paced, delivered, inClear, accepted>>
    BY <1>31 DEF OnLost, Unlocked
  <2> DEFINE x == losing[1]
  <2>2. Range(losing) = {x} /\ x \in Reply /\ Range(losing') = {}
    <3>1. Len(losing) \in Nat /\ Len(losing) # 0 /\ Len(losing) <= 1
      BY <1>1, <2>1, EmptySeq DEF ReplyTypeOK
    <3>2. DOMAIN losing = {1}
      <4>1. DOMAIN losing = 1 .. Len(losing)
        <5>1. losing \in Seq(Reply)
          BY <1>1
        <5>2. QED
          BY <5>1
      <4>2. Len(losing) = 1
        BY <3>1
      <4>3. QED
        BY <4>1, <4>2
    <3>3. QED
      BY <1>1, <1>5, <2>1, <3>2, RangeIn DEF Range
  <2> HIDE DEF x
  <2>3. AtWriter' = AtWriter /\ AtRefused' = AtRefused
    BY <1>11, <2>1 DEF AtWriter
  <2>4. Spots(x) = 1 /\ In(x, Range(losing)) = 1 /\ x \notin Range(paced)
    <3>1. In(x, Range(losing)) = 1 /\ Spots(x) <= 1
      BY <1>3, <1>15, <2>2
    <3>2. Spots(x) = 1 /\ In(x, Range(paced)) = 0
      BY <1>6, <1>15, <1>16, <2>2, <3>1
    <3>3. QED
      BY <1>15, <3>1, <3>2
  <2>5. ASSUME NEW t \in Reply
        PROVE  Spots(t)' = Spots(t) - IF t = x /\ x \notin Range(recent) THEN 1 ELSE 0
    <3>1. /\ In(t, AtWriter') = In(t, AtWriter) /\ In(t, Range(paced')) = In(t, Range(paced))
          /\ In(t, AtRefused') = In(t, AtRefused) /\ In(t, delivered') = In(t, delivered)
          /\ In(t, inClear') = In(t, inClear) /\ In(t, Range(awaiting')) = In(t, Range(awaiting))
          /\ In(t, Range(losing')) = 0
      BY <1>15, <2>1, <2>2, <2>3
    <3>2. told'[t] = told[t] + IF t = x /\ x \in Range(recent) THEN 1 ELSE 0
      <4>1. told'[t] = told[t] + IF t \in Range(losing) \cap Range(recent) THEN 1 ELSE 0
        BY <1>4, <2>1
      <4>2. t \in Range(losing) \cap Range(recent) <=> t = x /\ x \in Range(recent)
        BY <2>2
      <4>3. QED
        BY <4>1, <4>2
    <3>3. In(t, Range(losing)) = IF t = x THEN 1 ELSE 0
      BY <2>2 DEF In
    <3>4. QED
      BY <1>6, <1>7, <1>15, <1>16, <3>1, <3>2, <3>3
  <2>6. x \notin Range(recent) => Overtaken(x)
    <3> SUFFICES ASSUME x \notin Range(recent) PROVE Overtaken(x)
      OBVIOUS
    <3>1. Noted(x)
      BY <1>2, <2>1, <2>2 DEF InPacer
    <3>2. \A p \in DOMAIN recent : recent[p] # x
      BY DEF Range
    <3>3. QED
      BY <3>1, <3>2, OvertakenIs DEF Noted
  <2>7. ASSUME NEW t \in Reply PROVE Settled(t)'
    <3>1. CASE t = x /\ x \notin Range(recent)
      <4>1. Spots(t)' = 0
        BY <2>4, <2>5, <3>1
      <4>2. Overtaken(t)'
        BY <1>9, <2>1, <2>6, <3>1
      <4>3. QED
        BY <4>1, <4>2 DEF Settled
    <3>2. CASE ~(t = x /\ x \notin Range(recent))
      <4>1. Spots(t)' = Spots(t)
        BY <1>3, <2>5, <3>2
      <4>2. QED
        BY <1>2, <1>9, <2>1, <4>1, StaysSettled
    <3>3. QED
      BY <3>1, <3>2
  <2>8. InPacer'
    BY <1>2, <1>31, <2>4, OnLostNotes DEF x
  <2>9. NotedNow'
    BY <2>1 DEF NotedNow
  <2>10. QED
    BY <1>2, <2>1, <2>7, <2>8, <2>9 DEF Tracked
<1>32. CASE PacerDiesNow
  BY <1>32 DEF PacerDiesNow
<1>33. QED
  BY <1>18, <1>19, <1>20, <1>21, <1>22, <1>23, <1>24, <1>27, <1>28, <1>29, <1>30, <1>31, <1>32
     DEF ReplyNext, Writer

\* The writer's place is the one Places counts.
LEMMA PlacesAreSpots == \A t : Places(t) + told[t] = Spots(t)
<1> SUFFICES ASSUME NEW t PROVE Places(t) + told[t] = Spots(t)
  OBVIOUS
<1>1. QED
  BY DEF Places, Spots, In, AtWriter, AtRefused

LEMMA ReplyInvInit == ReplyInit => ReplyInv
<1> SUFFICES ASSUME ReplyInit PROVE ReplyInv
  OBVIOUS
<1>1. /\ awaiting = << >> /\ paced = << >> /\ losing = << >> /\ dispatching = << >> /\ recent = << >>
      /\ accepted = << >> /\ command = NoCommand /\ brought = 0
      /\ delivered = {} /\ inClear = {} /\ told = [t \in Reply |-> 0]
  BY DEF ReplyInit
<1>2. Range(<< >>) = {} /\ Len(<< >>) = 0 /\ DOMAIN << >> = {} /\ << >> \in Seq(Reply)
      /\ << >> \in Seq(Dispatch)
  BY RangeEmpty
<1>3. ReplyTypeOK
  <2>1. NoCommand \in [verb : {"none", "SAY", "ESAY"}, at : {"idle", "asks", "sends"}, bound : BOOLEAN]
    BY DEF NoCommand
  <2>2. told \in [Reply -> Nat]
    BY <1>1
  <2>3. 0 \in 0 .. MaxReplies
    BY ReplyAssumption
  <2>4. /\ Len(paced) <= Room /\ Len(recent) <= SENT_MAX /\ Len(losing) <= 1
        /\ delivered \subseteq Reply /\ inClear \subseteq Reply
    BY <1>1, <1>2, ReplyAssumption
  <2>5. \A q \in {awaiting, paced, losing, recent, accepted} : q \in Seq(Reply)
    BY <1>1, <1>2
  <2>6. nacks \in Nat /\ turns \in Nat /\ encrypted \in BOOLEAN /\ hasPin \in BOOLEAN /\ pacerDown \in BOOLEAN
    BY DEF ReplyInit
  <2>7. dispatching \in Seq(Dispatch)
    BY <1>1, <1>2
  <2>8. QED
    BY <1>1, <2>1, <2>2, <2>3, <2>4, <2>5, <2>6, <2>7 DEF ReplyTypeOK, Dispatch
<1>4. Writing
  BY <1>1, <1>2 DEF Writing
<1>5. AtWriter = {} /\ AtRefused = {}
  BY <1>1, <1>2 DEF AtWriter, AtRefused
<1>6. \A t \in Reply : Spots(t) = 0 /\ t \notin 1 .. brought
  BY <1>1, <1>2, <1>5 DEF Spots, In
<1>7. \A t \in Reply : Settled(t)
  BY <1>6 DEF Settled
<1>8. Tracked
  BY <1>1, <1>2, <1>7 DEF Tracked, IsInjective, NotedNow, InPacer
<1>9. QED
  BY <1>3, <1>4, <1>8 DEF ReplyInv

LEMMA ReplyInvInductive == ReplyInv /\ [ReplyNext]_replyVars => ReplyInv'
<1> SUFFICES ASSUME ReplyInv, [ReplyNext]_replyVars PROVE ReplyInv'
  OBVIOUS
<1>1. ReplyTypeOK' /\ Writing'
  BY ReplyTypesNext DEF ReplyInv
<1>2. pacerDown => pacerDown'
  BY DEF ReplyNext, Writer, Bring, AskMode, SayPlain, SendRefused, SendText, SendRaises, DispatchEnds,
     TurnMode, KeysCome, Nacked, PinTurns, GiveUpOnKeys, PacerWrites, OnLost, PacerDiesNow,
     engineVars, replyVars
<1>3. ~pacerDown' => Tracked'
  BY <1>1, <1>2, TrackedNext DEF ReplyInv
<1>4. QED
  BY <1>1, <1>3 DEF ReplyInv

\* A reply lost on any thread is reported by exactly one E2E_SEND_FAILED, and no
\* other is, however the writer, reader, ticker and pacer interleave: unless the
\* pacer died, or took SENT_MAX later texts before it lost this one.
THEOREM LostAlwaysToldOnce == ReplySpec => []LostIsToldOnce
<1>1. ReplyInv => LostIsToldOnce
  <2> SUFFICES ASSUME ReplyInv, ~pacerDown, NEW t \in 1 .. brought
               PROVE  \/ Places(t) + told[t] = 1
                      \/ Places(t) + told[t] = 0 /\ Overtaken(t)
    BY DEF LostIsToldOnce
  <2>1. t \in Reply
    BY ReplyAssumption DEF ReplyInv, ReplyTypeOK, Reply
  <2>2. Settled(t)
    BY <2>1 DEF ReplyInv, Tracked
  <2>3. QED
    BY <2>2, PlacesAreSpots DEF Settled
<1>2. QED
  BY <1>1, ReplyInvInit, ReplyInvInductive, PTL DEF ReplySpec

\* The types; the pacer's queue, the msgids remembered and the lost text in hand
\* keep their bounds.
THEOREM ReplyTypeCorrect == ReplySpec => []ReplyTypeOK
<1>1. ReplyInv => ReplyTypeOK
  BY DEF ReplyInv
<1>2. QED
  BY <1>1, ReplyInvInit, ReplyInvInductive, PTL DEF ReplySpec
=============================================================================
