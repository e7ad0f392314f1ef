------------------------------ MODULE DccSend -------------------------------
(***************************************************************************)
(* DCC SEND (bot.py, `dcc_send`, `_dcc_serve`, `_dcc_drain`): an offer     *)
(* listens on the first free port of the range, its thread accepts one     *)
(* peer and stops listening, sends the file, half-closes and reads what    *)
(* the peer sends, its ACKs or anything else, to the end.  Closing a       *)
(* socket with bytes unread, or one the peer goes on writing to, resets    *)
(* the connection, and what was in flight is lost.  A peer is slow when a  *)
(* timeout of ours is over before it acts; each recv has a timeout of its  *)
(* own, so one that goes on sending is never slow.                         *)
(***************************************************************************)
EXTENDS Naturals, FiniteSets, FiniteSetsExt

CONSTANTS
    Ports,      \* DCC_PORT_MIN .. DCC_PORT_MAX
    MaxOffers,  \* bound: DCC commands
    Blocks,     \* the file, in blocks
    Buffer      \* blocks sent and not received yet that sendall takes

ASSUME DccAssumption ==
    /\ Ports \subseteq Nat \ {0} /\ IsFiniteSet(Ports)
    /\ MaxOffers \in Nat /\ Blocks \in Nat /\ Buffer \in Nat \ {0}

Offer == 1 .. MaxOffers

VARIABLES
    phase,    \* per offer: "none", "listens", "sends", "drains", "DCC_DONE", "DCC_ERROR",
              \* "DCC_TIMEOUT" or "CMD_ERROR"
    port,     \* per offer, its port, 0 for none
    visitor,  \* per offer, the offer whose peer it accepted, 0 for none
    peer,     \* per offer, its peer: "away", "knows", "reads", "gone"
    flow,     \* per offer, the blocks sent, those received, the ACKs read, whether it sends
              \* ACKs, whether it has sent more that is unread
    slow,     \* history: the offers that a timeout ended or cut short
    reset     \* the offers whose connection was reset

dccVars == <<phase, port, visitor, peer, flow, slow, reset>>

Ended == {"DCC_DONE", "DCC_ERROR", "DCC_TIMEOUT", "CMD_ERROR"}
Unread(o) == (flow[o].acks /\ flow[o].read < flow[o].got) \/ flow[o].more
PeerReading(o) == peer[visitor[o]] = "reads"

\* The ports bind() takes: SO_REUSEADDR lets it have one that only connections hold.
FreePorts == Ports \ {port[o] : o \in {p \in Offer : phase[p] = "listens"}}

\* Offers are numbered as they are made.
dcc_send(o) ==
    /\ phase[o] = "none" /\ \A p \in 1 .. o - 1 : phase[p] # "none"
    /\ IF FreePorts = {}
       THEN phase' = [phase EXCEPT ![o] = "CMD_ERROR"] /\ UNCHANGED <<port, peer>>
       ELSE /\ phase' = [phase EXCEPT ![o] = "listens"]
            /\ port' = [port EXCEPT ![o] = Min(FreePorts)]
            /\ peer' = [peer EXCEPT ![o] = "knows"]
    /\ UNCHANGED <<visitor, flow, slow, reset>>

\* A peer calls the port it was told.  Whoever listens there now accepts it,
\* and closes its listener.
Accept(o, p) ==
    /\ peer[p] = "knows" /\ port[p] = port[o] /\ phase[o] = "listens"
    /\ phase' = [phase EXCEPT ![o] = "sends"]
    /\ visitor' = [visitor EXCEPT ![o] = p]
    /\ peer' = [peer EXCEPT ![p] = "reads"]
    /\ \E acks \in BOOLEAN : flow' = [flow EXCEPT ![o].acks = acks]
    /\ UNCHANGED <<port, slow, reset>>

AcceptTimesOut(o) ==
    /\ phase[o] = "listens"
    /\ phase' = [phase EXCEPT ![o] = "DCC_TIMEOUT"]
    /\ slow' = slow \cup {o}
    /\ UNCHANGED <<port, visitor, peer, flow, reset>>

\* conn.close()
CloseAs(o, event) ==
    /\ phase' = [phase EXCEPT ![o] = event]
    /\ reset' = IF Unread(o) THEN reset \cup {o} ELSE reset

SendBlock(o) ==
    /\ phase[o] = "sends" /\ PeerReading(o)
    /\ flow[o].sent < Blocks /\ flow[o].sent - flow[o].got < Buffer
    /\ flow' = [flow EXCEPT ![o].sent = @ + 1]
    /\ UNCHANGED <<phase, port, visitor, peer, slow, reset>>

\* Mutant: a peer that stalls is waited for.
SendWaits(o) ==
    /\ phase[o] = "sends" /\ flow[o].sent < Blocks /\ ~PeerReading(o)
    /\ CloseAs(o, "DCC_ERROR")
    /\ UNCHANGED <<port, visitor, peer, flow, slow>>

\* sendall raises: the peer is gone, or has left the buffer full for 180 s.
SendFails(o) ==
    /\ phase[o] = "sends" /\ flow[o].sent < Blocks
    /\ IF PeerReading(o)
       THEN flow[o].sent - flow[o].got >= Buffer /\ slow' = slow \cup {o}
       ELSE UNCHANGED slow
    /\ CloseAs(o, "DCC_ERROR")
    /\ UNCHANGED <<port, visitor, peer, flow>>

\* Mutant: the socket is closed after the last byte.
EndOfFileCloses(o) ==
    /\ phase[o] = "sends" /\ flow[o].sent = Blocks
    /\ CloseAs(o, "DCC_DONE")
    /\ UNCHANGED <<port, visitor, peer, flow, slow>>

\* The last byte is sent: shutdown(SHUT_WR).
EndOfFile(o) ==
    /\ phase[o] = "sends" /\ flow[o].sent = Blocks
    /\ phase' = [phase EXCEPT ![o] = "drains"]
    /\ UNCHANGED <<port, visitor, peer, flow, slow, reset>>

DrainReads(o) ==
    /\ phase[o] = "drains" /\ Unread(o)
    /\ flow' = [flow EXCEPT ![o].read = flow[o].got, ![o].more = FALSE]
    /\ UNCHANGED <<phase, port, visitor, peer, slow, reset>>

\* The peer has closed, or has sent nothing for 60 s.
DrainEnds(o) ==
    /\ phase[o] = "drains" /\ ~Unread(o)
    /\ slow' = IF PeerReading(o) THEN slow \cup {o} ELSE slow
    /\ CloseAs(o, "DCC_DONE")
    /\ UNCHANGED <<port, visitor, peer, flow>>

_dcc_serve(o) ==
    \/ AcceptTimesOut(o) \/ SendBlock(o) \/ SendFails(o)
    \/ EndOfFile(o) \/ DrainReads(o) \/ DrainEnds(o)

\* The peer receives a block, and acknowledges it; an ACK to a closed socket
\* is answered with a reset.
PeerReads(o) ==
    /\ visitor[o] # 0 /\ PeerReading(o) /\ o \notin reset
    /\ flow[o].got < flow[o].sent
    /\ flow' = [flow EXCEPT ![o].got = @ + 1]
    /\ reset' = IF phase[o] \in Ended /\ flow[o].acks THEN reset \cup {o} ELSE reset
    /\ UNCHANGED <<phase, port, visitor, peer, slow>>

\* Not an ACK: what else a peer sends, as often as it likes.
PeerTalks(o) ==
    /\ visitor[o] # 0 /\ PeerReading(o) /\ o \notin reset
    /\ flow' = [flow EXCEPT ![o].more = TRUE]
    /\ reset' = IF phase[o] \in Ended THEN reset \cup {o} ELSE reset
    /\ UNCHANGED <<phase, port, visitor, peer, slow>>

\* The peer has the whole file; or it leaves before, which a slow one may too.
PeerLeaves(o) ==
    /\ visitor[o] # 0 /\ PeerReading(o)
    /\ peer' = [peer EXCEPT ![visitor[o]] = "gone"]
    /\ slow' = IF flow[o].got = Blocks \/ o \in reset THEN slow ELSE slow \cup {o}
    /\ UNCHANGED <<phase, port, visitor, flow, reset>>

DccInit ==
    /\ phase = [o \in Offer |-> "none"]
    /\ port = [o \in Offer |-> 0] /\ visitor = [o \in Offer |-> 0]
    /\ peer = [o \in Offer |-> "away"]
    /\ flow = [o \in Offer |-> [sent |-> 0, got |-> 0, read |-> 0, acks |-> FALSE, more |-> FALSE]]
    /\ slow = {} /\ reset = {}

DccNext ==
    \E o \in Offer :
        \/ dcc_send(o) \/ _dcc_serve(o)
        \/ \E p \in Offer : Accept(o, p)
        \/ PeerReads(o) \/ PeerTalks(o) \/ PeerLeaves(o)

DccSpec == DccInit /\ [][DccNext]_dccVars

-----------------------------------------------------------------------------
Flow == [sent : 0 .. Blocks, got : 0 .. Blocks, read : 0 .. Blocks,
         acks : BOOLEAN, more : BOOLEAN]

DccTypeOK ==
    /\ phase \in [Offer -> Ended \cup {"none", "listens", "sends", "drains"}]
    /\ port \in [Offer -> Ports \cup {0}] /\ visitor \in [Offer -> Offer \cup {0}]
    /\ peer \in [Offer -> {"away", "knows", "reads", "gone"}]
    /\ flow \in [Offer -> Flow]
    /\ slow \subseteq Offer /\ reset \subseteq Offer

(* A peer that keeps reading and stays gets the whole file: nothing of what*)
(* it was sent is lost to a reset, and DCC_DONE says that it has it all.   *)
(* And it is the file it was offered, unless an offer of its port has timed*)
(* out uncalled: the peer of that one may take the next one's, whose peer  *)
(* takes the one's after it.                                               *)
ReadersGetTheirFile ==
    \A o \in Offer :
        /\ o \notin slow => o \notin reset /\ (phase[o] = "DCC_DONE" => flow[o].got = Blocks)
        /\ visitor[o] \notin {0, o} => \E q \in Offer : phase[q] = "DCC_TIMEOUT" /\ port[q] = port[o]

(* Every offer ends, and its port is free again, whatever its peer does    *)
(* but one thing: a peer that goes on sending has its bytes read for ever. *)
OffersEnd ==
    \A o \in Offer :
        \/ []<>(phase[o] \in Ended \cup {"none"})
        \/ <>[](phase[o] = "drains") /\ []<><<PeerTalks(o)>>_dccVars
=============================================================================
