---------------------------- MODULE SessionProofs ----------------------------
(***************************************************************************)
(* Proofs about Session, for any nicks, networks and bounds.  The inductive*)
(* invariant SessionInv counts what is on its way between the bot and the  *)
(* server: one nick or one request for one before the 001, one line of the *)
(* login at a time, one unread line that says our nick.                    *)
(***************************************************************************)
EXTENDS Session, SequenceFacts

-----------------------------------------------------------------------------
(* What is on its way.                                                     *)

LoginReqs == {"CAP_REQ", "AUTHENTICATE_PLAIN", "AUTHENTICATE", "CAP_END"}
LoginReps == {"ACK", "NAK", "AUTHENTICATE", "903", "904"}

Asks(cmd)  == \E i \in DOMAIN toServer : toServer[i].cmd = cmd
Hears(cmd) == \E i \in DOMAIN toBot : toBot[i].cmd = cmd
OnlyOurs   == \A i \in DOMAIN toServer : toServer[i].cmd = "NICK" => toServer[i].nick = NICK

NicksAsked  == Count(toServer, {r \in Request : r.cmd = "NICK"})
OursAsked   == Count(toServer, {r \in Request : r.cmd = "NICK" /\ r.nick = NICK})
LoginsAsked == Count(toServer, {r \in Request : r.cmd \in LoginReqs})
NicksTaken  == Count(toBot, {l \in Reply : l.cmd = "433"})
OursTaken   == Count(toBot, {l \in Reply : l.cmd = "433" /\ l.nick = NICK})
LoginsTold  == Count(toBot, {l \in Reply : l.cmd \in LoginReps})

One(condition) == IF condition THEN 1 ELSE 0

\* What a request is made of.
LEMMA Requests ==
    /\ \A r \in Request : r.cmd = "NICK" => r.nick \in Nick
    /\ \A n \in Nick : NickReq(n) \in Request /\ NickReq(n).cmd = "NICK" /\ NickReq(n).nick = n
    /\ \A c \in LoginReqs \cup {"USER", "GHOST", "IDENTIFY", "QUIT"} :
          Req(c) \in Request /\ Req(c).cmd = c
BY DEF Request, NickReq, Req, LoginReqs

\* What a reply is made of.
LEMMA Replies ==
    /\ \A l \in Reply : l.cmd \in {"001", "433", "NICK"} => l.nick \in Nick
    /\ \A l \in Reply : l.cmd = "NICK" => l.from \in Nick /\ l.own \in BOOLEAN
    /\ \A c \in {"001", "433"}, n \in Nick :
          LET l == [cmd |-> c, nick |-> n] IN l \in Reply /\ l.cmd = c /\ l.nick = n
    /\ \A a \in Nick, b \in Nick, o \in BOOLEAN :
          LET l == [cmd |-> "NICK", from |-> a, nick |-> b, own |-> o]
          IN l \in Reply /\ l.cmd = "NICK" /\ l.from = a /\ l.nick = b /\ l.own = o
    /\ \A c \in LoginReps \cup {"identified", "refused", "notice", "ERROR"} :
          Req(c) \in Reply /\ Req(c).cmd = c
BY DEF Reply, Req, LoginReps

\* The counts are numbers.
LEMMA Counts ==
    ASSUME TypeOK
    PROVE  /\ NicksAsked \in Nat /\ OursAsked \in Nat /\ LoginsAsked \in Nat
           /\ NicksTaken \in Nat /\ OursTaken \in Nat /\ LoginsTold \in Nat
           /\ NicksAsked = 0 => ~Asks("NICK") /\ OnlyOurs /\ OursAsked = 0
           /\ NicksTaken = 0 => ~Hears("433") /\ OursTaken = 0
           /\ Asks("NICK") => NicksAsked >= 1
           /\ Hears("433") => NicksTaken >= 1
           /\ LoginsAsked = 0 => \A c \in LoginReqs : ~Asks(c)
           /\ LoginsTold = 0 => \A c \in LoginReps : ~Hears(c)
<1>1. toServer \in Seq(Request) /\ toBot \in Seq(Reply)
  BY DEF TypeOK
<1>2. /\ \A i \in DOMAIN toServer : toServer[i] \in Request
      /\ \A i \in DOMAIN toBot : toBot[i] \in Reply
  BY <1>1
<1>3. /\ NicksAsked \in Nat
      /\ NicksAsked = 0 <=> \A i \in DOMAIN toServer : toServer[i] \notin {r \in Request : r.cmd = "NICK"}
  BY <1>1, CountType DEF NicksAsked
<1>4. /\ OursAsked \in Nat
      /\ OursAsked = 0 <=> \A i \in DOMAIN toServer :
                              toServer[i] \notin {r \in Request : r.cmd = "NICK" /\ r.nick = NICK}
  BY <1>1, CountType DEF OursAsked
<1>5. /\ LoginsAsked \in Nat
      /\ LoginsAsked = 0 <=> \A i \in DOMAIN toServer : toServer[i] \notin {r \in Request : r.cmd \in LoginReqs}
  BY <1>1, CountType DEF LoginsAsked
<1>6. /\ NicksTaken \in Nat
      /\ NicksTaken = 0 <=> \A i \in DOMAIN toBot : toBot[i] \notin {l \in Reply : l.cmd = "433"}
  BY <1>1, CountType DEF NicksTaken
<1>7. /\ OursTaken \in Nat
      /\ OursTaken = 0 <=> \A i \in DOMAIN toBot :
                              toBot[i] \notin {l \in Reply : l.cmd = "433" /\ l.nick = NICK}
  BY <1>1, CountType DEF OursTaken
<1>8. /\ LoginsTold \in Nat
      /\ LoginsTold = 0 <=> \A i \in DOMAIN toBot : toBot[i] \notin {l \in Reply : l.cmd \in LoginReps}
  BY <1>1, CountType DEF LoginsTold
<1>9. NicksAsked = 0 => ~Asks("NICK") /\ OnlyOurs /\ OursAsked = 0
  BY <1>2, <1>3, <1>4 DEF Asks, OnlyOurs
<1>10. NicksTaken = 0 => ~Hears("433") /\ OursTaken = 0
  BY <1>2, <1>6, <1>7 DEF Hears
<1>11. LoginsAsked = 0 => \A c \in LoginReqs : ~Asks(c)
  BY <1>2, <1>5 DEF Asks
<1>12. LoginsTold = 0 => \A c \in LoginReps : ~Hears(c)
  BY <1>2, <1>8 DEF Hears
<1>13. (Asks("NICK") => NicksAsked >= 1) /\ (Hears("433") => NicksTaken >= 1)
  BY <1>3, <1>6, <1>9, <1>10
<1>14. QED
  BY <1>3, <1>4, <1>5, <1>6, <1>7, <1>8, <1>9, <1>10, <1>11, <1>12, <1>13

\* One more request on its way.
LEMMA Sent ==
    ASSUME TypeOK, NEW r \in Request, toServer' = Append(toServer, r)
    PROVE  /\ toServer' \in Seq(Request)
           /\ \A c : Asks(c)' <=> Asks(c) \/ r.cmd = c
           /\ OnlyOurs' <=> OnlyOurs /\ (r.cmd = "NICK" => r.nick = NICK)
           /\ NicksAsked' = NicksAsked + One(r.cmd = "NICK")
           /\ OursAsked' = OursAsked + One(r.cmd = "NICK" /\ r.nick = NICK)
           /\ LoginsAsked' = LoginsAsked + One(r.cmd \in LoginReqs)
<1>1. toServer \in Seq(Request)
  BY DEF TypeOK
<1>2. /\ toServer' \in Seq(Request)
      /\ Len(toServer) \in Nat /\ DOMAIN toServer = 1 .. Len(toServer)
      /\ DOMAIN toServer' = 1 .. Len(toServer) + 1
      /\ \A i \in 1 .. Len(toServer) : toServer'[i] = toServer[i]
      /\ toServer'[Len(toServer) + 1] = r
  BY <1>1, AppendProperties
<1>3. \A c : Asks(c)' <=> Asks(c) \/ r.cmd = c
  BY <1>2 DEF Asks
<1>4. OnlyOurs' <=> OnlyOurs /\ (r.cmd = "NICK" => r.nick = NICK)
  BY <1>2 DEF OnlyOurs
<1>5. \A S : Count(toServer', S) = Count(toServer, S) + IF r \in S THEN 1 ELSE 0
  BY <1>1, CountAppend
<1>6. NicksAsked' = NicksAsked + One(r.cmd = "NICK")
  BY <1>5 DEF NicksAsked, One
<1>7. OursAsked' = OursAsked + One(r.cmd = "NICK" /\ r.nick = NICK)
  BY <1>5 DEF OursAsked, One
<1>8. LoginsAsked' = LoginsAsked + One(r.cmd \in LoginReqs)
  BY <1>5 DEF LoginsAsked, One
<1>9. QED
  BY <1>2, <1>3, <1>4, <1>6, <1>7, <1>8

\* One request less.
LEMMA Served ==
    ASSUME TypeOK, NEW cmd, Serves(cmd)
    PROVE  /\ toServer' \in Seq(Request) /\ Head(toServer) \in Request
           /\ Head(toServer).cmd = cmd /\ Asks(cmd)
           /\ \A c : Asks(c) <=> Asks(c)' \/ cmd = c
           /\ OnlyOurs <=> OnlyOurs' /\ (cmd = "NICK" => Head(toServer).nick = NICK)
           /\ NicksAsked = NicksAsked' + One(cmd = "NICK")
           /\ OursAsked = OursAsked' + One(cmd = "NICK" /\ Head(toServer).nick = NICK)
           /\ LoginsAsked = LoginsAsked' + One(cmd \in LoginReqs)
<1> DEFINE r == Head(toServer)
<1>1. toServer \in Seq(Request) /\ toServer # << >> /\ r.cmd = cmd /\ toServer' = Tail(toServer)
  BY DEF TypeOK, Serves
<1>2. /\ toServer' \in Seq(Request) /\ Len(toServer) \in Nat /\ Len(toServer) # 0
      /\ DOMAIN toServer = 1 .. Len(toServer) /\ r = toServer[1]
      /\ DOMAIN toServer' = 1 .. Len(toServer) - 1
      /\ \A i \in 1 .. Len(toServer) - 1 : toServer'[i] = toServer[i + 1]
  BY <1>1, HeadTailProperties
<1>3. r \in Request /\ 1 \in DOMAIN toServer
  BY <1>1, <1>2
<1>4. \A i \in DOMAIN toServer : i = 1 \/ (i - 1 \in DOMAIN toServer' /\ toServer[i] = toServer'[i - 1])
  BY <1>2
<1>5. \A i \in DOMAIN toServer' : i + 1 \in DOMAIN toServer /\ toServer'[i] = toServer[i + 1]
  BY <1>2
<1> HIDE DEF r
<1>6. \A c : Asks(c) <=> Asks(c)' \/ cmd = c
  <2>1. ASSUME NEW c, Asks(c) PROVE Asks(c)' \/ cmd = c
    BY <1>1, <1>2, <1>4, <2>1 DEF Asks
  <2>2. ASSUME NEW c, Asks(c)' PROVE Asks(c)
    BY <1>5, <2>2 DEF Asks
  <2>3. Asks(cmd)
    BY <1>1, <1>2, <1>3 DEF Asks
  <2>4. QED
    BY <2>1, <2>2, <2>3
<1>7. OnlyOurs <=> OnlyOurs' /\ (cmd = "NICK" => r.nick = NICK)
  <2>1. ASSUME OnlyOurs PROVE OnlyOurs' /\ (cmd = "NICK" => r.nick = NICK)
    BY <1>1, <1>2, <1>3, <1>5, <2>1 DEF OnlyOurs
  <2>2. ASSUME OnlyOurs', cmd = "NICK" => r.nick = NICK PROVE OnlyOurs
    BY <1>1, <1>2, <1>4, <2>2 DEF OnlyOurs
  <2>3. QED
    BY <2>1, <2>2
<1>8. \A S : Count(toServer, S) = Count(toServer', S) + IF r \in S THEN 1 ELSE 0
  BY <1>1, CountTail DEF r
<1>9. NicksAsked = NicksAsked' + One(cmd = "NICK")
  BY <1>1, <1>3, <1>8 DEF NicksAsked, One
<1>10. OursAsked = OursAsked' + One(cmd = "NICK" /\ r.nick = NICK)
  BY <1>1, <1>3, <1>8 DEF OursAsked, One
<1>11. LoginsAsked = LoginsAsked' + One(cmd \in LoginReqs)
  BY <1>1, <1>3, <1>8 DEF LoginsAsked, One
<1>12. QED
  BY <1>1, <1>2, <1>3, <1>6, <1>7, <1>9, <1>10, <1>11 DEF r

\* One more line for the bot.
LEMMA Told ==
    ASSUME TypeOK, NEW l \in Reply, tells(l)
    PROVE  /\ toBot' \in Seq(Reply)
           /\ \A c : Hears(c)' <=> Hears(c) \/ l.cmd = c
           /\ NicksTaken' = NicksTaken + One(l.cmd = "433")
           /\ OursTaken' = OursTaken + One(l.cmd = "433" /\ l.nick = NICK)
           /\ LoginsTold' = LoginsTold + One(l.cmd \in LoginReps)
<1>1. toBot \in Seq(Reply) /\ toBot' = Append(toBot, l)
  BY DEF TypeOK, tells
<1>2. /\ toBot' \in Seq(Reply)
      /\ Len(toBot) \in Nat /\ DOMAIN toBot = 1 .. Len(toBot)
      /\ DOMAIN toBot' = 1 .. Len(toBot) + 1
      /\ \A i \in 1 .. Len(toBot) : toBot'[i] = toBot[i]
      /\ toBot'[Len(toBot) + 1] = l
  BY <1>1, AppendProperties
<1>3. \A c : Hears(c)' <=> Hears(c) \/ l.cmd = c
  BY <1>2 DEF Hears
<1>4. \A S : Count(toBot', S) = Count(toBot, S) + IF l \in S THEN 1 ELSE 0
  BY <1>1, CountAppend
<1>5. NicksTaken' = NicksTaken + One(l.cmd = "433")
  BY <1>4 DEF NicksTaken, One
<1>6. OursTaken' = OursTaken + One(l.cmd = "433" /\ l.nick = NICK)
  BY <1>4 DEF OursTaken, One
<1>7. LoginsTold' = LoginsTold + One(l.cmd \in LoginReps)
  BY <1>4 DEF LoginsTold, One
<1>8. QED
  BY <1>2, <1>3, <1>5, <1>6, <1>7

\* One line less.
LEMMA Read ==
    ASSUME TypeOK, NEW cmd, Reads(cmd)
    PROVE  /\ toBot' \in Seq(Reply) /\ Head(toBot) \in Reply
           /\ Head(toBot).cmd = cmd /\ Hears(cmd)
           /\ \A c : Hears(c) <=> Hears(c)' \/ cmd = c
           /\ NicksTaken = NicksTaken' + One(cmd = "433")
           /\ OursTaken = OursTaken' + One(cmd = "433" /\ Head(toBot).nick = NICK)
           /\ LoginsTold = LoginsTold' + One(cmd \in LoginReps)
<1> DEFINE l == Head(toBot)
<1>1. toBot \in Seq(Reply) /\ toBot # << >> /\ l.cmd = cmd /\ toBot' = Tail(toBot)
  BY DEF TypeOK, Reads
<1>2. /\ toBot' \in Seq(Reply) /\ Len(toBot) \in Nat /\ Len(toBot) # 0
      /\ DOMAIN toBot = 1 .. Len(toBot) /\ l = toBot[1]
      /\ DOMAIN toBot' = 1 .. Len(toBot) - 1
      /\ \A i \in 1 .. Len(toBot) - 1 : toBot'[i] = toBot[i + 1]
  BY <1>1, HeadTailProperties
<1>3. l \in Reply /\ 1 \in DOMAIN toBot
  BY <1>1, <1>2
<1>4. \A i \in DOMAIN toBot : i = 1 \/ (i - 1 \in DOMAIN toBot' /\ toBot[i] = toBot'[i - 1])
  BY <1>2
<1>5. \A i \in DOMAIN toBot' : i + 1 \in DOMAIN toBot /\ toBot'[i] = toBot[i + 1]
  BY <1>2
<1> HIDE DEF l
<1>6. \A c : Hears(c) <=> Hears(c)' \/ cmd = c
  <2>1. ASSUME NEW c, Hears(c) PROVE Hears(c)' \/ cmd = c
    BY <1>1, <1>2, <1>4, <2>1 DEF Hears
  <2>2. ASSUME NEW c, Hears(c)' PROVE Hears(c)
    BY <1>5, <2>2 DEF Hears
  <2>3. Hears(cmd)
    BY <1>1, <1>2, <1>3 DEF Hears
  <2>4. QED
    BY <2>1, <2>2, <2>3
<1>7. \A S : Count(toBot, S) = Count(toBot', S) + IF l \in S THEN 1 ELSE 0
  BY <1>1, CountTail DEF l
<1>8. NicksTaken = NicksTaken' + One(cmd = "433")
  BY <1>1, <1>3, <1>7 DEF NicksTaken, One
<1>9. OursTaken = OursTaken' + One(cmd = "433" /\ l.nick = NICK)
  BY <1>1, <1>3, <1>7 DEF OursTaken, One
<1>10. LoginsTold = LoginsTold' + One(cmd \in LoginReps)
  BY <1>1, <1>3, <1>7 DEF LoginsTold, One
<1>11. QED
  BY <1>1, <1>2, <1>3, <1>6, <1>8, <1>9, <1>10 DEF l

CountsNumbers ==
    /\ NicksAsked \in Nat /\ OursAsked \in Nat /\ LoginsAsked \in Nat
    /\ NicksTaken \in Nat /\ OursTaken \in Nat /\ LoginsTold \in Nat

LEMMA Numbers == TypeOK => CountsNumbers
BY Counts DEF CountsNumbers

LEMMA NumbersNext == TypeOK' => CountsNumbers'
BY Numbers, PTL

LoginsOver ==
    /\ LoginsAsked = 0 => \A c \in LoginReqs : ~Asks(c)
    /\ LoginsTold = 0 => \A c \in LoginReps : ~Hears(c)

LEMMA Over == TypeOK => LoginsOver
BY Counts DEF LoginsOver

LEMMA OverNext == TypeOK' => LoginsOver'
BY Over, PTL

\* Nothing sent, nothing served; nothing told, nothing read.
LEMMA SameRequests ==
    ASSUME UNCHANGED toServer
    PROVE  /\ \A c : Asks(c)' <=> Asks(c)
           /\ OnlyOurs' <=> OnlyOurs
           /\ NicksAsked' = NicksAsked /\ OursAsked' = OursAsked /\ LoginsAsked' = LoginsAsked
BY DEF Asks, OnlyOurs, NicksAsked, OursAsked, LoginsAsked

LEMMA SameReplies ==
    ASSUME UNCHANGED toBot
    PROVE  /\ \A c : Hears(c)' <=> Hears(c)
           /\ NicksTaken' = NicksTaken /\ OursTaken' = OursTaken /\ LoginsTold' = LoginsTold
BY DEF Hears, NicksTaken, OursTaken, LoginsTold

-----------------------------------------------------------------------------
(* Types.                                                                  *)

BotTypes ==
    /\ registered \in BOOLEAN /\ ghost_needed \in BOOLEAN /\ startup_fired \in BOOLEAN
    /\ ghost_tries \in 0 .. GHOST_RECLAIM_MAX
    /\ tmp_nick \in Temp \cup {NoNick}
    /\ me \in Nick
    /\ exited \in BOOLEAN /\ gaveUp \in BOOLEAN
    /\ sleeping \in Nat /\ awake \in Nat
    /\ startedAs \in [nick : Nick \cup {NoNick}, account : BOOLEAN]

ServerTypes ==
    /\ profile \in Profiles
    /\ services \in Seq({"GHOST", "IDENTIFY"})
    /\ owner \in [Nick -> {"free", "bot", "ghost", "other"}]
    /\ serverNick \in Nick \cup {NoNick}
    /\ sentUser \in BOOLEAN /\ capHeld \in BOOLEAN /\ welcomed \in BOOLEAN
    /\ closed \in BOOLEAN /\ account \in BOOLEAN

BoundTypes == sharing \in BOOLEAN /\ others \in Nat /\ operator \in Nat
QueueTypes == toServer \in Seq(Request) /\ toBot \in Seq(Reply)

LEMMA TypesTyped == TypeOK <=> BotTypes /\ ServerTypes /\ BoundTypes /\ QueueTypes
BY DEF TypeOK, BotTypes, ServerTypes, BoundTypes, QueueTypes

LEMMA TypesTypedNext == TypeOK' <=> BotTypes' /\ ServerTypes' /\ BoundTypes' /\ QueueTypes'
BY TypesTyped, PTL

LEMMA Kept ==
    /\ TypeOK /\ UNCHANGED botVars => BotTypes'
    /\ TypeOK /\ UNCHANGED serverVars => ServerTypes'
    /\ TypeOK /\ UNCHANGED boundVars => BoundTypes'
<1>1. TypeOK /\ UNCHANGED botVars => BotTypes'
  BY TypesTyped DEF BotTypes, botVars
<1>2. TypeOK /\ UNCHANGED serverVars => ServerTypes'
  BY TypesTyped DEF ServerTypes, serverVars
<1>3. TypeOK /\ UNCHANGED boundVars => BoundTypes'
  BY TypesTyped DEF BoundTypes, boundVars
<1>4. QED
  BY <1>1, <1>2, <1>3

\* The startup, fired or not, is recorded as typed.
LEMMA FireTypes ==
    ASSUME TypeOK, fire_startup \/ UNCHANGED <<startup_fired, startedAs>>
    PROVE  /\ startup_fired' \in BOOLEAN
           /\ startedAs' \in [nick : Nick \cup {NoNick}, account : BOOLEAN]
<1>1. /\ startup_fired \in BOOLEAN /\ startedAs \in [nick : Nick \cup {NoNick}, account : BOOLEAN]
      /\ serverNick \in Nick \cup {NoNick} /\ account \in BOOLEAN
  BY TypesTyped DEF BotTypes, ServerTypes
<1>2. CASE UNCHANGED <<startup_fired, startedAs>>
  BY <1>1, <1>2
<1>3. CASE /\ startup_fired' = TRUE
           /\ startedAs' = [nick |-> serverNick, account |-> account]
  BY <1>1, <1>3
<1>4. QED
  BY <1>2, <1>3 DEF fire_startup

\* What the bot reads it answers in the protocol's words.
LEMMA ReaderTypes == TypeOK /\ handle_server_line => TypeOK'
<1> SUFFICES ASSUME TypeOK, handle_server_line PROVE TypeOK'
  OBVIOUS
<1> USE TypesTyped
<1>1. CASE Read001
  <2>1. Reads("001") /\ UNCHANGED <<serverVars, boundVars>>
    BY <1>1 DEF Read001, Reads
  <2>2. toServer' \in Seq(Request)
    <3>1. CASE UNCHANGED toServer
      BY <3>1 DEF QueueTypes
    <3>2. CASE send_raw(Req("GHOST"))
      BY <3>2, Requests, Sent DEF send_raw
    <3>3. CASE send_raw(Req("IDENTIFY"))
      BY <3>3, Requests, Sent DEF send_raw
    <3>4. QED
      BY <1>1, <3>1, <3>2, <3>3 DEF Read001
  <2>3. fire_startup \/ UNCHANGED <<startup_fired, startedAs>>
    BY <1>1 DEF Read001
  <2>4. /\ startup_fired' \in BOOLEAN
        /\ startedAs' \in [nick : Nick \cup {NoNick}, account : BOOLEAN]
    BY <2>3, FireTypes
  <2>5. toBot' \in Seq(Reply) /\ Head(toBot).nick \in Nick
    BY <2>1, Read, Replies
  <2>6. BotTypes'
    BY <1>1, <2>4, <2>5 DEF Read001, BotTypes
  <2>7. QED
    BY <2>1, <2>2, <2>5, <2>6, Kept, TypesTypedNext DEF QueueTypes
<1>2. CASE ReadCap
  <2>1. (Reads("ACK") \/ Reads("NAK")) /\ UNCHANGED <<serverVars, boundVars>>
    BY <1>2 DEF ReadCap, Reads
  <2>2. toServer' \in Seq(Request)
    <3>1. CASE send_raw(Req("AUTHENTICATE_PLAIN"))
      BY <3>1, Requests, Sent DEF send_raw, LoginReqs
    <3>2. CASE _sasl_abort
      BY <3>2, Requests, Sent DEF _sasl_abort, send_raw
    <3>3. QED
      BY <1>2, <3>1, <3>2 DEF ReadCap
  <2>3. toBot' \in Seq(Reply)
    BY <2>1, Read
  <2>4. BotTypes'
    BY <1>2 DEF ReadCap, _sasl_abort, BotTypes
  <2>5. QED
    BY <2>1, <2>2, <2>3, <2>4, Kept, TypesTypedNext DEF QueueTypes
<1>3. CASE ReadSasl
  <2>1. (Reads("AUTHENTICATE") \/ Reads("903") \/ Reads("904")) /\ UNCHANGED <<serverVars, boundVars>>
    BY <1>3 DEF ReadSasl, Reads
  <2>2. toServer' \in Seq(Request)
    <3>1. CASE send_raw(Req("AUTHENTICATE"))
      BY <3>1, Requests, Sent DEF send_raw, LoginReqs
    <3>2. CASE send_raw(Req("CAP_END"))
      BY <3>2, Requests, Sent DEF send_raw, LoginReqs
    <3>3. CASE _sasl_abort
      BY <3>3, Requests, Sent DEF _sasl_abort, send_raw
    <3>4. QED
      BY <1>3, <3>1, <3>2, <3>3 DEF ReadSasl
  <2>3. toBot' \in Seq(Reply)
    BY <2>1, Read
  <2>4. BotTypes'
    BY <1>3 DEF ReadSasl, _sasl_abort, BotTypes
  <2>5. QED
    BY <2>1, <2>2, <2>3, <2>4, Kept, TypesTypedNext DEF QueueTypes
<1>4. CASE ReadNickTaken
  <2>1. Reads("433") /\ UNCHANGED <<serverVars, boundVars>>
    BY <1>4 DEF ReadNickTaken, Reads
  <2>2. PICK t \in Temp : tmp_nick' = t /\ send_raw(NickReq(t))
    BY <1>4 DEF ReadNickTaken
  <2>3. toServer' \in Seq(Request)
    BY <2>2, Requests, Sent, SessionAssumption DEF send_raw
  <2>4. toBot' \in Seq(Reply)
    BY <2>1, Read
  <2>5. BotTypes'
    BY <1>4, <2>2, SessionAssumption DEF ReadNickTaken, BotTypes
  <2>6. QED
    BY <2>1, <2>3, <2>4, <2>5, Kept, TypesTypedNext DEF QueueTypes
<1>5. CASE ReadReclaimRefused
  <2>1. Reads("433") /\ UNCHANGED <<serverVars, boundVars, toServer>>
    BY <1>5 DEF ReadReclaimRefused, Reads
  <2>2. toBot' \in Seq(Reply)
    BY <2>1, Read
  <2>3. BotTypes'
    BY <1>5, SessionAssumption DEF ReadReclaimRefused, BotTypes
  <2>4. QED
    BY <2>1, <2>2, <2>3, Kept, TypesTypedNext DEF QueueTypes
<1>6. CASE ReadNotice
  <2>1. /\ Reads("identified") \/ Reads("refused") \/ Reads("notice") \/ Reads("ERROR")
        /\ UNCHANGED <<serverVars, boundVars, toServer>>
    BY <1>6 DEF ReadNotice, Reads
  <2>2. toBot' \in Seq(Reply)
    BY <2>1, Read
  <2>3. fire_startup \/ UNCHANGED <<startup_fired, startedAs>>
    BY <1>6 DEF ReadNotice
  <2>4. BotTypes'
    BY <1>6, <2>3, FireTypes DEF ReadNotice, BotTypes
  <2>5. QED
    BY <2>1, <2>2, <2>4, Kept, TypesTypedNext DEF QueueTypes
<1>7. CASE ReadNick
  <2>1. Reads("NICK") /\ UNCHANGED <<serverVars, boundVars>>
    BY <1>7 DEF ReadNick, Reads
  <2>2. toServer' \in Seq(Request)
    <3>1. CASE UNCHANGED toServer
      BY <3>1 DEF QueueTypes
    <3>2. CASE send_raw(Req("IDENTIFY"))
      BY <3>2, Requests, Sent DEF send_raw
    <3>3. QED
      BY <1>7, <3>1, <3>2 DEF ReadNick
  <2>3. toBot' \in Seq(Reply) /\ Head(toBot).nick \in Nick
    BY <2>1, Read, Replies
  <2>4. fire_startup \/ UNCHANGED <<startup_fired, startedAs>>
    BY <1>7 DEF ReadNick
  <2>5. BotTypes'
    BY <1>7, <2>3, <2>4, FireTypes DEF ReadNick, OwnMove, BotTypes
  <2>6. QED
    BY <2>1, <2>2, <2>3, <2>5, Kept, TypesTypedNext DEF QueueTypes
<1>8. QED
  BY <1>1, <1>2, <1>3, <1>4, <1>5, <1>6, <1>7 DEF handle_server_line

\* The reclaim threads and the operator.
LEMMA ThreadTypes ==
    TypeOK /\ (ReclaimWakes \/ ReclaimSends \/ OperatorJoins \/ OperatorReclaims) => TypeOK'
<1> SUFFICES ASSUME TypeOK, ReclaimWakes \/ ReclaimSends \/ OperatorJoins \/ OperatorReclaims
             PROVE  TypeOK'
  OBVIOUS
<1> USE TypesTyped
<1>1. NickReq(NICK) \in Request
  BY Requests, SessionAssumption
<1>2. CASE ReclaimWakes
  <2>1. BotTypes'
    BY <1>2 DEF ReclaimWakes, BotTypes
  <2>2. QED
    BY <1>2, <2>1, Kept, TypesTypedNext DEF ReclaimWakes, QueueTypes
<1>3. CASE ReclaimSends
  <2>1. BotTypes'
    BY <1>3 DEF ReclaimSends, BotTypes
  <2>2. toServer' \in Seq(Request)
    BY <1>1, <1>3, Sent DEF ReclaimSends, send_raw
  <2>3. QED
    BY <1>3, <2>1, <2>2, Kept, TypesTypedNext DEF ReclaimSends, QueueTypes
<1>4. CASE OperatorJoins
  <2>1. BoundTypes'
    BY <1>4 DEF OperatorJoins, BoundTypes
  <2>2. QED
    BY <1>4, <2>1, Kept, TypesTypedNext DEF OperatorJoins, QueueTypes
<1>5. CASE OperatorReclaims
  <2>1. BoundTypes'
    BY <1>5 DEF OperatorReclaims, BoundTypes
  <2>2. toServer' \in Seq(Request)
    BY <1>1, <1>5, Sent DEF OperatorReclaims, send_raw
  <2>3. QED
    BY <1>5, <2>1, <2>2, Kept, TypesTypedNext DEF OperatorReclaims, QueueTypes
<1>6. QED
  BY <1>2, <1>3, <1>4, <1>5

\* A client that was welcomed has a nick: only then is there one to tell it
\* of when it changes.
Named == welcomed => serverNick # NoNick

\* The server and its services.
LEMMA ServerKeepsTypes ==
    TypeOK /\ Named /\ (Serve \/ NickServ \/ GhostDies) => TypeOK'
<1> SUFFICES ASSUME TypeOK, Named, Serve \/ NickServ \/ GhostDies PROVE TypeOK'
  OBVIOUS
<1> USE TypesTyped
<1>1. CASE ServeNick
  <2>1. Serves("NICK") /\ UNCHANGED <<botVars, boundVars, profile>>
    BY <1>1 DEF ServeNick, Serves
  <2>2. toServer' \in Seq(Request) /\ Head(toServer).nick \in Nick
    BY <2>1, Served, Requests
  <2>3. toBot' \in Seq(Reply) /\ ServerTypes'
    <3>1. CASE /\ tells([cmd |-> "433", nick |-> Head(toServer).nick])
               /\ UNCHANGED <<owner, serverNick>>
      BY <1>1, <2>1, <2>2, <3>1, Replies, Told DEF ServeNick, ServerTypes
    <3>2. CASE UNCHANGED <<owner, serverNick, toBot>>
      BY <1>1, <2>1, <3>2 DEF ServeNick, ServerTypes, QueueTypes
    <3>3. CASE /\ owner' = [m \in Nick |-> IF m = Head(toServer).nick THEN "bot"
                                           ELSE IF m = serverNick THEN "free" ELSE owner[m]]
               /\ serverNick' = Head(toServer).nick
               /\ IF welcomed
                  THEN tells([cmd |-> "NICK", from |-> serverNick, nick |-> Head(toServer).nick,
                              own |-> TRUE])
                  ELSE UNCHANGED toBot
      <4>1. ServerTypes'
        BY <1>1, <2>1, <2>2, <3>3 DEF ServeNick, ServerTypes
      <4>2. CASE ~welcomed
        BY <3>3, <4>1, <4>2 DEF QueueTypes
      <4>3. CASE welcomed
        <5>1. serverNick \in Nick
          BY <4>3 DEF Named, ServerTypes
        <5>2. QED
          BY <2>2, <3>3, <4>1, <4>3, <5>1, Replies, Told
      <4>4. QED
        BY <4>2, <4>3 DEF ServerTypes
    <3>4. QED
      BY <1>1, <3>1, <3>2, <3>3 DEF ServeNick
  <2>4. QED
    BY <2>1, <2>2, <2>3, Kept, TypesTypedNext DEF QueueTypes
<1>2. CASE ServeLogin
  <2>1. /\ Serves("USER") \/ Serves("CAP_REQ") \/ Serves("AUTHENTICATE_PLAIN")
           \/ Serves("AUTHENTICATE") \/ Serves("CAP_END")
        /\ UNCHANGED <<botVars, boundVars, profile, owner, serverNick, welcomed, closed, services>>
    BY <1>2 DEF ServeLogin, Serves
  <2>2. toServer' \in Seq(Request)
    BY <2>1, Served
  <2>3. ServerTypes'
    <3>1. sentUser' \in BOOLEAN /\ capHeld' \in BOOLEAN /\ account' \in BOOLEAN
      BY <1>2 DEF ServeLogin, ServerTypes
    <3>2. QED
      BY <2>1, <3>1 DEF ServerTypes
  <2>4. \/ UNCHANGED toBot
        \/ \E c \in LoginReps \cup {"notice"} : tells(Req(c))
    BY <1>2 DEF ServeLogin, LoginReps
  <2>5. toBot' \in Seq(Reply)
    <3>1. CASE UNCHANGED toBot
      BY <3>1 DEF QueueTypes
    <3>2. ASSUME NEW c \in LoginReps \cup {"notice"}, tells(Req(c)) PROVE toBot' \in Seq(Reply)
      BY <3>2, Replies, Told
    <3>3. QED
      BY <2>4, <3>1, <3>2
  <2>6. QED
    BY <2>1, <2>2, <2>3, <2>5, Kept, TypesTypedNext DEF QueueTypes
<1>3. CASE ServeServices
  <2>1. /\ Serves("GHOST") \/ Serves("IDENTIFY")
        /\ UNCHANGED <<botVars, boundVars, profile, owner, serverNick, sentUser, capHeld, welcomed,
                       closed, account, toBot>>
    BY <1>3 DEF ServeServices, Serves
  <2>2. toServer' \in Seq(Request) /\ Head(toServer).cmd \in {"GHOST", "IDENTIFY"}
    BY <2>1, Served
  <2>3. services' \in Seq({"GHOST", "IDENTIFY"})
    BY <1>3, <2>2, AppendProperties DEF ServeServices, ServerTypes
  <2>4. ServerTypes'
    BY <2>1, <2>3 DEF ServerTypes
  <2>5. QED
    BY <2>1, <2>2, <2>4, Kept, TypesTypedNext DEF QueueTypes
<1>4. CASE ServeQuit
  <2>1. Serves("QUIT") /\ UNCHANGED <<botVars, boundVars, profile>>
    BY <1>4 DEF ServeQuit, Serves
  <2>2. toServer' \in Seq(Request)
    BY <2>1, Served
  <2>3. toBot' \in Seq(Reply)
    BY <1>4, Replies, Told DEF ServeQuit
  <2>4. ServerTypes'
    BY <1>4, <2>1 DEF ServeQuit, ServerTypes
  <2>5. QED
    BY <2>1, <2>2, <2>3, <2>4, Kept, TypesTypedNext DEF QueueTypes
<1>5. CASE Welcome
  <2>1. serverNick \in Nick
    BY <1>5 DEF Welcome, ServerTypes
  <2>2. toBot' \in Seq(Reply)
    BY <1>5, <2>1, Replies, Told DEF Welcome
  <2>3. ServerTypes'
    BY <1>5 DEF Welcome, ServerTypes
  <2>4. QED
    BY <1>5, <2>2, <2>3, Kept, TypesTypedNext DEF Welcome, QueueTypes
<1>6. CASE NickServ
  <2>1. services' \in Seq({"GHOST", "IDENTIFY"})
    BY <1>6, HeadTailProperties DEF NickServ, ServerTypes
  <2>2. /\ owner' \in [Nick -> {"free", "bot", "ghost", "other"}]
        /\ account' \in BOOLEAN
    BY <1>6 DEF NickServ, ServerTypes
  <2>3. ServerTypes'
    BY <1>6, <2>1, <2>2 DEF NickServ, ServerTypes
  <2>4. \E c \in {"notice", "refused", "identified"} : tells(Req(c))
    BY <1>6 DEF NickServ
  <2>5. toBot' \in Seq(Reply)
    BY <2>4, Replies, Told
  <2>6. QED
    BY <1>6, <2>3, <2>5, Kept, TypesTypedNext DEF NickServ, QueueTypes
<1>7. CASE GhostDies
  <2>1. ServerTypes'
    BY <1>7 DEF GhostDies, ServerTypes
  <2>2. QED
    BY <1>7, <2>1, Kept, TypesTypedNext DEF GhostDies, QueueTypes
<1>8. QED
  BY <1>1, <1>2, <1>3, <1>4, <1>5, <1>6, <1>7 DEF Serve

LEMMA OthersKeepTypes ==
    TypeOK /\ (\E n \in Nick : OtherTakes(n) \/ \E b \in Nick : OtherRenames(n, b)) => TypeOK'
<1> USE TypesTyped
<1>1. ASSUME TypeOK, NEW n \in Nick, OtherTakes(n) PROVE TypeOK'
  <2>1. ServerTypes' /\ BoundTypes'
    BY <1>1 DEF OtherTakes, ServerTypes, BoundTypes
  <2>2. QED
    BY <1>1, <2>1, Kept, TypesTypedNext DEF OtherTakes, QueueTypes
<1>2. ASSUME TypeOK, NEW n \in Nick, NEW b \in Nick, OtherRenames(n, b) PROVE TypeOK'
  <2>1. ServerTypes' /\ BoundTypes'
    BY <1>2 DEF OtherRenames, ServerTypes, BoundTypes
  <2>2. toBot' \in Seq(Reply)
    <3>1. CASE UNCHANGED toBot
      BY <1>2, <3>1 DEF QueueTypes
    <3>2. CASE tells([cmd |-> "NICK", from |-> n, nick |-> b, own |-> FALSE])
      BY <1>2, <3>2, Replies, Told
    <3>3. QED
      BY <1>2, <3>1, <3>2 DEF OtherRenames
  <2>3. QED
    BY <1>2, <2>1, <2>2, Kept, TypesTypedNext DEF OtherRenames, QueueTypes
<1>3. QED
  BY <1>1, <1>2

\* The first lines: CAP REQ under SASL, NICK and USER.
SaslLines  == <<Req("CAP_REQ")>> \o <<NickReq(NICK), Req("USER")>>
PlainLines == << >> \o <<NickReq(NICK), Req("USER")>>
FirstLines == IF SASL THEN SaslLines ELSE PlainLines

LEMMA FirstRequests ==
    /\ SaslLines = Append(Append(Append(<< >>, Req("CAP_REQ")), NickReq(NICK)), Req("USER"))
    /\ PlainLines = Append(Append(<< >>, NickReq(NICK)), Req("USER"))
    /\ SaslLines \in Seq(Request) /\ PlainLines \in Seq(Request)
<1>1. /\ NickReq(NICK) \in Request /\ Req("USER") \in Request /\ Req("CAP_REQ") \in Request
  BY Requests, SessionAssumption DEF LoginReqs
<1>2. SaslLines = Append(Append(Append(<< >>, Req("CAP_REQ")), NickReq(NICK)), Req("USER"))
  BY <1>1 DEF SaslLines
<1>3. PlainLines = Append(Append(<< >>, NickReq(NICK)), Req("USER"))
  BY <1>1 DEF PlainLines
<1>4. \A s \in Seq(Request), r \in Request : Append(s, r) \in Seq(Request)
  BY AppendProperties
<1>5. << >> \in Seq(Request)
  OBVIOUS
<1>6. Append(Append(<< >>, NickReq(NICK)), Req("USER")) \in Seq(Request)
  BY <1>1, <1>4, <1>5
<1>7. Append(Append(Append(<< >>, Req("CAP_REQ")), NickReq(NICK)), Req("USER")) \in Seq(Request)
  <2>1. Append(<< >>, Req("CAP_REQ")) \in Seq(Request)
    BY <1>1, <1>4, <1>5
  <2>2. QED
    BY <1>1, <1>4, <2>1
<1>8. QED
  BY <1>2, <1>3, <1>6, <1>7

LEMMA TypesAtFirst == Init => TypeOK
<1> SUFFICES ASSUME Init PROVE TypeOK
  OBVIOUS
<1>1. SASL \in BOOLEAN
  BY SessionAssumption DEF Init, SASL
<1>2. toServer = FirstLines
  BY DEF Init, FirstLines, SaslLines, PlainLines
<1>3. toServer \in Seq(Request)
  BY <1>1, <1>2, FirstRequests DEF FirstLines
<1>4. toBot \in Seq(Reply)
  BY DEF Init
<1>5. BotTypes
  <2>1. /\ registered = FALSE /\ ghost_needed = FALSE /\ ghost_tries = 0
        /\ tmp_nick = NoNick /\ me = NICK /\ startup_fired = FALSE
        /\ exited = FALSE /\ gaveUp = FALSE /\ sleeping = 0 /\ awake = 0
        /\ startedAs = [nick |-> NoNick, account |-> FALSE]
    BY DEF Init
  <2>2. 0 \in 0 .. GHOST_RECLAIM_MAX /\ NICK \in Nick
    BY SessionAssumption
  <2>3. [nick |-> NoNick, account |-> FALSE] \in [nick : Nick \cup {NoNick}, account : BOOLEAN]
    OBVIOUS
  <2>4. QED
    BY <2>1, <2>2, <2>3 DEF BotTypes
<1>6. owner \in [Nick -> {"free", "bot", "ghost", "other"}]
  <2>1. PICK o \in {"free", "ghost", "other"} : owner = [n \in Nick |-> IF n = NICK THEN o ELSE "free"]
    BY DEF Init
  <2>2. QED
    BY <2>1
<1>7. ServerTypes /\ BoundTypes
  <2>1. /\ profile \in Profiles /\ serverNick = NoNick /\ services = << >>
        /\ sentUser = FALSE /\ capHeld = FALSE /\ welcomed = FALSE /\ closed = FALSE
        /\ account = FALSE /\ sharing = FALSE /\ others = 0 /\ operator = 0
    BY DEF Init
  <2>2. << >> \in Seq({"GHOST", "IDENTIFY"})
    OBVIOUS
  <2>3. QED
    BY <1>6, <2>1, <2>2 DEF ServerTypes, BoundTypes
<1>8. QED
  BY <1>3, <1>4, <1>5, <1>7, TypesTyped DEF QueueTypes

Typed == TypeOK /\ Named

LEMMA TypesStep == Typed /\ [Next]_vars => Typed'
<1> SUFFICES ASSUME Typed, [Next]_vars PROVE Typed'
  OBVIOUS
<1> USE DEF Typed
<1>1. TypeOK'
  <2>1. CASE Next
    BY <2>1, ReaderTypes, ThreadTypes, ServerKeepsTypes, OthersKeepTypes DEF Next
  <2>2. CASE UNCHANGED vars
    BY <2>2, Kept, TypesTyped, TypesTypedNext DEF vars, QueueTypes
  <2>3. QED
    BY <2>1, <2>2
<1>2. Named'
  <2>1. CASE UNCHANGED <<serverVars>>
    BY <2>1 DEF Named, serverVars
  <2>2. CASE ServeNick
    <3>1. Head(toServer).nick \in Nick
      BY <2>2, Served, Requests DEF ServeNick
    <3>2. QED
      BY <2>2, <3>1, SessionAssumption DEF ServeNick, Named
  <2>3. CASE Welcome
    BY <2>3 DEF Welcome, Named
  <2>4. CASE ServeLogin \/ ServeServices \/ ServeQuit \/ NickServ \/ GhostDies
    BY <2>4 DEF ServeLogin, ServeServices, ServeQuit, NickServ, GhostDies, Named
  <2>5. CASE \E n \in Nick : OtherTakes(n) \/ \E b \in Nick : OtherRenames(n, b)
    BY <2>5 DEF OtherTakes, OtherRenames, Named
  <2>6. CASE handle_server_line
    <3>1. UNCHANGED serverVars
      BY <2>6 DEF handle_server_line, Read001, ReadCap, ReadSasl, ReadNickTaken, ReadReclaimRefused,
                  ReadNotice, ReadNick, Reads
    <3>2. QED
      BY <2>1, <3>1
  <2>7. CASE ReclaimWakes \/ ReclaimSends \/ OperatorJoins \/ OperatorReclaims
    BY <2>1, <2>7 DEF ReclaimWakes, ReclaimSends, OperatorJoins, OperatorReclaims
  <2>8. CASE UNCHANGED vars
    BY <2>1, <2>8 DEF vars
  <2>9. QED
    BY <2>2, <2>3, <2>4, <2>5, <2>6, <2>7, <2>8 DEF Next, Serve
<1>3. QED
  BY <1>1, <1>2

\* Every variable of the session keeps its type; no reclaim is counted past
\* GHOST_RECLAIM_MAX.
THEOREM SessionTypeCorrect == Spec => []TypeOK
<1>1. Init => Typed
  BY TypesAtFirst DEF Init, Typed, Named
<1>2. QED
  BY <1>1, TypesStep, PTL DEF Spec, Typed

-----------------------------------------------------------------------------
(* The nick: who holds it, and what the unread lines say of it.            *)

Own(l)    == l.cmd = "001" \/ (l.cmd = "NICK" /\ l.own)
Others(l) == l.cmd = "NICK" /\ ~l.own

\* Nobody takes the nick the server knows us by while we are connected.
NickHeld == ~closed /\ serverNick # NoNick => owner[serverNick] = "bot"

\* One unread line at most says our nick; it says the one the server has.
OneOwn == \A i, j \in DOMAIN toBot : Own(toBot[i]) /\ Own(toBot[j]) => i = j
OwnIsTrue ==
    \A i \in DOMAIN toBot : Own(toBot[i]) =>
        /\ toBot[i].nick = serverNick
        /\ toBot[i].cmd = "NICK" => toBot[i].from = me /\ toBot[i].nick = NICK /\ registered

\* Another's change of nick is never taken for ours: when it is read `me` is
\* `me` still, or what the line of ours before it said.
OwnBefore(i) == \E j \in DOMAIN toBot : j < i /\ Own(toBot[j])
OthersDiffer ==
    \A i \in DOMAIN toBot : Others(toBot[i]) =>
        /\ sharing
        /\ OwnBefore(i) => toBot[i].from # serverNick
        /\ ~OwnBefore(i) => toBot[i].from # me

MeKnown == welcomed /\ (\A i \in DOMAIN toBot : ~Own(toBot[i])) => me = serverNick

Naming == OneOwn /\ OwnIsTrue /\ OthersDiffer /\ MeKnown

NicksHeld == IF serverNick = NoNick THEN 0 ELSE 1

\* Before the 001 there is one nick at most: the server's, or a request for
\* one, or a refusal.  No reclaim is out.  The nick is ours unless a 433 said
\* otherwise, and from the 001 on only ours is asked for.
Registering ==
    /\ ~registered => /\ NicksAsked + NicksTaken + NicksHeld <= 1
                      /\ sleeping = 0 /\ awake = 0
    /\ ~registered /\ ~ghost_needed /\ ~sharing => OnlyOurs /\ serverNick \in {NoNick, NICK}
    /\ welcomed => OnlyOurs
    /\ registered \/ sharing \/ Hears("001") => welcomed
    /\ Hears("001") => ~registered

NickInv == Typed /\ NickHeld /\ Naming /\ Registering

LEMMA NickHeldStep == Typed /\ NickHeld /\ [Next]_vars => NickHeld'
<1> SUFFICES ASSUME Typed, NickHeld, [Next]_vars PROVE NickHeld'
  OBVIOUS
<1> USE DEF Typed
<1>1. ServerTypes
  BY TypesTyped
<1>2. CASE UNCHANGED <<serverVars>>
  BY <1>2 DEF NickHeld, serverVars
<1>3. CASE ServeNick
  <2>1. Head(toServer).nick \in Nick /\ UNCHANGED closed
    BY <1>3, Served, Requests DEF ServeNick
  <2>2. ~closed
    BY <1>3 DEF ServeNick, Serves
  <2>3. CASE UNCHANGED <<owner, serverNick>>
    BY <2>1, <2>3 DEF NickHeld
  <2>4. CASE /\ owner' = [m \in Nick |-> IF m = Head(toServer).nick THEN "bot"
                                         ELSE IF m = serverNick THEN "free" ELSE owner[m]]
             /\ serverNick' = Head(toServer).nick
    BY <2>1, <2>4 DEF NickHeld
  <2>5. QED
    BY <1>3, <2>3, <2>4 DEF ServeNick
<1>4. CASE ServeQuit
  BY <1>4 DEF ServeQuit, NickHeld
<1>5. CASE ServeLogin \/ ServeServices \/ Welcome
  BY <1>5 DEF ServeLogin, ServeServices, Welcome, NickHeld
<1>6. CASE NickServ
  <2>1. UNCHANGED <<closed, serverNick>>
    BY <1>6 DEF NickServ
  <2>2. \/ UNCHANGED owner
        \/ owner[NICK] # "bot" /\ owner' = [owner EXCEPT ![NICK] = "free"]
    BY <1>6 DEF NickServ
  <2>3. QED
    BY <1>1, <2>1, <2>2 DEF NickHeld, ServerTypes
<1>7. CASE GhostDies
  BY <1>1, <1>7 DEF GhostDies, NickHeld, ServerTypes
<1>8. ASSUME NEW n \in Nick, OtherTakes(n) PROVE NickHeld'
  BY <1>1, <1>8 DEF OtherTakes, NickHeld, ServerTypes
<1>9. ASSUME NEW n \in Nick, NEW b \in Nick, OtherRenames(n, b) PROVE NickHeld'
  BY <1>1, <1>9 DEF OtherRenames, NickHeld, ServerTypes
<1>10. CASE handle_server_line
  <2>1. UNCHANGED serverVars
    BY <1>10 DEF handle_server_line, Read001, ReadCap, ReadSasl, ReadNickTaken, ReadReclaimRefused,
                 ReadNotice, ReadNick, Reads
  <2>2. QED
    BY <1>2, <2>1
<1>11. CASE ReclaimWakes \/ ReclaimSends \/ OperatorJoins \/ OperatorReclaims
  BY <1>2, <1>11 DEF ReclaimWakes, ReclaimSends, OperatorJoins, OperatorReclaims
<1>12. CASE UNCHANGED vars
  BY <1>2, <1>12 DEF vars
<1>13. QED
  BY <1>3, <1>4, <1>5, <1>6, <1>7, <1>8, <1>9, <1>10, <1>11, <1>12 DEF Next, Serve

\* The places of the lines, one less or one more.
LEMMA Shift ==
    ASSUME TypeOK, NEW cmd, Reads(cmd)
    PROVE  /\ 1 \in DOMAIN toBot /\ Head(toBot) = toBot[1] /\ toBot[1].cmd = cmd /\ toBot[1] \in Reply
           /\ \A i \in DOMAIN toBot' : /\ i \in Nat /\ i + 1 \in DOMAIN toBot /\ i + 1 # 1
                                       /\ toBot'[i] = toBot[i + 1]
           /\ \A j \in DOMAIN toBot : /\ j \in Nat /\ j >= 1
                                      /\ j # 1 => j - 1 \in DOMAIN toBot' /\ toBot'[j - 1] = toBot[j]
<1>1. toBot \in Seq(Reply) /\ toBot # << >> /\ Head(toBot).cmd = cmd /\ toBot' = Tail(toBot)
  BY DEF TypeOK, Reads
<1>2. /\ Len(toBot) \in Nat /\ Len(toBot) # 0
      /\ DOMAIN toBot = 1 .. Len(toBot) /\ Head(toBot) = toBot[1]
      /\ DOMAIN toBot' = 1 .. Len(toBot) - 1
      /\ \A i \in 1 .. Len(toBot) - 1 : toBot'[i] = toBot[i + 1]
  BY <1>1, HeadTailProperties
<1>3. 1 \in DOMAIN toBot /\ toBot[1] \in Reply /\ toBot[1].cmd = cmd
  BY <1>1, <1>2
<1>4. QED
  BY <1>2, <1>3

LEMMA Grown ==
    ASSUME TypeOK, NEW l \in Reply, tells(l)
    PROVE  \E n \in Nat : /\ DOMAIN toBot' = DOMAIN toBot \cup {n} /\ toBot'[n] = l
                          /\ \A i \in DOMAIN toBot : i \in Nat /\ i < n /\ toBot'[i] = toBot[i]
<1>1. toBot \in Seq(Reply) /\ toBot' = Append(toBot, l)
  BY DEF TypeOK, tells
<1>2. /\ Len(toBot) \in Nat /\ DOMAIN toBot = 1 .. Len(toBot)
      /\ DOMAIN toBot' = 1 .. Len(toBot) + 1
      /\ \A i \in 1 .. Len(toBot) : toBot'[i] = toBot[i]
      /\ toBot'[Len(toBot) + 1] = l
  BY <1>1, AppendProperties
<1>3. Len(toBot) + 1 \in Nat
  BY <1>2
<1>4. QED
  BY <1>2, <1>3

\* A line that does not move us is read.
LEMMA NamingReads ==
    ASSUME TypeOK, Naming, NEW cmd, Reads(cmd), ~Own(toBot[1]),
           UNCHANGED <<me, serverNick, welcomed, sharing, registered>>
    PROVE  Naming'
<1> USE Shift
<1>1. \A i \in DOMAIN toBot' : OwnBefore(i)' <=> OwnBefore(i + 1)
  <2>1. ASSUME NEW i \in DOMAIN toBot', OwnBefore(i)' PROVE OwnBefore(i + 1)
    BY <2>1 DEF OwnBefore
  <2>2. ASSUME NEW i \in DOMAIN toBot', OwnBefore(i + 1) PROVE OwnBefore(i)'
    <3>1. PICK j \in DOMAIN toBot : j < i + 1 /\ Own(toBot[j])
      BY <2>2 DEF OwnBefore
    <3>2. j # 1 /\ j \in Nat /\ i \in Nat
      BY <3>1
    <3>3. j - 1 \in DOMAIN toBot' /\ toBot'[j - 1] = toBot[j] /\ j - 1 < i
      BY <3>1, <3>2
    <3>4. QED
      BY <3>1, <3>3 DEF OwnBefore
  <2>3. QED
    BY <2>1, <2>2
<1>2. OneOwn'
  <2>1. ASSUME NEW i \in DOMAIN toBot', NEW j \in DOMAIN toBot', Own(toBot'[i]), Own(toBot'[j])
        PROVE  i = j
    <3>1. i + 1 = j + 1
      BY <2>1 DEF Naming, OneOwn
    <3>2. QED
      BY <3>1
  <2>2. QED
    BY <2>1 DEF OneOwn
<1>3. OwnIsTrue'
  BY DEF Naming, OwnIsTrue
<1>4. OthersDiffer'
  <2>1. ASSUME NEW i \in DOMAIN toBot', Others(toBot'[i])
        PROVE  /\ sharing'
               /\ OwnBefore(i)' => toBot'[i].from # serverNick'
               /\ ~OwnBefore(i)' => toBot'[i].from # me'
    <3>1. i + 1 \in DOMAIN toBot /\ toBot'[i] = toBot[i + 1] /\ Others(toBot[i + 1])
      BY <2>1
    <3>2. /\ sharing
          /\ OwnBefore(i + 1) => toBot[i + 1].from # serverNick
          /\ ~OwnBefore(i + 1) => toBot[i + 1].from # me
      BY <3>1 DEF Naming, OthersDiffer
    <3>3. QED
      BY <1>1, <3>1, <3>2
  <2>2. QED
    BY <2>1 DEF OthersDiffer
<1>5. MeKnown'
  <2>1. ASSUME \A i \in DOMAIN toBot' : ~Own(toBot'[i]), NEW j \in DOMAIN toBot PROVE ~Own(toBot[j])
    BY <2>1
  <2>2. QED
    BY <2>1 DEF Naming, MeKnown
<1>6. QED
  BY <1>2, <1>3, <1>4, <1>5 DEF Naming

\* The line that says our nick is read: no other is left.
LEMMA OwnRead ==
    ASSUME TypeOK, Naming, NEW cmd, Reads(cmd), Own(toBot[1])
    PROVE  /\ toBot[1].nick = serverNick
           /\ \A i \in DOMAIN toBot' : ~Own(toBot'[i])
           /\ ~Hears("001")'
<1>1. toBot[1].nick = serverNick
  BY Shift DEF Naming, OwnIsTrue
<1>2. ASSUME NEW i \in DOMAIN toBot', Own(toBot'[i]) PROVE FALSE
  <2>1. i + 1 = 1
    BY <1>2, Shift DEF Naming, OneOwn
  <2>2. QED
    BY <2>1, Shift
<1>3. ~Hears("001")'
  BY <1>2 DEF Hears, Own
<1>4. QED
  BY <1>1, <1>2, <1>3

LEMMA NamingReadsOwn ==
    ASSUME TypeOK, Naming, NEW cmd, Reads(cmd), Own(toBot[1]),
           me' = toBot[1].nick, UNCHANGED <<serverNick, sharing>>
    PROVE  Naming'
<1>1. toBot[1].nick = serverNick /\ \A i \in DOMAIN toBot' : ~Own(toBot'[i])
  BY OwnRead
<1>2. OneOwn' /\ OwnIsTrue' /\ MeKnown'
  BY <1>1 DEF OneOwn, OwnIsTrue, MeKnown
<1>3. OthersDiffer'
  <2>1. ASSUME NEW i \in DOMAIN toBot', Others(toBot'[i])
        PROVE  sharing' /\ ~OwnBefore(i)' /\ toBot'[i].from # me'
    <3>1. i + 1 \in DOMAIN toBot /\ toBot'[i] = toBot[i + 1] /\ Others(toBot[i + 1])
      BY <2>1, Shift
    <3>2. OwnBefore(i + 1)
      BY <3>1, Shift DEF OwnBefore
    <3>3. sharing /\ toBot[i + 1].from # serverNick
      BY <3>1, <3>2 DEF Naming, OthersDiffer
    <3>4. ~OwnBefore(i)'
      BY <1>1 DEF OwnBefore
    <3>5. QED
      BY <1>1, <3>1, <3>3, <3>4
  <2>2. QED
    BY <2>1 DEF OthersDiffer
<1>4. QED
  BY <1>2, <1>3 DEF Naming

\* A line is told that is not ours.
LEMMA NamingTold ==
    ASSUME TypeOK, Naming, NEW l \in Reply, tells(l), ~Own(l),
           Others(l) => sharing /\ l.from # serverNick /\ welcomed,
           UNCHANGED <<me, serverNick, welcomed, sharing, registered>>
    PROVE  Naming'
<1>1. PICK n \in Nat : /\ DOMAIN toBot' = DOMAIN toBot \cup {n} /\ toBot'[n] = l
                       /\ \A i \in DOMAIN toBot : i \in Nat /\ i < n /\ toBot'[i] = toBot[i]
  BY Grown
<1>2. ASSUME NEW i \in DOMAIN toBot' PROVE OwnBefore(i)' <=> OwnBefore(i)
  BY <1>1 DEF OwnBefore
<1>3. OneOwn' /\ OwnIsTrue'
  BY <1>1 DEF Naming, OneOwn, OwnIsTrue
<1>4. MeKnown'
  BY <1>1 DEF Naming, MeKnown
<1>5. OthersDiffer'
  <2>1. ASSUME NEW i \in DOMAIN toBot', Others(toBot'[i])
        PROVE  /\ sharing'
               /\ OwnBefore(i)' => toBot'[i].from # serverNick'
               /\ ~OwnBefore(i)' => toBot'[i].from # me'
    <3>1. CASE i \in DOMAIN toBot
      <4>1. toBot'[i] = toBot[i]
        BY <1>1, <3>1
      <4>2. /\ sharing
            /\ OwnBefore(i) => toBot[i].from # serverNick
            /\ ~OwnBefore(i) => toBot[i].from # me
        BY <2>1, <3>1, <4>1 DEF Naming, OthersDiffer
      <4>3. QED
        BY <1>2, <4>1, <4>2
    <3>2. CASE i = n
      <4>1. toBot'[i] = l /\ Others(l)
        BY <1>1, <2>1, <3>2
      <4>2. sharing /\ l.from # serverNick /\ welcomed
        BY <4>1
      <4>3. ~OwnBefore(i) => me = serverNick
        BY <1>1, <3>2, <4>2 DEF Naming, MeKnown, OwnBefore
      <4>4. QED
        BY <1>2, <4>1, <4>2, <4>3
    <3>3. QED
      BY <1>1, <3>1, <3>2
  <2>2. QED
    BY <2>1 DEF OthersDiffer
<1>6. QED
  BY <1>3, <1>4, <1>5 DEF Naming

\* A line of ours is told, and none is unread.
LEMMA NamingToldOwn ==
    ASSUME TypeOK, Naming, NEW l \in Reply, tells(l), Own(l),
           \A i \in DOMAIN toBot : ~Own(toBot[i]),
           l.nick = serverNick',
           l.cmd = "NICK" => l.from = me /\ l.nick = NICK /\ registered,
           UNCHANGED <<me, sharing, registered>>
    PROVE  Naming'
<1>1. PICK n \in Nat : /\ DOMAIN toBot' = DOMAIN toBot \cup {n} /\ toBot'[n] = l
                       /\ \A i \in DOMAIN toBot : i \in Nat /\ i < n /\ toBot'[i] = toBot[i]
  BY Grown
<1>2. OneOwn' /\ MeKnown'
  BY <1>1 DEF OneOwn, MeKnown
<1>3. OwnIsTrue'
  BY <1>1 DEF OwnIsTrue
<1>4. OthersDiffer'
  <2>1. ASSUME NEW i \in DOMAIN toBot', Others(toBot'[i])
        PROVE  sharing' /\ ~OwnBefore(i)' /\ toBot'[i].from # me'
    <3>1. i \in DOMAIN toBot /\ toBot'[i] = toBot[i] /\ i \in Nat /\ i < n
      BY <1>1, <2>1 DEF Own, Others
    <3>2. ~OwnBefore(i) /\ ~OwnBefore(i)'
      BY <1>1, <3>1 DEF OwnBefore
    <3>3. sharing /\ toBot[i].from # me
      BY <2>1, <3>1, <3>2 DEF Naming, OthersDiffer
    <3>4. QED
      BY <3>1, <3>2, <3>3
  <2>2. QED
    BY <2>1 DEF OthersDiffer
<1>5. QED
  BY <1>2, <1>3, <1>4 DEF Naming

\* Nothing is said and nothing of it changes.
LEMMA NamingKept ==
    ASSUME Naming, UNCHANGED <<me, serverNick, welcomed, toBot, registered>>, sharing => sharing'
    PROVE  Naming'
<1>1. OneOwn' /\ OwnIsTrue' /\ MeKnown'
  BY DEF Naming, OneOwn, OwnIsTrue, MeKnown
<1>2. \A i : OwnBefore(i)' <=> OwnBefore(i)
  BY DEF OwnBefore
<1>3. OthersDiffer'
  BY <1>2 DEF Naming, OthersDiffer
<1>4. QED
  BY <1>1, <1>3 DEF Naming

\* Nothing that Registering speaks of grows.
LEMMA RegisteringKept ==
    ASSUME TypeOK, TypeOK', Registering,
           UNCHANGED <<registered, ghost_needed, sleeping, awake, serverNick, welcomed, sharing>>,
           NicksAsked' + NicksTaken' <= NicksAsked + NicksTaken,
           OnlyOurs => OnlyOurs', Hears("001")' => Hears("001")
    PROVE  Registering'
<1>1. NicksHeld' = NicksHeld /\ NicksHeld \in Nat
  BY DEF NicksHeld
<1>2. NicksAsked \in Nat /\ NicksTaken \in Nat /\ NicksAsked' \in Nat /\ NicksTaken' \in Nat
  BY Numbers, NumbersNext DEF CountsNumbers
<1>3. \A a, b, c, d, e \in Nat : a + b <= c + d /\ c + d + e <= 1 => a + b + e <= 1
  OBVIOUS
<1>4. ~registered => NicksAsked' + NicksTaken' + NicksHeld' <= 1
  <2>1. SUFFICES ASSUME ~registered PROVE NicksAsked' + NicksTaken' + NicksHeld <= 1
    BY <1>1
  <2>2. NicksAsked + NicksTaken + NicksHeld <= 1
    BY <2>1 DEF Registering
  <2>3. QED
    BY <1>1, <1>2, <1>3, <2>2
<1>5. QED
  BY <1>4 DEF Registering

\* After the 001 the counts of Registering are free.
LEMMA RegisteringLater ==
    ASSUME Registering, registered', UNCHANGED <<registered, serverNick, welcomed>>,
           sharing' => sharing \/ welcomed,
           OnlyOurs => OnlyOurs', Hears("001")' => Hears("001")
    PROVE  Registering'
BY DEF Registering

\* A NICK that is read is ours just when it says so.
LEMMA NickHeard ==
    ASSUME TypeOK, Naming, Reads("NICK")
    PROVE  /\ Own(toBot[1]) => toBot[1].from = me /\ toBot[1].nick = serverNick /\ registered
           /\ ~Own(toBot[1]) => toBot[1].from # me /\ sharing
<1>1. /\ 1 \in DOMAIN toBot /\ toBot[1].cmd = "NICK"
      /\ \A j \in DOMAIN toBot : j \in Nat /\ j >= 1
  BY Shift
<1>2. Own(toBot[1]) => toBot[1].from = me /\ toBot[1].nick = serverNick /\ registered
  BY <1>1 DEF Naming, OwnIsTrue
<1>3. ~Own(toBot[1]) => toBot[1].from # me /\ sharing
  <2>1. ~OwnBefore(1)
    BY <1>1 DEF OwnBefore
  <2>2. ~Own(toBot[1]) => Others(toBot[1])
    BY <1>1 DEF Own, Others
  <2>3. QED
    BY <1>1, <2>1, <2>2 DEF Naming, OthersDiffer
<1>4. QED
  BY <1>2, <1>3

LEMMA ReaderNicks ==
    ASSUME NickInv, TypeOK', handle_server_line
    PROVE  Naming' /\ Registering'
<1> USE DEF NickInv, Typed
<1>1. CASE Read001
  <2>1. Reads("001") /\ UNCHANGED <<serverVars, boundVars>>
    BY <1>1 DEF Read001, Reads
  <2>2. Own(toBot[1]) /\ Head(toBot) = toBot[1]
    BY <2>1, Shift DEF Own
  <2>3. Naming'
    BY <1>1, <2>1, <2>2, NamingReadsOwn DEF Read001, serverVars, boundVars
  <2>4. ~Hears("001")'
    BY <2>1, <2>2, OwnRead
  <2>5. welcomed /\ OnlyOurs
    BY <2>1, Read DEF Registering
  <2>6. OnlyOurs'
    <3>1. CASE UNCHANGED toServer
      BY <2>5, <3>1, SameRequests
    <3>2. CASE send_raw(Req("GHOST"))
      BY <2>5, <3>2, Requests, Sent DEF send_raw
    <3>3. CASE send_raw(Req("IDENTIFY"))
      BY <2>5, <3>3, Requests, Sent DEF send_raw
    <3>4. QED
      BY <1>1, <3>1, <3>2, <3>3 DEF Read001
  <2>7. registered' /\ welcomed'
    BY <1>1, <2>1, <2>5 DEF Read001, serverVars
  <2>8. QED
    BY <2>3, <2>4, <2>6, <2>7 DEF Registering
<1>2. CASE ReadNickTaken
  <2>1. Reads("433") /\ UNCHANGED <<serverVars, boundVars>> /\ ~registered /\ ghost_needed'
        /\ UNCHANGED <<registered, me, sleeping, awake>>
    BY <1>2 DEF ReadNickTaken, Reads
  <2>2. ~Own(toBot[1])
    BY <2>1, Shift DEF Own
  <2>3. Naming'
    BY <2>1, <2>2, NamingReads DEF serverVars, boundVars
  <2>4. PICK t \in Temp : tmp_nick' = t /\ send_raw(NickReq(t))
    BY <1>2 DEF ReadNickTaken
  <2>5. t \in Nick
    BY SessionAssumption
  <2>6. NicksAsked' = NicksAsked + 1
    BY <2>4, <2>5, Requests, Sent DEF send_raw, One
  <2>7. NicksTaken = NicksTaken' + 1 /\ (Hears("001")' => Hears("001"))
    BY <2>1, Read DEF One
  <2>8. NicksHeld' = NicksHeld /\ NicksHeld \in Nat
    BY <2>1 DEF NicksHeld, serverVars
  <2>9. NicksAsked \in Nat /\ NicksTaken \in Nat /\ NicksTaken' \in Nat
    BY Numbers, NumbersNext DEF CountsNumbers
  <2>10. ~welcomed
    <3>1. serverNick # NoNick => NicksHeld = 1
      BY DEF NicksHeld
    <3>2. QED
      BY <2>1, <2>7, <2>9, <3>1 DEF Registering, Named
  <2>11. UNCHANGED <<welcomed, sharing, serverNick>>
    BY <2>1 DEF serverVars, boundVars
  <2>12. NicksAsked' + NicksTaken' + NicksHeld' = NicksAsked + NicksTaken + NicksHeld
    BY <2>6, <2>7, <2>8, <2>9
  <2>13. QED
    BY <2>1, <2>3, <2>7, <2>10, <2>11, <2>12 DEF Registering
<1>3. CASE ReadReclaimRefused
  <2>1. Reads("433") /\ UNCHANGED <<serverVars, boundVars, toServer, registered, me>> /\ registered
    BY <1>3 DEF ReadReclaimRefused, Reads
  <2>2. ~Own(toBot[1])
    BY <2>1, Shift DEF Own
  <2>3. Naming'
    BY <2>1, <2>2, NamingReads DEF serverVars, boundVars
  <2>4. Hears("001")' => Hears("001")
    BY <2>1, Read
  <2>5. QED
    BY <2>1, <2>3, <2>4, SameRequests, RegisteringLater DEF serverVars, boundVars
<1>4. CASE ReadCap \/ ReadSasl \/ ReadNotice
  <2>1. /\ UNCHANGED <<serverVars, boundVars, registered, ghost_needed, sleeping, awake, me>>
        /\ \/ Reads("ACK") \/ Reads("NAK") \/ Reads("AUTHENTICATE") \/ Reads("903") \/ Reads("904")
           \/ Reads("identified") \/ Reads("refused") \/ Reads("notice") \/ Reads("ERROR")
    BY <1>4 DEF ReadCap, ReadSasl, ReadNotice, Reads
  <2>2. PICK cmd \in LoginReps \cup {"identified", "refused", "notice", "ERROR"} : Reads(cmd)
    BY <2>1 DEF LoginReps
  <2>3. ~Own(toBot[1])
    BY <2>2, Shift DEF Own, LoginReps
  <2>4. Naming'
    BY <2>1, <2>2, <2>3, NamingReads DEF serverVars, boundVars
  <2>5. NicksTaken' = NicksTaken /\ (Hears("001")' => Hears("001"))
    <3>1. cmd # "433" /\ NicksTaken = NicksTaken' + One(cmd = "433")
      BY <2>2, Read DEF LoginReps
    <3>2. NicksTaken' \in Nat
      BY NumbersNext DEF CountsNumbers
    <3>3. One(cmd = "433") = 0
      BY <3>1 DEF One
    <3>4. NicksTaken' = NicksTaken
      BY <3>1, <3>2, <3>3
    <3>5. QED
      BY <2>2, <3>4, Read
  <2>6. NicksAsked' = NicksAsked /\ (OnlyOurs => OnlyOurs')
    <3>1. CASE UNCHANGED toServer
      BY <3>1, SameRequests
    <3>2. ASSUME NEW c \in LoginReqs \cup {"QUIT"}, send_raw(Req(c))
          PROVE  NicksAsked' = NicksAsked /\ (OnlyOurs => OnlyOurs')
      <4>1. Req(c) \in Request /\ Req(c).cmd = c /\ c # "NICK"
        BY Requests DEF LoginReqs
      <4>2. NicksAsked' = NicksAsked + One(FALSE) /\ (OnlyOurs => OnlyOurs')
        BY <3>2, <4>1, Sent DEF send_raw
      <4>3. QED
        BY <4>2, Counts DEF One
    <3>3. UNCHANGED toServer \/ \E c \in LoginReqs \cup {"QUIT"} : send_raw(Req(c))
      BY <1>4 DEF ReadCap, ReadSasl, ReadNotice, _sasl_abort, LoginReqs
    <3>4. QED
      BY <3>1, <3>2, <3>3
  <2>7. NicksAsked \in Nat /\ NicksTaken \in Nat
    BY Counts
  <2>8. QED
    BY <2>1, <2>4, <2>5, <2>6, <2>7, RegisteringKept DEF serverVars, boundVars
<1>5. CASE ReadNick
  <2>1. Reads("NICK") /\ UNCHANGED <<serverVars, boundVars, registered, sleeping, awake>>
        /\ me' = OwnMove(Head(toBot))
    BY <1>5 DEF ReadNick, Reads
  <2>2. Head(toBot) = toBot[1]
    BY <2>1, Shift
  <2>3. Naming' /\ (registered \/ sharing)
    <3>1. /\ Own(toBot[1]) => toBot[1].from = me /\ registered
          /\ ~Own(toBot[1]) => toBot[1].from # me /\ sharing
      BY <2>1, NickHeard
    <3>2. CASE Own(toBot[1])
      <4>1. me' = toBot[1].nick
        BY <2>1, <2>2, <3>1, <3>2 DEF OwnMove
      <4>2. QED
        BY <2>1, <3>1, <3>2, <4>1, NamingReadsOwn DEF serverVars, boundVars
    <3>3. CASE ~Own(toBot[1])
      <4>1. me' = me
        BY <2>1, <2>2, <3>1, <3>3 DEF OwnMove
      <4>2. QED
        BY <2>1, <3>1, <3>3, <4>1, NamingReads DEF serverVars, boundVars
    <3>4. QED
      BY <3>2, <3>3
  <2>4. NicksTaken' = NicksTaken /\ (Hears("001")' => Hears("001"))
    <3>1. NicksTaken = NicksTaken' + One("NICK" = "433") /\ (Hears("001")' => Hears("001"))
      BY <2>1, Read
    <3>2. NicksTaken' \in Nat
      BY NumbersNext DEF CountsNumbers
    <3>3. One("NICK" = "433") = 0
      BY DEF One
    <3>4. QED
      BY <3>1, <3>2, <3>3
  <2>5. NicksAsked' = NicksAsked /\ (OnlyOurs => OnlyOurs')
    <3>1. CASE UNCHANGED toServer
      BY <3>1, SameRequests
    <3>2. CASE send_raw(Req("IDENTIFY"))
      <4>1. NicksAsked' = NicksAsked + One("IDENTIFY" = "NICK") /\ (OnlyOurs => OnlyOurs')
        BY <3>2, Requests, Sent DEF send_raw
      <4>2. QED
        BY <4>1, Counts DEF One
    <3>3. QED
      BY <1>5, <3>1, <3>2 DEF ReadNick
  <2>6. NicksHeld' = NicksHeld
    BY <2>1 DEF NicksHeld, serverVars
  <2>7. UNCHANGED <<welcomed, sharing, serverNick>>
    BY <2>1 DEF serverVars, boundVars
  <2>8. QED
    BY <2>1, <2>3, <2>4, <2>5, <2>6, <2>7 DEF Registering
<1>6. QED
  BY <1>1, <1>2, <1>3, <1>4, <1>5 DEF handle_server_line

LEMMA ThreadNicks ==
    ASSUME NickInv, TypeOK', ReclaimWakes \/ ReclaimSends \/ OperatorJoins \/ OperatorReclaims
    PROVE  Naming' /\ Registering'
<1> USE DEF NickInv, Typed
<1>1. /\ UNCHANGED <<serverVars, toBot, me, registered, ghost_needed>>
      /\ UNCHANGED sharing \/ (welcomed /\ sharing')
    BY DEF ReclaimWakes, ReclaimSends, OperatorJoins, OperatorReclaims, botVars, boundVars
<1>2. Naming'
  BY <1>1, NamingKept DEF serverVars
<1>3. Hears("001")' => Hears("001")
  BY <1>1, SameReplies
<1>4. CASE registered
  <2>1. OnlyOurs => OnlyOurs'
    <3>1. CASE UNCHANGED toServer
      BY <3>1, SameRequests
    <3>2. CASE send_raw(NickReq(NICK))
      BY <3>2, Requests, Sent, SessionAssumption DEF send_raw
    <3>3. QED
      BY <3>1, <3>2 DEF ReclaimWakes, ReclaimSends, OperatorJoins, OperatorReclaims
  <2>2. QED
    BY <1>1, <1>2, <1>3, <1>4, <2>1, RegisteringLater DEF serverVars
<1>5. CASE ~registered
  <2>1. sleeping = 0 /\ awake = 0
    BY <1>5 DEF Registering
  <2>2. OperatorJoins
    BY <1>5, <2>1 DEF ReclaimWakes, ReclaimSends, OperatorReclaims
  <2>3. UNCHANGED <<sleeping, awake, toServer, toBot, serverNick, welcomed, registered>> /\ sharing' /\ welcomed
    BY <1>1, <2>2 DEF OperatorJoins, botVars, serverVars
  <2>4. /\ UNCHANGED <<NicksAsked, NicksTaken, NicksHeld>>
        /\ (OnlyOurs' <=> OnlyOurs) /\ (Hears("001")' <=> Hears("001"))
    <3>1. NicksHeld' = NicksHeld
      BY <2>3 DEF NicksHeld
    <3>2. QED
      BY <2>3, <3>1, SameRequests, SameReplies
  <2>5. QED
    BY <1>2, <2>3, <2>4 DEF Registering
<1>6. QED
  BY <1>4, <1>5

\* A line served that asks for no nick.
LEMMA OtherServed ==
    ASSUME TypeOK, TypeOK', NEW cmd, cmd # "NICK", Serves(cmd)
    PROVE  NicksAsked' = NicksAsked /\ (OnlyOurs => OnlyOurs')
<1>1. NicksAsked = NicksAsked' + One(cmd = "NICK") /\ (OnlyOurs => OnlyOurs')
  BY Served
<1>2. One(cmd = "NICK") = 0
  BY DEF One
<1>3. NicksAsked' \in Nat
  BY NumbersNext DEF CountsNumbers
<1>4. QED
  BY <1>1, <1>2, <1>3

\* A line told that says nothing of nicks.
LEMMA OtherTold ==
    ASSUME TypeOK, NEW c \in LoginReps \cup {"identified", "refused", "notice", "ERROR"}, tells(Req(c))
    PROVE  /\ NicksTaken' = NicksTaken /\ OursTaken' = OursTaken
           /\ Hears("001")' => Hears("001")
           /\ Req(c) \in Reply /\ ~Own(Req(c)) /\ ~Others(Req(c))
<1>1. Req(c) \in Reply /\ Req(c).cmd = c /\ c \notin {"001", "433", "NICK"}
  BY Replies DEF LoginReps
<1>2. /\ NicksTaken' = NicksTaken + One(Req(c).cmd = "433")
      /\ OursTaken' = OursTaken + One(Req(c).cmd = "433" /\ Req(c).nick = NICK)
      /\ Hears("001")' => Hears("001")
  BY <1>1, Told
<1>3. One(Req(c).cmd = "433") = 0 /\ One(Req(c).cmd = "433" /\ Req(c).nick = NICK) = 0
  BY <1>1 DEF One
<1>4. NicksTaken' = NicksTaken /\ OursTaken' = OursTaken
  BY <1>2, <1>3, Numbers DEF CountsNumbers
<1>5. QED
  BY <1>1, <1>2, <1>4 DEF Own, Others

\* The server gives, keeps or refuses a nick.
LEMMA NickServed ==
    ASSUME NickInv, TypeOK', ServeNick
    PROVE  Naming' /\ Registering'
<1> DEFINE n == Head(toServer).nick
<1> USE DEF NickInv, Typed
<1>1. Serves("NICK") /\ UNCHANGED <<botVars, boundVars, welcomed, closed>> /\ ~closed
  BY DEF ServeNick, Serves
<1>2. /\ n \in Nick /\ Asks("NICK")
      /\ OnlyOurs => OnlyOurs' /\ n = NICK
  BY <1>1, Served, Requests
<1>3. NicksAsked = NicksAsked' + 1
  <2>1. NicksAsked = NicksAsked' + One("NICK" = "NICK")
    BY <1>1, Served
  <2>2. QED
    BY <2>1 DEF One
<1>4. NicksAsked \in Nat /\ NicksTaken \in Nat /\ NicksAsked' \in Nat
  BY Numbers, NumbersNext DEF CountsNumbers
<1>5. NicksHeld \in Nat /\ (serverNick # NoNick => NicksHeld = 1)
  BY DEF NicksHeld
<1>6. UNCHANGED <<registered, ghost_needed, sleeping, awake, me, sharing>>
  BY <1>1 DEF botVars, boundVars
<1> HIDE DEF n
<1>7. CASE tells([cmd |-> "433", nick |-> n]) /\ UNCHANGED <<owner, serverNick>>
  <2> DEFINE l == [cmd |-> "433", nick |-> n]
  <2>1. l \in Reply /\ l.cmd = "433"
    BY <1>2, Replies
  <2> HIDE DEF l
  <2>2. tells(l)
    BY <1>7 DEF l
  <2>3. ~Own(l) /\ ~Others(l)
    BY <2>1 DEF Own, Others
  <2>4. Naming'
    BY <1>1, <1>6, <1>7, <2>1, <2>2, <2>3, NamingTold
  <2>5. NicksTaken' = NicksTaken + One(l.cmd = "433") /\ (Hears("001")' => Hears("001"))
    BY <2>1, <2>2, Told
  <2>6. One(l.cmd = "433") = 1
    BY <2>1 DEF One
  <2>7. NicksAsked' + NicksTaken' <= NicksAsked + NicksTaken
    BY <1>3, <1>4, <2>5, <2>6
  <2>8. QED
    BY <1>1, <1>2, <1>6, <1>7, <2>4, <2>5, <2>7, RegisteringKept
<1>8. CASE UNCHANGED <<owner, serverNick, toBot>>
  <2>1. Naming'
    BY <1>1, <1>6, <1>8, NamingKept
  <2>2. NicksTaken' = NicksTaken /\ (Hears("001")' => Hears("001"))
    BY <1>8, SameReplies
  <2>3. \A a, b, c \in Nat : a = b + 1 => b + c <= a + c
    OBVIOUS
  <2>4. NicksAsked' + NicksTaken' <= NicksAsked + NicksTaken
    BY <1>3, <1>4, <2>2, <2>3
  <2>5. QED
    BY <1>1, <1>2, <1>6, <1>8, <2>1, <2>2, <2>4, RegisteringKept
<1>9. CASE /\ owner[n] = "free"
           /\ serverNick' = n
           /\ IF welcomed
              THEN tells([cmd |-> "NICK", from |-> serverNick, nick |-> n, own |-> TRUE])
              ELSE UNCHANGED toBot
  <2>1. ~registered => serverNick = NoNick /\ ~welcomed
    <3>1. SUFFICES ASSUME ~registered PROVE serverNick = NoNick /\ ~welcomed
      OBVIOUS
    <3>2. NicksAsked + NicksTaken + NicksHeld <= 1
      BY <3>1 DEF Registering
    <3>3. \A a, b, c \in Nat : ~(a = b + 1 /\ a + c + 1 <= 1)
      OBVIOUS
    <3>4. serverNick = NoNick
      BY <1>3, <1>4, <1>5, <3>2, <3>3
    <3>5. QED
      BY <3>4 DEF Named
  <2>2. registered <=> welcomed
    BY <2>1 DEF Registering
  <2>3. Naming' /\ UNCHANGED NicksTaken /\ (Hears("001")' => Hears("001"))
    <3>1. CASE ~welcomed
      <4>1. /\ \A i \in DOMAIN toBot : ~Own(toBot[i])
            /\ \A i \in DOMAIN toBot : ~Others(toBot[i])
        BY <2>2, <3>1 DEF Registering, Naming, OwnIsTrue, OthersDiffer, Own, Hears
      <4>2. UNCHANGED toBot
        BY <1>9, <3>1
      <4>3. Naming'
        BY <1>1, <3>1, <4>1, <4>2 DEF Naming, OneOwn, OwnIsTrue, OthersDiffer, MeKnown
      <4>4. QED
        BY <4>2, <4>3, SameReplies
    <3>2. CASE welcomed
      <4> DEFINE l == [cmd |-> "NICK", from |-> serverNick, nick |-> n, own |-> TRUE]
      <4>1. serverNick \in Nick
        BY <3>2, TypesTyped DEF Named, ServerTypes
      <4>2. l \in Reply /\ l.cmd = "NICK" /\ l.from = serverNick /\ l.nick = n /\ l.own = TRUE
        BY <1>2, <4>1, Replies
      <4>3. tells(l)
        BY <1>9, <3>2
      <4> HIDE DEF l
      <4>4. n = NICK
        BY <1>2, <3>2 DEF Registering
      <4>5. \A i \in DOMAIN toBot : ~Own(toBot[i])
        <5>1. SUFFICES ASSUME NEW i \in DOMAIN toBot, Own(toBot[i]) PROVE FALSE
          OBVIOUS
        <5>2. toBot[i].cmd # "001"
          BY <2>2, <3>2 DEF Registering, Hears
        <5>3. serverNick = NICK
          BY <5>1, <5>2 DEF Naming, OwnIsTrue, Own
        <5>4. owner[NICK] = "bot"
          BY <1>1, <4>1, <5>3, SessionAssumption DEF NickHeld
        <5>5. QED
          BY <1>9, <4>4, <5>4
      <4>6. me = serverNick
        BY <3>2, <4>5 DEF Naming, MeKnown
      <4>7. Naming'
        BY <1>6, <1>9, <2>2, <3>2, <4>2, <4>3, <4>4, <4>5, <4>6, NamingToldOwn DEF Own
      <4>8. NicksTaken' = NicksTaken + One(l.cmd = "433") /\ (Hears("001")' => Hears("001"))
        BY <4>2, <4>3, Told
      <4>9. One(l.cmd = "433") = 0
        BY <4>2 DEF One
      <4>10. QED
        BY <1>4, <4>7, <4>8, <4>9
    <3>3. QED
      BY <3>1, <3>2
  <2>4. ~registered => NicksAsked' + NicksTaken' + NicksHeld' <= 1
    <3>1. SUFFICES ASSUME ~registered PROVE NicksAsked' + NicksTaken' + NicksHeld' <= 1
      OBVIOUS
    <3>2. NicksAsked + NicksTaken + NicksHeld <= 1
      BY <3>1 DEF Registering
    <3>3. NicksHeld' = 1
      BY <1>2, <1>9, SessionAssumption DEF NicksHeld
    <3>4. \A a, b, c, d \in Nat : a = b + 1 /\ a + c + d <= 1 => b + c + 1 <= 1
      OBVIOUS
    <3>5. QED
      BY <1>3, <1>4, <1>5, <2>3, <3>2, <3>3, <3>4
  <2>5. QED
    BY <1>1, <1>2, <1>6, <1>9, <2>1, <2>2, <2>3, <2>4 DEF Registering
<1>10. QED
  BY <1>7, <1>8, <1>9 DEF ServeNick, n

\* What the server and its services do but give nicks.
LEMMA ServerNicks ==
    ASSUME NickInv, TypeOK', ServeLogin \/ ServeServices \/ ServeQuit \/ NickServ \/ GhostDies
    PROVE  Naming' /\ Registering'
<1> USE DEF NickInv, Typed
<1>1. UNCHANGED <<botVars, boundVars, serverNick, welcomed>>
  BY DEF ServeLogin, ServeServices, ServeQuit, NickServ, GhostDies, Serves
<1>2. UNCHANGED <<registered, ghost_needed, sleeping, awake, me, sharing>>
  BY <1>1 DEF botVars, boundVars
<1>3. \/ UNCHANGED toServer
      \/ \E cmd \in LoginReqs \cup {"USER", "GHOST", "IDENTIFY", "QUIT"} : Serves(cmd)
  BY DEF ServeLogin, ServeServices, ServeQuit, NickServ, GhostDies, LoginReqs
<1>4. UNCHANGED toBot \/ \E c \in LoginReps \cup {"identified", "refused", "notice", "ERROR"} : tells(Req(c))
  BY DEF ServeLogin, ServeServices, ServeQuit, NickServ, GhostDies, LoginReps
<1>5. NicksAsked' = NicksAsked /\ (OnlyOurs => OnlyOurs')
  <2>1. CASE UNCHANGED toServer
    BY <2>1, SameRequests
  <2>2. ASSUME NEW cmd \in LoginReqs \cup {"USER", "GHOST", "IDENTIFY", "QUIT"}, Serves(cmd)
        PROVE  NicksAsked' = NicksAsked /\ (OnlyOurs => OnlyOurs')
    <3>1. cmd # "NICK"
      BY DEF LoginReqs
    <3>2. QED
      BY <2>2, <3>1, OtherServed
  <2>3. QED
    BY <1>3, <2>1, <2>2
<1>6. Naming' /\ NicksTaken' = NicksTaken /\ (Hears("001")' => Hears("001"))
  <2>1. CASE UNCHANGED toBot
    BY <1>1, <1>2, <2>1, NamingKept, SameReplies
  <2>2. ASSUME NEW c \in LoginReps \cup {"identified", "refused", "notice", "ERROR"}, NEW l, l = Req(c), tells(l)
        PROVE  Naming' /\ NicksTaken' = NicksTaken /\ (Hears("001")' => Hears("001"))
    <3>1. /\ NicksTaken' = NicksTaken /\ (Hears("001")' => Hears("001"))
          /\ l \in Reply /\ ~Own(l) /\ ~Others(l)
      BY <2>2, OtherTold
    <3>2. QED
      BY <1>1, <1>2, <2>2, <3>1, NamingTold
  <2>3. QED
    BY <1>4, <2>1, <2>2
<1>7. NicksAsked' + NicksTaken' <= NicksAsked + NicksTaken
  BY <1>5, <1>6, Numbers DEF CountsNumbers
<1>8. QED
  BY <1>1, <1>2, <1>5, <1>6, <1>7, RegisteringKept

\* The welcome: no request for a nick is left then.
LEMMA WelcomeNicks ==
    ASSUME NickInv, TypeOK', Welcome
    PROVE  Naming' /\ Registering'
<1> USE DEF NickInv, Typed
<1> DEFINE l == [cmd |-> "001", nick |-> serverNick]
<1>1. /\ ~welcomed /\ welcomed' /\ serverNick # NoNick /\ tells(l)
      /\ UNCHANGED <<botVars, boundVars, serverNick, toServer>>
  BY DEF Welcome
<1>2. UNCHANGED <<registered, ghost_needed, sleeping, awake, me, sharing>>
  BY <1>1 DEF botVars, boundVars
<1>3. l \in Reply /\ l.cmd = "001" /\ l.nick = serverNick
  <2>1. serverNick \in Nick
    BY <1>1, TypesTyped DEF ServerTypes
  <2>2. QED
    BY <2>1, Replies
<1> HIDE DEF l
<1>4. ~registered /\ ~Hears("001")
  BY <1>1 DEF Registering
<1>5. OnlyOurs
  <2>1. NicksAsked + NicksTaken + NicksHeld <= 1
    BY <1>4 DEF Registering
  <2>2. NicksHeld = 1 /\ NicksAsked \in Nat /\ NicksTaken \in Nat
    BY <1>1, Numbers DEF NicksHeld, CountsNumbers
  <2>3. NicksAsked = 0
    BY <2>1, <2>2
  <2>4. QED
    BY <2>3, Counts
<1>6. \A i \in DOMAIN toBot : ~Own(toBot[i])
  BY <1>4 DEF Naming, OwnIsTrue, Own, Hears
<1>7. Naming'
  BY <1>1, <1>2, <1>3, <1>6, NamingToldOwn DEF Own
<1>8. UNCHANGED <<NicksAsked, NicksHeld>> /\ OnlyOurs'
  BY <1>1, <1>5, SameRequests DEF NicksHeld
<1>9. NicksTaken' = NicksTaken
  <2>1. NicksTaken' = NicksTaken + One(l.cmd = "433")
    BY <1>1, <1>3, Told
  <2>2. One(l.cmd = "433") = 0
    BY <1>3 DEF One
  <2>3. QED
    BY <2>1, <2>2, Numbers DEF CountsNumbers
<1>10. QED
  BY <1>1, <1>2, <1>4, <1>7, <1>8, <1>9 DEF Registering

\* Other users take nicks and change them.
LEMMA OthersNicks ==
    ASSUME NickInv, TypeOK', \E n \in Nick : OtherTakes(n) \/ \E b \in Nick : OtherRenames(n, b)
    PROVE  Naming' /\ Registering'
<1> USE DEF NickInv, Typed
<1>1. UNCHANGED <<registered, ghost_needed, sleeping, awake, me, sharing, serverNick, welcomed, toServer>>
  BY DEF OtherTakes, OtherRenames, botVars
<1>2. NicksAsked' = NicksAsked /\ (OnlyOurs => OnlyOurs')
  BY <1>1, SameRequests
<1>3. Naming' /\ NicksTaken' = NicksTaken /\ (Hears("001")' => Hears("001"))
  <2>1. CASE UNCHANGED toBot
    BY <1>1, <2>1, NamingKept, SameReplies
  <2>2. ASSUME NEW n \in Nick, NEW b \in Nick, NEW l,
               l = [cmd |-> "NICK", from |-> n, nick |-> b, own |-> FALSE], tells(l),
               owner[n] = "other", sharing, ~closed
        PROVE  Naming' /\ NicksTaken' = NicksTaken /\ (Hears("001")' => Hears("001"))
    <3>1. l \in Reply /\ l.cmd = "NICK" /\ l.from = n /\ l.own = FALSE
      BY <2>2, Replies
    <3>2. welcomed /\ n # serverNick
      BY <2>2 DEF Registering, Named, NickHeld
    <3>3. Naming'
      BY <1>1, <2>2, <3>1, <3>2, NamingTold DEF Own
    <3>4. NicksTaken' = NicksTaken + One(l.cmd = "433") /\ (Hears("001")' => Hears("001"))
      BY <2>2, <3>1, Told
    <3>5. One(l.cmd = "433") = 0
      BY <3>1 DEF One
    <3>6. QED
      BY <3>3, <3>4, <3>5, Numbers DEF CountsNumbers
  <2>3. QED
    BY <2>1, <2>2 DEF OtherTakes, OtherRenames
<1>4. NicksAsked' + NicksTaken' <= NicksAsked + NicksTaken
  BY <1>2, <1>3, Numbers DEF CountsNumbers
<1>5. QED
  BY <1>1, <1>2, <1>3, <1>4, RegisteringKept

LEMMA NickInvStep == NickInv /\ [Next]_vars => NickInv'
<1> SUFFICES ASSUME NickInv, [Next]_vars PROVE NickInv'
  OBVIOUS
<1> USE DEF NickInv
<1>1. Typed' /\ NickHeld' /\ TypeOK'
  BY TypesStep, NickHeldStep DEF Typed
<1>2. Naming' /\ Registering'
  <2>1. CASE UNCHANGED vars
    <3>1. /\ UNCHANGED <<me, serverNick, welcomed, toBot, toServer, registered, sharing>>
          /\ UNCHANGED <<ghost_needed, sleeping, awake>>
      BY <2>1 DEF vars, botVars, serverVars, boundVars
    <3>2. NicksAsked' = NicksAsked /\ NicksTaken' = NicksTaken
      BY <3>1, SameRequests, SameReplies
    <3>3. NicksAsked' + NicksTaken' <= NicksAsked + NicksTaken
      BY <3>2, Numbers DEF CountsNumbers, Typed
    <3>4. QED
      BY <1>1, <3>1, <3>3, NamingKept, RegisteringKept, SameRequests, SameReplies DEF Typed
  <2>2. CASE Next
    BY <1>1, <2>2, ReaderNicks, ThreadNicks, NickServed, ServerNicks, WelcomeNicks, OthersNicks
    DEF Next, Serve
  <2>3. QED
    BY <2>1, <2>2
<1>3. QED
  BY <1>1, <1>2

-----------------------------------------------------------------------------
(* The login.                                                              *)

\* One line of the login is on its way at most, none without SASL; a CAP END
\* or a 903 only once logged in.  Until then the server cannot welcome us: it
\* holds the registration, or has the CAP REQ before it.
LoggingIn ==
    /\ LoginsAsked + LoginsTold <= 1
    /\ ~SASL => LoginsAsked + LoginsTold = 0
    /\ Asks("CAP_END") \/ Hears("903") => account
    /\ SASL /\ CapServer => \/ ~welcomed /\ (Asks("CAP_REQ") \/ capHeld)
                            \/ account /\ LoginsAsked + LoginsTold = 0

\* NickServ is asked after the welcome only, when our nick is ours for good;
\* what it says of us is true.
Identifying ==
    /\ Asks("GHOST") \/ Asks("IDENTIFY") \/ services # << >> => welcomed
    /\ Hears("identified") => welcomed /\ serverNick = NICK /\ (~SASL => account)

LoginInv == NickInv /\ LoggingIn /\ Identifying

\* No line of the login comes or goes.
LEMMA LoggingInKept ==
    ASSUME LoggingIn, LoginsAsked' + LoginsTold' = LoginsAsked + LoginsTold,
           Asks("CAP_END")' => Asks("CAP_END"), Hears("903")' => Hears("903"),
           Asks("CAP_REQ") => Asks("CAP_REQ")', account => account',
           UNCHANGED <<profile, capHeld, welcomed>>
    PROVE  LoggingIn'
BY DEF LoggingIn, SASL, CapServer

\* What is sent or served that is no line of the login.
LEMMA LoginQuietSent ==
    ASSUME TypeOK, NEW r \in Request, r.cmd \notin LoginReqs, toServer' = Append(toServer, r)
    PROVE  LoginsAsked' = LoginsAsked /\ \A c \in LoginReqs : Asks(c)' <=> Asks(c)
<1>1. LoginsAsked' = LoginsAsked + One(r.cmd \in LoginReqs) /\ \A c \in LoginReqs : Asks(c)' <=> Asks(c)
  BY Sent
<1>2. One(r.cmd \in LoginReqs) = 0
  BY DEF One
<1>3. QED
  BY <1>1, <1>2, Numbers DEF CountsNumbers

LEMMA LoginQuietServed ==
    ASSUME TypeOK, TypeOK', NEW cmd, cmd \notin LoginReqs, Serves(cmd)
    PROVE  LoginsAsked' = LoginsAsked /\ \A c \in LoginReqs : Asks(c)' <=> Asks(c)
<1>1. LoginsAsked = LoginsAsked' + One(cmd \in LoginReqs) /\ \A c \in LoginReqs : Asks(c)' <=> Asks(c)
  BY Served
<1>2. One(cmd \in LoginReqs) = 0
  BY DEF One
<1>3. LoginsAsked' \in Nat
  BY NumbersNext DEF CountsNumbers
<1>4. QED
  BY <1>1, <1>2, <1>3

LEMMA LoginQuietTold ==
    ASSUME TypeOK, NEW l \in Reply, l.cmd \notin LoginReps, tells(l)
    PROVE  LoginsTold' = LoginsTold /\ (Hears("903")' <=> Hears("903"))
<1>1. LoginsTold' = LoginsTold + One(l.cmd \in LoginReps) /\ (Hears("903")' <=> Hears("903"))
  BY Told DEF LoginReps
<1>2. One(l.cmd \in LoginReps) = 0
  BY DEF One
<1>3. QED
  BY <1>1, <1>2, Numbers DEF CountsNumbers

LEMMA LoginQuietRead ==
    ASSUME TypeOK, TypeOK', NEW cmd, cmd \notin LoginReps, Reads(cmd)
    PROVE  LoginsTold' = LoginsTold /\ (Hears("903")' <=> Hears("903"))
<1>1. LoginsTold = LoginsTold' + One(cmd \in LoginReps) /\ (Hears("903")' <=> Hears("903"))
  BY Read DEF LoginReps
<1>2. One(cmd \in LoginReps) = 0
  BY DEF One
<1>3. LoginsTold' \in Nat
  BY NumbersNext DEF CountsNumbers
<1>4. QED
  BY <1>1, <1>2, <1>3

\* A line of the login sent, served, told, read: a request for an answer.
LEMMA LoginSent ==
    ASSUME TypeOK, NEW c \in LoginReqs, send_raw(Req(c))
    PROVE  LoginsAsked' = LoginsAsked + 1 /\ \A d : Asks(d)' <=> Asks(d) \/ d = c
<1>1. Req(c) \in Request /\ Req(c).cmd = c
  BY Requests
<1>2. LoginsAsked' = LoginsAsked + One(Req(c).cmd \in LoginReqs) /\ \A d : Asks(d)' <=> Asks(d) \/ d = c
  BY <1>1, Sent DEF send_raw
<1>3. One(Req(c).cmd \in LoginReqs) = 1
  BY <1>1 DEF One
<1>4. QED
  BY <1>2, <1>3

LEMMA LoginServed ==
    ASSUME TypeOK, NEW c \in LoginReqs, Serves(c)
    PROVE  LoginsAsked = LoginsAsked' + 1 /\ Asks(c) /\ \A d : Asks(d) <=> Asks(d)' \/ d = c
<1>1. LoginsAsked = LoginsAsked' + One(c \in LoginReqs) /\ Asks(c) /\ \A d : Asks(d) <=> Asks(d)' \/ d = c
  BY Served
<1>2. One(c \in LoginReqs) = 1
  BY DEF One
<1>3. QED
  BY <1>1, <1>2

LEMMA LoginTold ==
    ASSUME TypeOK, NEW c \in LoginReps, tells(Req(c))
    PROVE  LoginsTold' = LoginsTold + 1 /\ \A d : Hears(d)' <=> Hears(d) \/ d = c
<1>1. Req(c) \in Reply /\ Req(c).cmd = c
  BY Replies
<1>2. LoginsTold' = LoginsTold + One(Req(c).cmd \in LoginReps) /\ \A d : Hears(d)' <=> Hears(d) \/ d = c
  BY <1>1, Told
<1>3. One(Req(c).cmd \in LoginReps) = 1
  BY <1>1 DEF One
<1>4. QED
  BY <1>2, <1>3

LEMMA LoginRead ==
    ASSUME TypeOK, NEW c \in LoginReps, Reads(c)
    PROVE  LoginsTold = LoginsTold' + 1 /\ Hears(c) /\ \A d : Hears(d) <=> Hears(d)' \/ d = c
<1>1. LoginsTold = LoginsTold' + One(c \in LoginReps) /\ Hears(c) /\ \A d : Hears(d) <=> Hears(d)' \/ d = c
  BY Read
<1>2. One(c \in LoginReps) = 1
  BY DEF One
<1>3. QED
  BY <1>1, <1>2

\* No request of the login and no answer at once; the last one over, none.
LEMMA LoginAlone ==
    ASSUME TypeOK, LoggingIn
    PROVE  /\ LoginsAsked >= 1 => LoginsAsked = 1 /\ LoginsTold = 0
           /\ LoginsTold >= 1 => LoginsTold = 1 /\ LoginsAsked = 0
           /\ LoginsAsked = 0 => \A c \in LoginReqs : ~Asks(c)
           /\ LoginsTold = 0 => \A c \in LoginReps : ~Hears(c)
<1>1. LoginsAsked \in Nat /\ LoginsTold \in Nat /\ LoginsAsked + LoginsTold <= 1
  BY Numbers DEF CountsNumbers, LoggingIn
<1>2. \A a, b \in Nat : a + b <= 1 => (a >= 1 => a = 1 /\ b = 0) /\ (b >= 1 => b = 1 /\ a = 0)
  OBVIOUS
<1>3. QED
  BY <1>1, <1>2, Counts

\* The bot answers an answer, or ends the login.
LEMMA BotLogsIn ==
    ASSUME LoginInv, TypeOK', ReadCap \/ ReadSasl
    PROVE  LoggingIn'
<1> USE DEF LoginInv, NickInv, Typed
<1>1. UNCHANGED <<profile, capHeld, welcomed, account>>
  BY DEF ReadCap, ReadSasl, Reads, serverVars
<1>2. PICK c \in LoginReps : Reads(c)
  BY DEF ReadCap, ReadSasl, LoginReps
<1>3. LoginsTold = LoginsTold' + 1 /\ Hears(c) /\ \A d : Hears(d) <=> Hears(d)' \/ d = c
  BY <1>2, LoginRead
<1>4. LoginsTold \in Nat /\ LoginsTold' \in Nat /\ LoginsAsked \in Nat /\ LoginsAsked' \in Nat
  BY Numbers, NumbersNext DEF CountsNumbers
<1>5. \A a, b \in Nat : a = b + 1 => a >= 1 /\ (a = 1 => b = 0)
  OBVIOUS
<1>6. LoginsTold = 1 /\ LoginsTold' = 0 /\ LoginsAsked = 0 /\ \A d \in LoginReqs : ~Asks(d)
  BY <1>3, <1>4, <1>5, LoginAlone
<1>7. ~Hears("903")'
  BY <1>6, OverNext DEF LoginsOver, LoginReps
<1>8. SASL /\ (CapServer => ~welcomed /\ capHeld)
  BY <1>6 DEF LoggingIn, LoginReqs
<1>9. LoginsAsked' <= 1 /\ (Asks("CAP_END")' => account)
  <2>1. ASSUME NEW d \in LoginReqs, send_raw(Req(d)), d = "CAP_END" => account
        PROVE  LoginsAsked' <= 1 /\ (Asks("CAP_END")' => account)
    BY <1>6, <2>1, LoginSent DEF LoginReqs
  <2>2. CASE send_raw(Req("QUIT"))
    <3>1. Req("QUIT") \in Request /\ Req("QUIT").cmd \notin LoginReqs
      BY Requests DEF LoginReqs
    <3>2. LoginsAsked' = LoginsAsked /\ \A d \in LoginReqs : Asks(d)' <=> Asks(d)
      BY <2>2, <3>1, LoginQuietSent DEF send_raw
    <3>3. QED
      BY <1>6, <3>2 DEF LoginReqs
  <2>3. \/ send_raw(Req("QUIT"))
        \/ \E d \in LoginReqs : send_raw(Req(d)) /\ (d = "CAP_END" => Reads("903"))
    BY DEF ReadCap, ReadSasl, _sasl_abort, LoginReqs
  <2>4. Reads("903") => account
    BY Read DEF LoggingIn
  <2>5. QED
    BY <2>1, <2>2, <2>3, <2>4
<1>10. LoginsAsked' + LoginsTold' <= 1
  <2>1. \A a, b \in Nat : a <= 1 /\ b = 0 => a + b <= 1
    OBVIOUS
  <2>2. QED
    BY <1>4, <1>6, <1>9, <2>1
<1>11. QED
  BY <1>1, <1>7, <1>8, <1>9, <1>10 DEF LoggingIn, SASL, CapServer

\* What else the bot reads, its threads and the operator send no line of it.
LEMMA BotElseLogin ==
    ASSUME LoginInv, TypeOK', handle_server_line, ~(ReadCap \/ ReadSasl)
    PROVE  LoggingIn'
<1> USE DEF LoginInv, NickInv, Typed
<1>1. UNCHANGED <<profile, capHeld, welcomed, account>>
  BY DEF handle_server_line, Read001, ReadNickTaken, ReadReclaimRefused, ReadNotice, ReadNick,
         Reads, serverVars
<1>2. PICK cmd \in {"001", "433", "NICK", "identified", "refused", "notice", "ERROR"} : Reads(cmd)
  BY DEF handle_server_line, Read001, ReadNickTaken, ReadReclaimRefused, ReadNotice, ReadNick
<1>3. LoginsTold' = LoginsTold /\ (Hears("903")' <=> Hears("903"))
  <2>1. cmd \notin LoginReps
    BY DEF LoginReps
  <2>2. QED
    BY <1>2, <2>1, LoginQuietRead
<1>4. \/ UNCHANGED toServer
      \/ \E r \in Request : r.cmd \notin LoginReqs /\ send_raw(r)
  <2>1. /\ \A c \in {"GHOST", "IDENTIFY"} : Req(c) \in Request /\ Req(c).cmd \notin LoginReqs
        /\ \A t \in Temp : NickReq(t) \in Request /\ NickReq(t).cmd \notin LoginReqs
    BY Requests, SessionAssumption DEF LoginReqs
  <2>2. CASE Read001
    BY <2>1, <2>2 DEF Read001
  <2>3. CASE ReadNickTaken
    BY <2>1, <2>3 DEF ReadNickTaken
  <2>4. CASE ReadNick
    BY <2>1, <2>4 DEF ReadNick
  <2>5. CASE ReadReclaimRefused \/ ReadNotice
    BY <2>5 DEF ReadReclaimRefused, ReadNotice
  <2>6. QED
    BY <2>2, <2>3, <2>4, <2>5 DEF handle_server_line
<1>5. LoginsAsked' = LoginsAsked /\ \A c \in LoginReqs : Asks(c)' <=> Asks(c)
  <2>1. CASE UNCHANGED toServer
    BY <2>1, SameRequests
  <2>2. ASSUME NEW r \in Request, r.cmd \notin LoginReqs, send_raw(r)
        PROVE  LoginsAsked' = LoginsAsked /\ \A c \in LoginReqs : Asks(c)' <=> Asks(c)
    BY <2>2, LoginQuietSent DEF send_raw
  <2>3. QED
    BY <1>4, <2>1, <2>2
<1>6. (Asks("CAP_END")' <=> Asks("CAP_END")) /\ (Asks("CAP_REQ")' <=> Asks("CAP_REQ"))
  BY <1>5 DEF LoginReqs
<1>7. LoginsAsked' + LoginsTold' = LoginsAsked + LoginsTold
  BY <1>3, <1>5
<1>8. QED
  BY <1>1, <1>3, <1>6, <1>7, LoggingInKept

LEMMA ThreadsLogin ==
    ASSUME LoginInv, ReclaimWakes \/ ReclaimSends \/ OperatorJoins \/ OperatorReclaims
    PROVE  LoggingIn'
<1> USE DEF LoginInv, NickInv, Typed
<1>1. /\ UNCHANGED <<profile, capHeld, welcomed, account, toBot>>
      /\ UNCHANGED toServer \/ send_raw(NickReq(NICK))
  BY DEF ReclaimWakes, ReclaimSends, OperatorJoins, OperatorReclaims, serverVars
<1>2. NickReq(NICK) \in Request /\ NickReq(NICK).cmd \notin LoginReqs
  BY Requests, SessionAssumption DEF LoginReqs
<1>3. LoginsAsked' = LoginsAsked /\ \A c \in LoginReqs : Asks(c)' <=> Asks(c)
  BY <1>1, <1>2, SameRequests, LoginQuietSent DEF send_raw
<1>4. LoginsTold' = LoginsTold /\ (Hears("903")' <=> Hears("903"))
  BY <1>1, SameReplies
<1>5. (Asks("CAP_END")' <=> Asks("CAP_END")) /\ (Asks("CAP_REQ")' <=> Asks("CAP_REQ"))
  BY <1>3 DEF LoginReqs
<1>6. LoginsAsked' + LoginsTold' = LoginsAsked + LoginsTold
  BY <1>3, <1>4
<1>7. QED
  BY <1>1, <1>4, <1>5, <1>6, LoggingInKept

\* The server answers a request of the login, or lets it end.
LEMMA ServerLogsIn ==
    ASSUME LoginInv, TypeOK', ServeLogin, ~Serves("USER")
    PROVE  LoggingIn'
<1> USE DEF LoginInv, NickInv, Typed
<1>1. UNCHANGED <<profile, welcomed>>
  BY DEF ServeLogin, Serves
<1>2. PICK c \in LoginReqs : Serves(c)
  BY DEF ServeLogin, LoginReqs
<1>3. LoginsAsked = LoginsAsked' + 1 /\ Asks(c) /\ \A d : Asks(d) <=> Asks(d)' \/ d = c
  BY <1>2, LoginServed
<1>4. LoginsTold \in Nat /\ LoginsTold' \in Nat /\ LoginsAsked \in Nat /\ LoginsAsked' \in Nat
  BY Numbers, NumbersNext DEF CountsNumbers
<1>5. \A a, b \in Nat : a = b + 1 => a >= 1 /\ (a = 1 => b = 0)
  OBVIOUS
<1>6. LoginsAsked = 1 /\ LoginsAsked' = 0 /\ LoginsTold = 0 /\ \A d \in LoginReps : ~Hears(d)
  BY <1>3, <1>4, <1>5, LoginAlone
<1>7. ~Asks("CAP_END")'
  BY <1>6, OverNext DEF LoginsOver, LoginReqs
<1>8. SASL /\ (CapServer => ~welcomed /\ (Asks("CAP_REQ") \/ capHeld))
  BY <1>6 DEF LoggingIn
<1>9. \A d \in LoginReqs : Serves(d) => d = c
  BY <1>2 DEF Serves
<1>10. c # "CAP_REQ" => (CapServer => capHeld)
  <2>1. ~Asks("CAP_REQ")'
    BY <1>6, OverNext DEF LoginsOver, LoginReqs
  <2>2. QED
    BY <1>3, <1>8, <2>1
<1>11. /\ LoginsTold' <= 1
       /\ Hears("903")' => account'
       /\ CapServer => capHeld' \/ (account' /\ LoginsTold' = 0)
  <2>1. \A d \in LoginReps : tells(Req(d)) =>
           LoginsTold' = 1 /\ (Hears("903")' <=> Hears("903") \/ d = "903")
    BY <1>6, LoginTold
  <2>2. ~Hears("903")
    BY <1>6 DEF LoginReps
  <2>3. CASE Serves("CAP_REQ") /\ CapServer
    BY <2>1, <2>2, <2>3 DEF ServeLogin, Serves, LoginReps
  <2>4. CASE Serves("CAP_REQ") /\ ~CapServer
    <3>1. tells(Req("notice"))
      BY <2>4 DEF ServeLogin, Serves
    <3>2. Req("notice") \in Reply /\ Req("notice").cmd \notin LoginReps
      BY Replies DEF LoginReps
    <3>3. LoginsTold' = 0 /\ (Hears("903")' <=> Hears("903"))
      <4>1. LoginsTold' = LoginsTold /\ (Hears("903")' <=> Hears("903"))
        BY <3>1, <3>2, LoginQuietTold
      <4>2. QED
        BY <1>6, <4>1
    <3>4. QED
      BY <2>2, <2>4, <3>3
  <2>5. CASE Serves("AUTHENTICATE_PLAIN")
    <3>1. tells(Req("AUTHENTICATE")) /\ UNCHANGED capHeld
      BY <2>5 DEF ServeLogin, Serves
    <3>2. c = "AUTHENTICATE_PLAIN"
      BY <1>9, <2>5 DEF LoginReqs
    <3>3. CapServer => capHeld
      BY <1>10, <3>2
    <3>4. QED
      BY <2>1, <2>2, <3>1, <3>3 DEF LoginReps
  <2>6. CASE Serves("AUTHENTICATE")
    <3>1. (tells(Req("903")) /\ account') \/ tells(Req("904"))
      BY <2>6 DEF ServeLogin, Serves
    <3>2. UNCHANGED capHeld
      BY <2>6 DEF ServeLogin, Serves
    <3>3. c = "AUTHENTICATE"
      BY <1>9, <2>6 DEF LoginReqs
    <3>4. CapServer => capHeld
      BY <1>10, <3>3
    <3>5. QED
      BY <2>1, <2>2, <3>1, <3>2, <3>4 DEF LoginReps
  <2>7. CASE Serves("CAP_END")
    <3>1. UNCHANGED <<account, toBot>>
      BY <2>7 DEF ServeLogin, Serves
    <3>2. account
      <4>1. Asks("CAP_END")
        BY <2>7, Served
      <4>2. QED
        BY <4>1 DEF LoggingIn
    <3>3. LoginsTold' = 0 /\ (Hears("903")' <=> Hears("903"))
      BY <1>6, <3>1, SameReplies
    <3>4. QED
      BY <2>2, <3>1, <3>2, <3>3
  <2>8. QED
    BY <2>3, <2>4, <2>5, <2>6, <2>7 DEF ServeLogin
<1>12. LoginsAsked' + LoginsTold' <= 1 /\ (LoginsTold' = 0 => LoginsAsked' + LoginsTold' = 0)
  <2>1. \A a, b \in Nat : a = 0 /\ b <= 1 => a + b <= 1 /\ (b = 0 => a + b = 0)
    OBVIOUS
  <2>2. QED
    BY <1>4, <1>6, <1>11, <2>1
<1>13. QED
  BY <1>1, <1>7, <1>8, <1>11, <1>12 DEF LoggingIn, SASL, CapServer

\* What else the server, its services and its users do.
LEMMA ServerElseLogin ==
    ASSUME LoginInv, TypeOK',
           \/ ServeNick \/ ServeServices \/ ServeQuit \/ NickServ \/ GhostDies
           \/ ServeLogin /\ Serves("USER")
           \/ \E n \in Nick : OtherTakes(n) \/ \E b \in Nick : OtherRenames(n, b)
    PROVE  LoggingIn'
<1> USE DEF LoginInv, NickInv, Typed
<1>1. UNCHANGED <<profile, capHeld, welcomed>> /\ (account => account')
  <2>1. CASE ServeNick \/ ServeServices \/ ServeQuit
    BY <2>1 DEF ServeNick, ServeServices, ServeQuit, Serves
  <2>2. CASE NickServ \/ GhostDies
    BY <2>2 DEF NickServ, GhostDies
  <2>3. CASE ServeLogin /\ Serves("USER")
    BY <2>3 DEF ServeLogin, Serves
  <2>4. CASE \E n \in Nick : OtherTakes(n) \/ \E b \in Nick : OtherRenames(n, b)
    <3>1. UNCHANGED <<profile, capHeld, welcomed, account>>
      BY <2>4 DEF OtherTakes, OtherRenames
    <3>2. QED
      BY <3>1
  <2>5. QED
    BY <2>1, <2>2, <2>3, <2>4
<1>2. \/ UNCHANGED toServer
      \/ \E cmd \in {"NICK", "USER", "GHOST", "IDENTIFY", "QUIT"} : Serves(cmd)
  BY DEF ServeNick, ServeServices, ServeQuit, NickServ, GhostDies, ServeLogin, OtherTakes, OtherRenames
<1>3. LoginsAsked' = LoginsAsked /\ \A c \in LoginReqs : Asks(c)' <=> Asks(c)
  <2>1. ASSUME NEW cmd \in {"NICK", "USER", "GHOST", "IDENTIFY", "QUIT"}, Serves(cmd)
        PROVE  LoginsAsked' = LoginsAsked /\ \A c \in LoginReqs : Asks(c)' <=> Asks(c)
    <3>1. cmd \notin LoginReqs
      BY DEF LoginReqs
    <3>2. QED
      BY <2>1, <3>1, LoginQuietServed
  <2>2. QED
    BY <1>2, <2>1, SameRequests
<1>4. UNCHANGED toBot \/ \E l \in Reply : l.cmd \notin LoginReps /\ tells(l)
  <2>1. CASE ServeNick
    <3>1. Head(toServer).nick \in Nick
      BY <2>1, Served, Requests DEF ServeNick
    <3>2. welcomed => serverNick \in Nick
      BY TypesTyped DEF Named, ServerTypes
    <3>3. /\ \A n \in Nick : LET l == [cmd |-> "433", nick |-> n] IN l \in Reply /\ l.cmd \notin LoginReps
          /\ \A a \in Nick, b \in Nick :
                LET l == [cmd |-> "NICK", from |-> a, nick |-> b, own |-> TRUE]
                IN l \in Reply /\ l.cmd \notin LoginReps
      BY Replies DEF LoginReps
    <3>4. QED
      BY <2>1, <3>1, <3>2, <3>3 DEF ServeNick
  <2>2. CASE \E n \in Nick : OtherTakes(n) \/ \E b \in Nick : OtherRenames(n, b)
    <3>1. \A a \in Nick, b \in Nick :
             LET l == [cmd |-> "NICK", from |-> a, nick |-> b, own |-> FALSE]
             IN l \in Reply /\ l.cmd \notin LoginReps
      BY Replies DEF LoginReps
    <3>2. QED
      BY <2>2, <3>1 DEF OtherTakes, OtherRenames
  <2>3. \A c \in {"identified", "refused", "notice", "ERROR"} : Req(c) \in Reply /\ Req(c).cmd \notin LoginReps
    BY Replies DEF LoginReps
  <2>4. CASE ServeServices \/ ServeQuit \/ NickServ \/ GhostDies
    BY <2>3, <2>4 DEF ServeServices, ServeQuit, NickServ, GhostDies
  <2>5. CASE ServeLogin /\ Serves("USER")
    BY <2>5 DEF ServeLogin, Serves
  <2>6. QED
    BY <2>1, <2>2, <2>4, <2>5
<1>5. LoginsTold' = LoginsTold /\ (Hears("903")' <=> Hears("903"))
  BY <1>4, SameReplies, LoginQuietTold
<1>6. (Asks("CAP_END")' <=> Asks("CAP_END")) /\ (Asks("CAP_REQ")' <=> Asks("CAP_REQ"))
  BY <1>3 DEF LoginReqs
<1>7. LoginsAsked' + LoginsTold' = LoginsAsked + LoginsTold
  BY <1>3, <1>5
<1>8. QED
  BY <1>1, <1>5, <1>6, <1>7, LoggingInKept

\* The welcome finds the login done: nothing holds the registration.
LEMMA WelcomeLogin ==
    ASSUME LoginInv, TypeOK', Welcome
    PROVE  LoggingIn'
<1> USE DEF LoginInv, NickInv, Typed
<1> DEFINE l == [cmd |-> "001", nick |-> serverNick]
<1>1. /\ ~welcomed /\ ~capHeld /\ serverNick # NoNick /\ tells(l) /\ ~Asks("CAP_REQ")
      /\ UNCHANGED <<profile, account, toServer>>
  BY DEF Welcome, Asks
<1>2. l \in Reply /\ l.cmd \notin LoginReps
  <2>1. serverNick \in Nick
    BY <1>1, TypesTyped DEF ServerTypes
  <2>2. QED
    BY <2>1, Replies DEF LoginReps
<1> HIDE DEF l
<1>3. LoginsTold' = LoginsTold /\ (Hears("903")' <=> Hears("903"))
  BY <1>1, <1>2, LoginQuietTold
<1>4. LoginsAsked' = LoginsAsked /\ (Asks("CAP_END")' <=> Asks("CAP_END"))
  BY <1>1, SameRequests
<1>5. SASL /\ CapServer => account /\ LoginsAsked + LoginsTold = 0
  BY <1>1 DEF LoggingIn
<1>6. QED
  BY <1>1, <1>3, <1>4, <1>5 DEF LoggingIn, SASL, CapServer

LEMMA LoggingInStep == LoginInv /\ TypeOK' /\ [Next]_vars => LoggingIn'
<1> SUFFICES ASSUME LoginInv, TypeOK', [Next]_vars PROVE LoggingIn'
  OBVIOUS
<1>1. CASE handle_server_line
  BY <1>1, BotLogsIn, BotElseLogin
<1>2. CASE ServeLogin
  BY <1>2, ServerLogsIn, ServerElseLogin
<1>3. CASE UNCHANGED vars
  <2>1. UNCHANGED <<toServer, toBot, profile, capHeld, welcomed, account>>
    BY <1>3 DEF vars, serverVars
  <2>2. QED
    BY <2>1, SameRequests, SameReplies, LoggingInKept DEF LoginInv
<1>4. QED
  BY <1>1, <1>2, <1>3, ThreadsLogin, ServerElseLogin, WelcomeLogin DEF Next, Serve

\* NickServ: asked after the welcome, and right about us.
LEMMA ReaderIdentifies ==
    ASSUME LoginInv, TypeOK', handle_server_line
    PROVE  Identifying'
<1> USE DEF LoginInv, NickInv, Typed
<1>1. UNCHANGED <<profile, services, welcomed, serverNick, account>>
  BY DEF handle_server_line, Read001, ReadCap, ReadSasl, ReadNickTaken, ReadReclaimRefused,
         ReadNotice, ReadNick, Reads, serverVars
<1>2. Hears("identified")' => Hears("identified")
  BY Read DEF handle_server_line, Read001, ReadCap, ReadSasl, ReadNickTaken, ReadReclaimRefused,
              ReadNotice, ReadNick
<1>3. Asks("GHOST")' \/ Asks("IDENTIFY")' => Asks("GHOST") \/ Asks("IDENTIFY") \/ welcomed
  <2>1. CASE Read001
    BY <2>1, Read DEF Read001, Registering
  <2>2. CASE ReadNick
    BY <2>2, NickHeard DEF ReadNick, Registering
  <2>3. CASE ~Read001 /\ ~ReadNick
    <3>1. /\ \A c \in LoginReqs \cup {"QUIT"} :
                Req(c) \in Request /\ Req(c).cmd \notin {"GHOST", "IDENTIFY"}
          /\ \A t \in Temp : NickReq(t) \in Request /\ NickReq(t).cmd \notin {"GHOST", "IDENTIFY"}
      BY Requests, SessionAssumption DEF LoginReqs
    <3>2. UNCHANGED toServer \/ \E r \in Request : r.cmd \notin {"GHOST", "IDENTIFY"} /\ send_raw(r)
      <4>1. CASE ReadNickTaken
        BY <3>1, <4>1 DEF ReadNickTaken
      <4>2. CASE ReadCap \/ ReadSasl
        BY <3>1, <4>2 DEF ReadCap, ReadSasl, _sasl_abort, LoginReqs
      <4>3. CASE ReadReclaimRefused \/ ReadNotice
        BY <4>3 DEF ReadReclaimRefused, ReadNotice
      <4>4. QED
        BY <2>3, <4>1, <4>2, <4>3 DEF handle_server_line
    <3>3. QED
      BY <3>2, SameRequests, Sent DEF send_raw
  <2>4. QED
    BY <2>1, <2>2, <2>3
<1>4. QED
  BY <1>1, <1>2, <1>3 DEF Identifying, SASL

LEMMA ThreadsIdentify ==
    ASSUME LoginInv, ReclaimWakes \/ ReclaimSends \/ OperatorJoins \/ OperatorReclaims
    PROVE  Identifying'
<1> USE DEF LoginInv, NickInv, Typed
<1>1. /\ UNCHANGED <<profile, services, welcomed, serverNick, account, toBot>>
      /\ UNCHANGED toServer \/ send_raw(NickReq(NICK))
  BY DEF ReclaimWakes, ReclaimSends, OperatorJoins, OperatorReclaims, serverVars
<1>2. NickReq(NICK) \in Request /\ NickReq(NICK).cmd = "NICK"
  BY Requests, SessionAssumption
<1>3. (Asks("GHOST")' <=> Asks("GHOST")) /\ (Asks("IDENTIFY")' <=> Asks("IDENTIFY"))
  BY <1>1, <1>2, SameRequests, Sent DEF send_raw
<1>4. Hears("identified")' <=> Hears("identified")
  BY <1>1, SameReplies
<1>5. QED
  BY <1>1, <1>3, <1>4 DEF Identifying, SASL

\* No line of NickServ that we are identified is told.
LEMMA NothingIdentified ==
    ASSUME TypeOK, NEW l \in Reply, l.cmd # "identified", tells(l)
    PROVE  Hears("identified")' <=> Hears("identified")
BY Told

LEMMA ServerIdentifies ==
    ASSUME LoginInv, TypeOK', Serve \/ NickServ \/ GhostDies
    PROVE  Identifying'
<1> USE DEF LoginInv, NickInv, Typed
<1>1. CASE ServeNick
  <2>1. UNCHANGED <<profile, services, welcomed, account>>
    BY <1>1 DEF ServeNick, Serves
  <2>2. /\ (Asks("GHOST")' => Asks("GHOST")) /\ (Asks("IDENTIFY")' => Asks("IDENTIFY"))
        /\ OnlyOurs => Head(toServer).nick = NICK
        /\ Head(toServer).nick \in Nick
    BY <1>1, Served, Requests DEF ServeNick
  <2>3. welcomed => serverNick' \in {serverNick, NICK}
    BY <1>1, <2>2 DEF ServeNick, Registering
  <2>4. Hears("identified")' <=> Hears("identified")
    <3>1. welcomed => serverNick \in Nick
      BY TypesTyped DEF Named, ServerTypes
    <3>2. /\ \A n \in Nick : LET l == [cmd |-> "433", nick |-> n] IN l \in Reply /\ l.cmd # "identified"
          /\ \A a \in Nick, b \in Nick :
                LET l == [cmd |-> "NICK", from |-> a, nick |-> b, own |-> TRUE]
                IN l \in Reply /\ l.cmd # "identified"
      BY Replies
    <3>3. UNCHANGED toBot \/ \E l \in Reply : l.cmd # "identified" /\ tells(l)
      BY <1>1, <2>2, <3>1, <3>2 DEF ServeNick
    <3>4. QED
      BY <3>3, SameReplies, NothingIdentified
  <2>5. QED
    BY <2>1, <2>2, <2>3, <2>4 DEF Identifying, SASL
<1>2. CASE ServeLogin
  <2>1. UNCHANGED <<profile, services, welcomed, serverNick>>
    BY <1>2 DEF ServeLogin, Serves
  <2>2. (Asks("GHOST")' => Asks("GHOST")) /\ (Asks("IDENTIFY")' => Asks("IDENTIFY"))
    BY <1>2, Served DEF ServeLogin
  <2>3. Hears("identified")' <=> Hears("identified")
    <3>1. \A c \in LoginReps \cup {"notice"} : Req(c) \in Reply /\ Req(c).cmd # "identified"
      BY Replies DEF LoginReps
    <3>2. UNCHANGED toBot \/ \E c \in LoginReps \cup {"notice"} : tells(Req(c))
      BY <1>2 DEF ServeLogin, LoginReps
    <3>3. QED
      BY <3>1, <3>2, SameReplies, NothingIdentified
  <2>4. ~SASL /\ account => account'
    <3>1. SUFFICES ASSUME ~SASL, account PROVE account'
      OBVIOUS
    <3>2. \A a, b \in Nat : a + b = 0 => a = 0
      OBVIOUS
    <3>3. LoginsAsked = 0
      BY <3>1, <3>2, Numbers DEF LoggingIn, CountsNumbers
    <3>4. ~Asks("AUTHENTICATE")
      BY <3>3, Over DEF LoginsOver, LoginReqs
    <3>5. ~Serves("AUTHENTICATE")
      BY <3>4, Served
    <3>6. account' = account
      BY <1>2, <3>5, SMTT(60) DEF ServeLogin
    <3>7. QED
      BY <3>1, <3>6
  <2>5. QED
    BY <2>1, <2>2, <2>3, <2>4 DEF Identifying, SASL
<1>3. CASE ServeServices
  <2>1. UNCHANGED <<profile, toBot, welcomed, account, serverNick>>
    BY <1>3 DEF ServeServices, Serves
  <2>2. Asks("GHOST") \/ Asks("IDENTIFY")
    BY <1>3, Served DEF ServeServices
  <2>3. QED
    BY <2>1, <2>2, SameReplies DEF Identifying, SASL
<1>4. CASE ServeQuit
  <2>1. UNCHANGED <<profile, services, welcomed, account, serverNick>> /\ tells(Req("ERROR"))
    BY <1>4 DEF ServeQuit, Serves
  <2>2. (Asks("GHOST")' => Asks("GHOST")) /\ (Asks("IDENTIFY")' => Asks("IDENTIFY"))
    BY <1>4, Served DEF ServeQuit
  <2>3. Req("ERROR") \in Reply /\ Req("ERROR").cmd # "identified"
    BY Replies
  <2>4. Hears("identified")' <=> Hears("identified")
    BY <2>1, <2>3, NothingIdentified
  <2>5. QED
    BY <2>1, <2>2, <2>4 DEF Identifying, SASL
<1>5. CASE Welcome
  <2>1. /\ ~welcomed /\ welcomed' /\ tells([cmd |-> "001", nick |-> serverNick])
        /\ serverNick # NoNick
    BY <1>5 DEF Welcome
  <2>2. serverNick \in Nick
    BY <2>1, TypesTyped DEF ServerTypes
  <2>3. ASSUME NEW n \in Nick PROVE [cmd |-> "001", nick |-> n] \in Reply
    BY DEF Reply
  <2>4. ASSUME NEW l, l = [cmd |-> "001", nick |-> serverNick], tells(l)
        PROVE  Hears("identified")' <=> Hears("identified")
    <3>1. l \in Reply
      BY <2>2, <2>3, <2>4
    <3>2. l.cmd # "identified"
      BY <2>4
    <3>3. QED
      BY <2>4, <3>1, <3>2, NothingIdentified
  <2>5. QED
    BY <2>1, <2>4 DEF Identifying
<1>6. CASE NickServ
  <2>1. /\ UNCHANGED <<profile, toServer, welcomed, serverNick>> /\ welcomed
        /\ account => account'
    BY <1>6 DEF NickServ, Identifying
  <2>2. \/ tells(Req("notice")) \/ tells(Req("refused"))
        \/ tells(Req("identified")) /\ serverNick = NICK /\ account'
    BY <1>6 DEF NickServ
  <2>3. Hears("identified")' => Hears("identified") \/ (serverNick = NICK /\ account')
    BY <2>2, Replies, NothingIdentified
  <2>4. QED
    BY <2>1, <2>3 DEF Identifying, SASL
<1>7. CASE GhostDies
  <2>1. UNCHANGED <<profile, services, toServer, toBot, welcomed, account, serverNick>>
    BY <1>7 DEF GhostDies
  <2>2. QED
    BY <2>1, SameRequests, SameReplies DEF Identifying, SASL
<1>8. QED
  BY <1>1, <1>2, <1>3, <1>4, <1>5, <1>6, <1>7 DEF Serve

LEMMA IdentifyingStep == LoginInv /\ TypeOK' /\ [Next]_vars => Identifying'
<1> SUFFICES ASSUME LoginInv, TypeOK', [Next]_vars PROVE Identifying'
  OBVIOUS
<1>1. CASE \E n \in Nick : OtherTakes(n) \/ \E b \in Nick : OtherRenames(n, b)
  <2>1. UNCHANGED <<profile, services, toServer, welcomed, account, serverNick>>
    BY <1>1 DEF OtherTakes, OtherRenames
  <2>2. \A a \in Nick, b \in Nick :
           LET l == [cmd |-> "NICK", from |-> a, nick |-> b, own |-> FALSE]
           IN l \in Reply /\ l.cmd # "identified"
    BY Replies
  <2>3. UNCHANGED toBot \/ \E l \in Reply : l.cmd # "identified" /\ tells(l)
    BY <1>1, <2>2 DEF OtherTakes, OtherRenames
  <2>4. Hears("identified")' <=> Hears("identified")
    BY <2>3, SameReplies, NothingIdentified DEF LoginInv, NickInv, Typed
  <2>5. QED
    BY <2>1, <2>4, SameRequests DEF LoginInv, Identifying, SASL
<1>2. CASE UNCHANGED vars
  <2>1. UNCHANGED <<toServer, toBot, profile, services, welcomed, serverNick, account>>
    BY <1>2 DEF vars, serverVars
  <2>2. QED
    BY <2>1, SameRequests, SameReplies DEF LoginInv, Identifying, SASL
<1>3. QED
  BY <1>1, <1>2, ReaderIdentifies, ThreadsIdentify, ServerIdentifies DEF Next

-----------------------------------------------------------------------------
(* The startup, and the reclaims.                                          *)

\* The startup was fired logged in, and on our own nick.
Started ==
    /\ startup_fired /\ NICKSERV_PASS /\ (SASL => CapServer) => startedAs.account
    /\ startup_fired /\ NICKSERV_PASS /\ ~sharing => startedAs.nick = NICK

InFlight == sleeping + awake + OursAsked + OursTaken
OneOut   == registered => InFlight <= 1 + operator

SessionInv == LoginInv /\ Started /\ OneOut

\* Fired now, when we are logged in and on our nick, or not now.
LEMMA StartedFires ==
    ASSUME Started, UNCHANGED profile, sharing => sharing',
           \/ UNCHANGED <<startup_fired, startedAs>>
           \/ /\ fire_startup
              /\ NICKSERV_PASS /\ (SASL => CapServer) => account
              /\ NICKSERV_PASS /\ ~sharing => serverNick = NICK
    PROVE  Started'
<1>1. CASE UNCHANGED <<startup_fired, startedAs>>
  BY <1>1 DEF Started, NICKSERV_PASS, SASL, CapServer
<1>2. CASE /\ startedAs' = [nick |-> serverNick, account |-> account]
           /\ NICKSERV_PASS /\ (SASL => CapServer) => account
           /\ NICKSERV_PASS /\ ~sharing => serverNick = NICK
  <2>1. startedAs'.nick = serverNick /\ startedAs'.account = account
    BY <1>2
  <2>2. QED
    BY <1>2, <2>1 DEF Started, NICKSERV_PASS, SASL, CapServer
<1>3. QED
  BY <1>1, <1>2 DEF fire_startup

LEMMA StartedStep == LoginInv /\ Started /\ [Next]_vars => Started'
<1> SUFFICES ASSUME LoginInv, Started, [Next]_vars PROVE Started'
  OBVIOUS
<1> USE DEF LoginInv, NickInv, Typed
<1>1. CASE UNCHANGED <<startup_fired, startedAs, profile>> /\ (sharing => sharing')
  BY <1>1, StartedFires
<1>2. CASE handle_server_line
  <2>1. UNCHANGED <<profile, sharing>>
    BY <1>2 DEF handle_server_line, Read001, ReadCap, ReadSasl, ReadNickTaken, ReadReclaimRefused,
                ReadNotice, ReadNick, Reads, serverVars, boundVars
  <2>2. CASE Read001
    <3>1. Hears("001") /\ welcomed /\ ~registered
      BY <2>2, Read DEF Read001, Registering
    <3>2. SASL /\ CapServer => account
      BY <3>1 DEF LoggingIn
    <3>3. ~ghost_needed /\ ~sharing => serverNick = NICK
      BY <3>1 DEF Registering, Named
    <3>4. \/ UNCHANGED <<startup_fired, startedAs>>
          \/ fire_startup /\ SASL /\ ~ghost_needed
          \/ fire_startup /\ ~NICKSERV_PASS
      BY <2>2 DEF Read001
    <3>5. QED
      BY <2>1, <3>2, <3>3, <3>4, StartedFires
  <2>3. CASE ReadNotice
    <3>1. UNCHANGED <<startup_fired, startedAs>> \/ (Reads("identified") /\ fire_startup)
      BY <2>3 DEF ReadNotice
    <3>2. Reads("identified") => welcomed /\ serverNick = NICK /\ (~SASL => account)
      BY Read DEF Identifying
    <3>3. SASL /\ CapServer /\ welcomed => account
      BY DEF LoggingIn
    <3>4. QED
      BY <2>1, <3>1, <3>2, <3>3, StartedFires
  <2>4. CASE ReadNick
    <3>1. Reads("NICK") /\ Head(toBot) = toBot[1]
      BY <2>4, Shift DEF ReadNick
    <3>2. \/ UNCHANGED <<startup_fired, startedAs>>
          \/ fire_startup /\ SASL /\ toBot[1].nick = NICK
      BY <2>4, <3>1 DEF ReadNick
    <3>3. /\ Own(toBot[1]) => toBot[1].nick = serverNick /\ registered
          /\ ~Own(toBot[1]) => sharing
      BY <3>1, NickHeard
    <3>4. SASL /\ CapServer => account
      BY <3>3 DEF Registering, LoggingIn
    <3>5. QED
      BY <2>1, <3>2, <3>3, <3>4, StartedFires
  <2>5. CASE ReadCap \/ ReadSasl \/ ReadNickTaken \/ ReadReclaimRefused
    <3>1. UNCHANGED <<startup_fired, startedAs>>
      BY <2>5 DEF ReadCap, ReadSasl, ReadNickTaken, ReadReclaimRefused
    <3>2. QED
      BY <1>1, <2>1, <3>1
  <2>6. QED
    BY <1>2, <2>2, <2>3, <2>4, <2>5 DEF handle_server_line
<1>3. CASE ReclaimWakes \/ ReclaimSends \/ OperatorJoins \/ OperatorReclaims
  <2>1. UNCHANGED <<startup_fired, startedAs, profile>> /\ (UNCHANGED sharing \/ sharing')
    BY <1>3 DEF ReclaimWakes, ReclaimSends, OperatorJoins, OperatorReclaims, botVars, serverVars, boundVars
  <2>2. QED
    BY <1>1, <2>1
<1>4. CASE Serve \/ NickServ \/ GhostDies
  <2>1. UNCHANGED <<startup_fired, startedAs, profile, sharing>>
    BY <1>4 DEF Serve, ServeNick, ServeLogin, ServeServices, ServeQuit, Welcome, NickServ, GhostDies,
                Serves, botVars, boundVars
  <2>2. QED
    BY <1>1, <2>1
<1>5. CASE \E n \in Nick : OtherTakes(n) \/ \E b \in Nick : OtherRenames(n, b)
  <2>1. UNCHANGED <<startup_fired, startedAs, profile, sharing>>
    BY <1>5 DEF OtherTakes, OtherRenames, botVars
  <2>2. QED
    BY <1>1, <2>1
<1>6. CASE UNCHANGED vars
  <2>1. UNCHANGED <<startup_fired, startedAs, profile, sharing>>
    BY <1>6 DEF vars, botVars, serverVars, boundVars
  <2>2. QED
    BY <1>1, <2>1
<1>7. QED
  BY <1>2, <1>3, <1>4, <1>5, <1>6 DEF Next

\* Nothing joins what is in flight.
LEMMA OneOutKept ==
    ASSUME TypeOK, TypeOK', OneOut, UNCHANGED <<registered, operator, sleeping, awake>>,
           OursAsked' + OursTaken' <= OursAsked + OursTaken
    PROVE  OneOut'
<1>1. /\ sleeping \in Nat /\ awake \in Nat /\ operator \in Nat
      /\ OursAsked \in Nat /\ OursTaken \in Nat /\ OursAsked' \in Nat /\ OursTaken' \in Nat
  BY TypesTyped, Numbers, NumbersNext DEF BotTypes, BoundTypes, CountsNumbers
<1>2. \A s, w, a, b, c, d, o \in Nat : a + b <= c + d /\ s + w + c + d <= 1 + o => s + w + a + b <= 1 + o
  OBVIOUS
<1>3. QED
  BY <1>1, <1>2 DEF OneOut, InFlight

\* What neither asks for our nick nor refuses it.
LEMMA OursQuiet ==
    ASSUME TypeOK, TypeOK'
    PROVE  /\ \A r \in Request : r.cmd # "NICK" /\ send_raw(r) => OursAsked' = OursAsked
           /\ \A cmd : cmd # "NICK" /\ Serves(cmd) => OursAsked' = OursAsked
           /\ \A l \in Reply : l.cmd # "433" /\ tells(l) => OursTaken' = OursTaken
           /\ \A cmd : cmd # "433" /\ Reads(cmd) => OursTaken' = OursTaken
<1>1. /\ OursAsked \in Nat /\ OursTaken \in Nat /\ OursAsked' \in Nat /\ OursTaken' \in Nat
  BY Numbers, NumbersNext DEF CountsNumbers
<1>2. \A a, b \in Nat : a = b + 0 => a = b
  OBVIOUS
<1>3. ASSUME NEW r \in Request, r.cmd # "NICK", send_raw(r) PROVE OursAsked' = OursAsked
  <2>1. OursAsked' = OursAsked + One(r.cmd = "NICK" /\ r.nick = NICK)
    BY <1>3, Sent DEF send_raw
  <2>2. One(r.cmd = "NICK" /\ r.nick = NICK) = 0
    BY <1>3 DEF One
  <2>3. QED
    BY <1>1, <1>2, <2>1, <2>2
<1>4. ASSUME NEW cmd, cmd # "NICK", Serves(cmd) PROVE OursAsked' = OursAsked
  <2>1. OursAsked = OursAsked' + One(cmd = "NICK" /\ Head(toServer).nick = NICK)
    BY <1>4, Served
  <2>2. One(cmd = "NICK" /\ Head(toServer).nick = NICK) = 0
    BY <1>4 DEF One
  <2>3. QED
    BY <1>1, <1>2, <2>1, <2>2
<1>5. ASSUME NEW l \in Reply, l.cmd # "433", tells(l) PROVE OursTaken' = OursTaken
  <2>1. OursTaken' = OursTaken + One(l.cmd = "433" /\ l.nick = NICK)
    BY <1>5, Told
  <2>2. One(l.cmd = "433" /\ l.nick = NICK) = 0
    BY <1>5 DEF One
  <2>3. QED
    BY <1>1, <1>2, <2>1, <2>2
<1>6. ASSUME NEW cmd, cmd # "433", Reads(cmd) PROVE OursTaken' = OursTaken
  <2>1. OursTaken = OursTaken' + One(cmd = "433" /\ Head(toBot).nick = NICK)
    BY <1>6, Read
  <2>2. One(cmd = "433" /\ Head(toBot).nick = NICK) = 0
    BY <1>6 DEF One
  <2>3. QED
    BY <1>1, <1>2, <2>1, <2>2
<1>7. QED
  BY <1>3, <1>4, <1>5, <1>6

LEMMA ReaderReclaims ==
    ASSUME NickInv, OneOut, TypeOK', handle_server_line
    PROVE  OneOut'
<1> USE DEF NickInv, Typed
<1>1. operator' = operator
  BY DEF handle_server_line, Read001, ReadCap, ReadSasl, ReadNickTaken, ReadReclaimRefused,
         ReadNotice, ReadNick, Reads, boundVars
<1>2. /\ sleeping \in Nat /\ awake \in Nat /\ operator \in Nat
      /\ OursAsked \in Nat /\ OursTaken \in Nat /\ OursAsked' \in Nat /\ OursTaken' \in Nat
  BY TypesTyped, Numbers, NumbersNext DEF BotTypes, BoundTypes, CountsNumbers
<1>3. CASE Read001
  <2>1. Reads("001") /\ ~registered /\ welcomed
    BY <1>3, Read DEF Read001, Registering
  <2>2. sleeping = 0 /\ awake = 0 /\ NicksAsked + NicksTaken + NicksHeld <= 1 /\ NicksHeld = 1
    BY <2>1 DEF Registering, Named, NicksHeld
  <2>3. NicksAsked = 0 /\ NicksTaken = 0
    <3>1. \A a, b \in Nat : a + b + 1 <= 1 => a = 0 /\ b = 0
      OBVIOUS
    <3>2. QED
      BY <2>2, <3>1, Numbers DEF CountsNumbers
  <2>4. OursAsked = 0 /\ OursTaken = 0
    BY <2>3, Counts
  <2>5. OursTaken' = 0
    BY <2>1, <2>4, OursQuiet
  <2>6. OursAsked' = 0
    <3>1. \A c \in {"GHOST", "IDENTIFY"} : Req(c) \in Request /\ Req(c).cmd # "NICK"
      BY Requests
    <3>2. UNCHANGED toServer \/ \E c \in {"GHOST", "IDENTIFY"} : send_raw(Req(c))
      BY <1>3 DEF Read001
    <3>3. OursAsked' = OursAsked
      BY <3>1, <3>2, OursQuiet, SameRequests
    <3>4. QED
      BY <2>4, <3>3
  <2>7. awake' = 0 /\ sleeping' \in {0, 1}
    BY <1>3, <2>2 DEF Read001
  <2>8. \A s, w, a, b, o \in Nat : w = 0 /\ a = 0 /\ b = 0 /\ s \in {0, 1} => s + w + a + b <= 1 + o
    OBVIOUS
  <2>9. sleeping' \in Nat /\ awake' \in Nat
    BY <2>7
  <2>10. QED
    BY <1>1, <1>2, <2>5, <2>6, <2>7, <2>8, <2>9 DEF OneOut, InFlight
<1>4. CASE ReadNickTaken
  BY <1>4 DEF ReadNickTaken, OneOut
<1>5. CASE ReadReclaimRefused
  <2>1. Reads("433") /\ UNCHANGED <<registered, awake, toServer>>
    BY <1>5 DEF ReadReclaimRefused
  <2>2. OursTaken = OursTaken' + One("433" = "433" /\ Head(toBot).nick = NICK)
    BY <2>1, Read
  <2>3. OursAsked' = OursAsked
    BY <2>1, SameRequests
  <2>4. sleeping' = sleeping \/ (sleeping' = sleeping + 1 /\ Head(toBot).nick = NICK)
    BY <1>5 DEF ReadReclaimRefused
  <2>5. sleeping' + OursTaken' <= sleeping + OursTaken /\ sleeping' \in Nat
    <3>1. CASE Head(toBot).nick = NICK
      <4>1. OursTaken = OursTaken' + 1
        BY <2>2, <3>1 DEF One
      <4>2. \A s, z, b, d \in Nat : d = b + 1 /\ (z = s \/ z = s + 1) => z + b <= s + d
        OBVIOUS
      <4>3. sleeping' \in Nat
        BY <1>2, <2>4
      <4>4. QED
        BY <1>2, <2>4, <4>1, <4>2, <4>3
    <3>2. CASE Head(toBot).nick # NICK
      <4>1. OursTaken = OursTaken' + 0
        BY <2>2, <3>2 DEF One
      <4>2. \A s, b, d \in Nat : d = b + 0 => s + b <= s + d
        OBVIOUS
      <4>3. QED
        BY <1>2, <2>4, <3>2, <4>1, <4>2
    <3>3. QED
      BY <3>1, <3>2
  <2>6. \A s, z, w, a, b, d, o \in Nat : z + b <= s + d /\ s + w + a + d <= 1 + o => z + w + a + b <= 1 + o
    OBVIOUS
  <2>7. registered => sleeping' + awake + OursAsked + OursTaken' <= 1 + operator
    BY <1>2, <2>5, <2>6 DEF OneOut, InFlight
  <2>8. QED
    BY <1>1, <2>1, <2>3, <2>7 DEF OneOut, InFlight
<1>6. CASE ReadCap \/ ReadSasl \/ ReadNotice \/ ReadNick
  <2>1. UNCHANGED <<registered, sleeping, awake>>
    BY <1>6 DEF ReadCap, ReadSasl, ReadNotice, ReadNick
  <2>2. \E cmd \in LoginReps \cup {"identified", "refused", "notice", "ERROR", "NICK"} : Reads(cmd)
    BY <1>6 DEF ReadCap, ReadSasl, ReadNotice, ReadNick, LoginReps
  <2>3. OursTaken' = OursTaken
    <3>1. "433" \notin LoginReps \cup {"identified", "refused", "notice", "ERROR", "NICK"}
      BY DEF LoginReps
    <3>2. QED
      BY <2>2, <3>1, OursQuiet
  <2>4. \A c \in LoginReqs \cup {"QUIT", "IDENTIFY"} : Req(c) \in Request /\ Req(c).cmd # "NICK"
    BY Requests DEF LoginReqs
  <2>5. UNCHANGED toServer \/ \E c \in LoginReqs \cup {"QUIT", "IDENTIFY"} : send_raw(Req(c))
    BY <1>6 DEF ReadCap, ReadSasl, ReadNotice, ReadNick, _sasl_abort, LoginReqs
  <2>6. OursAsked' = OursAsked
    BY <2>4, <2>5, OursQuiet, SameRequests
  <2>7. OursAsked' + OursTaken' <= OursAsked + OursTaken
    BY <1>2, <2>3, <2>6
  <2>8. QED
    BY <1>1, <2>1, <2>7, OneOutKept
<1>7. QED
  BY <1>3, <1>4, <1>5, <1>6 DEF handle_server_line

\* A thread wakes, sends; the operator asks too, and is counted.
LEMMA ThreadReclaims ==
    ASSUME NickInv, OneOut, TypeOK', ReclaimWakes \/ ReclaimSends \/ OperatorJoins \/ OperatorReclaims
    PROVE  OneOut'
<1> USE DEF NickInv, Typed
<1>1. /\ sleeping \in Nat /\ awake \in Nat /\ operator \in Nat
      /\ OursAsked \in Nat /\ OursTaken \in Nat /\ OursAsked' \in Nat /\ OursTaken' \in Nat
  BY TypesTyped, Numbers, NumbersNext DEF BotTypes, BoundTypes, CountsNumbers
<1>2. UNCHANGED <<toBot, registered>>
  BY DEF ReclaimWakes, ReclaimSends, OperatorJoins, OperatorReclaims, botVars
<1>3. OursTaken' = OursTaken
  BY <1>2, SameReplies
<1>4. send_raw(NickReq(NICK)) => OursAsked' = OursAsked + 1
  <2>1. NickReq(NICK) \in Request /\ NickReq(NICK).cmd = "NICK" /\ NickReq(NICK).nick = NICK
    BY Requests, SessionAssumption
  <2>2. One(NickReq(NICK).cmd = "NICK" /\ NickReq(NICK).nick = NICK) = 1
    BY <2>1 DEF One
  <2>3. QED
    BY <2>1, <2>2, Sent DEF send_raw
<1>5. SUFFICES ASSUME registered, sleeping + awake + OursAsked + OursTaken <= 1 + operator
               PROVE  sleeping' + awake' + OursAsked' + OursTaken <= 1 + operator'
  BY <1>2, <1>3 DEF OneOut, InFlight
<1>6. CASE ReclaimWakes
  <2>1. /\ sleeping > 0 /\ sleeping' = sleeping - 1 /\ (awake' = awake \/ awake' = awake + 1)
        /\ UNCHANGED <<operator, toServer>>
    BY <1>6 DEF ReclaimWakes, boundVars
  <2>2. OursAsked' = OursAsked
    BY <2>1, SameRequests
  <2>3. \A s, w, v, a, b, o \in Nat :
           s > 0 /\ (v = w \/ v = w + 1) /\ s + w + a + b <= 1 + o => (s - 1) + v + a + b <= 1 + o
    OBVIOUS
  <2>4. awake' \in Nat
    BY <1>1, <2>1
  <2>5. QED
    BY <1>1, <1>5, <2>1, <2>2, <2>3, <2>4
<1>7. CASE ReclaimSends
  <2>1. /\ awake > 0 /\ awake' = awake - 1 /\ UNCHANGED <<operator, sleeping>>
        /\ OursAsked' = OursAsked + 1
    BY <1>4, <1>7 DEF ReclaimSends, boundVars
  <2>2. \A s, w, a, b, o \in Nat :
           w > 0 /\ s + w + a + b <= 1 + o => s + (w - 1) + (a + 1) + b <= 1 + o
    OBVIOUS
  <2>3. QED
    BY <1>1, <1>5, <2>1, <2>2
<1>8. CASE OperatorJoins
  <2>1. operator' = operator + 1 /\ UNCHANGED <<sleeping, awake, toServer>>
    BY <1>8 DEF OperatorJoins, botVars
  <2>2. OursAsked' = OursAsked
    BY <2>1, SameRequests
  <2>3. \A s, w, a, b, o \in Nat : s + w + a + b <= 1 + o => s + w + a + b <= 1 + (o + 1)
    OBVIOUS
  <2>4. QED
    BY <1>1, <1>5, <2>1, <2>2, <2>3
<1>9. CASE OperatorReclaims
  <2>1. /\ operator' = operator + 1 /\ UNCHANGED <<sleeping, awake>>
        /\ OursAsked' = OursAsked + 1
    BY <1>4, <1>9 DEF OperatorReclaims, botVars
  <2>2. \A s, w, a, b, o \in Nat : s + w + a + b <= 1 + o => s + w + (a + 1) + b <= 1 + (o + 1)
    OBVIOUS
  <2>3. QED
    BY <1>1, <1>5, <2>1, <2>2
<1>10. QED
  BY <1>6, <1>7, <1>8, <1>9

LEMMA ServerReclaims ==
    ASSUME NickInv, OneOut, TypeOK', Serve \/ NickServ \/ GhostDies
    PROVE  OneOut'
<1> USE DEF NickInv, Typed
<1>1. UNCHANGED <<registered, operator, sleeping, awake>>
  <2>1. UNCHANGED <<botVars, boundVars>>
    BY DEF Serve, ServeNick, ServeLogin, ServeServices, ServeQuit, Welcome, NickServ, GhostDies, Serves
  <2>2. QED
    BY <2>1 DEF botVars, boundVars
<1>2. OursAsked \in Nat /\ OursTaken \in Nat /\ OursAsked' \in Nat /\ OursTaken' \in Nat
  BY Numbers, NumbersNext DEF CountsNumbers
<1>3. /\ \A c \in LoginReps \cup {"identified", "refused", "notice", "ERROR"} : Req(c) \in Reply /\ Req(c).cmd # "433"
      /\ \A n \in Nick : LET l == [cmd |-> "001", nick |-> n] IN l \in Reply /\ l.cmd # "433"
      /\ \A a \in Nick, b \in Nick :
            LET l == [cmd |-> "NICK", from |-> a, nick |-> b, own |-> TRUE]
            IN l \in Reply /\ l.cmd # "433"
  BY Replies DEF LoginReps
<1>4. CASE ServeNick
  <2> DEFINE n == Head(toServer).nick
  <2>1. n \in Nick /\ OursAsked = OursAsked' + One("NICK" = "NICK" /\ n = NICK)
    BY <1>4, Served, Requests DEF ServeNick
  <2>2. One("NICK" = "NICK" /\ n = NICK) = One(n = NICK) /\ One(n = NICK) \in {0, 1}
    BY DEF One
  <2>3. \/ UNCHANGED toBot
        \/ tells([cmd |-> "433", nick |-> n])
        \/ welcomed /\ tells([cmd |-> "NICK", from |-> serverNick, nick |-> n, own |-> TRUE])
    BY <1>4 DEF ServeNick
  <2> HIDE DEF n
  <2>4. OursTaken' = OursTaken \/ OursTaken' = OursTaken + One(n = NICK)
    <3>1. CASE UNCHANGED toBot
      BY <3>1, SameReplies
    <3>2. ASSUME NEW l, l = [cmd |-> "433", nick |-> n], tells(l)
          PROVE  OursTaken' = OursTaken + One(n = NICK)
      <4>1. l \in Reply /\ l.cmd = "433" /\ l.nick = n
        BY <2>1, <3>2, Replies
      <4>2. OursTaken' = OursTaken + One(l.cmd = "433" /\ l.nick = NICK)
        BY <3>2, <4>1, Told
      <4>3. One(l.cmd = "433" /\ l.nick = NICK) = One(n = NICK)
        BY <4>1 DEF One
      <4>4. QED
        BY <4>2, <4>3
    <3>3. CASE welcomed /\ tells([cmd |-> "NICK", from |-> serverNick, nick |-> n, own |-> TRUE])
      <4>1. serverNick \in Nick
        BY <3>3, TypesTyped DEF Named, ServerTypes
      <4>2. QED
        BY <1>3, <2>1, <3>3, <4>1, OursQuiet
    <3>4. QED
      BY <2>3, <3>1, <3>2, <3>3
  <2>5. \A a, b, c, d, x \in Nat : a = b + x /\ (d = c \/ d = c + x) => b + d <= a + c
    OBVIOUS
  <2>6. One(n = NICK) \in Nat
    BY <2>2
  <2>7. OursAsked' + OursTaken' <= OursAsked + OursTaken
    BY <1>2, <2>1, <2>2, <2>4, <2>5, <2>6
  <2>8. QED
    BY <1>1, <2>7, OneOutKept
<1>5. CASE ServeLogin \/ ServeServices \/ ServeQuit \/ Welcome \/ NickServ \/ GhostDies
  <2>1. \/ UNCHANGED toServer
        \/ \E cmd \in LoginReqs \cup {"USER", "GHOST", "IDENTIFY", "QUIT"} : Serves(cmd)
    BY <1>5 DEF ServeLogin, ServeServices, ServeQuit, Welcome, NickServ, GhostDies, LoginReqs
  <2>2. OursAsked' = OursAsked
    <3>1. "NICK" \notin LoginReqs \cup {"USER", "GHOST", "IDENTIFY", "QUIT"}
      BY DEF LoginReqs
    <3>2. QED
      BY <2>1, <3>1, OursQuiet, SameRequests
  <2>3. OursTaken' = OursTaken
    <3>1. CASE Welcome
      <4>1. tells([cmd |-> "001", nick |-> serverNick]) /\ serverNick \in Nick
        BY <3>1, TypesTyped DEF Welcome, ServerTypes
      <4>2. QED
        BY <1>3, <4>1, OursQuiet
    <3>2. CASE ServeLogin \/ ServeServices \/ ServeQuit \/ NickServ \/ GhostDies
      <4>1. UNCHANGED toBot \/ \E c \in LoginReps \cup {"identified", "refused", "notice", "ERROR"} : tells(Req(c))
        BY <3>2 DEF ServeLogin, ServeServices, ServeQuit, NickServ, GhostDies, LoginReps
      <4>2. QED
        BY <1>3, <4>1, OursQuiet, SameReplies
    <3>3. QED
      BY <1>5, <3>1, <3>2
  <2>4. OursAsked' + OursTaken' <= OursAsked + OursTaken
    BY <1>2, <2>2, <2>3
  <2>5. QED
    BY <1>1, <2>4, OneOutKept
<1>6. QED
  BY <1>4, <1>5 DEF Serve

LEMMA OneOutStep == NickInv /\ OneOut /\ TypeOK' /\ [Next]_vars => OneOut'
<1> SUFFICES ASSUME NickInv, OneOut, TypeOK', [Next]_vars PROVE OneOut'
  OBVIOUS
<1>1. OursAsked \in Nat /\ OursTaken \in Nat
  BY Numbers DEF CountsNumbers, NickInv, Typed
<1>2. CASE \E n \in Nick : OtherTakes(n) \/ \E b \in Nick : OtherRenames(n, b)
  <2>1. UNCHANGED <<registered, operator, sleeping, awake, toServer>>
    BY <1>2 DEF OtherTakes, OtherRenames, botVars
  <2>2. \A a \in Nick, b \in Nick :
           LET l == [cmd |-> "NICK", from |-> a, nick |-> b, own |-> FALSE]
           IN l \in Reply /\ l.cmd # "433"
    BY Replies
  <2>3. UNCHANGED toBot \/ \E l \in Reply : l.cmd # "433" /\ tells(l)
    BY <1>2, <2>2 DEF OtherTakes, OtherRenames
  <2>4. OursTaken' = OursTaken
    BY <2>3, SameReplies, OursQuiet DEF NickInv, Typed
  <2>5. OursAsked' + OursTaken' <= OursAsked + OursTaken
    BY <1>1, <2>1, <2>4, SameRequests
  <2>6. QED
    BY <2>1, <2>5, OneOutKept DEF NickInv, Typed
<1>3. CASE UNCHANGED vars
  <2>1. UNCHANGED <<registered, operator, sleeping, awake, toServer, toBot>>
    BY <1>3 DEF vars, botVars, boundVars
  <2>2. OursAsked' + OursTaken' <= OursAsked + OursTaken
    BY <1>1, <2>1, SameRequests, SameReplies
  <2>3. QED
    BY <2>1, <2>2, OneOutKept DEF NickInv, Typed
<1>4. QED
  BY <1>2, <1>3, ReaderReclaims, ThreadReclaims, ServerReclaims DEF Next

LEMMA SessionInvStep == SessionInv /\ [Next]_vars => SessionInv'
<1> SUFFICES ASSUME SessionInv, [Next]_vars PROVE SessionInv'
  OBVIOUS
<1>1. NickInv' /\ TypeOK'
  BY NickInvStep DEF SessionInv, LoginInv, NickInv, Typed
<1>2. LoggingIn' /\ Identifying'
  BY <1>1, LoggingInStep, IdentifyingStep DEF SessionInv
<1>3. Started' /\ OneOut'
  BY <1>1, StartedStep, OneOutStep DEF SessionInv, LoginInv
<1>4. QED
  BY <1>1, <1>2, <1>3 DEF SessionInv, LoginInv

\* At first one NICK is asked for, and under SASL the CAP REQ before it.
LEMMA FirstCounts ==
    ASSUME NEW S
    PROVE  /\ Count(SaslLines, S) = (IF Req("CAP_REQ") \in S THEN 1 ELSE 0)
                  + (IF NickReq(NICK) \in S THEN 1 ELSE 0) + (IF Req("USER") \in S THEN 1 ELSE 0)
           /\ Count(PlainLines, S) =
                  (IF NickReq(NICK) \in S THEN 1 ELSE 0) + (IF Req("USER") \in S THEN 1 ELSE 0)
<1> DEFINE cap == Req("CAP_REQ")
           nick == NickReq(NICK)
           user == Req("USER")
           s0 == << >>
           s1 == Append(s0, cap)
           s2 == Append(s1, nick)
           t1 == Append(s0, nick)
<1>1. cap \in Request /\ nick \in Request /\ user \in Request
  BY Requests, SessionAssumption DEF LoginReqs
<1>2. s0 \in Seq(Request) /\ Count(s0, S) = 0
  BY CountEmpty
<1>3. \A s \in Seq(Request), r \in Request :
         /\ Append(s, r) \in Seq(Request)
         /\ Count(Append(s, r), S) = Count(s, S) + IF r \in S THEN 1 ELSE 0
  BY AppendProperties, CountAppend
<1>4. SaslLines = Append(s2, user) /\ PlainLines = Append(t1, user)
  BY FirstRequests
<1> HIDE DEF cap, nick, user, s0
<1>5. s1 \in Seq(Request) /\ Count(s1, S) = IF cap \in S THEN 1 ELSE 0
  BY <1>1, <1>2, <1>3
<1>6. t1 \in Seq(Request) /\ Count(t1, S) = IF nick \in S THEN 1 ELSE 0
  BY <1>1, <1>2, <1>3
<1> HIDE DEF s1, t1
<1>7. s2 \in Seq(Request) /\ Count(s2, S) = (IF cap \in S THEN 1 ELSE 0) + (IF nick \in S THEN 1 ELSE 0)
  BY <1>1, <1>3, <1>5
<1> HIDE DEF s2
<1>8. /\ Count(Append(s2, user), S) = Count(s2, S) + IF user \in S THEN 1 ELSE 0
      /\ Count(Append(t1, user), S) = Count(t1, S) + IF user \in S THEN 1 ELSE 0
  BY <1>1, <1>3, <1>6, <1>7
<1>9. QED
  BY <1>4, <1>6, <1>7, <1>8 DEF cap, nick, user

LEMMA SessionInvInit == Init => SessionInv
<1> SUFFICES ASSUME Init PROVE SessionInv
  OBVIOUS
<1>1. /\ registered = FALSE /\ ghost_needed = FALSE /\ sleeping = 0 /\ awake = 0
      /\ startup_fired = FALSE /\ toBot = << >> /\ services = << >> /\ serverNick = NoNick
      /\ capHeld = FALSE /\ welcomed = FALSE /\ sharing = FALSE /\ account = FALSE
  BY DEF Init
<1>2. TypeOK /\ SASL \in BOOLEAN
  BY TypesAtFirst, SessionAssumption DEF Init, SASL
<1>3. toServer = FirstLines
  BY DEF Init, FirstLines, SaslLines, PlainLines
<1>4. /\ Req("CAP_REQ") \in Request /\ Req("CAP_REQ").cmd = "CAP_REQ"
      /\ Req("USER") \in Request /\ Req("USER").cmd = "USER"
      /\ NickReq(NICK) \in Request /\ NickReq(NICK).cmd = "NICK" /\ NickReq(NICK).nick = NICK
  BY Requests, SessionAssumption DEF LoginReqs
<1>5. NicksAsked = 1
  <2> DEFINE S == {r \in Request : r.cmd = "NICK"}
  <2>1. Req("CAP_REQ") \notin S /\ NickReq(NICK) \in S /\ Req("USER") \notin S
    BY <1>4
  <2> HIDE DEF S
  <2>2. Count(SaslLines, S) = 1 /\ Count(PlainLines, S) = 1
    <3>1. /\ Count(SaslLines, S) = (IF Req("CAP_REQ") \in S THEN 1 ELSE 0)
                + (IF NickReq(NICK) \in S THEN 1 ELSE 0) + (IF Req("USER") \in S THEN 1 ELSE 0)
          /\ Count(PlainLines, S) =
                (IF NickReq(NICK) \in S THEN 1 ELSE 0) + (IF Req("USER") \in S THEN 1 ELSE 0)
      BY FirstCounts
    <3>2. /\ (IF Req("CAP_REQ") \in S THEN 1 ELSE 0) = 0
          /\ (IF NickReq(NICK) \in S THEN 1 ELSE 0) = 1
          /\ (IF Req("USER") \in S THEN 1 ELSE 0) = 0
      BY <2>1
    <3>3. QED
      BY <3>1, <3>2
  <2>3. Count(toServer, S) = 1
    BY <1>2, <1>3, <2>2 DEF FirstLines
  <2>4. QED
    BY <2>3 DEF NicksAsked, S
<1>6. LoginsAsked = IF SASL THEN 1 ELSE 0
  <2> DEFINE S == {r \in Request : r.cmd \in LoginReqs}
  <2>1. Req("CAP_REQ") \in S /\ NickReq(NICK) \notin S /\ Req("USER") \notin S
    BY <1>4 DEF LoginReqs
  <2> HIDE DEF S
  <2>2. Count(SaslLines, S) = 1 /\ Count(PlainLines, S) = 0
    <3>1. /\ Count(SaslLines, S) = (IF Req("CAP_REQ") \in S THEN 1 ELSE 0)
                + (IF NickReq(NICK) \in S THEN 1 ELSE 0) + (IF Req("USER") \in S THEN 1 ELSE 0)
          /\ Count(PlainLines, S) =
                (IF NickReq(NICK) \in S THEN 1 ELSE 0) + (IF Req("USER") \in S THEN 1 ELSE 0)
      BY FirstCounts
    <3>2. /\ (IF Req("CAP_REQ") \in S THEN 1 ELSE 0) = 1
          /\ (IF NickReq(NICK) \in S THEN 1 ELSE 0) = 0
          /\ (IF Req("USER") \in S THEN 1 ELSE 0) = 0
      BY <2>1
    <3>3. QED
      BY <3>1, <3>2
  <2>3. Count(toServer, S) = IF SASL THEN 1 ELSE 0
    BY <1>2, <1>3, <2>2 DEF FirstLines
  <2>4. QED
    BY <2>3 DEF LoginsAsked, S
<1>7. NicksTaken = 0 /\ LoginsTold = 0
  BY <1>1, CountEmpty DEF NicksTaken, LoginsTold
<1>8. \A i \in DOMAIN toServer : toServer[i] \in {Req("CAP_REQ"), NickReq(NICK), Req("USER")}
  BY <1>2, <1>3 DEF FirstLines, SaslLines, PlainLines
<1>9. SASL => Asks("CAP_REQ")
  BY <1>3, <1>4 DEF FirstLines, SaslLines, Asks
<1>10. OnlyOurs /\ ~Asks("CAP_END") /\ ~Asks("GHOST") /\ ~Asks("IDENTIFY")
  BY <1>4, <1>8 DEF OnlyOurs, Asks
<1>11. \A c : ~Hears(c)
  BY <1>1 DEF Hears
<1>12. Naming
  BY <1>1 DEF Naming, OneOwn, OwnIsTrue, OthersDiffer, MeKnown
<1>13. NickInv
  BY <1>1, <1>2, <1>5, <1>7, <1>10, <1>11, <1>12
  DEF NickInv, Typed, Named, NickHeld, Registering, NicksHeld
<1>14. LoggingIn /\ Identifying
  BY <1>1, <1>2, <1>6, <1>7, <1>9, <1>10, <1>11 DEF LoggingIn, Identifying
<1>15. Started /\ OneOut
  BY <1>1 DEF Started, OneOut
<1>16. QED
  BY <1>13, <1>14, <1>15 DEF SessionInv, LoginInv

THEOREM AlwaysInSession == Spec => []SessionInv
<1>1. QED
  BY SessionInvInit, SessionInvStep, PTL DEF Spec

\* What the connection starts it starts logged in, wherever there is a
\* password and services to take it: no refusal, retry or late answer gets
\* fire_startup to run, or the server to welcome us, before the login.
THEOREM AlwaysStartedLoggedIn == Spec => []StartedLoggedIn
<1>1. SessionInv => StartedLoggedIn
  BY DEF SessionInv, LoginInv, LoggingIn, Started, StartedLoggedIn, NeverInClear
<1>2. QED
  BY <1>1, AlwaysInSession, PTL

\* ... and on our own nick, while the bot sits in no channel yet.
THEOREM AlwaysStartedOnOurNick == Spec => []StartedOnOurNick
<1>1. SessionInv => StartedOnOurNick
  BY DEF SessionInv, Started, StartedOnOurNick
<1>2. QED
  BY <1>1, AlwaysInSession, PTL

\* `me` is what the server calls us, as soon as what it said is read.
THEOREM AlwaysMeIsServerNick == Spec => []MeIsServerNick
<1>1. ASSUME SessionInv PROVE MeIsServerNick
  <2> DEFINE own == {i \in DOMAIN toBot : toBot[i].cmd = "001" \/ (toBot[i].cmd = "NICK" /\ toBot[i].own)}
  <2>1. \A i \in own : Own(toBot[i]) /\ toBot[i].nick = serverNick
    BY <1>1 DEF SessionInv, LoginInv, NickInv, Naming, OwnIsTrue, Own
  <2>2. \A i, j \in own : i = j
    BY <1>1, <2>1 DEF SessionInv, LoginInv, NickInv, Naming, OneOwn
  <2>3. welcomed /\ own = {} => me = serverNick
    BY <1>1 DEF SessionInv, LoginInv, NickInv, Naming, MeKnown, Own
  <2>4. own # {} => (CHOOSE i \in own : \A j \in own : j <= i) \in own
    <3>1. toBot \in Seq(Reply)
      BY <1>1 DEF SessionInv, LoginInv, NickInv, Typed, TypeOK
    <3>2. \A i \in own : i \in Nat
      BY <3>1
    <3>3. \A i \in own : \A j \in own : j <= i
      BY <2>2, <3>2
    <3>4. QED
      BY <3>3
  <2>5. QED
    BY <2>1, <2>3, <2>4 DEF MeIsServerNick
<1>2. QED
  BY <1>1, AlwaysInSession, PTL

\* One reclaim of the nick is out at most, apart from what the operator sends.
THEOREM AlwaysOneReclaimInFlight == Spec => []OneReclaimInFlight
<1>1. ASSUME SessionInv PROVE OneReclaimInFlight
  <2>1. TypeOK
    BY <1>1 DEF SessionInv, LoginInv, NickInv, Typed
  <2>2. /\ \A i \in DOMAIN toServer : toServer[i] \in Request
        /\ \A i \in DOMAIN toBot : toBot[i] \in Reply
    BY <2>1, TypesTyped DEF QueueTypes
  <2>3. \A r \in Request : r.cmd = "NICK" /\ r.nick = NICK <=> r = NickReq(NICK)
    BY SessionAssumption DEF Request, NickReq
  <2>4. \A l \in Reply : l.cmd = "433" /\ l.nick = NICK <=> l = [cmd |-> "433", nick |-> NICK]
    BY SessionAssumption DEF Reply
  <2>5. {i \in DOMAIN toServer : toServer[i] = NickReq(NICK)}
          = Meets(toServer, {r \in Request : r.cmd = "NICK" /\ r.nick = NICK})
    BY <2>2, <2>3 DEF Meets
  <2>6. {i \in DOMAIN toBot : toBot[i] = [cmd |-> "433", nick |-> NICK]}
          = Meets(toBot, {l \in Reply : l.cmd = "433" /\ l.nick = NICK})
    BY <2>2, <2>4 DEF Meets
  <2>7. /\ OursAsked = Cardinality({i \in DOMAIN toServer : toServer[i] = NickReq(NICK)})
        /\ OursTaken = Cardinality({i \in DOMAIN toBot : toBot[i] = [cmd |-> "433", nick |-> NICK]})
    BY <2>5, <2>6 DEF OursAsked, OursTaken, Count
  <2>8. QED
    BY <1>1, <2>7 DEF SessionInv, OneOut, InFlight, OneReclaimInFlight
<1>2. QED
  BY <1>1, AlwaysInSession, PTL
=============================================================================
