---------------------------- MODULE ClientProofs ----------------------------
(***************************************************************************)
(* The safety of the client's table of texts that wait for an              *)
(* acknowledgement, for any number of clients, of texts, and any size of   *)
(* the table: the inductive invariant of Client and what follows from it.  *)
(***************************************************************************)
EXTENDS Client, DataProofs

(* What travels in the two directions.                                     *)
Requests == ConnectionMsgs \cup StdMsgs

Acks == [type : {"ack_pos", "ack_neg"}, id : 0 .. MaxSent, sock : {-1},
         src : {Blank}, len : {0}, body : {Blank}, retr : 0 .. RetrLimit + 1]

OtherAnswers ==
    [type : {"error", "well_connected", "server_client"}, id : {-1}, sock : {-1},
     src : Names \cup {Blank}, len : {0, 1}, body : Texts \cup {Blank}, retr : {0}]

Answers == Acks \cup OtherAnswers

QueuesInv ==
    /\ slots = [c \in Clients |-> slots[c]]
    /\ up \in [Clients -> Seq(Requests)]
    /\ down \in [Clients -> Seq(Answers)]

(* A client is asked for a pseudo until it has been accepted under one;    *)
(* each code drawn was for a request of its own.                           *)
LoginInv(c) ==
    /\ drawn[c] <= nb[c]
    /\ waiting[c] \/ connected[c] => pseudo[c] # Blank
    /\ ~(waiting[c] /\ connected[c])
    /\ proc[c] = "off" => up[c] = <<>>

(* A text knows its slot, which is one of as many as there were messages:  *)
(* that is why an answer to it is never taken for a wrong one.  Only texts *)
(* make the table grow.                                                    *)
SlotsInv(c) ==
    /\ tot[c] > 0 /\ (tot[c] # InitSlots => connected[c])
    /\ \A i \in 0 .. tot[c] - 1 :
         slots[c][i].type = "std" => slots[c][i].id = i /\ i < nb[c] /\ connected[c]

TakenIn(c) == 0 .. tot[c] - 1 \ FreeIn(c)

RoomInv(c) ==
    /\ Cardinality(TakenIn(c)) <= nb[c]
    /\ nb[c] <= tot[c] \/ tot[c] = InitSlots

(* TextsOnTheirWay, for every id a message could carry.                    *)
TextsOf(i) == {m \in StdMsgs : m.id = i}
AcksOf(i)  == {m \in Acks : m.id = i}
AcksFor(s) == {m \in Acks : m.retr = s.retr + IF m.type = "ack_neg" THEN 1 ELSE 0}

OnItsWay(c, i) ==
    /\ Count(up[c], TextsOf(i)) + Count(down[c], AcksOf(i))
         = IF Awaited(c, i) THEN 1 ELSE 0
    /\ Each(up[c], TextsOf(i), {slots[c][i]})
    /\ Each(down[c], AcksOf(i), AcksFor(slots[c][i]))

WayInv(c) == proc[c] # "gone" => \A i \in Nat : OnItsWay(c, i)

ClientInv(c) == LoginInv(c) /\ SlotsInv(c) /\ RoomInv(c) /\ WayInv(c)

IInv == ClientTypeOK /\ QueuesInv /\ \A c \in Clients : ClientInv(c)
-----------------------------------------------------------------------------
(* The messages                                                            *)

LEMMA StdMsgFields ==
  ASSUME NEW i, NEW p, NEW t, NEW r
  PROVE  /\ StdMsg(i, p, t, r).type = "std" /\ StdMsg(i, p, t, r).id = i
         /\ StdMsg(i, p, t, r).retr = r /\ StdMsg(i, p, t, r).sock = -1
         /\ StdMsg(i, p, t, r).src = p /\ StdMsg(i, p, t, r).body = t
         /\ StdMsg(i, p, t, r).len \in {0, 1}
         /\ \A s : [StdMsg(i, p, t, r) EXCEPT !.retr = s] = StdMsg(i, p, t, s)
BY DEF StdMsg, EmptyMsg

LEMMA StdFields ==
  ASSUME NEW m \in StdMsgs
  PROVE  /\ m.type = "std" /\ m.id \in 0 .. MaxSent /\ m.retr \in 0 .. RetrLimit + 1
         /\ m.sock = -1 /\ m.src \in Names /\ m.body \in Texts /\ m.len \in {0, 1}
         /\ \A s \in 0 .. RetrLimit + 1 :
              /\ [m EXCEPT !.retr = s] \in StdMsgs
              /\ [m EXCEPT !.retr = s].retr = s
              /\ [m EXCEPT !.retr = s].id = m.id
<1>1. PICK i \in 0 .. MaxSent, p \in Names, t \in Texts, r \in 0 .. RetrLimit + 1 :
        m = StdMsg(i, p, t, r)
  BY DEF StdMsgs
<1>2. ASSUME NEW s \in 0 .. RetrLimit + 1
      PROVE  /\ [m EXCEPT !.retr = s] \in StdMsgs
             /\ [m EXCEPT !.retr = s].retr = s
             /\ [m EXCEPT !.retr = s].id = m.id
  <2>1. [m EXCEPT !.retr = s] = StdMsg(i, p, t, s)
    BY <1>1, StdMsgFields
  <2>2. StdMsg(i, p, t, s) \in StdMsgs
    BY DEF StdMsgs
  <2> QED
    BY <1>1, <2>1, <2>2, StdMsgFields
<1> QED
  BY <1>1, <1>2, StdMsgFields

LEMMA ConnectionFields ==
  ASSUME NEW m \in ConnectionMsgs
  PROVE  m.type = "connection" /\ m.sock = -1
<1>1. PICK p \in Names, k \in Codes : m = ConnectionMsg(p, k)
  BY DEF ConnectionMsgs
<1> QED
  BY <1>1 DEF ConnectionMsg, EmptyMsg

LEMMA EmptyFields ==
  /\ EmptyMsg \in EmptySlots
  /\ \A m \in EmptySlots : m.type = "null" /\ m.retr \in 0 .. RetrLimit + 1
<1>1. EmptyMsg = [EmptyMsg EXCEPT !.retr = 0]
  BY DEF EmptyMsg
<1>2. EmptyMsg \in EmptySlots
  BY <1>1 DEF EmptySlots, Garbage
<1>3. ASSUME NEW m \in EmptySlots
      PROVE  m.type = "null" /\ m.retr \in 0 .. RetrLimit + 1
  BY ClientAssumption DEF EmptySlots, Garbage, EmptyMsg
<1> QED
  BY <1>2, <1>3

(* Which messages are texts, and which answers acknowledge one.            *)
LEMMA RequestKinds ==
  ASSUME NEW m \in Requests
  PROVE  /\ m.type \in {"connection", "std"} /\ m.sock = -1
         /\ m.type = "std" <=> m \in StdMsgs
         /\ \A i : m \in TextsOf(i) <=> m.type = "std" /\ m.id = i
<1>1. m.type \in {"connection", "std"} /\ m.sock = -1 /\ (m.type = "std" <=> m \in StdMsgs)
  BY StdFields, ConnectionFields DEF Requests
<1> QED
  BY <1>1 DEF TextsOf

LEMMA AnswerKinds ==
  ASSUME NEW m \in Answers
  PROVE  /\ m.type \in {"ack_pos", "ack_neg"} <=> m \in Acks
         /\ \A i : m \in AcksOf(i) <=> m.type \in {"ack_pos", "ack_neg"} /\ m.id = i
<1>1. m.type \in {"ack_pos", "ack_neg"} <=> m \in Acks
  BY DEF Answers, Acks, OtherAnswers
<1> QED
  BY <1>1 DEF AcksOf

LEMMA AnswersTo ==
  /\ \A m \in StdMsgs :
       /\ PositiveAck(m) \in AcksOf(m.id) /\ PositiveAck(m) \in AcksFor(m)
       /\ m.retr <= RetrLimit =>
            NegativeAck(m) \in AcksOf(m.id) /\ NegativeAck(m) \in AcksFor(m)
       /\ ServerClientMsg(m, -1) \in OtherAnswers
  /\ \A m \in Requests : m.type = "connection" =>
       ErrorMsg(m) \in OtherAnswers /\ WellConnected(m) \in OtherAnswers
  /\ ServerClientMsg([EmptyMsg EXCEPT !.len = 1], -1) \in OtherAnswers
<1> USE ClientAssumption
<1>1. ASSUME NEW m \in StdMsgs
      PROVE  PositiveAck(m) \in AcksOf(m.id) /\ PositiveAck(m) \in AcksFor(m)
  <2>1. PositiveAck(m) \in Acks
    BY StdFields DEF PositiveAck, EmptyMsg, Acks
  <2>2. /\ PositiveAck(m).type = "ack_pos" /\ PositiveAck(m).id = m.id
        /\ PositiveAck(m).retr = m.retr + 0
    BY StdFields DEF PositiveAck, EmptyMsg
  <2> QED
    BY <2>1, <2>2 DEF AcksOf, AcksFor
<1>2. ASSUME NEW m \in StdMsgs, m.retr <= RetrLimit
      PROVE  NegativeAck(m) \in AcksOf(m.id) /\ NegativeAck(m) \in AcksFor(m)
  <2>0. m.retr + 1 \in 0 .. RetrLimit + 1 /\ m.id \in 0 .. MaxSent /\ m.sock = -1
    BY <1>2, StdFields
  <2>1. NegativeAck(m) \in Acks
    BY <2>0 DEF NegativeAck, EmptyMsg, Acks
  <2>2. /\ NegativeAck(m).type = "ack_neg" /\ NegativeAck(m).id = m.id
        /\ NegativeAck(m).retr = m.retr + 1
    BY StdFields DEF NegativeAck, EmptyMsg
  <2> QED
    BY <2>1, <2>2 DEF AcksOf, AcksFor
<1>3. ASSUME NEW m \in StdMsgs PROVE ServerClientMsg(m, -1) \in OtherAnswers
  BY StdFields DEF ServerClientMsg, EmptyMsg, OtherAnswers
<1>4. ASSUME NEW m \in Requests, m.type = "connection"
      PROVE  ErrorMsg(m) \in OtherAnswers /\ WellConnected(m) \in OtherAnswers
  BY RequestKinds DEF ErrorMsg, WellConnected, EmptyMsg, OtherAnswers
<1>5. ServerClientMsg([EmptyMsg EXCEPT !.len = 1], -1) \in OtherAnswers
  BY DEF ServerClientMsg, EmptyMsg, OtherAnswers
<1> QED
  BY <1>1, <1>2, <1>3, <1>4, <1>5
-----------------------------------------------------------------------------
(* A step of one client leaves the others as they are.                     *)
Same(d) ==
    UNCHANGED <<proc[d], pseudo[d], connected[d], waiting[d], slots[d], tot[d],
                nb[d], drawn[d], up[d], down[d]>>

LEMMA SameInv ==
  ASSUME NEW d \in Clients, ClientInv(d), Same(d)
  PROVE  ClientInv(d)'
<1> USE DEF ClientInv, Same
<1>1. LoginInv(d)' /\ SlotsInv(d)'
  BY DEF LoginInv, SlotsInv
<1>2. RoomInv(d)'
  BY DEF RoomInv, FreeIn, TakenIn
<1>3. WayInv(d)'
  <2>1. \A i : Awaited(d, i)' <=> Awaited(d, i)
    BY DEF Awaited
  <2> QED
    BY <2>1 DEF WayInv, OnItsWay
<1> QED
  BY <1>1, <1>2, <1>3

LEMMA OneClient ==
  ASSUME IInv, ClientTypeOK', QueuesInv', NEW c \in Clients, ClientInv(c)',
         \A d \in Clients : d # c => Same(d)
  PROVE  IInv'
<1>1. \A d \in Clients : ClientInv(d)'
  BY SameInv DEF IInv
<1> QED
  BY <1>1 DEF IInv

(* Where the queues and the slots of a client stay, so does what travels.  *)
LEMMA WayStays ==
  ASSUME NEW c \in Clients, WayInv(c), proc'[c] # "gone" => proc[c] # "gone",
         UNCHANGED <<slots[c], tot[c], up[c], down[c]>>
  PROVE  WayInv(c)'
<1>1. \A i : Awaited(c, i)' <=> Awaited(c, i)
  BY DEF Awaited
<1> QED
  BY <1>1 DEF WayInv, OnItsWay

LEMMA TableStays ==
  ASSUME NEW c \in Clients, SlotsInv(c), RoomInv(c),
         UNCHANGED <<slots[c], tot[c], nb[c]>>, connected[c] => connected'[c]
  PROVE  SlotsInv(c)' /\ RoomInv(c)'
BY DEF SlotsInv, RoomInv, FreeIn, TakenIn

(* One more slot is taken, by one more message.                            *)
LEMMA OneMore ==
  ASSUME NEW c \in Clients, tot[c] \in Nat, nb[c] \in Nat, RoomInv(c),
         NEW x, TakenIn(c)' \subseteq TakenIn(c) \cup {x}
  PROVE  Cardinality(TakenIn(c)') <= nb[c] + 1
<1>1. IsFiniteSet(TakenIn(c))
  BY SlotsFinite DEF TakenIn
<1>2. Cardinality(TakenIn(c)) <= nb[c] /\ TakenIn(c)' \in SUBSET (TakenIn(c) \cup {x})
  BY DEF RoomInv
<1> QED
  BY <1>1, <1>2, OneMoreTaken

(* The types of a step of one client.                                      *)
LEMMA OneClientTypes ==
  ASSUME ClientTypeOK, QueuesInv, NEW c \in Clients,
         proc' \in [Clients -> {"off", "on", "gone"}],
         pseudo' \in [Clients -> Names \cup {Blank}],
         connected' \in [Clients -> BOOLEAN], waiting' \in [Clients -> BOOLEAN],
         tot' \in [Clients -> Nat], nb' \in [Clients -> Nat],
         drawn' \in [Clients -> 0 .. MaxTries],
         files' \in [Dirs -> [Names -> Codes \cup {NoCode, Blank}]],
         slots' = [slots EXCEPT ![c] = slots'[c]],
         up' = [up EXCEPT ![c] = up'[c]], down' = [down EXCEPT ![c] = down'[c]],
         slots'[c] \in [0 .. tot'[c] - 1 -> Slot],
         up'[c] \in Seq(Requests), down'[c] \in Seq(Answers),
         \A d \in Clients : d # c => Same(d)
  PROVE  ClientTypeOK' /\ QueuesInv'
<1>1. \A d \in Clients : slots'[d] \in [0 .. tot'[d] - 1 -> Slot]
  <2> TAKE d \in Clients
  <2>1. slots[d] \in [0 .. tot[d] - 1 -> Slot]
    BY DEF ClientTypeOK
  <2> QED
    BY <2>1 DEF Same
<1>2. up' \in [Clients -> Seq(Requests)] /\ down' \in [Clients -> Seq(Answers)]
  BY DEF QueuesInv
<1>3. slots' = [d \in Clients |-> slots'[d]]
  BY DEF QueuesInv
<1>4. \A d \in Clients : up'[d] \in Seq(ConnectionMsgs \cup StdMsgs)
  BY <1>2 DEF Requests
<1> QED
  BY <1>1, <1>2, <1>3, <1>4 DEF ClientTypeOK, QueuesInv

-----------------------------------------------------------------------------
LEMMA InitIInv == ClientInit => IInv
<1> SUFFICES ASSUME ClientInit PROVE IInv
  OBVIOUS
<1> USE ClientAssumption DEF ClientInit
<1>1. \A c \in Clients : \A i \in 0 .. tot[c] - 1 :
        slots[c][i] = EmptyMsg /\ slots[c][i].type = "null"
  BY DEF EmptyMsg
<1>2. ClientTypeOK
  <2>1. \A c \in Clients : slots[c] \in [0 .. tot[c] - 1 -> Slot]
    BY EmptyFields DEF Slot
  <2>2. \A c \in Clients : up[c] \in Seq(ConnectionMsgs \cup StdMsgs)
    OBVIOUS
  <2> QED
    BY <2>1, <2>2 DEF ClientTypeOK
<1>3. QueuesInv
  BY DEF QueuesInv
<1>4. ASSUME NEW c \in Clients PROVE ClientInv(c)
  <2>1. LoginInv(c) /\ SlotsInv(c)
    BY <1>1 DEF LoginInv, SlotsInv
  <2>2. RoomInv(c)
    <3>1. TakenIn(c) = {}
      BY <1>1 DEF FreeIn, TakenIn
    <3>2. Cardinality(TakenIn(c)) = 0
      BY <3>1, FS_EmptySet
    <3>3. nb[c] = 0 /\ tot[c] = InitSlots
      OBVIOUS
    <3> QED
      BY <3>2, <3>3 DEF RoomInv
  <2>3. WayInv(c)
    <3>1. \A i \in Nat : ~Awaited(c, i)
      BY <1>1 DEF Awaited
    <3>2. up[c] = <<>> /\ down[c] = <<>>
      OBVIOUS
    <3> QED
      BY <3>1, <3>2, CountEmpty DEF WayInv, OnItsWay
  <2> QED
    BY <2>1, <2>2, <2>3 DEF ClientInv
<1> QED
  BY <1>2, <1>3, <1>4 DEF IInv

(* The end of a process, with what it has stored by then.                  *)
LEMMA StopIInv ==
  ASSUME IInv, NEW c \in Clients, proc[c] = "on", Stop(c),
         UNCHANGED <<pseudo, connected, waiting, drawn, table, up>>,
         files' \in [Dirs -> [Names -> Codes \cup {NoCode, Blank}]]
  PROVE  IInv'
<1> USE DEF IInv, Stop, table
<1>1. proc' \in [Clients -> {"off", "on", "gone"}] /\ proc'[c] = "gone"
  BY DEF ClientTypeOK
<1>2. ClientTypeOK'
  BY <1>1 DEF ClientTypeOK
<1>3. QueuesInv'
  <2>1. down' \in [Clients -> Seq(Answers)]
    BY DEF QueuesInv
  <2> QED
    BY <2>1 DEF QueuesInv
<1>4. ClientInv(c)'
  <2>1. LoginInv(c)' /\ WayInv(c)'
    BY <1>1 DEF ClientInv, LoginInv, WayInv
  <2>2. SlotsInv(c)' /\ RoomInv(c)'
    BY TableStays DEF ClientInv
  <2> QED
    BY <2>1, <2>2 DEF ClientInv
<1>5. \A d \in Clients : d # c => Same(d)
  BY DEF Same, ClientTypeOK, QueuesInv
<1> QED
  BY <1>2, <1>3, <1>4, <1>5, OneClient

LEMMA StartIInv == \A c \in Clients : IInv /\ Start(c) => IInv'
<1> SUFFICES ASSUME NEW c \in Clients, IInv, Start(c) PROVE IInv'
  OBVIOUS
<1> USE DEF IInv, Start, table
<1>1. proc' \in [Clients -> {"off", "on", "gone"}] /\ proc'[c] = "on" /\ proc[c] = "off"
  BY DEF ClientTypeOK
<1>2. ClientTypeOK' /\ QueuesInv'
  BY <1>1 DEF ClientTypeOK, QueuesInv
<1>3. ClientInv(c)'
  <2>1. LoginInv(c)'
    BY <1>1 DEF ClientInv, LoginInv
  <2>2. SlotsInv(c)' /\ RoomInv(c)' /\ WayInv(c)'
    BY <1>1, TableStays, WayStays DEF ClientInv
  <2> QED
    BY <2>1, <2>2 DEF ClientInv
<1>4. \A d \in Clients : d # c => Same(d)
  BY DEF Same, ClientTypeOK
<1> QED
  BY <1>2, <1>3, <1>4, OneClient
-----------------------------------------------------------------------------
(* Logging in                                                              *)

(* Requests for a connection are no texts: what travels stays.             *)
LEMMA LoginIInv == \A c \in Clients, p \in Names : IInv /\ Login(c, p) => IInv'
<1> SUFFICES ASSUME NEW c \in Clients, NEW p \in Names, IInv, Login(c, p)
             PROVE  IInv'
  OBVIOUS
<1> DEFINE k == CodeFor(c, p)
           m == ConnectionMsg(p, k)
<1>1. /\ proc[c] = "on" /\ pseudo[c] = Blank /\ ~waiting[c] /\ nb[c] < MaxTries
      /\ pseudo' = [pseudo EXCEPT ![c] = p]
      /\ waiting' = [waiting EXCEPT ![c] = TRUE]
      /\ drawn' = [drawn EXCEPT ![c] = IF File(c, p) = NoCode THEN @ + 1 ELSE @]
      /\ files' = [files EXCEPT ![Dir[c]][p] = k]
      /\ slots' = [slots EXCEPT ![c][0] = m]
      /\ nb' = [nb EXCEPT ![c] = @ + 1]
      /\ up' = [up EXCEPT ![c] = Append(@, m)]
      /\ UNCHANGED <<proc, connected, tot, down>> /\ File(c, p) # Blank
  BY DEF Login, RequestLogin, Prompted, Send
<1>2. ClientTypeOK /\ QueuesInv /\ LoginInv(c) /\ SlotsInv(c) /\ RoomInv(c) /\ WayInv(c)
  BY DEF IInv, ClientInv
<1>3. /\ nb[c] \in Nat /\ tot[c] \in Nat /\ drawn[c] \in Nat /\ drawn[c] <= nb[c]
      /\ MaxTries \in Nat /\ tot[c] > 0
  BY <1>2, ClientAssumption DEF ClientTypeOK, LoginInv, SlotsInv
<1>4. Dir[c] \in Dirs /\ File(c, p) \in Codes \cup {NoCode, Blank}
  BY <1>2 DEF Dirs, File, ClientTypeOK
<1>5. k \in Codes
  BY <1>1, <1>3, <1>4 DEF CodeFor, Codes
<1>6. m \in ConnectionMsgs /\ m \in Requests /\ m \in Slot /\ m.type = "connection"
  BY <1>5, ConnectionFields DEF ConnectionMsgs, Requests, Slot
<1> HIDE DEF k, m
<1>7. /\ slots'[c] = [slots[c] EXCEPT ![0] = m] /\ up'[c] = Append(up[c], m)
      /\ nb'[c] = nb[c] + 1 /\ pseudo'[c] = p /\ waiting'[c] = TRUE
      /\ drawn'[c] <= drawn[c] + 1
  BY <1>1, <1>2, <1>3 DEF ClientTypeOK, QueuesInv
<1>8. /\ slots[c] \in [0 .. tot[c] - 1 -> Slot] /\ up[c] \in Seq(Requests)
      /\ \A i \in 0 .. tot[c] - 1 : slots'[c][i] = IF i = 0 THEN m ELSE slots[c][i]
  BY <1>2, <1>3, <1>7 DEF ClientTypeOK, QueuesInv
<1>9. ~connected[c] /\ Blank # p
  BY <1>1, <1>2, ClientAssumption DEF LoginInv
<1>10. \A d \in Clients : d # c => Same(d)
  BY <1>1, <1>2 DEF Same, ClientTypeOK, QueuesInv
<1>11. ClientTypeOK' /\ QueuesInv'
  <2>1. drawn' \in [Clients -> 0 .. MaxTries]
    BY <1>1, <1>2, <1>3 DEF ClientTypeOK
  <2>2. files' \in [Dirs -> [Names -> Codes \cup {NoCode, Blank}]]
    BY <1>1, <1>2, <1>4, <1>5 DEF ClientTypeOK
  <2>3. /\ nb' \in [Clients -> Nat] /\ waiting' \in [Clients -> BOOLEAN]
        /\ pseudo' \in [Clients -> Names \cup {Blank}]
        /\ proc' \in [Clients -> {"off", "on", "gone"}]
        /\ connected' \in [Clients -> BOOLEAN] /\ tot' \in [Clients -> Nat]
    BY <1>1, <1>2 DEF ClientTypeOK
  <2>4. slots'[c] \in [0 .. tot'[c] - 1 -> Slot]
    <3>1. [slots[c] EXCEPT ![0] = m] \in [0 .. tot[c] - 1 -> Slot]
      BY <1>6, <1>8
    <3> QED
      BY <1>1, <1>7, <3>1
  <2>5. up'[c] \in Seq(Requests) /\ down'[c] \in Seq(Answers)
    BY <1>1, <1>2, <1>6, <1>7, <1>8, CountAppend DEF QueuesInv
  <2>6. /\ slots' = [slots EXCEPT ![c] = slots'[c]]
        /\ up' = [up EXCEPT ![c] = up'[c]] /\ down' = [down EXCEPT ![c] = down'[c]]
    BY <1>1, <1>2 DEF QueuesInv
  <2> QED
    BY <1>2, <1>10, <2>1, <2>2, <2>3, <2>4, <2>5, <2>6, OneClientTypes
<1>12. LoginInv(c)'
  BY <1>1, <1>2, <1>3, <1>7, <1>9 DEF LoginInv, ClientTypeOK
<1>13. \A i \in 0 .. tot[c] - 1 : slots[c][i].type # "std" /\ slots'[c][i].type # "std"
  BY <1>2, <1>6, <1>8, <1>9 DEF SlotsInv
<1>14. SlotsInv(c)'
  BY <1>1, <1>2, <1>9, <1>13 DEF SlotsInv
<1>15. RoomInv(c)'
  <2>1. TakenIn(c)' \subseteq TakenIn(c) \cup {0}
    BY <1>1, <1>8 DEF FreeIn, TakenIn
  <2>2. Cardinality(TakenIn(c)') <= nb[c] + 1
    BY <1>2, <1>3, <2>1, OneMore
  <2>3. tot[c] = InitSlots
    BY <1>2, <1>9 DEF SlotsInv
  <2> QED
    BY <1>1, <1>7, <2>2, <2>3 DEF RoomInv
<1>16. WayInv(c)'
  <2>1. \A i \in Nat : ~Awaited(c, i) /\ ~Awaited(c, i)'
    BY <1>1, <1>3, <1>13 DEF Awaited
  <2>2. down'[c] = down[c] /\ down[c] \in Seq(Answers)
    BY <1>1, <1>2 DEF QueuesInv
  <2>3. ASSUME NEW i \in Nat PROVE OnItsWay(c, i)'
    <3>1. /\ Count(up[c], TextsOf(i)) \in Nat /\ Count(down[c], AcksOf(i)) \in Nat
      BY <1>8, <2>2, CountType
    <3>2. OnItsWay(c, i)
      BY <1>1, <1>2 DEF WayInv
    <3>3. Count(up[c], TextsOf(i)) + Count(down[c], AcksOf(i)) = 0
      BY <2>1, <3>2 DEF OnItsWay
    <3>4. Count(up[c], TextsOf(i)) = 0 /\ Count(down[c], AcksOf(i)) = 0
      BY <3>1, <3>3
    <3>5. m \notin TextsOf(i)
      BY <1>6, RequestKinds
    <3>6. Count(up'[c], TextsOf(i)) = 0 /\ up'[c] \in Seq(Requests)
      BY <1>6, <1>7, <1>8, <3>4, <3>5, CountAppend
    <3>7. /\ Each(up'[c], TextsOf(i), {slots'[c][i]})
          /\ Each(down'[c], AcksOf(i), AcksFor(slots'[c][i]))
      BY <2>2, <3>4, <3>6, CountNone
    <3>8. Count(up'[c], TextsOf(i)) + Count(down'[c], AcksOf(i)) = 0
      BY <2>2, <3>4, <3>6
    <3> QED
      BY <2>1, <3>7, <3>8 DEF OnItsWay
  <2> QED
    BY <2>3 DEF WayInv
<1>17. ClientInv(c)'
  BY <1>12, <1>14, <1>15, <1>16 DEF ClientInv
<1> QED
  BY <1>10, <1>11, <1>17, OneClient
-----------------------------------------------------------------------------
(* Saying a text                                                           *)

(* Nothing about a free slot is on its way.                                *)
LEMMA NothingAbout ==
  ASSUME NEW c \in Clients, NEW i \in Nat, QueuesInv, OnItsWay(c, i), ~Awaited(c, i)
  PROVE  /\ Count(up[c], TextsOf(i)) = 0 /\ Count(down[c], AcksOf(i)) = 0
         /\ \A X : Each(up[c], TextsOf(i), X) /\ Each(down[c], AcksOf(i), X)
<1>1. up[c] \in Seq(Requests) /\ down[c] \in Seq(Answers)
  BY DEF QueuesInv
<1>2. Count(up[c], TextsOf(i)) \in Nat /\ Count(down[c], AcksOf(i)) \in Nat
  BY <1>1, CountType
<1>3. Count(up[c], TextsOf(i)) + Count(down[c], AcksOf(i)) = 0
  BY DEF OnItsWay
<1>4. Count(up[c], TextsOf(i)) = 0 /\ Count(down[c], AcksOf(i)) = 0
  BY <1>2, <1>3
<1> QED
  BY <1>1, <1>4, CountNone

(* What is said and sent is on its way; the rest is where it was.          *)
LEMMA SaidIsOnItsWay ==
  ASSUME NEW c \in Clients, NEW i \in Nat, NEW s \in StdMsgs, s.id = i,
         QueuesInv, WayInv(c), proc[c] = "on", ~Awaited(c, i),
         up'[c] = Append(up[c], s), down'[c] = down[c],
         slots'[c][i] = s, i < tot'[c],
         \A j \in Nat : j # i =>
            /\ Awaited(c, j)' <=> Awaited(c, j)
            /\ Awaited(c, j) => slots'[c][j] = slots[c][j]
  PROVE  WayInv(c)'
<1>1. up[c] \in Seq(Requests) /\ down[c] \in Seq(Answers) /\ s \in Requests
  BY DEF QueuesInv, Requests
<1>2. Awaited(c, i)'
  BY StdFields DEF Awaited
<1>3. ASSUME NEW j \in Nat PROVE OnItsWay(c, j)'
  <2>1. OnItsWay(c, j)
    BY DEF WayInv
  <2>2. /\ Count(up'[c], TextsOf(j)) = Count(up[c], TextsOf(j)) + IF i = j THEN 1 ELSE 0
        /\ \A X : Each(up'[c], TextsOf(j), X)
                    <=> Each(up[c], TextsOf(j), X) /\ (i = j => s \in X)
    <3>1. s \in TextsOf(j) <=> i = j
      BY <1>1, StdFields, RequestKinds
    <3> QED
      BY <1>1, <3>1, CountAppend
  <2>3. CASE j = i
    <3>1. /\ Count(up[c], TextsOf(i)) = 0 /\ Count(down[c], AcksOf(i)) = 0
          /\ \A X : Each(up[c], TextsOf(i), X) /\ Each(down[c], AcksOf(i), X)
      BY <2>1, <2>3, NothingAbout
    <3>2. /\ Count(up'[c], TextsOf(j)) = 1 /\ Count(down'[c], AcksOf(j)) = 0
          /\ Each(up'[c], TextsOf(j), {slots'[c][j]})
          /\ Each(down'[c], AcksOf(j), AcksFor(slots'[c][j]))
      BY <2>2, <2>3, <3>1
    <3> QED
      BY <1>2, <2>3, <3>2 DEF OnItsWay
  <2>4. CASE j # i /\ Awaited(c, j)
    <3>1. /\ Count(up[c], TextsOf(j)) + Count(down[c], AcksOf(j)) = 1
          /\ Each(up[c], TextsOf(j), {slots[c][j]})
          /\ Each(down[c], AcksOf(j), AcksFor(slots[c][j]))
      BY <2>1, <2>4 DEF OnItsWay
    <3>2. Count(up[c], TextsOf(j)) \in Nat
      BY <1>1, CountType
    <3>3. Count(up'[c], TextsOf(j)) = Count(up[c], TextsOf(j))
      BY <2>2, <2>4, <3>2
    <3>4. slots'[c][j] = slots[c][j] /\ Awaited(c, j)'
      BY <2>4
    <3>5. Each(up'[c], TextsOf(j), {slots'[c][j]})
      BY <2>2, <2>4, <3>1, <3>4
    <3>6. Each(down'[c], AcksOf(j), AcksFor(slots'[c][j]))
      BY <3>1, <3>4
    <3>7. Count(up'[c], TextsOf(j)) + Count(down'[c], AcksOf(j)) = 1
      BY <3>1, <3>3
    <3> QED
      BY <3>4, <3>5, <3>6, <3>7 DEF OnItsWay
  <2>5. CASE j # i /\ ~Awaited(c, j)
    <3>1. /\ Count(up[c], TextsOf(j)) = 0 /\ Count(down[c], AcksOf(j)) = 0
          /\ \A X : Each(up[c], TextsOf(j), X) /\ Each(down[c], AcksOf(j), X)
      BY <2>1, <2>5, NothingAbout
    <3>2. /\ Count(up'[c], TextsOf(j)) + Count(down'[c], AcksOf(j)) = 0
          /\ Each(up'[c], TextsOf(j), {slots'[c][j]})
          /\ Each(down'[c], AcksOf(j), AcksFor(slots'[c][j]))
      BY <2>2, <2>5, <3>1
    <3> QED
      BY <2>5, <3>2 DEF OnItsWay
  <2> QED
    BY <2>3, <2>4, <2>5
<1> QED
  BY <1>3 DEF WayInv

(* Common to both ways of saying a text: slot i was free.                  *)
LEMMA SaidIInv ==
  ASSUME NEW c \in Clients, IInv, CanTalk(c), NEW i \in Nat, NEW s \in StdMsgs,
         s.id = i, i <= nb[c], ~Awaited(c, i),
         UNCHANGED <<login, down>>,
         up' = [up EXCEPT ![c] = Append(@, s)],
         nb' = [nb EXCEPT ![c] = @ + 1],
         slots' = [slots EXCEPT ![c] = slots'[c]],
         tot' = [tot EXCEPT ![c] = tot'[c]],
         tot'[c] \in Nat, i < tot'[c], tot[c] <= tot'[c],
         nb[c] + 1 <= tot'[c] \/ tot'[c] = InitSlots,
         slots'[c] \in [0 .. tot'[c] - 1 -> Slot], slots'[c][i] = s,
         \A j \in 0 .. tot[c] - 1 : j # i => slots'[c][j] = slots[c][j],
         \A j \in tot[c] .. tot'[c] - 1 : j # i => slots'[c][j].type = "null"
  PROVE  IInv'
<1>1. ClientTypeOK /\ QueuesInv /\ LoginInv(c) /\ SlotsInv(c) /\ RoomInv(c) /\ WayInv(c)
  BY DEF IInv, ClientInv
<1>2. /\ nb[c] \in Nat /\ tot[c] \in Nat /\ drawn[c] \in Nat /\ drawn[c] <= nb[c]
      /\ proc[c] = "on" /\ connected[c] /\ tot[c] > 0
      /\ up[c] \in Seq(Requests) /\ s \in Requests
  BY <1>1, ClientAssumption DEF ClientTypeOK, LoginInv, CanTalk, QueuesInv, Requests, SlotsInv
<1>3. up'[c] = Append(up[c], s) /\ nb'[c] = nb[c] + 1 /\ down'[c] = down[c]
  BY <1>1 DEF ClientTypeOK, QueuesInv
<1>4. \A d \in Clients : d # c => Same(d)
  BY <1>1 DEF Same, ClientTypeOK, QueuesInv, login
<1>5. ClientTypeOK' /\ QueuesInv'
  <2>1. /\ proc' \in [Clients -> {"off", "on", "gone"}]
        /\ pseudo' \in [Clients -> Names \cup {Blank}]
        /\ connected' \in [Clients -> BOOLEAN] /\ waiting' \in [Clients -> BOOLEAN]
        /\ drawn' \in [Clients -> 0 .. MaxTries]
        /\ files' \in [Dirs -> [Names -> Codes \cup {NoCode, Blank}]]
    BY <1>1 DEF ClientTypeOK, login
  <2>2. tot' \in [Clients -> Nat] /\ nb' \in [Clients -> Nat]
    BY <1>1, <1>2 DEF ClientTypeOK
  <2>3. up'[c] \in Seq(Requests) /\ down'[c] \in Seq(Answers)
    BY <1>1, <1>2, <1>3, CountAppend DEF QueuesInv
  <2>4. up' = [up EXCEPT ![c] = up'[c]] /\ down' = [down EXCEPT ![c] = down'[c]]
    BY <1>1 DEF QueuesInv
  <2> QED
    BY <1>1, <1>4, <2>1, <2>2, <2>3, <2>4, OneClientTypes
<1>6. LoginInv(c)'
  BY <1>1, <1>2, <1>3 DEF LoginInv, login
<1>7. SlotsInv(c)'
  <2>1. ASSUME NEW j \in 0 .. tot'[c] - 1, slots'[c][j].type = "std"
        PROVE  slots'[c][j].id = j /\ j < nb'[c]
    <3>1. CASE j = i
      BY <1>2, <1>3, <3>1
    <3>2. CASE j # i
      <4>1. j \in 0 .. tot[c] - 1 /\ slots'[c][j] = slots[c][j]
        BY <1>2, <2>1, <3>2
      <4> QED
        BY <1>1, <1>2, <1>3, <2>1, <4>1 DEF SlotsInv
    <3> QED
      BY <3>1, <3>2
  <2>2. connected'[c]
    BY <1>2 DEF login
  <2>3. tot'[c] > 0
    BY <1>2
  <2> QED
    BY <2>1, <2>2, <2>3 DEF SlotsInv
<1>8. RoomInv(c)'
  <2>1. TakenIn(c)' \subseteq TakenIn(c) \cup {i}
    BY <1>2 DEF TakenIn, FreeIn
  <2>2. Cardinality(TakenIn(c)') <= nb[c] + 1
    BY <1>1, <1>2, <2>1, OneMore
  <2> QED
    BY <1>3, <2>2 DEF RoomInv
<1>9. WayInv(c)'
  <2>1. ASSUME NEW j \in Nat, j # i
        PROVE  /\ Awaited(c, j)' <=> Awaited(c, j)
               /\ Awaited(c, j) => slots'[c][j] = slots[c][j]
    <3>1. ASSUME j < tot[c]
          PROVE  (Awaited(c, j)' <=> Awaited(c, j)) /\ slots'[c][j] = slots[c][j]
      BY <1>2, <2>1, <3>1 DEF Awaited
    <3>2. ASSUME ~(j < tot[c])
          PROVE  ~Awaited(c, j)' /\ ~Awaited(c, j)
      <4>1. ~Awaited(c, j)
        BY <3>2 DEF Awaited
      <4>2. ASSUME j < tot'[c] PROVE slots'[c][j].type = "null"
        <5>1. j \in tot[c] .. tot'[c] - 1
          BY <1>2, <2>1, <3>2, <4>2
        <5> QED
          BY <2>1, <5>1
      <4>3. ~Awaited(c, j)'
        BY <4>2 DEF Awaited
      <4> QED
        BY <4>1, <4>3
    <3>3. j < tot[c] \/ ~(j < tot[c])
      OBVIOUS
    <3> QED
      BY <3>1, <3>2, <3>3
  <2> QED
    BY <1>1, <1>2, <1>3, <2>1, SaidIsOnItsWay
<1>10. ClientInv(c)'
  BY <1>6, <1>7, <1>8, <1>9 DEF ClientInv
<1> QED
  BY <1>4, <1>5, <1>10, OneClient

(* The slot that find_next_msg_id finds is one of the first nb + 1.        *)
LEMMA LowestFree ==
  ASSUME NEW c \in Clients, ClientTypeOK, RoomInv(c),
         NEW i \in FreeIn(c), \A j \in FreeIn(c) : i <= j
  PROVE  i \in Nat /\ i <= nb[c]
<1>1. nb[c] \in Nat /\ tot[c] \in Nat /\ FreeIn(c) \in SUBSET (0 .. tot[c] - 1)
  BY DEF ClientTypeOK, FreeIn
<1>2. i \in Nat /\ i <= Cardinality(TakenIn(c))
  BY <1>1, LowestSlot DEF TakenIn
<1>3. Cardinality(TakenIn(c)) <= nb[c] /\ Cardinality(TakenIn(c)) \in Nat
  BY <1>1, SlotsFinite, FS_CardinalityType DEF RoomInv, TakenIn
<1> QED
  BY <1>1, <1>2, <1>3

LEMMA NullSlots ==
  ASSUME NEW s \in Slot, s.type = "null"
  PROVE  s \in EmptySlots /\ s.retr \in 0 .. RetrLimit + 1
BY StdFields, ConnectionFields, EmptyFields DEF Slot

LEMMA SayIInv ==
  \A c \in Clients : \A i \in 0 .. tot[c] - 1, t \in Texts : IInv /\ Say(c, i, t) => IInv'
<1> SUFFICES ASSUME NEW c \in Clients, NEW i \in 0 .. tot[c] - 1, NEW t \in Texts,
                    IInv, Say(c, i, t)
             PROVE  IInv'
  OBVIOUS
<1> DEFINE s == StdMsg(i, pseudo[c], t, slots[c][i].retr)
<1>1. /\ CanTalk(c) /\ nb[c] # tot[c] /\ i \in FreeIn(c) /\ \A j \in FreeIn(c) : i <= j
      /\ slots' = [slots EXCEPT ![c][i] = s]
      /\ nb' = [nb EXCEPT ![c] = @ + 1]
      /\ up' = [up EXCEPT ![c] = Append(@, slots'[c][i])]
      /\ UNCHANGED <<login, down>> /\ tot' = tot
  BY DEF Say, Send
<1>2. ClientTypeOK /\ QueuesInv /\ RoomInv(c) /\ SlotsInv(c)
  BY DEF IInv, ClientInv
<1>3. i \in Nat /\ i <= nb[c]
  BY <1>1, <1>2, LowestFree
<1>4. /\ nb[c] \in Nat /\ tot[c] \in Nat /\ tot \in [Clients -> Nat]
      /\ slots[c] \in [0 .. tot[c] - 1 -> Slot]
      /\ slots = [d \in Clients |-> slots[d]]
  BY <1>2 DEF ClientTypeOK, QueuesInv
<1>5. slots[c][i].type = "null"
  BY <1>1 DEF FreeIn
<1>6. slots[c][i].retr \in 0 .. RetrLimit + 1
  BY <1>4, <1>5, NullSlots
<1>7. s \in StdMsgs
  <2>1. pseudo[c] \in Names /\ nb[c] < MaxSent
    BY <1>1, <1>2 DEF CanTalk, ClientTypeOK
  <2>2. i \in 0 .. MaxSent
    BY <1>3, <1>4, <2>1, ClientAssumption
  <2> QED
    BY <1>6, <2>1, <2>2 DEF StdMsgs
<1>8. s.id = i
  BY StdMsgFields
<1> HIDE DEF s
<1>9. slots'[c] = [slots[c] EXCEPT ![i] = s]
  BY <1>1, <1>4
<1>10. /\ slots' = [slots EXCEPT ![c] = slots'[c]] /\ slots'[c][i] = s
       /\ slots'[c] \in [0 .. tot'[c] - 1 -> Slot]
       /\ \A j \in 0 .. tot[c] - 1 : j # i => slots'[c][j] = slots[c][j]
  <2>1. s \in Slot
    BY <1>7 DEF Slot
  <2> QED
    BY <1>1, <1>4, <1>9, <2>1
<1>11. up' = [up EXCEPT ![c] = Append(@, s)]
  BY <1>1, <1>10
<1>12. /\ tot' = [tot EXCEPT ![c] = tot'[c]] /\ tot'[c] = tot[c]
       /\ i < tot'[c] /\ tot[c] <= tot'[c]
       /\ nb[c] + 1 <= tot'[c] \/ tot'[c] = InitSlots
  <2>1. nb[c] <= tot[c] \/ tot[c] = InitSlots
    BY <1>2 DEF RoomInv
  <2> QED
    BY <1>1, <1>3, <1>4, <2>1
<1>13. \A j \in tot[c] .. tot'[c] - 1 : j # i => slots'[c][j].type = "null"
  BY <1>4, <1>12
<1>14. ~Awaited(c, i)
  BY <1>5 DEF Awaited
<1> QED
  BY <1>1, <1>3, <1>4, <1>7, <1>8, <1>10, <1>11, <1>12, <1>13, <1>14, SaidIInv

(* The table doubles when as many messages were counted as it has slots.   *)
LEMMA SayGrowingIInv ==
  \A c \in Clients, t \in Texts : IInv /\ SayGrowing(c, t) => IInv'
<1> SUFFICES ASSUME NEW c \in Clients, NEW t \in Texts, IInv, SayGrowing(c, t)
             PROVE  IInv'
  OBVIOUS
<1> DEFINE i == tot[c]
           n == 2 * tot[c]
<1>1. /\ CanTalk(c) /\ nb[c] = tot[c]
      /\ tot' = [tot EXCEPT ![c] = 2 * @]
      /\ nb' = [nb EXCEPT ![c] = @ + 1]
      /\ up' = [up EXCEPT ![c] = Append(@, slots'[c][i])]
      /\ UNCHANGED <<login, down>>
  BY DEF SayGrowing, Send
<1>2. PICK g \in [i .. n - 1 -> EmptySlots] :
        slots' = [slots EXCEPT ![c] =
            [j \in 0 .. n - 1 |-> IF j < tot[c] THEN slots[c][j]
                                  ELSE IF j = tot[c] THEN StdMsg(i, pseudo[c], t, g[j].retr)
                                  ELSE g[j]]]
  BY DEF SayGrowing
<1>3. ClientTypeOK /\ QueuesInv /\ RoomInv(c) /\ SlotsInv(c)
  BY DEF IInv, ClientInv
<1>4. /\ nb[c] \in Nat /\ tot[c] \in Nat /\ tot[c] > 0 /\ tot \in [Clients -> Nat]
      /\ slots[c] \in [0 .. tot[c] - 1 -> Slot]
      /\ slots = [d \in Clients |-> slots[d]]
      /\ i \in i .. n - 1 /\ n \in Nat
  BY <1>3 DEF ClientTypeOK, QueuesInv, SlotsInv
<1> DEFINE s == StdMsg(i, pseudo[c], t, g[i].retr)
<1>5. s \in StdMsgs
  <2>1. pseudo[c] \in Names /\ nb[c] < MaxSent
    BY <1>1, <1>3 DEF CanTalk, ClientTypeOK
  <2>2. i \in 0 .. MaxSent
    BY <1>1, <1>4, <2>1, ClientAssumption
  <2>3. g[i].retr \in 0 .. RetrLimit + 1
    BY <1>4, EmptyFields
  <2> QED
    BY <2>1, <2>2, <2>3 DEF StdMsgs
<1>6. s.id = i
  BY StdMsgFields
<1>7. /\ slots'[c] = [j \in 0 .. n - 1 |-> IF j < tot[c] THEN slots[c][j]
                                           ELSE IF j = tot[c] THEN s ELSE g[j]]
      /\ slots' = [slots EXCEPT ![c] = slots'[c]]
  BY <1>2, <1>4
<1> HIDE DEF s
<1>8. tot'[c] = n /\ tot' = [tot EXCEPT ![c] = tot'[c]]
  BY <1>1, <1>4
<1>9. slots'[c] \in [0 .. tot'[c] - 1 -> Slot]
  <2>1. ASSUME NEW j \in 0 .. n - 1 PROVE slots'[c][j] \in Slot
    <3>1. CASE j < tot[c]
      BY <1>4, <1>7, <3>1
    <3>2. CASE j = tot[c]
      BY <1>4, <1>5, <1>7, <3>2 DEF Slot
    <3>3. CASE j > tot[c]
      BY <1>4, <1>7, <3>3 DEF Slot
    <3> QED
      BY <1>4, <3>1, <3>2, <3>3
  <2> QED
    BY <1>7, <1>8, <2>1
<1>10. slots'[c][i] = s
  BY <1>4, <1>7
<1>11. \A j \in 0 .. tot[c] - 1 : j # i => slots'[c][j] = slots[c][j]
  BY <1>4, <1>7
<1>12. \A j \in tot[c] .. tot'[c] - 1 : j # i => slots'[c][j].type = "null"
  <2> SUFFICES ASSUME NEW j \in tot[c] .. tot'[c] - 1, j # i
               PROVE  slots'[c][j].type = "null"
    OBVIOUS
  <2>1. slots'[c][j] = g[j] /\ g[j] \in EmptySlots
    BY <1>4, <1>7, <1>8
  <2> QED
    BY <2>1, EmptyFields
<1>13. up' = [up EXCEPT ![c] = Append(@, s)]
  BY <1>1, <1>10
<1>14. /\ tot'[c] \in Nat /\ i < tot'[c] /\ tot[c] <= tot'[c]
       /\ i \in Nat /\ i <= nb[c] /\ nb[c] + 1 <= tot'[c]
  BY <1>1, <1>4, <1>8
<1>15. ~Awaited(c, i)
  BY <1>4 DEF Awaited
<1> QED
  BY <1>1, <1>5, <1>6, <1>7, <1>8, <1>9, <1>10, <1>11, <1>12, <1>13, <1>14, <1>15,
     SaidIInv
-----------------------------------------------------------------------------
(* Reading an answer                                                       *)

(* Acknowledgements apart, an answer says nothing about a slot.            *)
LEMMA OtherTaken ==
  ASSUME NEW c \in Clients, QueuesInv, WayInv(c), proc[c] # "gone",
         UNCHANGED <<slots[c], tot[c], up[c]>>,
         down[c] # <<>>, Head(down[c]) \notin Acks, down'[c] = Tail(down[c])
  PROVE  WayInv(c)'
<1>1. up[c] \in Seq(Requests) /\ down[c] \in Seq(Answers)
  BY DEF QueuesInv
<1>2. ASSUME NEW j \in Nat PROVE OnItsWay(c, j)'
  <2>1. OnItsWay(c, j)
    BY DEF WayInv
  <2>2. Head(down[c]) \notin AcksOf(j)
    BY DEF AcksOf
  <2>3. /\ Count(down[c], AcksOf(j)) = Count(down'[c], AcksOf(j)) + 0
        /\ down'[c] \in Seq(Answers)
        /\ \A X : Each(down[c], AcksOf(j), X) => Each(down'[c], AcksOf(j), X)
    BY <1>1, <2>2, CountTail
  <2>4. Count(down'[c], AcksOf(j)) \in Nat
    BY <2>3, CountType
  <2>5. Count(down'[c], AcksOf(j)) = Count(down[c], AcksOf(j))
    BY <2>3, <2>4
  <2>6. Awaited(c, j)' <=> Awaited(c, j)
    BY DEF Awaited
  <2>7. Count(up'[c], TextsOf(j)) + Count(down'[c], AcksOf(j)) = IF Awaited(c, j)' THEN 1 ELSE 0
    BY <2>1, <2>5, <2>6 DEF OnItsWay
  <2>8. /\ Each(up'[c], TextsOf(j), {slots'[c][j]})
        /\ Each(down'[c], AcksOf(j), AcksFor(slots'[c][j]))
    BY <2>1, <2>3 DEF OnItsWay
  <2> QED
    BY <2>7, <2>8 DEF OnItsWay
<1> QED
  BY <1>2 DEF WayInv

(* An acknowledgement finds the text it answers, which is not sent again   *)
(* meanwhile, and no second answer follows it.                             *)
LEMMA HeadAck ==
  ASSUME NEW c \in Clients, IInv, proc[c] = "on", down[c] # <<>>,
         NEW m \in Acks, m = Head(down[c])
  PROVE  /\ m.id \in 0 .. tot[c] - 1 /\ m.id \in Nat /\ m.id < nb[c]
         /\ Awaited(c, m.id) /\ connected[c] /\ ~waiting[c] /\ ~BadAck(c, m)
         /\ slots[c][m.id] \in StdMsgs /\ slots[c][m.id].id = m.id
         /\ Count(up[c], TextsOf(m.id)) = 0
         /\ Count(Tail(down[c]), AcksOf(m.id)) = 0
<1> DEFINE i == m.id
<1>1. /\ QueuesInv /\ SlotsInv(c) /\ LoginInv(c) /\ OnItsWay(c, i)
      /\ m.id \in Nat /\ m.retr \in 0 .. RetrLimit + 1
  BY ClientAssumption DEF IInv, ClientInv, WayInv, Acks
<1>2. /\ up[c] \in Seq(Requests) /\ down[c] \in Seq(Answers) /\ m \in AcksOf(i)
      /\ tot[c] \in Nat /\ nb[c] \in Nat /\ slots[c] \in [0 .. tot[c] - 1 -> Slot]
  BY <1>1 DEF QueuesInv, AcksOf, IInv, ClientTypeOK
<1>3. /\ Count(down[c], AcksOf(i)) = Count(Tail(down[c]), AcksOf(i)) + 1
      /\ Tail(down[c]) \in Seq(Answers)
  BY <1>2, CountTail
<1>4. Count(Tail(down[c]), AcksOf(i)) \in Nat /\ Count(up[c], TextsOf(i)) \in Nat
  BY <1>2, <1>3, CountType
<1>5. Awaited(c, i) \/ ~Awaited(c, i)
  OBVIOUS
<1>6. Count(up[c], TextsOf(i)) + Count(down[c], AcksOf(i)) = IF Awaited(c, i) THEN 1 ELSE 0
  BY <1>1 DEF OnItsWay
<1>7. Awaited(c, i) /\ Count(up[c], TextsOf(i)) + Count(down[c], AcksOf(i)) = 1
  <2>1. ~(Count(up[c], TextsOf(i)) + Count(down[c], AcksOf(i)) = 0)
    BY <1>3, <1>4
  <2> QED
    BY <1>5, <1>6, <2>1
<1>8. Count(up[c], TextsOf(i)) = 0 /\ Count(Tail(down[c]), AcksOf(i)) = 0
  BY <1>3, <1>4, <1>7
<1>9. i \in 0 .. tot[c] - 1 /\ slots[c][i].type = "std"
  BY <1>1, <1>2, <1>7 DEF Awaited
<1>10. slots[c][i].id = i /\ i < nb[c] /\ connected[c] /\ ~waiting[c]
  BY <1>1, <1>9 DEF SlotsInv, LoginInv
<1>11. slots[c][i] \in StdMsgs
  BY <1>2, <1>9, ConnectionFields, EmptyFields DEF Slot
<1>12. ~BadAck(c, m)
  <2>1. slots[c][m.id].type # "null"
    BY <1>9
  <2>2. m.id \in 0 .. nb[c] /\ m.id \notin tot[c] .. nb[c]
    BY <1>1, <1>2, <1>9, <1>10
  <2> QED
    BY <2>1, <2>2 DEF BadAck, Beyond
<1> QED
  BY <1>1, <1>7, <1>8, <1>9, <1>10, <1>11, <1>12

(* Less is taken.                                                          *)
LEMMA NoMore ==
  ASSUME NEW c \in Clients, tot[c] \in Nat, nb[c] \in Nat, RoomInv(c),
         TakenIn(c)' \subseteq TakenIn(c), UNCHANGED <<tot[c], nb[c]>>
  PROVE  RoomInv(c)'
<1>1. IsFiniteSet(0 .. tot[c] - 1) /\ TakenIn(c) \in SUBSET (0 .. tot[c] - 1)
  BY Segment DEF TakenIn
<1>2. IsFiniteSet(TakenIn(c)) /\ TakenIn(c)' \in SUBSET TakenIn(c)
  BY <1>1, FS_Subset
<1>3. Cardinality(TakenIn(c)') <= Cardinality(TakenIn(c)) /\ IsFiniteSet(TakenIn(c)')
  BY <1>2, FS_Subset
<1>4. Cardinality(TakenIn(c)') \in Nat /\ Cardinality(TakenIn(c)) \in Nat
  BY <1>2, <1>3, FS_CardinalityType
<1>5. Cardinality(TakenIn(c)) <= nb[c] /\ (nb[c] <= tot[c] \/ tot[c] = InitSlots)
  BY DEF RoomInv
<1>6. Cardinality(TakenIn(c)') <= nb'[c]
  BY <1>3, <1>4, <1>5
<1> QED
  BY <1>5, <1>6 DEF RoomInv

(* What becomes of the other texts when the acknowledgement of text i is   *)
(* read: nothing.                                                          *)
LEMMA OthersStay ==
  ASSUME NEW c \in Clients, QueuesInv, NEW m \in Acks, m = Head(down[c]), down[c] # <<>>,
         down'[c] = Tail(down[c]), NEW j \in Nat, j # m.id, OnItsWay(c, j),
         tot'[c] = tot[c], j < tot[c] => slots'[c][j] = slots[c][j],
         \/ up'[c] = up[c]
         \/ \E s \in StdMsgs : s.id = m.id /\ up'[c] = Append(up[c], s)
  PROVE  OnItsWay(c, j)'
<1>1. up[c] \in Seq(Requests) /\ down[c] \in Seq(Answers) /\ m \notin AcksOf(j)
  BY DEF QueuesInv, AcksOf
<1>2. /\ Count(down[c], AcksOf(j)) = Count(down'[c], AcksOf(j)) + 0
      /\ down'[c] \in Seq(Answers)
      /\ \A X : Each(down[c], AcksOf(j), X) => Each(down'[c], AcksOf(j), X)
  BY <1>1, CountTail
<1>3. /\ Count(down[c], AcksOf(j)) \in Nat /\ Count(down'[c], AcksOf(j)) \in Nat
      /\ Count(up[c], TextsOf(j)) \in Nat
  BY <1>1, <1>2, CountType
<1>4. /\ Count(up'[c], TextsOf(j)) = Count(up[c], TextsOf(j))
      /\ up'[c] \in Seq(Requests)
      /\ \A X : Each(up[c], TextsOf(j), X) => Each(up'[c], TextsOf(j), X)
  <2>1. CASE up'[c] = up[c]
    BY <1>1, <2>1
  <2>2. ASSUME NEW s \in StdMsgs, s.id = m.id, up'[c] = Append(up[c], s)
        PROVE  <1>4!:
    <3>1. s \notin TextsOf(j) /\ s \in Requests
      BY <2>2 DEF TextsOf, Requests
    <3>2. /\ Count(up'[c], TextsOf(j)) = Count(up[c], TextsOf(j)) + 0
          /\ up'[c] \in Seq(Requests)
          /\ \A X : Each(up[c], TextsOf(j), X) => Each(up'[c], TextsOf(j), X)
      BY <1>1, <2>2, <3>1, CountAppend
    <3> QED
      BY <1>3, <3>2
  <2> QED
    BY <2>1, <2>2
<1>5. Awaited(c, j)' <=> Awaited(c, j)
  BY DEF Awaited
<1>6. Count(up'[c], TextsOf(j)) + Count(down'[c], AcksOf(j)) = IF Awaited(c, j)' THEN 1 ELSE 0
  <2>1. Count(up[c], TextsOf(j)) + Count(down[c], AcksOf(j)) = IF Awaited(c, j) THEN 1 ELSE 0
    BY DEF OnItsWay
  <2>2. Count(down'[c], AcksOf(j)) = Count(down[c], AcksOf(j))
    BY <1>2, <1>3
  <2> QED
    BY <1>4, <1>5, <2>1, <2>2
<1>7. /\ Each(up'[c], TextsOf(j), {slots'[c][j]})
      /\ Each(down'[c], AcksOf(j), AcksFor(slots'[c][j]))
  <2>1. CASE j < tot[c]
    BY <1>2, <1>4, <2>1 DEF OnItsWay
  <2>2. CASE ~(j < tot[c])
    <3>1. ~Awaited(c, j)
      BY <2>2 DEF Awaited
    <3>2. Count(up[c], TextsOf(j)) = 0 /\ Count(down[c], AcksOf(j)) = 0
      BY <3>1, NothingAbout
    <3>3. Count(up'[c], TextsOf(j)) = 0 /\ Count(down'[c], AcksOf(j)) = 0
      BY <1>2, <1>3, <1>4, <3>2
    <3> QED
      BY <1>2, <1>4, <3>3, CountNone
  <2> QED
    BY <2>1, <2>2
<1> QED
  BY <1>6, <1>7 DEF OnItsWay

QueuesOf(c) ==
    /\ slots' = [slots EXCEPT ![c] = slots'[c]]
    /\ up' = [up EXCEPT ![c] = up'[c]]
    /\ down' = [down EXCEPT ![c] = down'[c]]

(* An acknowledgement is read: its slot is freed, or the text sent again.  *)
LEMMA AckIInv ==
  ASSUME NEW c \in Clients, IInv, proc[c] = "on", down[c] # <<>>,
         NEW m \in Acks, m = Head(down[c]),
         UNCHANGED <<login, tot, nb>>, QueuesOf(c), down'[c] = Tail(down[c]),
         NEW s, slots'[c] = [slots[c] EXCEPT ![m.id] = s],
         \/ s = EmptyMsg /\ up'[c] = up[c]
         \/ s \in StdMsgs /\ s.id = m.id /\ up'[c] = Append(up[c], s)
  PROVE  IInv'
<1> DEFINE i == m.id
<1>1. /\ ClientTypeOK /\ QueuesInv /\ LoginInv(c) /\ SlotsInv(c) /\ RoomInv(c) /\ WayInv(c)
  BY DEF IInv, ClientInv
<1>2. /\ i \in 0 .. tot[c] - 1 /\ i \in Nat /\ i < nb[c] /\ Awaited(c, i)
      /\ connected[c] /\ slots[c][i] \in StdMsgs
      /\ Count(up[c], TextsOf(i)) = 0 /\ Count(Tail(down[c]), AcksOf(i)) = 0
  BY HeadAck
<1>3. /\ tot[c] \in Nat /\ nb[c] \in Nat /\ slots[c] \in [0 .. tot[c] - 1 -> Slot]
      /\ up[c] \in Seq(Requests) /\ down[c] \in Seq(Answers)
      /\ s \in Slot /\ (s \in StdMsgs => s \in Requests)
  BY <1>1, EmptyFields DEF ClientTypeOK, QueuesInv, Slot, Requests
<1>4. /\ slots'[c] = [slots[c] EXCEPT ![i] = s]
      /\ slots' = [slots EXCEPT ![c] = slots'[c]]
  BY DEF QueuesOf
<1>5. /\ slots'[c] \in [0 .. tot[c] - 1 -> Slot] /\ slots'[c][i] = s
      /\ \A j \in 0 .. tot[c] - 1 : j # i => slots'[c][j] = slots[c][j]
  BY <1>2, <1>3, <1>4
<1>6. tot' = tot /\ nb' = nb /\ proc'[c] = "on" /\ connected' = connected
  BY DEF login
<1>7. \/ s = EmptyMsg /\ up'[c] = up[c]
      \/ s \in StdMsgs /\ s.id = i /\ up'[c] = Append(up[c], s)
  OBVIOUS
<1>8. up'[c] \in Seq(Requests) /\ down'[c] \in Seq(Answers)
  <2>1. Tail(down[c]) \in Seq(Answers)
    BY <1>3, CountTail
  <2>2. up'[c] \in Seq(Requests)
    <3>1. CASE up'[c] = up[c]
      BY <1>3, <3>1
    <3>2. CASE s \in StdMsgs /\ up'[c] = Append(up[c], s)
      BY <1>3, <3>2, CountAppend
    <3> QED
      BY <1>7, <3>1, <3>2
  <2> QED
    BY <1>3, <2>1, <2>2
<1>9. \A d \in Clients : d # c => Same(d)
  BY <1>1 DEF Same, ClientTypeOK, QueuesInv, QueuesOf, login
<1>10. ClientTypeOK' /\ QueuesInv'
  <2>1. /\ proc' \in [Clients -> {"off", "on", "gone"}]
        /\ pseudo' \in [Clients -> Names \cup {Blank}]
        /\ connected' \in [Clients -> BOOLEAN] /\ waiting' \in [Clients -> BOOLEAN]
        /\ drawn' \in [Clients -> 0 .. MaxTries]
        /\ files' \in [Dirs -> [Names -> Codes \cup {NoCode, Blank}]]
        /\ tot' \in [Clients -> Nat] /\ nb' \in [Clients -> Nat]
    BY <1>1 DEF ClientTypeOK, login
  <2>2. up' = [up EXCEPT ![c] = up'[c]] /\ down' = [down EXCEPT ![c] = down'[c]]
    BY DEF QueuesOf
  <2>3. slots'[c] \in [0 .. tot'[c] - 1 -> Slot]
    BY <1>5, <1>6
  <2> QED
    BY <1>1, <1>4, <1>8, <1>9, <2>1, <2>2, <2>3, OneClientTypes
<1>11. LoginInv(c)'
  BY <1>1, <1>6 DEF LoginInv, login
<1>12. s.type = "null" \/ (s.type = "std" /\ s.id = i)
  BY <1>7, EmptyFields, StdFields
<1>13. SlotsInv(c)'
  <2>1. ASSUME NEW j \in 0 .. tot[c] - 1, slots'[c][j].type = "std"
        PROVE  slots'[c][j].id = j /\ j < nb[c]
    <3>1. CASE j = i
      BY <1>2, <1>5, <1>12, <2>1, <3>1
    <3>2. CASE j # i
      BY <1>1, <1>5, <2>1, <3>2 DEF SlotsInv
    <3> QED
      BY <3>1, <3>2
  <2>2. tot[c] > 0 /\ connected'[c]
    BY <1>1, <1>2, <1>6 DEF SlotsInv
  <2> QED
    BY <1>6, <2>1, <2>2 DEF SlotsInv
<1>14. RoomInv(c)'
  <2>1. slots[c][i].type = "std"
    BY <1>2, StdFields
  <2>2. TakenIn(c)' \subseteq TakenIn(c)
    BY <1>5, <1>6, <2>1 DEF TakenIn, FreeIn
  <2> QED
    BY <1>1, <1>3, <1>6, <2>2, NoMore
<1>15. WayInv(c)'
  <2>1. ASSUME NEW j \in Nat, j # i PROVE OnItsWay(c, j)'
    <3>1. OnItsWay(c, j)
      BY <1>1 DEF WayInv
    <3>2. j < tot[c] => slots'[c][j] = slots[c][j]
      <4>1. j < tot[c] => j \in 0 .. tot[c] - 1
        BY <1>3
      <4> QED
        BY <1>5, <2>1, <4>1
    <3>3. up'[c] = up[c] \/ \E t \in StdMsgs : t.id = i /\ up'[c] = Append(up[c], t)
      BY <1>7
    <3> QED
      BY <1>1, <1>3, <1>6, <2>1, <3>1, <3>2, <3>3, OthersStay
  <2>2. OnItsWay(c, i)'
    <3>1. Count(down'[c], AcksOf(i)) = 0 /\ \A X : Each(down'[c], AcksOf(i), X)
      BY <1>2, <1>3, <1>8, CountNone
    <3>2. CASE s = EmptyMsg /\ up'[c] = up[c]
      <4>1. ~Awaited(c, i)'
        BY <1>5, <3>2, EmptyFields DEF Awaited
      <4>2. Count(up'[c], TextsOf(i)) = 0 /\ \A X : Each(up'[c], TextsOf(i), X)
        BY <1>2, <1>8, <3>2, CountNone
      <4>3. Count(up'[c], TextsOf(i)) + Count(down'[c], AcksOf(i)) = 0
        BY <3>1, <4>2
      <4> QED
        BY <3>1, <4>1, <4>2, <4>3 DEF OnItsWay
    <3>3. CASE s \in StdMsgs /\ s.id = i /\ up'[c] = Append(up[c], s)
      <4>1. Awaited(c, i)'
        BY <1>2, <1>3, <1>5, <1>6, <3>3, StdFields DEF Awaited
      <4>2. s \in TextsOf(i) /\ s \in Requests
        BY <1>3, <3>3 DEF TextsOf
      <4>3. \A X : Each(up[c], TextsOf(i), X)
        BY <1>2, <1>3, CountNone
      <4>4. Count(up'[c], TextsOf(i)) = 0 + 1 /\ Each(up'[c], TextsOf(i), {s})
        BY <1>2, <1>3, <3>3, <4>2, <4>3, CountAppend
      <4>5. Count(up'[c], TextsOf(i)) + Count(down'[c], AcksOf(i)) = 1
        BY <3>1, <4>4
      <4>6. /\ Each(up'[c], TextsOf(i), {slots'[c][i]})
            /\ Each(down'[c], AcksOf(i), AcksFor(slots'[c][i]))
        BY <1>5, <3>1, <4>4
      <4> HIDE DEF i
      <4> QED
        BY <4>1, <4>5, <4>6 DEF OnItsWay
    <3> QED
      BY <1>7, <3>2, <3>3
  <2> QED
    BY <2>1, <2>2 DEF WayInv
<1>16. ClientInv(c)'
  BY <1>11, <1>13, <1>14, <1>15 DEF ClientInv
<1> QED
  BY <1>9, <1>10, <1>16, OneClient

(* Any other answer changes at most where the login stands.                *)
LEMMA OtherIInv ==
  ASSUME NEW c \in Clients, IInv, proc[c] = "on", down[c] # <<>>,
         Head(down[c]) \notin Acks,
         down' = [down EXCEPT ![c] = Tail(@)],
         UNCHANGED <<proc, drawn, table, up>>,
         pseudo' \in [Clients -> Names \cup {Blank}],
         connected' \in [Clients -> BOOLEAN], waiting' \in [Clients -> BOOLEAN],
         files' \in [Dirs -> [Names -> Codes \cup {NoCode, Blank}]],
         \A d \in Clients : d # c => UNCHANGED <<pseudo[d], connected[d], waiting[d]>>,
         waiting'[c] \/ connected'[c] => pseudo'[c] # Blank,
         ~(waiting'[c] /\ connected'[c]), connected[c] => connected'[c]
  PROVE  IInv'
<1>1. ClientTypeOK /\ QueuesInv /\ LoginInv(c) /\ SlotsInv(c) /\ RoomInv(c) /\ WayInv(c)
  BY DEF IInv, ClientInv
<1>2. down[c] \in Seq(Answers) /\ down'[c] = Tail(down[c])
  BY <1>1 DEF QueuesInv
<1>3. down'[c] \in Seq(Answers)
  BY <1>2, CountTail
<1>4. \A d \in Clients : d # c => Same(d)
  BY <1>1 DEF Same, QueuesInv, table
<1>5. ClientTypeOK' /\ QueuesInv'
  <2>1. /\ slots' = slots /\ tot' = tot /\ nb' = nb /\ up' = up /\ proc' = proc /\ drawn' = drawn
    BY DEF table
  <2>2. ClientTypeOK'
    BY <1>1, <2>1 DEF ClientTypeOK
  <2>3. down' \in [Clients -> Seq(Answers)]
    BY <1>1, <1>3 DEF QueuesInv
  <2> QED
    BY <1>1, <2>1, <2>2, <2>3 DEF QueuesInv
<1>6. LoginInv(c)'
  BY <1>1 DEF LoginInv, table
<1>7. SlotsInv(c)' /\ RoomInv(c)'
  BY <1>1, TableStays DEF table
<1>8. WayInv(c)'
  BY <1>1, <1>2, OtherTaken DEF table
<1> QED
  BY <1>4, <1>5, <1>6, <1>7, <1>8, OneClient DEF ClientInv

LEMMA OnMsgIInv == \A c \in Clients : IInv /\ OnMsg(c) => IInv'
<1> SUFFICES ASSUME NEW c \in Clients, IInv, OnMsg(c) PROVE IInv'
  OBVIOUS
<1>1. PICK m \in Next1(c) : \/ OnRefusal(c, m) \/ OnWelcome(c, m) \/ OnNegativeAck(c, m)
                            \/ OnPositiveAck(c, m) \/ OnOther(c, m)
  BY DEF OnMsg
<1>2. proc[c] = "on" /\ down[c] # <<>> /\ m = Head(down[c])
  BY DEF Next1
<1>3. ClientTypeOK /\ QueuesInv /\ LoginInv(c) /\ SlotsInv(c)
  BY DEF IInv, ClientInv
<1>4. m \in Answers /\ (m \in Acks <=> m.type \in {"ack_pos", "ack_neg"})
  BY <1>2, <1>3, CountTail, AnswerKinds DEF QueuesInv
<1>5. /\ pseudo \in [Clients -> Names \cup {Blank}] /\ connected \in [Clients -> BOOLEAN]
      /\ waiting \in [Clients -> BOOLEAN]
      /\ files \in [Dirs -> [Names -> Codes \cup {NoCode, Blank}]]
  BY <1>3 DEF ClientTypeOK
<1>6. CASE OnRefusal(c, m)
  <2>1. /\ m \notin Acks /\ waiting[c] /\ ~connected[c]
        /\ UNCHANGED <<proc, connected, drawn, table, up>>
        /\ down' = [down EXCEPT ![c] = Tail(@)]
        /\ files' = [files EXCEPT ![Dir[c]][pseudo[c]] = NoCode]
        /\ pseudo' = [pseudo EXCEPT ![c] = Blank]
        /\ waiting' = [waiting EXCEPT ![c] = FALSE]
    BY <1>3, <1>4, <1>6 DEF OnRefusal, Take, LoginInv
  <2>2. files' \in [Dirs -> [Names -> Codes \cup {NoCode, Blank}]]
    BY <1>5, <2>1
  <2>3. /\ pseudo' \in [Clients -> Names \cup {Blank}] /\ waiting' \in [Clients -> BOOLEAN]
        /\ ~waiting'[c] /\ ~connected'[c] /\ connected' = connected
        /\ \A d \in Clients : d # c => UNCHANGED <<pseudo[d], connected[d], waiting[d]>>
    BY <1>5, <2>1
  <2> QED
    BY <1>2, <1>5, <2>1, <2>2, <2>3, OtherIInv
<1>7. CASE OnWelcome(c, m)
  <2>1. /\ m \notin Acks /\ waiting[c] /\ pseudo[c] # Blank
        /\ UNCHANGED <<proc, pseudo, drawn, files, table, up>>
        /\ down' = [down EXCEPT ![c] = Tail(@)]
        /\ connected' = [connected EXCEPT ![c] = TRUE]
        /\ waiting' = [waiting EXCEPT ![c] = FALSE]
    BY <1>3, <1>4, <1>7 DEF OnWelcome, Take, LoginInv
  <2>2. /\ connected' \in [Clients -> BOOLEAN] /\ waiting' \in [Clients -> BOOLEAN]
        /\ ~waiting'[c] /\ connected'[c] /\ pseudo'[c] # Blank
        /\ \A d \in Clients : d # c => UNCHANGED <<pseudo[d], connected[d], waiting[d]>>
    BY <1>5, <2>1
  <2> QED
    BY <1>2, <1>5, <2>1, <2>2, OtherIInv
<1>8. CASE OnNegativeAck(c, m)
  <2>1. /\ m \in Acks /\ UNCHANGED <<login, tot, nb>>
        /\ down' = [down EXCEPT ![c] = Tail(@)]
        /\ slots' = [slots EXCEPT ![c][m.id].retr = m.retr]
        /\ up' = [up EXCEPT ![c] = Append(@, slots'[c][m.id])]
    BY <1>4, <1>8 DEF OnNegativeAck, Acked, Take, Send
  <2> DEFINE s == [slots[c][m.id] EXCEPT !.retr = m.retr]
  <2>2. /\ slots[c][m.id] \in StdMsgs /\ slots[c][m.id].id = m.id
        /\ m.id \in 0 .. tot[c] - 1 /\ m.retr \in 0 .. RetrLimit + 1
    BY <1>2, <2>1, HeadAck DEF Acks
  <2>3. s \in StdMsgs /\ s.id = m.id
    BY <2>2, StdFields
  <2>4. slots[c] \in [0 .. tot[c] - 1 -> Slot] /\ slots = [d \in Clients |-> slots[d]]
    BY <1>3 DEF ClientTypeOK, QueuesInv
  <2>5. slots'[c] = [slots[c] EXCEPT ![m.id] = s]
    BY <2>1, <2>4
  <2>6. slots'[c][m.id] = s
    BY <2>2, <2>4, <2>5
  <2>7. QueuesOf(c) /\ up'[c] = Append(up[c], s) /\ down'[c] = Tail(down[c])
    BY <1>3, <2>1, <2>6 DEF QueuesInv, QueuesOf
  <2>8. m \in Acks /\ UNCHANGED <<login, tot, nb>>
    BY <2>1
  <2> HIDE DEF s
  <2> QED
    BY <1>2, <2>3, <2>5, <2>7, <2>8, AckIInv
<1>9. CASE OnPositiveAck(c, m)
  <2>1. /\ m \in Acks /\ UNCHANGED <<login, tot, nb>> /\ up' = up
        /\ down' = [down EXCEPT ![c] = Tail(@)]
        /\ slots' = [slots EXCEPT ![c][m.id] = EmptyMsg]
    BY <1>4, <1>9 DEF OnPositiveAck, Acked, Take
  <2> DEFINE s == EmptyMsg
  <2>2. slots'[c] = [slots[c] EXCEPT ![m.id] = s] /\ s = EmptyMsg
    BY <1>3, <2>1 DEF QueuesInv
  <2>3. QueuesOf(c) /\ up'[c] = up[c] /\ down'[c] = Tail(down[c])
    BY <1>3, <2>1 DEF QueuesInv, QueuesOf
  <2>4. m \in Acks /\ UNCHANGED <<login, tot, nb>>
    BY <2>1
  <2> HIDE DEF s
  <2> QED
    BY <1>2, <2>2, <2>3, <2>4, AckIInv
<1>10. CASE OnOther(c, m)
  <2>1. m \notin Acks
    <3>1. m \in Acks => ~waiting[c] /\ connected[c] /\ ~BadAck(c, m)
      BY <1>2, HeadAck
    <3> QED
      BY <1>4, <1>10, <3>1 DEF OnOther
  <2>2. /\ UNCHANGED <<proc, pseudo, connected, waiting, drawn, files, table, up>>
        /\ down' = [down EXCEPT ![c] = Tail(@)]
    BY <1>10 DEF OnOther, Take, login
  <2>3. /\ waiting'[c] \/ connected'[c] => pseudo'[c] # Blank
        /\ ~(waiting'[c] /\ connected'[c])
    BY <1>3, <2>2 DEF LoginInv
  <2> QED
    BY <1>2, <1>5, <2>1, <2>2, <2>3, OtherIInv
<1> QED
  BY <1>1, <1>6, <1>7, <1>8, <1>9, <1>10
-----------------------------------------------------------------------------
(* The other end                                                           *)

(* A text that is read is acknowledged once, for what it is.               *)
AnsweredBy(c, m) ==
    /\ down'[c] \in Seq(Answers)
    /\ \A j \in Nat :
         /\ Count(down'[c], AcksOf(j))
              = Count(down[c], AcksOf(j)) + IF m \in TextsOf(j) THEN 1 ELSE 0
         /\ \A X : Each(down[c], AcksOf(j), X) /\ (m \in TextsOf(j) => AcksFor(m) \subseteq X)
                     => Each(down'[c], AcksOf(j), X)

LEMMA AnsweredOnItsWay ==
  ASSUME NEW c \in Clients, QueuesInv, WayInv(c), proc[c] # "gone",
         up[c] # <<>>, NEW m, m = Head(up[c]), up'[c] = Tail(up[c]),
         UNCHANGED <<slots[c], tot[c]>>, AnsweredBy(c, m)
  PROVE  WayInv(c)'
<1>1. up[c] \in Seq(Requests) /\ down[c] \in Seq(Answers) /\ down'[c] \in Seq(Answers)
  BY DEF QueuesInv, AnsweredBy
<1>2. ASSUME NEW j \in Nat PROVE OnItsWay(c, j)'
  <2>1. /\ Count(up[c], TextsOf(j)) + Count(down[c], AcksOf(j))
             = IF Awaited(c, j) THEN 1 ELSE 0
        /\ Each(up[c], TextsOf(j), {slots[c][j]})
        /\ Each(down[c], AcksOf(j), AcksFor(slots[c][j]))
    BY DEF WayInv, OnItsWay
  <2>2. /\ Count(up[c], TextsOf(j)) = Count(up'[c], TextsOf(j))
                                        + IF m \in TextsOf(j) THEN 1 ELSE 0
        /\ Each(up'[c], TextsOf(j), {slots[c][j]})
        /\ m \in TextsOf(j) => m \in {slots[c][j]}
        /\ up'[c] \in Seq(Requests)
    BY <1>1, <2>1, CountTail
  <2>3. /\ Count(down'[c], AcksOf(j))
             = Count(down[c], AcksOf(j)) + IF m \in TextsOf(j) THEN 1 ELSE 0
        /\ Each(down'[c], AcksOf(j), AcksFor(slots[c][j]))
    <3>1. m \in TextsOf(j) => AcksFor(m) \subseteq AcksFor(slots[c][j])
      BY <2>2
    <3> QED
      BY <2>1, <3>1 DEF AnsweredBy
  <2>4. /\ Count(up'[c], TextsOf(j)) \in Nat /\ Count(up[c], TextsOf(j)) \in Nat
        /\ Count(down[c], AcksOf(j)) \in Nat /\ Count(down'[c], AcksOf(j)) \in Nat
    BY <1>1, <2>2, CountType
  <2>5. Awaited(c, j)' <=> Awaited(c, j)
    BY DEF Awaited
  <2>6. Count(up'[c], TextsOf(j)) + Count(down'[c], AcksOf(j))
          = Count(up[c], TextsOf(j)) + Count(down[c], AcksOf(j))
    <3>1. CASE m \in TextsOf(j)
      BY <2>2, <2>3, <2>4, <3>1
    <3>2. CASE m \notin TextsOf(j)
      BY <2>2, <2>3, <2>4, <3>2
    <3> QED
      BY <3>1, <3>2
  <2>7. Count(up'[c], TextsOf(j)) + Count(down'[c], AcksOf(j))
          = IF Awaited(c, j)' THEN 1 ELSE 0
    BY <2>1, <2>5, <2>6
  <2>8. /\ Each(up'[c], TextsOf(j), {slots'[c][j]})
        /\ Each(down'[c], AcksOf(j), AcksFor(slots'[c][j]))
    BY <2>2, <2>3
  <2> QED
    BY <2>7, <2>8 DEF OnItsWay
<1> QED
  BY <1>2 DEF WayInv

LEMMA AnsweredIInv ==
  ASSUME NEW c \in Clients, IInv, up[c] # <<>>, NEW m, m = Head(up[c]),
         UNCHANGED <<login, table>>, QueuesOf(c), up'[c] = Tail(up[c]),
         proc[c] = "on" => AnsweredBy(c, m),
         proc[c] # "on" => down'[c] = down[c]
  PROVE  IInv'
<1>1. ClientTypeOK /\ QueuesInv /\ LoginInv(c) /\ SlotsInv(c) /\ RoomInv(c) /\ WayInv(c)
  BY DEF IInv, ClientInv
<1>2. up[c] \in Seq(Requests) /\ down[c] \in Seq(Answers) /\ proc[c] \in {"off", "on", "gone"}
  BY <1>1 DEF QueuesInv, ClientTypeOK
<1>3. proc[c] # "off"
  BY <1>1 DEF LoginInv
<1>4. up'[c] \in Seq(Requests) /\ down'[c] \in Seq(Answers)
  BY <1>2, CountTail DEF AnsweredBy
<1>5. /\ proc' = proc /\ pseudo' = pseudo /\ connected' = connected /\ waiting' = waiting
      /\ drawn' = drawn /\ files' = files /\ slots' = slots /\ tot' = tot /\ nb' = nb
  BY DEF login, table
<1>6. \A d \in Clients : d # c => Same(d)
  BY <1>1, <1>5 DEF Same, QueuesInv, QueuesOf
<1>7. ClientTypeOK' /\ QueuesInv'
  <2>1. up' \in [Clients -> Seq(Requests)] /\ down' \in [Clients -> Seq(Answers)]
    BY <1>1, <1>4 DEF QueuesInv, QueuesOf
  <2>2. \A d \in Clients : up'[d] \in Seq(ConnectionMsgs \cup StdMsgs)
    BY <2>1 DEF Requests
  <2> QED
    BY <1>1, <1>5, <2>1, <2>2 DEF ClientTypeOK, QueuesInv
<1>8. LoginInv(c)'
  BY <1>1, <1>3, <1>5 DEF LoginInv
<1>9. SlotsInv(c)' /\ RoomInv(c)'
  BY <1>1, <1>5, TableStays
<1>10. WayInv(c)'
  <2>1. CASE proc[c] = "on"
    BY <1>1, <1>5, <2>1, AnsweredOnItsWay
  <2>2. CASE proc[c] = "gone"
    BY <1>5, <2>2 DEF WayInv
  <2> QED
    BY <1>2, <1>3, <2>1, <2>2
<1> QED
  BY <1>6, <1>7, <1>8, <1>9, <1>10, OneClient DEF ClientInv

(* An answer of each kind, appended to what the client has not read.       *)
LEMMA NothingAnswered ==
  ASSUME NEW c \in Clients, QueuesInv, NEW m, m \notin StdMsgs, down'[c] = down[c]
  PROVE  AnsweredBy(c, m)
<1>1. down[c] \in Seq(Answers)
  BY DEF QueuesInv
<1>2. \A j \in Nat : m \notin TextsOf(j) /\ Count(down[c], AcksOf(j)) \in Nat
  BY <1>1, CountType DEF TextsOf
<1> QED
  BY <1>1, <1>2 DEF AnsweredBy

LEMMA OtherAnswered ==
  ASSUME NEW c \in Clients, QueuesInv, NEW m, m \notin StdMsgs,
         NEW a \in OtherAnswers, down'[c] = Append(down[c], a)
  PROVE  AnsweredBy(c, m)
<1>1. down[c] \in Seq(Answers) /\ a \in Answers
  BY DEF QueuesInv, Answers
<1>2. a \notin Acks
  BY DEF Acks, OtherAnswers
<1>3. ASSUME NEW j \in Nat
      PROVE  /\ Count(down'[c], AcksOf(j)) = Count(down[c], AcksOf(j)) + 0
             /\ \A X : Each(down'[c], AcksOf(j), X) <=> Each(down[c], AcksOf(j), X)
             /\ down'[c] \in Seq(Answers) /\ m \notin TextsOf(j)
  BY <1>1, <1>2, CountAppend DEF AcksOf, TextsOf
<1>4. down'[c] \in Seq(Answers)
  BY <1>1, CountAppend
<1> QED
  BY <1>3, <1>4 DEF AnsweredBy

LEMMA TextAnswered ==
  ASSUME NEW c \in Clients, QueuesInv, NEW m \in StdMsgs,
         NEW a \in AcksOf(m.id), a \in AcksFor(m), down'[c] = Append(down[c], a)
  PROVE  AnsweredBy(c, m)
<1>1. down[c] \in Seq(Answers) /\ a \in Answers /\ a \in Acks
  BY DEF QueuesInv, Answers, AcksOf
<1>2. ASSUME NEW j \in Nat
      PROVE  /\ Count(down'[c], AcksOf(j))
                  = Count(down[c], AcksOf(j)) + IF m \in TextsOf(j) THEN 1 ELSE 0
             /\ \A X : Each(down[c], AcksOf(j), X)
                         /\ (m \in TextsOf(j) => AcksFor(m) \subseteq X)
                         => Each(down'[c], AcksOf(j), X)
  <2>1. a \in AcksOf(j) <=> m \in TextsOf(j)
    BY DEF AcksOf, TextsOf
  <2>2. /\ Count(down'[c], AcksOf(j))
             = Count(down[c], AcksOf(j)) + IF a \in AcksOf(j) THEN 1 ELSE 0
        /\ \A X : Each(down'[c], AcksOf(j), X)
                    <=> Each(down[c], AcksOf(j), X) /\ (a \in AcksOf(j) => a \in X)
    BY <1>1, CountAppend
  <2> QED
    BY <2>1, <2>2
<1>3. down'[c] \in Seq(Answers)
  BY <1>1, CountAppend
<1> QED
  BY <1>2, <1>3 DEF AnsweredBy

LEMMA TextCopied ==
  ASSUME NEW c \in Clients, QueuesInv, NEW m \in StdMsgs,
         NEW a \in AcksOf(m.id), a \in AcksFor(m), NEW b \in OtherAnswers,
         down'[c] = Append(Append(down[c], a), b)
  PROVE  AnsweredBy(c, m)
<1>1. down[c] \in Seq(Answers) /\ a \in Answers /\ a \in Acks /\ b \in Answers
  BY DEF QueuesInv, Answers, AcksOf
<1> DEFINE q == Append(down[c], a)
<1>2. q \in Seq(Answers) /\ down'[c] \in Seq(Answers)
  BY <1>1, CountAppend
<1>3. ASSUME NEW j \in Nat
      PROVE  /\ Count(down'[c], AcksOf(j))
                  = Count(down[c], AcksOf(j)) + IF m \in TextsOf(j) THEN 1 ELSE 0
             /\ \A X : Each(down[c], AcksOf(j), X)
                         /\ (m \in TextsOf(j) => AcksFor(m) \subseteq X)
                         => Each(down'[c], AcksOf(j), X)
  <2>1. a \in AcksOf(j) <=> m \in TextsOf(j)
    BY DEF AcksOf, TextsOf
  <2>2. b \notin AcksOf(j)
    BY DEF AcksOf, Acks, OtherAnswers
  <2>3. /\ Count(q, AcksOf(j))
             = Count(down[c], AcksOf(j)) + IF a \in AcksOf(j) THEN 1 ELSE 0
        /\ \A X : Each(q, AcksOf(j), X)
                    <=> Each(down[c], AcksOf(j), X) /\ (a \in AcksOf(j) => a \in X)
    BY <1>1, CountAppend
  <2> HIDE DEF q
  <2>4. /\ Count(down'[c], AcksOf(j)) = Count(q, AcksOf(j)) + 0
        /\ \A X : Each(down'[c], AcksOf(j), X) <=> Each(q, AcksOf(j), X)
    <3>1. down'[c] = Append(q, b)
      BY DEF q
    <3> QED
      BY <1>1, <1>2, <2>2, <3>1, CountAppend
  <2>5. Count(q, AcksOf(j)) \in Nat
    BY <1>2, CountType
  <2>6. Count(down'[c], AcksOf(j)) = Count(q, AcksOf(j))
    BY <2>4, <2>5
  <2> QED
    BY <2>1, <2>3, <2>4, <2>6
<1> QED
  BY <1>2, <1>3 DEF AnsweredBy

LEMMA ServiceIInv == \A c \in Clients : IInv /\ Service(c) => IInv'
<1> SUFFICES ASSUME NEW c \in Clients, IInv, Service(c) PROVE IInv'
  OBVIOUS
<1>1. PICK m \in (IF up[c] = <<>> THEN {} ELSE {Head(up[c])}) :
        AnswerLogin(c, m) \/ Acknowledge(c, m) \/ AskAgain(c, m)
  BY DEF Service
<1>2. ClientTypeOK /\ QueuesInv
  BY DEF IInv
<1>3. /\ up[c] # <<>> /\ m = Head(up[c])
      /\ up[c] \in Seq(Requests) /\ down[c] \in Seq(Answers)
  BY <1>2 DEF QueuesInv
<1>4. m \in Requests /\ (m.type = "std" <=> m \in StdMsgs) /\ m.sock = -1
  <2>1. m \in Requests
    BY <1>3, CountTail
  <2> QED
    BY <2>1, RequestKinds
<1>5. ASSUME NEW msgs, Answer(c, msgs), down[c] \o msgs = down'[c] => AnsweredBy(c, m)
      PROVE  IInv'
  <2>1. UNCHANGED <<login, table>> /\ up' = [up EXCEPT ![c] = Tail(@)]
    BY <1>5 DEF Answer
  <2>2. QueuesOf(c) /\ up'[c] = Tail(up[c])
    BY <1>2, <1>5 DEF QueuesInv, QueuesOf, Answer, table
  <2>3. down'[c] = IF proc[c] = "on" THEN down[c] \o msgs ELSE down[c]
    BY <1>2, <1>5 DEF QueuesInv, Answer
  <2> QED
    BY <1>3, <1>5, <2>1, <2>2, <2>3, AnsweredIInv
<1>6. CASE AnswerLogin(c, m)
  <2>1. m.type = "connection" /\ m \notin StdMsgs
    BY <1>4, <1>6 DEF AnswerLogin
  <2>2. PICK msgs \in {<<WellConnected(m)>>, <<ErrorMsg(m)>>, <<>>} : Answer(c, msgs)
    BY <1>6 DEF AnswerLogin
  <2>3. ASSUME down[c] \o msgs = down'[c] PROVE AnsweredBy(c, m)
    <3>1. CASE msgs = <<>>
      BY <1>2, <1>3, <2>1, <2>3, <3>1, ConcatEmptySeq, NothingAnswered
    <3>2. ASSUME NEW a \in OtherAnswers, msgs = <<a>> PROVE AnsweredBy(c, m)
      <4>1. down'[c] = Append(down[c], a)
        BY <1>3, <2>3, <3>2, ConcatOne DEF Answers
      <4> QED
        BY <1>2, <2>1, <4>1, OtherAnswered
    <3>3. WellConnected(m) \in OtherAnswers /\ ErrorMsg(m) \in OtherAnswers
      BY <1>4, <2>1, AnswersTo
    <3> QED
      BY <2>2, <3>1, <3>2, <3>3
  <2> QED
    BY <1>5, <2>2, <2>3
<1>7. CASE Acknowledge(c, m)
  <2> DEFINE a == PositiveAck(m)
             b == ServerClientMsg(m, -1)
  <2>1. m \in StdMsgs /\ Answer(c, <<a, b>>)
    BY <1>4, <1>7 DEF Acknowledge
  <2>2. a \in AcksOf(m.id) /\ a \in AcksFor(m) /\ b \in OtherAnswers
    BY <2>1, AnswersTo
  <2> HIDE DEF a, b
  <2>3. ASSUME down[c] \o <<a, b>> = down'[c] PROVE AnsweredBy(c, m)
    <3>1. a \in Answers /\ b \in Answers
      BY <2>2 DEF AcksOf, Answers
    <3>2. down'[c] = Append(Append(down[c], a), b)
      BY <1>3, <2>3, <3>1, ConcatTwo
    <3> QED
      BY <1>2, <2>1, <2>2, <3>2, TextCopied
  <2> QED
    BY <1>5, <2>1, <2>3
<1>8. CASE AskAgain(c, m)
  <2> DEFINE a == NegativeAck(m)
  <2>1. m \in StdMsgs /\ Answer(c, <<a>>) /\ m.retr <= RetrLimit
    BY <1>4, <1>8 DEF AskAgain
  <2>2. a \in AcksOf(m.id) /\ a \in AcksFor(m)
    BY <2>1, AnswersTo
  <2> HIDE DEF a
  <2>3. ASSUME down[c] \o <<a>> = down'[c] PROVE AnsweredBy(c, m)
    <3>1. a \in Answers
      BY <2>2 DEF AcksOf, Answers
    <3>2. down'[c] = Append(down[c], a)
      BY <1>3, <2>3, <3>1, ConcatOne
    <3> QED
      BY <1>2, <2>1, <2>2, <3>2, TextAnswered
  <2> QED
    BY <1>5, <2>1, <2>3
<1> QED
  BY <1>1, <1>6, <1>7, <1>8

(* The texts of others come to a client that has nothing to read.          *)
LEMMA ChatterIInv == \A c \in Clients : IInv /\ Chatter(c) => IInv'
<1> SUFFICES ASSUME NEW c \in Clients, IInv, Chatter(c) PROVE IInv'
  OBVIOUS
<1> DEFINE a == ServerClientMsg([EmptyMsg EXCEPT !.len = 1], -1)
<1>1. /\ proc[c] = "on" /\ down[c] = <<>> /\ down' = [down EXCEPT ![c] = <<a>>]
      /\ UNCHANGED <<login, table, up>>
  BY DEF Chatter
<1>2. a \in OtherAnswers /\ a \in Answers
  BY AnswersTo DEF Answers
<1> HIDE DEF a
<1>3. ClientTypeOK /\ QueuesInv /\ LoginInv(c) /\ SlotsInv(c) /\ RoomInv(c) /\ WayInv(c)
  BY DEF IInv, ClientInv
<1>4. /\ proc' = proc /\ pseudo' = pseudo /\ connected' = connected /\ waiting' = waiting
      /\ drawn' = drawn /\ files' = files /\ slots' = slots /\ tot' = tot /\ nb' = nb
      /\ up' = up
  BY <1>1 DEF login, table
<1>5. down'[c] = <<a>> /\ up[c] \in Seq(Requests) /\ <<a>> \in Seq(Answers)
  BY <1>1, <1>2, <1>3 DEF QueuesInv
<1>6. ClientTypeOK' /\ QueuesInv'
  <2>1. down' \in [Clients -> Seq(Answers)]
    BY <1>1, <1>3, <1>5 DEF QueuesInv
  <2> QED
    BY <1>3, <1>4, <2>1 DEF ClientTypeOK, QueuesInv
<1>7. \A d \in Clients : d # c => Same(d)
  BY <1>1, <1>3, <1>4 DEF Same, QueuesInv
<1>8. LoginInv(c)' /\ SlotsInv(c)' /\ RoomInv(c)'
  BY <1>3, <1>4, TableStays DEF LoginInv
<1>9. WayInv(c)'
  <2>1. ASSUME NEW j \in Nat PROVE OnItsWay(c, j)'
    <3>1. OnItsWay(c, j)
      BY <1>1, <1>3 DEF WayInv
    <3>2. a \notin AcksOf(j)
      BY <1>2 DEF AcksOf, Acks, OtherAnswers
    <3>3. down[c] \in Seq(Answers) /\ down'[c] = Append(down[c], a)
      BY <1>1, <1>5
    <3>4. /\ Count(down'[c], AcksOf(j)) = Count(down[c], AcksOf(j)) + 0
          /\ \A X : Each(down'[c], AcksOf(j), X) <=> Each(down[c], AcksOf(j), X)
      BY <1>2, <3>2, <3>3, CountAppend
    <3>5. Count(down[c], AcksOf(j)) \in Nat
      BY <3>3, CountType
    <3>6. Count(down'[c], AcksOf(j)) = Count(down[c], AcksOf(j))
      BY <3>4, <3>5
    <3>7. Awaited(c, j)' <=> Awaited(c, j)
      BY <1>4 DEF Awaited
    <3>8. Count(up'[c], TextsOf(j)) + Count(down'[c], AcksOf(j))
            = IF Awaited(c, j)' THEN 1 ELSE 0
      BY <1>4, <3>1, <3>6, <3>7 DEF OnItsWay
    <3>9. /\ Each(up'[c], TextsOf(j), {slots'[c][j]})
          /\ Each(down'[c], AcksOf(j), AcksFor(slots'[c][j]))
      BY <1>4, <3>1, <3>4 DEF OnItsWay
    <3> QED
      BY <3>8, <3>9 DEF OnItsWay
  <2> QED
    BY <2>1 DEF WayInv
<1> QED
  BY <1>6, <1>7, <1>8, <1>9, OneClient DEF ClientInv

LEMMA StutterIInv == IInv /\ UNCHANGED cvars => IInv'
<1> SUFFICES ASSUME IInv, UNCHANGED cvars PROVE IInv'
  OBVIOUS
<1>1. /\ UNCHANGED <<proc, pseudo, connected, waiting, drawn, files>>
      /\ UNCHANGED <<slots, tot, nb, up, down>>
  BY DEF cvars, login, table
<1>2. ClientTypeOK' /\ QueuesInv'
  BY <1>1 DEF IInv, ClientTypeOK, QueuesInv
<1>3. ASSUME NEW c \in Clients PROVE ClientInv(c)'
  <2>1. ClientInv(c) /\ Same(c)
    BY <1>1 DEF IInv, Same
  <2> QED
    BY <2>1, SameInv
<1> QED
  BY <1>2, <1>3 DEF IInv

LEMMA NextIInv == IInv /\ [ClientNext]_cvars => IInv'
<1> SUFFICES ASSUME IInv, ClientNext PROVE IInv'
  BY StutterIInv
<1>1. PICK c \in Clients : User(c) \/ OnMsg(c) \/ Service(c) \/ Chatter(c)
  BY DEF ClientNext
<1>2. files \in [Dirs -> [Names -> Codes \cup {NoCode, Blank}]]
  BY DEF IInv, ClientTypeOK
<1>3. CASE Leave(c)
  BY <1>2, <1>3, StopIInv DEF Leave
<1>4. ASSUME NEW p \in Names, CrashStoring(c, p) PROVE IInv'
  <2>1. files' \in [Dirs -> [Names -> Codes \cup {NoCode, Blank}]]
    BY <1>2, <1>4 DEF CrashStoring
  <2> QED
    BY <1>4, <2>1, StopIInv DEF CrashStoring, Prompted
<1>5. ASSUME NEW p \in Names, LoginBadFile(c, p) PROVE IInv'
  BY <1>2, <1>5, StopIInv DEF LoginBadFile, Prompted
<1>6. ASSUME NEW t \in Texts, Speak(c, t) PROVE IInv'
  BY <1>6, SayIInv, SayGrowingIInv DEF Speak
<1>7. CASE Panic(c)
  BY <1>2, <1>7, StopIInv DEF Panic, Panics, CanTalk
<1>8. CASE User(c)
  BY <1>3, <1>4, <1>5, <1>6, <1>7, <1>8, StartIInv, LoginIInv DEF User
<1> QED
  BY <1>1, <1>8, OnMsgIInv, ServiceIInv, ChatterIInv

(* The inductive invariant holds in every state.                           *)
THEOREM Invariant == ClientSpec => []IInv
BY InitIInv, NextIInv, PTL DEF ClientSpec
-----------------------------------------------------------------------------
(* The client's variables, the code files of its directory among them, and *)
(* what it has sent keep their types; a slot of msg_waiting_ack, however   *)
(* often the table grew, holds a request, a text or nothing.               *)
THEOREM TypeCorrect == ClientSpec => []ClientTypeOK
<1>1. IInv => ClientTypeOK
  BY DEF IInv
<1> QED
  BY <1>1, Invariant, PTL

(* Whatever the initial size of msg_waiting_ack, client_send_message finds *)
(* the table as full as it counted, and one that has grown never without   *)
(* room: find_next_msg_id reaches "Erreur programme, panic!" only in the   *)
(* first table.                                                            *)
THEOREM RoomIsKept == ClientSpec => []RoomForTexts
<1>1. IInv => RoomForTexts
  BY DEF IInv, ClientInv, RoomInv, TakenIn, RoomForTexts
<1> QED
  BY <1>1, Invariant, PTL

(* For any number of clients, of texts and of retransmissions, each text   *)
(* whose slot is taken is on its way exactly once: the answers that        *)
(* on_msg_client takes are for the text that the slot holds.               *)
THEOREM TextsTravelOnce == ClientSpec => []TextsOnTheirWay
<1>1. ASSUME IInv PROVE TextsOnTheirWay
  <2> SUFFICES ASSUME NEW c \in Clients, proc[c] = "on"
               PROVE  /\ \A i \in 0 .. tot[c] - 1 :
                           /\ Cardinality(TextsUp(c, i)) + Cardinality(AcksDown(c, i))
                                = IF slots[c][i].type = "std" THEN 1 ELSE 0
                           /\ \A k \in TextsUp(c, i) : up[c][k] = slots[c][i]
                           /\ \A k \in AcksDown(c, i) : down[c][k].retr =
                                slots[c][i].retr + IF down[c][k].type = "ack_neg" THEN 1 ELSE 0
                      /\ \A i \in tot[c] .. MaxSent : TextsUp(c, i) \cup AcksDown(c, i) = {}
    BY DEF TextsOnTheirWay
  <2>1. /\ up[c] \in Seq(Requests) /\ down[c] \in Seq(Answers) /\ tot[c] \in Nat
        /\ \A i \in Nat : OnItsWay(c, i)
    BY <1>1 DEF IInv, QueuesInv, ClientTypeOK, ClientInv, WayInv
  <2>2. ASSUME NEW i
        PROVE  TextsUp(c, i) = At(up[c], TextsOf(i)) /\ AcksDown(c, i) = At(down[c], AcksOf(i))
    <3>1. /\ \A k \in DOMAIN up[c] : up[c][k] \in Requests
          /\ \A k \in DOMAIN down[c] : down[c][k] \in Answers
      BY <2>1, ElementOfSeq, LenProperties
    <3>2. \A k \in DOMAIN up[c] :
            up[c][k] \in TextsOf(i) <=> up[c][k].type = "std" /\ up[c][k].id = i
      BY <3>1, RequestKinds
    <3>3. \A k \in DOMAIN down[c] :
            down[c][k] \in AcksOf(i)
              <=> down[c][k].type \in {"ack_pos", "ack_neg"} /\ down[c][k].id = i
      BY <3>1, AnswerKinds
    <3> QED
      BY <3>2, <3>3 DEF TextsUp, AcksDown, At
  <2>3. ASSUME NEW i \in 0 .. tot[c] - 1
        PROVE  /\ Cardinality(TextsUp(c, i)) + Cardinality(AcksDown(c, i))
                    = IF slots[c][i].type = "std" THEN 1 ELSE 0
               /\ \A k \in TextsUp(c, i) : up[c][k] = slots[c][i]
               /\ \A k \in AcksDown(c, i) : down[c][k].retr =
                    slots[c][i].retr + IF down[c][k].type = "ack_neg" THEN 1 ELSE 0
    <3>1. OnItsWay(c, i) /\ (Awaited(c, i) <=> slots[c][i].type = "std")
      BY <2>1 DEF Awaited
    <3>2. Cardinality(TextsUp(c, i)) + Cardinality(AcksDown(c, i))
            = IF slots[c][i].type = "std" THEN 1 ELSE 0
      BY <2>2, <3>1 DEF OnItsWay, Count
    <3>3. \A k \in TextsUp(c, i) : up[c][k] = slots[c][i]
      BY <2>2, <3>1 DEF OnItsWay, Each
    <3>4. \A k \in AcksDown(c, i) : down[c][k] \in AcksFor(slots[c][i])
      BY <2>2, <3>1 DEF OnItsWay, Each
    <3> QED
      BY <3>2, <3>3, <3>4 DEF AcksFor
  <2>4. ASSUME NEW i \in tot[c] .. MaxSent
        PROVE  TextsUp(c, i) \cup AcksDown(c, i) = {}
    <3>1. i \in Nat /\ ~Awaited(c, i)
      BY <2>1 DEF Awaited
    <3>2. Count(up[c], TextsOf(i)) = 0 /\ Count(down[c], AcksOf(i)) = 0
      BY <1>1, <2>1, <3>1, NothingAbout DEF IInv
    <3>3. At(up[c], TextsOf(i)) = {} /\ At(down[c], AcksOf(i)) = {}
      BY <2>1, <3>2, CountNone
    <3> QED
      BY <2>2, <3>3
  <2> QED
    BY <2>3, <2>4
<1> QED
  BY <1>1, Invariant, PTL
=============================================================================
