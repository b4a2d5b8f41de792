--------------------------- MODULE NyanChatProofs ---------------------------
(***************************************************************************)
(* The safety of the whole system, for any number of clients and of texts  *)
(* and any size of the tables of the clients, the proxy and the server.    *)
(***************************************************************************)
EXTENDS NyanChat, DataProofs

Bodies  == Nat \cup Texts \cup {Blank}
Retries == 0 .. RetrLimit + 1

(* A request has a code for its body, a text itself.                       *)
BodyFits(m) ==
    IF m.type = "connection" THEN m.body \in Nat
    ELSE m.body \in Texts \cup {Blank} /\ (m.len = 0 <=> m.body = Blank)

(* What travels, for a client whose table has n slots, by the slots s of   *)
(* the proxy's table.                                                      *)
Requests(n, s) ==
    {m \in [type : {"connection", "std"}, id : 0 .. n - 1, sock : s, src : Names,
            len : {0, 1}, body : Bodies, retr : Retries] : BodyFits(m)}

Acks(n, s) ==
    [type : {"ack_pos", "ack_neg"}, id : 0 .. n - 1, sock : s, src : {Blank},
     len : {0}, body : {Blank}, retr : Retries]

OtherAnswers(s) ==
    [type : {"error", "well_connected", "server_client"}, id : {-1}, sock : s,
     src : Names \cup {Blank}, len : {0, 1}, body : Bodies, retr : {0}]

Answers(n, s) == Acks(n, s) \cup OtherAnswers(s)

(* The slots of the proxy's table that are for clients.                    *)
Live == 2 .. nbFds - 1

SinMsgs     == UNION {Requests(tot[fds[j]], {j}) : j \in Live}
SoutMsgs    == UNION {Answers(tot[fds[j]], {j}) : j \in Live}
DownMsgs(c) == UNION {Answers(tot[c], {j}) : j \in {j \in Live : fds[j] = c}}

(* As long as nobody leaves, the proxy's table has one open connection for *)
(* each client that runs.                                                  *)
TableInv ==
    /\ nbFds \in 2 .. MaxPoll /\ ~closed /\ ~ended /\ reset = {}
    /\ fds = [j \in PollSlots |-> fds[j]]
    /\ \A j \in PollSlots \ Live : fds[j] \notin Clients
    /\ \A j \in Live : fds[j] \in Clients /\ proc[fds[j]] = "on"
    /\ \A j, k \in Live : fds[j] = fds[k] => j = k
    /\ \A c \in Clients : proc[c] = "on" => \E j \in Live : fds[j] = c

LoginTypes ==
    /\ proc \in [Clients -> {"off", "on", "gone"}]
    /\ pseudo \in [Clients -> Names \cup {Blank}]
    /\ connected \in [Clients -> BOOLEAN] /\ waiting \in [Clients -> BOOLEAN]
    /\ drawn \in [Clients -> Nat]
    /\ files \in [Client!Dirs -> [Names -> Nat \cup {NoCode, Blank}]]

SlotTypes ==
    /\ tot \in [Clients -> Nat \ {0}] /\ nb \in [Clients -> Nat]
    /\ slots = [c \in Clients |-> slots[c]]
    /\ \A c \in Clients :
         /\ slots[c] \in [0 .. tot[c] - 1 -> Requests(tot[c], {-1}) \cup Client!EmptySlots]
         /\ pseudo[c] # Blank => nb[c] > 0

(* What is on its way to and from a client is about slots that it has, and *)
(* knows the way.                                                          *)
QueueTypes ==
    /\ up = [c \in Clients |-> up[c]] /\ down = [c \in Clients |-> down[c]]
    /\ \A c \in Clients :
         up[c] \in Seq(Requests(tot[c], {-1})) /\ down[c] \in Seq(DownMsgs(c))
    /\ sin \in Seq(SinMsgs) /\ sout \in Seq(SoutMsgs)

Sessions == [pseudo : Names, last : 0 .. MaxTime, sock : Live]

ServerTypes ==
    /\ clients \in [Server!CSlots -> Sessions \cup {Null}]
    /\ index \in [Names -> Server!CSlots \cup {-1}]
    /\ stored = [p \in Names |-> stored[p]]
    /\ now \in 0 .. MaxTime

WireInv == TableInv /\ LoginTypes /\ SlotTypes /\ QueueTypes /\ ServerTypes
-----------------------------------------------------------------------------
LEMMA SeqMono ==
  ASSUME NEW S, NEW T, S \subseteq T
  PROVE  Seq(S) \subseteq Seq(T)
BY SeqDef

(* A record with another value in a field.                                 *)
LEMMA SetFields ==
  /\ \A s, t : \A n \in Nat : \A m \in Requests(n, s) : \A x \in t :
       [m EXCEPT !.sock = x] \in Requests(n, t)
  /\ \A s : \A n \in Nat : \A m \in Requests(n, s) : \A r \in Retries :
       [m EXCEPT !.retr = r] \in Requests(n, s)
BY DEF Requests, BodyFits

LEMMA EmptyFields ==
  /\ EmptyMsg \in Client!EmptySlots
  /\ \A m \in Client!EmptySlots : m.type = "null" /\ m.retr \in Retries
<1>1. EmptyMsg = [EmptyMsg EXCEPT !.retr = 0]
  BY DEF EmptyMsg
<1>2. EmptyMsg \in Client!EmptySlots
  BY <1>1 DEF Client!EmptySlots, Client!Garbage, Client!EmptyMsg, EmptyMsg
<1>3. ASSUME NEW m \in Client!EmptySlots
      PROVE  m.type = "null" /\ m.retr \in Retries
  BY SystemAssumption DEF Client!EmptySlots, Client!Garbage, Client!EmptyMsg, Retries
<1> QED
  BY <1>2, <1>3

LEMMA LargerTable ==
  ASSUME NEW n \in Nat, NEW k \in Nat, n <= k, NEW s
  PROVE  /\ Requests(n, s) \subseteq Requests(k, s) /\ Acks(n, s) \subseteq Acks(k, s)
         /\ Answers(n, s) \subseteq Answers(k, s)
<1>1. 0 .. n - 1 \subseteq 0 .. k - 1
  OBVIOUS
<1> QED
  BY <1>1 DEF Requests, Acks, Answers
-----------------------------------------------------------------------------
(* Nothing that travels comes to be about a slot that is not there: tables *)
(* only grow, as long as nobody leaves.                                    *)
Grown ==
    /\ Live \subseteq Live' /\ \A j \in Live : fds'[j] = fds[j]
    /\ tot' \in [Clients -> Nat \ {0}] /\ \A c \in Clients : tot[c] <= tot'[c]

LEMMA MessagesGrow ==
  ASSUME TableInv, SlotTypes, Grown
  PROVE  /\ SinMsgs \subseteq SinMsgs' /\ SoutMsgs \subseteq SoutMsgs'
         /\ Seq(SinMsgs) \subseteq Seq(SinMsgs') /\ Seq(SoutMsgs) \subseteq Seq(SoutMsgs')
         /\ Sessions \subseteq Sessions'
         /\ \A c \in Clients :
              /\ Seq(Requests(tot[c], {-1})) \subseteq Seq(Requests(tot'[c], {-1}))
              /\ Seq(DownMsgs(c)) \subseteq Seq(DownMsgs(c)')
<1>1. ASSUME NEW c \in Clients, NEW s
      PROVE  /\ Requests(tot[c], s) \subseteq Requests(tot'[c], s)
             /\ Answers(tot[c], s) \subseteq Answers(tot'[c], s)
  <2>1. tot[c] \in Nat /\ tot'[c] \in Nat /\ tot[c] <= tot'[c]
    BY DEF SlotTypes, Grown
  <2> QED
    BY <2>1, LargerTable
<1>2. \A j \in Live : j \in Live' /\ fds'[j] = fds[j] /\ fds[j] \in Clients
  BY DEF Grown, TableInv
<1>3. ASSUME NEW m \in SinMsgs PROVE m \in SinMsgs'
  <2>1. PICK j \in Live : m \in Requests(tot[fds[j]], {j})
    BY DEF SinMsgs
  <2>2. j \in Live' /\ m \in Requests(tot'[fds'[j]], {j})
    BY <1>1, <1>2, <2>1
  <2> QED
    BY <2>2 DEF SinMsgs
<1>4. ASSUME NEW m \in SoutMsgs PROVE m \in SoutMsgs'
  <2>1. PICK j \in Live : m \in Answers(tot[fds[j]], {j})
    BY DEF SoutMsgs
  <2>2. j \in Live' /\ m \in Answers(tot'[fds'[j]], {j})
    BY <1>1, <1>2, <2>1
  <2> QED
    BY <2>2 DEF SoutMsgs
<1>5. ASSUME NEW c \in Clients, NEW m \in DownMsgs(c) PROVE m \in DownMsgs(c)'
  <2>1. PICK j \in Live : fds[j] = c /\ m \in Answers(tot[c], {j})
    BY DEF DownMsgs
  <2>2. j \in Live' /\ fds'[j] = c /\ m \in Answers(tot'[c], {j})
    BY <1>1, <1>2, <2>1
  <2> QED
    BY <2>2 DEF DownMsgs
<1>6. Sessions \subseteq Sessions'
  BY <1>2 DEF Sessions
<1>7. SinMsgs \subseteq SinMsgs' /\ SoutMsgs \subseteq SoutMsgs'
  BY <1>3, <1>4
<1>8. Seq(SinMsgs) \subseteq Seq(SinMsgs') /\ Seq(SoutMsgs) \subseteq Seq(SoutMsgs')
  BY <1>7, SeqMono
<1>9. ASSUME NEW c \in Clients
      PROVE  /\ Seq(Requests(tot[c], {-1})) \subseteq Seq(Requests(tot'[c], {-1}))
             /\ Seq(DownMsgs(c)) \subseteq Seq(DownMsgs(c)')
  <2>1. Requests(tot[c], {-1}) \subseteq Requests(tot'[c], {-1})
    BY <1>1
  <2>2. DownMsgs(c) \subseteq DownMsgs(c)'
    BY <1>5
  <2>3. Seq(Requests(tot[c], {-1})) \subseteq Seq(Requests(tot'[c], {-1}))
    BY <2>1, SeqMono
  <2>4. Seq(DownMsgs(c)) \subseteq Seq(DownMsgs(c)')
    BY <2>2, SeqMono
  <2> QED
    BY <2>3, <2>4
<1> QED
  BY <1>6, <1>7, <1>8, <1>9

LEMMA StillGrown ==
  ASSUME SlotTypes, UNCHANGED <<fds, nbFds, tot>>
  PROVE  Grown
BY DEF SlotTypes, Grown, Live

(* The parts that a step leaves as they are.                               *)
LEMMA TableStays ==
  ASSUME TableInv, UNCHANGED <<fds, nbFds, closed, ended, reset, proc>>
  PROVE  TableInv'
BY DEF TableInv, Live

LEMMA LoginStays ==
  ASSUME LoginTypes, UNCHANGED <<proc, pseudo, connected, waiting, drawn, files>>
  PROVE  LoginTypes'
BY DEF LoginTypes

LEMMA SlotsStay ==
  ASSUME SlotTypes, UNCHANGED <<slots, tot, nb, pseudo>>
  PROVE  SlotTypes'
BY DEF SlotTypes

LEMMA ServerStays ==
  ASSUME TableInv, SlotTypes, ServerTypes, Grown, UNCHANGED <<clients, index, stored, now>>
  PROVE  ServerTypes'
BY MessagesGrow DEF ServerTypes

LEMMA QueuesStay ==
  ASSUME TableInv, SlotTypes, QueueTypes, Grown
  PROVE  /\ sin \in Seq(SinMsgs') /\ sout \in Seq(SoutMsgs')
         /\ \A c \in Clients :
              up[c] \in Seq(Requests(tot'[c], {-1})) /\ down[c] \in Seq(DownMsgs(c)')
BY MessagesGrow DEF QueueTypes
-----------------------------------------------------------------------------
LEMMA InitWire == Init => WireInv
<1> SUFFICES ASSUME Init PROVE WireInv
  OBVIOUS
<1>1. TableInv
  <2>1. /\ fds = [j \in PollSlots |-> IF j = 0 THEN Listener ELSE StdinFd]
        /\ nbFds = 2 /\ Live = {} /\ ~closed /\ ~ended /\ reset = {}
        /\ proc = [c \in Clients |-> "off"]
    BY DEF Init, Live, Client!ClientInit
  <2>2. 2 \in 2 .. MaxPoll /\ Listener \notin Clients /\ StdinFd \notin Clients
    BY ProxyAssumption, FS_CardinalityType
  <2> QED
    BY <2>1, <2>2 DEF TableInv
<1>2. LoginTypes
  BY DEF Init, LoginTypes, Client!ClientInit, Client!Dirs, Client!Codes
<1>3. EmptyMsg \in Client!EmptySlots
  BY EmptyFields
<1>4. SlotTypes
  <2>1. /\ slots = [c \in Clients |-> [i \in 0 .. InitSlots - 1 |-> EmptyMsg]]
        /\ tot = [c \in Clients |-> InitSlots] /\ nb = [c \in Clients |-> 0]
        /\ pseudo = [c \in Clients |-> Blank]
    BY DEF Init, Client!ClientInit, Client!EmptyMsg, EmptyMsg
  <2> QED
    BY <1>3, <2>1, SystemAssumption DEF SlotTypes
<1>5. QueueTypes
  BY EmptySeq DEF Init, QueueTypes, Client!ClientInit, Server!Init
<1>6. ServerTypes
  BY SystemAssumption DEF Init, ServerTypes, Server!Init
<1> QED
  BY <1>1, <1>2, <1>4, <1>5, <1>6 DEF WireInv

LEMMA JoinWire == \A c \in Clients : WireInv /\ Join(c) => WireInv'
<1> SUFFICES ASSUME NEW c \in Clients, WireInv, Join(c) PROVE WireInv'
  OBVIOUS
<1>1. TableInv /\ LoginTypes /\ SlotTypes /\ QueueTypes /\ ServerTypes
  BY DEF WireInv
<1>2. /\ nbFds < MaxPoll /\ proc[c] = "off" /\ proc' = [proc EXCEPT ![c] = "on"]
      /\ fds' = [fds EXCEPT ![nbFds] = c] /\ nbFds' = nbFds + 1
      /\ UNCHANGED <<pseudo, connected, waiting, drawn, files, slots, tot, nb, up, down>>
      /\ UNCHANGED <<closed, ended, reset, clients, index, stored, now, sin, sout>>
  BY DEF Join, Client!Start, Client!table, serverSide
<1>3. nbFds \in PollSlots /\ nbFds \in Nat /\ Live' = Live \cup {nbFds} /\ nbFds \notin Live
  BY <1>1, <1>2, ProxyAssumption DEF TableInv, PollSlots, Live
<1>4. TableInv'
  <2>1. nbFds' \in 2 .. MaxPoll
    BY <1>1, <1>2, ProxyAssumption DEF TableInv
  <2>2. /\ \A j \in PollSlots : fds'[j] = IF j = nbFds THEN c ELSE fds[j]
        /\ fds' = [j \in PollSlots |-> fds'[j]]
    BY <1>1, <1>2 DEF TableInv
  <2>3. \A d \in Clients : proc'[d] = IF d = c THEN "on" ELSE proc[d]
    BY <1>1, <1>2 DEF LoginTypes
  <2>4. \A j \in Live : j \in PollSlots /\ j # nbFds
    BY <1>1, <1>3, ProxyAssumption DEF TableInv, Live, PollSlots
  <2>5. \A j \in PollSlots \ Live' : fds'[j] \notin Clients
    BY <1>1, <1>3, <2>2 DEF TableInv
  <2>6. \A j \in Live : fds'[j] = fds[j] /\ fds[j] \in Clients /\ fds[j] # c /\ proc[fds[j]] = "on"
    BY <1>1, <1>2, <2>2, <2>4 DEF TableInv
  <2>7. \A j \in Live' : fds'[j] \in Clients /\ proc'[fds'[j]] = "on"
    BY <1>3, <2>2, <2>3, <2>6
  <2>8. \A j, k \in Live' : fds'[j] = fds'[k] => j = k
    BY <1>1, <1>3, <2>2, <2>6 DEF TableInv
  <2>9. \A d \in Clients : proc'[d] = "on" => \E j \in Live' : fds'[j] = d
    BY <1>1, <1>3, <2>2, <2>3, <2>6 DEF TableInv
  <2> QED
    BY <1>1, <1>2, <2>1, <2>2, <2>5, <2>7, <2>8, <2>9 DEF TableInv
<1>5. LoginTypes'
  BY <1>1, <1>2 DEF LoginTypes
<1>6. SlotTypes'
  BY <1>1, <1>2, SlotsStay
<1>7. Grown
  <2>1. \A j \in Live : j # nbFds /\ j \in PollSlots
    BY <1>1, <1>3, ProxyAssumption DEF TableInv, Live, PollSlots
  <2> QED
    BY <1>1, <1>2, <1>3, <2>1 DEF Grown, TableInv, SlotTypes
<1>8. QueueTypes'
  BY <1>1, <1>2, <1>7, QueuesStay DEF QueueTypes
<1>9. ServerTypes'
  BY <1>1, <1>2, <1>7, ServerStays
<1> QED
  BY <1>4, <1>5, <1>6, <1>8, <1>9 DEF WireInv
-----------------------------------------------------------------------------
(* The steps of a client                                                   *)

LEMMA ClientMessages ==
  ASSUME NEW n \in Nat, NEW p \in Names
  PROVE  /\ \A k \in Nat : n > 0 => Client!ConnectionMsg(p, k) \in Requests(n, {-1})
         /\ \A i \in 0 .. n - 1, t \in Texts \cup {Blank}, r \in Retries :
              /\ Client!StdMsg(i, p, t, r) \in Requests(n, {-1})
              /\ Client!StdMsg(i, p, t, r).id = i
<1>1. ASSUME NEW k \in Nat, n > 0 PROVE Client!ConnectionMsg(p, k) \in Requests(n, {-1})
  <2>1. 0 \in 0 .. n - 1 /\ 0 \in Retries /\ k \in Bodies
    BY <1>1, SystemAssumption DEF Retries, Bodies
  <2> QED
    BY <1>1, <2>1 DEF Client!ConnectionMsg, Client!EmptyMsg, Requests, BodyFits
<1>2. ASSUME NEW i \in 0 .. n - 1, NEW t \in Texts \cup {Blank}, NEW r \in Retries
      PROVE  /\ Client!StdMsg(i, p, t, r) \in Requests(n, {-1})
             /\ Client!StdMsg(i, p, t, r).id = i
  <2> DEFINE m == Client!StdMsg(i, p, t, r)
  <2>1. /\ m \in [type : {"std"}, id : {i}, sock : {-1}, src : {p}, len : {0, 1}, body : {t},
                  retr : {r}]
        /\ m.len = IF t = Blank THEN 0 ELSE 1
    BY DEF Client!StdMsg, Client!EmptyMsg
  <2> HIDE DEF m
  <2>2. m.type = "std" /\ m.body = t /\ m.id = i
    BY <2>1
  <2>3. BodyFits(m) /\ t \in Bodies
    BY <2>1, <2>2 DEF BodyFits, Bodies
  <2> QED
    BY <2>1, <2>2, <2>3 DEF Requests, m
<1> QED
  BY <1>1, <1>2

(* What a step of client c leaves of the others, and of the proxy and the  *)
(* server.                                                                 *)
OnlyClient(c) ==
    /\ UNCHANGED <<proc, fds, nbFds, closed, ended, reset>>
    /\ UNCHANGED <<clients, index, stored, now, sin, sout>>
    /\ slots' = [d \in Clients |-> slots'[d]] /\ up' = [d \in Clients |-> up'[d]]
    /\ down' = [d \in Clients |-> down'[d]]
    /\ \A d \in Clients : d # c =>
         UNCHANGED <<slots[d], tot[d], nb[d], pseudo[d], up[d], down[d]>>

LEMMA ClientWire ==
  ASSUME WireInv, NEW c \in Clients, OnlyClient(c), LoginTypes',
         tot' \in [Clients -> Nat \ {0}], tot[c] <= tot'[c], nb' \in [Clients -> Nat],
         slots'[c] \in [0 .. tot'[c] - 1 -> Requests(tot'[c], {-1}) \cup Client!EmptySlots],
         pseudo'[c] # Blank => nb'[c] > 0,
         up'[c] \in Seq(Requests(tot'[c], {-1})), down'[c] \in Seq(DownMsgs(c))
  PROVE  WireInv'
<1>1. TableInv /\ LoginTypes /\ SlotTypes /\ QueueTypes /\ ServerTypes
  BY DEF WireInv
<1>2. UNCHANGED <<fds, nbFds, closed, ended, reset, proc, clients, index, stored, now, sin, sout>>
  BY DEF OnlyClient
<1>3. \A d \in Clients : d # c => UNCHANGED <<slots[d], tot[d], nb[d], pseudo[d], up[d], down[d]>>
  BY DEF OnlyClient
<1>4. Grown
  <2>1. \A d \in Clients : tot[d] \in Nat /\ tot[d] <= tot'[d]
    BY <1>1, <1>3 DEF SlotTypes
  <2> QED
    BY <1>2, <2>1 DEF Grown, Live
<1>5. TableInv'
  BY <1>1, <1>2, TableStays
<1>6. ServerTypes'
  BY <1>1, <1>2, <1>4, ServerStays
<1>7. SlotTypes'
  <2>1. ASSUME NEW d \in Clients
        PROVE  /\ slots'[d] \in [0 .. tot'[d] - 1 -> Requests(tot'[d], {-1}) \cup Client!EmptySlots]
               /\ pseudo'[d] # Blank => nb'[d] > 0
    <3>1. CASE d # c
      BY <1>1, <1>3, <3>1 DEF SlotTypes
    <3> QED
      BY <3>1
  <2> QED
    BY <2>1 DEF SlotTypes, OnlyClient
<1>8. QueueTypes'
  <2>1. /\ sin \in Seq(SinMsgs') /\ sout \in Seq(SoutMsgs')
        /\ \A d \in Clients :
             up[d] \in Seq(Requests(tot'[d], {-1})) /\ down[d] \in Seq(DownMsgs(d)')
    BY <1>1, <1>4, QueuesStay
  <2>2. Seq(DownMsgs(c)) \subseteq Seq(DownMsgs(c)')
    BY <1>1, <1>4, MessagesGrow
  <2>3. ASSUME NEW d \in Clients
        PROVE  up'[d] \in Seq(Requests(tot'[d], {-1})) /\ down'[d] \in Seq(DownMsgs(d)')
    <3>1. CASE d # c
      BY <1>3, <2>1, <3>1
    <3> QED
      BY <2>2, <3>1
  <2> QED
    BY <1>2, <2>1, <2>3 DEF QueueTypes, OnlyClient
<1> QED
  BY <1>5, <1>6, <1>7, <1>8 DEF WireInv

LEMMA LoginWire ==
  ASSUME WireInv, NEW c \in Clients, NEW p \in Names, Client!Login(c, p),
         UNCHANGED <<serverSide, sin, sout, proxySide>>
  PROVE  WireInv'
<1>1. TableInv /\ LoginTypes /\ SlotTypes /\ QueueTypes
  BY DEF WireInv
<1> DEFINE k == Client!CodeFor(c, p)
           m == Client!ConnectionMsg(p, k)
<1>2. /\ pseudo' = [pseudo EXCEPT ![c] = p] /\ waiting' = [waiting EXCEPT ![c] = TRUE]
      /\ drawn' = [drawn EXCEPT ![c] = IF Client!File(c, p) = NoCode THEN @ + 1 ELSE @]
      /\ files' = [files EXCEPT ![Dir[c]][p] = k]
      /\ slots' = [slots EXCEPT ![c][0] = m] /\ nb' = [nb EXCEPT ![c] = @ + 1]
      /\ up' = [up EXCEPT ![c] = Append(@, m)] /\ UNCHANGED <<proc, connected, tot, down>>
      /\ Client!File(c, p) # Blank
  BY DEF Client!Login, Client!RequestLogin, Client!Send
<1>3. k \in Nat
  BY <1>1, <1>2 DEF Client!CodeFor, Client!File, Client!Dirs, LoginTypes
<1>4. m \in Requests(tot[c], {-1}) /\ tot[c] \in Nat /\ tot[c] > 0
  BY <1>1, <1>3, ClientMessages DEF SlotTypes
<1> HIDE DEF k, m
<1>5. LoginTypes'
  <2>1. drawn' \in [Clients -> Nat]
    BY <1>1, <1>2 DEF LoginTypes
  <2>2. files' \in [Client!Dirs -> [Names -> Nat \cup {NoCode, Blank}]]
    BY <1>1, <1>2, <1>3 DEF LoginTypes, Client!Dirs
  <2> QED
    BY <1>1, <1>2, <2>1, <2>2 DEF LoginTypes
<1>6. OnlyClient(c)
  BY <1>1, <1>2 DEF OnlyClient, SlotTypes, QueueTypes, LoginTypes, serverSide, proxySide, table
<1>7. slots'[c] \in [0 .. tot[c] - 1 -> Requests(tot[c], {-1}) \cup Client!EmptySlots]
  BY <1>1, <1>2, <1>4 DEF SlotTypes
<1>8. up'[c] \in Seq(Requests(tot[c], {-1})) /\ down'[c] \in Seq(DownMsgs(c))
  BY <1>1, <1>2, <1>4, AppendProperties DEF QueueTypes
<1>9. nb' \in [Clients -> Nat] /\ nb'[c] > 0 /\ tot' = tot /\ tot' \in [Clients -> Nat \ {0}]
  BY <1>1, <1>2 DEF SlotTypes
<1> QED
  BY <1>4, <1>5, <1>6, <1>7, <1>8, <1>9, ClientWire

(* A text of client c, which is put into a free slot or into a new one.    *)
LEMMA SpeakWire ==
  ASSUME WireInv, NEW c \in Clients, NEW t \in Texts \cup {Blank}, Client!Speak(c, t),
         UNCHANGED <<serverSide, sin, sout, proxySide>>
  PROVE  WireInv'
<1>1. TableInv /\ LoginTypes /\ SlotTypes /\ QueueTypes
  BY DEF WireInv
<1>2. /\ pseudo[c] \in Names /\ tot[c] \in Nat /\ tot[c] > 0
      /\ slots[c] \in [0 .. tot[c] - 1 -> Requests(tot[c], {-1}) \cup Client!EmptySlots]
      /\ up[c] \in Seq(Requests(tot[c], {-1})) /\ nb[c] \in Nat
  BY <1>1 DEF Client!Speak, Client!Say, Client!SayGrowing, Client!CanTalk, LoginTypes, SlotTypes,
              QueueTypes
<1>3. ASSUME NEW i \in Nat, NEW r \in Retries, NEW m, m = Client!StdMsg(i, pseudo[c], t, r),
             tot' \in [Clients -> Nat \ {0}], tot[c] <= tot'[c], i < tot'[c],
             \A d \in Clients : d # c => tot'[d] = tot[d],
             slots' = [slots EXCEPT ![c] = slots'[c]],
             slots'[c] \in [0 .. tot'[c] - 1 -> Requests(tot'[c], {-1}) \cup Client!EmptySlots],
             nb' = [nb EXCEPT ![c] = @ + 1], up' = [up EXCEPT ![c] = Append(@, m)],
             UNCHANGED <<proc, pseudo, connected, waiting, drawn, files, down>>
      PROVE  WireInv'
  <2>1. m \in Requests(tot'[c], {-1})
    BY <1>2, <1>3, ClientMessages
  <2>2. up[c] \in Seq(Requests(tot'[c], {-1}))
    BY <1>2, <1>3, LargerTable, SeqMono
  <2>3. up'[c] \in Seq(Requests(tot'[c], {-1})) /\ down'[c] \in Seq(DownMsgs(c))
    BY <1>1, <1>3, <2>1, <2>2, AppendProperties DEF QueueTypes
  <2>4. OnlyClient(c)
    BY <1>1, <1>3 DEF OnlyClient, SlotTypes, QueueTypes, LoginTypes, serverSide, proxySide, table
  <2>5. nb' \in [Clients -> Nat] /\ nb'[c] > 0
    BY <1>1, <1>3 DEF SlotTypes
  <2>6. LoginTypes'
    BY <1>1, <1>3, LoginStays
  <2> QED
    BY <1>3, <2>3, <2>4, <2>5, <2>6, ClientWire
<1>4. ASSUME NEW i \in 0 .. tot[c] - 1, Client!Say(c, i, t) PROVE WireInv'
  <2> DEFINE m == Client!StdMsg(i, pseudo[c], t, slots[c][i].retr)
  <2>1. slots[c][i].retr \in Retries
    BY <1>2, <1>4, EmptyFields DEF Requests
  <2>2. m \in Requests(tot[c], {-1})
    BY <1>2, <2>1, ClientMessages
  <2>3. /\ slots' = [slots EXCEPT ![c][i] = m] /\ nb' = [nb EXCEPT ![c] = @ + 1]
        /\ up' = [up EXCEPT ![c] = Append(@, slots'[c][i])]
        /\ UNCHANGED <<proc, pseudo, connected, waiting, drawn, files, down, tot>>
    BY <1>1, <1>2, <1>4 DEF Client!Say, Client!Send, Client!login, SlotTypes
  <2> HIDE DEF m
  <2>4. /\ slots'[c] = [slots[c] EXCEPT ![i] = m] /\ slots'[c][i] = m
        /\ slots' = [slots EXCEPT ![c] = slots'[c]]
    BY <1>1, <1>2, <1>4, <2>3 DEF SlotTypes
  <2>5. slots'[c] \in [0 .. tot'[c] - 1 -> Requests(tot'[c], {-1}) \cup Client!EmptySlots]
    BY <1>2, <2>2, <2>3, <2>4
  <2>6. tot' \in [Clients -> Nat \ {0}] /\ tot[c] <= tot'[c] /\ i \in Nat /\ i < tot'[c]
    BY <1>1, <1>2, <2>3 DEF SlotTypes
  <2>7. up' = [up EXCEPT ![c] = Append(@, m)]
    BY <2>3, <2>4
  <2> QED
    BY <1>3, <2>1, <2>3, <2>4, <2>5, <2>6, <2>7 DEF m
<1>5. ASSUME Client!SayGrowing(c, t) PROVE WireInv'
  <2> DEFINE n == tot[c]
  <2>1. PICK g \in [n .. 2 * n - 1 -> Client!EmptySlots] :
          slots' = [slots EXCEPT ![c] =
             [i \in 0 .. 2 * n - 1 |->
                 IF i < n THEN slots[c][i]
                 ELSE IF i = n THEN Client!StdMsg(i, pseudo[c], t, g[i].retr)
                 ELSE g[i]]]
    BY <1>5 DEF Client!SayGrowing
  <2> DEFINE m == Client!StdMsg(n, pseudo[c], t, g[n].retr)
  <2>2. g[n].retr \in Retries /\ n \in 0 .. 2 * n - 1 /\ 2 * n \in Nat
    BY <1>2, EmptyFields
  <2>3. m \in Requests(2 * n, {-1})
    BY <1>2, <2>2, ClientMessages
  <2>4. /\ tot' = [tot EXCEPT ![c] = 2 * @] /\ nb' = [nb EXCEPT ![c] = @ + 1]
        /\ up' = [up EXCEPT ![c] = Append(@, slots'[c][n])]
        /\ UNCHANGED <<proc, pseudo, connected, waiting, drawn, files, down>>
    BY <1>5 DEF Client!SayGrowing, Client!Send, Client!login
  <2> HIDE DEF m
  <2>5. slots'[c] = [i \in 0 .. 2 * n - 1 |->
                        IF i < n THEN slots[c][i] ELSE IF i = n THEN m ELSE g[i]]
    BY <1>1, <2>1 DEF SlotTypes, m
  <2>6. slots' = [slots EXCEPT ![c] = slots'[c]] /\ slots'[c][n] = m
    BY <1>1, <1>2, <2>1, <2>2, <2>5 DEF SlotTypes
  <2>7. /\ tot' \in [Clients -> Nat \ {0}] /\ tot'[c] = 2 * n /\ n <= 2 * n /\ n < 2 * n
        /\ \A d \in Clients : d # c => tot'[d] = tot[d]
    BY <1>1, <1>2, <2>4 DEF SlotTypes
  <2>8. Requests(n, {-1}) \subseteq Requests(2 * n, {-1})
    BY <1>2, <2>2, <2>7, LargerTable
  <2>9. slots'[c] \in [0 .. 2 * n - 1 -> Requests(2 * n, {-1}) \cup Client!EmptySlots]
    BY <1>2, <2>3, <2>5, <2>8
  <2>10. up' = [up EXCEPT ![c] = Append(@, m)]
    BY <2>4, <2>6
  <2> HIDE DEF n
  <2> QED
    BY <1>2, <1>3, <2>2, <2>4, <2>6, <2>7, <2>9, <2>10 DEF m, n
<1> QED
  BY <1>4, <1>5 DEF Client!Speak

(* The head of a queue, and the rest of it.                                *)
LEMMA HeadTail ==
  ASSUME NEW T, NEW q \in Seq(T), q # <<>>
  PROVE  Head(q) \in T /\ Tail(q) \in Seq(T)
BY HeadTailProperties

LEMMA ReadWire ==
  ASSUME WireInv, NEW c \in Clients, Client!OnMsg(c),
         UNCHANGED <<serverSide, sin, sout, proxySide>>
  PROVE  WireInv'
<1>1. TableInv /\ LoginTypes /\ SlotTypes /\ QueueTypes
  BY DEF WireInv
<1>2. PICK m \in Client!Next1(c) :
        \/ Client!OnRefusal(c, m) \/ Client!OnWelcome(c, m) \/ Client!OnNegativeAck(c, m)
        \/ Client!OnPositiveAck(c, m) \/ Client!OnOther(c, m)
  BY DEF Client!OnMsg
<1>3. m = Head(down[c]) /\ down[c] # <<>>
  BY <1>2 DEF Client!Next1
<1>4. m \in DownMsgs(c) /\ Tail(down[c]) \in Seq(DownMsgs(c))
  BY <1>1, <1>3, HeadTail DEF QueueTypes
<1>5. down' = [down EXCEPT ![c] = Tail(@)]
  BY <1>2 DEF Client!OnRefusal, Client!OnWelcome, Client!OnNegativeAck, Client!OnPositiveAck,
              Client!Acked, Client!OnOther, Client!Take
<1>6. /\ tot[c] \in Nat \ {0} /\ tot[c] <= tot[c] /\ nb[c] \in Nat
      /\ slots[c] \in [0 .. tot[c] - 1 -> Requests(tot[c], {-1}) \cup Client!EmptySlots]
      /\ up[c] \in Seq(Requests(tot[c], {-1}))
  BY <1>1 DEF SlotTypes, QueueTypes
<1>7. ASSUME LoginTypes', UNCHANGED <<proc, tot, nb>>,
             \A d \in Clients : d # c => pseudo'[d] = pseudo[d],
             pseudo'[c] \in {pseudo[c], Blank},
             slots' = [slots EXCEPT ![c] = slots'[c]], up' = [up EXCEPT ![c] = up'[c]],
             slots'[c] \in [0 .. tot[c] - 1 -> Requests(tot[c], {-1}) \cup Client!EmptySlots],
             up'[c] \in Seq(Requests(tot[c], {-1}))
      PROVE  WireInv'
  <2>1. OnlyClient(c)
    BY <1>1, <1>5, <1>7 DEF OnlyClient, SlotTypes, QueueTypes, serverSide, proxySide, table
  <2>2. down'[c] \in Seq(DownMsgs(c))
    BY <1>1, <1>4, <1>5 DEF QueueTypes
  <2>3. /\ tot' \in [Clients -> Nat \ {0}] /\ nb' \in [Clients -> Nat]
        /\ pseudo'[c] # Blank => nb'[c] > 0
    BY <1>1, <1>7 DEF SlotTypes
  <2> QED
    BY <1>6, <1>7, <2>1, <2>2, <2>3, ClientWire
<1>8. CASE UNCHANGED <<slots, up, tot, nb, proc>>
  <2>1. slots' = [slots EXCEPT ![c] = slots'[c]] /\ up' = [up EXCEPT ![c] = up'[c]]
    BY <1>1, <1>8 DEF SlotTypes, QueueTypes
  <2>2. CASE Client!OnRefusal(c, m)
    <3>1. /\ files' = [files EXCEPT ![Dir[c]][pseudo[c]] = NoCode]
          /\ pseudo' = [pseudo EXCEPT ![c] = Blank] /\ waiting' = [waiting EXCEPT ![c] = FALSE]
          /\ UNCHANGED <<connected, drawn>>
      BY <2>2 DEF Client!OnRefusal
    <3>2. files' \in [Client!Dirs -> [Names -> Nat \cup {NoCode, Blank}]]
      BY <1>1, <3>1 DEF LoginTypes
    <3>3. LoginTypes' /\ pseudo'[c] = Blank /\ \A d \in Clients : d # c => pseudo'[d] = pseudo[d]
      BY <1>1, <1>8, <3>1, <3>2 DEF LoginTypes
    <3> QED
      BY <1>6, <1>7, <1>8, <2>1, <3>3
  <2>3. CASE Client!OnWelcome(c, m)
    <3>1. LoginTypes' /\ pseudo' = pseudo
      BY <1>1, <1>8, <2>3 DEF Client!OnWelcome, LoginTypes
    <3> QED
      BY <1>6, <1>7, <1>8, <2>1, <3>1
  <2>4. CASE UNCHANGED Client!login
    <3>1. LoginTypes' /\ pseudo' = pseudo
      BY <1>1, <2>4 DEF Client!login, LoginTypes
    <3> QED
      BY <1>6, <1>7, <1>8, <2>1, <3>1
  <2> QED
    BY <1>2, <2>2, <2>3, <2>4 DEF Client!OnNegativeAck, Client!OnPositiveAck, Client!OnOther
<1>9. ASSUME Client!OnNegativeAck(c, m) \/ Client!OnPositiveAck(c, m)
      PROVE  WireInv'
  <2>1. m.type \in {"ack_pos", "ack_neg"} /\ ~Client!BadAck(c, m)
    BY <1>9 DEF Client!OnNegativeAck, Client!OnPositiveAck, Client!Acked
  <2>2. m.id \in 0 .. tot[c] - 1 /\ m.retr \in Retries /\ slots[c][m.id].type # "null"
    BY <1>4, <2>1 DEF DownMsgs, Answers, Acks, OtherAnswers, Client!BadAck
  <2>3. slots[c][m.id] \in Requests(tot[c], {-1})
    BY <1>6, <2>2, EmptyFields
  <2>4. UNCHANGED <<proc, pseudo, connected, waiting, drawn, files, tot, nb>>
    BY <1>9 DEF Client!OnNegativeAck, Client!OnPositiveAck, Client!login
  <2>5. LoginTypes' /\ pseudo' = pseudo
    BY <1>1, <2>4, LoginStays
  <2>6. CASE Client!OnNegativeAck(c, m)
    <3> DEFINE s == [slots[c][m.id] EXCEPT !.retr = m.retr]
    <3>1. s \in Requests(tot[c], {-1})
      BY <1>6, <2>2, <2>3, SetFields
    <3>2. slots' = [slots EXCEPT ![c][m.id].retr = m.retr]
          /\ up' = [up EXCEPT ![c] = Append(@, slots'[c][m.id])]
      BY <2>6 DEF Client!OnNegativeAck, Client!Send
    <3>3. slots'[c] = [slots[c] EXCEPT ![m.id] = s] /\ slots' = [slots EXCEPT ![c] = slots'[c]]
      BY <1>1, <3>2 DEF SlotTypes
    <3> HIDE DEF s
    <3>4. /\ slots'[c][m.id] = s
          /\ slots'[c] \in [0 .. tot[c] - 1 -> Requests(tot[c], {-1}) \cup Client!EmptySlots]
      BY <1>6, <2>2, <3>1, <3>3
    <3>5. up' = [up EXCEPT ![c] = up'[c]] /\ up'[c] \in Seq(Requests(tot[c], {-1}))
      <4>1. Append(up[c], s) \in Seq(Requests(tot[c], {-1}))
        BY <1>6, <3>1, AppendProperties
      <4>2. up' = [up EXCEPT ![c] = Append(@, s)]
        BY <3>2, <3>4
      <4> QED
        BY <1>1, <4>1, <4>2 DEF QueueTypes
    <3> QED
      BY <1>7, <2>4, <2>5, <3>3, <3>4, <3>5
  <2>7. CASE Client!OnPositiveAck(c, m)
    <3>1. slots' = [slots EXCEPT ![c][m.id] = Client!EmptyMsg] /\ up' = up
      BY <2>7 DEF Client!OnPositiveAck
    <3>2. Client!EmptyMsg \in Client!EmptySlots
      BY EmptyFields DEF EmptyMsg, Client!EmptyMsg
    <3>3. /\ slots' = [slots EXCEPT ![c] = slots'[c]] /\ up' = [up EXCEPT ![c] = up'[c]]
          /\ slots'[c] \in [0 .. tot[c] - 1 -> Requests(tot[c], {-1}) \cup Client!EmptySlots]
          /\ up'[c] \in Seq(Requests(tot[c], {-1}))
      BY <1>1, <1>6, <2>2, <3>1, <3>2 DEF SlotTypes, QueueTypes
    <3> QED
      BY <1>7, <2>4, <2>5, <3>3
  <2> QED
    BY <1>9, <2>6, <2>7
<1>10. CASE Client!OnRefusal(c, m) \/ Client!OnWelcome(c, m) \/ Client!OnOther(c, m)
  BY <1>8, <1>10 DEF Client!OnRefusal, Client!OnWelcome, Client!OnOther, Client!login, Client!table
<1> QED
  BY <1>2, <1>9, <1>10
-----------------------------------------------------------------------------
(* The steps of the proxy                                                  *)

(* What a step of the proxy, or of the server, leaves.                     *)
OnlyQueues ==
    /\ UNCHANGED <<proc, pseudo, connected, waiting, drawn, files, slots, tot, nb>>
    /\ UNCHANGED <<fds, nbFds, closed, ended, reset>>

LEMMA QueuesWire ==
  ASSUME WireInv, OnlyQueues, ServerTypes', QueueTypes'
  PROVE  WireInv'
<1>1. TableInv' /\ LoginTypes' /\ SlotTypes'
  BY TableStays, LoginStays, SlotsStay DEF WireInv, OnlyQueues
<1> QED
  BY <1>1 DEF WireInv

(* The sets of messages stay with what they are about.                     *)
LEMMA SameMessages ==
  ASSUME OnlyQueues
  PROVE  /\ SinMsgs' = SinMsgs /\ SoutMsgs' = SoutMsgs /\ Sessions' = Sessions
         /\ \A c : DownMsgs(c)' = DownMsgs(c)
BY DEF OnlyQueues, SinMsgs, SoutMsgs, DownMsgs, Sessions, Live

LEMMA FromClientWire == \A j \in PollSlots : WireInv /\ OnClientReceived(j) => WireInv'
<1> SUFFICES ASSUME NEW j \in PollSlots, WireInv, OnClientReceived(j) PROVE WireInv'
  OBVIOUS
<1> DEFINE c == fds[j]
           m == [Head(up[c]) EXCEPT !.sock = j]
<1>1. TableInv /\ SlotTypes /\ QueueTypes /\ ServerTypes
  BY DEF WireInv
<1>2. c \in Clients /\ up[c] # <<>> /\ up' = [up EXCEPT ![c] = Tail(@)] /\ sin' \in {sin, Append(sin, m)}
      /\ UNCHANGED <<proc, pseudo, connected, waiting, drawn, files, slots, tot, nb>>
      /\ UNCHANGED <<down, clients, index, stored, now, sout, fds, nbFds, closed, ended, reset>>
  BY DEF OnClientReceived, clientSide, serverSide, proxySide, table
<1>3. j \in Live
  BY <1>1, <1>2 DEF TableInv
<1>4. Head(up[c]) \in Requests(tot[c], {-1}) /\ Tail(up[c]) \in Seq(Requests(tot[c], {-1}))
  BY <1>1, <1>2, HeadTail DEF QueueTypes
<1>5. m \in Requests(tot[c], {j})
  BY <1>1, <1>2, <1>4, SetFields DEF SlotTypes
<1> HIDE DEF m
<1>6. m \in SinMsgs
  BY <1>3, <1>5 DEF SinMsgs
<1>7. sin' \in Seq(SinMsgs)
  <2>1. sin \in Seq(SinMsgs)
    BY <1>1 DEF QueueTypes
  <2>2. Append(sin, m) \in Seq(SinMsgs)
    BY <1>6, <2>1, AppendProperties
  <2> QED
    BY <1>2, <2>1, <2>2
<1>8. OnlyQueues
  BY <1>2 DEF OnlyQueues
<1> HIDE DEF c
<1>9. QueueTypes'
  BY <1>1, <1>2, <1>4, <1>7, <1>8, SameMessages DEF QueueTypes
<1>10. ServerTypes'
  BY <1>1, <1>2, <1>8, SameMessages DEF ServerTypes
<1> QED
  BY <1>8, <1>9, <1>10, QueuesWire

(* An answer finds the client that it is for: this is where a connection   *)
(* could be ended.                                                         *)
LEMMA ToClientWire == WireInv /\ NobodyLeft /\ OnServerReceived => WireInv'
<1> SUFFICES ASSUME WireInv, NobodyLeft, OnServerReceived PROVE WireInv'
  OBVIOUS
<1> DEFINE m == Head(sout)
           f == fds[m.sock]
<1>1. TableInv /\ SlotTypes /\ QueueTypes /\ ServerTypes
  BY DEF WireInv
<1>2. /\ sout # <<>> /\ sout' = Tail(sout)
      /\ UNCHANGED <<proc, pseudo, connected, waiting, drawn, files, slots, tot, nb>>
      /\ UNCHANGED <<up, clients, index, stored, now, sin, fds, nbFds, closed>>
  BY DEF OnServerReceived, clientSide, serverSide
<1>3. m \in SoutMsgs /\ Tail(sout) \in Seq(SoutMsgs)
  BY <1>1, <1>2, HeadTail DEF QueueTypes
<1>4. PICK j \in Live : m \in Answers(tot[fds[j]], {j})
  BY <1>3 DEF SoutMsgs
<1>5. m.sock = j /\ f = fds[j] /\ f \in Clients /\ reset = {} /\ proc[f] # "gone" /\ ~ended
  BY <1>1, <1>4 DEF Answers, Acks, OtherAnswers, TableInv
<1>6. m \in DownMsgs(f)
  BY <1>4, <1>5 DEF DownMsgs
<1>7. /\ down' = down \/ down' = [down EXCEPT ![f] = Append(@, m)]
      /\ UNCHANGED <<ended, reset>>
  BY <1>5 DEF OnServerReceived
<1>8. OnlyQueues
  BY <1>2, <1>7 DEF OnlyQueues
<1> HIDE DEF f, m
<1>9. down' = [d \in Clients |-> down'[d]] /\ \A d \in Clients : down'[d] \in Seq(DownMsgs(d))
  <2>1. Append(down[f], m) \in Seq(DownMsgs(f))
    BY <1>1, <1>5, <1>6, AppendProperties DEF QueueTypes
  <2> QED
    BY <1>1, <1>5, <1>7, <2>1 DEF QueueTypes
<1>10. QueueTypes'
  BY <1>1, <1>2, <1>3, <1>8, <1>9, SameMessages DEF QueueTypes
<1>11. ServerTypes'
  BY <1>1, <1>2, <1>8, SameMessages DEF ServerTypes
<1> QED
  BY <1>8, <1>10, <1>11, QueuesWire
-----------------------------------------------------------------------------
(* The steps of the server                                                 *)

(* The copies for the first k sessions of the table.                       *)
UpTo(u, m, n) ==
    u = [k \in 0 .. n |-> IF k = 0 THEN <<>> ELSE u[k - 1] \o Server!Copy(m, k - 1)]

LEMMA BroadcastSteps ==
  ASSUME NEW m
  PROVE  \E u : UpTo(u, m, MaxClients) /\ Server!Broadcast(m) = u[MaxClients]
<1> DEFINE T == {n \in 0 .. MaxClients : ~\E u : UpTo(u, m, n)}
<1>1. MaxClients \in Nat
  BY SystemAssumption
<1>2. T = {}
  <2>1. SUFFICES ASSUME T # {} PROVE FALSE
    OBVIOUS
  <2>2. PICK n \in T : \A k \in T : n <= k
    <3>1. T \subseteq Nat
      BY <1>1
    <3> QED
      BY <2>1, <3>1, Least
  <2>3. n \in Nat /\ n <= MaxClients
    BY <1>1, <2>2
  <2>4. CASE n = 0
    <3>1. UpTo([k \in 0 .. 0 |-> <<>>], m, 0)
      BY DEF UpTo
    <3> QED
      BY <2>2, <2>4, <3>1
  <2>5. CASE n > 0
    <3>1. n - 1 \in 0 .. MaxClients /\ n - 1 \notin T
      BY <1>1, <2>2, <2>3, <2>5
    <3>2. PICK u : UpTo(u, m, n - 1)
      BY <3>1
    <3> DEFINE v == [k \in 0 .. n |-> IF k = n THEN u[n - 1] \o Server!Copy(m, n - 1) ELSE u[k]]
    <3>3. \A k \in 0 .. n - 1 :
            v[k] = u[k] /\ u[k] = IF k = 0 THEN <<>> ELSE u[k - 1] \o Server!Copy(m, k - 1)
      <4>1. \A k \in 0 .. n - 1 : k \in 0 .. n /\ k # n
        BY <2>3
      <4>2. \A k \in 0 .. n - 1 : v[k] = u[k]
        BY <4>1
      <4> QED
        BY <3>2, <4>2 DEF UpTo
    <3>4. ASSUME NEW k \in 0 .. n
          PROVE  v[k] = IF k = 0 THEN <<>> ELSE v[k - 1] \o Server!Copy(m, k - 1)
      <4>1. CASE k = n
        <5>1. v[n - 1] = u[n - 1]
          BY <2>3, <2>5, <3>3
        <5> QED
          BY <2>3, <2>5, <4>1, <5>1
      <4>2. CASE k # n
        <5>1. k \in 0 .. n - 1 /\ (k # 0 => k - 1 \in 0 .. n - 1)
          BY <2>3, <4>2
        <5> QED
          BY <3>3, <5>1
      <4> QED
        BY <4>1, <4>2
    <3>5. v = [k \in 0 .. n |-> v[k]]
      OBVIOUS
    <3> HIDE DEF v
    <3>6. UpTo(v, m, n)
      BY <3>4, <3>5 DEF UpTo
    <3> QED
      BY <2>2, <3>6
  <2> QED
    BY <2>3, <2>4, <2>5
<1>3. \E u : UpTo(u, m, MaxClients)
  BY <1>1, <1>2
<1> DEFINE upTo[n \in 0 .. MaxClients] ==
             IF n = 0 THEN <<>> ELSE upTo[n - 1] \o Server!Copy(m, n - 1)
<1>4. Server!Broadcast(m) = upTo[MaxClients]
  BY DEF Server!Broadcast
<1>5. UpTo(upTo, m, MaxClients)
  BY <1>3 DEF UpTo
<1> QED
  BY <1>4, <1>5

LEMMA BroadcastType ==
  ASSUME NEW m, NEW S, \A i \in Server!CSlots : Server!Copy(m, i) \in Seq(S)
  PROVE  Server!Broadcast(m) \in Seq(S)
<1>1. PICK u : UpTo(u, m, MaxClients) /\ Server!Broadcast(m) = u[MaxClients]
  BY BroadcastSteps
<1>2. MaxClients \in Nat
  BY SystemAssumption
<1> DEFINE T == {n \in 0 .. MaxClients : u[n] \notin Seq(S)}
<1>3. T = {}
  <2>1. SUFFICES ASSUME T # {} PROVE FALSE
    OBVIOUS
  <2>2. PICK n \in T : \A k \in T : n <= k
    <3>1. T \subseteq Nat
      BY <1>2
    <3> QED
      BY <2>1, <3>1, Least
  <2>3. n \in Nat /\ n <= MaxClients
    BY <1>2, <2>2
  <2>4. n # 0
    <3>1. u[0] = <<>>
      BY <1>1, <1>2 DEF UpTo
    <3> QED
      BY <2>2, <3>1, EmptySeq
  <2>5. n - 1 \in 0 .. MaxClients /\ n - 1 \notin T /\ n - 1 \in Server!CSlots
    BY <1>2, <2>2, <2>3, <2>4 DEF Server!CSlots
  <2>6. u[n] = u[n - 1] \o Server!Copy(m, n - 1)
    BY <1>1, <1>2, <2>3, <2>4 DEF UpTo
  <2>7. u[n - 1] \in Seq(S) /\ Server!Copy(m, n - 1) \in Seq(S)
    BY <2>5
  <2>8. u[n] \in Seq(S)
    BY <2>6, <2>7, ConcatProperties
  <2> QED
    BY <2>2, <2>8
<1> QED
  BY <1>1, <1>2, <1>3

(* What the server answers to m goes where m came from.                    *)
LEMMA ServerMessages ==
  ASSUME NEW n \in Nat, NEW j \in Int, NEW m \in Requests(n, {j})
  PROVE  /\ Server!PositiveAck(m) \in Acks(n, {j})
         /\ m.retr <= RetrLimit => Server!NegativeAck(m) \in Acks(n, {j})
         /\ Server!ErrorMsg(m) \in OtherAnswers({j})
         /\ Server!WellConnected(m) \in OtherAnswers({j})
         /\ \A s \in Int : Server!ServerClientMsg(m, s) \in OtherAnswers({s})
<1>1. /\ m.id \in 0 .. n - 1 /\ m.sock = j /\ m.src \in Names /\ m.len \in {0, 1}
      /\ m.body \in Bodies /\ m.retr \in Retries
  BY DEF Requests
<1>2. 0 \in Retries /\ Blank \in Bodies /\ (m.retr <= RetrLimit => m.retr + 1 \in Retries)
  BY <1>1, SystemAssumption DEF Retries, Bodies
<1>3. Server!PositiveAck(m) \in Acks(n, {j})
  BY <1>1 DEF Server!PositiveAck, Server!EmptyMsg, Acks
<1>4. m.retr <= RetrLimit => Server!NegativeAck(m) \in Acks(n, {j})
  BY <1>1, <1>2 DEF Server!NegativeAck, Server!EmptyMsg, Acks
<1>5. Server!ErrorMsg(m) \in OtherAnswers({j}) /\ Server!WellConnected(m) \in OtherAnswers({j})
  BY <1>1, <1>2 DEF Server!ErrorMsg, Server!WellConnected, Server!EmptyMsg, OtherAnswers
<1>6. \A s \in Int : Server!ServerClientMsg(m, s) \in OtherAnswers({s})
  BY <1>1, <1>2 DEF Server!ServerClientMsg, Server!EmptyMsg, OtherAnswers
<1> QED
  BY <1>3, <1>4, <1>5, <1>6

LEMMA ServerWire == WireInv /\ ServerReads => WireInv'
<1> SUFFICES ASSUME WireInv, ServerReads PROVE WireInv'
  OBVIOUS
<1>1. TableInv /\ SlotTypes /\ QueueTypes /\ ServerTypes
  BY DEF WireInv
<1>2. PICK m \in Server!Incoming : Server!OnMsgReceived(m)
  BY DEF ServerReads
<1>3. sin # <<>> /\ m = Head(sin)
  BY <1>2 DEF Server!Incoming
<1>4. UNCHANGED <<proc, pseudo, connected, waiting, drawn, files, slots, tot, nb>>
      /\ UNCHANGED <<up, down, fds, nbFds, closed, ended, reset>>
  BY DEF ServerReads, clientSide, proxySide, table
<1>5. OnlyQueues
  BY <1>4 DEF OnlyQueues
<1>6. m \in SinMsgs /\ Tail(sin) \in Seq(SinMsgs)
  BY <1>1, <1>3, HeadTail DEF QueueTypes
<1>7. PICK j \in Live : m \in Requests(tot[fds[j]], {j})
  BY <1>6 DEF SinMsgs
<1>8. /\ j \in Int /\ tot[fds[j]] \in Nat /\ m.sock = j /\ m.src \in Names
      /\ Answers(tot[fds[j]], {j}) \subseteq SoutMsgs /\ j \in Nat
      /\ \A k \in Live : k \in Int /\ OtherAnswers({k}) \subseteq SoutMsgs
  <2>1. \A k \in Live : k \in Nat /\ k \in Int /\ fds[k] \in Clients
    BY <1>1 DEF Live, TableInv
  <2>2. \A k \in Live : Answers(tot[fds[k]], {k}) \subseteq SoutMsgs
    BY DEF SoutMsgs
  <2>3. tot[fds[j]] \in Nat /\ m.sock = j /\ m.src \in Names
    BY <1>1, <1>7, <2>1 DEF SlotTypes, Requests
  <2> QED
    BY <2>1, <2>2, <2>3 DEF Answers
<1>9. \A a \in Acks(tot[fds[j]], {j}) \cup OtherAnswers({j}) : a \in SoutMsgs
  BY <1>8 DEF Answers
<1>10. ASSUME NEW r \in Seq(SoutMsgs), sin' = Tail(sin), sout' = sout \o r, ServerTypes'
       PROVE  WireInv'
  <2>1. sout' \in Seq(SoutMsgs)
    BY <1>1, <1>10, ConcatProperties DEF QueueTypes
  <2>2. QueueTypes'
    BY <1>1, <1>4, <1>5, <1>6, <1>10, <2>1, SameMessages DEF QueueTypes
  <2> QED
    BY <1>5, <1>10, <2>2, QueuesWire
<1>11. Sessions' = Sessions
  BY <1>5, SameMessages
<1>12. index \in [Names -> Server!CSlots \cup {-1}] /\ now \in 0 .. MaxTime
       /\ clients \in [Server!CSlots -> Sessions \cup {Null}] /\ stored = [p \in Names |-> stored[p]]
  BY <1>1 DEF ServerTypes
<1>13. Server!Cleaned(m.src) \in [Names -> Server!CSlots \cup {-1}]
  BY <1>8, <1>12 DEF Server!Cleaned
<1>14. CASE Server!IgnoreShort(m)
  <2>1. sin' = Tail(sin) /\ sout' = sout /\ UNCHANGED <<clients, index, stored, now>>
    BY <1>14 DEF Server!IgnoreShort, Server!Receive, Server!state
  <2>2. ServerTypes'
    BY <1>11, <1>12, <2>1 DEF ServerTypes
  <2>3. sout' = sout \o <<>> /\ <<>> \in Seq(SoutMsgs)
    BY <1>1, <2>1, ConcatEmptySeq, EmptySeq DEF QueueTypes
  <2> QED
    BY <1>10, <2>1, <2>2, <2>3
<1>15. CASE Server!Refuse(m)
  <2>1. /\ sin' = Tail(sin) /\ sout' = sout \o <<Server!ErrorMsg(m)>>
        /\ index' = Server!Cleaned(m.src) /\ UNCHANGED <<clients, stored, now>>
    BY <1>15 DEF Server!Refuse, Server!Connection, Server!Receive, Server!Answer
  <2>2. ServerTypes'
    BY <1>11, <1>12, <1>13, <2>1 DEF ServerTypes
  <2>3. <<Server!ErrorMsg(m)>> \in Seq(SoutMsgs)
    <3>1. Server!ErrorMsg(m) \in SoutMsgs
      BY <1>7, <1>8, <1>9, ServerMessages
    <3> QED
      BY <3>1
  <2> QED
    BY <1>10, <2>1, <2>2, <2>3
<1>16. [pseudo |-> m.src, last |-> now, sock |-> m.sock] \in Sessions
  BY <1>7, <1>8, <1>12 DEF Sessions
<1>17. <<Server!WellConnected(m)>> \in Seq(SoutMsgs)
  <2>1. Server!WellConnected(m) \in SoutMsgs
    BY <1>7, <1>8, <1>9, ServerMessages
  <2> QED
    BY <2>1
<1>18. CASE Server!TakeOver(m)
  <2>1. /\ sin' = Tail(sin) /\ sout' = sout \o <<Server!WellConnected(m)>>
        /\ Server!Found(m.src) # Null
        /\ clients' = [clients EXCEPT ![index[m.src]] =
                         [pseudo |-> @.pseudo, last |-> now, sock |-> m.sock]]
        /\ stored' = [stored EXCEPT ![m.src] = m.body] /\ UNCHANGED <<index, now>>
    BY <1>18 DEF Server!TakeOver, Server!Connection, Server!Receive, Server!Answer
  <2> DEFINE i == index[m.src]
  <2>2. i \in Server!CSlots /\ clients[i] # Null /\ clients[i] \in Sessions
    BY <1>8, <1>12, <2>1 DEF Server!Found
  <2>3. [pseudo |-> clients[i].pseudo, last |-> now, sock |-> m.sock] \in Sessions
    BY <1>7, <1>8, <1>12, <2>2 DEF Sessions
  <2>4. clients' \in [Server!CSlots -> Sessions \cup {Null}]
    BY <1>12, <2>1, <2>2, <2>3
  <2>5. stored' = [p \in Names |-> stored'[p]]
    BY <1>12, <2>1
  <2>6. ServerTypes'
    BY <1>11, <1>12, <2>1, <2>4, <2>5 DEF ServerTypes
  <2> QED
    BY <1>10, <1>17, <2>1, <2>6
<1>19. ASSUME NEW i \in Server!CSlots, Server!Register(m, i) PROVE WireInv'
  <2>1. /\ sin' = Tail(sin) /\ sout' = sout \o <<Server!WellConnected(m)>>
        /\ clients' = [clients EXCEPT ![i] = [pseudo |-> m.src, last |-> now, sock |-> m.sock]]
        /\ index' = [index EXCEPT ![m.src] = i]
        /\ stored' = [stored EXCEPT ![m.src] = m.body] /\ now' = now
    BY <1>19 DEF Server!Register, Server!Connection, Server!Receive, Server!Answer
  <2>2. /\ clients' \in [Server!CSlots -> Sessions \cup {Null}]
        /\ index' \in [Names -> Server!CSlots \cup {-1}] /\ stored' = [p \in Names |-> stored'[p]]
    BY <1>12, <1>16, <2>1
  <2>3. ServerTypes'
    BY <1>11, <1>12, <2>1, <2>2 DEF ServerTypes
  <2> QED
    BY <1>10, <1>17, <2>1, <2>3
<1>20. CASE Server!Deliver(m)
  <2>1. /\ sin' = Tail(sin)
        /\ sout' = sout \o (<<Server!PositiveAck(m)>> \o Server!Broadcast(m))
        /\ index' = Server!Cleaned(m.src) /\ UNCHANGED <<clients, stored, now>>
    BY <1>20 DEF Server!Deliver, Server!Std, Server!Receive, Server!Answer
  <2>2. ServerTypes'
    BY <1>11, <1>12, <1>13, <2>1 DEF ServerTypes
  <2>3. <<Server!PositiveAck(m)>> \in Seq(SoutMsgs)
    <3>1. Server!PositiveAck(m) \in SoutMsgs
      BY <1>7, <1>8, <1>9, ServerMessages
    <3> QED
      BY <3>1
  <2>4. ASSUME NEW i \in Server!CSlots PROVE Server!Copy(m, i) \in Seq(SoutMsgs)
    <3>1. CASE clients[i] = Null
      BY <3>1, EmptySeq DEF Server!Copy
    <3>2. CASE clients[i] # Null
      <4>1. clients[i].sock \in Live
        BY <1>12, <3>2 DEF Sessions
      <4>2. Server!ServerClientMsg(m, clients[i].sock) \in SoutMsgs
        BY <1>7, <1>8, <4>1, ServerMessages
      <4> QED
        BY <3>2, <4>2 DEF Server!Copy
    <3> QED
      BY <3>1, <3>2
  <2>5. Server!Broadcast(m) \in Seq(SoutMsgs)
    BY <2>4, BroadcastType
  <2>6. <<Server!PositiveAck(m)>> \o Server!Broadcast(m) \in Seq(SoutMsgs)
    BY <2>3, <2>5, ConcatProperties
  <2> QED
    BY <1>10, <2>1, <2>2, <2>6
<1>21. CASE Server!AskAgain(m)
  <2>1. /\ sin' = Tail(sin) /\ sout' = sout \o <<Server!NegativeAck(m)>> /\ m.retr <= RetrLimit
        /\ index' = Server!Cleaned(m.src) /\ UNCHANGED <<clients, stored, now>>
    BY <1>21 DEF Server!AskAgain, Server!Std, Server!Receive, Server!Answer
  <2>2. ServerTypes'
    BY <1>11, <1>12, <1>13, <2>1 DEF ServerTypes
  <2>3. <<Server!NegativeAck(m)>> \in Seq(SoutMsgs)
    <3>1. Server!NegativeAck(m) \in SoutMsgs
      BY <1>7, <1>8, <1>9, <2>1, ServerMessages
    <3> QED
      BY <3>1
  <2> QED
    BY <1>10, <2>1, <2>2, <2>3
<1> QED
  BY <1>2, <1>14, <1>15, <1>18, <1>19, <1>20, <1>21 DEF Server!OnMsgReceived

LEMMA TickWire == WireInv /\ Tick => WireInv'
<1> SUFFICES ASSUME WireInv, Tick PROVE WireInv'
  OBVIOUS
<1>1. /\ OnlyQueues /\ now' \in 0 .. MaxTime
      /\ UNCHANGED <<up, down, sin, sout, clients, index, stored>>
  BY SystemAssumption DEF Tick, Server!Tick, Server!state, WireInv, ServerTypes, OnlyQueues,
                          clientSide, proxySide, table
<1>2. QueueTypes'
  BY <1>1, SameMessages DEF WireInv, QueueTypes, OnlyQueues
<1>3. ServerTypes'
  BY <1>1, SameMessages DEF WireInv, ServerTypes
<1> QED
  BY <1>1, <1>2, <1>3, QueuesWire
-----------------------------------------------------------------------------
ProcType == proc \in [Clients -> {"off", "on", "gone"}]

(* Who left does not come back.                                            *)
LEMMA NobodyLeftBefore ==
  ASSUME ProcType, [Next]_vars
  PROVE  ProcType' /\ (NobodyLeft' => NobodyLeft)
<1>1. proc \in [Clients -> {"off", "on", "gone"}]
  BY DEF ProcType
<1>2. ASSUME NEW d \in Clients, NEW v \in {"on", "gone"},
             proc' = [proc EXCEPT ![d] = v], v = "on" => proc[d] = "off"
      PROVE  ProcType' /\ (NobodyLeft' => NobodyLeft)
  BY <1>1, <1>2 DEF ProcType, NobodyLeft
<1>3. ASSUME proc' = proc PROVE ProcType' /\ (NobodyLeft' => NobodyLeft)
  BY <1>3 DEF ProcType, NobodyLeft
<1>4. ASSUME NEW d \in Clients, Join(d) PROVE ProcType' /\ (NobodyLeft' => NobodyLeft)
  BY <1>2, <1>4 DEF Join, Client!Start
<1>5. ASSUME NEW d \in Clients, Leave(d) \/ ClientReadsBeyond(d)
      PROVE  ProcType' /\ (NobodyLeft' => NobodyLeft)
  BY <1>2, <1>5 DEF Leave, ClientReadsBeyond, Client!Leave, Client!ReadBeyond, Client!Stop
<1>6. ASSUME NEW d \in Clients, UserActs(d) \/ ClientReads(d) PROVE proc' = proc
  BY <1>6 DEF UserActs, ClientReads, Client!Login, Client!RequestLogin, Client!Speak, Client!Say,
     Client!SayGrowing, Client!OnMsg, Client!OnRefusal, Client!OnWelcome, Client!OnNegativeAck,
     Client!OnPositiveAck, Client!OnOther, Client!login
<1>7. CASE Proxy \/ ServerReads \/ Tick
  <2>1. proc' = proc
    BY <1>7 DEF Proxy, OnClientReceived, OnClientLeft, OnClientReset, Compress, OnServerReceived,
                ServerReads, Tick, clientSide
  <2> QED
    BY <1>3, <2>1
<1>8. CASE UNCHANGED vars
  BY <1>3, <1>8 DEF vars, clientSide
<1> QED
  BY <1>3, <1>4, <1>5, <1>6, <1>7, <1>8 DEF Next

LEMMA NextWire ==
  ASSUME WireInv, NobodyLeft, NobodyLeft', [Next]_vars
  PROVE  WireInv'
<1>1. ASSUME NEW c \in Clients, Join(c) PROVE WireInv'
  BY <1>1, JoinWire
<1>2. ASSUME NEW c \in Clients, Leave(c) \/ ClientReadsBeyond(c) PROVE FALSE
  <2>1. proc'[c] = "gone"
    BY <1>2 DEF Leave, ClientReadsBeyond, Client!Leave, Client!ReadBeyond, Client!Stop, WireInv,
                LoginTypes
  <2> QED
    BY <2>1 DEF NobodyLeft
<1>3. ASSUME NEW c \in Clients, UserActs(c) PROVE WireInv'
  <2>1. CASE \E p \in Names : Client!Login(c, p)
    BY <1>3, <2>1, LoginWire DEF UserActs
  <2>2. CASE Client!Speak(c, Blank)
    BY <1>3, <2>2, SpeakWire DEF UserActs
  <2>3. CASE Client!Speak(c, <<c, nb[c]>>)
    <3>1. nb[c] \in Nat /\ nb[c] > 0 /\ nb[c] < MaxSent
      BY <2>3 DEF Client!Speak, Client!Say, Client!SayGrowing, Client!CanTalk, WireInv, SlotTypes
    <3>2. <<c, nb[c]>> \in Texts
      BY <3>1, SystemAssumption DEF Texts
    <3> QED
      BY <1>3, <2>3, <3>2, SpeakWire DEF UserActs
  <2> QED
    BY <1>3, <2>1, <2>2, <2>3 DEF UserActs
<1>4. ASSUME NEW c \in Clients, ClientReads(c) PROVE WireInv'
  <2>1. UNCHANGED <<serverSide, sin, sout, proxySide>> /\ Client!OnMsg(c)
    BY <1>4 DEF ClientReads
  <2> QED
    BY <2>1, ReadWire
<1>5. ASSUME NEW j \in PollSlots, OnClientReceived(j) PROVE WireInv'
  BY <1>5, FromClientWire
<1>6. ASSUME NEW j \in PollSlots, OnClientLeft(j) PROVE FALSE
  BY <1>6 DEF OnClientLeft, NobodyLeft
<1>7. ASSUME NEW j \in PollSlots, OnClientReset(j) PROVE FALSE
  BY <1>7 DEF OnClientReset, WireInv, TableInv
<1>8. ~Compress
  BY DEF Compress, WireInv, TableInv
<1>9. CASE OnServerReceived
  BY <1>9, ToClientWire
<1>10. CASE ServerReads
  BY <1>10, ServerWire
<1>11. CASE Tick
  BY <1>11, TickWire
<1>12. CASE UNCHANGED vars
  <2>1. OnlyQueues /\ UNCHANGED <<up, down, sin, sout, clients, index, stored, now>>
    BY <1>12 DEF vars, clientSide, serverSide, proxySide, table, OnlyQueues
  <2>2. QueueTypes'
    BY <2>1, SameMessages DEF WireInv, QueueTypes, OnlyQueues
  <2>3. ServerTypes'
    BY <2>1, SameMessages DEF WireInv, ServerTypes
  <2> QED
    BY <2>1, <2>2, <2>3, QueuesWire
<1> QED
  BY <1>1, <1>2, <1>3, <1>4, <1>5, <1>6, <1>7, <1>8, <1>9, <1>10, <1>11, <1>12 DEF Next, Proxy

(* The inductive invariant: as long as nobody leaves, what is on its way   *)
(* in any of the four queues of a client is about a slot that it has, and  *)
(* is marked with the place of its connection in the proxy's table.        *)
THEOREM Invariant == Spec => [](ProcType /\ (NobodyLeft => WireInv))
<1>1. Init => ProcType /\ (NobodyLeft => WireInv)
  BY InitWire DEF ProcType, Init, Client!ClientInit
<1>2. (ProcType /\ (NobodyLeft => WireInv)) /\ [Next]_vars
        => (ProcType /\ (NobodyLeft => WireInv))'
  BY NobodyLeftBefore, NextWire
<1> QED
  BY <1>1, <1>2, PTL DEF Spec

(* As long as nobody leaves, on_server_received sends to connections only, *)
(* in any order of logins, texts, retransmissions and sessions that are    *)
(* taken over: the proxy never ends the connections of its clients.        *)
THEOREM StaysOpen == Spec => []OpenWhileAllStay
<1>1. (NobodyLeft => WireInv) => OpenWhileAllStay
  BY DEF WireInv, TableInv, OpenWhileAllStay
<1> QED
  BY <1>1, Invariant, PTL
-----------------------------------------------------------------------------
(* What is on its way between a client and the server                      *)

Msgs ==
    [type : {"connection", "std", "error", "well_connected", "ack_pos", "ack_neg",
             "server_client"},
     id : Int, sock : Int, src : Names \cup {Blank}, len : {0, 1}, body : Bodies, retr : Nat]

(* What is marked with the place of client c.                              *)
Of(c) == {m \in Msgs : m.sock \in SlotOf(c)}

(* The requests in R and the answers in A that are on their way for c.     *)
Flow(c, R, A) ==
    Count(up[c], R) + Count(sin, R \cap Of(c)) + Count(sout, A \cap Of(c)) + Count(down[c], A)

Logins       == {m \in Msgs : m.type = "connection"}
LoginAnswers == {m \in Msgs : m.type \in {"error", "well_connected"}}
Welcomes     == {m \in Msgs : m.type = "well_connected"}
LoginsFrom(p) == {m \in Logins : m.src = p}
TextsOf(i)   == {m \in Msgs : m.type = "std" /\ m.id = i}
AcksOf(i)    == {m \in Msgs : m.type \in {"ack_pos", "ack_neg"} /\ m.id = i}

(* The text in slot s, wherever it has got to.                             *)
CopiesOf(s) == {m \in Msgs : [m EXCEPT !.sock = -1] = s}

(* The table of sessions and the hashmap agree, and each session has a     *)
(* code.                                                                   *)
SessionsInv ==
    /\ \A p \in Names : index[p] # -1 => clients[index[p]] # Null /\ clients[index[p]].pseudo = p
    /\ \A i \in Server!CSlots : clients[i] # Null =>
         index[clients[i].pseudo] = i /\ stored[clients[i].pseudo] # NoCode

(* What a client that is welcomed can rely on.                             *)
Welcomed(c) ==
    /\ pseudo[c] \in Names \ ShortNames
    /\ \E i \in Server!CSlots :
         /\ clients[i] # Null /\ clients[i].pseudo = pseudo[c]
         /\ clients[i].sock \in SlotOf(c) \/ clients[i].last >= Timeout

(* A client that waits has one request, or one answer to it, on its way,   *)
(* or none any more; one that does not, none.                              *)
LoginInv(c) ==
    /\ connected[c] => Welcomed(c) /\ ~waiting[c]
    /\ waiting[c] => pseudo[c] \in Names
    /\ Flow(c, Logins, LoginAnswers) <= IF waiting[c] THEN 1 ELSE 0
    /\ Flow(c, Logins \ LoginsFrom(pseudo[c]), {}) = 0
    /\ Flow(c, {}, Welcomes) = 0 \/ Welcomed(c)

TakenIn(c) == 0 .. tot[c] - 1 \ Client!FreeIn(c)

(* A text knows its slot, which is one of as many as there were messages.  *)
SlotsInv(c) ==
    /\ Cardinality(TakenIn(c)) <= nb[c]
    /\ \A i \in 0 .. tot[c] - 1 : slots[c][i].type = "std" =>
         slots[c][i].id = i /\ i < nb[c] /\ connected[c] /\ slots[c][i].src = pseudo[c]

(* TextsOnTheirWay, and that nothing else comes to the server in the place *)
(* of the text that the slot holds.                                        *)
OnItsWay(c, i) ==
    LET said == Client!Awaited(c, i)
        flow == Flow(c, TextsOf(i), AcksOf(i))
    IN  /\ IF said /\ slots[c][i].len = 0 THEN flow <= 1 /\ Flow(c, {}, AcksOf(i)) = 0
           ELSE flow = IF said THEN 1 ELSE 0
        /\ said => Flow(c, TextsOf(i) \ CopiesOf(slots[c][i]), {}) = 0

WayInv(c) == \A i \in Nat : OnItsWay(c, i)

PassedInv == \A k \in DOMAIN sin : Passed(sin[k])

Talk(c) == LoginInv(c) /\ SlotsInv(c) /\ WayInv(c)

TalkInv == SessionsInv /\ PassedInv /\ \A c \in Clients : Talk(c)
-----------------------------------------------------------------------------
(* Sets of requests and of answers, which hold a message wherever it has   *)
(* got to.                                                                 *)
Asked    == {m \in Msgs : m.type \in {"connection", "std"}}
Answered == {m \in Msgs : m.type \in {"error", "well_connected", "ack_pos", "ack_neg"}}

Replies  == Msgs \ Asked

Kinds(R, A) ==
    /\ R \subseteq Asked /\ A \subseteq Answered
    /\ \A m \in Msgs, j \in Int : [m EXCEPT !.sock = j] \in R <=> m \in R

LEMMA MarkedMsgs ==
  \A m \in Msgs, j \in Int :
     /\ [m EXCEPT !.sock = j] \in Msgs
     /\ [m EXCEPT !.sock = j].type = m.type /\ [m EXCEPT !.sock = j].id = m.id
     /\ [m EXCEPT !.sock = j].sock = j
     /\ [m EXCEPT !.sock = j].src = m.src /\ [m EXCEPT !.sock = j].len = m.len
     /\ [[m EXCEPT !.sock = j] EXCEPT !.sock = -1] = [m EXCEPT !.sock = -1]
BY DEF Msgs

LEMMA AllKinds ==
  /\ Kinds(Logins, LoginAnswers) /\ Kinds({}, Welcomes)
  /\ \A p : Kinds(Logins \ LoginsFrom(p), {})
  /\ \A i : Kinds(TextsOf(i), AcksOf(i)) /\ Kinds(TextsOf(i), {}) /\ Kinds({}, AcksOf(i))
  /\ \A i, s : /\ Kinds(TextsOf(i) \ CopiesOf(s), {})
               /\ Kinds(TextsOf(i) \ CopiesOf(s), AcksOf(i))
<1>1. Kinds(Logins, LoginAnswers) /\ Kinds({}, Welcomes)
  BY MarkedMsgs DEF Kinds, Asked, Answered, Logins, LoginAnswers, Welcomes
<1>2. \A p : Kinds(Logins \ LoginsFrom(p), {})
  BY MarkedMsgs DEF Kinds, Asked, Answered, Logins, LoginsFrom
<1>3. \A i : Kinds(TextsOf(i), AcksOf(i)) /\ Kinds(TextsOf(i), {}) /\ Kinds({}, AcksOf(i))
  BY MarkedMsgs DEF Kinds, Asked, Answered, TextsOf, AcksOf
<1>4. ASSUME NEW i, NEW s
      PROVE  /\ Kinds(TextsOf(i) \ CopiesOf(s), {})
             /\ Kinds(TextsOf(i) \ CopiesOf(s), AcksOf(i))
  <2> DEFINE R == TextsOf(i) \ CopiesOf(s)
  <2>1. ASSUME NEW m \in Msgs, NEW j \in Int PROVE [m EXCEPT !.sock = j] \in R <=> m \in R
    <3> DEFINE n == [m EXCEPT !.sock = j]
    <3>1. n \in Msgs /\ [n EXCEPT !.sock = -1] = [m EXCEPT !.sock = -1]
      BY MarkedMsgs
    <3>2. n \in CopiesOf(s) <=> m \in CopiesOf(s)
      BY <3>1 DEF CopiesOf
    <3>3. n \in TextsOf(i) <=> m \in TextsOf(i)
      BY <1>3, <3>1 DEF Kinds
    <3> QED
      BY <3>2, <3>3
  <2>2. R \subseteq Asked /\ {} \subseteq Answered /\ AcksOf(i) \subseteq Answered
    BY <1>3 DEF Kinds
  <2> QED
    BY <2>1, <2>2 DEF Kinds
<1> QED
  BY <1>1, <1>2, <1>3, <1>4

LEMMA RequestMsgs ==
  ASSUME NEW n \in Nat, NEW s, s \subseteq Int
  PROVE  Requests(n, s) \subseteq Asked /\ Answers(n, s) \subseteq Replies
<1>1. 0 .. n - 1 \subseteq Int /\ -1 \in Int /\ Retries \subseteq Nat /\ 0 \in Nat /\ Blank \in Bodies
  BY SystemAssumption DEF Retries, Bodies
<1>2. ASSUME NEW m \in Requests(n, s) PROVE m \in Asked
  BY <1>1 DEF Requests, Asked, Msgs
<1>3. Acks(n, s) \subseteq Replies
  BY <1>1 DEF Acks, Msgs, Replies, Asked
<1>4. OtherAnswers(s) \subseteq Replies
  BY <1>1 DEF OtherAnswers, Msgs, Replies, Asked
<1> QED
  BY <1>2, <1>3, <1>4 DEF Answers

(* What the queues hold.                                                   *)
LEMMA QueueMsgs ==
  ASSUME WireInv
  PROVE  /\ \A c \in Clients : up[c] \in Seq(Asked) /\ down[c] \in Seq(Replies)
         /\ sin \in Seq(Asked) /\ sout \in Seq(Replies)
         /\ \A m \in SinMsgs : m \in Asked /\ m.sock \in Live
         /\ \A m \in SoutMsgs : m \in Replies /\ m.sock \in Live
         /\ \A k \in DOMAIN sin : sin[k] \in SinMsgs
         /\ \A k \in DOMAIN sout : sout[k] \in SoutMsgs
<1>1. TableInv /\ SlotTypes /\ QueueTypes
  BY DEF WireInv
<1>2. \A j \in Live : j \in Int /\ {j} \subseteq Int /\ fds[j] \in Clients /\ tot[fds[j]] \in Nat
  <2>1. \A j \in Live : j \in Int /\ {j} \subseteq Int
    BY DEF Live
  <2>2. \A j \in Live : fds[j] \in Clients
    BY <1>1 DEF TableInv
  <2> QED
    BY <1>1, <2>1, <2>2 DEF SlotTypes
<1>3. ASSUME NEW m \in SinMsgs PROVE m \in Asked /\ m.sock \in Live
  <2>1. PICK j \in Live : m \in Requests(tot[fds[j]], {j})
    BY DEF SinMsgs
  <2> QED
    BY <1>2, <2>1, RequestMsgs DEF Requests
<1>4. ASSUME NEW m \in SoutMsgs PROVE m \in Replies /\ m.sock \in Live
  <2>1. PICK j \in Live : m \in Answers(tot[fds[j]], {j})
    BY DEF SoutMsgs
  <2>2. m.sock = j
    BY <2>1 DEF Answers, Acks, OtherAnswers
  <2> QED
    BY <1>2, <2>1, <2>2, RequestMsgs
<1>5. sin \in Seq(Asked) /\ sout \in Seq(Replies)
  BY <1>1, <1>3, <1>4, SeqMono DEF QueueTypes
<1>6. ASSUME NEW c \in Clients PROVE up[c] \in Seq(Asked) /\ down[c] \in Seq(Replies)
  <2>1. tot[c] \in Nat /\ {-1} \subseteq Int
    BY <1>1 DEF SlotTypes
  <2>2. Requests(tot[c], {-1}) \subseteq Asked
    BY <2>1, RequestMsgs
  <2>3. ASSUME NEW m \in DownMsgs(c) PROVE m \in Replies
    <3>1. PICK j \in Live : m \in Answers(tot[c], {j})
      BY DEF DownMsgs
    <3> QED
      BY <1>2, <2>1, <3>1, RequestMsgs
  <2>4. Seq(Requests(tot[c], {-1})) \subseteq Seq(Asked) /\ Seq(DownMsgs(c)) \subseteq Seq(Replies)
    BY <2>2, <2>3, SeqMono
  <2> QED
    BY <1>1, <2>4 DEF QueueTypes
<1>7. /\ \A k \in DOMAIN sin : sin[k] \in SinMsgs
      /\ \A k \in DOMAIN sout : sout[k] \in SoutMsgs
  <2>1. sin \in Seq(SinMsgs) /\ sout \in Seq(SoutMsgs)
    BY <1>1 DEF QueueTypes
  <2> QED
    BY <2>1, ElementOfSeq, LenProperties
<1> QED
  BY <1>3, <1>4, <1>5, <1>6, <1>7

LEMMA FlowType ==
  ASSUME WireInv, NEW c \in Clients, NEW R, NEW A
  PROVE  /\ Flow(c, R, A) \in Nat
         /\ \A Q, B : Q \subseteq R /\ B \subseteq A => Flow(c, Q, B) <= Flow(c, R, A)
<1>1. /\ up[c] \in Seq(Asked) /\ down[c] \in Seq(Replies) /\ sin \in Seq(Asked) /\ sout \in Seq(Replies)
  BY QueueMsgs
<1>2. \A Q, B : /\ Count(up[c], Q) \in Nat /\ Count(sin, Q \cap Of(c)) \in Nat
                /\ Count(sout, B \cap Of(c)) \in Nat /\ Count(down[c], B) \in Nat
  BY <1>1, CountType
<1>3. ASSUME NEW Q, NEW B, Q \subseteq R, B \subseteq A
      PROVE  Flow(c, Q, B) <= Flow(c, R, A)
  <2>1. Q \cap Of(c) \subseteq R \cap Of(c) /\ B \cap Of(c) \subseteq A \cap Of(c)
    BY <1>3
  <2>2. Count(up[c], Q) <= Count(up[c], R) /\ Count(down[c], B) <= Count(down[c], A)
    BY <1>1, <1>3, CountMore
  <2>3. /\ Count(sin, Q \cap Of(c)) <= Count(sin, R \cap Of(c))
        /\ Count(sout, B \cap Of(c)) <= Count(sout, A \cap Of(c))
    BY <1>1, <2>1, CountMore
  <2>4. /\ Count(up[c], Q) \in Nat /\ Count(sin, Q \cap Of(c)) \in Nat
        /\ Count(sout, B \cap Of(c)) \in Nat /\ Count(down[c], B) \in Nat
        /\ Count(up[c], R) \in Nat /\ Count(sin, R \cap Of(c)) \in Nat
        /\ Count(sout, A \cap Of(c)) \in Nat /\ Count(down[c], A) \in Nat
    BY <1>2
  <2> QED
    BY <2>2, <2>3, <2>4 DEF Flow
<1>4. Flow(c, R, A) \in Nat
  <2>1. /\ Count(up[c], R) \in Nat /\ Count(sin, R \cap Of(c)) \in Nat
        /\ Count(sout, A \cap Of(c)) \in Nat /\ Count(down[c], A) \in Nat
    BY <1>2
  <2> QED
    BY <2>1 DEF Flow
<1> QED
  BY <1>3, <1>4

(* Message y takes the place of message x on the way of client c.          *)
One(x, S) == IF x \in S THEN 1 ELSE 0

Exchanged(c, x, y) ==
    \A R, A : Kinds(R, A) =>
        Flow(c, R, A)' + One(x, R \cup A) = Flow(c, R, A) + One(y, R \cup A)

Nothing == EmptyMsg

LEMMA Ones ==
  ASSUME NEW R, NEW A, Kinds(R, A)
  PROVE  /\ One(Nothing, R \cup A) = 0
         /\ \A m \in Asked : One(m, R \cup A) = One(m, R)
         /\ \A m \in Replies : One(m, R \cup A) = One(m, A)
         /\ \A m, S : One(m, S) \in {0, 1}
<1>1. Nothing \notin Asked /\ Nothing \notin Answered /\ \A m \in Answered : m \notin Asked
  BY DEF Nothing, EmptyMsg, Asked, Answered, Msgs
<1> QED
  BY <1>1 DEF One, Kinds, Replies

LEMMA SameSlots ==
  ASSUME UNCHANGED <<fds, nbFds>>
  PROVE  \A c : SlotOf(c)' = SlotOf(c) /\ Of(c)' = Of(c)
BY DEF SlotOf, Of

LEMMA PlaceOf ==
  ASSUME WireInv, NEW c \in Clients
  PROVE  \A j \in Live : j \in SlotOf(c) <=> fds[j] = c
<1>1. \A j \in Live : j \in PollSlots /\ j < nbFds
  BY ProxyAssumption DEF WireInv, TableInv, Live, PollSlots
<1> QED
  BY <1>1 DEF SlotOf

LEMMA KeptFlow ==
  ASSUME NEW c \in Clients, UNCHANGED <<up[c], down[c], sin, sout, fds, nbFds>>
  PROVE  Exchanged(c, Nothing, Nothing)
<1>1. Of(c)' = Of(c)
  BY SameSlots
<1>2. \A R, A : Flow(c, R, A)' = Flow(c, R, A)
  BY <1>1 DEF Flow
<1> QED
  BY <1>2 DEF Exchanged

(* A place that is new was on no message.                                  *)
LEMMA JoinFlow ==
  ASSUME WireInv, NEW d \in Clients, Join(d), NEW c \in Clients
  PROVE  Exchanged(c, Nothing, Nothing)
<1>1. /\ fds' = [fds EXCEPT ![nbFds] = d] /\ nbFds' = nbFds + 1
      /\ UNCHANGED <<up, down, sin, sout>>
  BY DEF Join, Client!Start
<1>2. \A j \in Live : j \in SlotOf(c)' <=> j \in SlotOf(c)
  <2>1. \A j \in Live : j \in PollSlots /\ j < nbFds /\ j # nbFds /\ j < nbFds + 1
    BY ProxyAssumption DEF WireInv, TableInv, Live, PollSlots
  <2>2. \A j \in Live : fds'[j] = fds[j]
    BY <1>1, <2>1 DEF WireInv, TableInv
  <2> QED
    BY <1>1, <2>1, <2>2 DEF SlotOf
<1>3. ASSUME NEW S
      PROVE  /\ Count(sin, S \cap Of(c)') = Count(sin, S \cap Of(c))
             /\ Count(sout, S \cap Of(c)') = Count(sout, S \cap Of(c))
  <2>1. \A k \in DOMAIN sin : sin[k].sock \in Live
    BY QueueMsgs
  <2>2. \A k \in DOMAIN sin : sin[k] \in S \cap Of(c)' <=> sin[k] \in S \cap Of(c)
    BY <1>2, <2>1 DEF Of
  <2>3. \A k \in DOMAIN sout : sout[k].sock \in Live
    BY QueueMsgs
  <2>4. \A k \in DOMAIN sout : sout[k] \in S \cap Of(c)' <=> sout[k] \in S \cap Of(c)
    BY <1>2, <2>3 DEF Of
  <2> QED
    BY <2>2, <2>4, CountSame
<1>4. \A R, A : Flow(c, R, A)' = Flow(c, R, A)
  BY <1>1, <1>3 DEF Flow
<1> QED
  BY <1>4 DEF Exchanged

(* A client reads message x, if there is one, and sends y, if it does.     *)
LEMMA ClientFlow ==
  ASSUME WireInv, NEW c \in Clients, NEW x, NEW y, UNCHANGED <<sin, sout, fds, nbFds>>,
         \/ x = Nothing /\ down'[c] = down[c]
         \/ down[c] # <<>> /\ x = Head(down[c]) /\ down'[c] = Tail(down[c]),
         \/ y = Nothing /\ up'[c] = up[c]
         \/ y \in Asked /\ up'[c] = Append(up[c], y)
  PROVE  Exchanged(c, x, y)
<1> SUFFICES ASSUME NEW R, NEW A, Kinds(R, A)
             PROVE  Flow(c, R, A)' + One(x, R \cup A) = Flow(c, R, A) + One(y, R \cup A)
  BY DEF Exchanged
<1>1. Of(c)' = Of(c)
  BY SameSlots
<1>2. up[c] \in Seq(Asked) /\ down[c] \in Seq(Replies) /\ sin \in Seq(Asked) /\ sout \in Seq(Replies)
  BY QueueMsgs
<1>3. /\ Count(up[c], R) \in Nat /\ Count(sin, R \cap Of(c)) \in Nat
      /\ Count(sout, A \cap Of(c)) \in Nat /\ Count(down[c], A) \in Nat
  BY <1>2, CountType
<1>4. Count(up'[c], R) = Count(up[c], R) + One(y, R \cup A)
  <2>1. CASE y = Nothing /\ up'[c] = up[c]
    BY <1>3, <2>1, Ones
  <2>2. CASE y \in Asked /\ up'[c] = Append(up[c], y)
    <3>1. Count(up'[c], R) = Count(up[c], R) + One(y, R)
      BY <1>2, <2>2, CountAppend DEF One
    <3> QED
      BY <2>2, <3>1, Ones
  <2> QED
    BY <2>1, <2>2
<1>5. Count(down'[c], A) + One(x, R \cup A) = Count(down[c], A) /\ Count(down'[c], A) \in Nat
  <2>1. CASE x = Nothing /\ down'[c] = down[c]
    BY <1>3, <2>1, Ones
  <2>2. CASE down[c] # <<>> /\ x = Head(down[c]) /\ down'[c] = Tail(down[c])
    <3>1. /\ Count(down[c], A) = Count(down'[c], A) + One(x, A) /\ x \in Replies
          /\ down'[c] \in Seq(Replies)
      BY <1>2, <2>2, CountTail DEF One
    <3>2. One(x, R \cup A) = One(x, A)
      <4>1. \A n \in Replies : One(n, R \cup A) = One(n, A)
        BY Ones
      <4> QED
        BY <3>1, <4>1
    <3>3. Count(down'[c], A) \in Nat
      BY <3>1, CountType
    <3> QED
      BY <3>1, <3>2, <3>3
  <2> QED
    BY <2>1, <2>2
<1>6. One(x, R \cup A) \in Nat /\ One(y, R \cup A) \in Nat
  BY DEF One
<1> QED
  BY <1>1, <1>3, <1>4, <1>5, <1>6 DEF Flow

(* The proxy marks a request and passes it on, or drops it.                *)
Dropped(c, d, m) == IF d = c /\ ~Passed(m) THEN m ELSE Nothing

LEMMA ForwardFlow ==
  ASSUME WireInv, NEW j \in PollSlots, OnClientReceived(j), NEW d \in Clients
  PROVE  Exchanged(d, Dropped(fds[j], d, Head(up[fds[j]])), Nothing)
<1> DEFINE c == fds[j]
           m == Head(up[c])
           x == Dropped(c, d, m)
           n == [m EXCEPT !.sock = j]
<1> SUFFICES ASSUME NEW R, NEW A, Kinds(R, A)
             PROVE  Flow(d, R, A)' + One(x, R \cup A) = Flow(d, R, A) + One(Nothing, R \cup A)
  BY DEF Exchanged
<1>1. /\ j < nbFds /\ c \in Clients /\ up[c] # <<>> /\ up' = [up EXCEPT ![c] = Tail(@)]
      /\ sin' = IF Passed(n) THEN Append(sin, n) ELSE sin
      /\ UNCHANGED <<down, sout, fds, nbFds>>
  BY DEF OnClientReceived, proxySide, table
<1>2. Of(d)' = Of(d) /\ j \in Live /\ j \in Int
  BY <1>1, SameSlots DEF WireInv, TableInv, Live
<1>3. /\ up[c] \in Seq(Asked) /\ up[d] \in Seq(Asked) /\ down[d] \in Seq(Replies)
      /\ sin \in Seq(Asked) /\ sout \in Seq(Replies)
  BY <1>1, QueueMsgs
<1>4. /\ Count(up[d], R) \in Nat /\ Count(sin, R \cap Of(d)) \in Nat
      /\ Count(sout, A \cap Of(d)) \in Nat /\ Count(down[d], A) \in Nat
  BY <1>3, CountType
<1>5. m \in Asked /\ m \in Msgs
  BY <1>1, <1>3, CountTail DEF Asked
<1>6. /\ n \in Asked /\ n \in Msgs /\ n.sock = j /\ (n \in R <=> m \in R)
      /\ Passed(n) <=> Passed(m)
  BY <1>2, <1>5, MarkedMsgs DEF Asked, Kinds, Passed
<1> HIDE DEF m, n
<1>7. n \in Of(d) <=> c = d
  BY <1>1, <1>2, <1>6, PlaceOf DEF Of
<1>8. Count(sin', R \cap Of(d)) = Count(sin, R \cap Of(d))
        + IF Passed(m) /\ c = d THEN One(m, R) ELSE 0
  <2>1. CASE Passed(m)
    <3>1. Count(sin', R \cap Of(d)) = Count(sin, R \cap Of(d)) + One(n, R \cap Of(d))
      BY <1>1, <1>3, <1>6, <2>1, CountAppend DEF One
    <3>2. One(n, R \cap Of(d)) = IF c = d THEN One(m, R) ELSE 0
      BY <1>6, <1>7 DEF One
    <3> QED
      BY <2>1, <3>1, <3>2
  <2>2. CASE ~Passed(m)
    BY <1>1, <1>4, <1>6, <2>2
  <2> QED
    BY <2>1, <2>2
<1>9. Count(up'[d], R) + (IF c = d THEN One(m, R) ELSE 0) = Count(up[d], R)
        /\ Count(up'[d], R) \in Nat
  <2>1. CASE c = d
    <3>1. up'[d] = Tail(up[d]) /\ up[d] # <<>> /\ m = Head(up[d])
      BY <1>1, <2>1 DEF WireInv, QueueTypes, m
    <3>2. Count(up[d], R) = Count(up'[d], R) + One(m, R) /\ up'[d] \in Seq(Asked)
      BY <1>3, <3>1, CountTail DEF One
    <3>3. Count(up'[d], R) \in Nat
      BY <3>2, CountType
    <3> QED
      BY <2>1, <3>2, <3>3
  <2>2. CASE c # d
    <3>1. up'[d] = up[d]
      BY <1>1, <2>2 DEF WireInv, QueueTypes
    <3> QED
      BY <1>4, <2>2, <3>1
  <2> QED
    BY <2>1, <2>2
<1>10. /\ One(Nothing, R \cup A) = 0 /\ One(m, R) \in {0, 1}
       /\ One(x, R \cup A) = IF d = c /\ ~Passed(m) THEN One(m, R) ELSE 0
  <2>1. One(Nothing, R \cup A) = 0 /\ One(m, R) \in {0, 1} /\ One(m, R \cup A) = One(m, R)
    BY <1>5, Ones
  <2> QED
    BY <2>1 DEF Dropped
<1>11. Count(sout', A \cap Of(d)') = Count(sout, A \cap Of(d)) /\ Count(down'[d], A) = Count(down[d], A)
  BY <1>1, <1>2
<1> HIDE DEF x, c
<1> QED
  BY <1>2, <1>4, <1>8, <1>9, <1>10, <1>11 DEF Flow

(* What is x for client c is nothing for the others.                       *)
Only(c, d, x) == IF d = c THEN x ELSE Nothing

(* The server takes a request of client c, and its answers r hold message  *)
(* y for c, or none.                                                       *)
LEMMA ServeFlow ==
  ASSUME WireInv, sin # <<>>, sin' = Tail(sin), NEW r \in Seq(Replies), sout' = sout \o r,
         UNCHANGED <<up, down, fds, nbFds>>, NEW c \in Clients, c = fds[Head(sin).sock],
         NEW y \in Replies \cup {Nothing},
         \A d \in Clients : \A A : A \subseteq Answered =>
            Count(r, A \cap Of(d)) = IF d = c THEN One(y, A) ELSE 0,
         NEW d \in Clients
  PROVE  Exchanged(d, Only(c, d, Head(sin)), Only(c, d, y))
<1> DEFINE m == Head(sin)
<1> SUFFICES ASSUME NEW R, NEW A, Kinds(R, A)
             PROVE  Flow(d, R, A)' + One(Only(c, d, m), R \cup A)
                      = Flow(d, R, A) + One(Only(c, d, y), R \cup A)
  BY DEF Exchanged
<1>1. Of(d)' = Of(d)
  BY SameSlots
<1>2. /\ up[d] \in Seq(Asked) /\ down[d] \in Seq(Replies)
      /\ sin \in Seq(Asked) /\ sout \in Seq(Replies)
  BY QueueMsgs
<1>3. /\ Count(up[d], R) \in Nat /\ Count(sin, R \cap Of(d)) \in Nat
      /\ Count(sout, A \cap Of(d)) \in Nat /\ Count(down[d], A) \in Nat
  BY <1>2, CountType
<1>4. m \in SinMsgs /\ m \in Asked /\ m.sock \in Live /\ m \in Msgs
  <2>1. sin \in Seq(SinMsgs)
    BY DEF WireInv, QueueTypes
  <2>2. m \in SinMsgs
    BY <2>1, HeadTail
  <2> QED
    BY <2>2, QueueMsgs DEF Asked
<1> HIDE DEF m
<1>5. m \in Of(d) <=> c = d
  BY <1>4, PlaceOf DEF Of, m
<1>6. /\ Count(sin, R \cap Of(d)) = Count(sin', R \cap Of(d)) + IF c = d THEN One(m, R) ELSE 0
      /\ Count(sin', R \cap Of(d)) \in Nat
  <2>1. /\ Count(sin, R \cap Of(d)) = Count(sin', R \cap Of(d)) + One(m, R \cap Of(d))
        /\ sin' \in Seq(Asked)
    BY <1>2, CountTail DEF One, m
  <2>2. One(m, R \cap Of(d)) = IF c = d THEN One(m, R) ELSE 0
    BY <1>5 DEF One
  <2> QED
    BY <2>1, <2>2, CountType
<1>7. Count(sout', A \cap Of(d)) = Count(sout, A \cap Of(d)) + IF d = c THEN One(y, A) ELSE 0
  <2>1. Count(r, A \cap Of(d)) = IF d = c THEN One(y, A) ELSE 0
    BY DEF Kinds
  <2> QED
    BY <1>2, <2>1, CountConcat
<1>8. /\ One(Only(c, d, m), R \cup A) = IF c = d THEN One(m, R) ELSE 0
      /\ One(Only(c, d, y), R \cup A) = IF c = d THEN One(y, A) ELSE 0
      /\ One(m, R) \in {0, 1} /\ One(y, A) \in {0, 1}
  <2>1. One(m, R \cup A) = One(m, R) /\ One(Nothing, R \cup A) = 0 /\ One(m, R) \in {0, 1}
        /\ One(y, A) \in {0, 1}
    BY <1>4, Ones
  <2>2. One(y, R \cup A) = One(y, A)
    <3>1. CASE y \in Replies
      <4>1. \A n \in Replies : One(n, R \cup A) = One(n, A)
        BY Ones
      <4> QED
        BY <3>1, <4>1
    <3>2. CASE y = Nothing
      BY <2>1, <3>2 DEF One
    <3> QED
      BY <3>1, <3>2
  <2> QED
    BY <2>1, <2>2 DEF Only
<1>9. UNCHANGED <<up, down>>
  OBVIOUS
<1>10. /\ Flow(d, R, A) = Count(up[d], R) + Count(sin, R \cap Of(d))
                            + Count(sout, A \cap Of(d)) + Count(down[d], A)
       /\ Flow(d, R, A)' = Count(up[d], R) + Count(sin', R \cap Of(d))
                            + Count(sout', A \cap Of(d)) + Count(down[d], A)
  BY <1>1, <1>9 DEF Flow
<1> QED
  <2>1. CASE c = d
    <3>1. /\ Count(sin, R \cap Of(d)) = Count(sin', R \cap Of(d)) + One(m, R)
          /\ Count(sout', A \cap Of(d)) = Count(sout, A \cap Of(d)) + One(y, A)
          /\ One(Only(c, d, m), R \cup A) = One(m, R) /\ One(Only(c, d, y), R \cup A) = One(y, A)
          /\ One(m, R) \in Nat /\ One(y, A) \in Nat
      BY <1>6, <1>7, <1>8, <2>1
    <3>2. /\ Count(sin', R \cap Of(d)) \in Nat /\ Count(sout, A \cap Of(d)) \in Nat
          /\ Count(up[d], R) \in Nat /\ Count(down[d], A) \in Nat
      BY <1>3, <1>6
    <3>3. /\ Flow(d, R, A) = Count(up[d], R) + (Count(sin', R \cap Of(d)) + One(m, R))
                               + Count(sout, A \cap Of(d)) + Count(down[d], A)
          /\ Flow(d, R, A)' = Count(up[d], R) + Count(sin', R \cap Of(d))
                               + (Count(sout, A \cap Of(d)) + One(y, A)) + Count(down[d], A)
      BY <1>10, <3>1
    <3>4. \A u, v, w, z, p, q \in Nat :
            (u + v + (w + q) + z) + p = (u + (v + p) + w + z) + q
      OBVIOUS
    <3>5. Flow(d, R, A)' + One(m, R) = Flow(d, R, A) + One(y, A)
      BY <3>1, <3>2, <3>3, <3>4
    <3> QED
      BY <3>1, <3>5
  <2>2. CASE c # d
    <3>1. /\ Count(sin, R \cap Of(d)) = Count(sin', R \cap Of(d)) + 0
          /\ Count(sout', A \cap Of(d)) = Count(sout, A \cap Of(d)) + 0
          /\ One(Only(c, d, m), R \cup A) = 0 /\ One(Only(c, d, y), R \cup A) = 0
      BY <1>6, <1>7, <1>8, <2>2
    <3>2. Count(sin, R \cap Of(d)) = Count(sin', R \cap Of(d))
      BY <1>6, <3>1
    <3>3. Count(sout', A \cap Of(d)) = Count(sout, A \cap Of(d))
      BY <1>3, <3>1
    <3>4. Flow(d, R, A)' = Flow(d, R, A)
      BY <1>10, <3>2, <3>3
    <3> QED
      BY <3>1, <3>4
  <2> QED
    BY <2>1, <2>2

(* The proxy takes an answer to its client, or drops it.                   *)
LEMMA DeliverFlow ==
  ASSUME WireInv, NobodyLeft, OnServerReceived, NEW d \in Clients
  PROVE  LET m == Head(sout)
         IN  Exchanged(d, IF Discarded(m) THEN Only(fds[m.sock], d, m) ELSE Nothing, Nothing)
<1> DEFINE m == Head(sout)
           c == fds[m.sock]
           x == IF Discarded(m) THEN Only(c, d, m) ELSE Nothing
<1> SUFFICES ASSUME NEW R, NEW A, Kinds(R, A)
             PROVE  Flow(d, R, A)' + One(x, R \cup A) = Flow(d, R, A) + One(Nothing, R \cup A)
  BY DEF Exchanged
<1>1. /\ sout # <<>> /\ sout' = Tail(sout) /\ UNCHANGED <<up, sin, fds, nbFds>>
  BY DEF OnServerReceived
<1>2. m \in SoutMsgs /\ m \in Replies /\ m.sock \in Live /\ m \in Msgs
  <2>1. sout \in Seq(SoutMsgs)
    BY DEF WireInv, QueueTypes
  <2>2. m \in SoutMsgs
    BY <1>1, <2>1, HeadTail
  <2> QED
    BY <2>2, QueueMsgs DEF Replies
<1> HIDE DEF m
<1>3. c \in Clients /\ reset = {} /\ proc[c] # "gone"
  BY <1>2 DEF WireInv, TableInv, NobodyLeft
<1>4. down' = IF Discarded(m) THEN down ELSE [down EXCEPT ![c] = Append(@, m)]
  BY <1>3 DEF OnServerReceived, m
<1>5. Of(d)' = Of(d) /\ (m \in Of(d) <=> c = d)
  BY <1>1, <1>2, SameSlots, PlaceOf DEF Of
<1>6. /\ up[d] \in Seq(Asked) /\ down[d] \in Seq(Replies)
      /\ sin \in Seq(Asked) /\ sout \in Seq(Replies)
  BY QueueMsgs
<1>7. /\ Count(up[d], R) \in Nat /\ Count(sin, R \cap Of(d)) \in Nat
      /\ Count(sout, A \cap Of(d)) \in Nat /\ Count(down[d], A) \in Nat
  BY <1>6, CountType
<1>8. /\ Count(sout, A \cap Of(d)) = Count(sout', A \cap Of(d)) + IF c = d THEN One(m, A) ELSE 0
      /\ Count(sout', A \cap Of(d)) \in Nat
  <2>1. /\ Count(sout, A \cap Of(d)) = Count(sout', A \cap Of(d)) + One(m, A \cap Of(d))
        /\ sout' \in Seq(Replies)
    BY <1>1, <1>6, CountTail DEF One, m
  <2>2. One(m, A \cap Of(d)) = IF c = d THEN One(m, A) ELSE 0
    BY <1>5 DEF One
  <2> QED
    BY <2>1, <2>2, CountType
<1>9. Count(down'[d], A) = Count(down[d], A) + IF c = d /\ ~Discarded(m) THEN One(m, A) ELSE 0
  <2>1. CASE c = d /\ ~Discarded(m)
    <3>1. down'[d] = Append(down[d], m)
      BY <1>4, <2>1 DEF WireInv, QueueTypes
    <3>2. Count(down'[d], A) = Count(down[d], A) + One(m, A)
      BY <1>2, <1>6, <3>1, CountAppend DEF One
    <3> QED
      BY <2>1, <3>2
  <2>2. CASE ~(c = d /\ ~Discarded(m))
    <3>1. down'[d] = down[d]
      BY <1>4, <2>2 DEF WireInv, QueueTypes
    <3> QED
      BY <1>7, <2>2, <3>1
  <2> QED
    BY <2>1, <2>2
<1>10. /\ One(Nothing, R \cup A) = 0 /\ One(m, A) \in {0, 1}
       /\ One(x, R \cup A) = IF c = d /\ Discarded(m) THEN One(m, A) ELSE 0
  <2>1. One(Nothing, R \cup A) = 0 /\ One(m, A) \in {0, 1} /\ One(m, R \cup A) = One(m, A)
    BY <1>2, Ones
  <2> QED
    BY <2>1 DEF Only
<1> HIDE DEF x, c
<1>11. Flow(d, R, A)' + One(x, R \cup A) = Flow(d, R, A) + One(Nothing, R \cup A)
  BY <1>1, <1>5, <1>7, <1>8, <1>9, <1>10 DEF Flow
<1> QED
  BY <1>11
-----------------------------------------------------------------------------
(* What a step does to one client: to what is on its way for it, and to    *)
(* what it knows of that.                                                  *)
LEMMA FlowNat ==
  WireInv => \A c \in Clients : \A R, A : Flow(c, R, A) \in Nat
BY FlowType

LEMMA FlowNatNext ==
  WireInv' => \A c \in Clients : \A R, A : Flow(c, R, A)' \in Nat
<1>1. (WireInv => \A c \in Clients : \A R, A : Flow(c, R, A) \in Nat)'
  BY FlowNat, PTL
<1> QED
  BY <1>1

LEMMA FlowMore ==
  WireInv => \A c \in Clients : \A R, A, Q, B :
    Q \subseteq R /\ B \subseteq A => Flow(c, Q, B) <= Flow(c, R, A)
BY FlowType

LEMMA FlowMoreNext ==
  WireInv' => \A c \in Clients : \A R, A, Q, B :
    Q \subseteq R /\ B \subseteq A => Flow(c, Q, B)' <= Flow(c, R, A)'
<1>1. (WireInv => \A c \in Clients : \A R, A, Q, B :
         Q \subseteq R /\ B \subseteq A => Flow(c, Q, B) <= Flow(c, R, A))'
  BY FlowMore, PTL
<1> QED
  BY <1>1

(* A message that goes was on its way.                                     *)
LEMMA WasOnItsWay ==
  ASSUME WireInv, WireInv', NEW c \in Clients, NEW x, NEW y, Exchanged(c, x, y)
  PROVE  \A R, A : Kinds(R, A) /\ x \in R \cup A /\ y \notin R \cup A => Flow(c, R, A) > 0
<1> SUFFICES ASSUME NEW R, NEW A, Kinds(R, A), x \in R \cup A, y \notin R \cup A
             PROVE  Flow(c, R, A) > 0
  OBVIOUS
<1>1. Flow(c, R, A) \in Nat /\ Flow(c, R, A)' \in Nat
  BY FlowNat, FlowNatNext
<1>2. Flow(c, R, A)' + 1 = Flow(c, R, A) + 0
  BY DEF Exchanged, One
<1> QED
  BY <1>1, <1>2

Stays(c) == UNCHANGED <<pseudo[c], connected[c], waiting[c], slots[c], tot[c], nb[c]>>

(* An empty text, which the proxy drops.                                   *)
Empty(c, i) == Client!Awaited(c, i) /\ slots[c][i].len = 0

(* A step that leaves the state of the client as it is: a message goes, or *)
(* the answer to it takes its place.                                       *)
LEMMA LoginOnItsWay ==
  ASSUME WireInv, WireInv', NEW c \in Clients, LoginInv(c),
         UNCHANGED <<pseudo[c], connected[c], waiting[c]>>,
         NEW x, NEW y, Exchanged(c, x, y), y \notin Logins,
         Welcomed(c) => Welcomed(c)',
         y \in LoginAnswers => x \in Logins,
         y \in Welcomes => Welcomed(c)'
  PROVE  LoginInv(c)'
<1>1. PICK p : p = pseudo[c] /\ p = pseudo'[c]
  OBVIOUS
<1> DEFINE S == Logins \ LoginsFrom(p)
<1>2. /\ Flow(c, Logins, LoginAnswers)' + One(x, Logins \cup LoginAnswers)
           = Flow(c, Logins, LoginAnswers) + One(y, Logins \cup LoginAnswers)
      /\ Flow(c, S, {})' + One(x, S \cup {}) = Flow(c, S, {}) + One(y, S \cup {})
      /\ Flow(c, {}, Welcomes)' + One(x, {} \cup Welcomes)
           = Flow(c, {}, Welcomes) + One(y, {} \cup Welcomes)
  BY AllKinds DEF Exchanged
<1>3. /\ Flow(c, Logins, LoginAnswers)' \in Nat /\ Flow(c, Logins, LoginAnswers) \in Nat
      /\ Flow(c, S, {})' \in Nat /\ Flow(c, {}, Welcomes)' \in Nat
  BY FlowNat, FlowNatNext
<1>4. /\ Flow(c, Logins, LoginAnswers) <= IF waiting[c] THEN 1 ELSE 0
      /\ Flow(c, S, {}) = 0 /\ (Flow(c, {}, Welcomes) = 0 \/ Welcomed(c))
  BY <1>1 DEF LoginInv
<1>5. /\ \A T : One(x, T) \in {0, 1} /\ One(y, T) \in {0, 1}
      /\ One(y, Logins \cup LoginAnswers) <= One(x, Logins \cup LoginAnswers)
      /\ One(y, S \cup {}) = 0 /\ (y \notin Welcomes => One(y, {} \cup Welcomes) = 0)
  BY DEF One
<1>6. Flow(c, Logins, LoginAnswers)' <= IF waiting[c] THEN 1 ELSE 0
  BY <1>2, <1>3, <1>4, <1>5
<1>7. Flow(c, S, {})' = 0
  BY <1>2, <1>3, <1>4, <1>5
<1>8. Flow(c, {}, Welcomes)' = 0 \/ Welcomed(c)'
  BY <1>2, <1>3, <1>4, <1>5
<1> QED
  BY <1>1, <1>6, <1>7, <1>8 DEF LoginInv

LEMMA TextsOnTheirOwnWay ==
  ASSUME WireInv, WireInv', NEW c \in Clients, WayInv(c), Stays(c),
         NEW x, NEW y, Exchanged(c, x, y), y \notin Asked,
         \A i \in Nat : y \in AcksOf(i) => x \in TextsOf(i) /\ ~Empty(c, i),
         \A i \in Nat : x \in TextsOf(i) \cup AcksOf(i)
            => y \in AcksOf(i) \/ (x \in TextsOf(i) /\ Empty(c, i))
  PROVE  WayInv(c)'
<1> SUFFICES ASSUME NEW i \in Nat PROVE OnItsWay(c, i)'
  BY DEF WayInv
<1>1. PICK s : s = slots[c][i] /\ s = slots'[c][i]
  BY DEF Stays
<1> DEFINE R == TextsOf(i)
           A == AcksOf(i)
           S == R \ CopiesOf(s)
<1>2. /\ Flow(c, R, A)' + One(x, R \cup A) = Flow(c, R, A) + One(y, R \cup A)
      /\ Flow(c, {}, A)' + One(x, {} \cup A) = Flow(c, {}, A) + One(y, {} \cup A)
      /\ Flow(c, S, {})' + One(x, S \cup {}) = Flow(c, S, {}) + One(y, S \cup {})
  BY AllKinds DEF Exchanged
<1>3. /\ Flow(c, R, A) \in Nat /\ Flow(c, R, A)' \in Nat
      /\ Flow(c, {}, A) \in Nat /\ Flow(c, {}, A)' \in Nat
      /\ Flow(c, S, {}) \in Nat /\ Flow(c, S, {})' \in Nat
  BY FlowNat, FlowNatNext
<1>4. /\ IF Empty(c, i) THEN Flow(c, R, A) <= 1 /\ Flow(c, {}, A) = 0
         ELSE Flow(c, R, A) = IF Client!Awaited(c, i) THEN 1 ELSE 0
      /\ Client!Awaited(c, i) => Flow(c, S, {}) = 0
  BY <1>1 DEF WayInv, OnItsWay, Empty
<1>5. /\ \A T : One(x, T) \in {0, 1}
      /\ One(y, R \cup A) = One(y, A) /\ One(y, {} \cup A) = One(y, A) /\ One(y, S \cup {}) = 0
      /\ One(x, {} \cup A) = One(x, A) /\ (x \in R => x \notin A)
  BY DEF One, TextsOf, AcksOf, Asked
<1>6. Client!Awaited(c, i)' = Client!Awaited(c, i) /\ Empty(c, i)' = Empty(c, i)
  BY DEF Stays, Client!Awaited, Empty
<1> HIDE DEF R, A, S
<1>7. IF Empty(c, i) THEN Flow(c, R, A)' <= 1 /\ Flow(c, {}, A)' = 0
      ELSE Flow(c, R, A)' = IF Client!Awaited(c, i) THEN 1 ELSE 0
  <2>1. CASE y \in A
    <3>1. One(y, A) = 1 /\ One(x, R \cup A) = 1 /\ ~Empty(c, i)
      BY <2>1 DEF One, A, R
    <3> QED
      BY <1>2, <1>3, <1>4, <1>5, <3>1
  <2>2. CASE y \notin A /\ x \notin R \cup A
    <3>1. One(y, A) = 0 /\ One(x, R \cup A) = 0 /\ One(x, A) = 0
      BY <2>2 DEF One
    <3> QED
      BY <1>2, <1>3, <1>4, <1>5, <3>1
  <2>3. CASE y \notin A /\ x \in R \cup A
    <3>1. Empty(c, i) /\ x \in R
      BY <2>3 DEF A, R
    <3>2. One(y, A) = 0 /\ One(x, R \cup A) = 1 /\ One(x, A) = 0
      BY <1>5, <2>3, <3>1 DEF One
    <3> QED
      BY <1>2, <1>3, <1>4, <1>5, <3>1, <3>2
  <2> QED
    BY <2>1, <2>2, <2>3
<1>8. Client!Awaited(c, i) => Flow(c, S, {})' = 0
  BY <1>2, <1>3, <1>4, <1>5
<1> QED
  BY <1>1, <1>6, <1>7, <1>8 DEF OnItsWay, Empty, R, A, S

LEMMA SlotsStayFull ==
  ASSUME NEW c \in Clients, SlotsInv(c), Stays(c)
  PROVE  SlotsInv(c)'
BY DEF SlotsInv, Stays, TakenIn, Client!FreeIn

LEMMA SameTable ==
  ASSUME WireInv, WireInv', NEW c \in Clients, Talk(c), Stays(c),
         NEW x, NEW y, Exchanged(c, x, y), y \notin Asked,
         Welcomed(c) => Welcomed(c)',
         y \in LoginAnswers => x \in Logins,
         y \in Welcomes => Welcomed(c)',
         \A i \in Nat : y \in AcksOf(i) => x \in TextsOf(i) /\ ~Empty(c, i),
         \A i \in Nat : x \in TextsOf(i) \cup AcksOf(i)
            => y \in AcksOf(i) \/ (x \in TextsOf(i) /\ Empty(c, i))
  PROVE  Talk(c)'
<1>1. y \notin Logins
  BY DEF Logins, Asked
<1> QED
  BY <1>1, LoginOnItsWay, TextsOnTheirOwnWay, SlotsStayFull DEF Talk, Stays

LEMMA StillWelcomed ==
  ASSUME NEW c, UNCHANGED <<fds, nbFds, clients, pseudo[c]>>
  PROVE  Welcomed(c)' <=> Welcomed(c)
BY DEF Welcomed, SlotOf

(* A client that a step does not touch.                                    *)
LEMMA OthersTalk ==
  ASSUME WireInv, WireInv', NEW d \in Clients, Talk(d), Stays(d),
         UNCHANGED <<up[d], down[d], sin, sout, fds, nbFds, clients>>
  PROVE  Talk(d)'
<1>1. Exchanged(d, Nothing, Nothing)
  BY KeptFlow
<1>2. Welcomed(d)' <=> Welcomed(d)
  BY StillWelcomed DEF Stays
<1>3. Nothing \notin Asked /\ Nothing \notin LoginAnswers /\ Nothing \notin Welcomes
      /\ \A i \in Nat : Nothing \notin TextsOf(i) /\ Nothing \notin AcksOf(i)
  BY DEF Nothing, EmptyMsg, Asked, LoginAnswers, Welcomes, TextsOf, AcksOf
<1> QED
  BY <1>1, <1>2, <1>3, SameTable

(* A client that was told nothing has said nothing.                        *)
LEMMA NothingSaid ==
  ASSUME NEW c \in Clients, tot[c] \in Nat, SlotsInv(c), WayInv(c), ~connected[c]
  PROVE  \A i \in Nat : ~Client!Awaited(c, i) /\ Flow(c, TextsOf(i), AcksOf(i)) = 0
<1> SUFFICES ASSUME NEW i \in Nat
             PROVE  ~Client!Awaited(c, i) /\ Flow(c, TextsOf(i), AcksOf(i)) = 0
  OBVIOUS
<1>1. ~Client!Awaited(c, i)
  <2>1. SUFFICES ASSUME i < tot[c], slots[c][i].type = "std" PROVE FALSE
    BY DEF Client!Awaited
  <2>2. i \in 0 .. tot[c] - 1
    BY <2>1
  <2> QED
    BY <2>1, <2>2 DEF SlotsInv
<1>2. OnItsWay(c, i)
  BY DEF WayInv
<1> QED
  BY <1>1, <1>2 DEF OnItsWay

LEMMA LoginTalk ==
  ASSUME WireInv, WireInv', NEW c \in Clients, Talk(c), NEW p \in Names, Client!Login(c, p),
         UNCHANGED <<sin, sout, fds, nbFds, clients>>
  PROVE  Talk(c)'
<1> DEFINE y == Client!ConnectionMsg(p, Client!CodeFor(c, p))
<1>1. /\ Client!Prompted(c) /\ pseudo' = [pseudo EXCEPT ![c] = p]
      /\ waiting' = [waiting EXCEPT ![c] = TRUE] /\ slots' = [slots EXCEPT ![c][0] = y]
      /\ nb' = [nb EXCEPT ![c] = @ + 1] /\ up' = [up EXCEPT ![c] = Append(@, y)]
      /\ UNCHANGED <<connected, tot, down>>
  BY DEF Client!Login, Client!RequestLogin, Client!Send
<1>2. LoginTypes /\ SlotTypes /\ QueueTypes /\ LoginInv(c) /\ SlotsInv(c) /\ WayInv(c)
  BY DEF WireInv, Talk
<1>3. pseudo[c] = Blank /\ ~waiting[c] /\ ~connected[c]
  BY <1>1, <1>2, SystemAssumption DEF Client!Prompted, LoginInv, Welcomed
<1>4. pseudo'[c] = p /\ waiting'[c] /\ connected'[c] = connected[c] /\ nb'[c] = nb[c] + 1
      /\ slots'[c] = [slots[c] EXCEPT ![0] = y] /\ up'[c] = Append(up[c], y) /\ tot'[c] = tot[c]
      /\ down'[c] = down[c]
  BY <1>1, <1>2 DEF LoginTypes, SlotTypes, QueueTypes
<1>5. /\ tot[c] \in Nat /\ nb[c] \in Nat /\ 0 \in 0 .. tot[c] - 1
      /\ DOMAIN slots[c] = 0 .. tot[c] - 1
  BY <1>2 DEF SlotTypes
<1>6. y.type = "connection" /\ y.src = p
  BY DEF Client!ConnectionMsg, Client!EmptyMsg
<1>7. y \in Asked /\ y \in Msgs
  <2>1. up'[c] \in Seq(Requests(tot'[c], {-1})) /\ tot'[c] \in Nat
    BY DEF WireInv, QueueTypes, SlotTypes
  <2>2. Len(up'[c]) \in 1 .. Len(up'[c]) /\ up'[c][Len(up'[c])] = y
    BY <1>2, <1>4 DEF QueueTypes
  <2>3. y \in Requests(tot'[c], {-1})
    BY <2>1, <2>2, ElementOfSeq
  <2> QED
    BY <2>1, <2>3, RequestMsgs DEF Asked
<1> HIDE DEF y
<1>8. Exchanged(c, Nothing, y)
  BY <1>4, <1>7, ClientFlow
<1> DEFINE S == Logins \ LoginsFrom(p)
<1>9. /\ Flow(c, Logins, LoginAnswers)' + One(Nothing, Logins \cup LoginAnswers)
           = Flow(c, Logins, LoginAnswers) + One(y, Logins \cup LoginAnswers)
      /\ Flow(c, S, {})' + One(Nothing, S \cup {}) = Flow(c, S, {}) + One(y, S \cup {})
      /\ Flow(c, {}, Welcomes)' + One(Nothing, {} \cup Welcomes)
           = Flow(c, {}, Welcomes) + One(y, {} \cup Welcomes)
  BY <1>8, AllKinds DEF Exchanged
<1>10. /\ Flow(c, Logins, LoginAnswers)' \in Nat /\ Flow(c, Logins, LoginAnswers) \in Nat
       /\ Flow(c, S, {})' \in Nat /\ Flow(c, {}, Welcomes)' \in Nat
       /\ Flow(c, S, {}) \in Nat /\ Flow(c, {}, Welcomes) \in Nat
  BY FlowNat, FlowNatNext
<1>11. Flow(c, Logins, LoginAnswers) = 0
  BY <1>2, <1>3, <1>10 DEF LoginInv
<1>12. Flow(c, S, {}) = 0 /\ Flow(c, {}, Welcomes) = 0
  <2>1. /\ Flow(c, S, {}) <= Flow(c, Logins, LoginAnswers)
        /\ Flow(c, {}, Welcomes) <= Flow(c, Logins, LoginAnswers)
    <3>1. S \subseteq Logins /\ {} \subseteq LoginAnswers /\ {} \subseteq Logins
          /\ Welcomes \subseteq LoginAnswers
      BY DEF Welcomes, LoginAnswers
    <3> QED
      BY <3>1, FlowMore
  <2> QED
    BY <1>10, <1>11, <2>1
<1>13. /\ One(Nothing, Logins \cup LoginAnswers) = 0 /\ One(Nothing, S \cup {}) = 0
       /\ One(Nothing, {} \cup Welcomes) = 0
       /\ One(y, Logins \cup LoginAnswers) = 1 /\ One(y, S \cup {}) = 0
       /\ One(y, {} \cup Welcomes) = 0
  BY <1>6, <1>7, AllKinds, Ones DEF One, Logins, LoginsFrom, Welcomes
<1>14. LoginInv(c)'
  <2>1. Flow(c, Logins, LoginAnswers)' = 1 /\ Flow(c, S, {})' = 0 /\ Flow(c, {}, Welcomes)' = 0
    BY <1>9, <1>10, <1>11, <1>12, <1>13
  <2> QED
    BY <1>3, <1>4, <2>1 DEF LoginInv
<1>15. \A i \in Nat : ~Client!Awaited(c, i) /\ Flow(c, TextsOf(i), AcksOf(i)) = 0
  BY <1>2, <1>3, <1>5, NothingSaid
<1>16. \A i \in 0 .. tot[c] - 1 : slots'[c][i].type # "std"
  BY <1>3, <1>2, <1>4, <1>5, <1>6 DEF SlotsInv
<1>17. SlotsInv(c)'
  <2>1. TakenIn(c)' \subseteq TakenIn(c) \cup {0}
    BY <1>4, <1>5, <1>6 DEF TakenIn, Client!FreeIn
  <2>2. Cardinality(TakenIn(c)') <= nb[c] + 1
    <3>1. IsFiniteSet(TakenIn(c)) /\ Cardinality(TakenIn(c)) <= nb[c]
      BY <1>2, <1>5, SlotsFinite DEF TakenIn, SlotsInv
    <3> QED
      BY <1>5, <2>1, <3>1, OneMoreTaken
  <2> QED
    BY <1>4, <1>16, <2>2 DEF SlotsInv
<1>18. ASSUME NEW i \in Nat PROVE OnItsWay(c, i)'
  <2>1. ~Client!Awaited(c, i)'
    <3>1. i < tot[c] => i \in 0 .. tot[c] - 1
      BY <1>5
    <3> QED
      BY <1>4, <1>16, <3>1 DEF Client!Awaited
  <2>2. One(Nothing, TextsOf(i) \cup AcksOf(i)) = 0 /\ One(y, TextsOf(i) \cup AcksOf(i)) = 0
    <3>1. y \notin TextsOf(i) \cup AcksOf(i)
      BY <1>6 DEF TextsOf, AcksOf
    <3>2. One(Nothing, TextsOf(i) \cup AcksOf(i)) = 0
      BY AllKinds, Ones
    <3> QED
      BY <3>1, <3>2 DEF One
  <2>3. Flow(c, TextsOf(i), AcksOf(i))' + 0 = 0 + 0
    BY <1>8, <1>15, <2>2, AllKinds DEF Exchanged
  <2>4. Flow(c, TextsOf(i), AcksOf(i))' = 0
    BY <2>3, FlowNatNext
  <2> QED
    BY <2>1, <2>4 DEF OnItsWay
<1> QED
  BY <1>14, <1>17, <1>18 DEF Talk, WayInv

(* A text takes a slot that was free.                                      *)
LEMMA SaidTalk ==
  ASSUME WireInv, WireInv', NEW c \in Clients, Talk(c), connected[c], NEW i \in Nat, NEW y \in Asked,
         Exchanged(c, Nothing, y),
         y.type = "std", y.id = i, y.sock = -1, y.src = pseudo[c],
         UNCHANGED <<fds, nbFds, clients, pseudo[c], connected[c], waiting[c]>>,
         ~Client!Awaited(c, i), i < tot'[c], slots'[c][i] = y, nb'[c] = nb[c] + 1, i <= nb[c],
         \A j \in Nat : j # i => /\ Client!Awaited(c, j)' <=> Client!Awaited(c, j)
                                 /\ Client!Awaited(c, j) => slots'[c][j] = slots[c][j],
         TakenIn(c)' \subseteq TakenIn(c) \cup {i}
  PROVE  Talk(c)'
<1>1. LoginInv(c) /\ SlotsInv(c) /\ WayInv(c) /\ tot[c] \in Nat /\ nb[c] \in Nat /\ tot'[c] \in Nat
  BY DEF Talk, WireInv, SlotTypes
<1>2. Welcomed(c)' <=> Welcomed(c)
  BY StillWelcomed
<1>3. LoginInv(c)'
  <2>1. y \notin Logins /\ y \notin LoginAnswers /\ y \notin Welcomes
    BY DEF Logins, LoginAnswers, Welcomes
  <2> QED
    BY <1>1, <1>2, <2>1, LoginOnItsWay
<1>4. SlotsInv(c)'
  <2>1. Cardinality(TakenIn(c)') <= nb[c] + 1
    <3>1. IsFiniteSet(TakenIn(c)) /\ Cardinality(TakenIn(c)) <= nb[c]
      BY <1>1, SlotsFinite DEF TakenIn, SlotsInv
    <3> QED
      BY <1>1, <3>1, OneMoreTaken
  <2>2. ASSUME NEW j \in 0 .. tot'[c] - 1, slots'[c][j].type = "std"
        PROVE  /\ slots'[c][j].id = j /\ j < nb'[c] /\ connected'[c]
               /\ slots'[c][j].src = pseudo'[c]
    <3>1. CASE j = i
      BY <1>1, <3>1
    <3>2. CASE j # i
      <4>1. j \in Nat /\ Client!Awaited(c, j)'
        BY <1>1, <2>2 DEF Client!Awaited
      <4>2. Client!Awaited(c, j) /\ slots'[c][j] = slots[c][j]
        BY <3>2, <4>1
      <4>3. j \in 0 .. tot[c] - 1 /\ slots[c][j].type = "std"
        BY <1>1, <4>1, <4>2 DEF Client!Awaited
      <4>4. slots[c][j].id = j /\ j < nb[c] /\ slots[c][j].src = pseudo[c]
        BY <1>1, <4>3 DEF SlotsInv
      <4> QED
        BY <1>1, <4>1, <4>2, <4>4
    <3> QED
      BY <3>1, <3>2
  <2> QED
    BY <2>1, <2>2 DEF SlotsInv
<1>5. ASSUME NEW j \in Nat PROVE OnItsWay(c, j)'
  <2>1. OnItsWay(c, j)
    BY <1>1 DEF WayInv
  <2>2. PICK s : s = slots'[c][j]
    OBVIOUS
  <2> DEFINE R == TextsOf(j)
             A == AcksOf(j)
             S == R \ CopiesOf(s)
  <2>3. /\ Flow(c, R, A)' + One(Nothing, R \cup A) = Flow(c, R, A) + One(y, R \cup A)
        /\ Flow(c, {}, A)' + One(Nothing, {} \cup A) = Flow(c, {}, A) + One(y, {} \cup A)
        /\ Flow(c, S, {})' + One(Nothing, S \cup {}) = Flow(c, S, {}) + One(y, S \cup {})
    BY AllKinds DEF Exchanged
  <2>4. /\ Flow(c, R, A) \in Nat /\ Flow(c, R, A)' \in Nat
        /\ Flow(c, {}, A) \in Nat /\ Flow(c, {}, A)' \in Nat
        /\ Flow(c, S, {}) \in Nat /\ Flow(c, S, {})' \in Nat
    BY FlowNat, FlowNatNext
  <2>5. One(Nothing, R \cup A) = 0 /\ One(Nothing, {} \cup A) = 0 /\ One(Nothing, S \cup {}) = 0
    <3>1. Kinds(R, A) /\ Kinds({}, A) /\ Kinds(S, {})
      BY AllKinds
    <3> HIDE DEF R, A, S
    <3> QED
      BY <3>1, Ones
  <2>6. CASE j # i
    <3>1. One(y, R \cup A) = 0 /\ One(y, {} \cup A) = 0 /\ One(y, S \cup {}) = 0
      BY <2>6 DEF One, TextsOf, AcksOf
    <3> HIDE DEF R, A, S
    <3>2. /\ Flow(c, R, A)' = Flow(c, R, A) /\ Flow(c, {}, A)' = Flow(c, {}, A)
          /\ Flow(c, S, {})' = Flow(c, S, {})
      BY <2>3, <2>4, <2>5, <3>1
    <3>3. Client!Awaited(c, j)' <=> Client!Awaited(c, j)
      BY <2>6
    <3>4. CASE Client!Awaited(c, j)
      <4>1. slots'[c][j] = slots[c][j] /\ s = slots[c][j]
        BY <2>2, <2>6, <3>4
      <4> QED
        BY <2>1, <3>2, <3>3, <3>4, <4>1 DEF OnItsWay, R, A, S
    <3>5. CASE ~Client!Awaited(c, j)
      <4>1. Flow(c, R, A) = 0
        BY <2>1, <3>5 DEF OnItsWay, R, A
      <4> QED
        BY <3>2, <3>3, <3>5, <4>1 DEF OnItsWay, R, A
    <3> QED
      BY <3>4, <3>5
  <2>7. CASE j = i
    <3>1. s = y
      BY <2>2, <2>7
    <3>2. y \in R /\ y \notin A /\ y \notin S
      <4>1. y \in Msgs /\ [y EXCEPT !.sock = -1] = y
        BY DEF Asked, Msgs
      <4> QED
        BY <2>7, <3>1, <4>1 DEF TextsOf, AcksOf, CopiesOf
    <3>3. Flow(c, R, A) = 0
      BY <2>1, <2>7 DEF OnItsWay
    <3>4. Flow(c, {}, A) <= Flow(c, R, A) /\ Flow(c, S, {}) <= Flow(c, R, A)
      <4>1. {} \subseteq R /\ S \subseteq R /\ {} \subseteq A /\ A \subseteq A
        OBVIOUS
      <4> QED
        BY <4>1, FlowMore
    <3> HIDE DEF R, A, S
    <3>5. One(y, R \cup A) = 1 /\ One(y, {} \cup A) = 0 /\ One(y, S \cup {}) = 0
      BY <3>2 DEF One
    <3>6. Flow(c, R, A)' = 1 /\ Flow(c, {}, A)' = 0 /\ Flow(c, S, {})' = 0
      BY <2>3, <2>4, <2>5, <3>3, <3>4, <3>5
    <3>7. Client!Awaited(c, j)'
      BY <2>7 DEF Client!Awaited
    <3> QED
      BY <2>2, <3>6, <3>7 DEF OnItsWay, R, A, S
  <2> QED
    BY <2>6, <2>7
<1> QED
  BY <1>3, <1>4, <1>5 DEF Talk, WayInv

(* What a client sent last.                                                *)
LEMMA LastSent ==
  ASSUME WireInv, WireInv', NEW c \in Clients, NEW y, up'[c] = Append(up[c], y)
  PROVE  y \in Asked /\ y.sock = -1
<1>1. /\ up[c] \in Seq(Requests(tot[c], {-1})) /\ up'[c] \in Seq(Requests(tot'[c], {-1}))
      /\ tot'[c] \in Nat
  BY DEF WireInv, QueueTypes, SlotTypes
<1>2. Len(up'[c]) \in 1 .. Len(up'[c]) /\ up'[c][Len(up'[c])] = y
  BY <1>1
<1>3. y \in Requests(tot'[c], {-1})
  BY <1>1, <1>2, ElementOfSeq
<1>4. y \in Asked
  BY <1>1, <1>3, RequestMsgs
<1> QED
  BY <1>3, <1>4 DEF Requests

LEMMA SayTalk ==
  ASSUME WireInv, WireInv', NEW c \in Clients, Talk(c), NEW i \in 0 .. tot[c] - 1, NEW t,
         Client!Say(c, i, t), UNCHANGED <<sin, sout, fds, nbFds, clients>>
  PROVE  Talk(c)'
<1> DEFINE y == Client!StdMsg(i, pseudo[c], t, slots[c][i].retr)
<1>1. /\ connected[c] /\ i \in Client!FreeIn(c) /\ \A j \in Client!FreeIn(c) : i <= j
      /\ slots' = [slots EXCEPT ![c][i] = y]
      /\ nb' = [nb EXCEPT ![c] = @ + 1] /\ up' = [up EXCEPT ![c] = Append(@, slots'[c][i])]
      /\ UNCHANGED <<tot, down, pseudo, connected, waiting>>
  BY DEF Client!Say, Client!CanTalk, Client!Send, Client!login
<1>2. SlotTypes /\ QueueTypes /\ SlotsInv(c)
  BY DEF WireInv, Talk
<1>3. /\ tot[c] \in Nat /\ nb[c] \in Nat /\ DOMAIN slots[c] = 0 .. tot[c] - 1 /\ i \in Nat
  BY <1>2 DEF SlotTypes
<1>4. /\ nb'[c] = nb[c] + 1 /\ slots'[c] = [slots[c] EXCEPT ![i] = y] /\ tot'[c] = tot[c]
      /\ slots'[c][i] = y /\ up'[c] = Append(up[c], y) /\ down'[c] = down[c]
  BY <1>1, <1>2, <1>3 DEF SlotTypes, QueueTypes
<1>5. y.type = "std" /\ y.id = i /\ y.src = pseudo[c]
  BY DEF Client!StdMsg, Client!EmptyMsg
<1>6. y \in Asked /\ y.sock = -1
  BY <1>4, LastSent
<1> HIDE DEF y
<1>7. Exchanged(c, Nothing, y)
  BY <1>4, <1>6, ClientFlow
<1>8. slots[c][i].type = "null" /\ ~Client!Awaited(c, i)
  BY <1>1 DEF Client!FreeIn, Client!Awaited
<1>9. i <= nb[c]
  <2>1. Client!FreeIn(c) \in SUBSET (0 .. tot[c] - 1)
    BY DEF Client!FreeIn
  <2>2. i <= Cardinality(TakenIn(c))
    BY <1>1, <1>3, <2>1, LowestSlot DEF TakenIn
  <2>3. Cardinality(TakenIn(c)) \in Nat /\ Cardinality(TakenIn(c)) <= nb[c]
    BY <1>2, <1>3, SlotsFinite, FS_CardinalityType DEF TakenIn, SlotsInv
  <2> QED
    BY <1>3, <2>2, <2>3
<1>10. \A j \in Nat : j # i => slots'[c][j] = slots[c][j]
  BY <1>3, <1>4
<1>11. \A j \in Nat : j # i => /\ Client!Awaited(c, j)' <=> Client!Awaited(c, j)
                               /\ Client!Awaited(c, j) => slots'[c][j] = slots[c][j]
  BY <1>4, <1>10 DEF Client!Awaited
<1>12. TakenIn(c)' \subseteq TakenIn(c) \cup {i}
  BY <1>4, <1>3 DEF TakenIn, Client!FreeIn
<1>13. i < tot'[c]
  BY <1>3, <1>4
<1> QED
  BY <1>1, <1>3, <1>4, <1>5, <1>6, <1>7, <1>8, <1>9, <1>11, <1>12, <1>13, SaidTalk

LEMMA SayGrowingTalk ==
  ASSUME WireInv, WireInv', NEW c \in Clients, Talk(c), NEW t,
         Client!SayGrowing(c, t), UNCHANGED <<sin, sout, fds, nbFds, clients>>
  PROVE  Talk(c)'
<1> DEFINE i == tot[c]
<1>1. /\ connected[c] /\ nb[c] = tot[c]
      /\ nb' = [nb EXCEPT ![c] = @ + 1] /\ up' = [up EXCEPT ![c] = Append(@, slots'[c][tot[c]])]
      /\ tot' = [tot EXCEPT ![c] = 2 * @]
      /\ UNCHANGED <<down, pseudo, connected, waiting>>
  BY DEF Client!SayGrowing, Client!CanTalk, Client!Send, Client!login
<1>2. PICK g \in [tot[c] .. 2 * tot[c] - 1 -> Client!EmptySlots] :
         slots' = [slots EXCEPT ![c] =
             [j \in 0 .. 2 * tot[c] - 1 |->
                 IF j < tot[c] THEN slots[c][j]
                 ELSE IF j = tot[c] THEN Client!StdMsg(j, pseudo[c], t, g[j].retr)
                 ELSE g[j]]]
  BY DEF Client!SayGrowing
<1>3. SlotTypes /\ QueueTypes /\ SlotsInv(c)
  BY DEF WireInv, Talk
<1>4. tot[c] \in Nat \ {0} /\ nb[c] \in Nat /\ DOMAIN slots[c] = 0 .. tot[c] - 1
  BY <1>3 DEF SlotTypes
<1> DEFINE y == Client!StdMsg(i, pseudo[c], t, g[i].retr)
<1>5. /\ nb'[c] = nb[c] + 1 /\ tot'[c] = 2 * tot[c] /\ down'[c] = down[c]
      /\ slots'[c] = [j \in 0 .. 2 * tot[c] - 1 |->
                        IF j < tot[c] THEN slots[c][j] ELSE IF j = i THEN y ELSE g[j]]
      /\ up'[c] = Append(up[c], slots'[c][i])
  BY <1>1, <1>2, <1>3 DEF SlotTypes, QueueTypes
<1>6. y.type = "std" /\ y.id = i /\ y.src = pseudo[c]
  BY DEF Client!StdMsg, Client!EmptyMsg
<1> HIDE DEF y
<1>7. /\ \A j \in 0 .. i - 1 : slots'[c][j] = slots[c][j]
      /\ \A j \in i + 1 .. 2 * i - 1 : slots'[c][j] = g[j]
      /\ slots'[c][i] = y
  BY <1>4, <1>5
<1>8. \A j \in i + 1 .. 2 * i - 1 : slots'[c][j].type = "null"
  <2>1. \A j \in i + 1 .. 2 * i - 1 : g[j] \in Client!EmptySlots
    BY <1>4
  <2>2. \A s \in Client!EmptySlots : s.type = "null"
    BY EmptyFields
  <2> QED
    BY <1>7, <2>1, <2>2
<1>9. y \in Asked /\ y.sock = -1
  BY <1>5, <1>7, LastSent
<1>10. Exchanged(c, Nothing, y)
  BY <1>5, <1>7, <1>9, ClientFlow
<1>11. ~Client!Awaited(c, i) /\ i < tot'[c] /\ i <= nb[c] /\ i \in Nat
  BY <1>1, <1>4, <1>5 DEF Client!Awaited
<1>12. \A j \in Nat : j # i => /\ Client!Awaited(c, j)' <=> Client!Awaited(c, j)
                               /\ Client!Awaited(c, j) => slots'[c][j] = slots[c][j]
  <2> TAKE j \in Nat
  <2>1. CASE j < i
    <3>1. j \in 0 .. i - 1 /\ j < tot'[c] /\ j < tot[c]
      BY <1>4, <1>5, <2>1
    <3> QED
      BY <1>7, <3>1 DEF Client!Awaited
  <2>2. CASE j > i
    <3>1. ~Client!Awaited(c, j)
      BY <1>4, <2>2 DEF Client!Awaited
    <3>2. j < tot'[c] => j \in i + 1 .. 2 * i - 1
      BY <1>4, <1>5, <2>2
    <3>3. ~Client!Awaited(c, j)'
      BY <1>8, <3>2 DEF Client!Awaited
    <3> QED
      BY <3>1, <3>3
  <2> QED
    BY <1>4, <2>1, <2>2
<1>13. TakenIn(c)' \subseteq TakenIn(c) \cup {i}
  <2> SUFFICES ASSUME NEW j \in 0 .. tot'[c] - 1, slots'[c][j].type # "null", j # i
               PROVE  j \in 0 .. tot[c] - 1 /\ slots[c][j].type # "null"
    BY DEF TakenIn, Client!FreeIn
  <2>1. j \in 0 .. i - 1 \/ j \in i + 1 .. 2 * i - 1
    BY <1>4, <1>5
  <2> QED
    BY <1>7, <1>8, <2>1
<1> QED
  BY <1>1, <1>5, <1>6, <1>7, <1>9, <1>10, <1>11, <1>12, <1>13, SaidTalk

(* What a client reads.                                                    *)
LEMMA Received ==
  ASSUME WireInv, NEW c \in Clients, down[c] # <<>>, NEW m, m = Head(down[c])
  PROVE  /\ m \in Replies /\ m \in Msgs
         /\ m.type \in {"ack_pos", "ack_neg"} => m.id \in 0 .. tot[c] - 1 /\ m.retr \in Retries
         /\ down[c] \in Seq(DownMsgs(c))
<1>1. down[c] \in Seq(DownMsgs(c)) /\ tot[c] \in Nat
  BY DEF WireInv, QueueTypes, SlotTypes
<1>2. m \in DownMsgs(c)
  BY <1>1, HeadTail
<1>3. m.type \in {"ack_pos", "ack_neg"} => m.id \in 0 .. tot[c] - 1 /\ m.retr \in Retries
  BY <1>2 DEF DownMsgs, Answers, Acks, OtherAnswers
<1>4. down[c] \in Seq(Replies)
  BY QueueMsgs
<1>5. m \in Replies
  BY <1>4, HeadTail
<1> QED
  BY <1>1, <1>3, <1>5 DEF Replies

(* An acknowledgement is about a text that waits for it.                   *)
LEMMA AckFound ==
  ASSUME WireInv, WireInv', NEW c \in Clients, Talk(c), NEW i \in Nat, NEW x \in AcksOf(i),
         NEW y, y \notin Answered, Exchanged(c, x, y)
  PROVE  /\ Client!Awaited(c, i) /\ ~Empty(c, i) /\ connected[c] /\ ~waiting[c]
         /\ i < nb[c] /\ slots[c][i].id = i /\ slots[c][i].src = pseudo[c]
         /\ Flow(c, TextsOf(i), AcksOf(i)) = 1
<1> DEFINE R == TextsOf(i)
           A == AcksOf(i)
<1>1. Flow(c, {}, A) > 0
  <2>1. x \in {} \cup A /\ y \notin {} \cup A /\ Kinds({}, A)
    BY AllKinds DEF Kinds
  <2> HIDE DEF A
  <2> QED
    BY <2>1, WasOnItsWay
<1>2. Flow(c, R, A) > 0 /\ Flow(c, R, A) \in Nat
  <2>1. {} \subseteq R /\ A \subseteq A
    OBVIOUS
  <2>2. Flow(c, {}, A) <= Flow(c, R, A) /\ Flow(c, R, A) \in Nat /\ Flow(c, {}, A) \in Nat
    BY <2>1, FlowMore, FlowNat
  <2> QED
    BY <1>1, <2>2
<1>3. OnItsWay(c, i) /\ SlotsInv(c) /\ LoginInv(c) /\ tot[c] \in Nat
  BY DEF Talk, WayInv, WireInv, SlotTypes
<1>4. Client!Awaited(c, i) /\ ~Empty(c, i) /\ Flow(c, R, A) = 1
  BY <1>1, <1>2, <1>3 DEF OnItsWay, Empty
<1>5. i \in 0 .. tot[c] - 1 /\ slots[c][i].type = "std"
  BY <1>3, <1>4 DEF Client!Awaited
<1> QED
  BY <1>3, <1>4, <1>5 DEF SlotsInv, LoginInv

(* The end of a login: the client did not talk before.                     *)
LEMMA AnsweredTalk ==
  ASSUME WireInv, WireInv', NEW c \in Clients, Talk(c), waiting[c], ~waiting'[c],
         NEW x \in LoginAnswers, Exchanged(c, x, Nothing),
         UNCHANGED <<slots[c], tot[c], nb[c]>>,
         connected'[c] => Welcomed(c)'
  PROVE  Talk(c)'
<1>1. LoginInv(c) /\ SlotsInv(c) /\ WayInv(c) /\ ~connected[c] /\ tot[c] \in Nat
  BY DEF Talk, LoginInv, WireInv, SlotTypes
<1>2. PICK p : p = pseudo'[c]
  OBVIOUS
<1> DEFINE S == Logins \ LoginsFrom(p)
<1>3. /\ Flow(c, Logins, LoginAnswers)' \in Nat /\ Flow(c, Logins, LoginAnswers) \in Nat
      /\ Flow(c, S, {})' \in Nat /\ Flow(c, {}, Welcomes)' \in Nat
  BY FlowNat, FlowNatNext
<1>4. Flow(c, Logins, LoginAnswers)' = 0
  <2>1. Flow(c, Logins, LoginAnswers) <= 1
    BY <1>1 DEF LoginInv
  <2>2. Flow(c, Logins, LoginAnswers)' + One(x, Logins \cup LoginAnswers)
          = Flow(c, Logins, LoginAnswers) + One(Nothing, Logins \cup LoginAnswers)
    BY AllKinds DEF Exchanged
  <2>3. One(x, Logins \cup LoginAnswers) = 1 /\ One(Nothing, Logins \cup LoginAnswers) = 0
    BY AllKinds, Ones DEF One
  <2> QED
    BY <1>3, <2>1, <2>2, <2>3
<1>5. Flow(c, S, {})' = 0 /\ Flow(c, {}, Welcomes)' = 0
  <2>1. S \subseteq Logins /\ {} \subseteq LoginAnswers /\ {} \subseteq Logins
        /\ Welcomes \subseteq LoginAnswers
    BY DEF Welcomes, LoginAnswers
  <2>2. /\ Flow(c, S, {})' <= Flow(c, Logins, LoginAnswers)'
        /\ Flow(c, {}, Welcomes)' <= Flow(c, Logins, LoginAnswers)'
    BY <2>1, FlowMoreNext
  <2> QED
    BY <1>3, <1>4, <2>2
<1>6. LoginInv(c)'
  BY <1>2, <1>4, <1>5 DEF LoginInv
<1>7. \A i \in 0 .. tot[c] - 1 : slots[c][i].type # "std"
  BY <1>1 DEF SlotsInv
<1>8. SlotsInv(c)'
  BY <1>1, <1>7 DEF SlotsInv, TakenIn, Client!FreeIn
<1>9. \A i \in Nat : ~Client!Awaited(c, i) /\ Flow(c, TextsOf(i), AcksOf(i)) = 0
  BY <1>1, NothingSaid
<1>10. ASSUME NEW i \in Nat PROVE OnItsWay(c, i)'
  <2>1. ~Client!Awaited(c, i)'
    BY <1>9 DEF Client!Awaited
  <2>2. One(Nothing, TextsOf(i) \cup AcksOf(i)) = 0 /\ One(x, TextsOf(i) \cup AcksOf(i)) = 0
    <3>1. x \notin TextsOf(i) \cup AcksOf(i)
      BY DEF TextsOf, AcksOf, LoginAnswers
    <3>2. One(Nothing, TextsOf(i) \cup AcksOf(i)) = 0
      BY AllKinds, Ones
    <3> QED
      BY <3>1, <3>2 DEF One
  <2>3. Flow(c, TextsOf(i), AcksOf(i))' + 0 = 0 + 0
    BY <1>9, <2>2, AllKinds DEF Exchanged
  <2>4. Flow(c, TextsOf(i), AcksOf(i))' = 0
    BY <2>3, FlowNatNext
  <2> QED
    BY <2>1, <2>4 DEF OnItsWay
<1> QED
  BY <1>6, <1>8, <1>10 DEF Talk, WayInv

(* An acknowledgement frees the slot of its text, or the text is sent once *)
(* more.                                                                   *)
LEMMA AckTalk ==
  ASSUME WireInv, WireInv', NEW c \in Clients, Talk(c), NEW i \in Nat, NEW x \in AcksOf(i),
         NEW y, Exchanged(c, x, y),
         UNCHANGED <<fds, nbFds, clients>>,
         UNCHANGED <<pseudo[c], connected[c], waiting[c], tot[c], nb[c]>>,
         \A j \in 0 .. tot[c] - 1 : j # i => slots'[c][j] = slots[c][j],
         \/ y = Nothing /\ slots'[c][i].type = "null"
         \/ /\ y \in Asked /\ y = slots'[c][i] /\ y.sock = -1
            /\ y.type = slots[c][i].type /\ y.id = slots[c][i].id
            /\ y.src = slots[c][i].src /\ y.len = slots[c][i].len
  PROVE  Talk(c)'
<1>1. LoginInv(c) /\ SlotsInv(c) /\ WayInv(c) /\ tot[c] \in Nat /\ nb[c] \in Nat
  BY DEF Talk, WireInv, SlotTypes
<1>2. /\ Client!Awaited(c, i) /\ ~Empty(c, i) /\ connected[c] /\ ~waiting[c]
      /\ i < nb[c] /\ slots[c][i].id = i /\ slots[c][i].src = pseudo[c]
      /\ Flow(c, TextsOf(i), AcksOf(i)) = 1
  <2>1. y \notin Answered
    BY DEF Nothing, EmptyMsg, Answered, Asked
  <2> QED
    BY <2>1, AckFound
<1>3. i \in 0 .. tot[c] - 1 /\ slots[c][i].type = "std"
  BY <1>1, <1>2 DEF Client!Awaited
<1>4. y = Nothing \/ (y.type = "std" /\ y.id = i)
  BY <1>2, <1>3
<1>5. LoginInv(c)'
  <2>1. y \notin Logins /\ y \notin LoginAnswers /\ y \notin Welcomes
    BY <1>4 DEF Logins, LoginAnswers, Welcomes, Nothing, EmptyMsg
  <2>2. Welcomed(c)' <=> Welcomed(c)
    BY StillWelcomed
  <2> QED
    BY <1>1, <2>1, <2>2, LoginOnItsWay
<1>6. SlotsInv(c)'
  <2>1. TakenIn(c)' \subseteq TakenIn(c)
    BY <1>3 DEF TakenIn, Client!FreeIn
  <2>2. Cardinality(TakenIn(c)') <= nb[c]
    <3>1. IsFiniteSet(TakenIn(c)) /\ Cardinality(TakenIn(c)) <= nb[c]
      BY <1>1, SlotsFinite DEF TakenIn, SlotsInv
    <3>2. /\ IsFiniteSet(TakenIn(c)') /\ Cardinality(TakenIn(c)') <= Cardinality(TakenIn(c))
      BY <2>1, <3>1, FS_Subset
    <3> QED
      BY <1>1, <3>1, <3>2, FS_CardinalityType
  <2>3. ASSUME NEW j \in 0 .. tot[c] - 1, slots'[c][j].type = "std"
        PROVE  /\ slots'[c][j].id = j /\ j < nb[c] /\ slots'[c][j].src = pseudo[c]
    <3>1. CASE j = i
      BY <1>2, <2>3, <3>1
    <3>2. CASE j # i
      BY <1>1, <2>3, <3>2 DEF SlotsInv
    <3> QED
      BY <3>1, <3>2
  <2> QED
    BY <1>2, <2>2, <2>3 DEF SlotsInv
<1>7. ASSUME NEW j \in Nat PROVE OnItsWay(c, j)'
  <2>1. OnItsWay(c, j)
    BY <1>1 DEF WayInv
  <2>2. PICK s : s = slots'[c][j]
    OBVIOUS
  <2> DEFINE R == TextsOf(j)
             A == AcksOf(j)
             S == R \ CopiesOf(s)
  <2>3. /\ Flow(c, R, A)' + One(x, R \cup A) = Flow(c, R, A) + One(y, R \cup A)
        /\ Flow(c, {}, A)' + One(x, {} \cup A) = Flow(c, {}, A) + One(y, {} \cup A)
        /\ Flow(c, S, {})' + One(x, S \cup {}) = Flow(c, S, {}) + One(y, S \cup {})
        /\ Flow(c, S, A)' + One(x, S \cup A) = Flow(c, S, A) + One(y, S \cup A)
    BY AllKinds DEF Exchanged
  <2>4. /\ Flow(c, R, A) \in Nat /\ Flow(c, R, A)' \in Nat
        /\ Flow(c, {}, A) \in Nat /\ Flow(c, {}, A)' \in Nat
        /\ Flow(c, S, {}) \in Nat /\ Flow(c, S, {})' \in Nat
        /\ Flow(c, S, A) \in Nat /\ Flow(c, S, A)' \in Nat
    BY FlowNat, FlowNatNext
  <2>5. CASE j # i
    <3>1. x \notin R \cup A /\ y \notin R \cup A
      BY <1>4, <2>5 DEF TextsOf, AcksOf, Nothing, EmptyMsg
    <3>2. One(x, R \cup A) = 0 /\ One(x, {} \cup A) = 0 /\ One(x, S \cup {}) = 0
          /\ One(y, R \cup A) = 0 /\ One(y, {} \cup A) = 0 /\ One(y, S \cup {}) = 0
      BY <3>1 DEF One
    <3> HIDE DEF R, A, S
    <3>3. /\ Flow(c, R, A)' = Flow(c, R, A) /\ Flow(c, {}, A)' = Flow(c, {}, A)
          /\ Flow(c, S, {})' = Flow(c, S, {})
      BY <2>3, <2>4, <3>2
    <3>4. CASE j < tot[c]
      <4>1. slots'[c][j] = slots[c][j] /\ s = slots[c][j]
        BY <1>1, <2>2, <2>5, <3>4
      <4>2. Client!Awaited(c, j)' <=> Client!Awaited(c, j)
        BY <4>1 DEF Client!Awaited
      <4> QED
        BY <2>1, <3>3, <4>1, <4>2 DEF OnItsWay, R, A, S
    <3>5. CASE ~(j < tot[c])
      <4>1. ~Client!Awaited(c, j)' /\ ~Client!Awaited(c, j)
        BY <3>5 DEF Client!Awaited
      <4>2. Flow(c, R, A) = 0
        BY <2>1, <4>1 DEF OnItsWay, R, A
      <4> QED
        BY <3>3, <4>1, <4>2 DEF OnItsWay, R, A
    <3> QED
      BY <3>4, <3>5
  <2>6. CASE j = i
    <3>1. Flow(c, R, A) = 1 /\ x \in A
      BY <1>2, <2>6
    <3>2. CASE y = Nothing /\ slots'[c][i].type = "null"
      <4>1. One(y, R \cup A) = 0 /\ One(x, R \cup A) = 1
        <5>1. Kinds(R, A)
          BY AllKinds
        <5> HIDE DEF R, A
        <5> QED
          BY <3>1, <3>2, <5>1, Ones DEF One
      <4> HIDE DEF R, A, S
      <4>2. Flow(c, R, A)' = 0
        BY <2>3, <2>4, <3>1, <4>1
      <4>3. ~Client!Awaited(c, j)'
        BY <2>6, <3>2 DEF Client!Awaited
      <4> QED
        BY <4>2, <4>3 DEF OnItsWay, R, A
    <3>3. CASE /\ y \in Asked /\ y = slots'[c][i] /\ y.sock = -1
               /\ y.type = slots[c][i].type /\ y.id = slots[c][i].id
               /\ y.src = slots[c][i].src /\ y.len = slots[c][i].len
      <4>1. s = y
        BY <2>2, <2>6, <3>3
      <4>2. y \in R /\ y \notin A /\ y \notin S
        <5>1. y \in Msgs /\ [y EXCEPT !.sock = -1] = y
          BY <3>3 DEF Asked, Msgs
        <5> QED
          BY <1>2, <1>3, <2>6, <3>3, <4>1, <5>1 DEF TextsOf, AcksOf, CopiesOf
      <4>3. S \subseteq R /\ A \subseteq A /\ {} \subseteq A /\ S \subseteq S
        OBVIOUS
      <4> HIDE DEF R, A, S
      <4>4. One(x, R \cup A) = 1 /\ One(x, S \cup A) = 1 /\ One(y, R \cup A) = 1 /\ One(y, S \cup A) = 0
        BY <3>1, <4>2 DEF One
      <4>5. Flow(c, S, A) <= Flow(c, R, A)
        BY <4>3, FlowMore
      <4>6. Flow(c, R, A)' = 1 /\ Flow(c, S, A)' = 0
        BY <2>3, <2>4, <3>1, <4>4, <4>5
      <4>7. Flow(c, S, {})' <= Flow(c, S, A)'
        BY <4>3, FlowMoreNext
      <4>8. Flow(c, S, {})' = 0
        BY <2>4, <4>6, <4>7
      <4>9. Client!Awaited(c, j)' /\ slots'[c][j].len # 0
        BY <1>2, <1>3, <2>6, <3>3 DEF Client!Awaited, Empty
      <4> QED
        BY <2>2, <4>6, <4>8, <4>9 DEF OnItsWay, R, A, S
    <3> QED
      BY <3>2, <3>3
  <2> QED
    BY <2>5, <2>6
<1> QED
  BY <1>5, <1>6, <1>7 DEF Talk, WayInv

LEMMA ReadTalk ==
  ASSUME WireInv, WireInv', NEW c \in Clients, Talk(c), Client!OnMsg(c),
         UNCHANGED <<sin, sout, fds, nbFds, clients>>
  PROVE  Talk(c)'
<1>1. PICK m \in Client!Next1(c) :
        \/ Client!OnRefusal(c, m) \/ Client!OnWelcome(c, m) \/ Client!OnNegativeAck(c, m)
        \/ Client!OnPositiveAck(c, m) \/ Client!OnOther(c, m)
  BY DEF Client!OnMsg
<1>2. m = Head(down[c]) /\ down[c] # <<>>
  BY <1>1 DEF Client!Next1
<1>3. LoginTypes /\ SlotTypes /\ QueueTypes /\ SlotsInv(c) /\ LoginInv(c)
  BY DEF WireInv, Talk
<1>4. /\ m \in Replies /\ m \in Msgs
      /\ m.type \in {"ack_pos", "ack_neg"} => m.id \in 0 .. tot[c] - 1 /\ m.retr \in Retries
  BY <1>2, Received
<1>5. down'[c] = Tail(down[c])
  BY <1>1, <1>3 DEF Client!OnRefusal, Client!OnWelcome, Client!OnNegativeAck, Client!OnPositiveAck,
              Client!Acked, Client!OnOther, Client!Take, QueueTypes
<1>6. /\ tot[c] \in Nat /\ nb[c] \in Nat /\ DOMAIN slots[c] = 0 .. tot[c] - 1
      /\ slots[c] \in [0 .. tot[c] - 1 -> Requests(tot[c], {-1}) \cup Client!EmptySlots]
  BY <1>3 DEF SlotTypes
<1>7. ASSUME up'[c] = up[c] PROVE Exchanged(c, m, Nothing)
  BY <1>2, <1>5, <1>7, ClientFlow
<1>8. CASE Client!OnRefusal(c, m)
  <2>1. /\ waiting[c] /\ m.type = "error" /\ waiting' = [waiting EXCEPT ![c] = FALSE]
        /\ UNCHANGED <<connected, slots, tot, nb, up>>
    BY <1>8 DEF Client!OnRefusal, Client!table
  <2>2. ~waiting'[c] /\ ~connected'[c] /\ UNCHANGED <<slots[c], tot[c], nb[c], up[c]>>
    BY <1>3, <2>1 DEF LoginTypes, LoginInv
  <2>3. m \in LoginAnswers /\ Exchanged(c, m, Nothing)
    BY <1>4, <1>7, <2>1 DEF LoginAnswers
  <2> QED
    BY <2>1, <2>2, <2>3, AnsweredTalk
<1>9. CASE Client!OnWelcome(c, m)
  <2>1. /\ waiting[c] /\ m.type = "well_connected" /\ waiting' = [waiting EXCEPT ![c] = FALSE]
        /\ UNCHANGED <<pseudo, slots, tot, nb, up>>
    BY <1>9 DEF Client!OnWelcome, Client!table
  <2>2. ~waiting'[c] /\ UNCHANGED <<slots[c], tot[c], nb[c], up[c], pseudo[c]>>
    BY <1>3, <2>1 DEF LoginTypes
  <2>3. m \in LoginAnswers /\ m \in Welcomes /\ Exchanged(c, m, Nothing)
    BY <1>4, <1>7, <2>1 DEF LoginAnswers, Welcomes
  <2>4. Flow(c, {}, Welcomes) > 0
    <3>1. m \in {} \cup Welcomes /\ Nothing \notin {} \cup Welcomes /\ Kinds({}, Welcomes)
      BY <2>3, AllKinds DEF Nothing, EmptyMsg, Welcomes
    <3> QED
      BY <2>3, <3>1, WasOnItsWay
  <2>5. Welcomed(c)' <=> Welcomed(c)
    BY <2>2, StillWelcomed
  <2>6. Welcomed(c)'
    BY <1>3, <2>4, <2>5 DEF LoginInv
  <2> QED
    BY <2>1, <2>2, <2>3, <2>6, AnsweredTalk
<1>10. ASSUME m.type \in {"ack_pos", "ack_neg"}
       PROVE  m.id \in Nat /\ m \in AcksOf(m.id)
  BY <1>4, <1>6, <1>10 DEF AcksOf
<1>11. ASSUME Client!OnNegativeAck(c, m) \/ Client!OnPositiveAck(c, m)
       PROVE  /\ UNCHANGED <<pseudo[c], connected[c], waiting[c], tot[c], nb[c]>>
              /\ m.type \in {"ack_pos", "ack_neg"}
  BY <1>11 DEF Client!OnNegativeAck, Client!OnPositiveAck, Client!login, Client!Acked
<1>12. CASE Client!OnNegativeAck(c, m)
  <2>1. /\ slots' = [slots EXCEPT ![c][m.id].retr = m.retr]
        /\ up' = [up EXCEPT ![c] = Append(@, slots'[c][m.id])]
    BY <1>12 DEF Client!OnNegativeAck, Client!Send
  <2>2. m.id \in 0 .. tot[c] - 1 /\ m.id \in Nat /\ m \in AcksOf(m.id)
    BY <1>4, <1>10, <1>11, <1>12
  <2> DEFINE y == [slots[c][m.id] EXCEPT !.retr = m.retr]
  <2>3. slots'[c] = [slots[c] EXCEPT ![m.id] = y]
    BY <1>3, <2>1 DEF SlotTypes
  <2>4. /\ y.type = slots[c][m.id].type /\ y.id = slots[c][m.id].id
        /\ y.src = slots[c][m.id].src /\ y.len = slots[c][m.id].len
    <3>1. slots[c][m.id] \in Requests(tot[c], {-1}) \cup Client!EmptySlots
      BY <1>6, <2>2
    <3> QED
      BY <3>1 DEF Requests, Client!EmptySlots, Client!EmptyMsg
  <2> HIDE DEF y
  <2>5. slots'[c][m.id] = y /\ \A j \in 0 .. tot[c] - 1 : j # m.id => slots'[c][j] = slots[c][j]
    BY <1>6, <2>2, <2>3
  <2>6. up'[c] = Append(up[c], y)
    BY <1>3, <2>1, <2>5 DEF QueueTypes
  <2>7. y \in Asked /\ y.sock = -1
    BY <2>6, LastSent
  <2>8. Exchanged(c, m, y)
    BY <1>2, <1>5, <2>6, <2>7, ClientFlow
  <2> QED
    BY <1>11, <1>12, <2>2, <2>4, <2>5, <2>7, <2>8, AckTalk
<1>13. CASE Client!OnPositiveAck(c, m)
  <2>1. /\ slots' = [slots EXCEPT ![c][m.id] = Client!EmptyMsg] /\ up' = up
    BY <1>13 DEF Client!OnPositiveAck
  <2>2. m.id \in 0 .. tot[c] - 1 /\ m.id \in Nat /\ m \in AcksOf(m.id)
    BY <1>4, <1>10, <1>11, <1>13
  <2>3. slots'[c] = [slots[c] EXCEPT ![m.id] = Client!EmptyMsg]
    BY <1>3, <2>1 DEF SlotTypes
  <2>4. slots'[c][m.id].type = "null"
        /\ \A j \in 0 .. tot[c] - 1 : j # m.id => slots'[c][j] = slots[c][j]
    BY <1>6, <2>2, <2>3 DEF Client!EmptyMsg
  <2>5. Exchanged(c, m, Nothing)
    BY <1>7, <2>1
  <2> QED
    BY <1>11, <1>13, <2>2, <2>4, <2>5, AckTalk
<1>14. CASE Client!OnOther(c, m)
  <2>1. /\ IF waiting[c] THEN m.type \notin {"error", "well_connected"}
           ELSE ~connected[c] \/ m.type \notin {"ack_neg", "ack_pos"} \/ Client!BadAck(c, m)
        /\ UNCHANGED <<pseudo, connected, waiting, slots, tot, nb, up>>
    BY <1>14 DEF Client!OnOther, Client!login, Client!table
  <2>2. Exchanged(c, m, Nothing) /\ Stays(c)
    BY <1>7, <2>1 DEF Stays
  <2>3. ASSUME NEW i \in Nat, m \in AcksOf(i) PROVE FALSE
    <3>1. Nothing \notin Answered
      BY DEF Nothing, EmptyMsg, Answered
    <3>2. Client!Awaited(c, i) /\ connected[c] /\ ~waiting[c] /\ i < nb[c]
      BY <2>2, <2>3, <3>1, AckFound
    <3>3. m.id = i /\ m.type \in {"ack_pos", "ack_neg"}
      BY <2>3 DEF AcksOf
    <3>4. ~Client!BadAck(c, m)
      <4>1. nb[c] \in Nat /\ tot[c] \in Nat /\ m.id \in 0 .. nb[c] /\ m.id \notin tot[c] .. nb[c]
        BY <1>1, <2>3, <3>2, <3>3 DEF WireInv, SlotTypes, Client!Awaited
      <4> QED
        BY <3>2, <3>3, <4>1 DEF Client!BadAck, Client!Awaited, Client!Beyond
    <3> QED
      BY <2>1, <3>2, <3>3, <3>4
  <2>4. \A i \in Nat : m \notin TextsOf(i)
    BY <1>4 DEF Replies, Asked, TextsOf
  <2>5. Welcomed(c)' <=> Welcomed(c)
    BY <2>1, StillWelcomed
  <2>6. Nothing \notin Asked /\ Nothing \notin LoginAnswers /\ Nothing \notin Welcomes
        /\ \A i \in Nat : Nothing \notin TextsOf(i) /\ Nothing \notin AcksOf(i)
    BY DEF Nothing, EmptyMsg, Asked, LoginAnswers, Welcomes, TextsOf, AcksOf
  <2> QED
    BY <2>2, <2>3, <2>4, <2>5, <2>6, SameTable
<1> QED
  BY <1>1, <1>8, <1>9, <1>12, <1>13, <1>14

(* A text on its way is the one in its slot.                               *)
LEMMA TextFound ==
  ASSUME WireInv, WireInv', NEW c \in Clients, Talk(c), NEW i \in Nat, NEW x \in TextsOf(i),
         NEW y, y \notin Asked, Exchanged(c, x, y)
  PROVE  /\ Client!Awaited(c, i) /\ slots[c][i].len = x.len /\ slots[c][i].src = x.src
         /\ connected[c] /\ x.src = pseudo[c]
<1> DEFINE R == TextsOf(i)
           A == AcksOf(i)
           S == R \ CopiesOf(slots[c][i])
<1>1. y \notin R
  BY DEF TextsOf, Asked
<1>2. Kinds(R, {}) /\ Kinds(S, {})
  BY AllKinds
<1>3. OnItsWay(c, i) /\ SlotsInv(c) /\ tot[c] \in Nat
  BY DEF Talk, WayInv, WireInv, SlotTypes
<1>4. Client!Awaited(c, i)
  <2>1. R \subseteq R /\ {} \subseteq A
    OBVIOUS
  <2>2. x \in R
    OBVIOUS
  <2>3. Flow(c, R, A) # 0
    <3> HIDE DEF R, A, S
    <3>1. Flow(c, R, {}) > 0
      BY <1>1, <1>2, <2>2, WasOnItsWay
    <3>2. Flow(c, R, {}) <= Flow(c, R, A) /\ Flow(c, R, A) \in Nat /\ Flow(c, R, {}) \in Nat
      BY <2>1, FlowMore, FlowNat
    <3> QED
      BY <3>1, <3>2
  <2> QED
    BY <1>3, <2>3 DEF OnItsWay
<1>5. x \in CopiesOf(slots[c][i])
  <2>1. SUFFICES ASSUME x \in S PROVE FALSE
    OBVIOUS
  <2>2. y \notin S
    BY <1>1
  <2>3. Flow(c, S, {}) = 0
    BY <1>3, <1>4 DEF OnItsWay
  <2> HIDE DEF S
  <2> QED
    BY <1>2, <2>1, <2>2, <2>3, WasOnItsWay
<1>6. slots[c][i] = [x EXCEPT !.sock = -1] /\ x \in Msgs
  BY <1>5 DEF CopiesOf
<1>7. slots[c][i].len = x.len /\ slots[c][i].src = x.src
  BY <1>6 DEF Msgs
<1>8. i \in 0 .. tot[c] - 1 /\ slots[c][i].type = "std"
  BY <1>3, <1>4 DEF Client!Awaited
<1> QED
  BY <1>3, <1>4, <1>7, <1>8 DEF SlotsInv

LEMMA NothingIsNothing ==
  /\ Nothing \notin Asked /\ Nothing \notin LoginAnswers /\ Nothing \notin Welcomes
  /\ Nothing \notin Answered
  /\ \A i \in Nat : Nothing \notin TextsOf(i) /\ Nothing \notin AcksOf(i)
BY DEF Nothing, EmptyMsg, Asked, LoginAnswers, Welcomes, Answered, TextsOf, AcksOf

LEMMA ForwardTalk ==
  ASSUME WireInv, WireInv', TalkInv, NEW j \in PollSlots, OnClientReceived(j)
  PROVE  TalkInv'
<1> DEFINE c == fds[j]
           m == Head(up[c])
           n == [m EXCEPT !.sock = j]
<1>1. /\ j < nbFds /\ c \in Clients /\ up[c] # <<>>
      /\ sin' = IF Passed(n) THEN Append(sin, n) ELSE sin
      /\ UNCHANGED <<pseudo, connected, waiting, slots, tot, nb>>
      /\ UNCHANGED <<fds, nbFds, clients, index, stored>>
  BY DEF OnClientReceived, proxySide, table, clientSide, serverSide
<1>2. m \in Asked /\ m \in Msgs
  <2>1. up[c] \in Seq(Asked)
    BY <1>1, QueueMsgs
  <2> QED
    BY <1>1, <2>1, HeadTail DEF Asked
<1>3. PassedInv'
  <2>1. sin \in Seq(Asked)
    BY QueueMsgs
  <2>2. n \in Asked
    <3>1. j \in Int
      BY ProxyAssumption DEF PollSlots
    <3>2. n \in Msgs /\ n.type = m.type
      BY <1>2, <3>1, MarkedMsgs
    <3> QED
      BY <1>2, <3>2 DEF Asked
  <2>3. CASE Passed(n)
    <3>1. sin' = Append(sin, n)
      BY <1>1, <2>3
    <3> HIDE DEF n
    <3>2. /\ DOMAIN sin' = 1 .. Len(sin) + 1 /\ sin'[Len(sin) + 1] = n
          /\ \A k \in 1 .. Len(sin) : sin'[k] = sin[k] /\ k \in DOMAIN sin
      BY <2>1, <2>2, <3>1
    <3>3. ASSUME NEW k \in DOMAIN sin' PROVE Passed(sin'[k])
      <4>1. k \in 1 .. Len(sin) \/ k = Len(sin) + 1
        BY <2>1, <3>2
      <4> QED
        BY <2>3, <3>2, <4>1 DEF TalkInv, PassedInv
    <3>4. PassedInv' = \A k \in DOMAIN sin' : Passed(sin'[k])
      BY DEF PassedInv, Passed
    <3> QED
      BY <3>3, <3>4
  <2>4. CASE ~Passed(n)
    BY <1>1, <2>4 DEF TalkInv, PassedInv
  <2> QED
    BY <2>3, <2>4
<1>4. SessionsInv'
  BY <1>1 DEF TalkInv, SessionsInv
<1> HIDE DEF m, n, c
<1>5. ASSUME NEW d \in Clients PROVE Talk(d)'
  <2>1. Exchanged(d, Dropped(c, d, m), Nothing)
    BY ForwardFlow DEF c, m
  <2>2. Stays(d) /\ (Welcomed(d)' <=> Welcomed(d)) /\ Talk(d)
    BY <1>1, StillWelcomed DEF Stays, TalkInv
  <2>3. ASSUME NEW i \in Nat, Dropped(c, d, m) \in TextsOf(i) \cup AcksOf(i)
        PROVE  Dropped(c, d, m) \in TextsOf(i) /\ Empty(d, i)
    <3>1. c = d /\ ~Passed(m) /\ Dropped(c, d, m) = m
      BY <2>3, NothingIsNothing DEF Dropped
    <3>2. m \in TextsOf(i)
      BY <1>2, <2>3, <3>1 DEF Asked, AcksOf
    <3>3. m.len = 0
      BY <1>2, <3>1 DEF Passed, Msgs
    <3>4. Client!Awaited(d, i) /\ slots[d][i].len = m.len
      BY <2>1, <2>2, <3>1, <3>2, NothingIsNothing, TextFound
    <3> QED
      BY <3>1, <3>2, <3>3, <3>4 DEF Empty
  <2> HIDE DEF Dropped
  <2> QED
    BY <2>1, <2>2, <2>3, NothingIsNothing, SameTable
<1> QED
  BY <1>3, <1>4, <1>5 DEF TalkInv

LEMMA DeliverTalk ==
  ASSUME WireInv, WireInv', NobodyLeft, TalkInv, OnServerReceived
  PROVE  TalkInv'
<1> DEFINE m == Head(sout)
<1>1. /\ sout # <<>> /\ sin' = sin
      /\ UNCHANGED <<pseudo, connected, waiting, slots, tot, nb>>
      /\ UNCHANGED <<fds, nbFds, clients, index, stored>>
  BY DEF OnServerReceived, clientSide, serverSide
<1>2. m \in Replies /\ m.sock \in Live /\ m \in Msgs
  <2>1. sout \in Seq(SoutMsgs)
    BY DEF WireInv, QueueTypes
  <2>2. m \in SoutMsgs
    BY <1>1, <2>1, HeadTail
  <2> QED
    BY <2>2, QueueMsgs DEF Replies
<1>3. Discarded(m) => m.type \notin {"ack_pos", "ack_neg"}
  <2>1. m.sock # -1 /\ ~(m.sock >= nbFds)
    BY <1>2 DEF Live, WireInv, TableInv
  <2> QED
    BY <2>1 DEF Discarded, Passed, MayBeEmpty
<1>4. SessionsInv' /\ PassedInv'
  BY <1>1 DEF TalkInv, SessionsInv, PassedInv, Passed
<1>5. ASSUME NEW d \in Clients PROVE Talk(d)'
  <2> DEFINE x == IF Discarded(m) THEN Only(fds[m.sock], d, m) ELSE Nothing
  <2>1. Exchanged(d, x, Nothing)
    BY DeliverFlow
  <2>2. Stays(d) /\ (Welcomed(d)' <=> Welcomed(d)) /\ Talk(d)
    BY <1>1, StillWelcomed DEF Stays, TalkInv
  <2> HIDE DEF m
  <2>3. x = Nothing \/ (x = m /\ m.type \notin {"ack_pos", "ack_neg"})
    BY <1>3 DEF Only
  <2> HIDE DEF x
  <2>4. \A i \in Nat : x \notin TextsOf(i) \cup AcksOf(i)
    BY <1>2, <2>3, NothingIsNothing DEF TextsOf, AcksOf, Replies, Asked
  <2> QED
    BY <2>1, <2>2, <2>4, NothingIsNothing, SameTable
<1> QED
  BY <1>4, <1>5 DEF TalkInv

(* The server takes request m of client c, and its answers r hold message  *)
(* y for c.                                                                *)
LEMMA ServeTalk ==
  ASSUME WireInv, WireInv', TalkInv, SessionsInv',
         sin # <<>>, sin' = Tail(sin), NEW r \in Seq(Replies), sout' = sout \o r,
         UNCHANGED <<up, down, fds, nbFds>>,
         UNCHANGED <<pseudo, connected, waiting, slots, tot, nb>>,
         NEW m, m = Head(sin), NEW c \in Clients, c = fds[m.sock],
         NEW y \in Replies \cup {Nothing},
         \A d \in Clients : \A A : A \subseteq Answered =>
            Count(r, A \cap Of(d)) = IF d = c THEN One(y, A) ELSE 0,
         \A d \in Clients : Welcomed(d) => Welcomed(d)',
         y \in LoginAnswers => m \in Logins,
         y \in Welcomes /\ m.src = pseudo[c] => Welcomed(c)',
         \A i \in Nat : y \in AcksOf(i) => m \in TextsOf(i),
         \A i \in Nat : m \in TextsOf(i) => y \in AcksOf(i) \/ m.src \in ShortNames
  PROVE  TalkInv'
<1>1. sin \in Seq(Asked) /\ m \in Asked
  BY QueueMsgs, HeadTail
<1>2. y \notin Asked /\ \A T : T \subseteq Asked => y \notin T
  BY NothingIsNothing DEF Replies
<1>3. ASSUME NEW d \in Clients
      PROVE  /\ Exchanged(d, Only(c, d, m), Only(c, d, y)) /\ Stays(d)
             /\ (Welcomed(d) => Welcomed(d)') /\ Talk(d)
  BY ServeFlow DEF Stays, TalkInv
<1>4. Passed(m)
  <2>1. m = sin[1] /\ 1 \in DOMAIN sin
    BY <1>1, LenProperties
  <2> QED
    BY <2>1 DEF TalkInv, PassedInv
<1>5. PassedInv'
  <2>1. ASSUME NEW k \in DOMAIN Tail(sin) PROVE Tail(sin)[k] = sin[k + 1] /\ k + 1 \in DOMAIN sin
    BY <1>1, LenProperties
  <2>2. PassedInv' = \A k \in DOMAIN sin' : Passed(sin'[k])
    BY DEF PassedInv, Passed
  <2> QED
    BY <2>1, <2>2 DEF TalkInv, PassedInv
<1>6. ASSUME NEW d \in Clients, d # c PROVE Talk(d)'
  <2>1. Exchanged(d, Nothing, Nothing)
    BY <1>3, <1>6 DEF Only
  <2> QED
    BY <1>3, <2>1, NothingIsNothing, SameTable
<1>7. Talk(c)'
  <2>1. Exchanged(c, m, y) /\ Stays(c) /\ (Welcomed(c) => Welcomed(c)') /\ Talk(c)
    BY <1>3 DEF Only
  <2>2. y \in Welcomes => Welcomed(c)'
    <3>1. SUFFICES ASSUME y \in Welcomes PROVE m.src = pseudo[c]
      OBVIOUS
    <3>2. m \in Logins
      BY <3>1 DEF Welcomes, LoginAnswers
    <3> DEFINE S == Logins \ LoginsFrom(pseudo[c])
    <3>3. SUFFICES ASSUME m \in S PROVE FALSE
      BY <3>2 DEF LoginsFrom
    <3>4. y \notin S
      BY <1>2 DEF Logins, Asked
    <3>5. Kinds(S, {})
      BY AllKinds
    <3>6. Flow(c, S, {}) = 0
      BY <2>1 DEF Talk, LoginInv
    <3> HIDE DEF S
    <3> QED
      <4>1. m \in S \cup {} /\ y \notin S \cup {}
        BY <3>3, <3>4
      <4>2. Flow(c, S, {}) > 0
        BY <2>1, <3>5, <4>1, WasOnItsWay
      <4> QED
        BY <3>6, <4>2
  <2>3. ASSUME NEW i \in Nat, m \in TextsOf(i)
        PROVE  y \in AcksOf(i) /\ ~Empty(c, i)
    <3>1. /\ slots[c][i].len = m.len /\ connected[c] /\ m.src = pseudo[c]
      BY <1>2, <2>1, <2>3, TextFound
    <3>2. m.src \notin ShortNames
      BY <2>1, <3>1 DEF Talk, LoginInv, Welcomed
    <3>3. m.len > 0
      BY <1>4, <2>3 DEF Passed, MayBeEmpty, TextsOf
    <3> QED
      BY <2>3, <3>1, <3>2, <3>3 DEF Empty
  <2>4. \A i \in Nat : m \in TextsOf(i) \cup AcksOf(i) => y \in AcksOf(i)
    <3>1. \A i \in Nat : m \notin AcksOf(i)
      BY <1>1 DEF Asked, AcksOf
    <3> QED
      BY <2>3, <3>1
  <2>5. \A i \in Nat : y \in AcksOf(i) => m \in TextsOf(i) /\ ~Empty(c, i)
    BY <2>3
  <2>6. y \notin Asked
    BY <1>2
  <2> QED
    BY <2>1, <2>2, <2>4, <2>5, <2>6, SameTable
<1> QED
  BY <1>5, <1>6, <1>7 DEF TalkInv

(* The handlers of the server keep the table and the hashmap together.     *)
LEMMA IndexIsClean ==
  ASSUME WireInv, SessionsInv, NEW p \in Names
  PROVE  Server!Cleaned(p) = index
BY DEF WireInv, ServerTypes, SessionsInv, Server!Cleaned, Server!Found

LEMMA SameSessions ==
  ASSUME SessionsInv, UNCHANGED <<clients, index, stored, pseudo, fds, nbFds>>
  PROVE  SessionsInv' /\ \A d \in Clients : Welcomed(d) => Welcomed(d)'
<1>1. SessionsInv'
  BY DEF SessionsInv
<1> QED
  BY <1>1, StillWelcomed

(* A session that moves to another connection was no longer in use.        *)
LEMMA MovedSession ==
  ASSUME WireInv, SessionsInv, NEW m, m.src \in Names, m.body \in Nat, m.sock \in Int,
         Server!TakeOver(m), UNCHANGED <<pseudo, fds, nbFds>>
  PROVE  /\ SessionsInv'
         /\ \A d \in Clients : Welcomed(d) => Welcomed(d)'
         /\ \A d \in Clients : m.src = pseudo[d] /\ m.sock \in SlotOf(d) => Welcomed(d)'
<1> DEFINE k == index[m.src]
           s == [pseudo |-> clients[k].pseudo, last |-> now, sock |-> m.sock]
<1>1. /\ m.src \notin ShortNames /\ ~Server!Refused(m) /\ Server!Found(m.src) # Null
      /\ clients' = [clients EXCEPT ![k] = s] /\ stored' = [stored EXCEPT ![m.src] = m.body]
      /\ UNCHANGED <<index, now>>
  BY DEF Server!TakeOver, Server!Connection
<1>2. /\ index \in [Names -> Server!CSlots \cup {-1}] /\ now \in Nat
      /\ clients \in [Server!CSlots -> Sessions \cup {Null}] /\ stored = [p \in Names |-> stored[p]]
  BY SystemAssumption DEF WireInv, ServerTypes
<1>3. k \in Server!CSlots /\ clients[k] # Null /\ clients[k].pseudo = m.src /\ k # -1
  BY <1>1, <1>2 DEF SessionsInv, Server!Found
<1>4. s.pseudo = m.src /\ s.last = now /\ s.sock = m.sock /\ s # Null
  <2>1. s \in Server!ClientRec
    BY <1>2, <1>3 DEF Server!ClientRec, WireInv, ServerTypes
  <2> QED
    BY <1>3, <2>1, SystemAssumption
<1>5. clients'[k] = s /\ \A i \in Server!CSlots : i # k => clients'[i] = clients[i]
  BY <1>1, <1>2, <1>3
<1>6. stored'[m.src] # NoCode /\ \A p \in Names : p # m.src => stored'[p] = stored[p]
  BY <1>1, <1>2, SystemAssumption
<1>7. now >= Timeout
  <2>1. clients[k].last \in Nat /\ clients[k] \in Sessions /\ Timeout \in Nat
    BY <1>2, <1>3, SystemAssumption DEF Sessions
  <2>2. stored[m.src] # NoCode /\ Server!Found(m.src) = clients[k]
    BY <1>1, <1>3 DEF SessionsInv, Server!Found
  <2>3. ~(now - clients[k].last < Timeout)
    BY <1>1, <2>2 DEF Server!Refused, Server!StillActive
  <2> QED
    BY <1>2, <2>1, <2>3
<1>8. \A i \in Server!CSlots : clients[i] # Null => clients[i].pseudo \in Names
  BY <1>2 DEF Sessions
<1> HIDE DEF s, k
<1>9. SessionsInv'
  BY <1>1, <1>2, <1>3, <1>4, <1>5, <1>6, <1>8 DEF SessionsInv, k
<1>10. ASSUME NEW d \in Clients, Welcomed(d) PROVE Welcomed(d)'
  <2>1. SlotOf(d)' = SlotOf(d)
    BY SameSlots
  <2>2. PICK i \in Server!CSlots :
           /\ clients[i] # Null /\ clients[i].pseudo = pseudo[d]
           /\ clients[i].sock \in SlotOf(d) \/ clients[i].last >= Timeout
    BY <1>10 DEF Welcomed
  <2>3. /\ clients'[i] # Null /\ clients'[i].pseudo = pseudo[d]
        /\ clients'[i].sock \in SlotOf(d) \/ clients'[i].last >= Timeout
    BY <1>3, <1>4, <1>5, <1>7, <2>2
  <2> QED
    BY <1>10, <2>1, <2>3 DEF Welcomed
<1>11. ASSUME NEW d \in Clients, m.src = pseudo[d], m.sock \in SlotOf(d) PROVE Welcomed(d)'
  <2>1. SlotOf(d)' = SlotOf(d)
    BY SameSlots
  <2> QED
    BY <1>1, <1>3, <1>4, <1>5, <1>11, <2>1 DEF Welcomed
<1> QED
  BY <1>9, <1>10, <1>11

LEMMA NewSession ==
  ASSUME WireInv, SessionsInv, NEW m, m.src \in Names, m.body \in Nat, m.sock \in Int,
         NEW k \in Server!CSlots, Server!Register(m, k), UNCHANGED <<pseudo, fds, nbFds>>
  PROVE  /\ SessionsInv'
         /\ \A d \in Clients : Welcomed(d) => Welcomed(d)'
         /\ \A d \in Clients : m.src = pseudo[d] /\ m.sock \in SlotOf(d) => Welcomed(d)'
<1> DEFINE s == [pseudo |-> m.src, last |-> now, sock |-> m.sock]
<1>1. /\ m.src \notin ShortNames /\ Server!Found(m.src) = Null /\ clients[k] = Null
      /\ clients' = [clients EXCEPT ![k] = s] /\ stored' = [stored EXCEPT ![m.src] = m.body]
      /\ index' = [index EXCEPT ![m.src] = k] /\ UNCHANGED now
  BY DEF Server!Register, Server!Connection, Server!FreeSlots
<1>2. /\ index \in [Names -> Server!CSlots \cup {-1}] /\ now \in 0 .. MaxTime
      /\ clients \in [Server!CSlots -> Sessions \cup {Null}] /\ stored = [p \in Names |-> stored[p]]
  BY DEF WireInv, ServerTypes
<1>3. index[m.src] = -1
  BY <1>1, <1>2 DEF SessionsInv, Server!Found
<1>4. s.pseudo = m.src /\ s.sock = m.sock /\ s # Null
  <2>1. s \in Server!ClientRec
    BY <1>2 DEF Server!ClientRec
  <2> QED
    BY <2>1, SystemAssumption
<1>5. clients'[k] = s /\ \A i \in Server!CSlots : i # k => clients'[i] = clients[i]
  BY <1>1, <1>2
<1>6. /\ stored'[m.src] # NoCode /\ \A p \in Names : p # m.src => stored'[p] = stored[p]
      /\ index'[m.src] = k /\ \A p \in Names : p # m.src => index'[p] = index[p]
  BY <1>1, <1>2, SystemAssumption
<1>7. \A i \in Server!CSlots : clients[i] # Null
        => clients[i].pseudo \in Names /\ clients[i].pseudo # m.src /\ i # -1 /\ i # k
  <2>1. \A i \in Server!CSlots : clients[i] # Null => clients[i].pseudo \in Names /\ i # -1
    BY <1>2 DEF Sessions, Server!CSlots
  <2> QED
    BY <1>1, <1>3, <2>1 DEF SessionsInv
<1>8. k # -1
  BY SystemAssumption DEF Server!CSlots
<1> HIDE DEF s
<1>9. SessionsInv'
  <2>1. ASSUME NEW p \in Names, index'[p] # -1
        PROVE  clients'[index'[p]] # Null /\ clients'[index'[p]].pseudo = p
    <3>1. CASE p = m.src
      BY <1>4, <1>5, <1>6, <3>1
    <3>2. CASE p # m.src
      <4>1. index'[p] = index[p] /\ index[p] \in Server!CSlots
        BY <1>2, <1>6, <2>1, <3>2
      <4> QED
        BY <1>5, <1>7, <2>1, <4>1 DEF SessionsInv
    <3> QED
      BY <3>1, <3>2
  <2>2. ASSUME NEW i \in Server!CSlots, clients'[i] # Null
        PROVE  index'[clients'[i].pseudo] = i /\ stored'[clients'[i].pseudo] # NoCode
    <3>1. CASE i = k
      BY <1>4, <1>5, <1>6, <3>1
    <3>2. CASE i # k
      BY <1>5, <1>6, <1>7, <2>2, <3>2 DEF SessionsInv
    <3> QED
      BY <3>1, <3>2
  <2> QED
    BY <2>1, <2>2 DEF SessionsInv
<1>10. ASSUME NEW d \in Clients, Welcomed(d) PROVE Welcomed(d)'
  <2>1. SlotOf(d)' = SlotOf(d)
    BY SameSlots
  <2>2. PICK i \in Server!CSlots :
           /\ clients[i] # Null /\ clients[i].pseudo = pseudo[d]
           /\ clients[i].sock \in SlotOf(d) \/ clients[i].last >= Timeout
    BY <1>10 DEF Welcomed
  <2>3. clients'[i] = clients[i]
    BY <1>5, <1>7, <2>2
  <2> QED
    BY <1>10, <2>1, <2>2, <2>3 DEF Welcomed
<1>11. ASSUME NEW d \in Clients, m.src = pseudo[d], m.sock \in SlotOf(d) PROVE Welcomed(d)'
  <2>1. SlotOf(d)' = SlotOf(d)
    BY SameSlots
  <2> QED
    BY <1>1, <1>4, <1>5, <1>11, <2>1 DEF Welcomed
<1> QED
  BY <1>9, <1>10, <1>11

(* One answer, for the client it goes to.                                  *)
LEMMA OneAnswer ==
  ASSUME WireInv, NEW y \in Replies, NEW c \in Clients, y.sock \in Live, c = fds[y.sock]
  PROVE  /\ <<y>> \in Seq(Replies)
         /\ \A d \in Clients : \A A : A \subseteq Answered =>
              Count(<<y>>, A \cap Of(d)) = IF d = c THEN One(y, A) ELSE 0
<1>1. <<y>> \in Seq(Replies)
  OBVIOUS
<1>2. ASSUME NEW d \in Clients, NEW A
      PROVE  Count(<<y>>, A \cap Of(d)) = IF d = c THEN One(y, A) ELSE 0
  <2>1. Count(<<y>>, A \cap Of(d)) = IF y \in A \cap Of(d) THEN 1 ELSE 0
    BY CountOne
  <2>2. y \in Of(d) <=> d = c
    BY PlaceOf DEF Of, Replies
  <2> QED
    BY <2>1, <2>2 DEF One
<1> QED
  BY <1>1, <1>2

(* The copies of a text are in no count.                                   *)
LEMMA CopiesUncounted ==
  ASSUME WireInv, NEW m, NEW n \in Nat, NEW j \in Int, m \in Requests(n, {j})
  PROVE  /\ Server!Broadcast(m) \in Seq(Replies)
         /\ \A S, A : A \subseteq Answered => Count(Server!Broadcast(m), A \cap S) = 0
<1> DEFINE C == {a \in Replies : a.type = "server_client"}
<1>1. ASSUME NEW i \in Server!CSlots PROVE Server!Copy(m, i) \in Seq(C)
  <2>1. CASE clients[i] = Null
    BY <2>1, EmptySeq DEF Server!Copy
  <2>2. CASE clients[i] # Null
    <3>1. clients[i].sock \in Int
      BY <2>2 DEF WireInv, ServerTypes, Sessions, Live
    <3>2. Server!ServerClientMsg(m, clients[i].sock) \in Answers(n, {clients[i].sock})
      BY <3>1, ServerMessages DEF Answers
    <3>3. Answers(n, {clients[i].sock}) \subseteq Replies
      <4>1. {clients[i].sock} \subseteq Int
        BY <3>1
      <4> QED
        BY <4>1, RequestMsgs
    <3>4. Server!ServerClientMsg(m, clients[i].sock).type = "server_client"
      BY DEF Server!ServerClientMsg, Server!EmptyMsg
    <3>5. Server!ServerClientMsg(m, clients[i].sock) \in C
      BY <3>2, <3>3, <3>4
    <3> HIDE DEF C
    <3> QED
      BY <2>2, <3>5 DEF Server!Copy
  <2> QED
    BY <2>1, <2>2
<1>2. Server!Broadcast(m) \in Seq(C)
  <2> HIDE DEF C
  <2> QED
    BY <1>1, BroadcastType
<1>3. Seq(C) \subseteq Seq(Replies)
  <2>1. C \subseteq Replies
    OBVIOUS
  <2> HIDE DEF C
  <2> QED
    BY <2>1, SeqMono
<1>4. ASSUME NEW S, NEW A, A \subseteq Answered
      PROVE  Count(Server!Broadcast(m), A \cap S) = 0
  <2>1. C \cap (A \cap S) = {}
    BY <1>4 DEF Answered
  <2> HIDE DEF C
  <2> QED
    BY <1>2, <2>1, CountOutside
<1> QED
  BY <1>2, <1>3, <1>4

LEMMA ServerTalk ==
  ASSUME WireInv, WireInv', TalkInv, ServerReads
  PROVE  TalkInv'
<1>1. PICK m \in Server!Incoming : Server!OnMsgReceived(m)
  BY DEF ServerReads
<1>2. /\ UNCHANGED <<pseudo, connected, waiting, slots, tot, nb>>
      /\ UNCHANGED <<up, down, fds, nbFds>>
  BY DEF ServerReads, clientSide, proxySide, table
<1>3. sin # <<>> /\ m = Head(sin) /\ SessionsInv
  BY <1>1 DEF Server!Incoming, TalkInv
<1>4. m \in SinMsgs /\ m \in Asked /\ m \in Msgs
  <2>1. sin \in Seq(SinMsgs)
    BY DEF WireInv, QueueTypes
  <2>2. m \in SinMsgs
    BY <1>3, <2>1, HeadTail
  <2> QED
    BY <2>2, QueueMsgs DEF Asked
<1>5. PICK j \in Live : m \in Requests(tot[fds[j]], {j})
  BY <1>4 DEF SinMsgs
<1>6. PICK c \in Clients : c = fds[j]
  BY DEF WireInv, TableInv
<1> DEFINE n == tot[c]
<1>7. c \in Clients /\ n \in Nat /\ j \in Int /\ j \in Live
  BY DEF WireInv, SlotTypes, Live
<1>8. m.sock = j /\ m.src \in Names /\ m.id \in Nat /\ m.sock \in SlotOf(c) /\ m.sock \in Int
  BY <1>5, <1>6, <1>7, PlaceOf DEF Requests
<1>9. m.type = "connection" => m.body \in Nat /\ m \in Logins /\ \A i : m \notin TextsOf(i)
  BY <1>4, <1>5 DEF Requests, BodyFits, Logins, TextsOf
<1>10. m.type = "std" => m \in TextsOf(m.id) /\ \A i : m \in TextsOf(i) => i = m.id
  BY <1>4 DEF TextsOf
<1>11. Answers(n, {j}) \subseteq Replies
  <2>1. {j} \subseteq Int
    BY <1>7
  <2> QED
    BY <1>7, <2>1, RequestMsgs
<1> HIDE DEF n
<1>12. c = fds[m.sock]
  BY <1>6, <1>8
<1>13. /\ Server!PositiveAck(m) \in Replies /\ (m.retr <= RetrLimit => Server!NegativeAck(m) \in Replies)
       /\ Server!ErrorMsg(m) \in Replies /\ Server!WellConnected(m) \in Replies
  BY <1>5, <1>6, <1>7, <1>11, ServerMessages DEF Answers, n
<1>14. /\ Server!PositiveAck(m).sock = j /\ Server!NegativeAck(m).sock = j
       /\ Server!ErrorMsg(m).sock = j /\ Server!WellConnected(m).sock = j
       /\ Server!PositiveAck(m).type = "ack_pos" /\ Server!NegativeAck(m).type = "ack_neg"
       /\ Server!PositiveAck(m).id = m.id /\ Server!NegativeAck(m).id = m.id
       /\ Server!ErrorMsg(m).type = "error" /\ Server!WellConnected(m).type = "well_connected"
  BY <1>8 DEF Server!PositiveAck, Server!NegativeAck, Server!ErrorMsg, Server!WellConnected,
              Server!EmptyMsg
<1>15. ASSUME NEW y \in Replies, y.type \in {"ack_pos", "ack_neg"}, y.id = m.id
       PROVE  /\ y \notin LoginAnswers /\ y \notin Welcomes /\ y \in AcksOf(m.id)
              /\ \A i : y \in AcksOf(i) => i = m.id
  BY <1>15 DEF Replies, LoginAnswers, Welcomes, AcksOf
<1>16. ASSUME NEW r \in Seq(Replies), sin' = Tail(sin), sout' = sout \o r,
              UNCHANGED clients, UNCHANGED stored, UNCHANGED index,
              NEW y \in Replies \cup {Nothing},
              \A d \in Clients : \A A : A \subseteq Answered =>
                Count(r, A \cap Of(d)) = IF d = c THEN One(y, A) ELSE 0,
              y \in LoginAnswers => m \in Logins, y \notin Welcomes,
              \A i \in Nat : y \in AcksOf(i) => m \in TextsOf(i),
              \A i \in Nat : m \in TextsOf(i) => y \in AcksOf(i) \/ m.src \in ShortNames
       PROVE  TalkInv'
  <2>1. SessionsInv' /\ \A d \in Clients : Welcomed(d) => Welcomed(d)'
    BY <1>2, <1>3, <1>16, SameSessions
  <2> QED
    BY <1>2, <1>3, <1>7, <1>12, <1>16, <2>1, ServeTalk
<1>17. Server!Cleaned(m.src) = index
  BY <1>3, <1>8, IndexIsClean
<1>18. CASE Server!IgnoreShort(m)
  <2>1. sin' = Tail(sin) /\ sout' = sout /\ UNCHANGED <<clients, index, stored>>
        /\ m.src \in ShortNames
    BY <1>18 DEF Server!IgnoreShort, Server!Receive, Server!state
  <2>2. sout' = sout \o <<>> /\ <<>> \in Seq(Replies)
    BY <2>1, ConcatEmptySeq, EmptySeq DEF WireInv, QueueTypes
  <2>3. ASSUME NEW d \in Clients, NEW A, A \subseteq Answered
        PROVE  Count(<<>>, A \cap Of(d)) = IF d = c THEN One(Nothing, A) ELSE 0
    <3>1. Nothing \notin A
      BY <2>3, NothingIsNothing
    <3> QED
      BY <3>1, CountEmpty DEF One
  <2> QED
    BY <1>16, <2>1, <2>2, <2>3, NothingIsNothing
<1>19. CASE Server!Refuse(m)
  <2>1. /\ sin' = Tail(sin) /\ sout' = sout \o <<Server!ErrorMsg(m)>> /\ m.type = "connection"
        /\ UNCHANGED <<clients, index, stored>>
    BY <1>17, <1>19 DEF Server!Refuse, Server!Connection, Server!Receive, Server!Answer
  <2> DEFINE y == Server!ErrorMsg(m)
  <2>2. y \in Replies /\ y.type = "error" /\ y.sock \in Live /\ c = fds[y.sock]
    BY <1>7, <1>13, <1>14, <1>6
  <2>3. sout' = sout \o <<y>>
    BY <2>1
  <2> HIDE DEF y
  <2>4. y \notin Welcomes /\ \A i : y \notin AcksOf(i)
    BY <2>2 DEF Welcomes, AcksOf
  <2>5. /\ <<y>> \in Seq(Replies)
        /\ \A d \in Clients : \A A : A \subseteq Answered =>
              Count(<<y>>, A \cap Of(d)) = IF d = c THEN One(y, A) ELSE 0
    BY <1>7, <2>2, OneAnswer
  <2> QED
    BY <1>9, <1>16, <2>1, <2>2, <2>3, <2>4, <2>5
<1>20. ASSUME m.type = "connection", sin' = Tail(sin), sout' = sout \o <<Server!WellConnected(m)>>,
              SessionsInv', \A d \in Clients : Welcomed(d) => Welcomed(d)',
              \A d \in Clients : m.src = pseudo[d] /\ m.sock \in SlotOf(d) => Welcomed(d)'
       PROVE  TalkInv'
  <2> DEFINE y == Server!WellConnected(m)
  <2>1. y \in Replies /\ y.type = "well_connected" /\ y.sock \in Live /\ c = fds[y.sock]
    BY <1>7, <1>13, <1>14, <1>6
  <2>2. sout' = sout \o <<y>>
    BY <1>20
  <2> HIDE DEF y
  <2>3. \A i : y \notin AcksOf(i)
    BY <2>1 DEF AcksOf
  <2>4. /\ <<y>> \in Seq(Replies)
        /\ \A d \in Clients : \A A : A \subseteq Answered =>
              Count(<<y>>, A \cap Of(d)) = IF d = c THEN One(y, A) ELSE 0
    BY <1>7, <2>1, OneAnswer
  <2>5. y \in Welcomes /\ m.src = pseudo[c] => Welcomed(c)'
    <3>1. c \in Clients /\ m.sock \in SlotOf(c)
      BY <1>7, <1>8
    <3> QED
      BY <1>20, <3>1
  <2>6. m \in Logins /\ \A i \in Nat : m \notin TextsOf(i)
    BY <1>9, <1>20
  <2>7. /\ y \in Replies \cup {Nothing} /\ (y \in LoginAnswers => m \in Logins)
        /\ \A i \in Nat : y \in AcksOf(i) => m \in TextsOf(i)
        /\ \A i \in Nat : m \in TextsOf(i) => y \in AcksOf(i) \/ m.src \in ShortNames
    BY <2>1, <2>3, <2>6
  <2>8. SessionsInv' /\ sin' = Tail(sin) /\ \A d \in Clients : Welcomed(d) => Welcomed(d)'
    BY <1>20
  <2>9. c \in Clients
    BY <1>7
  <2> QED
    BY <1>2, <1>3, <1>12, <2>2, <2>4, <2>5, <2>7, <2>8, <2>9, ServeTalk
<1>21. CASE Server!TakeOver(m)
  <2>1. /\ sin' = Tail(sin) /\ sout' = sout \o <<Server!WellConnected(m)>> /\ m.type = "connection"
    BY <1>21 DEF Server!TakeOver, Server!Connection, Server!Receive, Server!Answer
  <2>2. /\ SessionsInv' /\ \A d \in Clients : Welcomed(d) => Welcomed(d)'
        /\ \A d \in Clients : m.src = pseudo[d] /\ m.sock \in SlotOf(d) => Welcomed(d)'
    BY <1>2, <1>3, <1>8, <1>9, <1>21, <2>1, MovedSession
  <2> QED
    BY <1>20, <2>1, <2>2
<1>22. ASSUME NEW k \in Server!CSlots, Server!Register(m, k) PROVE TalkInv'
  <2>1. /\ sin' = Tail(sin) /\ sout' = sout \o <<Server!WellConnected(m)>> /\ m.type = "connection"
    BY <1>22 DEF Server!Register, Server!Connection, Server!Receive, Server!Answer
  <2>2. /\ SessionsInv' /\ \A d \in Clients : Welcomed(d) => Welcomed(d)'
        /\ \A d \in Clients : m.src = pseudo[d] /\ m.sock \in SlotOf(d) => Welcomed(d)'
    BY <1>2, <1>3, <1>8, <1>9, <1>22, <2>1, NewSession
  <2> QED
    BY <1>20, <2>1, <2>2
<1>23. CASE Server!Deliver(m)
  <2> DEFINE y == Server!PositiveAck(m)
             b == Server!Broadcast(m)
  <2>1. /\ sin' = Tail(sin) /\ sout' = sout \o (<<y>> \o b) /\ m.type = "std"
        /\ UNCHANGED <<clients, index, stored>>
    BY <1>17, <1>23 DEF Server!Deliver, Server!Std, Server!Receive, Server!Answer
  <2>2. y \in Replies /\ y.type = "ack_pos" /\ y.id = m.id /\ y.sock \in Live /\ c = fds[y.sock]
    BY <1>7, <1>13, <1>14, <1>6
  <2>3. /\ b \in Seq(Replies)
        /\ \A S, A : A \subseteq Answered => Count(b, A \cap S) = 0
    BY <1>5, <1>7, <1>6, CopiesUncounted DEF n
  <2> HIDE DEF y, b
  <2>4. /\ y \notin LoginAnswers /\ y \notin Welcomes /\ y \in AcksOf(m.id)
        /\ \A i : y \in AcksOf(i) => i = m.id
    BY <1>15, <2>2
  <2>5. /\ <<y>> \in Seq(Replies)
        /\ \A d \in Clients : \A A : A \subseteq Answered =>
              Count(<<y>>, A \cap Of(d)) = IF d = c THEN One(y, A) ELSE 0
    BY <1>7, <2>2, OneAnswer
  <2>6. <<y>> \o b \in Seq(Replies)
    BY <2>3, <2>5, ConcatProperties
  <2>7. ASSUME NEW d \in Clients, NEW A, A \subseteq Answered
        PROVE  Count(<<y>> \o b, A \cap Of(d)) = IF d = c THEN One(y, A) ELSE 0
    <3>1. Count(<<y>> \o b, A \cap Of(d)) = Count(<<y>>, A \cap Of(d)) + Count(b, A \cap Of(d))
      <4>1. PICK q \in Seq(Replies) : q = <<y>>
        BY <2>5
      <4>2. Count(q \o b, A \cap Of(d)) = Count(q, A \cap Of(d)) + Count(b, A \cap Of(d))
        BY <2>3, CountConcat
      <4> QED
        BY <4>1, <4>2
    <3>2. Count(b, A \cap Of(d)) = 0 /\ One(y, A) \in Nat
      BY <2>3, <2>7 DEF One
    <3> QED
      BY <2>5, <2>7, <3>1, <3>2
  <2>8. \A i \in Nat : y \in AcksOf(i) <=> m \in TextsOf(i)
    BY <1>10, <2>1, <2>4
  <2> QED
    BY <1>16, <2>1, <2>2, <2>4, <2>6, <2>7, <2>8
<1>24. CASE Server!AskAgain(m)
  <2> DEFINE y == Server!NegativeAck(m)
  <2>1. /\ sin' = Tail(sin) /\ sout' = sout \o <<y>> /\ m.type = "std" /\ m.retr <= RetrLimit
        /\ UNCHANGED <<clients, index, stored>>
    BY <1>17, <1>24 DEF Server!AskAgain, Server!Std, Server!Receive, Server!Answer
  <2>2. y \in Replies /\ y.type = "ack_neg" /\ y.id = m.id /\ y.sock \in Live /\ c = fds[y.sock]
    BY <1>7, <1>13, <1>14, <1>6, <2>1
  <2> HIDE DEF y
  <2>3. /\ y \notin LoginAnswers /\ y \notin Welcomes /\ y \in AcksOf(m.id)
        /\ \A i : y \in AcksOf(i) => i = m.id
    BY <1>15, <2>2
  <2>4. /\ <<y>> \in Seq(Replies)
        /\ \A d \in Clients : \A A : A \subseteq Answered =>
              Count(<<y>>, A \cap Of(d)) = IF d = c THEN One(y, A) ELSE 0
    BY <1>7, <2>2, OneAnswer
  <2>5. \A i \in Nat : y \in AcksOf(i) <=> m \in TextsOf(i)
    BY <1>10, <2>1, <2>3
  <2> QED
    BY <1>16, <2>1, <2>2, <2>3, <2>4, <2>5
<1> QED
  BY <1>1, <1>18, <1>19, <1>21, <1>22, <1>23, <1>24 DEF Server!OnMsgReceived

LEMMA JoinTalk ==
  ASSUME WireInv, WireInv', TalkInv, NEW c \in Clients, Join(c)
  PROVE  TalkInv'
<1>1. /\ fds' = [fds EXCEPT ![nbFds] = c] /\ nbFds' = nbFds + 1
      /\ UNCHANGED <<pseudo, connected, waiting, slots, tot, nb, sin, clients, index, stored>>
  BY DEF Join, Client!Start, Client!table, serverSide
<1>2. SessionsInv' /\ PassedInv'
  BY <1>1 DEF TalkInv, SessionsInv, PassedInv, Passed
<1>3. ASSUME NEW d \in Clients PROVE Talk(d)'
  <2>1. Exchanged(d, Nothing, Nothing)
    BY JoinFlow
  <2>2. SlotOf(d) \subseteq SlotOf(d)'
    <3>1. \A j \in PollSlots : j < nbFds => j # nbFds /\ j < nbFds' /\ fds'[j] = fds[j]
      BY <1>1, ProxyAssumption DEF PollSlots, WireInv, TableInv
    <3> QED
      BY <3>1 DEF SlotOf
  <2>3. Stays(d) /\ Talk(d)
    BY <1>1 DEF Stays, TalkInv
  <2>4. Welcomed(d) => Welcomed(d)'
    BY <1>1, <2>2 DEF Welcomed
  <2> QED
    BY <2>1, <2>3, <2>4, NothingIsNothing, SameTable
<1> QED
  BY <1>2, <1>3 DEF TalkInv

(* A step of one client.                                                   *)
LEMMA OneClientTalks ==
  ASSUME WireInv, WireInv', TalkInv, NEW c \in Clients,
         \/ \E p \in Names : Client!Login(c, p)
         \/ \E t : Client!Speak(c, t)
         \/ Client!OnMsg(c),
         UNCHANGED <<serverSide, sin, sout, proxySide>>
  PROVE  TalkInv'
<1>1. UNCHANGED <<sin, sout, fds, nbFds, clients, index, stored>>
  BY DEF serverSide, proxySide, table
<1>2. SessionsInv' /\ PassedInv'
  BY <1>1 DEF TalkInv, SessionsInv, PassedInv, Passed
<1>3. /\ pseudo \in [Clients -> Names \cup {Blank}]
      /\ connected \in [Clients -> BOOLEAN] /\ waiting \in [Clients -> BOOLEAN]
      /\ tot \in [Clients -> Nat \ {0}] /\ nb \in [Clients -> Nat]
      /\ slots = [d \in Clients |-> slots[d]]
      /\ up = [d \in Clients |-> up[d]] /\ down = [d \in Clients |-> down[d]]
  BY DEF WireInv, LoginTypes, SlotTypes, QueueTypes
<1>4. ASSUME NEW d \in Clients, d # c PROVE Stays(d) /\ UNCHANGED <<up[d], down[d]>>
  <2>1. CASE \E p \in Names : Client!Login(c, p)
    BY <1>3, <1>4, <2>1 DEF Client!Login, Client!RequestLogin, Client!Send, Stays
  <2>2. CASE \E t : Client!Speak(c, t)
    <3>1. PICK t : Client!Speak(c, t)
      BY <2>2
    <3>2. CASE Client!SayGrowing(c, t)
      BY <1>3, <1>4, <3>2 DEF Client!SayGrowing, Client!Send, Client!login, Stays
    <3>3. ASSUME NEW i \in 0 .. tot[c] - 1, Client!Say(c, i, t)
          PROVE  Stays(d) /\ UNCHANGED <<up[d], down[d]>>
      BY <1>3, <1>4, <3>3 DEF Client!Say, Client!Send, Client!login, Stays
    <3> QED
      BY <3>1, <3>2, <3>3 DEF Client!Speak
  <2>3. CASE Client!OnMsg(c)
    <3>1. PICK m \in Client!Next1(c) :
            \/ Client!OnRefusal(c, m) \/ Client!OnWelcome(c, m) \/ Client!OnNegativeAck(c, m)
            \/ Client!OnPositiveAck(c, m) \/ Client!OnOther(c, m)
      BY <2>3 DEF Client!OnMsg
    <3>2. CASE Client!OnRefusal(c, m) \/ Client!OnWelcome(c, m) \/ Client!OnOther(c, m)
      BY <1>3, <1>4, <3>2 DEF Client!OnRefusal, Client!OnWelcome, Client!OnOther, Client!Take,
                              Client!login, Client!table, Stays
    <3>3. CASE Client!OnNegativeAck(c, m) \/ Client!OnPositiveAck(c, m)
      BY <1>3, <1>4, <3>3 DEF Client!OnNegativeAck, Client!OnPositiveAck, Client!Acked,
                              Client!Take, Client!Send, Client!login, Stays
    <3> QED
      BY <3>1, <3>2, <3>3
  <2> QED
    BY <2>1, <2>2, <2>3
<1>5. \A d \in Clients : d # c => Talk(d)'
  BY <1>1, <1>4, OthersTalk DEF TalkInv
<1>6. Talk(c)'
  <2>1. Talk(c)
    BY DEF TalkInv
  <2>2. CASE \E p \in Names : Client!Login(c, p)
    BY <1>1, <2>1, <2>2, LoginTalk
  <2>3. CASE \E t : Client!Speak(c, t)
    BY <1>1, <2>1, <2>3, SayTalk, SayGrowingTalk DEF Client!Speak
  <2>4. CASE Client!OnMsg(c)
    BY <1>1, <2>1, <2>4, ReadTalk
  <2> QED
    BY <2>2, <2>3, <2>4
<1> QED
  BY <1>2, <1>5, <1>6 DEF TalkInv

LEMMA SilentTalk ==
  ASSUME WireInv, WireInv', TalkInv, UNCHANGED <<clientSide, up, down, sin, sout, proxySide>>,
         UNCHANGED <<clients, index, stored>>
  PROVE  TalkInv'
<1>1. /\ UNCHANGED <<pseudo, connected, waiting, slots, tot, nb>>
      /\ UNCHANGED <<fds, nbFds, up, down, sin, sout>>
  BY DEF clientSide, proxySide, table
<1>2. SessionsInv' /\ PassedInv'
  BY <1>1 DEF TalkInv, SessionsInv, PassedInv, Passed
<1>3. \A d \in Clients : Talk(d)'
  BY <1>1, OthersTalk DEF TalkInv, Stays
<1> QED
  BY <1>2, <1>3 DEF TalkInv

LEMMA InitTalk == Init => TalkInv
<1> SUFFICES ASSUME Init PROVE TalkInv
  OBVIOUS
<1>1. /\ clients = [i \in Server!CSlots |-> Null] /\ index = [p \in Names |-> -1]
      /\ sin = <<>> /\ sout = <<>>
      /\ pseudo = [c \in Clients |-> Blank] /\ connected = [c \in Clients |-> FALSE]
      /\ waiting = [c \in Clients |-> FALSE]
      /\ slots = [c \in Clients |-> [i \in 0 .. InitSlots - 1 |-> Client!EmptyMsg]]
      /\ tot = [c \in Clients |-> InitSlots] /\ nb = [c \in Clients |-> 0]
      /\ up = [c \in Clients |-> <<>>] /\ down = [c \in Clients |-> <<>>]
  BY DEF Init, Client!ClientInit, Server!Init
<1>2. SessionsInv /\ PassedInv
  BY <1>1 DEF SessionsInv, PassedInv
<1>3. ASSUME NEW c \in Clients PROVE Talk(c)
  <2>1. \A R, A : Flow(c, R, A) = 0
    <3>1. up[c] = <<>> /\ down[c] = <<>>
      BY <1>1
    <3> QED
      BY <1>1, <3>1, CountEmpty DEF Flow
  <2>2. \A i \in 0 .. tot[c] - 1 : slots[c][i].type = "null"
    BY <1>1 DEF Client!EmptyMsg
  <2>3. SlotsInv(c)
    <3>1. TakenIn(c) = {}
      BY <2>2 DEF TakenIn, Client!FreeIn
    <3> QED
      BY <1>1, <2>2, <3>1, FS_EmptySet DEF SlotsInv
  <2>4. LoginInv(c)
    BY <1>1, <2>1 DEF LoginInv
  <2>5. WayInv(c)
    <3>1. tot[c] \in Nat
      BY <1>1, SystemAssumption
    <3>2. \A i \in Nat : ~Client!Awaited(c, i)
      BY <2>2, <3>1 DEF Client!Awaited
    <3> QED
      BY <2>1, <3>2 DEF WayInv, OnItsWay
  <2> QED
    BY <2>3, <2>4, <2>5 DEF Talk
<1> QED
  BY <1>2, <1>3 DEF TalkInv

LEMMA NextTalk ==
  ASSUME WireInv, WireInv', TalkInv, NobodyLeft, NobodyLeft', [Next]_vars
  PROVE  TalkInv'
<1>1. ASSUME NEW c \in Clients, Join(c) PROVE TalkInv'
  BY <1>1, JoinTalk
<1>2. ASSUME NEW c \in Clients, Leave(c) \/ ClientReadsBeyond(c) PROVE FALSE
  <2>1. proc'[c] = "gone"
    BY <1>2 DEF Leave, ClientReadsBeyond, Client!Leave, Client!ReadBeyond, Client!Stop, WireInv,
                LoginTypes
  <2> QED
    BY <2>1 DEF NobodyLeft
<1>3. ASSUME NEW c \in Clients, UserActs(c) PROVE TalkInv'
  BY <1>3, OneClientTalks DEF UserActs
<1>4. ASSUME NEW c \in Clients, ClientReads(c) PROVE TalkInv'
  BY <1>4, OneClientTalks DEF ClientReads
<1>5. ASSUME NEW j \in PollSlots, OnClientReceived(j) PROVE TalkInv'
  BY <1>5, ForwardTalk
<1>6. ASSUME NEW j \in PollSlots, OnClientLeft(j) PROVE FALSE
  BY <1>6 DEF OnClientLeft, NobodyLeft
<1>7. ASSUME NEW j \in PollSlots, OnClientReset(j) PROVE FALSE
  BY <1>7 DEF OnClientReset, WireInv, TableInv
<1>8. ~Compress
  BY DEF Compress, WireInv, TableInv
<1>9. CASE OnServerReceived
  BY <1>9, DeliverTalk
<1>10. CASE ServerReads
  BY <1>10, ServerTalk
<1>11. CASE Tick
  BY <1>11, SilentTalk DEF Tick, Server!Tick, Server!state
<1>12. CASE UNCHANGED vars
  BY <1>12, SilentTalk DEF vars, serverSide
<1> QED
  BY <1>1, <1>2, <1>3, <1>4, <1>5, <1>6, <1>7, <1>8, <1>9, <1>10, <1>11, <1>12 DEF Next, Proxy

(* The second part of the inductive invariant: what is on its way for a    *)
(* client agrees with what it waits for and with what its table holds, and *)
(* the sessions with what the clients were told.                           *)
THEOREM TalkInvariant == Spec => [](NobodyLeft => WireInv /\ TalkInv)
<1> DEFINE K == ProcType /\ (NobodyLeft => WireInv)
           J == NobodyLeft => TalkInv
<1>1. Spec => []K
  BY Invariant
<1>2. Init => J
  BY InitTalk
<1>3. K /\ K' /\ J /\ [Next]_vars => J'
  BY NobodyLeftBefore, NextTalk
<1>4. K /\ J => (NobodyLeft => WireInv /\ TalkInv)
  OBVIOUS
<1> HIDE DEF K, J
<1> QED
  BY <1>1, <1>2, <1>3, <1>4, PTL DEF Spec

(* As long as nobody leaves, a client that was told that it is connected   *)
(* has a session of its pseudo at its place, or had it until another       *)
(* client with its code took it over after the time-out: no order of       *)
(* requests, refusals and expiries welcomes two clients to one session.    *)
THEOREM WelcomesAreTrue == Spec => []WelcomeIsTrue
<1>1. (NobodyLeft => WireInv /\ TalkInv) => WelcomeIsTrue
  BY DEF TalkInv, Talk, LoginInv, Welcomed, WelcomeIsTrue
<1> QED
  BY <1>1, TalkInvariant, PTL

LEMMA WayIsCounted ==
  ASSUME WireInv, NEW c \in Clients, NEW i
  PROVE  /\ Cardinality(Client!TextsUp(c, i)) = Count(up[c], TextsOf(i))
         /\ Cardinality(Client!AcksDown(c, i)) = Count(down[c], AcksOf(i))
         /\ Cardinality(Carrying(sin, c, i, {"std"})) = Count(sin, TextsOf(i) \cap Of(c))
         /\ Cardinality(Carrying(sout, c, i, {"ack_pos", "ack_neg"}))
              = Count(sout, AcksOf(i) \cap Of(c))
<1>1. /\ \A k \in DOMAIN up[c] : up[c][k] \in Msgs
      /\ \A k \in DOMAIN down[c] : down[c][k] \in Msgs
      /\ \A k \in DOMAIN sin : sin[k] \in Msgs
      /\ \A k \in DOMAIN sout : sout[k] \in Msgs
  <2>1. up[c] \in Seq(Asked) /\ down[c] \in Seq(Replies) /\ sin \in Seq(Asked) /\ sout \in Seq(Replies)
    BY QueueMsgs
  <2>2. /\ \A k \in DOMAIN up[c] : up[c][k] \in Asked
        /\ \A k \in DOMAIN down[c] : down[c][k] \in Replies
        /\ \A k \in DOMAIN sin : sin[k] \in Asked
        /\ \A k \in DOMAIN sout : sout[k] \in Replies
    BY <2>1, ElementOfSeq, LenProperties
  <2> QED
    BY <2>2 DEF Asked, Replies
<1>2. Client!TextsUp(c, i) = At(up[c], TextsOf(i))
  BY <1>1 DEF Client!TextsUp, At, TextsOf
<1>3. Client!AcksDown(c, i) = At(down[c], AcksOf(i))
  BY <1>1 DEF Client!AcksDown, At, AcksOf
<1>4. Carrying(sin, c, i, {"std"}) = At(sin, TextsOf(i) \cap Of(c))
  BY <1>1 DEF Carrying, Within, At, TextsOf, Of
<1>5. Carrying(sout, c, i, {"ack_pos", "ack_neg"}) = At(sout, AcksOf(i) \cap Of(c))
  BY <1>1 DEF Carrying, Within, At, AcksOf, Of
<1> QED
  BY <1>2, <1>3, <1>4, <1>5 DEF Count

(* As long as nobody leaves, a text that a client said is exactly once on  *)
(* its way through the queues of the two threads, as the text or as the    *)
(* answer to it, until its slot of msg_waiting_ack is free; an empty text  *)
(* ends at the proxy.                                                      *)
THEOREM TextsTravelOnce == Spec => []TextsOnTheirWay
<1>1. ASSUME NobodyLeft => WireInv /\ TalkInv PROVE TextsOnTheirWay
  <2> SUFFICES ASSUME NobodyLeft, NEW c \in Clients, NEW i \in 0 .. tot[c] - 1
               PROVE  LET said == slots[c][i].type = "std"
                          here == Cardinality(Client!TextsUp(c, i))
                      IN  IF said /\ slots[c][i].len = 0 THEN here <= 1 /\ OnTheWay(c, i) = 0
                          ELSE here + OnTheWay(c, i) = IF said THEN 1 ELSE 0
    BY DEF TextsOnTheirWay
  <2> DEFINE R == TextsOf(i)
             A == AcksOf(i)
             S == R \ CopiesOf(slots[c][i])
             a == Count(up[c], R)
             b == Count(sin, R \cap Of(c))
             d == Count(sout, A \cap Of(c))
             e == Count(down[c], A)
  <2>1. WireInv /\ PassedInv /\ OnItsWay(c, i) /\ tot[c] \in Nat /\ i \in Nat /\ i < tot[c]
    <3>1. WireInv /\ TalkInv /\ tot[c] \in Nat
      BY <1>1 DEF WireInv, SlotTypes
    <3> QED
      BY <3>1 DEF TalkInv, Talk, WayInv
  <2>2. Client!Awaited(c, i) <=> slots[c][i].type = "std"
    BY <2>1 DEF Client!Awaited
  <2>3. /\ Cardinality(Client!TextsUp(c, i)) = a /\ OnTheWay(c, i) = e + b + d
    BY <2>1, WayIsCounted DEF OnTheWay
  <2>4. /\ up[c] \in Seq(Asked) /\ down[c] \in Seq(Replies) /\ sin \in Seq(Asked) /\ sout \in Seq(Replies)
    BY <2>1, QueueMsgs
  <2>5. a \in Nat /\ b \in Nat /\ d \in Nat /\ e \in Nat
    BY <2>4, CountType
  <2>6. Flow(c, R, A) = a + b + d + e
    BY DEF Flow
  <2>7. ASSUME slots[c][i].type = "std", slots[c][i].len = 0
        PROVE  a <= 1 /\ b = 0 /\ d = 0 /\ e = 0
    <3>1. Flow(c, R, A) <= 1 /\ Flow(c, {}, A) = 0 /\ Flow(c, S, {}) = 0
      BY <2>1, <2>2, <2>7 DEF OnItsWay
    <3>2. Count(up[c], {}) \in Nat /\ Count(sin, {} \cap Of(c)) \in Nat
      BY <2>4, CountType
    <3>3. d = 0 /\ e = 0
      BY <2>5, <3>1, <3>2 DEF Flow
    <3>4. Count(sin, S \cap Of(c)) = 0
      <4>1. /\ Count(up[c], S) \in Nat /\ Count(sin, S \cap Of(c)) \in Nat
            /\ Count(sout, {} \cap Of(c)) \in Nat /\ Count(down[c], {}) \in Nat
        BY <2>4, CountType
      <4>2. Flow(c, S, {}) = Count(up[c], S) + Count(sin, S \cap Of(c))
                               + Count(sout, {} \cap Of(c)) + Count(down[c], {})
        BY DEF Flow
      <4>3. Flow(c, S, {}) = 0
        BY <3>1
      <4>4. \A x, y, z, w \in Nat : x + y + z + w = 0 => y = 0
        OBVIOUS
      <4> HIDE DEF S
      <4>5. Count(up[c], S) + Count(sin, S \cap Of(c)) + Count(sout, {} \cap Of(c))
              + Count(down[c], {}) = 0
        BY <4>2, <4>3
      <4> QED
        BY <4>1, <4>4, <4>5
    <3>5. At(sin, S \cap Of(c)) = {}
      BY <2>4, <3>4, CountNone
    <3>6. At(sin, R \cap Of(c)) = {}
      <4>1. SUFFICES ASSUME NEW k \in DOMAIN sin, sin[k] \in R \cap Of(c) PROVE FALSE
        BY DEF At
      <4>2. sin[k] \in CopiesOf(slots[c][i])
        BY <3>5, <4>1 DEF At
      <4>3. sin[k].len = slots[c][i].len
        BY <4>2 DEF CopiesOf, Msgs
      <4>4. sin[k].type = "std"
        BY <4>1 DEF TextsOf
      <4> QED
        BY <2>1, <2>7, <4>3, <4>4 DEF PassedInv, Passed, MayBeEmpty
    <3>7. b = 0
      BY <2>4, <3>6, CountNone
    <3> QED
      BY <2>5, <2>6, <3>1, <3>3, <3>7
  <2>8. ASSUME ~(slots[c][i].type = "std" /\ slots[c][i].len = 0)
        PROVE  a + b + d + e = IF slots[c][i].type = "std" THEN 1 ELSE 0
    BY <2>1, <2>2, <2>6, <2>8 DEF OnItsWay
  <2> HIDE DEF R, A, S, a, b, d, e
  <2> QED
    BY <2>3, <2>5, <2>7, <2>8
<1> QED
  BY <1>1, TalkInvariant, PTL
=============================================================================
