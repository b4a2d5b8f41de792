------------------------------ MODULE NyanChat ------------------------------
(***************************************************************************)
(* The whole system: clients that talk through the proxy, src/src/proxy.c, *)
(* to the server.  The proxy's own state is the poll table of its clients' *)
(* side: the server knows a client by the number of its slot there.        *)
(*                                                                         *)
(* One turn of the proxy's loops is one action, for one descriptor: the    *)
(* table is compressed one step after a slot was closed, so that the       *)
(* thread of the server's side can use it in between.                      *)
(***************************************************************************)
EXTENDS Messages, Sequences, PollTable

CONSTANTS
    Clients, Dir, Names, ShortNames, InitSlots, RetrLimit, MaxTries,
    MaxSent,                          \* see Client
    NoCode, Null, MaxClients, Timeout, Verdicts, MaxTime,   \* see Server
    MaxPoll,                          \* MAX_POLL_SOCKETS
    Listener, StdinFd,                \* the descriptors of slots 0 and 1
    Leavers,                          \* bound: the clients that may leave
    Talkers,                          \* bound: those who say more than one text
    Guests                            \* bound: those who do not even log in

ASSUME ProxyAssumption ==
    /\ IsFiniteSet(Clients) /\ MaxPoll \in Nat /\ MaxPoll > 2 + Cardinality(Clients)
    /\ Leavers \subseteq Clients
    /\ {Listener, StdinFd, NoFd} \cap Clients = {}

VARIABLES
    proc, pseudo, connected, waiting, slots, tot, nb, drawn, files, up, down,
    clients, index, stored, now, sin, sout,
    fds,       \* con_clients.poll_fds[j].fd, a client for its connection
    nbFds,     \* con_clients.nb_poll_fds
    closed,    \* con_clients.need_compress_poll_arr
    ended,     \* con_clients.end_connection
    reset,     \* kernel: the connections of clients that left, and were reset
    shown,     \* the texts each client has shown, in order
    (* Observation: the texts the server took, in order; where in this     *)
    (* order is the last text that each client has shown, 0 if none; and   *)
    (* where are those on their way in sout and in down, 0 for the rest.   *)
    log, place, soutAt, downAt

PollSlots == 0 .. MaxPoll - 1
Texts     == Clients \X (1 .. MaxSent)   \* no two texts are the same

Client == INSTANCE Client
Server == INSTANCE Server WITH
    Pseudos <- Names, ShortPseudos <- ShortNames, Codes <- 1 .. MaxTries,
    ProxySlots <- PollSlots

(* Those of Client and Server.                                             *)
ASSUME SystemAssumption ==
    /\ InitSlots \in Nat \ {0} /\ RetrLimit \in Nat
    /\ MaxTries \in Nat \ {0} /\ MaxSent \in Nat
    /\ NoCode # Blank /\ NoCode \notin Nat /\ Blank \notin Nat
    /\ Blank \notin Names /\ Blank \notin Texts /\ ShortNames \subseteq Names
    /\ MaxClients \in Nat \ {0} /\ MaxTime \in Nat /\ Timeout \in Nat \ {0}
    /\ Verdicts \subseteq {"corrected", "uncorrected"}
    /\ Null \notin Server!ClientRec

clientSide == <<proc, pseudo, connected, waiting, slots, tot, nb, drawn, files>>
serverSide == <<clients, index, stored, now>>
table      == <<fds, nbFds, closed, ended>>
proxySide  == <<table, reset>>
seen       == <<shown, log, place, soutAt, downAt>>
vars       == <<clientSide, up, down, serverSide, sin, sout, proxySide, seen>>

Init ==
    /\ Client!ClientInit /\ \A d \in Client!Dirs, p \in Names : files[d][p] = NoCode
    /\ Server!Init
    /\ fds = [j \in PollSlots |-> IF j = 0 THEN Listener ELSE StdinFd]
    /\ nbFds = 2 /\ closed = FALSE /\ ended = FALSE /\ reset = {}
    /\ shown = [c \in Clients |-> <<>>] /\ log = <<>>
    /\ place = [c \in Clients |-> 0]
    /\ soutAt = <<>> /\ downAt = [c \in Clients |-> <<>>]

-----------------------------------------------------------------------------
(* A client connects and is accepted: it takes the next slot.              *)
Join(c) ==
    /\ ~ended /\ ~closed /\ nbFds < MaxPoll
    /\ Client!Start(c)
    /\ fds' = [fds EXCEPT ![nbFds] = c]
    /\ nbFds' = nbFds + 1
    /\ UNCHANGED <<closed, ended, reset, serverSide, sin, sout, seen>>

(* What is sent to a client that is gone, or not read when it leaves, may  *)
(* reset its connection before the proxy has read the end of file.         *)
MayReset(c) == reset' \in {reset, reset \cup {c}}

Leave(c) ==
    /\ c \in Leavers
    /\ Client!Leave(c)
    /\ IF down[c] = <<>> THEN UNCHANGED reset ELSE MayReset(c)
    /\ downAt' = [downAt EXCEPT ![c] = <<>>]
    /\ UNCHANGED <<serverSide, sin, sout, table, shown, log, place, soutAt>>

(* A line may be empty: Enter alone sends a text of length 0.              *)
UserActs(c) ==
    /\ \/ c \notin Guests /\ \E p \in Names : Client!Login(c, p)
       \/ (c \in Talkers \/ nb[c] = 1) /\ Client!Speak(c, <<c, nb[c]>>)
       \/ c \in Talkers /\ Client!Speak(c, Blank)
    /\ UNCHANGED <<serverSide, sin, sout, proxySide, seen>>

(* on_received_message_default_channel keeps the texts.                    *)
Show(c) ==
    /\ shown' = [shown EXCEPT ![c] = Append(@, Head(down[c]).body)]
    /\ place' = [place EXCEPT ![c] = Head(downAt[c])]

(* on_msg_client                                                           *)
ClientReads(c) ==
    /\ Client!OnMsg(c)
    /\ IF connected[c] /\ Head(down[c]).type = "server_client" THEN Show(c)
       ELSE UNCHANGED <<shown, place>>
    /\ downAt' = [downAt EXCEPT ![c] = Tail(@)]
    /\ UNCHANGED <<serverSide, sin, sout, proxySide, log, soutAt>>

(* The end of a process that reads past its table; the rest is not read.   *)
ClientReadsBeyond(c) ==
    /\ Client!ReadBeyond(c)
    /\ IF Len(down[c]) = 1 THEN UNCHANGED reset ELSE MayReset(c)
    /\ downAt' = [downAt EXCEPT ![c] = <<>>]
    /\ UNCHANGED <<serverSide, sin, sout, table, shown, log, place, soutAt>>

-----------------------------------------------------------------------------
(* Mutant of MayBeEmpty: one more type is forgotten.                       *)
MayBeEmptyUnacked == {"ack_neg", "connection", "well_connected"}

(* Messages the proxy passes on though they are empty.                     *)
MayBeEmpty == {"ack_neg", "ack_pos", "connection", "well_connected"}
Passed(m)  == m.len > 0 \/ m.type \in MayBeEmpty

(* read_poll_socket stamps the slot on the message, on_client_received     *)
(* sends it to the server.                                                 *)
OnClientReceived(j) ==
    /\ ~ended /\ ~closed /\ j < nbFds /\ fds[j] \in Clients \ reset
    /\ up[fds[j]] # <<>>
    /\ LET m == [Head(up[fds[j]]) EXCEPT !.sock = j] IN
         sin' = IF Passed(m) THEN Append(sin, m) ELSE sin
    /\ up' = [up EXCEPT ![fds[j]] = Tail(@)]
    /\ UNCHANGED <<clientSide, down, serverSide, sout, proxySide, seen>>

(* The end of file of a client that left.                                  *)
OnClientLeft(j) ==
    /\ ~ended /\ ~closed /\ j < nbFds /\ fds[j] \in Clients \ reset
    /\ proc[fds[j]] = "gone" /\ up[fds[j]] = <<>>
    /\ fds' = [fds EXCEPT ![j] = NoFd]
    /\ closed' = TRUE
    /\ UNCHANGED <<clientSide, up, down, serverSide, sin, sout, nbFds, ended,
                   reset, seen>>

(* POLLHUP and POLLERR: one connection that was reset ends them all.       *)
OnClientReset(j) ==
    /\ ~ended /\ ~closed /\ j < nbFds /\ fds[j] \in reset
    /\ ended' = TRUE
    /\ UNCHANGED <<clientSide, up, down, serverSide, sin, sout, fds, nbFds,
                   closed, reset, seen>>

Compress ==
    /\ closed
    /\ LET kept == Compacted(fds, nbFds) IN
         /\ fds' = [j \in PollSlots |-> IF j \in DOMAIN kept THEN kept[j]
                                        ELSE IF j <= nbFds THEN NoFd ELSE fds[j]]
         /\ nbFds' = Cardinality(DOMAIN kept)
    /\ closed' = FALSE
    /\ UNCHANGED <<clientSide, up, down, serverSide, sin, sout, ended, reset, seen>>

(* on_server_received: the slot is tested against the size of the table,   *)
(* then what the slot holds is sent to, whatever it is.                    *)
Discarded(m) == m.sock = -1 \/ m.sock >= nbFds \/ ~Passed(m)

(* Mutant of OnServerReceived: what comes last is delivered first.         *)
DeliverLastFirst ==
    /\ ~ended /\ sout # <<>>
    /\ sout' = Tail(sout)
    /\ LET m == Head(sout) IN
         /\ ~Discarded(m) /\ fds[m.sock] \in Clients
         /\ down' = [down EXCEPT ![fds[m.sock]] = <<m>> \o @]
         /\ downAt' = [downAt EXCEPT ![fds[m.sock]] = <<Head(soutAt)>> \o @]
    /\ soutAt' = Tail(soutAt)
    /\ UNCHANGED <<clientSide, up, serverSide, sin, proxySide, shown, log, place>>

(* send to what is not a connection fails; to one that was reset, it       *)
(* raises SIGPIPE.                                                         *)
OnServerReceived ==
    /\ ~ended /\ sout # <<>>
    /\ sout' = Tail(sout)
    /\ LET m == Head(sout)
           f == fds[m.sock]
       IN
         \/ /\ Discarded(m)
            /\ UNCHANGED <<down, ended, reset, downAt>>
         \/ /\ ~Discarded(m) /\ f \in Clients \ reset /\ proc[f] = "on"
            /\ down' = [down EXCEPT ![f] = Append(@, m)]
            /\ downAt' = [downAt EXCEPT ![f] = Append(@, Head(soutAt))]
            /\ UNCHANGED <<ended, reset>>
         \/ /\ ~Discarded(m) /\ f \in Clients \ reset /\ proc[f] = "gone"
            /\ MayReset(f)
            /\ UNCHANGED <<down, ended, downAt>>
         \/ /\ ~Discarded(m) /\ f \notin Clients \ reset
            /\ ended' = TRUE
            /\ UNCHANGED <<down, reset, downAt>>
    /\ soutAt' = Tail(soutAt)
    /\ UNCHANGED <<clientSide, up, serverSide, sin, fds, nbFds, closed, shown, log,
                   place>>

ServerReads ==
    /\ \E m \in Server!Incoming :
         /\ Server!OnMsgReceived(m)
         /\ log' = IF Server!Deliver(m) THEN Append(log, m.body) ELSE log
    /\ soutAt' = [k \in DOMAIN sout' |->
                     IF k \in DOMAIN sout THEN soutAt[k]
                     ELSE IF sout'[k].type = "server_client" THEN Len(log') ELSE 0]
    /\ UNCHANGED <<clientSide, up, down, proxySide, shown, place, downAt>>

Tick ==
    /\ Server!Tick
    /\ UNCHANGED <<clientSide, up, down, proxySide, seen>>

-----------------------------------------------------------------------------
Proxy ==
    \/ \E j \in PollSlots : OnClientReceived(j) \/ OnClientLeft(j) \/ OnClientReset(j)
    \/ Compress
    \/ OnServerReceived

Next ==
    \/ \E c \in Clients :
         Join(c) \/ Leave(c) \/ UserActs(c) \/ ClientReads(c) \/ ClientReadsBeyond(c)
    \/ Proxy
    \/ ServerReads
    \/ Tick

(* Every loop serves what is there; users do what they want.               *)
Spec ==
    /\ Init /\ [][Next]_vars
    /\ WF_vars(Proxy) /\ WF_vars(ServerReads)
    /\ \A c \in Clients : WF_vars(ClientReads(c))

-----------------------------------------------------------------------------
NobodyLeft == \A c \in Clients : proc[c] # "gone"

SlotOf(c)   == {j \in PollSlots : j < nbFds /\ fds[j] = c}
Within(q, P(_)) == {k \in DOMAIN q : P(q[k])}

(* Messages of a type about slot i of the table of c, between its          *)
(* connection and the server.                                              *)
Carrying(q, c, i, types) ==
    Within(q, LAMBDA m : m.type \in types /\ m.id = i /\ m.sock \in SlotOf(c))

(* As long as nobody leaves, a text that was said is somewhere between     *)
(* client and server exactly once, as the text or as its acknowledgement,  *)
(* until its slot is free; and no answer comes to a client that did not    *)
(* ask.  An empty text ends at the proxy: its slot is never free again.    *)
OnTheWay(c, i) ==
    Cardinality(Client!AcksDown(c, i)) + Cardinality(Carrying(sin, c, i, {"std"}))
    + Cardinality(Carrying(sout, c, i, {"ack_pos", "ack_neg"}))

TextsOnTheirWay ==
    NobodyLeft => \A c \in Clients : \A i \in 0 .. tot[c] - 1 :
        LET said == slots[c][i].type = "std"
            here == Cardinality(Client!TextsUp(c, i))
        IN  IF said /\ slots[c][i].len = 0 THEN here <= 1 /\ OnTheWay(c, i) = 0
            ELSE here + OnTheWay(c, i) = IF said THEN 1 ELSE 0

(* As long as nobody leaves, a client that was told so has its session, or *)
(* had it until another one with its code took it over after the time-out. *)
WelcomeIsTrue ==
    NobodyLeft => \A c \in Clients : connected[c] =>
        \E i \in Server!CSlots :
            /\ clients[i] # Null /\ clients[i].pseudo = pseudo[c]
            /\ clients[i].sock \in SlotOf(c) \/ clients[i].last >= Timeout

(* The system is one conversation: what the clients show through two       *)
(* threads and a socket each is in the order in which the server took the  *)
(* texts; as long as nobody leaves, no text twice and none left out.       *)
Chat == INSTANCE Chat WITH
    Users <- Clients, read <- shown, at <- place, all <- NobodyLeft

OneConversation == Chat!Spec

(* Only a departure can make the proxy send to what is not a client: as    *)
(* long as nobody leaves, its connections stay open.                       *)
OpenWhileAllStay == NobodyLeft => ~ended

-----------------------------------------------------------------------------
(* server.c:184-185: the server will "send an error message to the client  *)
(* who wants to connect".  It does, and the proxy drops it: a client that  *)
(* is refused waits for ever.                                              *)
RefusedIsTold ==
    \A c \in Clients : waiting[c] ~> ~waiting[c] \/ proc[c] = "gone" \/ ended

(* proxy.c:134: "The socket seems to be good, transmission of the message" *)
(* to a client.  After a departure it may be -1 or the terminal; the send  *)
(* fails and all the clients lose the proxy.                               *)
Delivering == sout # <<>> /\ sout' = Tail(sout) /\ ~Discarded(Head(sout))

SocketIsGood == [][Delivering => fds[Head(sout).sock] \in Clients]_vars
=============================================================================
