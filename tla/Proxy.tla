------------------------------- MODULE Proxy -------------------------------
(***************************************************************************)
(* The process of src/src/proxy.c: main, the thread of the server's side   *)
(* (gestion_server) and the thread of the clients' side (gestion_clients), *)
(* which share the descriptors of the process, the terminal, and, without  *)
(* a lock, the connections con_server and con_clients.                     *)
(*                                                                         *)
(* Descriptors are numbers, given as the kernel does: the lowest that is   *)
(* free.  Messages are counted, not told apart (NyanChat does that).  A    *)
(* turn of the loop of the server's side serves the socket in slot 0, the  *)
(* terminal or both, one of the clients' side one descriptor; both test    *)
(* end_connection at the end.  A failing system call in a CHK macro ends   *)
(* the process.                                                            *)
(***************************************************************************)
EXTENDS PollTable

CONSTANTS
    Conns,       \* client connections, each of them made once
    MaxFd,       \* bound: the highest descriptor
    MaxPoll,     \* MAX_POLL_SOCKETS
    MaxLines     \* bound: lines waiting on the terminal

ASSUME ProxyAssumption ==
    /\ MaxFd \in Nat /\ MaxFd > 2 + Cardinality(Conns)
    /\ MaxPoll \in Nat /\ MaxPoll > 2 + Cardinality(Conns)
    /\ MaxLines \in Nat /\ NoFd \notin Nat
    /\ IsFiniteSet(Conns)
    /\ Conns \cap {"free", "tty", "server", "listener"} = {}

VARIABLES
    sem,      \* the semaphore
    spc, cpc, \* where the two threads are; the process ends both at once
    ssock,    \* con_server.sockfd
    sfds,     \* con_server.poll_fds[j].fd
    sEnd,     \* con_server.end_connection
    csock,    \* con_clients.sockfd
    cfds,     \* con_clients.poll_fds[j].fd
    cnb,      \* con_clients.nb_poll_fds
    cEnd,     \* con_clients.end_connection
    kind,     \* kernel: what each descriptor is
    server,   \* environment: the other end of the server's connection
    sInbox,   \* kernel: has the server sent a message that is not read?
    peer,     \* environment: the other end of each client's connection
    inbox,    \* kernel: has that client sent a message that is not read?
    lines     \* environment: lines typed and not read

threads  == <<spc, cpc, sem>>
sides    == <<ssock, sfds, sEnd>>
csides   == <<csock, cfds, cnb, cEnd>>
world    == <<server, sInbox, peer, inbox, lines>>
vars     == <<threads, sides, csides, kind, world>>

Fds   == 0 .. MaxFd
Slots == 0 .. MaxPoll - 1
Tty   == 0                                   \* stdin_fd
Kinds == Conns \cup {"free", "tty", "server", "listener"}

TypeOK ==
    /\ sem \in {0, 1}
    /\ spc \in {"connect", "poll", "stdin", "forget", "lastline", "close", "tell",
               "done", "ended"}
    /\ cpc \in {"off", "init", "poll", "stdin", "close", "done", "ended"}
    /\ ssock \in Fds /\ csock \in Fds
    /\ sfds \in [0 .. 2 -> Fds \cup {NoFd}] /\ cfds \in [Slots -> Fds \cup {NoFd}]
    /\ cnb \in 0 .. MaxPoll /\ sEnd \in BOOLEAN /\ cEnd \in BOOLEAN
    /\ kind \in [Fds -> Kinds]
    /\ server \in {"none", "up", "closed", "reset"} /\ sInbox \in BOOLEAN
    /\ peer \in [Conns -> {"none", "pending", "up", "closed", "reset"}]
    /\ inbox \in [Conns -> BOOLEAN] /\ lines \in 0 .. MaxLines

(* Globals are zero; main has created the thread of the server's side.     *)
Init ==
    /\ sem = 0 /\ spc = "connect" /\ cpc = "off"
    /\ ssock = 0 /\ sfds = [j \in 0 .. 2 |-> 0] /\ sEnd = FALSE
    /\ csock = 0 /\ cfds = [j \in Slots |-> 0] /\ cnb = 0 /\ cEnd = FALSE
    /\ kind = [f \in Fds |-> IF f = Tty THEN "tty" ELSE "free"]
    /\ server = "none" /\ sInbox = FALSE
    /\ peer = [c \in Conns |-> "none"] /\ inbox = [c \in Conns |-> FALSE]
    /\ lines = 0

-----------------------------------------------------------------------------
LowestFree(f) == kind[f] = "free" /\ \A g \in Fds : g < f => kind[g] # "free"

(* The end of the process: exit, a CHK macro, SIGPIPE, main's return.      *)
End ==
    /\ spc' = "ended" /\ cpc' = "ended"
    /\ kind' = [f \in Fds |-> "free"]
    /\ UNCHANGED <<sem, sides, csides, world>>

Running == spc # "ended"

KindOf(f) == IF f = NoFd THEN "free" ELSE kind[f]

-----------------------------------------------------------------------------
(* gestion_server                                                          *)

(* tcp_connection_client_init, sem_post.                                   *)
SConnect(f) ==
    /\ spc = "connect" /\ LowestFree(f)
    /\ kind' = [kind EXCEPT ![f] = "server"]
    /\ ssock' = f /\ sfds' = [j \in 0 .. 2 |-> IF j = 0 THEN f ELSE Tty]
    /\ sEnd' = FALSE
    /\ server' = "up" /\ sem' = 1 /\ spc' = "poll"
    /\ UNCHANGED <<cpc, csides, sInbox, peer, inbox, lines>>

SConnectFails == spc = "connect" /\ End

STurn(end) == spc' = IF end THEN "close" ELSE "poll"

(* After slot 0, the terminal in slot 1 if there is a line, or the end of  *)
(* the turn.                                                               *)
SServed == STurn(sEnd) \/ (lines > 0 /\ spc' = "stdin")

(* on_server_received for slot j of the clients' table: sent, dropped, or  *)
(* sent to what cannot take it, which ends the clients' connection or, by  *)
(* SIGPIPE, the process.                                                   *)
SRecv(j) ==
    /\ spc = "poll" /\ sInbox
    /\ \/ /\ j >= cnb \/ KindOf(cfds[j]) \in {c \in Conns : peer[c] # "reset"}
          /\ sInbox' = FALSE
          /\ SServed
          /\ IF j < cnb /\ peer[KindOf(cfds[j])] = "closed"
             THEN peer' \in {peer, [peer EXCEPT ![kind[cfds[j]]] = "reset"]}
             ELSE UNCHANGED peer
          /\ UNCHANGED <<cpc, sem, sides, csides, kind, server, inbox, lines>>
       \/ /\ j < cnb
          /\ KindOf(cfds[j]) \in {"free", "tty"} \cup {c \in Conns : peer[c] = "reset"}
          /\ sInbox' = FALSE
          /\ SServed
          /\ cEnd' = TRUE
          /\ UNCHANGED <<cpc, sem, sides, csock, cfds, cnb, kind, server,
                         peer, inbox, lines>>
       \/ /\ j < cnb
          /\ KindOf(cfds[j]) \in {"listener"} \cup {c \in Conns : peer[c] = "reset"}
          /\ End

(* The end of file of the server: read_poll_socket closes the descriptor,  *)
(* then forgets its number; the compression of poll_fds puts the unused    *)
(* slot 2, which holds 0, in its place.  A line of the same turn is still  *)
(* read before that: neither -1 nor 0 is a connection, so that nobody can  *)
(* tell that the model compresses first.                                   *)
SLeft ==
    /\ spc = "poll" /\ ~sInbox /\ server = "closed"
    /\ sEnd' = TRUE
    /\ kind' = [kind EXCEPT ![sfds[0]] = "free"]
    /\ spc' = "forget"
    /\ UNCHANGED <<cpc, sem, ssock, sfds, csides, world>>

SForget ==
    /\ spc = "forget"
    /\ LET kept == Compacted([sfds EXCEPT ![0] = NoFd], 2) IN
         sfds' = [j \in 0 .. 2 |-> IF j \in DOMAIN kept THEN kept[j] ELSE NoFd]
    /\ \/ spc' = "close"
       \/ lines > 0 /\ spc' = "lastline"
    /\ UNCHANGED <<cpc, sem, ssock, sEnd, csides, kind, world>>

(* POLLERR, POLLHUP                                                        *)
SBroken ==
    /\ spc = "poll" /\ server = "reset"
    /\ sEnd' = TRUE
    /\ spc' = "close"
    /\ UNCHANGED <<cpc, sem, ssock, sfds, csides, kind, world>>

(* A line is there when poll looks, and then read waits for one: slot 1    *)
(* comes after the server's.                                               *)
SLine ==
    /\ spc = "poll" /\ lines > 0 /\ ~sInbox /\ server = "up"
    /\ spc' = "stdin"
    /\ UNCHANGED <<cpc, sem, sides, csides, kind, world>>

SReading == spc \in {"stdin", "lastline"}

(* Mutant of SReadLine: lines are read until the terminal closes.          *)
SReadLines ==
    /\ SReading /\ lines > 0
    /\ lines' = lines - 1
    /\ UNCHANGED <<threads, sides, csides, kind, server, sInbox, peer, inbox>>

SReadLine ==
    /\ SReading /\ lines > 0
    /\ lines' = lines - 1
    /\ STurn(sEnd)
    /\ UNCHANGED <<cpc, sem, sides, csides, kind, server, sInbox, peer, inbox>>

(* tcp_connection_close(&con_server): whatever has the number by now.      *)
SClose ==
    /\ spc = "close"
    /\ \/ /\ kind[ssock] = "free"
          /\ End
       \/ /\ kind[ssock] # "free"
          /\ kind' = [kind EXCEPT ![ssock] = "free"]
          /\ spc' = "tell"
          /\ UNCHANGED <<cpc, sem, sides, csides, world>>

(* Mutant of STell: the clients' side is not told.                         *)
STellNobody ==
    /\ spc = "tell"
    /\ spc' = "done"
    /\ UNCHANGED <<cpc, sem, sides, csides, kind, world>>

(* Mutant of STell: the semaphore is posted at the end too.                *)
STellPosts ==
    /\ spc = "tell"
    /\ cEnd' = TRUE /\ sem' = sem + 1
    /\ spc' = "done"
    /\ UNCHANGED <<cpc, sides, csock, cfds, cnb, kind, world>>

(* con_clients.end_connection = true                                       *)
STell ==
    /\ spc = "tell"
    /\ cEnd' = TRUE
    /\ spc' = "done"
    /\ UNCHANGED <<cpc, sem, sides, csock, cfds, cnb, kind, world>>

ServerThread ==
    \/ \E f \in Fds : SConnect(f)
    \/ SConnectFails
    \/ \E j \in 2 .. MaxPoll - 1 : SRecv(j)
    \/ SLeft \/ SForget \/ SBroken
    \/ SLine \/ SReadLine
    \/ SClose \/ STell

-----------------------------------------------------------------------------
(* main                                                                    *)

(* Mutant of CreateClients: main does not wait.                            *)
CreateAtOnce ==
    /\ cpc = "off"
    /\ cpc' = "init"
    /\ UNCHANGED <<spc, sem, sides, csides, kind, world>>

(* sem_wait, pthread_create                                                *)
CreateClients ==
    /\ cpc = "off" /\ sem = 1
    /\ sem' = 0 /\ cpc' = "init"
    /\ UNCHANGED <<spc, sides, csides, kind, world>>

(* Both pthread_join                                                       *)
Join == spc = "done" /\ cpc = "done" /\ End

Main == CreateClients \/ Join

-----------------------------------------------------------------------------
(* gestion_clients                                                         *)

(* tcp_connection_server_init; bind may find the port taken.               *)
CInit(f) ==
    /\ cpc = "init" /\ LowestFree(f)
    /\ kind' = [kind EXCEPT ![f] = "listener"]
    /\ csock' = f /\ cfds' = [j \in Slots |-> IF j = 0 THEN f ELSE Tty]
    /\ cnb' = 2 /\ cEnd' = FALSE
    /\ cpc' = "poll"
    /\ UNCHANGED <<spc, sem, sides, world>>

CInitFails == cpc = "init" /\ End

CTurn(end) == cpc' = IF end THEN "close" ELSE "poll"

CAccept(c, f) ==
    /\ cpc = "poll" /\ peer[c] = "pending" /\ kind[csock] = "listener"
    /\ LowestFree(f) /\ cnb < MaxPoll
    /\ kind' = [kind EXCEPT ![f] = c]
    /\ cfds' = [cfds EXCEPT ![cnb] = f]
    /\ cnb' = cnb + 1
    /\ peer' = [peer EXCEPT ![c] = "up"]
    /\ CTurn(cEnd)
    /\ UNCHANGED <<spc, sem, sides, csock, cEnd, server, sInbox, inbox, lines>>

(* The connections in the table, with their slots.                         *)
InSlot(j, c) == 2 <= j /\ j < cnb /\ KindOf(cfds[j]) = c

(* on_client_received: what poll_fds[0] of the server's side holds is sent *)
(* to; send succeeds, fails, or raises SIGPIPE.                            *)
Target == KindOf(sfds[0])

CRelay(j, c) ==
    /\ cpc = "poll" /\ InSlot(j, c) /\ inbox[c] /\ peer[c] # "reset"
    /\ \/ /\ Target \in Conns \cup IF server = "reset" THEN {} ELSE {"server"}
          /\ inbox' = [inbox EXCEPT ![c] = FALSE]
          /\ CTurn(cEnd)
          /\ IF Target = "server" /\ server = "closed"
             THEN server' \in {"closed", "reset"} ELSE UNCHANGED server
          /\ UNCHANGED <<spc, sem, sides, csides, kind, sInbox, peer, lines>>
       \/ /\ Target \in {"free", "tty"} \cup IF server = "reset" THEN {"server"} ELSE {}
          /\ inbox' = [inbox EXCEPT ![c] = FALSE]
          /\ CTurn(cEnd)
          /\ sEnd' = TRUE
          /\ UNCHANGED <<spc, sem, ssock, sfds, csides, kind, server, sInbox,
                         peer, lines>>
       \/ /\ Target \in {"listener"} \cup IF server = "reset" THEN {"server"} ELSE {}
          /\ End

(* Mutant of CLeft: the slot is not emptied.                               *)
CLeftKeepsFd(j, c) ==
    /\ cpc = "poll" /\ InSlot(j, c) /\ ~inbox[c] /\ peer[c] = "closed"
    /\ kind' = [kind EXCEPT ![cfds[j]] = "free"]
    /\ CTurn(cEnd)
    /\ UNCHANGED <<spc, sem, sides, csides, world>>

(* The end of file of a client, and the compression of the table.          *)
CLeft(j, c) ==
    /\ cpc = "poll" /\ InSlot(j, c) /\ ~inbox[c] /\ peer[c] = "closed"
    /\ kind' = [kind EXCEPT ![cfds[j]] = "free"]
    /\ LET kept == Compacted([cfds EXCEPT ![j] = NoFd], cnb) IN
         /\ cfds' = [k \in Slots |-> IF k \in DOMAIN kept THEN kept[k]
                                     ELSE IF k <= cnb THEN NoFd ELSE cfds[k]]
         /\ cnb' = Cardinality(DOMAIN kept)
    /\ CTurn(cEnd)
    /\ UNCHANGED <<spc, sem, sides, csock, cEnd, world>>

(* POLLERR and POLLHUP of a client's connection that was reset; POLLNVAL   *)
(* of a number the other thread closed.                                    *)
CBroken(j) ==
    /\ cpc = "poll"
    /\ \/ \E c \in Conns : InSlot(j, c) /\ peer[c] = "reset"
       \/ j < cnb /\ KindOf(cfds[j]) = "free"
    /\ cEnd' = TRUE
    /\ cpc' = "close"
    /\ UNCHANGED <<spc, sem, sides, csock, cfds, cnb, kind, world>>

CLine ==
    /\ cpc = "poll" /\ lines > 0
    /\ cpc' = "stdin"
    /\ UNCHANGED <<spc, sem, sides, csides, kind, world>>

CReadLine ==
    /\ cpc = "stdin" /\ lines > 0
    /\ lines' = lines - 1
    /\ CTurn(cEnd)
    /\ UNCHANGED <<spc, sem, sides, csides, kind, server, sInbox, peer, inbox>>

(* tcp_connection_close(&con_clients): the listener, then the clients; a   *)
(* number that is closed already, or stands twice, ends the process.       *)
ClientFds == {cfds[j] : j \in {k \in 2 .. cnb - 1 : cfds[k] \notin {NoFd, Tty, csock}}}

CClose ==
    /\ cpc = "close"
    /\ LET numbers == {csock} \cup ClientFds
           bad     == \/ \E f \in numbers : kind[f] = "free"
                      \/ \E j, k \in 2 .. cnb - 1 :
                           j # k /\ cfds[j] = cfds[k] /\ cfds[j] \in ClientFds
       IN
         \/ bad /\ End
         \/ /\ ~bad
            /\ kind' = [f \in Fds |-> IF f \in numbers THEN "free" ELSE kind[f]]
            /\ cpc' = "done"
            /\ UNCHANGED <<spc, sem, sides, csides, world>>

ClientsThread ==
    \/ \E f \in Fds : CInit(f)
    \/ CInitFails
    \/ \E c \in Conns, f \in Fds : CAccept(c, f)
    \/ \E j \in Slots, c \in Conns : CRelay(j, c) \/ CLeft(j, c)
    \/ \E j \in Slots : CBroken(j)
    \/ CLine \/ CReadLine
    \/ CClose

-----------------------------------------------------------------------------
(* The environment                                                         *)

ServerSends ==
    /\ Running /\ server = "up" /\ ~sInbox
    /\ sInbox' = TRUE
    /\ UNCHANGED <<threads, sides, csides, kind, server, peer, inbox, lines>>

ServerLeaves(how) ==
    /\ Running /\ server = "up"
    /\ server' = how
    /\ sInbox' = (sInbox /\ how = "closed")
    /\ UNCHANGED <<threads, sides, csides, kind, peer, inbox, lines>>

ClientActs(c) ==
    /\ Running
    /\ \/ peer[c] = "none" /\ kind[csock] = "listener" /\ UNCHANGED inbox
          /\ peer' = [peer EXCEPT ![c] = "pending"]
       \/ peer[c] = "up" /\ ~inbox[c] /\ inbox' = [inbox EXCEPT ![c] = TRUE]
          /\ UNCHANGED peer
       \/ peer[c] = "up" /\ UNCHANGED inbox
          /\ peer' \in {[peer EXCEPT ![c] = how] : how \in {"closed", "reset"}}
    /\ UNCHANGED <<threads, sides, csides, kind, server, sInbox, lines>>

TypeLine ==
    /\ Running /\ lines < MaxLines
    /\ lines' = lines + 1
    /\ UNCHANGED <<threads, sides, csides, kind, server, sInbox, peer, inbox>>

Environment ==
    \/ ServerSends
    \/ \E how \in {"closed", "reset"} : ServerLeaves(how)
    \/ \E c \in Conns : ClientActs(c)
    \/ TypeLine

Next == ServerThread \/ ClientsThread \/ Main \/ Environment

(* What poll reports to the thread of the clients' side without being      *)
(* called again; it may or may not look at a number closed meanwhile.      *)
Reported ==
    \/ lines > 0
    \/ \E c \in Conns : peer[c] = "pending" /\ kind[csock] = "listener"
    \/ \E j \in Slots, c \in Conns :
         InSlot(j, c) /\ (inbox[c] \/ peer[c] \in {"closed", "reset"})

RunClients == ClientsThread /\ (cpc = "poll" => Reported)

(* The scheduler runs each thread that can run.                            *)
Spec ==
    /\ Init /\ [][Next]_vars
    /\ WF_vars(ServerThread) /\ WF_vars(RunClients) /\ WF_vars(Main)

-----------------------------------------------------------------------------
(* Both threads poll the terminal, one line wakes both, and the one that   *)
(* comes late waits in read.  The other one is never caught with it: there *)
(* is always a thread that runs.                                           *)
NotBothBlocked ==
    SReading /\ cpc = "stdin" => lines > 0

(* The clients' side sends to con_server.poll_fds[0].fd without looking:   *)
(* as long as the server stays, that is the server, thanks to the          *)
(* semaphore main waits for.                                               *)
RelayedToServer ==
    [][(\E c \in Conns : inbox[c] /\ ~inbox'[c]) /\ server \in {"none", "up"}
          => KindOf(sfds[0]) = "server"]_vars

(* Until the thread of the server's side closes its connection, each       *)
(* number in the clients' table is that of a client, and of a different    *)
(* one in each slot, however often numbers are given again.  After it has, *)
(* tcp_connection_close can close a client's.                              *)
DescriptorsApart ==
    spc \in {"poll", "stdin"} =>
        /\ kind[ssock] = "server"
        /\ \A j, k \in 2 .. cnb - 1 :
             cfds[j] \notin {Tty, NoFd} =>
                /\ cpc # "done" => kind[cfds[j]] \in Conns
                /\ cfds[j] = cfds[k] => j = k

(* A server that leaves once the clients' side listens takes the clients   *)
(* with it, unless one of the threads waits for a line of the terminal, or *)
(* the clients' thread for an event: its poll has no time-out.             *)
Asleep == cpc = "poll" /\ ~Reported

CutIsSeen ==
    server \in {"closed", "reset"} /\ spc # "done" /\ cpc \notin {"off", "init"}
        ~> \/ cpc \in {"done", "ended"}
           \/ []SReading
           \/ [](cpc = "stdin")
           \/ []Asleep

(* proxy.c:165, "If connection has been cut here, we must cut the clients  *)
(* side".  A thread asleep in poll does not see the flag.                  *)
ClientsAreCut ==
    server \in {"closed", "reset"} ~> cpc \in {"done", "ended"}
=============================================================================
