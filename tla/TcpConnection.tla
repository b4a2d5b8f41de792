--------------------------- MODULE TcpConnection ---------------------------
(***************************************************************************)
(* The event loop of src/src/tcp_connection.c for the two connection types *)
(* that listen, TCP_CON_SERVER and TCP_CON_PROXY_CLIENTS_SIDE: one thread  *)
(* that polls a table of descriptors, accepts on the listening socket,     *)
(* reads stdin, reads each readable client until recv would block, closes  *)
(* the clients that left, and compresses the table.                        *)
(*                                                                         *)
(* Descriptors are model values: Listener is con->sockfd, StdinFd is       *)
(* descriptor 0, which is also what memset leaves in an unused slot, NoFd  *)
(* is -1, and Socks are the descriptors accept() can return.  The kernel's *)
(* side of each socket and the remote peers are modelled as the            *)
(* environment of the loop.                                                *)
(***************************************************************************)
EXTENDS PollTable

CONSTANTS
    MaxPoll,      \* MAX_POLL_SOCKETS
    Socks,        \* descriptors accept() may return: the process's limit
    Listener,     \* con->sockfd
    StdinFd,      \* stdin_fd, descriptor 0
    MaxBacklog,   \* bound: connections waiting in the kernel's listen queue
    MaxInbox,     \* bound: messages waiting in a socket's receive buffer
    MaxLines      \* bound: lines waiting on the terminal

ASSUME SizeAssumption ==
    /\ MaxPoll \in Nat /\ MaxPoll > 2
    /\ MaxBacklog \in Nat /\ MaxInbox \in Nat /\ MaxLines \in Nat

ASSUME FdAssumption ==
    /\ Listener # StdinFd /\ Listener # NoFd /\ StdinFd # NoFd
    /\ Listener \notin Socks /\ StdinFd \notin Socks /\ NoFd \notin Socks

VARIABLES
    pc,           \* where the loop's thread is
    fds,          \* con->poll_fds[j].fd
    nb,           \* con->nb_poll_fds
    current,      \* current_nb_poll_socks, the size of the last poll
    todo,         \* slots with revents # 0 not visited yet in this turn
    bad,          \* those of them whose revents is not exactly POLLIN
    slot,         \* i, the slot being served
    needCompress, \* con->need_compress_poll_arr
    endConn,      \* con->end_connection
    lastOk,       \* last_ok_sock, in compress_poll_socket_array
    hole,         \* i, in compress_poll_socket_array
    sk,           \* kernel: is the descriptor free or open?
    inbox,        \* kernel: messages received on the socket and not read
    peer,         \* environment: the remote end of the socket
    backlog,      \* kernel: connections waiting to be accepted
    lines,        \* environment: lines typed and not read
    stdin         \* environment: "up", "eof" (file, /dev/null), "hup" (pipe)

con     == <<fds, nb, current, needCompress, endConn>>
scan    == <<todo, bad, slot>>
compact == <<lastOk, hole>>
kernel  == <<sk, inbox, peer, backlog>>
input   == <<lines, stdin>>
vars    == <<pc, con, scan, compact, kernel, input>>

Slots == 0 .. MaxPoll - 1
Fds   == Socks \cup {Listener, StdinFd, NoFd}

TypeOK ==
    /\ pc \in {"poll", "scan", "accept", "read", "stdin", "trim", "fill",
               "exit", "closed", "spin"}
    /\ fds \in [Slots -> Fds]
    /\ nb \in 0 .. MaxPoll
    /\ current \in 0 .. MaxPoll
    /\ todo \subseteq Slots /\ bad \subseteq todo
    /\ slot \in Slots
    /\ needCompress \in BOOLEAN /\ endConn \in BOOLEAN
    /\ lastOk \in Slots /\ hole \in 0 .. MaxPoll
    /\ sk \in [Socks -> {"free", "open"}]
    /\ inbox \in [Socks -> 0 .. MaxInbox]
    /\ peer \in [Socks -> {"up", "closed", "reset"}]
    /\ backlog \in 0 .. MaxBacklog
    /\ lines \in 0 .. MaxLines
    /\ stdin \in {"up", "eof", "hup"}

(* tcp_connection_server_init: memset(0), the listener and stdin.          *)
Init ==
    /\ pc = "poll"
    /\ fds = [j \in Slots |-> IF j = 0 THEN Listener ELSE StdinFd]
    /\ nb = 2 /\ current = 0
    /\ todo = {} /\ bad = {} /\ slot = 0
    /\ needCompress = FALSE /\ endConn = FALSE
    /\ lastOk = 0 /\ hole = 0
    /\ sk = [s \in Socks |-> "free"]
    /\ inbox = [s \in Socks |-> 0]
    /\ peer = [s \in Socks |-> "up"]
    /\ backlog = 0 /\ lines = 0 /\ stdin = "up"

-----------------------------------------------------------------------------
(* poll() and the walk over the slots it marked.                           *)

Broken   == {s \in Socks : sk[s] = "open" /\ peer[s] = "reset"}
                \cup {f \in {StdinFd} : stdin = "hup"}
Readable == {f \in {Listener} : backlog > 0}
                \cup {f \in {StdinFd} : lines > 0 \/ stdin = "eof"}
                \cup {s \in Socks : sk[s] = "open"
                                       /\ (inbox[s] > 0 \/ peer[s] = "closed")}

Marked(F) == {j \in Slots : j < nb /\ fds[j] \in F}

(* poll blocks (its timeout is -1 in every caller) until a slot is marked. *)
Poll ==
    /\ pc = "poll"
    /\ Marked(Readable \cup Broken) # {}
    /\ todo' = Marked(Readable \cup Broken)
    /\ bad' = Marked(Broken)
    /\ current' = nb
    /\ pc' = "scan"
    /\ UNCHANGED <<fds, nb, slot, needCompress, endConn, compact, kernel, input>>

IsNext(i) == i \in todo /\ \A j \in todo : i <= j

(* One descriptor in error ends the whole connection, and the walk.        *)
VisitError(i) ==
    /\ pc = "scan" /\ IsNext(i) /\ i \in bad
    /\ endConn' = TRUE
    /\ todo' = {} /\ bad' = {}
    /\ UNCHANGED <<pc, fds, nb, current, slot, needCompress, compact, kernel,
                   input>>

(* The branch taken in the loop's body depends on the slot's descriptor.   *)
Visit(i) ==
    /\ pc = "scan" /\ IsNext(i) /\ i \notin bad
    /\ slot' = i
    /\ todo' = todo \ {i}
    /\ \/ fds[i] = Listener /\ pc' = "accept"
       \/ fds[i] = StdinFd /\ pc' = "stdin"
       \/ fds[i] \in Socks /\ pc' = "read"
    /\ UNCHANGED <<bad, con, compact, kernel, input>>

(* Mutant of ScanEnd: without a compression, the loop's condition is not   *)
(* tested.                                                                 *)
ScanEndForgetsEnd ==
    /\ pc = "scan" /\ todo = {}
    /\ needCompress' = FALSE
    /\ \/ needCompress /\ lastOk' = current /\ pc' = "trim" /\ UNCHANGED current
       \/ ~needCompress /\ pc' = "poll" /\ current' = 0 /\ UNCHANGED lastOk
    /\ slot' = 0 /\ hole' = 0
    /\ UNCHANGED <<fds, nb, endConn, todo, bad, kernel, input>>

(* Leaving the walk: compress if a slot was closed, else test the loop's   *)
(* condition.  A local variable that goes out of scope returns to 0, here  *)
(* and in FillEnd.                                                         *)
ScanEnd ==
    /\ pc = "scan" /\ todo = {}
    /\ needCompress' = FALSE
    /\ \/ /\ needCompress
          /\ lastOk' = current
          /\ pc' = "trim"
          /\ UNCHANGED current
       \/ /\ ~needCompress
          /\ pc' = IF endConn THEN "exit" ELSE "poll"
          /\ current' = 0
          /\ UNCHANGED lastOk
    /\ slot' = 0 /\ hole' = 0
    /\ UNCHANGED <<fds, nb, endConn, todo, bad, kernel, input>>

-----------------------------------------------------------------------------
(* new_clients_acceptation: the do-while loop ends on new_sock = -1 only.  *)

(* Mutants of AcceptNew: the size of the table is not looked at; the loop  *)
(* ends when the table is full.                                            *)
AcceptUnbounded(s) ==
    /\ pc = "accept" /\ backlog > 0 /\ sk[s] = "free"
    /\ fds' = [fds EXCEPT ![nb] = s]
    /\ nb' = nb + 1
    /\ sk' = [sk EXCEPT ![s] = "open"]
    /\ backlog' = backlog - 1
    /\ UNCHANGED <<pc, current, needCompress, endConn, scan, compact, inbox, peer,
                   input>>

AcceptFillsTable(s) == nb < MaxPoll /\ AcceptUnbounded(s)

(* When the table fills, the next turn takes the "refused" branch, which   *)
(* leaves new_sock as it is: the loop never ends ("spin").                 *)
AcceptNew(s) ==
    /\ pc = "accept" /\ nb < MaxPoll /\ backlog > 0 /\ sk[s] = "free"
    /\ fds' = [fds EXCEPT ![nb] = s]
    /\ nb' = nb + 1
    /\ sk' = [sk EXCEPT ![s] = "open"]
    /\ backlog' = backlog - 1
    /\ pc' = IF nb + 1 < MaxPoll THEN "accept" ELSE "spin"
    /\ UNCHANGED <<current, needCompress, endConn, scan, compact, inbox, peer,
                   input>>

(* EWOULDBLOCK, or a table already full when the listener was visited.     *)
AcceptNone ==
    /\ pc = "accept" /\ (backlog = 0 \/ nb >= MaxPoll)
    /\ pc' = "scan"
    /\ UNCHANGED <<con, scan, compact, kernel, input>>

(* accept() fails for another reason: no descriptor is left (EMFILE).      *)
AcceptFails ==
    /\ pc = "accept" /\ nb < MaxPoll /\ backlog > 0
    /\ \A s \in Socks : sk[s] = "open"
    /\ endConn' = TRUE
    /\ pc' = "scan"
    /\ UNCHANGED <<fds, nb, current, needCompress, scan, compact, kernel, input>>

-----------------------------------------------------------------------------
(* read_poll_socket: recv until EWOULDBLOCK, an error or end of file.      *)

ReadMsg(s) ==
    /\ pc = "read" /\ fds[slot] = s /\ inbox[s] > 0
    /\ inbox' = [inbox EXCEPT ![s] = @ - 1]
    /\ UNCHANGED <<pc, con, scan, compact, sk, peer, backlog, input>>

ReadNothing(s) ==
    /\ pc = "read" /\ fds[slot] = s /\ inbox[s] = 0 /\ peer[s] = "up"
    /\ pc' = "scan"
    /\ UNCHANGED <<con, scan, compact, kernel, input>>

(* Mutants of ReadClosed: the slot keeps the closed descriptor; the table  *)
(* is not marked for compression.                                          *)
ReadClosedKeepsFd(s) ==
    /\ pc = "read" /\ fds[slot] = s
    /\ peer[s] = "reset" \/ (peer[s] = "closed" /\ inbox[s] = 0)
    /\ sk' = [sk EXCEPT ![s] = "free"]
    /\ inbox' = [inbox EXCEPT ![s] = 0]
    /\ peer' = [peer EXCEPT ![s] = "up"]
    /\ pc' = "scan"
    /\ UNCHANGED <<con, scan, compact, backlog, input>>

ReadClosedUnmarked(s) ==
    /\ pc = "read" /\ fds[slot] = s
    /\ peer[s] = "reset" \/ (peer[s] = "closed" /\ inbox[s] = 0)
    /\ sk' = [sk EXCEPT ![s] = "free"]
    /\ inbox' = [inbox EXCEPT ![s] = 0]
    /\ peer' = [peer EXCEPT ![s] = "up"]
    /\ fds' = [fds EXCEPT ![slot] = NoFd]
    /\ pc' = "scan"
    /\ UNCHANGED <<nb, current, needCompress, endConn, scan, compact, backlog,
                   input>>

ReadClosed(s) ==
    /\ pc = "read" /\ fds[slot] = s
    /\ peer[s] = "reset" \/ (peer[s] = "closed" /\ inbox[s] = 0)
    /\ sk' = [sk EXCEPT ![s] = "free"]
    /\ inbox' = [inbox EXCEPT ![s] = 0]
    /\ peer' = [peer EXCEPT ![s] = "up"]
    /\ fds' = [fds EXCEPT ![slot] = NoFd]
    /\ needCompress' = TRUE
    /\ pc' = "scan"
    /\ UNCHANGED <<nb, current, endConn, scan, compact, backlog, input>>

-----------------------------------------------------------------------------
(* The stdin branch: a blocking read of a line.                            *)

(* on_stdin_server ends the connection on "/quit"; the proxy ignores it.   *)
ReadLine ==
    /\ pc = "stdin" /\ lines > 0
    /\ lines' = lines - 1
    /\ endConn' \in {endConn, TRUE}
    /\ pc' = "scan"
    /\ UNCHANGED <<fds, nb, current, needCompress, scan, compact, kernel, stdin>>

(* Mutant of ReadEof: the end of stdin is taken for that of a client.      *)
ReadEofCloses ==
    /\ pc = "stdin" /\ lines = 0 /\ stdin # "up"
    /\ fds' = [fds EXCEPT ![slot] = NoFd]
    /\ needCompress' = TRUE
    /\ pc' = "scan"
    /\ UNCHANGED <<nb, current, endConn, scan, compact, kernel, input>>

(* End of file leaves the walk over the slots: the rest is not visited.    *)
ReadEof ==
    /\ pc = "stdin" /\ lines = 0 /\ stdin # "up"
    /\ todo' = {} /\ bad' = {}
    /\ pc' = "scan"
    /\ UNCHANGED <<slot, con, compact, kernel, input>>

-----------------------------------------------------------------------------
(* compress_poll_socket_array(con, current_nb_poll_socks)                  *)

(* while (last_ok_sock > 0 && poll_fds[last_ok_sock].fd == -1)             *)
Trim ==
    /\ pc = "trim"
    /\ \/ /\ lastOk > 0 /\ fds[lastOk] = NoFd
          /\ lastOk' = lastOk - 1
          /\ UNCHANGED pc
       \/ /\ lastOk = 0 \/ fds[lastOk] # NoFd
          /\ pc' = "fill"
          /\ UNCHANGED lastOk
    /\ UNCHANGED <<hole, con, scan, kernel, input>>

(* Mutants of Fill: the moved descriptor stays in its old slot; the last   *)
(* index is not trimmed again; the loop does not advance.                  *)
FillCopies ==
    /\ pc = "fill" /\ hole < lastOk
    /\ hole' = hole + 1
    /\ fds' = IF fds[hole] = NoFd THEN [fds EXCEPT ![hole] = fds[lastOk]] ELSE fds
    /\ pc' = IF fds[hole] = NoFd THEN "trim" ELSE pc
    /\ UNCHANGED <<nb, current, needCompress, endConn, lastOk, scan, kernel,
                   input>>

FillKeepsLast ==
    /\ pc = "fill" /\ hole < lastOk
    /\ hole' = hole + 1
    /\ fds' = IF fds[hole] = NoFd
              THEN [fds EXCEPT ![hole] = fds[lastOk], ![lastOk] = NoFd] ELSE fds
    /\ UNCHANGED <<pc, nb, current, needCompress, endConn, lastOk, scan, kernel,
                   input>>

FillStays ==
    /\ pc = "fill" /\ hole < lastOk
    /\ fds[hole] = NoFd
    /\ fds' = [fds EXCEPT ![hole] = fds[lastOk], ![lastOk] = NoFd]
    /\ pc' = "trim"
    /\ UNCHANGED <<hole, nb, current, needCompress, endConn, lastOk, scan, kernel,
                   input>>

(* One turn of the for loop: a closed slot takes the last open descriptor. *)
Fill ==
    /\ pc = "fill" /\ hole < lastOk
    /\ hole' = hole + 1
    /\ \/ /\ fds[hole] = NoFd
          /\ fds' = [fds EXCEPT ![hole] = fds[lastOk], ![lastOk] = NoFd]
          /\ pc' = "trim"
       \/ /\ fds[hole] # NoFd
          /\ UNCHANGED <<fds, pc>>
    /\ UNCHANGED <<nb, current, needCompress, endConn, lastOk, scan, kernel,
                   input>>

(* Mutant of FillEnd: the last index is taken for the number of slots.     *)
FillEndShort ==
    /\ pc = "fill" /\ hole >= lastOk
    /\ nb' = lastOk
    /\ pc' = IF endConn THEN "exit" ELSE "poll"
    /\ current' = 0 /\ lastOk' = 0 /\ hole' = 0
    /\ UNCHANGED <<fds, needCompress, endConn, scan, kernel, input>>

FillEnd ==
    /\ pc = "fill" /\ hole >= lastOk
    /\ nb' = IF fds[0] = NoFd THEN 0 ELSE lastOk + 1
    /\ endConn' = (endConn \/ fds[0] = NoFd)
    /\ pc' = IF endConn' THEN "exit" ELSE "poll"
    /\ current' = 0 /\ lastOk' = 0 /\ hole' = 0
    /\ UNCHANGED <<fds, needCompress, scan, kernel, input>>

(* tcp_connection_close: the listener and the clients still in the table;  *)
(* the process then exits.                                                 *)
Close ==
    /\ pc = "exit"
    /\ sk' = [s \in Socks |->
                IF \E j \in Slots : j < nb /\ fds[j] = s THEN "free" ELSE sk[s]]
    /\ inbox' = [s \in Socks |-> 0]
    /\ peer' = [s \in Socks |-> "up"]
    /\ backlog' = 0
    /\ pc' = "closed"
    /\ UNCHANGED <<con, scan, compact, input>>

-----------------------------------------------------------------------------
(* The environment: remote peers, the terminal, and whoever else sets      *)
(* con->end_connection (a failed send, the proxy's other thread).          *)

Connect ==
    /\ pc # "closed"
    /\ backlog < MaxBacklog
    /\ backlog' = backlog + 1
    /\ UNCHANGED <<pc, con, scan, compact, sk, inbox, peer, input>>

PeerSend(s) ==
    /\ pc # "closed"
    /\ sk[s] = "open" /\ peer[s] = "up" /\ inbox[s] < MaxInbox
    /\ inbox' = [inbox EXCEPT ![s] = @ + 1]
    /\ UNCHANGED <<pc, con, scan, compact, sk, peer, backlog, input>>

PeerLeave(s, how) ==
    /\ pc # "closed"
    /\ sk[s] = "open" /\ peer[s] = "up"
    /\ peer' = [peer EXCEPT ![s] = how]
    /\ UNCHANGED <<pc, con, scan, compact, sk, inbox, backlog, input>>

TypeLine ==
    /\ pc # "closed"
    /\ stdin = "up" /\ lines < MaxLines
    /\ lines' = lines + 1
    /\ UNCHANGED <<pc, con, scan, compact, kernel, stdin>>

StdinCloses(how) ==
    /\ pc # "closed"
    /\ stdin = "up"
    /\ stdin' = how
    /\ UNCHANGED <<pc, con, scan, compact, kernel, lines>>

EndRequested ==
    /\ pc # "closed" /\ ~endConn
    /\ endConn' = TRUE
    /\ UNCHANGED <<pc, fds, nb, current, needCompress, scan, compact, kernel,
                   input>>

-----------------------------------------------------------------------------
ScanLoop ==
    \/ Poll
    \/ \E i \in Slots : VisitError(i) \/ Visit(i)
    \/ ScanEnd
    \/ Close

Accept == (\E s \in Socks : AcceptNew(s)) \/ AcceptNone \/ AcceptFails

Read == \E s \in Socks : ReadMsg(s) \/ ReadNothing(s) \/ ReadClosed(s)

ReadStdin == ReadLine \/ ReadEof

Compress == Trim \/ Fill \/ FillEnd

Loop == ScanLoop \/ Accept \/ Read \/ ReadStdin \/ Compress

Environment ==
    \/ Connect
    \/ \E s \in Socks : PeerSend(s) \/ \E how \in {"closed", "reset"} : PeerLeave(s, how)
    \/ TypeLine
    \/ \E how \in {"eof", "hup"} : StdinCloses(how)
    \/ EndRequested

Next == Loop \/ Environment

(* The thread runs whenever poll or read lets it; peers owe it nothing.    *)
Spec == Init /\ [][Next]_vars /\ WF_vars(Loop)
-----------------------------------------------------------------------------
(* Safety.                                                                 *)

Walking     == {"scan", "accept", "read", "stdin"}
Compressing == {"trim", "fill"}

(* Slot 0 stays the listener and slot 1 stdin, whatever clients leave and  *)
(* whatever compress_poll_socket_array moves: the loop and the proxy use   *)
(* con_server.poll_fds[0] without looking.                                 *)
FixedSlots == fds[0] = Listener /\ fds[1] = StdinFd

(* A client's descriptor is in one slot only, and it is an open one: no    *)
(* slot keeps a descriptor that was closed and may be given to another     *)
(* client, and tcp_connection_close closes none twice.                     *)
OneSlotPerSocket ==
    \A j, k \in Slots :
        fds[j] \in Socks /\ fds[j] = fds[k] => j = k

SlotsAreOpen ==
    pc # "closed" => \A j \in Slots : fds[j] \in Socks => sk[fds[j]] = "open"

(* Compression leaves no closed slot among those poll is given.            *)
NoHoles == pc = "poll" => \A j \in Slots : j < nb => fds[j] # NoFd

(* compress_poll_socket_array reads poll_fds[current_nb_poll_socks], one   *)
(* past the slots in use: it stays inside the array, because a full table  *)
(* never leaves the accept loop.                                           *)
CompressInBounds ==
    /\ pc # "spin" => nb \in 2 .. MaxPoll - 1
    /\ pc \in Compressing => lastOk <= current /\ current < MaxPoll

(* A client that was polled in this turn is polled in the next one, unless *)
(* it was closed: neither the walk nor the compression loses it.           *)
Polled(s, n) == \E j \in Slots : j < n /\ fds[j] = s

StillPolled ==
    [][\A s \in Socks :
         Polled(s, nb) /\ Polled(s, current)
            => sk'[s] = "free" \/ Polled(s, nb)']_vars

(* Every step of the compression keeps the result PollTable promises, and  *)
(* what it leaves in the table is that result.                             *)
InUse == [j \in 0 .. nb - 1 |-> fds[j]]

CompressIsCompacted ==
    [][(pc \in Compressing) =>
         Compacted(fds, current)
            = IF pc' \in Compressing THEN Compacted(fds', current) ELSE InUse']_vars

-----------------------------------------------------------------------------
(* Liveness.  A pending connection is accepted, and what a client sends is *)
(* read, unless the loop ended, its accept loop spins on a full table, it  *)
(* is stuck in a read of stdin, or one client keeps sending so fast that   *)
(* recv never would block.  A hole, an error, the end of another client do *)
(* not hold them up.  The end of stdin does not hold up the listener; the  *)
(* clients, whose slots are behind it, are read no more: line 413 leaves   *)
(* the walk.  Nor is one that the compression dropped, see AllSocketsPolled*)
PendingAccepted ==
    /\ backlog > 0 ~> \/ backlog = 0
                      \/ pc \in {"spin", "closed"}
                      \/ [](pc = "stdin")
                      \/ [](pc = "read")
    /\ \A s \in Socks :
         inbox[s] > 0 ~> \/ inbox[s] = 0
                         \/ pc \in {"spin", "closed"}
                         \/ stdin # "up"
                         \/ pc = "poll" /\ ~Polled(s, nb)
                         \/ [](pc = "stdin")
                         \/ [](pc = "read")

(* An end of connection requested by anyone closes it, when the loop is    *)
(* not stuck as above and not asleep: poll has no timeout, so the request  *)
(* is only seen once some descriptor becomes readable.                     *)
EndIsSeen ==
    endConn ~> \/ pc \in {"spin", "closed"}
               \/ [](pc = "stdin")
               \/ [](pc = "read")
               \/ [](pc = "poll" /\ Marked(Readable \cup Broken) = {})

-----------------------------------------------------------------------------
(* What a comment of the loop says, and the code does not do: lines        *)
(* 596-597, "we put all the sockets back together side by side".           *)
AllSocketsPolled ==
    pc = "poll" => \A s \in Socks : sk[s] = "open" => Polled(s, nb)
=============================================================================
