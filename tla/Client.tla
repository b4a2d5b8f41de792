------------------------------- MODULE Client -------------------------------
(***************************************************************************)
(* The chat client, src/src/client.c (text) and src/src/client_ansi.c (raw *)
(* terminal), whose handlers are the same: the login dialogue, the files   *)
(* of connection codes, and the dynamic table msg_waiting_ack of the texts *)
(* that were sent and not acknowledged.                                    *)
(*                                                                         *)
(* Clients are processes; those of one directory share its code files.     *)
(* up[c] and down[c] are the two directions of the connection of c.        *)
(***************************************************************************)
EXTENDS Messages, Sequences, FiniteSets

CONSTANTS
    Clients,       \* client processes
    Dir,           \* the working directory of each of them
    Names,         \* the pseudos users ask for
    NoCode,        \* no file for this pseudo
    Texts,         \* what users type
    InitSlots,     \* the 10 slots of a new msg_waiting_ack
    RetrLimit,     \* the 5 of the server's "nb_retransmission > 5"
    MaxTries,      \* bound: connection requests of one process
    MaxSent        \* bound: messages of one process

ASSUME ClientAssumption ==
    /\ InitSlots \in Nat \ {0} /\ RetrLimit \in Nat
    /\ MaxTries \in Nat \ {0} /\ MaxSent \in Nat
    /\ NoCode # Blank /\ NoCode \notin Nat /\ Blank \notin Nat
    /\ Blank \notin Names /\ Blank \notin Texts
    /\ Dir \in [Clients -> {Dir[c] : c \in Clients}]

VARIABLES
    proc,       \* "off", "on" or "gone": the process
    pseudo,     \* cstate->pseudo
    connected,  \* cstate->connected
    waiting,    \* cstate->waiting_pseudo_confirmation
    slots,      \* cstate->msg_waiting_ack
    tot,        \* cstate->tot_msg_waiting_ack
    nb,         \* cstate->nb_msg_waiting_ack
    drawn,      \* codes drawn by the process, whose generator has no seed
    files,      \* pseudo_code_clients/<pseudo> of each directory
    up,         \* sent by the client, not read at the other end
    down        \* sent to the client, not read by it

login  == <<proc, pseudo, connected, waiting, drawn, files>>
table  == <<slots, tot, nb>>
cvars  == <<login, table, up, down>>

Dirs  == {Dir[c] : c \in Clients}
Codes == 1 .. MaxTries

(* What a grown slot holds in nb_retransmission: realloc does not say.     *)
Garbage == {0, RetrLimit + 1}

ConnectionMsgs == {ConnectionMsg(p, k) : p \in Names, k \in Codes}
StdMsgs == {StdMsg(i, p, t, r) : i \in 0 .. MaxSent, p \in Names, t \in Texts,
                                 r \in 0 .. RetrLimit + 1}
EmptySlots == {[EmptyMsg EXCEPT !.retr = r] : r \in Garbage}
Slot       == ConnectionMsgs \cup StdMsgs \cup EmptySlots

ClientTypeOK ==
    /\ proc \in [Clients -> {"off", "on", "gone"}]
    /\ pseudo \in [Clients -> Names \cup {Blank}]
    /\ connected \in [Clients -> BOOLEAN] /\ waiting \in [Clients -> BOOLEAN]
    /\ tot \in [Clients -> Nat] /\ nb \in [Clients -> Nat]
    /\ drawn \in [Clients -> 0 .. MaxTries]
    /\ \A c \in Clients : slots[c] \in [0 .. tot[c] - 1 -> Slot]
    /\ files \in [Dirs -> [Names -> Codes \cup {NoCode, Blank}]]
    /\ \A c \in Clients : up[c] \in Seq(ConnectionMsgs \cup StdMsgs)

(* init_client_state, before the process starts; the code files are those  *)
(* that earlier processes left.                                            *)
ClientInit ==
    /\ proc = [c \in Clients |-> "off"]
    /\ pseudo = [c \in Clients |-> Blank]
    /\ connected = [c \in Clients |-> FALSE]
    /\ waiting = [c \in Clients |-> FALSE]
    /\ slots = [c \in Clients |-> [i \in 0 .. InitSlots - 1 |-> EmptyMsg]]
    /\ tot = [c \in Clients |-> InitSlots]
    /\ nb = [c \in Clients |-> 0]
    /\ drawn = [c \in Clients |-> 0]
    /\ files \in [Dirs -> [Names -> Codes \cup {NoCode, Blank}]]
    /\ up = [c \in Clients |-> <<>>]
    /\ down = [c \in Clients |-> <<>>]

Send(c, m) == up' = [up EXCEPT ![c] = Append(@, m)]

Stop(c) ==
    /\ proc' = [proc EXCEPT ![c] = "gone"]
    /\ down' = [down EXCEPT ![c] = <<>>]

-----------------------------------------------------------------------------
(* tcp_connection_client_init                                              *)
Start(c) ==
    /\ proc[c] = "off"
    /\ proc' = [proc EXCEPT ![c] = "on"]
    /\ UNCHANGED <<pseudo, connected, waiting, drawn, files, table, up, down>>

(* The end of the process, by its user or by a crash.                      *)
Leave(c) ==
    /\ proc[c] = "on"
    /\ Stop(c)
    /\ UNCHANGED <<pseudo, connected, waiting, drawn, files, table, up>>

(* The prompt for a pseudo takes no line while an answer is waited for.    *)
Prompted(c) ==
    /\ proc[c] = "on" /\ pseudo[c] = Blank /\ ~waiting[c]
    /\ nb[c] < MaxTries

File(c, p) == files[Dir[c]][p]

(* The code of the file, or the next one of a generator that is never      *)
(* seeded: the n-th code drawn by a process is the same in all of them.    *)
CodeFor(c, p) == IF File(c, p) = NoCode THEN drawn[c] + 1 ELSE File(c, p)

(* The request, with whatever code the file holds: alone, a mutant of      *)
(* Login.                                                                  *)
RequestLogin(c, p) ==
    /\ Prompted(c)
    /\ pseudo' = [pseudo EXCEPT ![c] = p]
    /\ waiting' = [waiting EXCEPT ![c] = TRUE]
    /\ drawn' = [drawn EXCEPT ![c] = IF File(c, p) = NoCode THEN @ + 1 ELSE @]
    /\ files' = [files EXCEPT ![Dir[c]][p] = CodeFor(c, p)]
    /\ slots' = [slots EXCEPT ![c][0] = ConnectionMsg(p, CodeFor(c, p))]
    /\ nb' = [nb EXCEPT ![c] = @ + 1]
    /\ Send(c, ConnectionMsg(p, CodeFor(c, p)))
    /\ UNCHANGED <<proc, connected, tot, down>>

(* A file whose code is not of the right length is not used.               *)
Login(c, p) == File(c, p) # Blank /\ RequestLogin(c, p)

(* A crash between fopen(path_code_pseudo, "w") and fclose.                *)
CrashStoring(c, p) ==
    /\ Prompted(c) /\ File(c, p) = NoCode
    /\ files' = [files EXCEPT ![Dir[c]][p] = Blank]
    /\ Stop(c)
    /\ UNCHANGED <<pseudo, connected, waiting, drawn, table, up>>

(* "Error: code length error": the program exits on such a file.           *)
LoginBadFile(c, p) ==
    /\ Prompted(c) /\ File(c, p) = Blank
    /\ Stop(c)
    /\ UNCHANGED <<pseudo, connected, waiting, drawn, files, table, up>>

-----------------------------------------------------------------------------
(* client_send_message and find_next_msg_id                                *)

FreeIn(c) == {i \in 0 .. tot[c] - 1 : slots[c][i].type = "null"}

CanTalk(c) ==
    proc[c] = "on" /\ pseudo[c] # Blank /\ connected[c] /\ nb[c] < MaxSent

(* What a slot already holds in nb_retransmission stays there.             *)
Say(c, i, t) ==
    /\ CanTalk(c) /\ nb[c] # tot[c]
    /\ i \in FreeIn(c) /\ \A j \in FreeIn(c) : i <= j
    /\ slots' = [slots EXCEPT ![c][i] = StdMsg(i, pseudo[c], t, @.retr)]
    /\ nb' = [nb EXCEPT ![c] = @ + 1]
    /\ Send(c, slots'[c][i])
    /\ UNCHANGED <<login, tot, down>>

(* Mutant of SayGrowing: the text is not counted.                          *)
SayGrowingUncounted(c, t) ==
    /\ CanTalk(c) /\ nb[c] = tot[c]
    /\ tot' = [tot EXCEPT ![c] = 2 * @]
    /\ slots' = [slots EXCEPT ![c] =
                    [i \in 0 .. 2 * tot[c] - 1 |->
                        IF i < tot[c] THEN slots[c][i]
                        ELSE IF i = tot[c] THEN StdMsg(i, pseudo[c], t, 0)
                        ELSE EmptyMsg]]
    /\ Send(c, slots'[c][tot[c]])
    /\ UNCHANGED <<login, nb, down>>

(* The counter never goes down: as many texts as there are slots, be they  *)
(* acknowledged, and the table doubles.                                    *)
SayGrowing(c, t) ==
    /\ CanTalk(c) /\ nb[c] = tot[c]
    /\ tot' = [tot EXCEPT ![c] = 2 * @]
    /\ \E g \in [tot[c] .. 2 * tot[c] - 1 -> EmptySlots] :
         slots' = [slots EXCEPT ![c] =
             [i \in 0 .. 2 * tot[c] - 1 |->
                 IF i < tot[c] THEN slots[c][i]
                 ELSE IF i = tot[c] THEN StdMsg(i, pseudo[c], t, g[i].retr)
                 ELSE g[i]]]
    /\ nb' = [nb EXCEPT ![c] = @ + 1]
    /\ Send(c, slots'[c][tot[c]])
    /\ UNCHANGED <<login, down>>

(* "Erreur programme, panic!"                                              *)
Panics(c) == CanTalk(c) /\ nb[c] # tot[c] /\ FreeIn(c) = {}

Panic(c) ==
    /\ Panics(c)
    /\ Stop(c)
    /\ UNCHANGED <<pseudo, connected, waiting, drawn, files, table, up>>

-----------------------------------------------------------------------------
(* on_msg_client                                                           *)

Next1(c)     == IF proc[c] = "on" /\ down[c] # <<>> THEN {Head(down[c])} ELSE {}
Take(c)      == down' = [down EXCEPT ![c] = Tail(@)]
(* "Test bad ACK" is one off: when as many texts were sent as there are    *)
(* slots, what it reads may be past the end of the table, and looks like   *)
(* no message, or not: see ReadBeyond.                                     *)
Beyond(c, m) == m.id \in tot[c] .. nb[c]
BadAck(c, m) ==
    m.id \in 0 .. nb[c] /\ ~Beyond(c, m) => slots[c][m.id].type = "null"

(* The pseudo is taken: the code file goes, the user is asked again.  The  *)
(* server's errors carry no msg_id, so no slot is cleaned.                 *)
OnRefusal(c, m) ==
    /\ Take(c) /\ waiting[c] /\ m.type = "error"
    /\ files' = [files EXCEPT ![Dir[c]][pseudo[c]] = NoCode]
    /\ pseudo' = [pseudo EXCEPT ![c] = Blank]
    /\ waiting' = [waiting EXCEPT ![c] = FALSE]
    /\ UNCHANGED <<proc, connected, drawn, table, up>>

OnWelcome(c, m) ==
    /\ Take(c) /\ waiting[c] /\ m.type = "well_connected"
    /\ connected' = [connected EXCEPT ![c] = TRUE]
    /\ waiting' = [waiting EXCEPT ![c] = FALSE]
    /\ UNCHANGED <<proc, pseudo, drawn, files, table, up>>

Acked(c, m, type) ==
    Take(c) /\ ~waiting[c] /\ connected[c] /\ m.type = type /\ ~BadAck(c, m)

(* Mutants of OnNegativeAck: the client does not send again; it does not   *)
(* take the server's count.                                                *)
NegativeAckUnsent(c, m) ==
    /\ Acked(c, m, "ack_neg")
    /\ slots' = [slots EXCEPT ![c][m.id].retr = m.retr]
    /\ UNCHANGED <<login, tot, nb, up>>

NegativeAckUncounted(c, m) ==
    /\ Acked(c, m, "ack_neg")
    /\ Send(c, slots[c][m.id])
    /\ UNCHANGED <<login, table>>

OnNegativeAck(c, m) ==
    /\ Acked(c, m, "ack_neg")
    /\ slots' = [slots EXCEPT ![c][m.id].retr = m.retr]
    /\ Send(c, slots'[c][m.id])
    /\ UNCHANGED <<login, tot, nb>>

OnPositiveAck(c, m) ==
    /\ Acked(c, m, "ack_pos")
    /\ slots' = [slots EXCEPT ![c][m.id] = EmptyMsg]
    /\ UNCHANGED <<login, tot, nb, up>>

(* Everything else changes at most what the terminal shows.                *)
OnOther(c, m) ==
    /\ Take(c)
    /\ IF waiting[c] THEN m.type \notin {"error", "well_connected"}
       ELSE ~connected[c] \/ m.type \notin {"ack_neg", "ack_pos"} \/ BadAck(c, m)
    /\ UNCHANGED <<login, table, up>>

OnMsg(c) ==
    \E m \in Next1(c) :
        \/ OnRefusal(c, m)
        \/ OnWelcome(c, m)
        \/ OnNegativeAck(c, m)
        \/ OnPositiveAck(c, m)
        \/ OnOther(c, m)

(* The memory past the table is taken for a text, and written or sent: the *)
(* process ends.  Only an acknowledgement of what somebody else said       *)
(* leads there, and the other end of this module sends none: see NyanChat. *)
ReadBeyond(c) ==
    /\ ~waiting[c] /\ connected[c]
    /\ \E m \in Next1(c) : m.type \in {"ack_neg", "ack_pos"} /\ Beyond(c, m)
    /\ Stop(c)
    /\ UNCHANGED <<pseudo, connected, waiting, drawn, files, table, up>>

Speak(c, t) == SayGrowing(c, t) \/ \E i \in 0 .. tot[c] - 1 : Say(c, i, t)

User(c) ==
    \/ Start(c)
    \/ Leave(c)
    \/ \E p \in Names : Login(c, p) \/ CrashStoring(c, p) \/ LoginBadFile(c, p)
    \/ \E t \in Texts : Speak(c, t)
    \/ Panic(c)

-----------------------------------------------------------------------------
(* The other end, as far as one client sees it: a request is welcomed,     *)
(* refused, or forgotten; a text is acknowledged and copied back, or asked *)
(* for again as long as the limit allows; copies of the texts of others    *)
(* come at any time.                                                       *)
Answer(c, msgs) ==
    /\ up' = [up EXCEPT ![c] = Tail(@)]
    /\ down' = [down EXCEPT ![c] = IF proc[c] = "on" THEN @ \o msgs ELSE @]
    /\ UNCHANGED <<login, table>>

AnswerLogin(c, m) ==
    /\ m.type = "connection"
    /\ \E msgs \in {<<WellConnected(m)>>, <<ErrorMsg(m)>>, <<>>} : Answer(c, msgs)

Acknowledge(c, m) ==
    /\ m.type = "std"
    /\ Answer(c, <<PositiveAck(m), ServerClientMsg(m, m.sock)>>)

AskAgain(c, m) ==
    /\ m.type = "std" /\ m.retr <= RetrLimit
    /\ Answer(c, <<NegativeAck(m)>>)

Service(c) ==
    \E m \in (IF up[c] = <<>> THEN {} ELSE {Head(up[c])}) :
        AnswerLogin(c, m) \/ Acknowledge(c, m) \/ AskAgain(c, m)

Chatter(c) ==
    /\ proc[c] = "on" /\ down[c] = <<>>
    /\ down' = [down EXCEPT ![c] = <<ServerClientMsg([EmptyMsg EXCEPT !.len = 1], -1)>>]
    /\ UNCHANGED <<login, table, up>>

ClientNext ==
    \E c \in Clients :
        User(c) \/ OnMsg(c) \/ Service(c) \/ Chatter(c)

(* The loop of a client reads whatever comes; so does the other end.       *)
ClientSpec ==
    /\ ClientInit /\ [][ClientNext]_cvars
    /\ \A c \in Clients : WF_cvars(OnMsg(c)) /\ WF_cvars(Service(c))

-----------------------------------------------------------------------------
(* A text that was typed is on its way, to the server or as an answer to   *)
(* it, exactly once, as long as its slot is taken: no answer frees a slot  *)
(* that was given to a later text, none finds its slot free, what is sent  *)
(* again is what was typed, and the counts of retransmissions agree.       *)
TextsUp(c, i)  == {k \in DOMAIN up[c] : up[c][k].type = "std" /\ up[c][k].id = i}
AcksDown(c, i) == {k \in DOMAIN down[c] :
                     down[c][k].type \in {"ack_pos", "ack_neg"} /\ down[c][k].id = i}

TextsOnTheirWay ==
    \A c \in Clients : proc[c] = "on" =>
        /\ \A i \in 0 .. tot[c] - 1 :
             /\ Cardinality(TextsUp(c, i)) + Cardinality(AcksDown(c, i))
                  = IF slots[c][i].type = "std" THEN 1 ELSE 0
             /\ \A k \in TextsUp(c, i) : up[c][k] = slots[c][i]
             /\ \A k \in AcksDown(c, i) : down[c][k].retr =
                  slots[c][i].retr + IF down[c][k].type = "ack_neg" THEN 1 ELSE 0
        /\ \A i \in tot[c] .. MaxSent : TextsUp(c, i) \cup AcksDown(c, i) = {}

(* The counter is never less than the slots taken, and a table that has    *)
(* grown once keeps growing before it is full: only more refused logins    *)
(* than the first table has slots can bring find_next_msg_id to a table    *)
(* without room.                                                           *)
RoomForTexts ==
    \A c \in Clients :
        /\ Cardinality(0 .. tot[c] - 1 \ FreeIn(c)) <= nb[c]
        /\ nb[c] <= tot[c] \/ tot[c] = InitSlots

(* However often the server asks again, every text is acknowledged, as     *)
(* long as the client runs.                                                *)
Awaited(c, i) == i < tot[c] /\ slots[c][i].type = "std"

TextsAcknowledged ==
    \A c \in Clients, i \in 0 .. MaxSent :
        Awaited(c, i) ~> proc[c] = "gone" \/ ~Awaited(c, i)
=============================================================================
