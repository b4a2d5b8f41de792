------------------------------- MODULE Server -------------------------------
(***************************************************************************)
(* The chat server, src/src/server.c: on_msg_received, one action per      *)
(* outcome, over the table of clients, the pseudo -> slot hashmap and the  *)
(* directory of stored connection codes, which alone survives a crash.     *)
(* It talks to one proxy, over one connection: sin brings its messages,    *)
(* sout takes the answers.                                                 *)
(***************************************************************************)
EXTENDS Messages, Sequences

CONSTANTS
    Pseudos,       \* the names clients ask for
    ShortPseudos,  \* those of fewer than MIN_NAME_LENGTH characters
    Codes,         \* connection codes
    NoCode,        \* no code file for this pseudo
    Null,          \* the NULL pointer
    MaxClients,    \* NB_MAX_CONNECTED_CLIENTS
    Timeout,       \* TIMEOUT_INACTIVE
    RetrLimit,     \* the 5 of "nb_retransmission > 5"
    Verdicts,      \* what code_correct_error may answer
    Texts,         \* texts clients send
    ProxySlots,    \* slots of the proxy's poll table
    MaxTime        \* bound: the clock stops there

ASSUME ServerAssumption ==
    /\ ShortPseudos \subseteq Pseudos
    /\ Blank \notin Pseudos /\ Blank \notin Codes
    /\ NoCode \notin Codes /\ NoCode # Blank
    /\ MaxClients \in Nat \ {0} /\ MaxTime \in Nat
    /\ Timeout \in Nat \ {0} /\ RetrLimit \in Nat
    /\ Verdicts \subseteq {"corrected", "uncorrected"} /\ ProxySlots \subseteq Nat

VARIABLES
    clients,  \* sstate->clients
    index,    \* sstate->hm_pseudo_to_id, -1 when the pseudo has no entry
    stored,   \* pseudo_code_server/<pseudo>
    now,      \* time(NULL)
    sin,      \* messages on their way from the proxy
    sout      \* messages sent to the proxy

state == <<clients, index, stored>>
vars  == <<state, now, sin, sout>>

CSlots == 0 .. MaxClients - 1

(* Client; connected is FALSE only inside the handler that creates it.     *)
ClientRec == [pseudo : Pseudos, last : 0 .. MaxTime, sock : Int]

ASSUME NullAssumption == Null \notin ClientRec

(* What the clients may ask: a session, or to pass on a text.              *)
Requests ==
    {[ConnectionMsg(p, c) EXCEPT !.sock = s] :
        p \in Pseudos, c \in Codes, s \in ProxySlots}
    \cup {[StdMsg(1, p, t, r) EXCEPT !.sock = s] :
            p \in Pseudos, t \in Texts, r \in 0 .. RetrLimit + 1, s \in ProxySlots}

TypeOK ==
    /\ clients \in [CSlots -> ClientRec \cup {Null}]
    /\ index \in [Pseudos -> CSlots \cup {-1}]
    /\ stored \in [Pseudos -> Codes \cup {NoCode, Blank}]
    /\ now \in 0 .. MaxTime
    /\ sin \in Seq(Requests)

(* init_server_state: the directory of codes is kept from the last run.    *)
Init ==
    /\ clients = [i \in CSlots |-> Null]
    /\ index = [p \in Pseudos |-> -1]
    /\ stored = [p \in Pseudos |-> NoCode]
    /\ now = 0 /\ sin = <<>> /\ sout = <<>>

-----------------------------------------------------------------------------
(* The look-up both branches start with: the client of a pseudo, and the   *)
(* map without an entry that points to nothing.                            *)
Found(p)   == IF index[p] = -1 THEN Null ELSE clients[index[p]]
Cleaned(p) == IF Found(p) = Null THEN [index EXCEPT ![p] = -1] ELSE index

FreeSlots == {i \in CSlots : clients[i] = Null}

(* Mutant of KeyAccepted: the code is not compared.                        *)
AnyKeyAccepted(m) == m.body # NoCode

(* No file, or a file with the code that was sent.                         *)
KeyAccepted(m) == stored[m.src] \in {NoCode, m.body}

(* Mutants of StillActive: the time-out is one second short; any session   *)
(* may be taken over.                                                      *)
StillActiveShort(m) ==
    /\ stored[m.src] # NoCode /\ Found(m.src) # Null
    /\ now - Found(m.src).last < Timeout - 1

NeverActive(m) == m.src \notin Pseudos

StillActive(m) ==
    /\ stored[m.src] # NoCode
    /\ Found(m.src) # Null
    /\ now - Found(m.src).last < Timeout

Incoming     == IF sin = <<>> THEN {} ELSE {Head(sin)}
Receive      == sin' = Tail(sin)
Answer(msgs) == sout' = sout \o msgs

-----------------------------------------------------------------------------
(* on_msg_received, the guard on the length of the pseudo.                 *)
IgnoreShort(m) ==
    /\ Receive /\ m.src \in ShortPseudos
    /\ UNCHANGED <<state, now, sout>>

Connection(m) ==
    Receive /\ m.src \notin ShortPseudos /\ m.type = "connection"

(* ERROR_MSG_CON_DIFF_KEYS, ERROR_MSG_STILL_ACTIVE_CLIENT and              *)
(* ERROR_ALREADY_MAX_CLIENTS, in the order in which they are looked for.   *)
Refused(m) ==
    \/ ~KeyAccepted(m)
    \/ StillActive(m)
    \/ Found(m.src) = Null /\ FreeSlots = {}

Refuse(m) ==
    /\ Connection(m) /\ Refused(m)
    /\ index' = Cleaned(m.src)
    /\ Answer(<<ErrorMsg(m)>>)
    /\ UNCHANGED <<clients, stored, now>>

(* The pseudo has a client: its session moves to the new connection.       *)
TakeOver(m) ==
    /\ Connection(m) /\ ~Refused(m) /\ Found(m.src) # Null
    /\ clients' = [clients EXCEPT ![index[m.src]] =
                      [pseudo |-> @.pseudo, last |-> now, sock |-> m.sock]]
    /\ stored' = [stored EXCEPT ![m.src] = m.body]
    /\ Answer(<<WellConnected(m)>>)
    /\ UNCHANGED <<index, now>>

(* Mutants of Register: the entry of the hashmap is one off, or forgotten; *)
(* the code is not stored.                                                 *)
RegisterAs(m, i, entry, code) ==
    /\ Connection(m) /\ ~Refused(m) /\ Found(m.src) = Null
    /\ i \in FreeSlots /\ \A j \in FreeSlots : i <= j
    /\ clients' = [clients EXCEPT ![i] = [pseudo |-> m.src, last |-> now,
                                          sock |-> m.sock]]
    /\ index' = [index EXCEPT ![m.src] = entry]
    /\ stored' = [stored EXCEPT ![m.src] = code]
    /\ Answer(<<WellConnected(m)>>)
    /\ UNCHANGED now

RegisterNext(m, i)     == RegisterAs(m, i, i + 1, m.body)
RegisterUnfound(m, i)  == RegisterAs(m, i, -1, m.body)
RegisterUnstored(m, i) == RegisterAs(m, i, i, stored[m.src])

(* It has none: the first empty case of the table is for it.               *)
Register(m, i) ==
    /\ Connection(m) /\ ~Refused(m) /\ Found(m.src) = Null
    /\ i \in FreeSlots /\ \A j \in FreeSlots : i <= j
    /\ clients' = [clients EXCEPT ![i] = [pseudo |-> m.src, last |-> now,
                                          sock |-> m.sock]]
    /\ index' = [index EXCEPT ![m.src] = i]
    /\ stored' = [stored EXCEPT ![m.src] = m.body]
    /\ Answer(<<WellConnected(m)>>)
    /\ UNCHANGED now

(* Mutant of Copy: the place in the table is taken for the proxy's slot.   *)
CopyToPlace(m, i) == IF clients[i] = Null THEN <<>> ELSE <<ServerClientMsg(m, i)>>

(* One copy for each client, in the order of the table, to the slot of the *)
(* proxy its session was opened from.                                      *)
Copy(m, i) == IF clients[i] = Null THEN <<>>
              ELSE <<ServerClientMsg(m, clients[i].sock)>>

Broadcast(m) ==
    LET upTo[n \in 0 .. MaxClients] ==
            IF n = 0 THEN <<>> ELSE upTo[n - 1] \o Copy(m, n - 1)
    IN  upTo[MaxClients]

Std(m) == Receive /\ m.src \notin ShortPseudos /\ m.type = "std"

(* The client that was looked up is not used: anybody may talk.            *)
Deliver(m) ==
    /\ Std(m) /\ ("corrected" \in Verdicts \/ m.retr > RetrLimit)
    /\ index' = Cleaned(m.src)
    /\ Answer(<<PositiveAck(m)>> \o Broadcast(m))
    /\ UNCHANGED <<clients, stored, now>>

AskAgain(m) ==
    /\ Std(m) /\ "uncorrected" \in Verdicts /\ m.retr <= RetrLimit
    /\ index' = Cleaned(m.src)
    /\ Answer(<<NegativeAck(m)>>)
    /\ UNCHANGED <<clients, stored, now>>

OnMsgReceived(m) ==
    \/ IgnoreShort(m)
    \/ Refuse(m)
    \/ TakeOver(m)
    \/ \E i \in CSlots : Register(m, i)
    \/ Deliver(m)
    \/ AskAgain(m)

-----------------------------------------------------------------------------
(* A crash and a restart: memory and connection are lost, files are not.   *)
Forget ==
    /\ clients' = [i \in CSlots |-> Null]
    /\ index' = [p \in Pseudos |-> -1]
    /\ sin' = <<>> /\ sout' = <<>>

Crash ==
    /\ Forget
    /\ UNCHANGED <<stored, now>>

(* The same between fopen(path_key, "w") and fclose: the file is empty.    *)
CrashStoring(m) ==
    /\ m.src \notin ShortPseudos /\ m.type = "connection" /\ ~Refused(m)
    /\ Forget
    /\ stored' = [stored EXCEPT ![m.src] = Blank]
    /\ UNCHANGED now

Tick ==
    /\ now < MaxTime
    /\ now' = now + 1
    /\ UNCHANGED <<state, sin, sout>>

Step ==
    \/ \E m \in Incoming : OnMsgReceived(m) \/ CrashStoring(m)
    \/ Crash
    \/ Tick

-----------------------------------------------------------------------------
(* The proxy, as far as the server knows it: it hands over any request of  *)
(* any client, one at a time, and takes the answers.                       *)
Request(m) ==
    /\ sin = <<>> /\ sin' = <<m>>
    /\ sout' = <<>>
    /\ UNCHANGED <<state, now>>

Next == Step \/ \E m \in Requests : Request(m)

Spec == Init /\ [][Next]_vars

-----------------------------------------------------------------------------
(* The table and the hashmap describe the same sessions: every client is   *)
(* found under its pseudo and every entry leads to a client of that name.  *)
(* A pseudo has one session at most, and the branches that clean a bad     *)
(* entry are never needed.                                                 *)
IndexMatches ==
    /\ \A p \in Pseudos :
         index[p] # -1 => clients[index[p]] # Null /\ clients[index[p]].pseudo = p
    /\ \A i \in CSlots : clients[i] # Null => index[clients[i].pseudo] = i

(* Every session is backed by a code on disk, also after crashes: nobody   *)
(* but the holder of the code can ask for it again.                        *)
SessionHasCode ==
    \A i \in CSlots : clients[i] # Null => stored[clients[i].pseudo] \in Codes

(* The code of a pseudo is never replaced, by no sequence of connections,  *)
(* refusals, expiries and crashes.  A crash may find its file empty, since *)
(* fopen(path_key, "w") at server.c:265 is called for a code that is stored*)
(* already; then the holder of the code was connecting.  Nobody else's     *)
(* request can cost a pseudo its code.                                     *)
CodeIsForever ==
    [][\A p \in Pseudos : stored[p] # NoCode =>
         \/ stored'[p] = stored[p]
         \/ /\ stored'[p] = Blank
            /\ \E m \in Incoming : /\ m.src = p /\ m.type = "connection"
                                   /\ m.body = stored[p]]_vars

(* A session only moves to another connection once it is TIMEOUT_INACTIVE  *)
(* old, and keeps its pseudo: the way from a refused key, an expiry or a   *)
(* full table to the session of somebody else is closed.                   *)
SessionKeptUntilTimeout ==
    [][\A i \in CSlots :
         clients[i] # Null /\ clients'[i] # Null /\ clients'[i] # clients[i]
            => /\ clients'[i].pseudo = clients[i].pseudo
               /\ now - clients[i].last >= Timeout]_vars
=============================================================================
