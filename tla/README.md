# A verification project for NyanChat

NyanChat is a chat program in C: clients talk to a server through a proxy that may
damage what it passes on. This directory models its protocol, its event loop, the
threads of the proxy, the terminal side of the raw client and its libraries in TLA+,
checks the models with TLC on small instances, and proves with TLAPS, for all instances,
the safety of the event loop, of the server, of the client's protocol, of the proxy's
threads, of the hashmap, of the raw client's line and cursor, and of all of them
together as long as nobody leaves; and, whoever leaves, that all of them together
implement one conversation. File and line numbers are those of `src/`.

## 1. The system

| Part | State | Operations | Talks to |
|---|---|---|---|
| Event loop (`tcp_connection.c`) | `poll_fds`, `nb_poll_fds`, `need_compress_poll_arr`, `end_connection` | init, poll, accept, read, stdin, compress, close, send | kernel; calls `on_msg` and `on_stdin` |
| Server (`server.c`) | table of clients, hashmap pseudo -> slot, directory `pseudo_code_server/` | `on_msg_received`: connection, text; `/quit` | one proxy, over one connection |
| Proxy (`proxy.c`) | two connections, one thread each; the poll table of the clients' side | `on_client_received`, `on_server_received`, start and end of the threads | the server; all clients |
| Client (`client.c`, `client_ansi.c`) | pseudo, connected, waiting, `msg_waiting_ack`, directory `pseudo_code_clients/` | login, send, `on_msg_client` | the proxy; the terminal |
| Input line and history (`client_ansi.c`, keys in `tcp_connection.c`) | typed line and cursor, received messages and cursor | keys, arrival of a text, layout of both panels | the client's protocol; the terminal |
| Hashmap (`hashmap.c`) | items, size, count | find, get, insert, increase, remove, resize | the server |
| Error code (`code_errors.c`, `bits.c`) | the array of syndromes | control bits, errors, correction | the proxy and the server |
| Terminal, utilities | - | libraries | called by the above |

A text goes client -> proxy (which stamps the number of the sender's slot in its
poll table on it) -> server, which acknowledges it and sends one copy per
session, each with the slot number the session was opened from -> proxy, which
sends to the descriptor in that slot -> clients. So a session of the server is
tied to a *slot number* of the proxy, while the proxy moves descriptors between
slots when clients leave: this is where most of what is hard in NyanChat is.

What is hard, and what makes each part correct:

* **Event loop**: a walk over a table that grows (accept) and gets holes (close)
  while it is walked, then is compressed with indices taken before; everything
  else in the thread waits for a full accept loop, a blocking read, an endless
  sender. Correct when the table always holds the listener, stdin and each open
  client once, `poll` gets no holes, nobody is lost, and pending work gets done.
* **Server**: pseudo, code, time-out, free slots and crashes decide together who
  gets a session. Correct when table, hashmap and code files agree, and neither
  a code nor a session passes to somebody else.
* **Client**: texts sent again on a negative acknowledgement, slots reused, a
  table that grows by a counter that never goes down. Correct when each text is
  on its way exactly once until acknowledged, and is acknowledged.
* **Proxy and system**: two threads on one table, one terminal and one space of
  descriptors, slot numbers that get stale, messages dropped for being empty.
  Correct when answers reach who asked, everybody sees one order, one client
  cannot disturb the others, and the end of one side ends the other.
* **Input line and history**: bytes that come late or early, loops that shift an
  array, indices at both ends, a layout that walks up and down over heights.
  Correct when keys do what a line editor does and the cursor is seen.
* **Hashmap and error code**: Correct when find, insert and remove are those of a
  map; when encoding, check and correction are one code, and no error passes as
  corrected.

`PROJECT.json` lists every hazard with its line and the properties about it, or why
there is none.

## 2. Modules

| Module | Models | Lines |
|---|---|---|
| `PollTable` | the result of `compress_poll_socket_array`, without its loop | 20 |
| `TcpConnection` | the event loop of a listening connection and its environment | 510 |
| `TcpConnectionProofs` | theorems about it | 600 |
| `DataProofs` | lemmas about `Compacted` and the turns of its loop, counts in queues, free slots, numbers | 840 |
| `Messages` | `struct Message` and the functions that build messages | 45 |
| `Server` | `server.c` | 270 |
| `ServerProofs` | theorems about it | 365 |
| `Client` | the protocol of `client.c` and `client_ansi.c` | 355 |
| `ClientProofs` | theorems about `Client` | 1720 |
| `NyanChat` | the handlers of `proxy.c`, and clients, proxy and server together | 295 |
| `NyanChatProofs` | theorems about `NyanChat` | 3720 |
| `ChatProofs` | theorems about `NyanChat` as an implementation of `Chat` | 3050 |
| `Chat` | the abstract specification: one conversation | 47 |
| `Proxy` | main and the two threads of `proxy.c`, with their descriptors | 450 |
| `ProxyProofs` | theorems about `Proxy` | 810 |
| `InputLine` | keys and typed line of the raw client | 265 |
| `History` | received messages of the raw client and the panel that shows them | 155 |
| `Hashmap` | `hashmap.c` | 185 |
| `LibraryProofs` | theorems about `InputLine`, `History` and `Hashmap` | 3660 |
| `CodeErrors` | `code_errors.c` | 200 |
| `MC...` | instances for TLC | - |

`NyanChat` instantiates `Client` and `Server` and joins them by the proxy's poll
table; its variables are the clients' and the server's, plus the proxy's. The
server's only environment, `Request`, and the client's, `Service` and `Chatter`,
are replaced there by the proxy and by each other. `Proxy` refines what
`NyanChat` has as `OnServerReceived`, `OnClientReceived` and `ended`: it has
descriptors, threads and ends, and counts messages instead of telling them apart.
`InputLine` extends `History`: the keys that move the cursor there are decoded
here. Operators named like the
functions they model; operators that follow a comment "Mutant of" are wrong on
purpose and are not reachable from any specification: each property has one, with
which TLC finds it violated.

### TcpConnection

`pc` says where the thread is: in `poll`, in the walk over the slots, in the
accept loop, in `read_poll_socket`, in a read of stdin, in the two loops of the
compression, after the main loop, closed, or spinning in the accept loop.
Between any two steps the environment may connect, send, leave, reset, type,
close stdin, or set `end_connection` as a failed `send` and the proxy's other
thread do. `sk` is the kernel's view of a descriptor, so that a closed one may be
returned by `accept` again. Descriptor 0 is one value, `StdinFd`, because the code
cannot tell it from the 0 that `memset` leaves in an unused slot; slots that were
never used hold it. One message is one `recv`.

### Server

One action per outcome of `on_msg_received`: `IgnoreShort`, `Refuse`,
`TakeOver`, `Register`, `Deliver`, `AskAgain`. The hashmap is a function to slots
or -1. `Crash` restarts the server with the code files only; `CrashStoring` is a
crash between `fopen` and `fclose` of a code file. `Client.connected` is not a
variable: it is FALSE only inside the handler that creates the record. The
verdict of `code_correct_error` is a choice from `Verdicts`: in the current build
the array of syndromes is not filled (`server.c:387`) and it is always
"corrected"; the handler is checked with both.

### Client

`slots[c]` is `msg_waiting_ack` with its length `tot[c]` and counter `nb[c]`;
`up[c]` and `down[c]` are the two directions of the connection. Code files are
shared by the processes of one directory and are there before they start.
`drawn[c]` counts the codes a process drew: the generator is never seeded, so
the n-th code is the same in all processes. A slot added by `realloc` holds any
of two counts of retransmissions, under and over the server's limit. The comparison
under "Test bad ACK" is one off: an answer with an id that equals the number of
texts ever sent may be looked up behind the table. What is there looks like no
message (`BadAck`), or is written to or sent, and the process ends
(`ReadBeyond`); only the answer to what somebody else said carries such an id.

### NyanChat

One action is one turn of one of the proxy's loops for one descriptor. The
compression is one step after the close, by `PollTable!Compacted`; that the loop
computes this is the property `CompressIsCompacted` of `TcpConnection`. A client
that leaves closes its connection, which is reset instead if something was
unread or is sent to it later: a reset ends the proxy's loop, for all.

`Chat` is what this promises: one order of the texts, in which everybody reads;
as long as nobody has left each text once and without a gap. After a departure
even that each text comes once is too much to promise: the compression may move a
client into the slot of one that left, to which the server still has a session, so
that it gets the copies of two sessions. `OneConversation` is `Chat!Spec` under
the refinement mapping that takes `log`, the order in which the server took the
texts, `shown`, what each client has shown, `place`, the place in `log` of the last
text it has shown, and `NobodyLeft`. These variables only observe, and so do
`soutAt` and `downAt`: they go along with the queues from the server and to each
client, and say for a copy of a text its place in `log`. No guard reads them.
An empty text ends at the proxy, which is part of `TextsOnTheirWay`: its slot
waits for ever.

### Proxy

`spc` and `cpc` say where the two threads are. Descriptors are numbers and `kind` is the
kernel's view of them: `socket` and `accept` give the lowest that is free, so that a
number which was closed too early, or is closed twice, may be somebody else's. `SLeft`
and `SForget` are the two steps of a close in `read_poll_socket`, between which the
other thread may accept; the compression of the server's side then puts the 0 of an
unused slot into slot 0. In a turn in which the server's socket was served, its end of
file included, the terminal in slot 1 may be read too (`SServed`, `lastline`); the
clients' side serves one descriptor in a turn. What is sent to a descriptor fails,
succeeds or, by SIGPIPE, ends the process, according to what it is. A system call in a
`CHK` macro that fails ends the process, and `tcp_connection_close` on a number that is
free is such a call. `sem_wait` comes before the thread of the clients' side exists:
`RelayedToServer` shows what for.

### InputLine and History

One turn of the main loop takes the bytes that wait on the terminal, a special
byte and up to three behind it; what is not there within 100 ms leaves its byte
of `seq` as it was, which is what makes a lone Enter a Home key after `ESC O H`.
The line is the first `input_length` bytes of `input`; the loops of backspace,
delete and insertion are functions of the index, in their order.
`KeysDoWhatTheySay` compares with `RemoveAt` and `InsertAt`, for keys that come
while no `O` or `?` is left in `seq[0]`. A character before the end of the line is a
case of its own, since the insertion at `client_ansi.c:950` copies upwards: it is
inserted and what is left of it stays (`MidLine`, `Repeated`), but what is right of
it becomes copies of one byte. The line is cleared by `Welcome`, which
may come between any two keys, and only then texts come; `connected` is for this.

`History` has a message as its length. `LeftPanel` computes `y_0` and the two ids
of `display_left_panel` in its three cases, `Rows` what `print_message` prints.
`CursorIsShown` speaks of the sizes of terminals that the program asks for; in
narrower ones `display_client` prints an error and draws the panel all the same,
and the comparison of a row with `panel_width` (lines 280 and 332) hides the
message under the cursor.

### Hashmap and CodeErrors

`Put` is the loop of `hashmap_insert`, with the index and the first key that were
read before the resize; an insertion that never ends sets `stuck`. The map its
callers mean is an observation, `map`. An insertion that makes the table grow
leaves it with keys that `hashmap_find` does not find (`GrowthLosesOne` bounds
the loss). The server's table has 512 cases for at most 196 sessions, and what it
would remove, an entry that points to no session, `IndexMatches` excludes: neither
this nor `stuck` happens there.

A word is the set of its exponents, addition the symmetric difference.
`create_syndrome_array` may be called at any time or never: `server.c:387` has
the call in a comment, and `add_control_bits` is called by nobody, so that in the
current build every text is "corrected" to what came, although `README.md:79`
has "The server will be able to detect and correct errors as best as possible".
`CorrectedOrTold` and `InformationRestored` show what the code does with the
array filled: up to two errors in a word are corrected or told. With three a word
may be corrected to a wrong one, and a single error in the control bits is told
but changes the text; `DETECTION` of three is for a receiver that does not
correct (`Detects`).

## 3. Runs

| Run | Question | Result |
|---|---|---|
| `TcpSafety` | Does the table stay consistent, and does the compression compute what it should? | holds |
| `TcpLiveness` | Are pending connections accepted, what clients send read, and ends seen? | holds, but for named situations |
| `TcpDropped` | Does the compression put *all* sockets together (`tcp_connection.c:597`)? | violated |
| `Server` | Do table, hashmap and files agree, and are codes and sessions kept? | holds |
| `Client` | Is each text on its way exactly once, has it room, is it acknowledged? | holds |
| `NyanChat` | Acknowledgements, sessions and independence, through the proxy; does it implement `Chat`? | holds |
| `NyanRefused` | Is a refused client told (`server.c:184-185`)? | violated |
| `NyanDeparture` | Is what the proxy sends to a client's socket (`proxy.c:134`)? | violated |
| `Proxy` | Do the two threads keep apart what they share, is one of them always able to run, is the end of the server seen? | holds, but for three named ways to sleep |
| `ProxyCut` | Are the clients cut when the server is (`proxy.c:165-166`)? | violated |
| `Libraries` | Hashmap, code, line, keys, cursor and panel against their references | holds |
| `PanelFirst` | Are the three variables of the panel initialised (`client_ansi.c:342`)? | violated |

Four conditions in properties are worth reading. `StillPolled` speaks of a client that
was *polled*: those accepted in the current turn may be lost (`TcpDropped`).
`TextsOnTheirWay`, `WelcomeIsTrue` and `OpenWhileAllStay` of `NyanChat` hold as long as
nobody leaves: after a departure slots hold others (`NyanDeparture`). `PendingAccepted`
has that what a client sends is read, unless stdin is at its end: line 413 then leaves
the walk at slot 1, before the clients. `WelcomeIsTrue` allows for a take-over after the
time-out by a client that holds the same code, which the unseeded generator gives to two
processes of different directories.

Other disagreements with comments, seen in the models and left without a run:
after the first departure `nb_poll_fds` counts a slot that holds no open socket
("Updating the number of still opened sockets", `tcp_connection.c:263`; `FixedSlots`,
`NoHoles` and `CompressIsCompacted` say what the table holds then). A session is
taken over 30 s after its connection however much its client talks ("inactive
for a certain period of time", `server.c:196-197`): `last_activity` is written at
connections only, as `Deliver` shows. A text in a slot that `realloc` has added
goes out with the count of retransmissions the memory held (`SayGrowing`).

### Bounds

| Bound | Value | Why it is enough |
|---|---|---|
| `MaxPoll`, `Socks` | 6 and 3 | three clients and both fixed slots leave one slot: phantom, hole, and move of a descriptor all occur; repeated departures fill the table (`spin`), and `accept` fails when all three descriptors are open |
| `MaxBacklog`, `MaxInbox`, `MaxLines` | 1 | the loop tells "something" from "nothing" only; the backlog refills between two accepts, so several are accepted in one turn |
| `TcpLiveness` | 4 slots, 2 descriptors | smallest table that fills, after one departure too |
| `Server`: pseudos, codes, clients, time | 3 and a short one, 2, 2, 3 | one pseudo more than the table has room for; two codes so that keys differ; the clock passes the time-out of 2 |
| `Client`: `InitSlots`, `MaxSent`, `MaxTries` | 1, 4, 2 | the table doubles twice; two refused logins put the counter past the first table, which leads to the panic branch |
| `RetrLimit` | 1 | the count passes the limit after two negative acknowledgements |
| `NyanChat`: clients, slots, time | 3, 6, 1 | with two clients the compression has only the phantom slot to move; with three it moves a client into the slot of another one, with a session and copies on their way |
| `NyanChat`: `Leavers`, `Talkers`, `Guests` | 2, 1, 1 of them | who may leave, who may say more than one text (and an empty one), who only listens and takes a slot: two departures, with texts of a third on their way, is what it takes for a slot to be somebody else's twice |
| `NyanRefused`, `NyanDeparture` | 2 clients | the shortest counterexamples need no more |
| `Proxy`: `Conns`, `MaxFd`, `MaxLines` | 2, 5, 1 | two clients besides listener, server and terminal: a client may get the number another one or the server's side has just closed; one line wakes both threads |
| `Libraries`, hashmap | 4 keys, 3 hash functions, up to 8 cases, values to 2 | all keys collide, or two pairs, or two keys that a larger table tells apart; the table grows from 4 and shrinks to 2 |
| `Libraries`, code | 2 texts' words, 3 flips, or any of the 8 bits of one word's information | the invariant over all words is checked once; three changed bits in one word or two, one more than is corrected or told; all errors of the information, the last of which the loop of `create_syndrome_array` leaves out (`Filled`) |
| `Libraries`, line | `MaxMsg` 4, one key typed ahead, panels of 1 and 2 columns | a full line, a cursor at both ends and in the middle, a window in all its four cases; Down before the first text |
| `Libraries`, history | 5 messages of 1, 150 or 450 characters, three panels | texts of one row to thirteen in panels of 46 and 71 rows: all three cases of the layout, with and without messages that do not fit |

The four libraries share nothing: the variable `library` says which of them runs,
so that their state spaces are added.

Symmetry is used in runs without liveness only, over sets whose members no action
tells apart. Runs do not check deadlock: a closed loop, clients that are gone
and a clock at its bound are ends of the real system.

### Fairness

* `TcpConnection`: `WF(Loop)`. The thread runs whenever `poll`, `accept`, `recv`
  or `read` lets it; remote peers and the user owe it nothing.
* `Client`: `WF(OnMsg(c))`, the client's loop, and `WF(Service(c))`, the proxy and
  the server behind it. Users need not type.
* `NyanChat`: `WF` of the proxy, of the server and of each client's loop. It is
  used by `NyanRefused`, whose counterexample is a client that waits though
  everything else was served.
* `Proxy`: `WF` of main and of each thread, as the scheduler runs what can run. A
  thread in `read` of the terminal cannot without a line. The clients' thread in
  `poll` need not wake for a number that was closed under it: the kernel may or
  may not report it, so that its fairness speaks of what poll must report.

## 4. Proofs

The theorems hold for every value of the constants. They assume the `ASSUME`s of
their modules only, which TLC evaluates in the runs:

* `TcpConnection`: a table has more than two slots; listener, stdin, -1 and
  clients' descriptors differ.
* `Server`, `Client`, `NyanChat`: the empty string is neither pseudo nor code nor
  text, -1 is no code, "no session" is no session; tables have at least one slot.
  A directory belongs to some client. `NyanChat` has finitely many clients, and
  its proxy's table has room for all of them and one slot more.
* `Proxy`: finitely many connections, descriptors and slots for all of them and
  one more; no connection has the name of one of the other kinds of descriptor.
* `InputLine`, `History`: a key is a character of one byte or is sent as one of the
  sequences of `Sent`, those that the code has cases for; `size_t` has
  room for the messages and the key presses that are counted; a panel is wider
  than its margins.
* `Hashmap`: the hash is a function to natural numbers, any one; a table has at most
  2^16 cases, beyond which the `i * (i + 1)` of `jump` wraps (the server's has 512); no
  key is `NULL` or the tombstone.

That the proxy's table has room (`MAX_POLL_SOCKETS` is 200) bounds what the theorems
about `Proxy` and `NyanChat` speak of: with more clients the accept loop never ends,
which is in `TcpConnection` (`spin`).

Each module has one inductive invariant, whose conjuncts are named for what they
explain, a lemma `Init => IInv`, a lemma per action, and a theorem `Invariant`.

**Event loop.** Beside the properties themselves, `IInv` says why they hold.
`WalkInv`: during the walk the slots still to visit
are below `current`, the size at the last poll, and `current` is at most `nb` and
less than `MaxPoll`. `HoleInv`: `need_compress_poll_arr` is set exactly when the
walk has left a hole. `CompressInv`: no hole below the first index of the
compression, only holes between the second one and `current`, and, as long as
the second one is still `current`, a hole left to fill; so the loop ends below
`current` and the phantom slot never takes the table over its size.
`TableInBounds`: the table is never full when a turn begins. From it
follow `TypeCorrect`, `SlotsStayFixed`, `SocketsInTable`, `OpenSockets`,
`Compressed`, `InBounds` and, as an action property, `PolledStays`.

*Compression.* `LoopCompacts` is that the two indices of
`compress_poll_socket_array` compute `Compacted`, by which `NyanChat` and `Proxy`
have the whole loop in one step. A turn of the loop fills the first hole with the
last open slot. `FillKeepsResult` of `DataProofs` says that such a turn does
not change what `Compacted` gives, and `CompactedWhole` that a table
with nothing left to fill is its own result. `CompactedMoves` is what the users of
`Compacted` need: each open descriptor is kept, in one of the first slots, and
only those behind them move.

**Server.** `IInv` is `TypeOK /\ IndexMatches /\ SessionHasCode`, which is
inductive: that each session has a code on disk is what makes a request for its
pseudo either be refused or prove the code; this also gives the second half of
`CodesKept`, that only the holder of a code can cause a crash to empty its file.
`SessionsIndexed`,
`SessionsHaveCodes`, `CodesKept` and `SessionsKept` follow. They hold with any
number of crashes at any step.

**Proxy.** `ThreadsInv`: there is one thread before the connection, and the
semaphore is posted once. `GoneInv`: the server's thread leaves its loop only
when the server is gone. `SocketsInv`: while that thread serves, slot 0 of its
table is the server's socket; after it, slot 0 may hold the terminal, which is why
the conjunct stops there. `TableInv`: a slot behind those in use holds the 0
of `memset` or -1, and each connection is accepted once, so that the table holds
no more than the connections that were served (a count, `ServedCounts`). With
`DescriptorsApart` (each number in a table is open and of its own kind) and
`NotBothBlocked` this is inductive, although numbers are closed twice and given
again. `RelayReachesServer` is the action property about the semaphore.

**Client.** `TextsOnTheirWay` counts messages in two queues, so the invariant
does too: `OnItsWay(c, i)` has, for every number `i` and not only for slots that
exist, one text or acknowledgement on its way for a slot that is taken and none
for one that is not, and says that what is on its way is the text that the slot
holds, or an answer with its count. `SlotsInv`: a text knows its slot, which is
why an answer is never taken for a wrong one. `RoomInv`: the counter bounds the
slots taken, and past the first table it is bounded by their number, so that
the doubling always finds room. `DataProofs` has what reading, sending and
joining do to a count.

**Line and history.** The loops that shift `input` are recursive functions of
the index. `LoweredRemoves` and `InsertRepeats` give them closed forms:
deletion is `RemoveAt`, and an insertion before the end of the line makes all
that follows copies of one byte. From the first, the types of the line and
`CursorIsInPanel` for panels of every width. `CursorFollows` is about the cursor of
the history. The subtraction `nb_msgs_default_channel - 1` of `size_t` does wrap, at
`client_ansi.c:892` while no message has come: Down then takes the cursor to where no
message is. `HistoryOK` bounds what this costs by `early`, an observation: where the
cursor was when the first message came. From then on it is on a message or no further
than `early`, and a cursor on the last message follows the next. `KeysDoAsSaid` is about the keys: `SentKeys` says by which of the tables each
sequence of `Sent` is decoded, `AloneDecoded` that the decoding of a key that comes alone
is that key, `LineAfterEdits` and `CharEdits` that what follows is what a line
editor does, and `InsertRepeats` what becomes of the line when a character is inserted
before its end.

**Hashmap.** First, arithmetic: `jump(i)` is a triangular number, so that in a table of
`n` cases the probes of steps `i` and `2n - 1 - i` are the same (`Mirror`), and those of
two different steps below `n` differ if `n` is a power of two (`ProbesDiffer`): else
`2n` would divide the product of two factors, one odd and one even, both less than
`2n` (`OddFactor`). By the pigeonhole principle each case is probed
within `n` steps (`ProbesReach`), which is what `hashmap_find`, with its
`size` steps, and the loop of `hashmap_insert`, without a bound, rely on.

`HashmapInv` says of the table `Placed`: each key is where `hashmap_find` ends its search
for it. This is one statement for uniqueness and for reachability through tombstones.
It survives a change which adds no key and empties no case (`PlacedStays`: increase,
removal), and an insertion, as a new key goes to the first tombstone or
empty case on its own way, and hides nobody (`PutNew`). That a removal leaves a
tombstone is needed here. `MapInv` adds that the pairs in the table are the map that is
meant, until the table has grown. `CountInv`, that no fewer keys are counted than there
are, stays true beyond that, when a key may be written over another one; it is why the
new table of a resize has room, and why a full table in which an insertion hangs
has a tombstone.

`hashmap_resize` is a loop over the cases. Its turns have a result (`AllTurns`, by a
least counterexample), and one turn keeps `Sound`, a table of placed keys
without tombstones, and adds one pair (`PutSound`); so the whole of it keeps the pairs
(`ResizeKeeps`). The theorems are `MapFound`, `HangIsOfTombstones` and
`GrowthLoses`. For the last one: the resize itself loses nobody, the insertion after
it changes one case, and a key whose case was not that one is still found, there or
earlier (`FoundSomewhere`).

**The whole system.** Two layers, both as long as nobody leaves.
`WireInv` says what is on the wires: `TableInv`, that the proxy's table has one slot
for each client that runs, which never changes; `QueueTypes`, that what travels is
about a slot which its client has, and carries the number of the client's place in
the proxy's table; `SlotTypes` and `ServerTypes`, that each session was opened from
a place that is a client's. It is inductive because tables only grow (`Grown`,
`MessagesGrow`), and `StaysOpen` follows: nothing is sent to a descriptor that is
no client's.

`TalkInv` says how often. `Flow(c, R, A)` is the number of messages of `R` on their way
from `c` to the server and of `A` on the way back, over the four queues between
them. A step of the system exchanges at most one message for one other, which
`Exchanged(c, x, y)` states for all sets at once; each handler gets one lemma
that says what it exchanges (`ClientFlow`, `ForwardFlow`, `ServeFlow`,
`DeliverFlow`). The invariant is then per client and in terms of `Flow`:
`LoginInv`, that a client which waits has at most one request or answer on its
way, under its own pseudo, and that a welcome on its way is true; `SlotsInv`, as in
`Client`; `WayInv`, that each text or its answer is on its way once, as the slot
holds it. `PassedInv` says that nothing empty is behind the proxy, and
`SessionsInv` is `IndexMatches` and `SessionHasCode` of the server once more: the
server inside the composition is not the one of `ServerProofs`, whose environment
is any request. `WelcomesAreTrue` and `TextsTravelOnce` follow.

**One conversation.** `ChatProofs` has three theorems on top of this, the first and
the last of which hold whoever leaves. `Marks(q, at, S)` are the places in `log` of
the messages of `S` in a queue; one lemma each says what reading, sending and
joining queues do to them and to their order. `LineTypes` says what travels when
tables move under it and clients are gone, and `OrderInv`, for each client, that
the copies the proxy has still to pass on rise, that those in the client's socket
do, none of them is before what the client has shown and none in the socket is
behind one that is still to come, and that each quotes the log. It is
inductive without anything about slots: a copy that goes to the wrong client is
still in its place. This is theorem `Lines`.

Gaps do depend on slots. `Session` says that nobody has two sessions, and that who is
not welcomed, nor has a welcome on its way, has neither a session nor a copy on its way;
`Follows(c, a, e, b)`, that a client has shown the texts up to `a`, or none yet, has
those up to `e` in its socket and those up to `b` still at the proxy, nothing left out,
and that `b` is the end of the log if it has a session; `NoGap`, that there are such
borders and that no place comes twice. A step moves one of the three borders by one.
With `TalkInv`, which has it that a request comes from a client that waits, this is
inductive as long as nobody leaves: theorem `NothingLeftOut`.

`ChatNext` then takes the steps of `NyanChat` one by one: a text that the server
takes is `Say`, one that a client shows is `Read` of the place with which it is
marked, where `OrderInv` gives `at[u] <= k` and the text, and `GapInv` the guard for
as long as all are there; a departure is `Leave`; the rest stutters. This is
`ImplementsChat`.

**Induction.** The provers cannot instantiate an induction theorem that takes an
operator. Where a proof needs one over numbers (the loops of the line, the turns of a resize,
counts of sets), it takes the least counterexample instead: `Least`, from the theorem that
the order of the numbers is well-founded, which is about a set.

**Model-checked only**:

* Liveness (`PendingAccepted`, `EndIsSeen`, `TextsAcknowledged`, `CutIsSeen`): `ENABLED`
  and fairness are out of the provers' reach.
* `OneCode`, `Detects`, `CorrectedOrTold`, `InformationRestored` of `CodeErrors`: they
  are about the one code the program has, and TLC goes through its words and errors;
  a proof for every word would compute the same table.
* `CursorIsShown` of `History`: its heights are sums over any number of messages in
  three cases of layout, and no shorter argument than the enumeration is known to us.

## 5. What is not modelled

* Partial `recv`s: a `struct Message` is read as a whole.
* `code_insert_error` in the composition: it leaves texts of fewer than 10
  characters alone, and the composition's texts are such.
* Private channels and messages (`TODO` in the code); `MSG_CLIENT_DISCONNECT`,
  which nobody sends or handles.
* Races inside a structure of the proxy: a turn of a loop reads and writes the
  table of the other thread at once, a close apart. A restart of the server: its
  crash ends the proxy's side, and the proxy does not connect again.
* The doubling of the history's arrays, the connection screen, colours, frames,
  ASCII art, terminal modes, file helpers: no state to check.
* `write_hashmap_to_file`, `read_hashmap_from_file`, `create_generator_matrix`,
  `create_check_matrix` and `code_hamming_distance`, which no program calls. (The
  third one would fill the columns of parity bits with zeros: it asks
  `get_nth_bit` for bits 0 to 7 of an eight-bit remainder.)

## 6. What could follow

The theorems on `NyanChat` that hold as long as nobody leaves (`WelcomesAreTrue`,
`TextsTravelOnce`, `StaysOpen`) could be stated for clients that are not in a slot which a
departure has moved. `CursorIsShown` needs an argument about sums of heights.
A partial `recv` would need a message of several parts in `TcpConnection`.
