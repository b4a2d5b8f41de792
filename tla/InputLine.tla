----------------------------- MODULE InputLine -----------------------------
(***************************************************************************)
(* The terminal side of the raw client: the decoding of keys in the main   *)
(* loop of src/src/tcp_connection.c and the line that is typed, in         *)
(* src/src/client_ansi.c; the keys also move the cursor of History.        *)
(*                                                                         *)
(* A byte is a string.  One turn of the main loop is one step: what the    *)
(* time-out of 100 ms lets its reads take is what waits on the terminal.   *)
(***************************************************************************)
EXTENDS History, SequencesExt

CONSTANTS
    KeyBytes,     \* external: the bytes a terminal sends for each key
    Chars,        \* the keys that are characters
    AheadKeys,    \* bound: those typed before the bytes of another are read
    MaxMsg,       \* MAX_MSG_LENGTH
    MaxHeard,     \* bound: messages received while keys are typed
    HeardLengths, \* bound: their lengths
    Widths        \* widths of the input panel to try

QuitByte     == "^Q"                         \* CTRL_KEY('q')
SpecialBytes == {"CR", "TAB", "ESC", "DEL"}

(* What a terminal sends for the keys that are not characters.             *)
Sent ==
    [enter     |-> {<<"CR">>, <<"ESC", "?", "M">>},
     tab       |-> {<<"TAB">>},
     escape    |-> {<<"ESC">>},
     backspace |-> {<<"DEL">>},
     delete    |-> {<<"ESC", "[", "3", "~">>},
     top       |-> {<<"ESC", "[", "A">>},
     bottom    |-> {<<"ESC", "[", "B">>},
     right     |-> {<<"ESC", "[", "C">>},
     left      |-> {<<"ESC", "[", "D">>},
     home      |-> {<<"ESC", "[", "H">>, <<"ESC", "O", "H">>,
                    <<"ESC", "[", "1", "~">>, <<"ESC", "[", "7", "~">>},
     end       |-> {<<"ESC", "[", "F">>, <<"ESC", "O", "F">>,
                    <<"ESC", "[", "4", "~">>, <<"ESC", "[", "8", "~">>},
     pageup    |-> {<<"ESC", "[", "5", "~">>},
     pagedown  |-> {<<"ESC", "[", "6", "~">>}]

ASSUME InputAssumption ==
    /\ AheadKeys \cup Chars \subseteq DOMAIN KeyBytes
    /\ \A k \in DOMAIN KeyBytes :
         \/ k \in DOMAIN Sent \ Chars /\ KeyBytes[k] \in Sent[k]
         \/ /\ k \notin DOMAIN Sent /\ (k \in Chars \/ KeyBytes[k] = <<QuitByte>>)
            /\ KeyBytes[k] \in Seq(STRING \ SpecialBytes) /\ Len(KeyBytes[k]) = 1
    /\ MaxMsg \in Nat \ {0}
    /\ MaxHeard \in 0 .. MaxMsgs /\ HeardLengths \subseteq Lengths
    /\ Widths \subseteq Nat \ {0}

VARIABLES
    tty,         \* bytes typed and not read
    seq0, seq1,  \* seq[0] and seq[1] of the loop, which are not initialised
    input,       \* cstate->input, its first cstate->input_length bytes
    cursor,      \* cstate->input_cursor
    connected,   \* cstate->connected
    ended        \* con->end_connection

line  == <<input, cursor>>
ivars == <<tty, seq0, seq1, line, connected, history, ended>>

Bytes == UNION {{KeyBytes[k][i] : i \in DOMAIN KeyBytes[k]} : k \in DOMAIN KeyBytes}

(* The bytes of seq are those the stack holds until they are read.         *)
InputInit ==
    /\ tty = <<>> /\ seq0 \in {"other", "O"} /\ seq1 \in {"other", "H"}
    /\ input = <<>> /\ cursor = 0 /\ connected = FALSE
    /\ HistoryInit /\ ended = FALSE

-----------------------------------------------------------------------------
(* The keys that on_stdin_client tells apart, by buffer[1] and buffer[2].  *)
OneByte(b) ==
    CASE b = "CR" -> "enter" [] b = "TAB" -> "tab" [] b = "ESC" -> "escape"
      [] b = "DEL" -> "backspace"
AfterBracket(b, other) ==
    CASE b = "A" -> "top" [] b = "B" -> "bottom" [] b = "C" -> "right" [] b = "D" -> "left"
      [] b = "H" -> "home" [] b = "F" -> "end" [] OTHER -> other
AfterDigit(b, other) ==
    CASE b = "3" -> "delete" [] b = "5" -> "pageup" [] b = "6" -> "pagedown"
      [] b \in {"1", "7"} -> "home" [] b \in {"4", "8"} -> "end" [] OTHER -> other
AfterO(b, other) ==
    CASE b = "H" -> "home" [] b = "F" -> "end" [] OTHER -> other
AfterMark(b, other) == IF b = "M" THEN "enter" ELSE other
Digits == {"0", "1", "2", "3", "4", "5", "6", "7", "8", "9"}

(* A read that times out leaves its byte of seq as it was.                 *)
Read(i, old) == IF Len(tty) > i THEN tty[i + 1] ELSE old

(* A control sequence, whose two reads both succeeded.                     *)
Sequence(s0, n) == n >= 2 /\ s0 = "["

(* What the main loop makes of the special byte b, when n bytes wait behind*)
(* it.  seq[0] is compared with 'O' and '?' even if it was not read.       *)
Decoded(b, s0, s1, n) ==
    CASE Sequence(s0, n) /\ s1 \in Digits ->
           IF n >= 3 /\ tty[4] = "~" THEN AfterDigit(s1, OneByte(b)) ELSE OneByte(b)
      [] Sequence(s0, n) /\ s1 \notin Digits -> AfterBracket(s1, OneByte(b))
      [] s0 = "O" -> AfterO(s1, OneByte(b))
      [] s0 = "?" -> AfterMark(s1, OneByte(b))
      [] OTHER    -> OneByte(b)

(* How many of them it takes.                                              *)
Taken(s0, s1, n) ==
    IF n >= 3 /\ Sequence(s0, n) /\ s1 \in Digits THEN 3 ELSE IF n >= 2 THEN 2 ELSE n

-----------------------------------------------------------------------------
(* Mutant of Lowered: the loop starts one further to the right.            *)
LoweredNext(s, c) ==
    [i \in 1 .. Len(s) - 1 |-> IF i <= c + 1 THEN s[i] ELSE s[i + 1]]

(* The loops of backspace and delete: input[i] = input[i + 1], from index c*)
(* to the end, which is then cut.                                          *)
Lowered(s, c) ==
    LET step[i \in c .. Len(s) - 1] ==
          IF i = c THEN s
          ELSE [step[i - 1] EXCEPT ![i] = step[i - 1][i + 1]]
    IN  SubSeq(step[Len(s) - 1], 1, Len(s) - 1)

(* The loop of an insertion: input[i + 1] = input[i], upwards from index c.*)
Raised(s, c) ==
    LET step[i \in c .. Len(s)] ==
          IF i = c THEN Append(s, "NUL")
          ELSE [step[i - 1] EXCEPT ![i + 1] = step[i - 1][i]]
    IN  step[Len(s)]

(* Mutant of Room: one byte more.                                          *)
RoomForOneMore == Len(input) < MaxMsg

Room == Len(input) < MaxMsg - 1

Inserted(b) ==
    IF cursor = Len(input) THEN Append(input, b)
    ELSE [Raised(input, cursor) EXCEPT ![cursor + 1] = b]

(* input and cursor after a special key.  What Enter clears it has given to*)
(* client_process_input_message (Client!Login, Client!Speak), empty or not.*)
LineAfter(key) ==
    CASE key = "enter" -> <<<<>>, 0>>
      [] key = "backspace" /\ cursor > 0 -> <<Lowered(input, cursor - 1), cursor - 1>>
      [] key = "delete" /\ cursor < Len(input) -> <<Lowered(input, cursor), cursor>>
      [] key = "left" /\ cursor > 0 -> <<input, cursor - 1>>
      [] key = "right" /\ cursor < Len(input) -> <<input, cursor + 1>>
      [] OTHER -> line

Drop(n) == tty' = SubSeq(tty, n + 1, Len(tty))

(* One turn of the main loop with input on the terminal, on_stdin_client.  *)
TurnChar ==
    /\ ~ended /\ tty # <<>> /\ tty[1] \notin SpecialBytes
    /\ Drop(1) /\ ended' = (tty[1] = QuitByte)
    /\ \/ /\ Room
          /\ input' = Inserted(tty[1]) /\ cursor' = cursor + 1
       \/ /\ ~Room
          /\ UNCHANGED line
    /\ UNCHANGED <<seq0, seq1, connected, history>>

TurnSpecial ==
    /\ ~ended /\ tty # <<>> /\ tty[1] \in SpecialBytes
    /\ seq0' = Read(1, seq0) /\ seq1' = Read(2, seq1)
    /\ Drop(1 + Taken(seq0', seq1', Len(tty) - 1))
    /\ LET key == Decoded(tty[1], seq0', seq1', Len(tty) - 1) IN
         /\ input' = LineAfter(key)[1] /\ cursor' = LineAfter(key)[2]
         /\ Press(key)
    /\ UNCHANGED <<connected, ended>>

(* MSG_WELL_CONNECTED: what was typed since the pseudo is cleared.  When   *)
(* it comes is the matter of Client!OnWelcome.                             *)
Welcome ==
    /\ ~ended /\ ~connected
    /\ connected' = TRUE
    /\ input' = <<>> /\ cursor' = 0
    /\ UNCHANGED <<tty, seq0, seq1, history, ended>>

(* A message comes.                                                        *)
Hear ==
    /\ ~ended /\ connected /\ Nb < MaxHeard
    /\ \E len \in HeardLengths : Receive(len)
    /\ UNCHANGED <<tty, seq0, seq1, line, connected, ended>>

(* The user.                                                               *)
Type(k) ==
    /\ ~ended
    /\ \/ tty = <<>>
       \/ k \in AheadKeys /\ \E j \in DOMAIN KeyBytes : tty = KeyBytes[j]
    /\ tty' = tty \o KeyBytes[k]
    /\ UNCHANGED <<seq0, seq1, line, connected, history, ended>>

InputNext ==
    \/ TurnChar
    \/ TurnSpecial
    \/ Welcome
    \/ Hear
    \/ \E k \in DOMAIN KeyBytes : Type(k)

InputSpec == InputInit /\ [][InputNext]_ivars

(* Mutant of Window: no case for a cursor in the middle.                   *)
WindowOfEnds(ctx) ==
    CASE Len(input) <= ctx -> [start |-> 0, end |-> Len(input)]
      [] Len(input) > ctx /\ cursor <= ctx \div 2 -> [start |-> 0, end |-> ctx]
      [] OTHER -> [start |-> Len(input) - ctx, end |-> Len(input)]

(* display_input_text: what is shown of a line in a panel of ctx columns.  *)
Window(ctx) ==
    LET half == ctx \div 2 IN
    CASE Len(input) <= ctx -> [start |-> 0, end |-> Len(input)]
      [] Len(input) > ctx /\ cursor <= half -> [start |-> 0, end |-> ctx]
      [] Len(input) > ctx /\ cursor > half /\ cursor >= Len(input) - half ->
           [start |-> Len(input) - ctx, end |-> Len(input)]
      [] OTHER -> [start |-> cursor - half, end |-> Len(input) + half]

-----------------------------------------------------------------------------
InputTypeOK ==
    /\ tty \in Seq(Bytes)
    /\ input \in Seq(Bytes) /\ Len(input) <= MaxMsg - 1     \* and a NUL
    /\ cursor \in 0 .. Len(input)
    /\ msgs \in Seq(Lengths) /\ msgCursor \in 0 .. MaxDown + MaxMsgs
    /\ early \in 0 .. MaxDown
    /\ connected \in BOOLEAN /\ ended \in BOOLEAN

(* A line editor, with the keys as users know them.                        *)
Edited(k) ==
    CASE k \in Chars /\ Len(input) < MaxMsg - 1 ->
           <<InsertAt(input, cursor + 1, KeyBytes[k][1]), cursor + 1>>
      [] k = "enter" -> <<<<>>, 0>>
      [] k = "backspace" /\ cursor > 0 -> <<RemoveAt(input, cursor), cursor - 1>>
      [] k = "delete" /\ cursor < Len(input) -> <<RemoveAt(input, cursor + 1), cursor>>
      [] k = "left" /\ cursor > 0 -> <<input, cursor - 1>>
      [] k = "right" /\ cursor < Len(input) -> <<input, cursor + 1>>
      [] OTHER -> line

(* A character that has room, before the end of the line.                  *)
MidLine(k) == k \in Chars /\ Len(input) < MaxMsg - 1 /\ cursor < Len(input)

(* It is inserted, what is left of it stays, and what was right of it is   *)
(* lost: all of that is the byte under the cursor now.                     *)
Repeated(k) ==
    /\ cursor' = cursor + 1 /\ Len(input') = Len(input) + 1
    /\ \A i \in 1 .. Len(input') :
         input'[i] = IF i <= cursor THEN input[i]
                     ELSE IF i = cursor + 1 THEN KeyBytes[k][1] ELSE input[cursor + 1]

Handled == tty # <<>> /\ Len(tty') < Len(tty) /\ ~ended'

(* A key that comes alone, and a character whatever comes behind it, does  *)
(* to the line what a line editor does: through the decoding, its time-outs*)
(* and the loops on the array.  Not so after ESC O or ESC ?, whose bytes   *)
(* the next lone key is compared with; and a character that is not typed   *)
(* at the end spoils what is right of it, and nothing else, though         *)
(* client_ansi.c:950 has "to shift at the right of the cursor".            *)
KeysDoWhatTheySay ==
    [][\A k \in DOMAIN KeyBytes :
         (/\ Handled
          /\ \/ tty = KeyBytes[k] /\ (seq0 \notin {"O", "?"} \/ Len(tty) > 1)
             \/ k \in Chars /\ tty[1] = KeyBytes[k][1])
         => IF MidLine(k) THEN Repeated(k) ELSE line' = Edited(k)]_ivars

(* The cursor is in the panel, on the byte that it is at; the line is too, *)
(* but for a cursor in the middle of a long line, when it runs over.       *)
CursorInPanel ==
    \A ctx \in Widths :
        LET w == Window(ctx) IN
        /\ w.start <= cursor /\ cursor <= w.end /\ cursor - w.start <= ctx
        /\ \/ w.end - w.start <= ctx
           \/ cursor > ctx \div 2 /\ cursor < Len(input) - ctx \div 2
=============================================================================
