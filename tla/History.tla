------------------------------ MODULE History ------------------------------
(***************************************************************************)
(* The received messages of the raw client, the cursor in them and the     *)
(* panel that shows them: the arrays msgs_default_channel and              *)
(* heights_msgs_default_channel and display_left_panel of                  *)
(* src/src/client_ansi.c.  A message is its length, msg_length; rows and   *)
(* columns are counted from the panel's first ones.                        *)
(***************************************************************************)
EXTENDS Integers, Sequences, FiniteSets, FiniteSetsExt

CONSTANTS
    Lengths,      \* bound: lengths of the texts that come
    MaxMsgs,      \* bound: their number
    MaxDown,      \* bound: the cursor
    SizeT,        \* one more than the largest size_t
    Panels        \* the panels to try, of the terminals that are large enough

ASSUME HistoryAssumption ==
    /\ Lengths \subseteq Nat /\ MaxMsgs \in Nat /\ MaxDown \in Nat
    /\ SizeT \in Nat /\ SizeT > MaxMsgs + MaxDown
    /\ \A p \in Panels : p.width \in Nat /\ p.width > 3 /\ p.height \in Nat

VARIABLES
    msgs,         \* the first nb_msgs_default_channel messages
    msgCursor,    \* disp_msgs_cursor
    early         \* observation: where the cursor was when the first one came

history == <<msgs, msgCursor, early>>

HistoryInit == msgs = <<>> /\ msgCursor = 0 /\ early = 0

Nb == Len(msgs)

(* Mutant of LastMsg: the number of messages.                              *)
NbMsgs == Nb

(* nb - 1 in size_t, which wraps if no message has come.                   *)
LastMsg == (Nb - 1) % SizeT

(* on_received_message_default_channel: the cursor follows the last one.   *)
Receive(len) ==
    /\ Nb < MaxMsgs
    /\ msgs' = Append(msgs, len)
    /\ msgCursor' = IF msgCursor = LastMsg THEN msgCursor + 1 ELSE msgCursor
    /\ UNCHANGED early

(* The keys of on_stdin_client that move the cursor.                       *)
MsgCursorAfter(key) ==
    CASE key = "bottom" /\ msgCursor < LastMsg -> msgCursor + 1
      [] key = "top" /\ msgCursor > 0 -> msgCursor - 1
      [] OTHER -> msgCursor

Press(key) ==
    /\ msgCursor' = MsgCursorAfter(key) /\ msgCursor' <= MaxDown
    /\ early' = IF Nb = 0 THEN msgCursor' ELSE early
    /\ UNCHANGED msgs

HistoryNext ==
    \/ \E len \in Lengths : Receive(len)
    \/ \E key \in {"top", "bottom"} : Press(key)

HistorySpec == HistoryInit /\ [][HistoryNext]_history

-----------------------------------------------------------------------------
(* display_left_panel                                                      *)

Columns(p) == p.width - 3                    \* max_text_line_length

(* calc_msgs_tot_height: three rows of header, and those of the text.      *)
Height(p, i) == 3 + (msgs[i + 1] + Columns(p) - 1) \div Columns(p)

(* The rows of the messages in a set; with the space behind each of them.  *)
Total(p, ids)   == MapThenSumSet(LAMBDA i : Height(p, i), ids)
Stacked(p, ids) == Total(p, ids) + Cardinality(ids)

(* Mutant of Up: the spaces between the messages are not subtracted.       *)
UpUnspaced(p, y, i) ==
    LET above == {j \in 0 .. i : y - Total(p, j .. i) <= 0}
        top   == IF above = {} THEN 0 ELSE Max(above)
    IN  [y     |-> y - Total(p, top .. i),
         first |-> IF above = {} THEN -1 ELSE top]

(* From message i upwards, to the one that starts above the panel.         *)
Up(p, y, i) ==
    LET above == {j \in 0 .. i : y - Stacked(p, j .. i) <= 0}
        top   == IF above = {} THEN 0 ELSE Max(above)
    IN  [y     |-> y - Stacked(p, top .. i),
         first |-> IF above = {} THEN -1 ELSE top]

(* From message i downwards; the end is compared with the width.           *)
Down(p, y, i) ==
    LET below == {j \in i .. Nb - 1 : y + Stacked(p, i .. j) > p.width}
    IN  IF below = {} THEN Nb - 1 ELSE Min(below)

(* y_0, id_first_msg_disp and id_last_msg_disp: the cursor's message is    *)
(* close to the first ones, to the last ones, or in the middle.            *)
LeftPanel(p) ==
    LET half == p.height \div 2
        cmh  == Height(p, msgCursor)
        cy   == half - cmh \div 2
        last == Up(p, p.height, Nb - 1)
        mid  == Up(p, cy, msgCursor - 1)
    IN  CASE Total(p, 0 .. msgCursor - 1) + cmh < half ->
               [y |-> 0, first |-> 0, last |-> Down(p, 0, 0)]
          [] /\ Total(p, 0 .. msgCursor - 1) + cmh >= half
             /\ Total(p, msgCursor + 1 .. Nb - 1) + cmh < half ->
               [y |-> last.y, first |-> Max({0, last.first}), last |-> Nb - 1]
          [] OTHER ->
               [y |-> mid.y, first |-> mid.first,
                last |-> Down(p, cy + cmh, msgCursor + 1)]

(* The row that print_message is given for message i.                      *)
Top(p, d, i) == d.y + Stacked(p, d.first .. i - 1)

(* The rows it prints: three for the header, and one for each line.        *)
Rows(p, d, i) ==
    {Top(p, d, i) + r : r \in 0 .. 2} \cup
    {Top(p, d, i) + 3 + n : n \in {n \in 0 .. msgs[i + 1] : n * Columns(p) < msgs[i + 1]}}

-----------------------------------------------------------------------------
(* What the wrap of nb - 1 at client_ansi.c:892 does, and no more: while   *)
(* there is no message, Down takes the cursor to where none will be for a  *)
(* while.  Once there are, it is on one, or no further than it was when    *)
(* the first one came; so from the message behind that one it is on        *)
(* messages for good, and a cursor on the last one follows the next.       *)
CursorStaysOnMessages ==
    [][/\ msgCursor' < Len(msgs') \/ msgCursor' <= early'
       /\ Nb > 0 => early' = early
       /\ (Len(msgs') > Nb /\ msgCursor = Nb - 1)
            => msgCursor' = Len(msgs') - 1]_history

(* Whatever the lengths and wherever the cursor, the message that it is on *)
(* is in the panel as a whole, no message is printed over another one, and *)
(* the panel is filled upwards, and downwards if it is as wide as high.    *)
(* The exception is a text higher than twice the number of those before    *)
(* it, with too few of them to fill the panel: see FirstIsSet.             *)
CursorIsShown ==
    \A p \in Panels : msgCursor < Nb =>
        LET d == LeftPanel(p) IN
        \/ d.first = -1 /\ Height(p, msgCursor) > 2 * msgCursor
        \/ /\ d.first \in 0 .. msgCursor /\ d.last \in msgCursor .. Nb - 1
           /\ Rows(p, d, msgCursor) \subseteq 0 .. p.height
           /\ \A i, j \in d.first .. d.last :
                i # j => Rows(p, d, i) \cap Rows(p, d, j) = {}
           /\ d.first = 0 \/ d.y <= 0
           /\ p.width >= p.height =>
                d.last = Nb - 1 \/ Top(p, d, d.last + 1) >= p.height

(* client_ansi.c:342: "We now have theses three variables initialised".    *)
(* In the middle case id_first_msg_disp keeps its -1 when the messages     *)
(* before the cursor's do not reach the top, and msgs_default_channel[-1]  *)
(* is printed.                                                             *)
FirstIsSet ==
    \A p \in Panels : msgCursor < Nb => LeftPanel(p).first # -1
=============================================================================
