------------------------------ MODULE Messages ------------------------------
(***************************************************************************)
(* struct Message of src/include/tcp_connection.h, reduced to the fields a *)
(* handler reads: the type, the sender's slot number (msg_id), the slot of *)
(* the proxy's poll table it travels through (proxy_client_socket), the    *)
(* pseudo, the body, whether the body is empty (msg_length = 0) and the    *)
(* count of retransmissions.                                               *)
(***************************************************************************)
EXTENDS Integers

CONSTANT Blank      \* the empty string

(* init_empty_message *)
EmptyMsg == [type |-> "null", id |-> -1, sock |-> -1, src |-> Blank,
             len |-> 0, body |-> Blank, retr |-> 0]

(* A connection request always waits in slot 0 of the client's table.      *)
ConnectionMsg(p, code) ==
    [EmptyMsg EXCEPT !.type = "connection", !.id = 0, !.src = p, !.len = 1,
                     !.body = code]

(* A text waits in slot id; a grown slot brings its own retransmissions.   *)
StdMsg(i, p, text, r) ==
    [EmptyMsg EXCEPT !.type = "std", !.id = i, !.src = p, !.body = text,
                     !.len = IF text = Blank THEN 0 ELSE 1, !.retr = r]

(* gen_positive_ack_from_msg, gen_negative_ack_from_msg *)
PositiveAck(m) ==
    [EmptyMsg EXCEPT !.type = "ack_pos", !.id = m.id, !.sock = m.sock,
                     !.retr = m.retr]
NegativeAck(m) ==
    [EmptyMsg EXCEPT !.type = "ack_neg", !.id = m.id, !.sock = m.sock,
                     !.retr = m.retr + 1]

(* The server's answers to a connection request: no id, no length.         *)
ErrorMsg(m)      == [EmptyMsg EXCEPT !.type = "error", !.sock = m.sock]
WellConnected(m) == [EmptyMsg EXCEPT !.type = "well_connected", !.sock = m.sock]

(* broadcast_msg_to_all_connected_clients: the copy sent to one session.   *)
ServerClientMsg(m, s) ==
    [EmptyMsg EXCEPT !.type = "server_client", !.sock = s, !.src = m.src,
                     !.body = m.body, !.len = m.len]
=============================================================================
