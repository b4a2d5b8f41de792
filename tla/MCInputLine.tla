---------------------------- MODULE MCInputLine ----------------------------
EXTENDS InputLine, MCHistory

MCKeyBytes ==
    "a" :> <<"a">> @@ "b" :> <<"b">> @@ "quit" :> <<"^Q">>
    @@ "enter" :> <<"CR">> @@ "escape" :> <<"ESC">> @@ "backspace" :> <<"DEL">>
    @@ "top" :> <<"ESC", "[", "A">> @@ "bottom" :> <<"ESC", "[", "B">>
    @@ "right" :> <<"ESC", "[", "C">> @@ "left" :> <<"ESC", "[", "D">>
    @@ "delete" :> <<"ESC", "[", "3", "~">> @@ "home" :> <<"ESC", "O", "H">>
=============================================================================
