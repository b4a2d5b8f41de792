----------------------------- MODULE CodeErrors -----------------------------
(***************************************************************************)
(* The error-correcting code of src/src/code_errors.c, on the way of one   *)
(* text: control bits are added, the proxy inserts errors, the server      *)
(* corrects.  A word is the polynomial of its bits, the set of the         *)
(* exponents that it has; addition is the symmetric difference, bit n of   *)
(* get_nth_bit is exponent 15 - n.                                         *)
(***************************************************************************)
EXTENDS Integers, FiniteSets, Sequences

CONSTANTS
    Texts,        \* bound: the texts to send, words of eight bits
    Length,       \* their msg_length
    MaxFlips      \* bound: bits of a text that the noise changes

ASSUME CodeAssumption ==
    /\ Texts \subseteq [1 .. Length -> SUBSET (0 .. 7)]
    /\ Length \in Nat /\ MaxFlips \in Nat

VARIABLES
    phase,     \* where the text is
    S,         \* the array of syndromes, before it is filled no case of it
    filled,    \* has create_syndrome_array been called?  Not in server.c:387
    sent,      \* observation: the text that was written
    msg,       \* msg->msg
    control,   \* msg->control
    error,     \* msg->error
    rc,        \* what code_correct_error returned
    flips      \* observation: the bits that the noise changed in each word

cvars == <<phase, S, filled, sent, msg, control, error, rc, flips>>

N == 16
K == 8
C == 8

(* Mutant of P: a term is missing.                                         *)
PShort == {8, 7, 5, 3, 0}

P == {8, 7, 5, 4, 3, 0}      \* 0b110111001
CORRECTION == 1
DETECTION  == 3

u ++ v == (u \cup v) \ (u \cap v)               \* ^ of two words
Shift(u, n) == {x + n : x \in u} \cap 0 .. N - 1     \* << of an uint16_t
Info(u)     == {x - C : x \in u \cap C .. N - 1}     \* u >> C

Control(u) == u \cap 0 .. C - 1                      \* (uint8_t)u
Word(m, c) == Shift(m, C) ++ c                      \* codeword

-----------------------------------------------------------------------------
(* Mutant of decode_lfsr: the polynomial moves before it is used.          *)
DecodeShiftFirst(p, m) ==
    LET r[i \in 0 .. C] ==
          IF i = 0 THEN m
          ELSE IF N - i \in r[i - 1] THEN r[i - 1] ++ Shift(p, K - 1 - i) ELSE r[i - 1]
    IN  Control(r[C])

(* The shift register: round i clears bit i with the polynomial, which     *)
(* moves one place down after each round.                                  *)
decode_lfsr(p, m) ==
    LET r[i \in 0 .. C] ==
          IF i = 0 THEN m
          ELSE IF N - i \in r[i - 1] THEN r[i - 1] ++ Shift(p, K - i) ELSE r[i - 1]
    IN  Control(r[C])

encode_lfsr(p, m) == m ++ decode_lfsr(p, m)     \* +: the low bits of m are 0

(* The parity bits of the matrix G, as the exponents of each row; row i is *)
(* that of bit i.                                                          *)
G == << {6, 5, 4, 2, 1},    {5, 4, 3, 1, 0},    {7, 6, 0},
        {7, 5, 4, 3, 2},    {6, 4, 3, 2, 1},    {5, 3, 2, 1, 0},
        {7, 6, 3, 1, 0},    {7, 5, 4, 3, 0} >>

(* The rows of H: which bits of a word are summed up in each bit of the    *)
(* syndrome, the first row for bit 0.                                      *)
H == << {13, 12, 9, 8, 7},             {15, 13, 11, 9, 6},
        {15, 14, 12, 10, 8, 5},        {15, 14, 12, 11, 8, 4},
        {14, 12, 11, 10, 9, 8, 3},     {15, 12, 11, 10, 2},
        {15, 14, 11, 10, 9, 1},        {14, 13, 10, 9, 8, 0} >>

Odd(s) == Cardinality(s) % 2 = 1

encode(m) ==
    m ++ {x \in 0 .. C - 1 : Odd({i \in 0 .. K - 1 : N - 1 - i \in m /\ x \in G[i + 1]})}
decode(m) == {x \in 0 .. C - 1 : Odd(m \cap H[K - x])}

-----------------------------------------------------------------------------
Errors == {<<e, decode_lfsr(P, Shift(e, C))>> : e \in SUBSET (0 .. 7)}

(* All bits set, and then those that are in every error of the syndrome.   *)
InAll(errors) ==
    [s \in SUBSET (0 .. 7) |->
        {x \in 0 .. 7 : \A pair \in errors : pair[2] = s => x \in pair[1]}]

(* Mutant of Filled: the errors of seven bits only.                        *)
FilledShort == InAll({pair \in Errors : 7 \notin pair[1]})

(* The loop leaves out 255, which is what its case starts with.            *)
Filled == InAll({pair \in Errors : pair[1] # 0 .. 7})

(* The cases that were not written are zero, the empty error.              *)
ErrorOf(s) == IF s \in DOMAIN S THEN S[s] ELSE {}

create_syndrome_array ==
    /\ phase = "written" /\ ~filled
    /\ S' = Filled /\ filled' = TRUE
    /\ UNCHANGED <<phase, sent, msg, control, error, rc, flips>>

CodeInit ==
    /\ phase = "written" /\ filled = FALSE /\ S = <<>>
    /\ sent \in Texts /\ msg = sent
    /\ control = [i \in 1 .. Length |-> {}]
    /\ error = [i \in 1 .. Length |-> FALSE] /\ rc = 0
    /\ flips = [i \in 1 .. Length |-> {}]

add_control_bits ==
    /\ phase = "written" /\ phase' = "noise"
    /\ control' = [i \in 1 .. Length |-> decode_lfsr(P, Shift(msg[i], C))]
    /\ UNCHANGED <<S, filled, sent, msg, error, rc, flips>>

(* Up to MaxFlips bits <<i, x>> of the text, or any of those of the first  *)
(* word that are information.                                              *)
Noises ==
    LET some[n \in 0 .. MaxFlips] ==
          IF n = 0 THEN {{}}
          ELSE {f \cup {b} : f \in some[n - 1], b \in (1 .. Length) \X (0 .. N - 1)}
    IN  {{}} \cup some[MaxFlips] \cup {{1} \X e : e \in SUBSET (C .. N - 1)}

(* code_insert_error: any bits of any words.                               *)
code_insert_error ==
    /\ phase = "noise" /\ phase' = "received"
    /\ \E f \in Noises :
         flips' = [i \in 1 .. Length |-> {x \in 0 .. N - 1 : <<i, x>> \in f}]
    /\ LET cw == [i \in 1 .. Length |-> Word(msg[i], control[i]) ++ flips'[i]] IN
         /\ msg' = [i \in 1 .. Length |-> Info(cw[i])]
         /\ control' = [i \in 1 .. Length |-> Control(cw[i])]
    /\ UNCHANGED <<S, filled, sent, error, rc>>

(* Mutant of Corrected: what is not certain is left as it is.              *)
CorrectedIfSure(m, e) == IF Cardinality(e) <= CORRECTION THEN m ++ e ELSE m

(* The correction is applied whether it is certain or not.                 *)
Corrected(m, e) == m ++ e

(* Mutant of Sure: one bit more is believed.                               *)
SureOfTwo(e) == Cardinality(e) <= CORRECTION + 1
Sure(e)      == Cardinality(e) <= CORRECTION

code_correct_error ==
    /\ phase = "received" /\ phase' = "corrected"
    /\ LET err == [i \in 1 .. Length |->
                     ErrorOf(decode_lfsr(P, Word(msg[i], control[i])))]
       IN
         /\ error' = [i \in 1 .. Length |-> ~Sure(err[i])]
         /\ rc' = IF \A i \in 1 .. Length : Sure(err[i]) THEN 0 ELSE -1
         /\ msg' = [i \in 1 .. Length |-> Corrected(msg[i], err[i])]
    /\ UNCHANGED <<S, filled, sent, control, flips>>

CodeNext ==
    \/ create_syndrome_array
    \/ add_control_bits
    \/ code_insert_error
    \/ code_correct_error

CodeSpec == CodeInit /\ [][CodeNext]_cvars

-----------------------------------------------------------------------------
(* The shift register and the two matrices, which are written out in the   *)
(* source, are one code, for what is sent and for what is received.        *)
OneCode ==
    /\ phase = "noise" =>
         /\ \A m \in SUBSET (0 .. 7) :
              encode(Shift(m, C)) = encode_lfsr(P, Shift(m, C))
         /\ \A i \in 1 .. Length :
              Word(msg[i], control[i]) = encode(Shift(sent[i], C))
    /\ phase = "received" => \A i \in 1 .. Length :
         LET w == Word(msg[i], control[i]) IN decode(w) = decode_lfsr(P, w)

(* code_errors.c:6-8: no change of up to three bits looks like a word.     *)
Detects ==
    phase = "received" => \A i \in 1 .. Length :
        Cardinality(flips[i]) \in 1 .. DETECTION =>
            decode_lfsr(P, Word(msg[i], control[i])) # {}

(* With the table filled, a word with one or two changed bits is either    *)
(* corrected or marked, and -1 is returned if any is marked: 0 means that  *)
(* the text is what was written.                                           *)
CorrectedOrTold ==
    phase = "corrected" /\ filled => \A i \in 1 .. Length :
        Cardinality(flips[i]) <= DETECTION - CORRECTION =>
            msg[i] = sent[i] \/ (error[i] /\ rc = -1)

(* However many bits of the information changed, they are all put right as *)
(* long as the control bits are those that were sent.                      *)
InformationRestored ==
    phase = "corrected" /\ filled => \A i \in 1 .. Length :
        flips[i] \subseteq C .. N - 1 => msg[i] = sent[i]
=============================================================================
