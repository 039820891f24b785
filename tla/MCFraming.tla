------------------------------ MODULE MCFraming -------------------------------
(* Framing with the frames that take every branch of the receivers.          *)
EXTENDS Framing, Bitwise

Plain == [op |-> 1, fin |-> 1, reserved |-> 0, form |-> 2, mask |-> <<>>, data |-> <<129>>]
Long == [i \in 1..MaxMessage + 1 |-> 1]
Key == <<7, 0, 0, 1>>

MCWebFrames ==
    {Plain,
     [Plain EXCEPT !.fin = 0],
     [Plain EXCEPT !.op = 0, !.fin = 0],
     [Plain EXCEPT !.op = 0, !.data = <<1, 129>>, !.mask = Key],
     [Plain EXCEPT !.op = 0, !.data = <<2>>],
     [Plain EXCEPT !.form = 4, !.data = <<1, 2>>],
     [Plain EXCEPT !.form = 10, !.data = <<>>],
     [Plain EXCEPT !.form = 10, !.data = Long],
     [Plain EXCEPT !.data = Long],
     [Plain EXCEPT !.reserved = 4],
     [Plain EXCEPT !.op = 9],
     [Plain EXCEPT !.op = 9, !.fin = 0],
     [Plain EXCEPT !.op = 9, !.data = <<1, 2>>],
     [Plain EXCEPT !.op = 10],
     [Plain EXCEPT !.op = 8, !.data = <<>>],
     [Plain EXCEPT !.op = 2],
     [Plain EXCEPT !.op = 11]}

Blank == <<13, 10, 13, 10>>
LongHead(n) == <<101>> \o [i \in 1..n - 5 |-> 10] \o Blank

\* Short ones, a refusal, an endless one, one beyond what may be given up, and one
\* the remote receiver never takes.
MCHeads == {<<101>> \o Blank, <<44>> \o Blank, [i \in 1..MaxHead + 1 |-> 13],
            LongHead(MaxHead + 3), LongHead(MaxHead + 5)}
MCPayloads == {<<>>, <<13, 1>>, <<1, 2, 3>>, Long}

MCByteXor(a, b) == a ^^ b
==============================================================================
