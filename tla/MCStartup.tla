----------------------------- MODULE MCStartup -----------------------------
(* Texts made of four fields and what stands between them. *)
EXTENDS Startup

\* 0, 5, 05, 1f, 20, 105, 10000, 65535 and 65536 (in base 10), nothing, a
\* number beyond UlongSpan, and signed and indented ones.
MCNumber == {<<0>>, <<5>>, <<0, 5>>, <<1, 15>>, <<2, 0>>, <<1, 0, 5>>, <<7>>, <<8>>,
             <<1, 0, 0, 0, 0>>, <<6, 5, 5, 3, 5>>, <<6, 5, 5, 3, 6>>, <<>>,
             <<15, 15, 15, 15, 15, 15>>, <<Minus, 1>>, <<Blank, 1>>}

MCLast == {<<>>, <<0>>, <<1>>, <<6, 5, 5, 3, 5>>, <<6, 5, 5, 3, 6>>, <<10>>, <<1, Blank>>,
           <<Minus, 0>>}

Text(b, x, d, y, f, z, n) == b \o <<x>> \o d \o <<y>> \o f \o <<z>> \o n

\* Bus and namespace, device, and function vary in turn.
MCFilename ==
  {Text(b, Colon, <<0>>, Dot, <<0>>, Comma, n) : b \in MCNumber, n \in MCLast}
  \cup {Text(<<5>>, x, d, y, <<0>>, Comma, <<1>>) :
           d \in MCNumber, x \in {Colon, Dot}, y \in {Dot, Comma}}
  \cup {Text(<<5>>, Colon, <<1, 15>>, Dot, f, z, n) :
           f \in {<<0>>, <<7>>, <<8>>, <<>>}, z \in {Comma, Colon}, n \in MCLast}
  \cup {<<>>, <<5, Colon, 0, Dot, 0>>}

MCFunction == {[bus |-> 5, dev |-> 0, func |-> 0], [bus |-> 5, dev |-> 31, func |-> 7],
               [bus |-> 0, dev |-> 5, func |-> 0]}

=============================================================================
