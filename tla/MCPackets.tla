----------------------------- MODULE MCPackets -----------------------------
(* An instance of Packets for TLC: bytes of three bits, packets of at most 7. *)
EXTENDS Packets

Text(n) == Val([i \in 1 .. n |-> (3 * i + n) % Radix])

Exec(args, binary, types, rows) ==
    [args |-> args, binary |-> binary, types |-> types, rows |-> rows]

Strings(k) == [i \in 1 .. k |-> "string"]

(* Values of every length class; bitmaps of one and of two bytes; numbers at
   the ends of their range; rows of one packet, of full packets only, and of a
   full and another one or two; more packets than numbers; parameters that
   fill more than one message. *)
MCStatements ==
    {Exec(<<>>, FALSE, Strings(1), [i \in 1 .. 9 |-> <<Text(i % 3)>>]),
     Exec(<<Text(1), NullValue>>, FALSE, Strings(2),
          <<<<Text(5), NullValue>>, <<NullValue, Text(3)>>, <<Text(12), Text(0)>>>>),
     Exec(<<Text(2), NullValue, Text(1), NullValue>>, TRUE,
          <<"tiny", "utiny", "string", "short">>,
          <<<<Val(<<-4>>), Val(<<7>>), NullValue, Val(<<31>>)>>,
            <<NullValue, Val(<<4>>), Text(4), NullValue>>>>),
     Exec(<<Text(20), Text(3)>>, TRUE, <<"string", "ushort">>,
          <<<<Text(6), Val(<<63>>)>>, <<Text(0), Val(<<0>>)>>>>),
     Exec(<<Text(4), Text(4)>>, TRUE, Strings(1), <<>>)}
=============================================================================
