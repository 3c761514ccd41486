--------------------------- MODULE MCSubscribers ---------------------------
(* Patterns, subscribers and topics for model checking Subscribers. *)
EXTENDS Subscribers

Texts(alphabet, max) == UNION {[1..n -> alphabet] : n \in 1..max}

Letter == 97

Sub(pattern, ids) == [pattern |-> pattern, ids |-> ids]

\* Any pattern of up to three characters, and any valid one of four, beside one that matches
\* everything, with identifiers that differ; and pairs that overlap, share a pattern or an identifier, or have two
MCGroups ==
  {<<Sub(p, <<1>>), Sub(<<Hash>>, <<2>>)>> :
     p \in {p \in Texts({Letter, Slash, Plus, Hash}, 4) : Len(p) < 4 \/ SubTopicValid(p)}}
  \cup {<<Sub(p[1], i), Sub(p[2], j)>> :
     p \in {<< <<Plus>>, <<Letter>> >>, << <<Letter>>, <<Letter>> >>},
     i \in {<<>>, <<1>>}, j \in {<<>>, <<1>>, <<2>>, <<1, 2>>}}

MCNames == Texts({Letter, Slash}, 3)

=============================================================================
