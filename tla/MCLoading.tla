------------------------------ MODULE MCLoading ------------------------------
(* Files with a usual head and every list of links, and files with a head  *)
(* that is unusual, cut short or wrong, and at most one link.              *)
EXTENDS Loading, TLC

CONSTANTS MaxLinks, Nodes

Small(word) == [is |-> word, exact |-> TRUE, longer |-> FALSE]
Banner == [n \in 1..5 |-> Small(<<"%%MatrixMarket", "matrix", "coordinate", "pattern",
                                  "general">>[n])]
Size == <<Nodes, Nodes, 1>>
Lists(n) == BoundedSeq((1..Nodes) \X (1..Nodes), n)

Usual == {<<<<Percent, Word>>, Size>>}

Unusual ==
  { <<>>, <<Size>>, <<<<>>, Size>>, <<<<Percent>>, <<>>, <<>>, Size>>,
    <<<<>>, <<Percent>>, Size>>, <<<<Percent>>, <<Percent, 7, 7, 7>>, Size>>,
    <<<<Word>>, Size>>, <<<<>>, <<Word>>>>, <<<<Nodes, Nodes>>, <<3>>, Size>>,
    <<<<Percent>>>>, <<<<>>, <<Nodes>>>>, <<<<Nodes, Nodes + 1, 1>>>>, <<<<0, 0, 0>>>>,
    <<Size, <<Word>>>>, <<Size, <<1>>>>, <<Size, <<>>>>, <<Size, <<Nodes + 1, 1>>>> }

Capital(words, n) == [words EXCEPT ![n].exact = FALSE]
Longer(words, n)  == [words EXCEPT ![n].longer = TRUE]

Banners ==
  {Longer(Capital(Capital(Banner, 2), 5), 1), Append(Banner, Small("general")),
   Capital(Banner, 1), Longer(Banner, 5), [Banner EXCEPT ![4] = Small("general")],
   SubSeq(Banner, 1, 2), <<>>}

File(banner, lines, newline) == [banner |-> banner, lines |-> lines, newline |-> newline]

MCFiles ==
  LET files == {File(Banner, h \o l, nl) : h \in Usual, l \in Lists(MaxLinks), nl \in BOOLEAN}
        \cup {File(Banner, h \o l, nl) : h \in Unusual, l \in Lists(1), nl \in BOOLEAN}
        \cup {File(b, <<Size>> \o l, TRUE) : b \in Banners, l \in Lists(1)}
  IN {f \in files : f.lines # <<>> /\ Last(f.lines) = <<>> => f.newline}
=============================================================================
