--------------------------- MODULE MCPageIdentity ---------------------------
(***************************************************************************)
(* PageIdentity on decks of one or two pages.                              *)
(***************************************************************************)
EXTENDS PageIdentity, TLC

Page(c, s) == [content |-> c, slide |-> s, hidden |-> FALSE]
Hidden(c, s) == [content |-> c, slide |-> s, hidden |-> TRUE]

MCNumbers == 1..2

\* The same content twice; a page of that content with a hidden one of another, which
\* the mapping can come to depend on; and two new contents under one slide id.
MCDecks == {
    <<Page("A", 1), Page("A", 2)>>,
    <<Page("A", 1), Hidden("B", 2)>>,
    <<Page("B", 1), Page("C", 1)>>}

\* ... single pages, two pages in both orders, and hidden pages with known content.
MCMoreDecks == MCDecks \cup {
    <<Page("A", 1)>>,
    <<Page("B", 1)>>,
    <<Page("A", 1), Page("B", 2)>>,
    <<Page("B", 1), Page("A", 2)>>,
    <<Page("B", 1), Hidden("A", 2)>>,
    <<Page("A", 1), Hidden("A", 2)>>,
    <<Page("A", 2), Hidden("B", 1)>>}

Symmetry == Permutations(Versions)
=============================================================================
