---------------------------- MODULE MCDocuments -----------------------------
(* Two documents that start with the same text and may be edited to other  *)
(* prose or to code; two ingestions, an edit and a search.                 *)
EXTENDS Documents, TLC

Text(s) == [kind |-> "text", body |-> s]
MCSources == {
    Text(<<"a", "b", ".", "c", "b", " ", "d">>),
    Text(<<"a", "n", "n", "a", "b", ".", "a">>),
    [kind |-> "python", body |-> <<"a", "b", "c", "d", "a">>, nodes |-> <<<<1, 2>>, <<1, 2>>, <<3, 5>>>>],
    [kind |-> "unparsed", body |-> <<"a", "b", "e">>]}
MCStarts == {[d \in Docs |-> Text(<<"a", "n", "n", "a", "b", ".", "a">>)]}
MCSummaries == <<<<"b">>, <<"a", "c", "d">>, <<"c">>, <<"d">>>>
MCQueries == {<<"a", "c">>, <<"b">>}
Position(q, c) == {i \in DOMAIN c : \E j \in DOMAIN q : q[j] = c[i]}
MCSimilarity(q, c) == (100 * Cardinality(Position(q, c))) \div (Len(c) + Len(q) - 1)
Interchangeable == Permutations(Docs) \cup Permutations(Writers)
=============================================================================
