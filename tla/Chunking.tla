------------------------------ MODULE Chunking ------------------------------
(***************************************************************************)
(* The chunk strategies of service/ingestion/chunk.py as operators.  Prose *)
(* is a sequence of characters, of which the separators tell apart line    *)
(* ends "n", spaces " ", semicolons ";", Latin "!" and CJK "." sentence    *)
(* marks; code is a sequence of lines with the line ranges of its          *)
(* top-level statements.                                                   *)
(***************************************************************************)
EXTENDS Integers, Sequences, SequencesExt, Collections

IsSpace(ch) == ch \in {"n", " "}

(* Where a separator cuts a text: the parts of re.split with a captured    *)
(* separator are the segments between these positions.                     *)
BlankLines(s) ==
    LET from(i) == CHOOSE a \in 1..i : (\A j \in a..i : s[j] = "n") /\ (a > 1 => s[a - 1] # "n")
        first(i) == s[i] = "n" /\ (i - from(i)) % 2 = 0 /\ i < Len(s) /\ s[i + 1] = "n"
    IN UNION {{i - 1, i + 1} : i \in {j \in DOMAIN s : first(j)}}
Lines(s) == UNION {{i - 1, i} : i \in {j \in DOMAIN s : s[j] = "n"}}
SpacesFrom(s, i) ==
    CHOOSE e \in (i - 1)..Len(s) :
        /\ \A j \in i..e : IsSpace(s[j])
        /\ e < Len(s) => ~IsSpace(s[e + 1])
Sentences(s) == UNION {{i, SpacesFrom(s, i + 1)} : i \in {j \in 1..(Len(s) - 1) : s[j] = "!" /\ IsSpace(s[j + 1])}}
Marks(s) == {i \in DOMAIN s : s[i] = "."}
Clauses(s) == UNION {{i, SpacesFrom(s, i + 1)} : i \in {j \in DOMAIN s : s[j] = ";"}}
Words(s) == {i \in 1..(Len(s) - 1) : IsSpace(s[i]) # IsSpace(s[i + 1])}

Separators == 6
Cuts(s, k) == CASE k = 1 -> BlankLines(s) [] k = 2 -> Lines(s) [] k = 3 -> Sentences(s)
                [] k = 4 -> Marks(s) [] k = 5 -> Clauses(s) [] k = 6 -> Words(s)

Parts(s, k) ==
    LET at == Places([i \in 1..(Len(s) + 1) |-> i], {p + 1 : p \in Cuts(s, k) \cup {0, Len(s)}})
    IN [i \in 1..(Len(at) - 1) |-> SubSeq(s, at[i], at[i + 1] - 1)]

HardSplit(s, max) ==
    [i \in 1..((Len(s) + max - 1) \div max) |->
        SubSeq(s, (i - 1) * max + 1, IF i * max < Len(s) THEN i * max ELSE Len(s))]

(* Parts are gathered while they fit; what becomes too long, and a part    *)
(* that is too long by itself, is left to something finer.                 *)
Add(acc, part, finer, max) ==
    IF Len(acc.buf) + Len(part) <= max THEN [chunks |-> acc.chunks, buf |-> acc.buf \o part]
    ELSE IF Len(part) > max THEN [chunks |-> acc.chunks \o finer[acc.buf] \o finer[part], buf |-> <<>>]
    ELSE [chunks |-> acc.chunks \o finer[acc.buf], buf |-> part]

Gathered(parts, finer, max) ==
    LET upTo[n \in 0..Len(parts)] ==
            IF n = 0 THEN [chunks |-> <<>>, buf |-> <<>>] ELSE Add(upTo[n - 1], parts[n], finer, max)
        all == upTo[Len(parts)]
    IN all.chunks \o HardSplit(all.buf, max)

(* Each chunk is prefixed with the tail of the one before it, and split    *)
(* again at words where that makes it too long.                            *)
TailOf(prev, overlap) == IF Len(prev) > overlap THEN SubSeq(prev, Len(prev) - overlap + 1, Len(prev)) ELSE <<>>

Resplit(s, max) ==
    IF Len(s) > max THEN Gathered(Parts(s, Separators), [t \in Seq(ToSet(s)) |-> HardSplit(t, max)], max)
    ELSE <<s>>

AddOverlapped(done, chunk, max, overlap) == done \o Resplit(TailOf(Last(done), overlap) \o chunk, max)

Overlapped(chunks, max, overlap) ==
    LET upTo[n \in 0..(Len(chunks) - 1)] ==
            IF n = 0 THEN <<chunks[1]>> ELSE AddOverlapped(upTo[n - 1], chunks[n + 1], max, overlap)
    IN IF overlap = 0 \/ Len(chunks) <= 1 THEN chunks ELSE upTo[Len(chunks) - 1]

(* The finer of the separators left, one after the other, then the cut.    *)
SplitRecursive(s, max, overlap) ==
    LET with[n \in 0..Separators] ==
            IF n = 0 THEN [t \in Seq(ToSet(s)) |-> HardSplit(t, max)]
            ELSE [t \in Seq(ToSet(s)) |->
                    Overlapped(Gathered(Parts(t, Separators + 1 - n), with[n - 1], max), max, overlap)]
    IN with[Separators][s]

ChunkText(s, max, overlap) ==
    IF \A i \in DOMAIN s : IsSpace(s[i]) THEN <<>> ELSE SplitRecursive(s, max, overlap)

-----------------------------------------------------------------------------
(* Code: lines is a sequence, nodes the ranges (from, to] of its top-level *)
(* statements in order of their first line.  A gap never splits, a node    *)
(* only when it is longer than a chunk by itself.                          *)
ChunkByLines(lines, max) == HardSplit(lines, max)

Room(acc, ls, max) ==
    IF Len(acc.current) + Len(ls) > max /\ acc.current # <<>>
    THEN [chunks |-> Append(acc.chunks, acc.current), current |-> <<>>]
    ELSE acc

AddGap(acc, gap, max) ==
    LET made == Room(acc, gap, max)
    IN IF gap = <<>> THEN acc ELSE [chunks |-> made.chunks, current |-> made.current \o gap]

AddNode(acc, ls, max) ==
    LET made == Room(acc, ls, max)
        held == IF made.current = <<>> THEN <<>> ELSE <<made.current>>
    IN IF Len(ls) <= max THEN [chunks |-> made.chunks, current |-> made.current \o ls]
       ELSE [chunks |-> made.chunks \o held \o ChunkByLines(ls, max), current |-> <<>>]

Flushed(acc) == acc.chunks \o (IF acc.current = <<>> THEN <<>> ELSE <<acc.current>>)

ChunkCode(lines, nodes, max) ==
    LET end(n) == IF n = 0 THEN 0 ELSE nodes[n][2]
        swept[n \in 0..Len(nodes)] ==
            IF n = 0 THEN [chunks |-> <<>>, current |-> <<>>]
            ELSE AddNode(AddGap(swept[n - 1], SubSeq(lines, end(n - 1) + 1, nodes[n][1]), max),
                         SubSeq(lines, nodes[n][1] + 1, nodes[n][2]), max)
    IN Flushed(AddGap(swept[Len(nodes)], SubSeq(lines, end(Len(nodes)) + 1, Len(lines)), max))

-----------------------------------------------------------------------------
(* The positions of s up to which chunks can be read off, each adding what *)
(* it ends with to what the ones before it hold.                           *)
EndsWith(c, t) == Len(t) <= Len(c) /\ SubSeq(c, Len(c) - Len(t) + 1, Len(c)) = t
From(reached, c, s) == {q \in 0..Len(s) : \E p \in reached : p <= q /\ EndsWith(c, SubSeq(s, p + 1, q))}

ReadUpTo(chunks, s) ==
    LET reached[n \in 0..Len(chunks)] == IF n = 0 THEN {0} ELSE From(reached[n - 1], chunks[n], s)
    IN reached[Len(chunks)]

Fits(chunks, max) == \A i \in DOMAIN chunks : Len(chunks[i]) <= max
Reassembles(chunks, s) == Len(s) \in ReadUpTo(chunks, s)
=============================================================================
