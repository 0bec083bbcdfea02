--------------------------- MODULE MCConflictQueue ---------------------------
(***************************************************************************)
(* A small instance of ConflictQueue.  The view leaves out what no later   *)
(* guard and no property of the run reads: the contents of summaries, the  *)
(* hashes of a deleted row (nothing brings it back to life), what tells    *)
(* overwrite from merge, and the parts of a request it has already used.   *)
(***************************************************************************)
EXTENDS ConflictQueue, TLC

(* The bound of the run: requests and writers in flight plus used queue    *)
(* slots.  Three admits two requests racing for one conflict, a writer and *)
(* a request over one conflict, and one request over two conflicts.        *)
LoadBound ==
    Cardinality({r \in Clients : cl[r].pc # "idle"})
        + Cardinality({w \in Writers : wr[w].pc # "idle"})
        + Cardinality({c \in Conflicts : q[c].st # "free"}) <= 3

Symmetry == Permutations(Ids \ Seeds) \cup Permutations(Hashes)
            \cup Permutations(Clients) \cup Permutations(Conflicts)
            \cup Permutations(Writers)

RowView(row) == IF row.st = "live" THEN <<row.hash, row.prior>> ELSE <<row.st>>

SnapView(id, row) ==
    IF id \in Live(mem) THEN <<row.hash, row.prior>> ELSE <<"gone">>

CaseView(case) == <<case.existing, case.peer, case.h>>

ResView(res) == IF res = "overwrite" THEN "merge" ELSE res

ClientView(r) ==
    CASE cl[r].pc = "mark" -> <<"mark", cl[r].cid, ResView(cl[r].res)>>
      [] cl[r].pc = "duplicate" -> <<"duplicate", cl[r].cid, ResView(cl[r].res)>>
      [] cl[r].pc = "race" -> <<"race", cl[r].cid, ResView(cl[r].res), cl[r].case.h>>
      [] OTHER -> <<cl[r].pc, cl[r].cid, ResView(cl[r].res), CaseView(cl[r].case),
                    SnapView(Survivor(r), cl[r].snap)>>

View ==
    << [i \in Ids |-> RowView(mem[i])],
       [w \in Writers |-> <<wr[w].pc, wr[w].h, wr[w].id,
                            SnapView(wr[w].id, wr[w].snap)>>],
       [c \in Conflicts |-> <<q[c].st, q[c].res = "keep_both", q[c].raced, CaseView(q[c].case)>>],
       [r \in Clients |-> ClientView(r)] >>
=============================================================================
