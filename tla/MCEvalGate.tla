----------------------------- MODULE MCEvalGate -----------------------------
(* EvalGate with two channels, small labelled sets, and floors on a grid   *)
(* coarser than their headroom.                                            *)
EXTENDS EvalGate

MCNear == {{"auth", "auth-api"}, {"auth", "auth-ui"}}
Entity(name) == [name |-> name, type |-> "service"]
Uses(from, to) == [from |-> from, to |-> to, type |-> "uses"]

MCItems ==
    [tool_selection |-> <<[expected |-> {"search"}, allowed |-> {"entities"}, forbidden |-> {"write"}]>>,
     extraction |-> <<[entities |-> <<Entity("auth-api"), Entity("auth"), Entity("auth-ui")>>,
                       relations |-> <<Uses("auth-ui", "auth-api")>>]>>,
     answer |-> <<[facts |-> {"fact"}, prohibited |-> {"claim"}, sources |-> {"id"}],
                  [facts |-> {"fact"}, prohibited |-> {}, sources |-> {}]>>,
     write_conflict |-> <<TRUE, FALSE>>,
     write_merge |-> <<[facts |-> {"one side", "the other"}]>>]

MCOutputs ==
    [tool_selection |-> <<{{"search", "write"}}>>,
     extraction |-> <<{[entities |-> <<Entity("auth"), Entity("auth-ui"), Entity("auth-api")>>,
                        relations |-> <<Uses("auth", "auth-api")>>],
                       [entities |-> <<Entity("auth"), Entity("auth-api"), Entity("auth-ui")>>, relations |-> <<>>]}>>,
     answer |-> <<{{"fact", "id"}, {"claim"}}, {{"fact"}}>>,
     write_conflict |-> <<BOOLEAN, {FALSE}>>,
     write_merge |-> <<{{"one side"}}>>]
MCVerdicts == {[covered |-> {"fact"}, grounded |-> TRUE], [covered |-> {}, grounded |-> FALSE]}

MCSuiteSets == {{"answer"}, {"write_conflict", "write_merge"}, {"tool_selection", "extraction"}}

(* The code only compares channels. *)
MCSymmetry == Permutations(Channels)
=============================================================================
