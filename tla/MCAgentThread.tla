---------------------------- MODULE MCAgentThread ----------------------------
(* Two user messages, two model calls each, one timeout or crash; the      *)
(* model answers in words or with a safe and two gated calls, to which a   *)
(* ticked checkbox adds the write.                                         *)
EXTENDS AgentThread

MCAnswers == {[tools |-> <<>>, out |-> "text"],
              [tools |-> <<"search", "ingest", "notify">>, out |-> "blank"]}
MCGated == {"ingest", "notify"}
=============================================================================
