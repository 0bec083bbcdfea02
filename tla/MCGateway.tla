----------------------------- MODULE MCGateway -----------------------------
(* Gateway with a quota of two a second for chats and of two in three      *)
(* seconds for the rest; a tick is a second.                               *)
EXTENDS Gateway

MCTables == <<"checkpoint_writes", "checkpoint_blobs">>
MCQuota == [chat |-> [requests |-> 2, window |-> 1], general |-> [requests |-> 2, window |-> 3]]
=============================================================================
