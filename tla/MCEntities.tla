----------------------------- MODULE MCEntities -----------------------------
(* Two memories over four mentions: two names of one thing, another thing, *)
(* and a name that is a number.                                            *)
EXTENDS EntityPages

Of(n) == [name |-> n, type |-> "technology"]
MCMentions == {Of("postgres"), Of("postgresql"), Of("redis"), Of("5")}
MCNotText == {"5"}
MCSimilar(a, b) == a = b \/ {a, b} = {"postgres", "postgresql"}
MCFindings == {<<Of("postgres"), Of("redis")>>, <<Of("5"), Of("postgresql")>>}
MCClaims == {{<<"postgres", "redis", "part_of">>, <<"redis", "postgres", "depends_on">>, <<"postgres", "kafka", "causes">>,
              <<"5", "postgresql", "runs_on">>, <<"postgresql", "5", "caches">>}}
MCSourceType(m) == "conversation"
MCLike(p, name) == p = name \/ <<p, name>> = <<"Redis", "redis">>
MCMatches(q, name) == MCLike(q, name) \/ <<q, name>> = <<"postgres", "postgresql">>
MCSymmetry == Permutations(Memories)
=============================================================================
