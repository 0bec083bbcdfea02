---------------------------- MODULE MCUsageBuffer ----------------------------
(* Three observations of two days through a buffer of one row, dropped  *)
(* after two failed flushes; a closed process takes no step, so deadlock   *)
(* is not checked.  The prices are those of the table in cents per million *)
(* tokens, for the rules whose order matters and one provider's discount.  *)
EXTENDS UsageBuffer

Observed(scenario, provider, model, status, trace) ==
    [scenario |-> scenario, provider |-> provider, model |-> model,
     status |-> status, trace |-> trace, drawn |-> FALSE,
     input |-> 3, output |-> 1, read |-> 2, creation |-> 1]

Mini == {"gpt-4o-mini", "gpt-4o"}
MCCalls ==
    <<Observed("chat", "openai-compatible", Mini, "success", "t1"),
      Observed("extract", "anthropic", {}, "error", "t2"),
      Observed("chat", "openai-compatible", {}, "success", "t1")>>

Rule(fragment, in, out) == [fragment |-> fragment, in |-> in, out |-> out]
MCPriceRules == <<Rule("gpt-4o-mini", 15, 60), Rule("gpt-4o", 250, 1000), Rule("deepseek", 27, 110)>>
MCDefaultPrice == Rule("-", 100, 300)
=============================================================================
