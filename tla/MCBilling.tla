----------------------------- MODULE MCBilling -----------------------------
(* Instances of Billing: the limit of each plan.  A checkout is for the one *)
(* plan with a price of its own, the portal moves the subscription between  *)
(* that price, the other plan's and one configured for none.  Three cuts    *)
(* lose nothing the properties can see: assistants meet the provider's      *)
(* subscriptions in the row's plan alone, whose changes excuse any number   *)
(* of them; a history once disturbed stays so; a checkout that no           *)
(* subscription of the instance is left for cannot complete.                *)
EXTENDS Billing, TLC

MCPlans == {"starter", "enterprise"}
MCLimit == ("starter" :> 1) @@ ("enterprise" :> Unlimited)
MCPrices == {"price_starter", "price_enterprise", "price_retired"}
MCPriceOf == ("starter" :> None) @@ ("enterprise" :> "price_enterprise")
MCPlanOf ==
  ("price_starter" :> "starter") @@ ("price_enterprise" :> "enterprise") @@ ("price_retired" :> None)
Cuts ==
  /\ \/ checkouts = {} /\ \A s \in Subs : ~Exists(s)
     \/ assistants = 0 /\ \A t \in Threads : Idle(t) \/ threads[t].op # "assistant"
  /\ ~disturbed
  /\ checkouts = {} \/ \E s \in Subs : ~Exists(s)

Alike == Permutations(Threads)
=============================================================================
