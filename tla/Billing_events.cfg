SPECIFICATION Spec
CONSTANTS
  Threads = {t1, t2}
  Plans <- MCPlans
  Starter = "starter"
  Prices <- MCPrices
  PriceOf <- MCPriceOf
  PlanOf <- MCPlanOf
  Limit <- MCLimit
  Unlimited = Unlimited
  Subs = {s1}
  MaxEvents = 3
  MaxCheckouts = 1
  MaxAssistants = 2
  None = None
SYMMETRY Alike
CONSTRAINT Cuts
INVARIANTS
  InOrderAgreement
  ExcessIsExplained
CHECK_DEADLOCK FALSE
