SPECIFICATION Spec
CONSTANTS
  Operations = {"createSubscription", "registerNode", "nodeHealth", "coreLifecycle",
    "updateNodeConfig", "setXrayVersion", "updateNodeBinary", "topupQuota", "renewSubscription",
    "subscriptionLifecycle", "deleteSubscription", "deleteCustomer", "toggleCustomer",
    "getNodeConfig", "resolveInbounds", "subPage"}
  Holdings = 3
  Preparation = 20
  SwapTime = 179
  PromptProbe = 5
\* The request ends.
CHECK_DEADLOCK FALSE
INVARIANTS
  NoRetryMidSwap
  ProbeHonest
  OneBudget
