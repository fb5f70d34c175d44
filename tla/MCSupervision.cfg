SPECIFICATION Supervision
CONSTANTS
    Command = {"get_reward_summary", "get_integrations", "toggle_integration"}
    Callers = {c1}
    Background = {"check_fn", "forwarder", "poc_tick", "docker_watcher"}
    MaxAttempts = 3
    Memo = 1
    BlockRecency = 3
    ErrorRecency = 2
    MaxListings = 1
    Recheck = 2
    Retries = 1
    MaxLookups = 2
    None = None
INVARIANTS OnlyTheEngineStartWedges FewRefusals BudgetIsKept
PROPERTIES LateChildEnds BlockExpires TokenIsPickedUp
CHECK_DEADLOCK FALSE
