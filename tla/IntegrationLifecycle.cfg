SPECIFICATION FairSpec
CONSTANTS
    MaxRestarts = 1
    StartingTimeout = 1
    RearmTicks = 2
    RunningProbes = {"Healthy", "Unhealthy", "Starting"}
    DownProbes = {"Stopped", "Unhealthy"}
    ChannelCap = 1
PROPERTIES LoopSpec OffStaysOff SelfHeals OffIsShown
