SPECIFICATION Spec
CONSTANTS
    LoopReasons = {"wifi_outage"}
    Kinds = {"telnet", "ssh"}
    Logo = 2
    Debounce = 0
    MaxLag = 1
    PanelWrap = 6
    MaxNow = 7
    Setups <- Boards
INVARIANTS
    SettingsKept
    TallyHolds
    PanelServes
CHECK_DEADLOCK FALSE
