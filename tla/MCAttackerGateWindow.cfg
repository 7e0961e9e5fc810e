\* Three addresses, two slots, before millis() wraps.
CONSTANTS
    a1 = a1
    a2 = a2
    a3 = a3
    telnet = telnet
    ssh = ssh
    Ips = {a1, a2, a3}
    NoIp = NoIp
    Listeners = {telnet, ssh}
    Capped = {telnet}
    Slots = 2
    Cooldown = 3
    Wrap = 10
    MaxTime = 6
SPECIFICATION GateSpec
INVARIANTS ShutOnlyInWindow HoldsThroughWindow BurstBounded
SYMMETRY SymmetryIps
CHECK_DEADLOCK FALSE
