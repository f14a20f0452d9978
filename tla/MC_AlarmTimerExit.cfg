CONSTANTS
    k1 = k1
    k2 = k2
    a1 = a1
    a2 = a2
    r1 = r1
    r2 = r2
    p1 = p1
    NoASM = NoASM
    Keys <- MC_Keys
    AlarmTypes = {a1}
    Parts = {p1}
    PartOf <- MC_PartOf
    Rules <- MC_Rules
    ActiveTimer <- MC_ActiveTimer
    IdleTimer <- MC_IdleTimer
    FreqCheck_Times <- MC_FreqCheck_Times
    FreqCheck_Seconds <- MC_FreqCheck_Seconds
    FreqExceededCheck <- MC_FreqExceededCheck
    MaxTime = 5
SPECIFICATION Spec
INVARIANTS
    NeverExits
