SPECIFICATION FairSpec
CONSTANTS
    auto = auto
    manual = manual
    script = script
    m1 = m1
    Consumers = {auto, manual}
    Scripts = {script}
    ManualDlx = {manual}
    Msgs = {m1}
    MaxFaults = 2
INVARIANT CertifiedIsComplete
INVARIANT RaceIsHarmless
PROPERTY DropsAreEarly
PROPERTY ConsumersServe
