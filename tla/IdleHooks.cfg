SPECIFICATION Spec
CONSTANTS
    callback = callback
    notify = notify
    s1 = s1
    s2 = s2
    AnySession = AnySession
    Hook = {callback, notify}
    OneTime = {callback}
    Session = {s1, s2}
    Filter <- MCFilter
    Notifier = {n1, n2}
    Remover = {r1}
    MaxRestarts = 2
INVARIANTS
    TypeOK
    OneTimeFiresOnce
    FiringInv
    SecondShotExplained
    QuietMemoryMatchesDisk
    RegisteredHookSurvives
PROPERTY RegistrySpec
CHECK_DEADLOCK FALSE
