CONSTANTS
    u1 = u1
    u2 = u2
    MaxSections = 2
    Broken = Broken
    NoUid = NoUid
    Files <- MCFiles
SPECIFICATION FairSpec
CHECK_DEADLOCK FALSE
INVARIANTS TypeOK SettingsExact OneLinkEach BackoffExact
PROPERTIES ComesBack
