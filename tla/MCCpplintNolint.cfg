SPECIFICATION Spec
CONSTANTS
    NoHeader = NoHeader
    Headers <- MCHeaders
    Dirs <- MCDirs
    Public <- MCPublic
    Home <- MCHome
    EndsWith <- MCEndsWith
    FullPath <- MCFullPath
    CppHeaders <- MCCppHeaders
    Streams <- MCStreams
    Canon <- MCCanon
    Templates <- MCTemplates
    IncludesOf <- MCIncludesOf
    NORMAL_TRIGGER = 2
    TEST_TRIGGER = 3
    CommandLines <- UnclosedComments
INVARIANT EveryNolintHolds
