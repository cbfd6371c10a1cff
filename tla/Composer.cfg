SPECIFICATION Spec
CONSTANTS
    Tabs = {t1, t2}
    GuidePages = {g1}
    Nobody = Nobody
    Texts <- MCTexts
    Setups <- MCSetups
    Params <- MCParams
    Decl <- MCDecl
    Typed <- MCTyped
    Cells = {Blank, "1"}
    EarlierModels = {Blank, "big"}
    Unset = Unset
    Blank = Blank
    None = None
    Slots = {s1, s2}
    Profiles = {default, work}
    Fields = {key, url}
    Convention = {key, url}
    Default = default
    NoProfile = NoProfile
    BuiltIn = TRUE
    Calls = {c1, c2}
    MaxJobs = 2
    QueueCap = 2
    CredentialSet = "hub"
    MockPrefixes = {"mock"}
    Segments <- MCSegments
    MaxActs = 2
SYMMETRY Symmetry
INVARIANTS TypeOK SameCommand DependantFollows   
CHECK_DEADLOCK FALSE
