SPECIFICATION FairSpec
CONSTANTS
    Null = Null
    top = top
    s = s
    w = w
    o = o
    of = of
    g = g
    m = m
    p = p
    pg = pg
    pm = pm
    pf = pf
    l = l
    q = q
    qg = qg
    qd = qd
    qe = qe
    qt = qt
    qm = qm
    Places <- MCPlaces
    Top = top
    Start = s
    Parent <- MCParent
    Name <- MCName
    Kind <- MCKind
    LinkTo <- MCLinkTo
    TooLong = {qt, qm}
    Targets <- MCTargets
    Trees <- MCTrees
    MaxFaults = 1
    MaxOthers = 1
INVARIANTS
    TypeOK
    SweepsExactly
PROPERTIES
    OnlyTargets
    StopsAtFirstError
    CleanedIsGone
    Ends
CHECK_DEADLOCK FALSE
