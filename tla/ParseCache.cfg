CONSTANTS
    s1 = s1
    cli = cli
    c1 = c1
    c2 = c2
    f1 = f1
    f2 = f2
    t1 = t1
    t2 = t2
    Server = {s1}
    Cli = {cli}
    Config = {c1, c2}
    SourceFile = {f1, f2}
    Text = {t1, t2}
    Loose = {t1}
    Shared = {t1}
    Bare = {t2}
    Place <- MCPlace
    Nil = Nil
    LegacyJson = {Nil, c1, c2}
    MaxStarts = 3
    MaxEdits = 1
SPECIFICATION Spec
SYMMETRY Symmetry
CHECK_DEADLOCK FALSE
INVARIANTS
    ResultsAreOwn
    RowsAreStamped
