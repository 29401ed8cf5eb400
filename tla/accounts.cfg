\* Two processes run commands of every kind on two accounts, or on a flat file.
CONSTANTS
    Names = {home, work, plain}
    Files = {f1, f2}
    Dirs = {d1, d2}
    Written <- People
    Commands <- Typical
    Processes = {p1, p2}
    Messages <- Posts
    Arriving <- News
    Stores <- Held
    Latest = 3
    Failing = {4}
    Mark = Mark
    All = All
    None = None
    home = home
    work = work
    plain = plain
    f1 = f1
    f2 = f2
    d1 = d1
    d2 = d2
SPECIFICATION Spec
SYMMETRY Symmetry
INVARIANTS TypeOK SchemaIsWhole FanoutIsGlobalTop ExitIsHonest
PROPERTIES OnlyItsMirror AccountsAreApart
