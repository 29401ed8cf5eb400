\* Two resolves of two peers of one name, an editor and a sync share the file.
CONSTANTS
    Dialogs = {d1, d2}
    Names = {chat, team}
    NameOf <- SameName
    Digits = {tail}
    DigitsOf <- SameDigits
    Rests = {rules}
    Saved <- HumanFiles
    Resolvers = {r1, r2}
    Broken = Broken
    None = None
    chat = chat
    team = team
    tail = tail
    rules = rules
SPECIFICATION Spec
SYMMETRY Symmetry
INVARIANTS TypeOK PeersAreDistinct NothingIsLost SendingIsHuman
PROPERTIES CitationsHold
