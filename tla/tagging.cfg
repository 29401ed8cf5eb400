\* Two messages, two retags at once, and rules that change under them.
CONSTANTS
    Msgs = {m1, m2}
    Texts <- TwoTexts
    Tags <- OneTag
    RuleSets <- Rules
    Retaggers = {r1, r2}
    NoRow = NoRow
    Idle = Idle
    ping = ping
    pong = pong
    urgent = urgent
SPECIFICATION Spec
SYMMETRY Symmetry
INVARIANTS TypeOK HandTagsStay MatchesAreTagged
PROPERTIES RetagIsExact
