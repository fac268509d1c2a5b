\* The robots.txt cache of a host, and what the rules of a file mean.
SPECIFICATION PolicySpec
CONSTANTS
    w1 = w1
    w2 = w2
    a = a
    b = b
    Workers = {w1, w2}
    CacheTTL = 4
    RetryTTL = 2
    FetchLimit = 1
    Chars = {a, b}
    MaxPath = 3
    MaxPart = 2
    MaxParts = 3
    RuleTexts <- MCRuleTexts
    RobotsPath <- MCRobotsPath
    MAX_RULES = 2
    MAX_PATTERN_CHARS = 4
    MaxLines = 5
SYMMETRY MCSymmetry
INVARIANTS TypeOK Fresh GreedyIsExact DecidesAsRFC9309
PROPERTY RefreshReloads
