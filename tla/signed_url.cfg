\* Two keys, two sets of parameters, lifetimes of one and a half and two seconds,
\* over three seconds.
CONSTANTS
    old = old
    new = new
    blank = blank
    unset = unset
    Keys <- MCKeys
    Queries = {q1, q2}
    Lifetimes = {3, 4}
    Blank = blank
    Unset = unset
    Missing = Missing
    Junk = Junk
    Deployments <- MCDeployments
    MaxTime = 6
    MaxMade = 2
SPECIFICATION Spec
INVARIANTS TypeOK SignedURLsWork OnlySigned ExpiryHonoured OpenIsAnnounced
