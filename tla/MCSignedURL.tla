---------------------------- MODULE MCSignedURL ----------------------------
(* A rotation from one key to the next, through every way the four sources    *)
(* can say what is to be said, left over or left blank.                       *)
EXTENDS SignedURL

CONSTANTS old, new, blank, unset

MCKeys == {old, new}

MCDeployments == [yamlKey : {blank, old}, yamlKeys : {{}, {blank}, {old}, {blank, old}},
                  envKey : {unset, blank, new},
                  envKeys : {{}, {blank}, {new}, {old, new}, {blank, old, new}}]
=============================================================================
