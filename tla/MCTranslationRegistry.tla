------------------------ MODULE MCTranslationRegistry ------------------------
EXTENDS TranslationRegistry

CONSTANTS r1, r2, r3, r4, k1, k2

ThreeRequests == {r1, r2, r3}
FourRequests == {r1, r2, r3, r4}
TwoKeys == {k1, k2}
\* r1, r2 and r3 ask for one text, r4 for another.
KeyOf4 == [r \in FourRequests |-> IF r = r4 THEN k2 ELSE k1]
KeyOf3 == [r \in ThreeRequests |-> IF r = r3 THEN k2 ELSE k1]
OnlyFirst == {1}
==============================================================================
