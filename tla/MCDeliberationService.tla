----------------------- MODULE MCDeliberationService -----------------------
EXTENDS DeliberationService

OneLevel == {8}            \* a challenge is a veto
Levels == {7, 8}           \* at and above both thresholds
NoRequests == {}
=============================================================================
