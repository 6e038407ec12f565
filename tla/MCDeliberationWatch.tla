------------------------ MODULE MCDeliberationWatch ------------------------
EXTENDS DeliberationWatch
=============================================================================
