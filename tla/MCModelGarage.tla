--------------------------- MODULE MCModelGarage ---------------------------
EXTENDS ModelGarage

TwoProviders == <<"minimax", "anthropic">>
=============================================================================
