--------------------------- MODULE MCAudioPlayers ---------------------------
EXTENDS AudioPlayers

Effects == {1, 3}
Songs   == {2, 4}    \* less than a second, and more
=============================================================================
