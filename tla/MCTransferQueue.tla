--------------------------- MODULE MCTransferQueue ---------------------------
EXTENDS TransferQueue

CONSTANTS a, b

OneTerminal == {a}
TwoTerminals == {a, b}
OneTab == <<a>>
TwoTabs == <<a, b>>
TwoSlots == {1, 2}
ThreeSlots == {1, 2, 3}
=============================================================================
