--------------------------- MODULE MCElementData ---------------------------
EXTENDS ElementData, TLC

CONSTANTS e1, e2, e3, d1, d2, d3, d4, d5

MCElements == {e1, e2}
MCDataIds == {d1, d2, d3, d4, d5}
MCNames == {"id", "title"}
MCValues == {"a", ""}
=============================================================================
