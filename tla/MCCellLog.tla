----------------------------- MODULE MCCellLog -----------------------------
EXTENDS CellLog, TLC

CONSTANTS perror, line1, line2   \* a PError and its two messages

MCLines == perror :> <<line1, line2>>
=============================================================================
