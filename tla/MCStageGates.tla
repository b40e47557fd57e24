---------------------------- MODULE MCStageGates ----------------------------
EXTENDS StageGates

=============================================================================
