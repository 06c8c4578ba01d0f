---------------------------- MODULE MCWorldState ----------------------------
EXTENDS WorldState
MCTimes == 1..2
MCOneTime == {1}
=============================================================================
