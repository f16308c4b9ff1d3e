---------------------------- MODULE MCTimerQueue ----------------------------
EXTENDS TimerQueue

MCDelays == {0, 1, 3, NaN}
=============================================================================
