-------------------------- MODULE MCTimerManager --------------------------
(***************************************************************************)
(* Model of TimerManager for TLC: two timers, periods 1 and 2, a clock     *)
(* that runs to 4 and may be set back once, and a rollover threshold of 1  *)
(* so that both a small and a large backward jump can happen.              *)
(***************************************************************************)
EXTENDS TimerManager

MCTimerIds == {1, 2}
MCPeriods == {1, 2}
=============================================================================
