----------------------------- MODULE Threshold -----------------------------
(***************************************************************************)
(* The notification level of a usage ratio (thresholdLevel in              *)
(* internal/api/collector.go): 0, 80, 95 or 100 percent.                   *)
(***************************************************************************)
EXTENDS Integers

Levels == {0, 80, 95, 100}

\* The level a percentage falls in: the switch of thresholdLevel.
LevelOf(pct) ==
  IF pct >= 100 THEN 100 ELSE IF pct >= 95 THEN 95 ELSE IF pct >= 80 THEN 80 ELSE 0

ThresholdLevel(used, quota) ==
  IF quota <= 0 THEN (IF used > 0 THEN 100 ELSE 0)
                ELSE LevelOf((used * 100) \div quota)
=============================================================================
