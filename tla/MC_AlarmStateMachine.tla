------------------------ MODULE MC_AlarmStateMachine ------------------------
(* Model values and per-alarm-type configurations for AlarmStateMachine.   *)
EXTENDS AlarmStateMachine

CONSTANTS k1, k2, a1, a2, r1, r2, p1

MC_Keys   == {k1}
MC_Keys2  == {k1, k2}
MC_Rules  == {r1, r2}
MC_PartOf == [k \in Keys |-> p1]

(* a1 soaks on both edges and checks its assertion frequency; a2 has no   *)
(* timers at all, so it is set and cleared immediately.                    *)
Soaked(x, y) == [n \in AlarmTypes |-> IF n = a1 THEN x ELSE y]
MC_ActiveTimer       == Soaked(1, 0)
MC_IdleTimer         == Soaked(1, 0)
MC_FreqCheck_Times   == Soaked(1, 0)
MC_FreqCheck_Seconds == Soaked(1, 0)
MC_FreqExceededCheck == Soaked(TRUE, FALSE)
=============================================================================
