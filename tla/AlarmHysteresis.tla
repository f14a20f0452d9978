--------------------------- MODULE AlarmHysteresis ---------------------------
(***************************************************************************)
(* What the alarm state machine of alarm-gen promises, stated without      *)
(* clocks, timer slots, ring buffers or UVEAlarmInfo contents: the         *)
(* transition table of spec 4.4 per (key, alarm type), the record's        *)
(* lifecycle (created on an asserting evaluation, destroyed when it goes   *)
(* Idle with no retention window or its delete timer fires), and the       *)
(* UVEAlarms publication that follows every state change of a key.         *)
(*                                                                         *)
(* st[a] = Absent when the alarm has no state record.  pub[k] is the set   *)
(* of alarm types the last UVEAlarms of k carries.  The guards use the     *)
(* alarm types' timer configuration but not the passage of time: a timer   *)
(* step may fire any pending timer.                                        *)
(***************************************************************************)
EXTENDS FiniteSets

CONSTANTS
    Keys, AlarmTypes, Parts, PartOf,
    ActiveTimer, IdleTimer, FreqCheck_Seconds, FreqExceededCheck

VARIABLES
    st,     \* (key, alarm type) -> Absent or its FSM state
    pub,    \* key -> alarm types in its last published UVEAlarms
    up      \* the alarm-gen process is running

vars == <<st, pub, up>>

Absent == "Absent"
Idle == "Idle"
Soak_Active == "Soak_Active"
Active == "Active"
Soak_Idle == "Soak_Idle"

Alarms == Keys \X AlarmTypes

(* The alarm types of k that a UVEAlarms would report in a state.          *)
RaisedIn(s, k) == {n \in AlarmTypes : s[<<k, n>>] \in {Active, Soak_Idle}}

(* An evaluation asserting alarm type n (spec 4.4).                       *)
(* Soaking is skipped only with no ActiveTimer or when the frequency       *)
(* check is enabled and tripped.                                           *)
AssertEdge(from, to, n) ==
    \/ from \in {Absent, Idle} /\ to = Active
         /\ (ActiveTimer[n] = 0 \/ FreqExceededCheck[n])
    \/ from \in {Absent, Idle} /\ to = Soak_Active /\ ActiveTimer[n] # 0
    \/ from = Soak_Idle /\ to = Active
    \/ from \in {Soak_Active, Active} /\ to = from

(* Entering Idle on a clear: the record stays only with a retention        *)
(* window (FreqCheck_Seconds), otherwise it is destroyed at once.          *)
GoIdle(to, n) ==
    \/ to = Idle /\ FreqCheck_Seconds[n] # 0
    \/ to = Absent /\ FreqCheck_Seconds[n] = 0

(* An evaluation clearing alarm type n (spec 4.4).                        *)
ClearEdge(from, to, n) ==
    \/ from = Soak_Active /\ GoIdle(to, n)
    \/ from = Active /\ IdleTimer[n] = 0 /\ GoIdle(to, n)
    \/ from = Active /\ IdleTimer[n] # 0 /\ to = Soak_Idle
    \/ from \in {Absent, Idle, Soak_Idle} /\ to = from

(* Timers firing (spec 4.4).  A Soak_Idle alarm whose delete timer falls  *)
(* in the same scan goes straight to Absent.                              *)
TimerEdge(from, to, n) ==
    \/ from = Soak_Active /\ to = Active
    \/ from = Soak_Idle /\ (GoIdle(to, n) \/ to = Absent)
    \/ from = Idle /\ to = Absent
    \/ to = from

(* Every key of K whose alarms changed state gets a UVEAlarms reporting    *)
(* the new state; what is published for every other key stays.            *)
Publish(K) ==
    pub' = [k \in Keys |->
              IF k \in K /\ \E n \in AlarmTypes : st'[<<k, n>>] # st[<<k, n>>]
              THEN RaisedIn(st', k)
              ELSE pub[k]]

-----------------------------------------------------------------------------
(* examine_uve_for_alarms of one key: each of its alarm types is asserted  *)
(* or cleared.                                                             *)
Evaluate(k) ==
    /\ up
    /\ \E A \in SUBSET AlarmTypes :
         /\ \A n \in AlarmTypes :
              IF n \in A THEN AssertEdge(st[<<k, n>>], st'[<<k, n>>], n)
              ELSE ClearEdge(st[<<k, n>>], st'[<<k, n>>], n)
         /\ \A a \in Alarms : a[1] # k => st'[a] = st[a]
    /\ st' \in [Alarms -> {Absent, Idle, Soak_Active, Active, Soak_Idle}]
    /\ Publish({k})
    /\ UNCHANGED up

(* run_alarm_timers: any alarms move along timer edges.                    *)
Timers ==
    /\ up
    /\ st' \in [Alarms -> {Absent, Idle, Soak_Active, Active, Soak_Idle}]
    /\ \A a \in Alarms : TimerEdge(st[a], st'[a], a[2])
    /\ Publish(Keys)
    /\ UNCHANGED up

(* stop_uve_partition: some keys of partition p lose all their alarms.     *)
Withdraw(p) ==
    /\ up
    /\ \E K \in SUBSET {k \in Keys : PartOf[k] = p} :
         /\ st' = [a \in Alarms |-> IF a[1] \in K THEN Absent ELSE st[a]]
         /\ Publish(K)
    /\ UNCHANGED up

(* The process exits; its UVEAlarms are withdrawn with it.                 *)
Exit ==
    /\ up
    /\ up' = FALSE
    /\ pub' = [k \in Keys |-> {}]
    /\ UNCHANGED st

(* The process is restarted with no alarm state.                           *)
Restart ==
    /\ ~up
    /\ up' = TRUE
    /\ st' = [a \in Alarms |-> Absent]
    /\ UNCHANGED pub

Init ==
    /\ st = [a \in Alarms |-> Absent]
    /\ pub = [k \in Keys |-> {}]
    /\ up = TRUE

Next ==
    \/ \E k \in Keys : Evaluate(k)
    \/ Timers
    \/ \E p \in Parts : Withdraw(p)
    \/ Exit
    \/ Restart

Spec == Init /\ [][Next]_vars

=============================================================================
