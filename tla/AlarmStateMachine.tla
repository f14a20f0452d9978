-------------------------- MODULE AlarmStateMachine --------------------------
(***************************************************************************)
(* The alarm state machine of contrail-alarm-gen (alarmgen.py).            *)
(*                                                                         *)
(* One AlarmStateMachine record per (table, key, alarm type), the global   *)
(* timer index AlarmStateMachine.tab_alarms_timer (absolute second ->      *)
(* set of alarms), the scan pointer last_timers_run, and the Controller    *)
(* handlers that drive them: examine_uve_for_alarms (evaluation results),  *)
(* the deleted-UVE branch of handle_uve_notif, stop_uve_partition,         *)
(* run_alarm_timers (called once per run_uve_processing iteration) and     *)
(* alarm_ack_callback.  The evaluator itself is abstracted: an evaluation  *)
(* of a key yields the set of asserted alarm types, each with the class of *)
(* its OR-list (a member of Rules).                                        *)
(*                                                                         *)
(* The table part of a key is not modelled separately: a key names its    *)
(* table.  Times are integer epoch seconds; a timeout of None is NoTimer   *)
(* (0), which the code treats the same way since it tests timeouts for    *)
(* truthiness and epoch seconds are never 0.                               *)
(***************************************************************************)
EXTENDS Integers, SequencesExt

CONSTANTS
    Keys,               \* UVE keys ("table:name")
    AlarmTypes,         \* alarm fq-names configured for the keys' table
    Parts,              \* partitions
    PartOf,             \* partition of each key
    Rules,              \* classes of OR-lists that is_new_alarm_same tells apart
    ActiveTimer,        \* per alarm type: UVEAlarmConfig.ActiveTimer
    IdleTimer,          \* per alarm type: UVEAlarmConfig.IdleTimer
    FreqCheck_Times,    \* per alarm type: UVEAlarmConfig.FreqCheck_Times
    FreqCheck_Seconds,  \* per alarm type: UVEAlarmConfig.FreqCheck_Seconds
    FreqExceededCheck,  \* per alarm type: UVEAlarmConfig.FreqExceededCheck
    MaxTime,            \* bound on the wall clock (seconds)
    NoASM               \* no AlarmStateMachine for this alarm in tab_alarms

ASSUME PartOf \in [Keys -> Parts]
ASSUME /\ ActiveTimer \in [AlarmTypes -> Nat]
       /\ IdleTimer \in [AlarmTypes -> Nat]
       /\ FreqCheck_Times \in [AlarmTypes -> Nat]
       /\ FreqCheck_Seconds \in [AlarmTypes -> Nat]
       /\ FreqExceededCheck \in [AlarmTypes -> BOOLEAN]
ASSUME MaxTime \in Nat \ {0}

VARIABLES
    now,        \* int(time.time())
    lastRun,    \* AlarmStateMachine.last_timers_run
    asm,        \* Controller.tab_alarms: alarm -> AlarmStateMachine record
    timers,     \* AlarmStateMachine.tab_alarms_timer: slot -> set of alarms
    published,  \* key -> the alarms carried by the last UVEAlarms sent for it
    known,      \* key -> the key has an AGKeyInfo in Controller.ptab_info
    up          \* the alarm-gen process is running

vars == <<now, lastRun, asm, timers, published, known, up>>

Idle        == "Idle"
Soak_Active == "Soak_Active"
Active      == "Active"
Soak_Idle   == "Soak_Idle"
States == {Idle, Soak_Active, Active, Soak_Idle}

Alarms == Keys \X AlarmTypes

NoTimer   == 0     \* a timeout attribute that is None
NoTimeout == -2    \* run_uve_soaking_timer returned timeout_value None

(* Longest delay any timer is scheduled ahead of the clock.               *)
TimerSpan == Max({ActiveTimer[n] : n \in AlarmTypes}
                 \cup {IdleTimer[n] : n \in AlarmTypes}
                 \cup {FreqCheck_Seconds[n] : n \in AlarmTypes})
Slots == 1 .. (MaxTime + TimerSpan)

(* Model bound: evaluations stop EvalHorizon seconds before MaxTime, so    *)
(* that every timer they start can fire before the clock bound.            *)
EvalHorizon == Max({ActiveTimer[n] : n \in AlarmTypes}
                   \cup {IdleTimer[n] + FreqCheck_Seconds[n] : n \in AlarmTypes})
CanEvaluate == now + EvalHorizon <= MaxTime

Uais == [rules : Rules, timestamp : 1 .. MaxTime, ack : BOOLEAN]

-----------------------------------------------------------------------------
(* AlarmStateMachine.__init__ followed by set_uai(uai).                    *)
NewASM(uai) ==
    [state |-> Idle, uai |-> uai,
     activeTimeout |-> NoTimer, idleTimeout |-> NoTimer, deleteTimeout |-> NoTimer,
     alarm_timestamp |-> <<>>, head_timestamp |-> 0]

(* get_uai: the alarm is reported only in Active and Soak_Idle.           *)
Reported(r) == r # NoASM /\ r.state \in {Active, Soak_Idle}

(* send_alarm_update: the UVEAlarms content for key k built from am.       *)
View(am, k) ==
    { [nm |-> a[2], rules |-> am[a].uai.rules, timestamp |-> am[a].uai.timestamp,
       ack |-> am[a].uai.ack] : a \in {b \in {k} \X AlarmTypes : Reported(am[b])} }

(* is_new_alarm_same: the OR-lists agree and the alarm is Active.          *)
IsNewAlarmSame(r, rules) == r.uai.rules = rules /\ r.state = Active

(* Variant of LogTimestamp whose head wraps one slot too late.            *)
LogTimestamp_WrapLate(r, nm) ==
    LET buf  == r.alarm_timestamp
        head == r.head_timestamp
    IN [r EXCEPT !.alarm_timestamp = IF Len(buf) <= head
                                      THEN Append(buf, r.uai.timestamp)
                                      ELSE [buf EXCEPT ![head + 1] = r.uai.timestamp],
                 !.head_timestamp  = (head + 1) % (FreqCheck_Times[nm] + 2)]

(* The ring-buffer update at the start of set_alarms' Idle branch.         *)
LogTimestamp(r, nm) ==
    LET buf  == r.alarm_timestamp
        head == r.head_timestamp
    IN [r EXCEPT !.alarm_timestamp = IF Len(buf) <= head
                                      THEN Append(buf, r.uai.timestamp)
                                      ELSE [buf EXCEPT ![head + 1] = r.uai.timestamp],
                 !.head_timestamp  = (head + 1) % (FreqCheck_Times[nm] + 1)]

(* is_alarm_frequency_exceeded, with the code's index arithmetic.          *)
IsAlarmFrequencyExceeded(r, nm) ==
    LET F     == FreqCheck_Times[nm]
        buf   == r.alarm_timestamp
        start == (r.head_timestamp + F + 1) % F
        end   == (r.head_timestamp + F) % F
    IN /\ FreqExceededCheck[nm]
       /\ F # 0
       /\ FreqCheck_Seconds[nm] # 0
       /\ Len(buf) >= F + 1
       /\ buf[end + 1] - buf[start + 1] <= FreqCheck_Seconds[nm]

(* Variant of SetAlarms that treats a re-asserted Soak_Idle alarm as a    *)
(* new one and soaks it again.                                             *)
SetAlarms_ResoakIdle(r, nm) ==
    LET logged == IF FreqExceededCheck[nm] THEN LogTimestamp(r, nm) ELSE r
        cancel == IF r.deleteTimeout # NoTimer THEN {r.deleteTimeout} ELSE {}
        soak   == now + ActiveTimer[nm]
    IN CASE r.state = Soak_Idle /\ ActiveTimer[nm] # 0 ->
              [rec |-> [r EXCEPT !.state = Soak_Active, !.activeTimeout = soak],
               rem |-> {r.idleTimeout}, add |-> {soak}, delete |-> FALSE]
         [] r.state = Soak_Idle ->
              [rec |-> [r EXCEPT !.state = Active],
               rem |-> {r.idleTimeout}, add |-> {}, delete |-> FALSE]
         [] r.state = Idle /\ (ActiveTimer[nm] = 0 \/ IsAlarmFrequencyExceeded(logged, nm)) ->
              [rec |-> [logged EXCEPT !.state = Active],
               rem |-> cancel, add |-> {}, delete |-> FALSE]
         [] r.state = Idle ->
              [rec |-> [logged EXCEPT !.state = Soak_Active, !.activeTimeout = soak],
               rem |-> cancel, add |-> {soak}, delete |-> FALSE]
         [] OTHER ->
              [rec |-> r, rem |-> {}, add |-> {}, delete |-> FALSE]

(* set_alarms: the new record, the timer slots it leaves and enters.       *)
SetAlarms(r, nm) ==
    LET logged == IF FreqExceededCheck[nm] THEN LogTimestamp(r, nm) ELSE r
        cancel == IF r.deleteTimeout # NoTimer THEN {r.deleteTimeout} ELSE {}
        soak   == now + ActiveTimer[nm]
    IN CASE r.state = Soak_Idle ->
              [rec |-> [r EXCEPT !.state = Active],
               rem |-> {r.idleTimeout}, add |-> {}, delete |-> FALSE]
         [] r.state = Idle /\ (ActiveTimer[nm] = 0 \/ IsAlarmFrequencyExceeded(logged, nm)) ->
              [rec |-> [logged EXCEPT !.state = Active],
               rem |-> cancel, add |-> {}, delete |-> FALSE]
         [] r.state = Idle ->
              [rec |-> [logged EXCEPT !.state = Soak_Active, !.activeTimeout = soak],
               rem |-> cancel, add |-> {soak}, delete |-> FALSE]
         [] OTHER ->
              [rec |-> r, rem |-> {}, add |-> {}, delete |-> FALSE]

(* Variant of ClearAlarms that leaves a Soak_Active alarm's active timer   *)
(* in the index.                                                           *)
ClearAlarms_KeepActiveTimer(r, nm) ==
    LET S == FreqCheck_Seconds[nm]
        ToIdle(rem) ==
            IF S # 0
            THEN [rec |-> [r EXCEPT !.state = Idle, !.deleteTimeout = now + S],
                  rem |-> rem, add |-> {now + S}, delete |-> FALSE]
            ELSE [rec |-> [r EXCEPT !.state = Idle],
                  rem |-> rem, add |-> {}, delete |-> TRUE]
    IN CASE r.state = Soak_Active -> ToIdle({})
         [] r.state = Active /\ IdleTimer[nm] = 0 -> ToIdle({})
         [] r.state = Active ->
              [rec |-> [r EXCEPT !.state = Soak_Idle, !.idleTimeout = now + IdleTimer[nm]],
               rem |-> {}, add |-> {now + IdleTimer[nm]}, delete |-> FALSE]
         [] OTHER -> [rec |-> r, rem |-> {}, add |-> {}, delete |-> FALSE]

(* clear_alarms: delete is the returned delete_alarm.                      *)
ClearAlarms(r, nm) ==
    LET S == FreqCheck_Seconds[nm]
        ToIdle(rem) ==
            IF S # 0
            THEN [rec |-> [r EXCEPT !.state = Idle, !.deleteTimeout = now + S],
                  rem |-> rem, add |-> {now + S}, delete |-> FALSE]
            ELSE [rec |-> [r EXCEPT !.state = Idle],
                  rem |-> rem, add |-> {}, delete |-> TRUE]
    IN CASE r.state = Soak_Active -> ToIdle({r.activeTimeout})
         [] r.state = Active /\ IdleTimer[nm] = 0 -> ToIdle({})
         [] r.state = Active ->
              [rec |-> [r EXCEPT !.state = Soak_Idle, !.idleTimeout = now + IdleTimer[nm]],
               rem |-> {}, add |-> {now + IdleTimer[nm]}, delete |-> FALSE]
         [] OTHER -> [rec |-> r, rem |-> {}, add |-> {}, delete |-> FALSE]

(* delete_timers: the slot an alarm is removed from when it is dropped.    *)
DeleteTimers(r) ==
    CASE r.state = Idle /\ r.deleteTimeout > 0 -> {r.deleteTimeout}
      [] r.state = Soak_Active /\ r.activeTimeout > 0 -> {r.activeTimeout}
      [] r.state = Soak_Idle /\ r.idleTimeout > 0 -> {r.idleTimeout}
      [] OTHER -> {}

(* Apply per-alarm timer operations (removals first) to the index.        *)
ApplyTimers(tm, ops) ==
    [s \in Slots |-> (tm[s] \ {a \in DOMAIN ops : s \in ops[a].rem})
                     \cup {a \in DOMAIN ops : s \in ops[a].add}]

(* Variant of RunUveSoakingTimer whose active timer fires only after its   *)
(* timeout has passed (> instead of >=).                                   *)
RunUveSoakingTimer_LateActive(r, nm, t) ==
    LET S == FreqCheck_Seconds[nm]
        idleExpired   == IF r.idleTimeout # NoTimer THEN t - r.idleTimeout ELSE 0
        deleteExpired == IF r.deleteTimeout > 0 THEN t - r.deleteTimeout ELSE 0
    IN CASE r.state = Soak_Active /\ t > r.activeTimeout ->
              [rec |-> [r EXCEPT !.state = Active], delete |-> FALSE, update |-> TRUE, tv |-> -1]
         [] r.state = Soak_Idle /\ idleExpired >= 0 /\ S # 0 ->
              [rec |-> [r EXCEPT !.state = Idle, !.deleteTimeout = t + S],
               delete |-> FALSE, update |-> TRUE, tv |-> t + S]
         [] r.state = Soak_Idle /\ idleExpired >= 0 ->
              [rec |-> [r EXCEPT !.state = Idle], delete |-> TRUE, update |-> FALSE, tv |-> NoTimeout]
         [] r.state = Idle /\ deleteExpired >= 0 ->
              [rec |-> r, delete |-> TRUE, update |-> FALSE, tv |-> NoTimeout]
         [] OTHER ->
              [rec |-> r, delete |-> FALSE, update |-> FALSE, tv |-> NoTimeout]

(* run_uve_soaking_timer with run_active_timer, run_idle_timer and         *)
(* run_delete_timer, called with the slot t as the current time.          *)
RunUveSoakingTimer(r, nm, t) ==
    LET S == FreqCheck_Seconds[nm]
        idleExpired   == IF r.idleTimeout # NoTimer THEN t - r.idleTimeout ELSE 0
        deleteExpired == IF r.deleteTimeout > 0 THEN t - r.deleteTimeout ELSE 0
    IN CASE r.state = Soak_Active /\ t >= r.activeTimeout ->
              [rec |-> [r EXCEPT !.state = Active], delete |-> FALSE, update |-> TRUE, tv |-> -1]
         [] r.state = Soak_Idle /\ idleExpired >= 0 /\ S # 0 ->
              [rec |-> [r EXCEPT !.state = Idle, !.deleteTimeout = t + S],
               delete |-> FALSE, update |-> TRUE, tv |-> t + S]
         [] r.state = Soak_Idle /\ idleExpired >= 0 ->
              [rec |-> [r EXCEPT !.state = Idle], delete |-> TRUE, update |-> FALSE, tv |-> NoTimeout]
         [] r.state = Idle /\ deleteExpired >= 0 ->
              [rec |-> r, delete |-> TRUE, update |-> FALSE, tv |-> NoTimeout]
         [] OTHER ->
              [rec |-> r, delete |-> FALSE, update |-> FALSE, tv |-> NoTimeout]

(* One iteration of run_timers' slot loop: every alarm in slot t runs its  *)
(* soaking timer, then update_tab_alarms_timer moves it.  A slot entry     *)
(* with no AlarmStateMachine (KeyError) or a re-add into a slot that       *)
(* already holds the alarm ("Timer error") makes the scan fatal.           *)
FireSlot(t, st) ==
    LET fired   == st.timers[t]
        missing == {a \in fired : st.asm[a] = NoASM}
        res     == [a \in fired \ missing |-> RunUveSoakingTimer(st.asm[a], a[2], t)]
        moved   == {a \in DOMAIN res : res[a].tv # NoTimeout \/ res[a].delete}
        readd   == {a \in DOMAIN res : res[a].tv >= 0}
        dup     == {a \in readd : a \in st.timers[res[a].tv]}
    IN [asm    |-> [a \in Alarms |-> IF a \in DOMAIN res THEN res[a].rec ELSE st.asm[a]],
        timers |-> [s \in Slots |-> IF s = t THEN st.timers[t] \ moved
                                    ELSE st.timers[s] \cup {a \in readd : res[a].tv = s}],
        delete |-> st.delete \cup {a \in DOMAIN res : res[a].delete},
        update |-> st.update \cup {a \in DOMAIN res : res[a].update},
        fatal  |-> st.fatal \/ missing # {} \/ dup # {}]

(* run_timers: the slots last_timers_run .. curr_time in order.            *)
RECURSIVE Scan(_, _, _)
Scan(t, curr, st) ==
    IF t > curr THEN st
    ELSE Scan(t + 1, curr, CHOOSE next \in {FireSlot(t, v) : v \in {st}} : TRUE)

(* Variant of TimerScan that stops one slot short of curr_time.           *)
TimerScan_ShortRange ==
    Scan(lastRun, now - 1, [asm |-> asm, timers |-> timers, delete |-> {}, update |-> {},
                            fatal |-> FALSE])

TimerScan ==
    Scan(lastRun, now, [asm |-> asm, timers |-> timers, delete |-> {}, update |-> {},
                        fatal |-> FALSE])

(* run_alarm_timers' first loop: the deleted alarms leave tab_alarms.      *)
AfterDeletes(st) == [a \in Alarms |-> IF a \in st.delete THEN NoASM ELSE st.asm[a]]

(* send_alarm_update drops tab_alarms[tab][key] once it is empty, so the   *)
(* second loop's send_alarm_update for such a key raises KeyError.         *)
KeyEntryGone(st, k) ==
    /\ \E d \in st.delete : d[1] = k
    /\ \A n \in AlarmTypes : AfterDeletes(st)[<<k, n>>] = NoASM

SendFails(st) == \E a \in st.update : KeyEntryGone(st, a[1])

(* examine_uve_for_alarms for key k, given the evaluator's result: the    *)
(* asserted alarm types, each with the class of its OR-list.               *)
Evaluation(k, asserted) ==
    LET N        == DOMAIN asserted
        existing == {n \in AlarmTypes : asm[<<k, n>>] # NoASM}
        delTypes == existing \ N
        same     == {n \in N \cap existing : IsNewAlarmSame(asm[<<k, n>>], asserted[n])}
        setTypes == N \ same
        Uai(n)   == [rules |-> asserted[n], timestamp |-> now, ack |-> FALSE]
        Base(n)  == IF asm[<<k, n>>] = NoASM THEN NewASM(Uai(n))
                    ELSE [asm[<<k, n>>] EXCEPT !.uai = Uai(n)]
        ops      == [a \in {k} \X (setTypes \cup delTypes) |->
                       IF a[2] \in setTypes THEN SetAlarms(Base(a[2]), a[2])
                       ELSE ClearAlarms(asm[a], a[2])]
    IN [asm     |-> [a \in Alarms |-> IF a \notin DOMAIN ops THEN asm[a]
                                      ELSE IF ops[a].delete THEN NoASM ELSE ops[a].rec],
        timers  |-> ApplyTimers(timers, ops),
        changed |-> setTypes \cup delTypes # {}]

Evaluate(k, asserted) ==
    LET res == Evaluation(k, asserted) IN
    /\ asm' = res.asm
    /\ timers' = res.timers
    /\ published' = IF res.changed THEN [published EXCEPT ![k] = View(res.asm, k)]
                    ELSE published

-----------------------------------------------------------------------------
(* Actions                                                                 *)

(* handle_uve_notif for a key that still has non-alarm structs (or only    *)
(* UVEAlarms left, which clears every alarm), and                          *)
(* alarm_config_change_worker: the key is evaluated.                       *)
ExamineUve(k) ==
    /\ up
    /\ CanEvaluate
    /\ \E N \in SUBSET AlarmTypes : \E asserted \in [N -> Rules] : Evaluate(k, asserted)
    /\ known' = [known EXCEPT ![k] = TRUE]
    /\ UNCHANGED <<now, lastRun, up>>

(* handle_uve_notif for a key whose structs are all gone: its AGKeyInfo is *)
(* deleted and every alarm of it is cleared.                               *)
UveDeleted(k) ==
    /\ up
    /\ CanEvaluate
    /\ Evaluate(k, [n \in {} |-> NoASM])
    /\ known' = [known EXCEPT ![k] = FALSE]
    /\ UNCHANGED <<now, lastRun, up>>

(* stop_uve_partition: every key of p in ptab_info loses its alarms.       *)
StopUvePartition(p) ==
    LET ks   == {k \in Keys : PartOf[k] = p /\ known[k]}
        gone == {a \in ks \X AlarmTypes : asm[a] # NoASM}
    IN /\ up
       /\ ks # {}
       /\ asm' = [a \in Alarms |-> IF a \in gone THEN NoASM ELSE asm[a]]
       /\ timers' = ApplyTimers(timers, [a \in gone |-> [rem |-> DeleteTimers(asm[a]), add |-> {}]])
       /\ published' = [k \in Keys |-> IF \E a \in gone : a[1] = k THEN {} ELSE published[k]]
       /\ known' = [k \in Keys |-> IF k \in ks THEN FALSE ELSE known[k]]
       /\ UNCHANGED <<now, lastRun, up>>

(* run_alarm_timers(int(curr)) at the end of a run_uve_processing loop.    *)
RunAlarmTimers ==
    LET st == TimerScan IN
    /\ up
    /\ ~st.fatal
    /\ ~SendFails(st)
    /\ asm' = AfterDeletes(st)
    /\ timers' = st.timers
    /\ lastRun' = now + 1
    /\ published' = [k \in Keys |->
                       IF \E a \in st.delete \cup st.update : a[1] = k
                       THEN View(AfterDeletes(st), k) ELSE published[k]]
    /\ UNCHANGED <<now, known, up>>

(* The same call raising: run_uve_processing turns it into SystemExit(1);  *)
(* the generator's UVEs, UVEAlarms included, are withdrawn with it.        *)
RunAlarmTimersExit ==
    LET st == TimerScan IN
    /\ up
    /\ st.fatal \/ SendFails(st)
    /\ up' = FALSE
    /\ published' = [k \in Keys |-> {}]
    /\ UNCHANGED <<now, lastRun, asm, timers, known>>

(* Variant of AlarmAck that sets the ack flag without sending UVEAlarms.  *)
AlarmAck_NoSend(k, nm, timestamp) ==
    LET a == <<k, nm>> IN
    /\ up
    /\ Reported(asm[a])
    /\ asm[a].uai.timestamp = timestamp
    /\ ~asm[a].uai.ack
    /\ asm' = [asm EXCEPT ![a].uai.ack = TRUE]
    /\ UNCHANGED <<now, lastRun, timers, published, known, up>>

(* alarm_ack_callback with a request that passes every check.              *)
AlarmAck(k, nm, timestamp) ==
    LET a == <<k, nm>> IN
    /\ up
    /\ Reported(asm[a])
    /\ asm[a].uai.timestamp = timestamp
    /\ ~asm[a].uai.ack
    /\ asm' = [asm EXCEPT ![a].uai.ack = TRUE]
    /\ published' = [published EXCEPT ![k] = View(asm', k)]
    /\ UNCHANGED <<now, lastRun, timers, known, up>>

(* The supervisor restarts alarm-gen; the first loop iteration has run.    *)
Restart ==
    /\ ~up
    /\ up' = TRUE
    /\ asm' = [a \in Alarms |-> NoASM]
    /\ timers' = [s \in Slots |-> {}]
    /\ lastRun' = now + 1
    /\ known' = [k \in Keys |-> FALSE]
    /\ UNCHANGED <<now, published>>

Tick ==
    /\ now < MaxTime
    /\ now' = now + 1
    /\ UNCHANGED <<lastRun, asm, timers, published, known, up>>

-----------------------------------------------------------------------------
(* Initially no alarm exists and the first run_alarm_timers has run.       *)
Init ==
    /\ now = 1
    /\ lastRun = 2
    /\ asm = [a \in Alarms |-> NoASM]
    /\ timers = [s \in Slots |-> {}]
    /\ published = [k \in Keys |-> {}]
    /\ known = [k \in Keys |-> FALSE]
    /\ up = TRUE

Next ==
    \/ \E k \in Keys : ExamineUve(k)
    \/ \E k \in Keys : UveDeleted(k)
    \/ \E p \in Parts : StopUvePartition(p)
    \/ RunAlarmTimers
    \/ RunAlarmTimersExit
    \/ \E k \in Keys, nm \in AlarmTypes, ts \in 1 .. MaxTime : AlarmAck(k, nm, ts)
    \/ Restart
    \/ Tick

(* The clock always advances, run_uve_processing calls run_alarm_timers    *)
(* on every iteration, and the supervisor restarts an exited process.      *)
(* Evaluations and acks are external inputs and get no fairness.           *)
Fairness ==
    /\ WF_vars(Tick)
    /\ WF_vars(RunAlarmTimers \/ RunAlarmTimersExit)
    /\ WF_vars(Restart)

Spec == Init /\ [][Next]_vars /\ Fairness

-----------------------------------------------------------------------------
(* Invariants                                                              *)

TypeOK ==
    /\ now \in 1 .. MaxTime
    /\ lastRun \in 1 .. (MaxTime + 1)
    /\ up \in BOOLEAN
    /\ known \in [Keys -> BOOLEAN]
    /\ timers \in [Slots -> SUBSET Alarms]
    /\ published \in [Keys -> SUBSET [nm : AlarmTypes, rules : Rules,
                                      timestamp : 1 .. MaxTime, ack : BOOLEAN]]
    /\ DOMAIN asm = Alarms
    /\ \A a \in Alarms :
         \/ asm[a] = NoASM
         \/ /\ asm[a].state \in States
            /\ asm[a].uai \in Uais
            /\ {asm[a].activeTimeout, asm[a].idleTimeout, asm[a].deleteTimeout}
                 \subseteq {NoTimer} \cup Slots
            /\ Len(asm[a].alarm_timestamp) <= FreqCheck_Times[a[2]] + 1
            /\ \A i \in DOMAIN asm[a].alarm_timestamp :
                 asm[a].alarm_timestamp[i] \in 1 .. MaxTime
            /\ asm[a].head_timestamp \in 0 .. FreqCheck_Times[a[2]]

(* The slot at which an alarm's pending timer is indexed, by its state.    *)
PendingSlot(r) ==
    CASE r.state = Soak_Active -> r.activeTimeout
      [] r.state = Soak_Idle   -> r.idleTimeout
      [] r.state = Idle        -> r.deleteTimeout
      [] OTHER                 -> NoTimer

(* The timer index holds exactly one entry per soaking or idle alarm, at   *)
(* the timeout its state is waiting for (spec 8: "every scheduled timer    *)
(* belongs to an alarm whose FSM state matches the timer's kind").  A      *)
(* stale entry makes run_timers raise KeyError or fire the wrong timer; a  *)
(* missing one leaves the alarm soaking forever and makes                  *)
(* _remove_timer_from_list raise KeyError.                                 *)
TimerIndexMatchesState ==
    up => \A s \in Slots :
            timers[s] = {a \in Alarms : asm[a] # NoASM /\ PendingSlot(asm[a]) = s}

(* No pending timer lies behind last_timers_run: run_timers only scans     *)
(* slots from last_timers_run on, so such a timer would never fire.        *)
TimersNotSkipped ==
    up => \A s \in Slots : timers[s] # {} => s >= lastRun

(* What alarm-gen last published in UVEAlarms for each key is what         *)
(* get_uai reports for the key's alarms now: every state change made by    *)
(* examine_uve_for_alarms, the timers, a partition stop or an ack is       *)
(* followed by send_alarm_update for that key.                             *)
PublishedMatchesState ==
    up => \A k \in Keys : published[k] = View(asm, k)

(* alarm-gen never exits on its own while handling alarms.                 *)
NeverExits == up

-----------------------------------------------------------------------------
(* Temporal properties                                                     *)

(* An alarm record that is not Active (soaking, or Idle waiting for its    *)
(* delete timer) eventually becomes Active or is removed: no record stays  *)
(* in a soak state or lingers in Idle once evaluations stop.               *)
NoStuckAlarm ==
    \A a \in Alarms :
        (asm[a] # NoASM /\ asm[a].state # Active) ~> (asm[a] = NoASM \/ asm[a].state = Active)

(* Spec 4.5, stop sequence: stopping a partition withdraws every alarm     *)
(* whose key lives in it: no UVEAlarms of those keys stays raised.        *)
(* stop_uve_partition walks only the keys still in ptab_info, so this is *)
(* about alarms of UVEs deleted before the stop.                          *)
StopWithdrawsAlarms ==
    [][\A p \in Parts :
         StopUvePartition(p) =>
            \A k \in Keys : PartOf[k] = p => published'[k] = {}]_vars


-----------------------------------------------------------------------------
(* Refinement of AlarmHysteresis: a missing record is Absent, a record is  *)
(* its FSM state, and a UVEAlarms is the set of alarm types it carries.    *)
AbsState == [a \in Alarms |-> IF asm[a] = NoASM THEN "Absent" ELSE asm[a].state]
AbsPub == [k \in Keys |-> {e.nm : e \in published[k]}]

Abs == INSTANCE AlarmHysteresis WITH st <- AbsState, pub <- AbsPub

(* Every step of alarm-gen's handlers (examine_uve_for_alarms,            *)
(* handle_uve_notif's delete branch, stop_uve_partition, run_alarm_timers, *)
(* alarm_ack_callback, exit and restart) is a step of the spec 4.4         *)
(* transition table: no state is skipped or entered from the wrong one,   *)
(* soaking is skipped only as ActiveTimer and FreqExceededCheck allow, a   *)
(* record outlives Idle only with a retention window, and each key whose   *)
(* alarms change state is republished.                                     *)
Hysteresis == Abs!Spec

=============================================================================
