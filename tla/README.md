# TLA+ models of tf-analytics alarm generation

This directory holds TLA+ models of `contrail-alarm-gen` (`src/contrail-opserver/alarmgen.py`
and `partition_handler.py`) and the runs of the TLC model checker over them. `PROJECT.json`
lists every component, run, mutant, finding and hazard, and maps each TLA+ definition to
the source lines it translates.

## The system

`contrail-alarm-gen` is one Python process with cooperative gevent greenlets, so
no two greenlets ever run at the same instant:

* **Partition consumers** (`UveStreamProc`, `PartitionHandler` in `partition_handler.py`).
  There is one consumer per owned Kafka partition. It keeps per-collector, generator, table, key and type
  counters and reports changed keys through `Controller.handle_uve_notifq`, which coalesces
  them into the per-partition queue `_uveq`.
* **UVE processing loop** (`Controller.run_uve_processing`). It runs about once a second. Each iteration:
  1. stops the partitions released in `_uveqf`;
  2. (re)connects to the aggregate Redis;
  3. for every partition, drains at most 200 keys of `_uveq` into `handle_uve_notif`, which
     computes the `AGKeyInfo` delta and calls `examine_uve_for_alarms`;
  4. writes the rows with `send_agg_uve`, which does the epoch check against `AGPARTS`;
  5. runs the alarm-config change worker;
  6. finally calls `run_alarm_timers(int(now))`.
* **Alarm evaluator** (`AlarmProcessor`). It checks the OR-of-AND rule trees against a UVE.
* **Alarm state machine** (`AlarmStateMachine`). There is one record per (table, key, alarm type),
  in the state Idle, Soak_Active, Active or Soak_Idle. A class-level timer index
  `tab_alarms_timer` maps each second to a set of alarms, and `last_timers_run` is the scan pointer.
  Each change is published as `UVEAlarms` through `send_alarm_update`. Acks
  arrive in another greenlet through `alarm_ack_callback`.
* **Partition manager** (`libpart_cb`, `partition_change`, `handle_PartitionOwnershipReq`,
  `reconnect_agg_uve`). It starts and stops consumers and records releases in `_uveqf`.
* **Consumers of the aggregate store** (`UveStreamer`, `UveStreamPart`, `UveCacheProcessor`;
  `uveserver.py` with `ParallelAggregator`).
* **Peripheral parts:**
  * the config feed (`config_handler.py`, `vnc_cfg_api_client.py`);
  * the Kafka liveness probe;
  * the SNMP collector controller;
  * the topology collector;
  * logging;
  * test fixtures.

## Modules

### `AlarmStateMachine.tla`: the alarm state machine and its drivers

**State.**

| Variable | Code |
|---|---|
| `asm` | `Controller.tab_alarms`: an alarm maps to a record or to `NoASM`. The record holds the state, `uai` (the OR-list class, the timestamp in seconds, the ack flag), the three timeouts, `alarm_timestamp` and `head_timestamp`. |
| `timers` | `AlarmStateMachine.tab_alarms_timer`. An empty set stands for an absent slot. |
| `lastRun` | `last_timers_run` |
| `published` | the alarms in the last `UVEAlarms` sent for each key |
| `known` | whether the key has an `AGKeyInfo` in `ptab_info` |
| `up` | whether the process is alive |
| `now` | `int(time.time())` |

A timeout of `None` is 0, because the code tests timeouts for truthiness.

**Helpers.** Each helper is a translation of one method:

* `SetAlarms`, `ClearAlarms`, `LogTimestamp`, `IsAlarmFrequencyExceeded`, `RunUveSoakingTimer` and `DeleteTimers` return the new record and the timer slots it leaves and enters. `IsAlarmFrequencyExceeded` keeps the code's modular arithmetic.
* `FireSlot` is one slot of `run_timers` together with `update_tab_alarms_timer`. `Scan` is the `range(last_timers_run, curr+1)` loop.

**Actions.**

| Action | Code |
|---|---|
| `ExamineUve(k)` | `handle_uve_notif` for a live UVE, and the config-change worker. Both end in `examine_uve_for_alarms`. The evaluator's result is any set of alarm types with any OR-list class. |
| `UveDeleted(k)` | the branch of `handle_uve_notif` for a UVE whose structs are all gone |
| `StopUvePartition(p)` | `stop_uve_partition` |
| `RunAlarmTimers` | `run_alarm_timers`: the scan, then the deletes, then the update sends |
| `RunAlarmTimersExit` | the same call raising: an index entry without a record, a duplicate re-add, or `send_alarm_update` on a key entry that the delete loop removed. `run_uve_processing` turns the exception into `SystemExit(1)`. |
| `AlarmAck` | `alarm_ack_callback` |
| `Restart` | the supervisor restarting the process, which brings back a fresh `Controller.__init__` |
| `Tick` | the passing of wall-clock time |

Evaluations happen at any point between timer scans, and any number of seconds may pass between two scans (`Tick` without `RunAlarmTimers`). That is how a slow loop iteration (logged as "UVE Process saturated") is represented.

`Init` is the state after the first loop iteration: no alarms, and `last_timers_run = now+1`.

`MC_AlarmStateMachine.tla` supplies the model values and two per-alarm-type configurations:

* `MC_*`: `a1` soaks on both edges (ActiveTimer = IdleTimer = 1) and has a frequency check with FreqCheck_Times = 1 and FreqCheck_Seconds = 1. `a2` has no timers.

### `AlarmHysteresis.tla`: what the alarm state machine promises

This is the abstract specification of `AlarmStateMachine`, written from the spec §4.4 transition table rather than from the code. Per (key, alarm type) it holds only the FSM state, with `Absent` for no record. Per key it holds the alarm types the last UVEAlarms carries, plus whether the process is up. It has no clock, timer slots, ring buffer or `UVEAlarmInfo` contents.

| Action | What it allows |
|---|---|
| `Evaluate(k)` | each alarm type of `k` is asserted or cleared along a §4.4 edge. Soaking may be skipped only with ActiveTimer 0 or the frequency check on. An alarm that goes Idle keeps its record only with a FreqCheck_Seconds window |
| `Timers` | any alarms take timer edges: Soak_Active to Active, Soak_Idle to Idle or gone, Idle to gone |
| `Withdraw(p)` | some keys of partition `p` lose all their alarms |
| `Exit`, `Restart` | the process exits with its UVEAlarms withdrawn, or restarts with no records |

In every step, a key whose alarms changed state is republished with its raised set, and no other key's publication changes. `AlarmStateMachine` maps onto it with `AbsState` (a missing record is `Absent`, otherwise the record's `state`) and `AbsPub` (the `nm` of each published alarm). `Hysteresis == Abs!Spec` is checked as a PROPERTY of `alarm_safety`.

### `UveAggregator.tla`: from a collector write to the aggregate store

This module covers one owned partition, from the collector's Redis and Kafka message to `AGPARTVALUES`.

**State.**

| Variable | Code |
|---|---|
| `src` | the collectors' Redis contents, per collector, key and struct type |
| `live` | `UVEServer.redis_instances()`, the collectors `get_uve` reads |
| `msgs` | the unconsumed tail of the Kafka partition |
| `cons`, `synced`, `uvedb` | the `UveStreamProc` greenlet (`up`, or `down` while pausing after an exception), `disc_rset` and `_uvedb` |
| `uveq`, `qord` | `_uveq[part]` and its `OrderedDict` order |
| `phase`, `batch`, `pend`, `idx`, `ok`, `out` | where `run_uve_processing` is, `pendingset[part]`, and `handle_uve_notif`'s progress, `success` flag and `output` |
| `info` | `ptab_info[part]`: `AGKeyInfo.current_dict` per key |
| `agVals`, `agKeys`, `agEpoch`, `lkey` | `AGPARTVALUES`, `AGPARTKEYS`, `AGPARTS[part]` and the liveness key `<moduleid>:<instance_id>` |
| `conn` | the loop's `lredis` is not None |
| `acq` | the worker's `acq_time` |

A struct value is the map from contributing collectors to what each holds. This is what `ParallelAggregator` merges, and two views are equal exactly when their contributions are.

**Actions.**

| Action | Code |
|---|---|
| `Write` | a generator's update: the collector's Redis and its Kafka message |
| `CollectorFlap` | `UVEServer.run` losing or regaining a collector |
| `RedisRestart` | the aggregate Redis restarting empty |
| `Consume` | `msg_handler_single` and its `handle_uve_notifq` callback (`NotifQ`, `Coalesce`) |
| `ResourceCheck` | `resource_check`: `stop_partition(coll)` and `get_part` + `start_partition` |
| `ConsumerFail` / `ConsumerStart` | the exception path of `PartitionHandler._run`, and the new consumer at the latest offset |
| `Reconnect` | `reconnect_agg_uve` when the liveness key is missing, or when an exception left `lredis` None and `get_redis_instance` connects again |
| `Pop` | the 200-key `popitem()` loop |
| `GetUve(F)` | `handle_uve_notif` for one key, with the collectors in `F` raising in `get_uve` |
| `Join` | the requeue of a failed working set |
| `SendAgg` / `SendNothing` | `run_uve_agg` and `send_agg_uve`, including the epoch check and the exists/srem pass |
| `SendAggFail` | `send_agg_uve` raising `ConnectionError` at its first call, or after its row pipeline and before the exists/srem pass; the loop's handler sets `lredis` None (fault kind `send`) |
| `Sleep` | an iteration with an empty queue |

`Init` is the state after the first connection and collector sync, before any write.

`MC_UveAggregator.tla` supplies two collectors, one or two keys, two struct types, one value, and the fault selections.

### `PartitionManager.tla`: giving partitions to an instance and taking them away

One alarm-gen instance. Data is reduced to which UVE keys exist: a key is created once and never changes. The question is whether the store holds it, under which epoch, and whether a released partition leaves anything behind. The model has three kinds of greenlet: the libpartition callback, one worker per owned partition, and `run_uve_processing`. Each action runs from one yield point of its greenlet to the next.

| Variable | Code |
|---|---|
| `exists` | the UVE keys in the collectors' Redis |
| `partset`, `cb` | `_partset`, and where `libpart_cb` is (idle, the acquire wait, the release wait) with the partitions it adds and removes |
| `workers` | `_workers`: per owned partition, the worker's `acq_time` and whether it is starting, restarting after a kill, or synced |
| `uveq`, `uveqf` | `_uveq` (its domain is the queues that exist) and `_uveqf` |
| `info` | the keys of `ptab_info[part]` |
| `agKeys`, `agEpoch` | `AGPARTKEYS:<inst>:<part>` and `AGPARTS:<inst>[part]` (0 when absent) |
| `lconn`, `lkey`, `lpc`, `pending`, `outp` | the loop's `lredis`, the liveness key, where the loop is, `pendingset`, and the `run_uve_agg` greenlets with the `acq_time` each was given |
| `clock` | the last `UTCTimestampUsec` handed out as an `acq_time` |

| Action | Code |
|---|---|
| `KeyCreate(k)` | a new UVE; a synced worker reports it through `handle_uve_notifq` |
| `RedisRestart` | the aggregate Redis losing its contents |
| `LibpartCb(S)` | `libpart_cb` and `partition_change(add, True)` up to its wait (`Acquire`: `clear_agg_uve`, a new `UveStreamProc`) |
| `AcqReady`, `AcqTimeout` | the acquire wait ending with every `_uveq` entry present, or after 120 s without (the status is ignored). Either is followed by the release's kills, `_uveqf[p] = acq_time` and `del _workers[p]` (`ReleaseStart`). |
| `RelDone` | the release wait ending when no released partition has a `_uveq` entry |
| `WorkerSync(p)` | a starting or restarting worker's first `resource_check`, whose `start_partition` reports every key |
| `LoopTop` | the `_uveqf` cleanup (`stop_uve_partition`, `clear_agg_uve` only if `lredis`, `del _uveq[p]`), then the liveness check and `reconnect_agg_uve` |
| `LoopPop` / `LoopKeyError` | the pop of every non-empty queue, or `_workers[part]` raising `KeyError` for a released partition and the handler setting `lredis = None` |
| `LoopJoin` | after `handle_uve_notif` (keys new to `ptab_info` are output): the "Part gone" check, and a `run_uve_agg` greenlet per partition with the worker's `acq_time` as read at the spawn |
| `LoopAgg`: `AggEpoch(p)`, `AggRows(p)` | each greenlet's `send_agg_uve`, after the loop yields in `joinall`, in two steps: the `AGPARTS` `hget` with its `hset` or `clear_agg_uve` (`SendAggEpoch`), then the row pipeline's `sadd`s. A release or a Redis restart can come before either step. |

`Init` has no partitions and `lredis = None`. `start_libpart` may run in `__init__` (line 1030), so partitions can be acquired before the loop's first connection. That first connection is a `reconnect_agg_uve`, which kills the workers it finds.

`MC_PartitionManager.tla` supplies one partition with two keys, or two partitions with three keys.

### `ParallelAggregator.tla`: aggregating one attribute across generators

`ParallelAggregator.aggregate` (`uveserver.py`) turns the contributions of all generators to
one UVE attribute into the attribute `get_uve` returns. The module holds it as pure operators.
An attribute's input is a sequence of `<<source, contribution>>` pairs in the dict's order.
Annotations are `type`/`agg` fields; leaves, list elements and listkeys are model values or
small integers.

| Operator | Code |
|---|---|
| `IsElemSum` … `IsAppend`, `FirstOf` | the `_is_*` tests, which read only `list(oattr.keys())[0]` |
| `DefaultStep`, `DefaultAgg` | `_default_agg`: the itemset test and the append to the entry holding the value |
| `ElemSumAgg` | `_elem_sum_agg` |
| `IntLeaves`, `StructStep`, `StructSumAgg` | `_struct_sum_agg`'s `cmap` loop over every source |
| `UnionStep`, `ListUnionAgg` | `_list_union_agg` with its one `itemset` |
| `MapUnionAgg` | `_map_union_agg`, keys prefixed by the source |
| `AppendAgg` (with the helper `Concat`) | `_append_agg` |
| `ConsolidateStep`, `ConsolidateList`, `ResultDict` | `consolidate_list` and its `matched` loop. Without a listkey it returns `result`, `aggregate`'s whole dict (`ResultDict`), which then becomes the attribute. |
| `AggregateAttr` | `aggregate`'s dispatch for one attribute, flat |

`MC_PureAlgorithms.tla` enumerates the inputs as initial states (`Next` leaves them alone), and
checks each kind against a reference definition stated without the code's loops:
`GroupsSources`, `SumsFieldwise`, `IsSetUnion` and `FoldsByListkey`.
`uve_attr_flatten` is not in this repository. Of its effects only the one that changes
structure is kept: a single default value returned without its source list.

**Append lists without a listkey** (`uveserver.py:817-818`). `consolidate_list` returns `result`,
the dict `aggregate` is building, not the list. `aggregate` then stores that dict (flattened when
`flat`) as the attribute, so the attribute holds the UVE's whole result. Unflattened, it is a
circular reference. Spec §4.2 says such a list aggregates to the concatenation. `ConsolidateList`
returns `ResultDict` here, as the code does. `AppendFoldsByListkey` is checked only on lists with
a listkey, and no run checks this case yet.

### `AlarmEvaluator.tla`: checking a UVE against an alarm's rules

`AlarmProcessor.process_alarms` and `_evaluate_uve_for_alarms` (`alarmgen.py`) decide, for an
enabled alarm, whether a UVE raises it and with which rule matches. The module holds them as
pure operators. A Python value is a record `[t, n, s, f, l]` of one shape for every kind (None,
int, str, dict, list), so that TLC can compare any two. Dict keys come in the order of the
constant `NameSeq`. Strings are the digits "0".."2", which `json.loads` turns into ints, or
attribute names, which it rejects. A walk result is `Res(value, status)`, a fan-out
`Many(results)`, and `Undef` the None that `_get_uve_attribute` returns for a path through an
int. Comparison verdicts are "T", "F" and "E" (a raised `TypeError`).

| Operator | Code |
|---|---|
| `GetUveAttribute` (with `KeysOf`, `Parses`, `Digits`) | `_get_uve_attribute`: `*`/`__value`, `__key`, a key lookup, the list fan-out and the `json.loads` of a str |
| `Loads` | the two `json.loads` attempts of `_compare_operand_vals` |
| `PyLess`, `PyLe`, `StrRank` | Python 3's `<` and `<=` on ints, strs and lists, raising on any other pair |
| `RangeOf`, `SizeIs` | `range`'s chained comparison and the `size==`/`size!=` length test |
| `CompareOperandVals` | `_compare_operand_vals`, each operator with its None rules |
| `JsonValue`, `AlarmMatch` | `_get_json_value` and `_get_alarm_match`, without the variables |
| `PairVerdict`, `FanOutcome` | one element pair of the fan-out loops, and the `match_list` test |
| `CondOutcome` | one pass of the `and_list` loop body: the status tests, the three fan-out cases and the scalar case |
| `Conjoin`, `AndStep`, `AndListOutcome` | the `and_list` loop with its `break` |
| `Disjoin`, `OrStep` | the `or_list` loop; an exception leaves it and the function |
| `ProcessAlarms`, `Publish` | `_evaluate_uve_for_alarms`, and `process_alarms`'s use of it: an `or_list` gives alarm rules, none gives no entry, an exception gives `AlarmRules(None)` |

`MC_PureAlgorithms` checks `CompareOperandVals` on every pair of eleven operand values against
spec 4.3's null table and the complement pairs (`ComparisonsConsistent`). It checks
`ProcessAlarms` on every bounded UVE and rule against a statement of the OR-of-AND result that
has no loops (`ShortCircuitSemantics`). Not modelled: the `parent_type == 'project'` filter,
plugins that override `__call__`, the `variables` of a condition, and the timer bookkeeping at
the top of `process_alarms`, which `AlarmStateMachine` models.

The model reproduces two disagreements with the specification. They are listed as hazards in
`PROJECT.json`.
* A fan-out element whose path misses an intermediate key is compared as None. So `X.l.s.v < 5`
  raises the alarm for an element without `s`, where spec 4.3 says that a missing path fails.
* A path with two fan-outs hands a list to `['value']`, which raises. The alarm is then published
  with null rules even when every element is missing.

## Runs

| Run | cfg | Result | What it shows |
|---|---|---|---|
| `alarm_safety` | `MC_AlarmStateMachine.cfg` | pass, 53 356 states | The index holds exactly each soaking or idle alarm, at the timeout its state waits for (`TimerIndexMatchesState`, spec §8). No pending timer is behind the scan pointer (`TimersNotSkipped`). The published UVEAlarms of every key equal what `get_uai` reports (`PublishedMatchesState`, spec §8 "published at least once"). This holds across evaluations, deletions, partition stops, acks, late scans, exits and restarts. Every step refines `AlarmHysteresis` (`Hysteresis`). |
| `alarm_liveness` | `MC_AlarmLiveness.cfg` | pass, 6 136 states | Every soaking or Idle record eventually becomes Active or is removed (`NoStuckAlarm`). |
| `alarm_timer_exit` | `MC_AlarmTimerExit.cfg` | violation | Trace: an alarm goes Active, is cleared to Soak_Idle (idle timeout t), and the next scan comes 2 s late. It fires the idle timer (Idle, delete timeout t+1) and then the delete timer, so the alarm is in both lists. The delete loop's `send_alarm_update` drops the empty `tab_alarms[tab][key]`, and the update loop's call raises `KeyError`. alarm-gen exits (`NeverExits`). |
| `alarm_stop_orphan` | `MC_AlarmStopOrphan.cfg` | violation | `StopWithdrawsAlarms`, with two keys of one partition. Trace: one key's alarm goes Active and is published, and that UVE is deleted: the alarm moves to Soak_Idle and the key leaves `ptab_info`. `stop_uve_partition` then walks only the keys still in `ptab_info`. The deleted key's alarm stays raised, and its timers keep running in the instance that gave the partition up. The keys are symmetric, so which one TLC names depends on the search (k2 in our runs). |
| `agg_safety` | `MC_UveAggSafety.cfg` | pass, 4 715 249 states | With every fault kind, `AGPARTKEYS` holds exactly the keys whose `AGPARTVALUES` hash is non-empty whenever the loop holds a connection (`KeyIndexMatchesValues`, spec §8). A `send_agg_uve` cut off after its row pipeline leaves an emptied key in the index until the next loop top, whose `reconnect_agg_uve` clears the partition. The mutant without the exists/srem pass breaks it only after a read failure has left the store behind `ptab_info`. |
| `agg_consistency` | `MC_UveAggConsistency.cfg` | pass, 666 769 states | Two keys are popped one per iteration, with two faults that restart the aggregate Redis or cut off a `send_agg_uve`. The rows a cut-off send loses come back through the resync that the reconnect forces. Whenever nothing is in flight, `AGPARTVALUES` equals the live collectors' contents (`StoreMatchesSources`, spec §8). Under weak fairness of the two greenlets, the store eventually equals the live contents and stays so (`Converges`). The type invariant also bounds `pendingset` by the pop loop's limit, which two keys and `Batch = 1` make bite (`TypeOK`). |
| `agg_read_failure` | `MC_UveAggReadFault.cfg` | violation | c2's `get_uve` raises while c2 holds nothing for the key, so the returned view is complete. `ptab_info` takes t1, the output is dropped and the key is requeued. The retry then computes no delta, and `AGPARTVALUES` never gets t1. |
| `agg_consumer_restart` | `MC_UveAggConsumerFault.cfg` | violation | The consumer fails, and a generator deletes t1 while it is down. The new consumer starts at the latest offset, so it skips the deletion. `start_partition` sends `None` only for keys in `PART2KEY`, so t1 stays in the store. |
| `agg_collector_flap` | `MC_UveAggFlapFault.cfg` | violation | `get_uve` reads c2's t1 before c2's message is consumed. UVEServer then drops c2. `stop_partition(c2)` finds the key absent from `_uvedb[c2]`, and the late message is ignored. c2's contribution stays in the store. |
| `partmgr_safety` | `MC_PartMgrSafety.cfg` | pass, 985 608 states | Two partitions, four ownership changes, one Redis restart and acquire timeouts. Whenever an owned partition's store holds keys and the liveness key is in Redis, `AGPARTS` has its current worker's `acq_time` (`StoreEpochIsOwners`, spec §4.6). A restart between a `send_agg_uve`'s `AGPARTS` check and its row pipeline does leave keys with no epoch: redis-py reconnects and the `sadd`s land in the emptied store. That lasts until the next loop top, which finds the liveness key gone and resets every owned partition. The property states that this window is the only one. Every release wait ends (`ReleaseCompletes`), so `libpart_cb` never reaches its `SystemExit`. |
| `partmgr_stale_cleanup` | `MC_PartMgrStaleCleanup.cfg` | violation | `OwnedPartitionsAggregated`, with no faults. Trace: p1 is acquired and its worker syncs. The loop's first connection runs `reconnect_agg_uve`, which kills the worker and deletes `_uveq[p1]`. p1 is released during the worker's pause; the wait finds no `_uveq[p1]` and passes at once, with `_uveqf[p1]` still set. p1 is acquired again and the new worker syncs. The loop top then runs the old release's cleanup: it deletes the new `_uveq[p1]`, and the owned partition's store stays without k1. A Redis restart opens the same window. |
| `pure_algorithms` | `MC_PureAlgorithms.cfg` | pass, 58 798 states | Each state is one attribute's contributions in one source order. Default values are listed once each, with exactly their holders in order, and a single value stands alone (`DefaultGroupsSources`). Summed structs carry the sum of each integer leaf over every source that has it, whichever source has it first (`StructSumFieldwise`). Union lists hold each element of any source once, and `@size` is their number (`UnionIsSetUnion`). Append lists with a listkey hold one entry per listkey, in order of first appearance, with summed counters (`AppendFoldsByListkey`). Lists without a listkey are not among its inputs: there `consolidate_list` returns the whole result dict, so the attribute is the UVE's result rather than the concatenation spec §4.2 states (see below). Every operator agrees with its complement whenever neither raises, and None orders below everything except that None < None and None > None are false (`CompareConsistent`). An alarm carries exactly its and_lists whose conditions all match, in order. An and_list stops at its first failing condition, and a condition that raises where it is evaluated gives null rules (`RuleShortCircuit`). |

Every property of a passing run has a mutant in `PROJECT.json`, a plausible bug that TLC shows the property catches:

* the ring-buffer head wrapping late;
* `clear_alarms` forgetting to cancel the active timer;
* `run_timers` stopping one slot short;
* the ack not being resent;
* the active timer firing only strictly after its timeout;
* the pop loop counting with `icount <= 200`, taking one key more than the bound;
* `send_agg_uve` without the exists/srem pass;
* coalescing that drops the new struct names;
* `reconnect_agg_uve` without `stop_uve_partition`;
* the reconnect after a lost connection skipping `clear_agg_uve`;
* an acquire that reuses the last `acq_time`;
* `send_agg_uve` neither setting nor checking `AGPARTS`;
* the loop top keeping the released partition's `_uveq` entry;
* `set_alarms` soaking a re-asserted Soak_Idle alarm again, which only `Hysteresis` catches;
* `_default_agg` adding a repeated value's source to the newest entry;
* `_struct_sum_agg` summing only the leaves of the first source;
* `_list_union_agg` resetting its itemset per source;
* `consolidate_list` never setting `matched`;
* `_compare_operand_vals`'s `<` without its both-None test;
* the `and_list` loop not breaking on a failed condition.

## Bounds and why they suffice

* **Key.** One key. Every cross-alarm interaction in this code is within a key: the shared `tab_alarms[tab][key]` entry and the single `UVEAlarms` per key. Different keys only share the timer index, and their entries never interact.
* **Alarm types.** Two alarm types, one with every timer and one with none. These exercise both branches of every method and the case where one key holds alarms that take different paths.
* **OR-list classes.** Two classes, enough for `is_new_alarm_same` to answer both ways.
* **Clock.** `MaxTime = 5`. Evaluations stop `EvalHorizon` seconds before it, so every timer they start can still fire. That leaves 3 to 4 seconds of evaluations: enough for Soak_Active → Active, Active → Soak_Idle → Idle → deleted, re-assertion from Idle and Soak_Idle, and a scan covering two slots.

* **Aggregator.**
  * Two collectors are the fewest for which a failed read can still return a complete view, and for which one collector's contribution can outlive it.
  * Two struct types exercise coalescing and the per-type removal that leaves a hash empty.
  * One value suffices, because a view changes whenever a contributor appears or goes.
  * `Batch = 1` with two keys makes the 200-key bound bite.
  * Three or four writes and one or two faults (named `MaxWrites` and `MaxFaults`) cover every trace above.
  * `acq` is bounded by `1 + MaxFaults`.

* **Partition manager.**
  * One partition with two keys is enough for the stale cleanup.
  * Two partitions, with one key in one and two in the other, let one callback add one partition and remove another.
  * `MaxChanges` bounds the ownership changes. Three changes (acquire, release, acquire) are the fewest that reach the stale cleanup, and the passing run allows four.
  * `MaxRedis` is one restart. `clock` is bounded by the acquires and reconnects these allow.

* **Aggregation algorithms.**
  * Three sources for the default aggregation, the fewest for which a repeated value can follow a different one (v1, v2, v1).
  * At most two sources for structs and lists (`MaxSources`). That is enough for a leaf or listkey that only a later source has, and for an element two sources share.
  * Lists of up to two elements (`MaxItems`), so a listkey can recur within one source and across sources.
  * Two leaves, two listkeys, one counter, and values 1..2.

* **Alarm evaluator.**
  * One attribute name, used at every level. Paths of up to three segments still reach every case of the walk.
  * Leaves None, 1 and "1". These give the digit string that `json.loads` coerces, and a missing value.
  * UVE values nest two levels deep, with dicts of that one name and lists of one or two elements. So a fan-out can have one element or two, and a missing or a scalar intermediate.
  * Five conditions. They cover a plain path, a `*` fan-out, a scalar path, two paths against each other, and `__key` in a list literal.
  * Rules of up to two and_lists of up to two conditions each. That is enough for a failure to precede an exception, and for a second and_list after a first that fails.
  * Eleven operand values for the comparison table. They include None, ints, both kinds of string, an empty dict, and lists that are empty, singleton, of a None and of two elements.

## Fairness

* **Clock and timer scan.** `run_uve_processing` loops forever and calls `run_alarm_timers` on every iteration, and time always advances. So the timer step (or its exit) and `Tick` are weakly fair.
* **Restart.** The process is run under a supervisor that restarts it (spec §7), so `Restart` is weakly fair.
* **Aggregator.** The consumer greenlet and `run_uve_processing` both loop forever, and gevent runs each when the other yields. So `ConsumerStep` and `LoopStep` are weakly fair. Writes and faults are inputs and get no fairness.
* **Partition manager.** The loop is weakly fair. The callback's waits poll every 0.1 s, so `AcqReady` and `RelDone` are weakly fair. So is a worker's resync, which its consumer loop reaches on its first poll. Key creation, Redis restarts, ownership changes and acquire timeouts are inputs and get no fairness.
* **Inputs.** Evaluations, deletions, stops and acks are external inputs and get no fairness.

## Not modelled yet, and the plan

The next sittings add, in this order:

1. **`UveAggregator`, done.** Still open:
   * composing it with `AlarmStateMachine`: alarms evaluated on a partial view;
   * the consumer's exit on a message it cannot parse;
   * an aggregate Redis that `get_redis_instance` cannot reach: the iteration goes on with `lredis` None, and `send_agg_uve` raises `SystemExit`, which `except Exception` does not catch, so the process exits;
   * the LIFO starvation of old keys, which needs unbounded input.
2. **`PartitionManager`, done for one instance.** Still open:
   * `handle_PartitionOwnershipReq` and `disc_cb_ag`'s withdraw, which call `partition_change` from other greenlets;
   * the Dup and "Partitions absent" branches, which `libpart_cb`'s own diff never reaches;
   * a kill that times out, and the 120 s release timeout;
   * the `workerset` publication;
   * a run of its own for the `KeyError` path (`LoopKeyError`, alarmgen.py:1509). The path is in the model and fires in `partmgr_safety`. It leads to a full reconnect and leaves the released partition's `AGPARTS` field behind, because the next loop top skips `clear_agg_uve` while `lredis` is None;
   * two instances sharing partitions through libpartition, which is not in this repository.
3. **An abstract alarm hysteresis specification, done** (`AlarmHysteresis`). Still open: a liveness part of it (soaking ends), which `NoStuckAlarm` states on the detailed module.
4. **`UveStreamer`/`UveStreamPart`.** Subscribe-then-sync against the store, and the stale `elem` in the stop path.
5. **Pure operators.**
   * `ParallelAggregator`, done for inputs where every source has the same schema (`pure_algorithms`). Still open: a violation run for append lists without a listkey (above); mixed schemas, where the first source's annotations pick the aggregation and a `KeyError` truncates the UVE; and a `_map_union_agg` reference.
   * The rule evaluator, done (`AlarmEvaluator`) without the project filter and the variables.
   * SNMP `MaxNinTtime`.

These parts are left out for good:

* the config API clients, topology collector, logging and Kafka probe, which are pure I/O;
* the test fixtures and `setup.py` files;
* the text and JSON formatting of UVEs.

The evaluator is abstracted in `AlarmStateMachine` to the set of asserted alarm types and their OR-list classes. An alarm-config change that alters the timers of an existing record is not represented, because the record keeps the configuration it was created with, as in the code.
