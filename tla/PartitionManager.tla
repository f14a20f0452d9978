--------------------------- MODULE PartitionManager ---------------------------
(***************************************************************************)
(* Partition ownership in one alarm-gen instance (alarmgen.py): the        *)
(* libpartition callback libpart_cb and partition_change, the UveStreamProc *)
(* workers' resync (partition_handler.py), and the parts of the            *)
(* run_uve_processing loop that hand partitions over: the _uveqf cleanup   *)
(* at the loop top, the Redis liveness check and reconnect_agg_uve, the    *)
(* pop of _uveq, and the "Part gone" check before run_uve_agg.             *)
(*                                                                         *)
(* Data is abstracted to which UVE keys exist: a UVE key is created once   *)
(* in the collectors and never changes, so the question is only whether   *)
(* the aggregate store holds it. Values are the subject of UveAggregator.  *)
(*                                                                         *)
(* Greenlets: the callback (libpart_cb), one per worker, and the loop.     *)
(* gevent switches only where a greenlet yields: the callback at its      *)
(* kill and sleep(.1) waits, the loop at the liveness check and while the *)
(* handle_uve_notif greenlets run, a worker at its Kafka poll.            *)
(***************************************************************************)
EXTENDS Integers, FiniteSets, Functions

CONSTANTS
    Parts,        \* partition numbers this instance may be given
    Keys,         \* UVE keys
    PartOf,       \* the partition of each key
    Faults,       \* the faults enabled: a subset of FaultKinds
    MaxChanges,   \* bound on ownership changes reported by libpartition
    MaxRedis      \* bound on aggregate Redis restarts

FaultKinds == {"redis", "acqtimeout"}

ASSUME PartOf \in [Keys -> Parts] /\ Faults \subseteq FaultKinds

VARIABLES
    exists,     \* UVE keys present in the collectors' Redis
    partset,    \* AlarmGenerator._partset
    cb,         \* where libpart_cb is: [pc, add, del]
    workers,    \* _workers: owned partition -> [acq, st] of its UveStreamProc
    uveq,       \* _uveq: partition -> queued keys; DOMAIN = queues that exist
    uveqf,      \* _uveqf: partition -> acq_time, released, awaiting cleanup
    info,       \* ptab_info: partition -> keys with an AGKeyInfo
    agKeys,     \* AGPARTKEYS:<inst>:<part>
    agEpoch,    \* AGPARTS:<inst>[part]; 0 when the field is absent
    lconn,      \* the loop's lredis is not None
    lkey,       \* the liveness key <moduleid>:<instance_id> is in Redis
    lpc,        \* where run_uve_processing is: top, proc, join or agg
    pending,    \* pendingset: partition -> keys popped for handle_uve_notif
    outp,       \* the run_uve_agg greenlets: partition -> [acq, out, st] to send
    clock,      \* the last UTCTimestampUsec handed out as an acq_time
    changes,    \* ownership changes so far
    restarts    \* Redis restarts so far

vars == <<exists, partset, cb, workers, uveq, uveqf, info, agKeys, agEpoch,
          lconn, lkey, lpc, pending, outp, clock, changes, restarts>>

KeysOf(p) == {k \in Keys : PartOf[k] = p}

NoFun == [p \in {} |-> 0]

(* handle_uve_notifq: create the partition's queue if it has none, then   *)
(* add the keys. An empty key set still creates the queue.                *)
NotifQ(q, p, ks) ==
    [x \in DOMAIN q \cup {p} |->
        (IF x \in DOMAIN q THEN q[x] ELSE {}) \cup (IF x = p THEN ks ELSE {})]

(* clear_agg_uve without acq_time: hdel AGPARTS, delete the keys set.     *)
Cleared(f, S, v) == [p \in DOMAIN f |-> IF p \in S THEN v ELSE f[p]]

-----------------------------------------------------------------------------
(* Environment *)

(* A generator creates UVE key k. The worker that owns its partition and   *)
(* has synced reports it through msg_handler_single's callback; a worker  *)
(* still starting will find it with get_part when it syncs.               *)
KeyCreate(k) ==
    /\ k \notin exists
    /\ exists' = exists \cup {k}
    /\ uveq' = IF PartOf[k] \in DOMAIN workers /\ workers[PartOf[k]].st = "up"
                  THEN NotifQ(uveq, PartOf[k], {k}) ELSE uveq
    /\ UNCHANGED <<partset, cb, workers, uveqf, info, agKeys, agEpoch, lconn,
                   lkey, lpc, pending, outp, clock, changes, restarts>>

(* The aggregate Redis restarts and loses its contents. *)
RedisRestart ==
    /\ "redis" \in Faults
    /\ restarts < MaxRedis
    /\ agKeys' = [p \in Parts |-> {}]
    /\ agEpoch' = [p \in Parts |-> 0]
    /\ lkey' = FALSE
    /\ restarts' = restarts + 1
    /\ UNCHANGED <<exists, partset, cb, workers, uveq, uveqf, info, lconn, lpc,
                   pending, outp, clock, changes>>

-----------------------------------------------------------------------------
(* libpart_cb and partition_change *)

Acquire_StaleAcq(add) ==
    /\ agKeys' = Cleared(agKeys, add, {})
    /\ agEpoch' = Cleared(agEpoch, add, 0)
    /\ workers' = [p \in DOMAIN workers \cup add |->
                     IF p \in add THEN [acq |-> clock, st |-> "starting"] ELSE workers[p]]
    /\ clock' = clock

(* partition_change(add, True) up to its wait: for each new partition      *)
(* clear_agg_uve, then start a UveStreamProc with a fresh acq_time.        *)
Acquire(add) ==
    /\ agKeys' = Cleared(agKeys, add, {})
    /\ agEpoch' = Cleared(agEpoch, add, 0)
    /\ workers' = [p \in DOMAIN workers \cup add |->
                     IF p \in add THEN [acq |-> clock + 1, st |-> "starting"]
                     ELSE workers[p]]
    /\ clock' = IF add = {} THEN clock ELSE clock + 1

(* libpartition reports the owned set S. libpart_cb records it in         *)
(* _partset and calls partition_change(newset - oldset, True), which     *)
(* then waits for the new partitions' _uveq entries to appear.           *)
LibpartCb(S) ==
    /\ cb.pc = "idle"
    /\ changes < MaxChanges
    /\ S # partset
    /\ LET add == S \ partset IN
       /\ partset' = S
       /\ cb' = [pc |-> "acq_wait", add |-> add, del |-> partset \ S]
       /\ Acquire(add)
    /\ changes' = changes + 1
    /\ UNCHANGED <<exists, uveq, uveqf, info, lconn, lkey, lpc, pending, outp, restarts>>

(* partition_change(oldset - newset, False): kill each released worker,   *)
(* record its acq_time in _uveqf for the loop, delete it from _workers,   *)
(* then wait for the loop to remove its _uveq entry.                       *)
ReleaseStart ==
    /\ cb' = [cb EXCEPT !.pc = "rel_wait"]
    /\ uveqf' = [p \in DOMAIN uveqf \cup cb.del |->
                   IF p \in cb.del THEN workers[p].acq ELSE uveqf[p]]
    /\ workers' = Restrict(workers, DOMAIN workers \ cb.del)

(* The acquire wait ends because every new partition has a _uveq entry. *)
AcqReady ==
    /\ cb.pc = "acq_wait"
    /\ cb.add \subseteq DOMAIN uveq
    /\ ReleaseStart
    /\ UNCHANGED <<exists, partset, uveq, info, agKeys, agEpoch, lconn, lkey,
                   lpc, pending, outp, clock, changes, restarts>>

(* The 120 s acquire wait runs out: "Unable to start partitions". The      *)
(* status is not looked at by libpart_cb, which goes on to the release.    *)
AcqTimeout ==
    /\ "acqtimeout" \in Faults
    /\ cb.pc = "acq_wait"
    /\ ~ (cb.add \subseteq DOMAIN uveq)
    /\ ReleaseStart
    /\ UNCHANGED <<exists, partset, uveq, info, agKeys, agEpoch, lconn, lkey,
                   lpc, pending, outp, clock, changes, restarts>>

(* The release wait ends: no released partition has a _uveq entry. *)
RelDone ==
    /\ cb.pc = "rel_wait"
    /\ cb.del \cap DOMAIN uveq = {}
    /\ cb' = [pc |-> "idle", add |-> {}, del |-> {}]
    /\ UNCHANGED <<exists, partset, workers, uveq, uveqf, info, agKeys, agEpoch,
                   lconn, lkey, lpc, pending, outp, clock, changes, restarts>>

-----------------------------------------------------------------------------
(* UveStreamProc *)

(* A worker that is starting, or restarting after reconnect_agg_uve killed *)
(* it with RuntimeError, opens its consumer, and its first resource_check *)
(* finds every collector new: start_partition loads the keys from         *)
(* get_part and reports them all through the callback.                    *)
WorkerSync(p) ==
    /\ p \in DOMAIN workers
    /\ workers[p].st \in {"starting", "restarting"}
    /\ workers' = [workers EXCEPT ![p].st = "up"]
    /\ uveq' = NotifQ(uveq, p, KeysOf(p) \cap exists)
    /\ UNCHANGED <<exists, partset, cb, uveqf, info, agKeys, agEpoch, lconn,
                   lkey, lpc, pending, outp, clock, changes, restarts>>

-----------------------------------------------------------------------------
(* run_uve_processing *)

(* reconnect_agg_uve: set the liveness key; for each worker reset its     *)
(* acq_time, kill it with RuntimeError (it restarts and resyncs), reset   *)
(* the partition's store to the new epoch and stop_uve_partition; then    *)
(* delete every _uveq entry.                                              *)
Reconnected(ws) ==
    [workers |-> [p \in DOMAIN ws |-> [acq |-> clock + 1, st |-> "restarting"]],
     uveq    |-> NoFun]

AfterCleanup_Keep(q, F) == q

(* The _uveq entries left after the loop top's cleanup of partitions F.   *)
AfterCleanup(q, F) == Restrict(q, DOMAIN q \ F)

(* The loop top: for each partition in _uveqf, stop_uve_partition, delete  *)
(* it from _uveqf, clear_agg_uve if lredis is set, delete its _uveq entry. *)
(* Then, in the try block, reconnect if lredis is None or the liveness    *)
(* key is gone.                                                           *)
LoopTop ==
    /\ lpc = "top"
    /\ LET F    == DOMAIN uveqf
           q1   == AfterCleanup(uveq, F)
           info1 == Cleared(info, F, {})
           keys1 == IF lconn THEN Cleared(agKeys, F, {}) ELSE agKeys
           ep1   == IF lconn THEN Cleared(agEpoch, F, 0) ELSE agEpoch
           W    == DOMAIN workers
           R    == Reconnected(workers)
       IN /\ uveqf' = NoFun
          /\ IF ~lconn \/ ~lkey
               THEN /\ workers' = R.workers
                    /\ uveq' = R.uveq
                    /\ info' = Cleared(info1, W, {})
                    /\ agKeys' = Cleared(keys1, W, {})
                    /\ agEpoch' = Cleared(ep1, W, clock + 1)
                    /\ clock' = clock + 1
               ELSE /\ UNCHANGED <<workers, clock>>
                    /\ uveq' = q1
                    /\ info' = info1
                    /\ agKeys' = keys1
                    /\ agEpoch' = ep1
    /\ lconn' = TRUE
    /\ lkey' = TRUE
    /\ lpc' = "proc"
    /\ UNCHANGED <<exists, partset, cb, pending, outp, changes, restarts>>

(* Queues with keys in them. *)
NonEmpty == {p \in DOMAIN uveq : uveq[p] # {}}

(* For each partition with queued keys: check self._workers[part].failed(), *)
(* pop its keys into pendingset and spawn handle_uve_notif. With nothing   *)
(* to process the loop runs the timers, sleeps, and goes round.           *)
LoopPop ==
    /\ lpc = "proc"
    /\ NonEmpty \subseteq DOMAIN workers
    /\ pending' = [p \in NonEmpty |-> uveq[p]]
    /\ uveq' = [p \in DOMAIN uveq |-> IF p \in NonEmpty THEN {} ELSE uveq[p]]
    /\ lpc' = IF NonEmpty = {} THEN "top" ELSE "join"
    /\ UNCHANGED <<outp, exists, partset, cb, workers, uveqf, info, agKeys, agEpoch,
                   lconn, lkey, clock, changes, restarts>>

(* A partition with queued keys was released since the loop top, so       *)
(* self._workers[part] raises KeyError. The partitions iterated before it *)
(* have been popped, and their keys are lost with pendingset. The         *)
(* exception handler treats it as a Redis failure: lredis = None.         *)
LoopKeyError ==
    /\ lpc = "proc"
    /\ ~ (NonEmpty \subseteq DOMAIN workers)
    /\ \E popped \in SUBSET (NonEmpty \cap DOMAIN workers) :
          uveq' = [p \in DOMAIN uveq |-> IF p \in popped THEN {} ELSE uveq[p]]
    /\ lconn' = FALSE
    /\ lpc' = "top"
    /\ UNCHANGED <<exists, partset, cb, workers, uveqf, info, agKeys, agEpoch,
                   lkey, pending, outp, clock, changes, restarts>>

(* handle_uve_notif adds the keys new to ptab_info and outputs them; then *)
(* a partition no longer in _workers is "gone" and its output dropped,    *)
(* and any other runs run_uve_agg with the current worker's acq_time:     *)
(* send_agg_uve resets the partition when AGPARTS holds another epoch,    *)
(* then adds the keys.                                                    *)
Out(p) == pending[p] \ info[p]

Sent(p) == p \in DOMAIN workers /\ Out(p) # {}

SendAggEpoch_NoCheck(keys, ep, acq) == [keys |-> keys, epoch |-> ep]

(* send_agg_uve's first round trips on a partition whose store holds keys *)
(* under epoch ep: hget AGPARTS; an absent field is hset to acq, and any  *)
(* other epoch makes clear_agg_uve reset the partition to acq.            *)
SendAggEpoch(keys, ep, acq) ==
    CASE ep = 0   -> [keys |-> keys, epoch |-> acq]
      [] ep = acq -> [keys |-> keys, epoch |-> ep]
      [] OTHER    -> [keys |-> {}, epoch |-> acq]

(* After joinall on the handle_uve_notif greenlets: ptab_info has the new *)
(* keys; each partition still in _workers with output gets a run_uve_agg  *)
(* greenlet, given the worker's acq_time as it is now.                    *)
LoopJoin ==
    /\ lpc = "join"
    /\ info' = [p \in Parts |->
                  IF p \in DOMAIN pending THEN info[p] \cup pending[p] ELSE info[p]]
    /\ LET sends == {p \in DOMAIN pending : Sent(p)} IN
       /\ outp' = [p \in sends |-> [acq |-> workers[p].acq, out |-> Out(p), st |-> "epoch"]]
       /\ lpc' = IF sends = {} THEN "top" ELSE "agg"
    /\ pending' = NoFun
    /\ UNCHANGED <<exists, partset, cb, workers, uveq, uveqf, agKeys, agEpoch,
                   lconn, lkey, clock, changes, restarts>>

(* joinall on the run_uve_agg greenlets: each runs send_agg_uve with the *)
(* acq_time it was given, whoever owns the partition by now, and yields   *)
(* at every Redis round trip.  First the AGPARTS check.                   *)
AggEpoch(p) ==
    /\ lpc = "agg" /\ p \in DOMAIN outp /\ outp[p].st = "epoch"
    /\ LET S == SendAggEpoch(agKeys[p], agEpoch[p], outp[p].acq) IN
       /\ agKeys' = [agKeys EXCEPT ![p] = S.keys]
       /\ agEpoch' = [agEpoch EXCEPT ![p] = S.epoch]
    /\ outp' = [outp EXCEPT ![p].st = "rows"]
    /\ UNCHANGED <<exists, partset, cb, workers, uveq, uveqf, info, lconn, lkey,
                   lpc, pending, clock, changes, restarts>>

(* Then the row pipeline: sadd of every output key to AGPARTKEYS.  The    *)
(* greenlet ends; after the last one the loop goes round.                 *)
AggRows(p) ==
    /\ lpc = "agg" /\ p \in DOMAIN outp /\ outp[p].st = "rows"
    /\ agKeys' = [agKeys EXCEPT ![p] = @ \cup outp[p].out]
    /\ outp' = Restrict(outp, DOMAIN outp \ {p})
    /\ lpc' = IF DOMAIN outp = {p} THEN "top" ELSE "agg"
    /\ UNCHANGED <<exists, partset, cb, workers, uveq, uveqf, info, agEpoch, lconn,
                   lkey, pending, clock, changes, restarts>>

LoopAgg == \E p \in Parts : AggEpoch(p) \/ AggRows(p)

-----------------------------------------------------------------------------

Init ==
    /\ exists = {}
    /\ partset = {}
    /\ cb = [pc |-> "idle", add |-> {}, del |-> {}]
    /\ workers = NoFun
    /\ uveq = NoFun
    /\ uveqf = NoFun
    /\ info = [p \in Parts |-> {}]
    /\ agKeys = [p \in Parts |-> {}]
    /\ agEpoch = [p \in Parts |-> 0]
    /\ lconn = FALSE
    /\ lkey = FALSE
    /\ lpc = "top"
    /\ pending = NoFun
    /\ outp = NoFun
    /\ clock = 0
    /\ changes = 0
    /\ restarts = 0

Environment == (\E k \in Keys : KeyCreate(k)) \/ RedisRestart

Callback == (\E S \in SUBSET Parts : LibpartCb(S)) \/ AcqReady \/ AcqTimeout
            \/ RelDone

Loop == LoopTop \/ LoopPop \/ LoopKeyError \/ LoopJoin \/ LoopAgg

Next == Environment \/ Callback \/ (\E p \in Parts : WorkerSync(p)) \/ Loop

(* The loop never blocks for good, the callback's waits poll every 0.1 s, *)
(* and a worker's resync follows its consumer start.                      *)
Fairness ==
    /\ WF_vars(Loop)
    /\ WF_vars(AcqReady)
    /\ WF_vars(RelDone)
    /\ \A p \in Parts : WF_vars(WorkerSync(p))

Spec == Init /\ [][Next]_vars /\ Fairness

-----------------------------------------------------------------------------
(* Properties *)

TypeOK ==
    /\ exists \subseteq Keys
    /\ partset \subseteq Parts
    /\ cb.pc \in {"idle", "acq_wait", "rel_wait"}
    /\ DOMAIN workers \subseteq Parts
    /\ \A p \in DOMAIN workers :
          workers[p] \in [acq : 1..clock, st : {"starting", "restarting", "up"}]
    /\ \A p \in DOMAIN uveq : uveq[p] \subseteq KeysOf(p)
    /\ \A p \in DOMAIN uveqf : uveqf[p] \in 1..clock
    /\ info \in [Parts -> SUBSET Keys] /\ agKeys \in [Parts -> SUBSET Keys]
    /\ agEpoch \in [Parts -> 0..clock]
    /\ lpc \in {"top", "proc", "join", "agg"}
    /\ DOMAIN pending \subseteq DOMAIN uveq
    /\ \A p \in DOMAIN outp : /\ outp[p].acq \in 1..clock /\ outp[p].st \in {"epoch", "rows"}
                             /\ outp[p].out \subseteq KeysOf(p)

(* Nothing is in flight: the callback is idle, no released partition      *)
(* awaits cleanup, every worker has synced and its queue is drained, the  *)
(* loop is at its top and connected, and Redis has not restarted unseen.  *)
Quiet ==
    /\ cb.pc = "idle"
    /\ DOMAIN uveqf = {}
    /\ \A p \in DOMAIN workers : workers[p].st = "up"
    /\ \A p \in DOMAIN uveq : uveq[p] = {}
    /\ lpc = "top" /\ lconn /\ lkey

(* Spec 4.5 and 4.6: once the hand-over of partitions has settled, the    *)
(* aggregate store of each partition the instance owns holds every UVE     *)
(* key of that partition under the worker's epoch. This is what            *)
(* partition_change's acquire, the worker's resync, the loop's _uveqf      *)
(* cleanup and reconnect_agg_uve must achieve between them.               *)
OwnedPartitionsAggregated ==
    Quiet =>
      \A p \in DOMAIN workers :
         /\ agKeys[p] = KeysOf(p) \cap exists
         /\ agKeys[p] # {} => agEpoch[p] = workers[p].acq

(* Spec 4.6: the keys of an owned partition in the aggregate store are    *)
(* tagged, in AGPARTS, with the acq_time of the worker that owns it now,  *)
(* never with an earlier owner's: readers detect stale data by this       *)
(* epoch. Acquire, reconnect_agg_uve, send_agg_uve's epoch check and the  *)
(* _uveqf cleanup must keep it between them. It holds while the liveness  *)
(* key is in Redis: a restart between send_agg_uve's AGPARTS check and    *)
(* its row pipeline (redis-py reconnects) leaves keys with no epoch until *)
(* the next loop top sees the key gone and reconnect_agg_uve resets them.  *)
StoreEpochIsOwners ==
    lkey =>
      \A p \in DOMAIN workers :
         agKeys[p] # {} => agEpoch[p] = workers[p].acq

(* partition_change's release wait ends: after a kill, the loop removes    *)
(* the partition's _uveq entry, so libpart_cb never reaches "Unable to    *)
(* stop partitions" and SystemExit.                                       *)
ReleaseCompletes == cb.pc = "rel_wait" ~> cb.pc = "idle"

=============================================================================
