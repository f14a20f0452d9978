--------------------------- MODULE UveAggregator ---------------------------
(***************************************************************************)
(* The path from a collector's UVE write to the aggregate Redis of one     *)
(* owned partition in contrail-alarm-gen:                                  *)
(*   collector Redis + Kafka message                                       *)
(*     -> UveStreamProc.msg_handler_single / resource_check (consumer)     *)
(*     -> Controller.handle_uve_notifq (coalescing into _uveq[part])       *)
(*     -> run_uve_processing: pop <= 200 keys, handle_uve_notif            *)
(*        (UVEServer.get_uve + AGKeyInfo delta), requeue on failure        *)
(*     -> run_uve_agg / send_agg_uve (epoch check, AGPARTKEYS,             *)
(*        AGPARTVALUES), reconnect_agg_uve after an aggregate-Redis        *)
(*        restart.                                                         *)
(* A UVE struct value is abstracted to the function from contributing      *)
(* collectors to their values, which is what ParallelAggregator merges.    *)
(***************************************************************************)
EXTENDS Integers, SequencesExt

CONSTANTS
    Colls,        \* collector Redis instances (one generator each)
    Keys,         \* UVE keys of the partition
    Types,        \* UVE struct type names
    Vals,         \* struct values a generator may write
    NoVal,        \* the struct is absent from the collector's Redis
    Batch,        \* keys popped per iteration (200 in the code)
    MaxWrites,    \* bound on generator writes
    Faults,       \* enabled fault kinds, a subset of FaultKinds
    MaxFaults     \* bound on injected faults

FaultKinds == {"read", "consumer", "flap", "redis", "send"}

VARIABLES
    src,      \* collector Redis contents: src[c][k][t]
    live,     \* UVEServer.redis_instances(): collectors get_uve reads
    msgs,     \* the Kafka partition not yet consumed, in order
    cons,     \* the UveStreamProc greenlet: "up" or "down" (pausing)
    synced,   \* disc_rset / the collectors in _uvedb
    uvedb,    \* _uvedb: the (key, type) pairs seen per collector
    uveq,     \* _uveq[part]: key -> entry
    qord,     \* insertion order of the OrderedDict _uveq[part]
    phase,    \* run_uve_processing: "idle", "notif" or "agg"
    batch,    \* the keys of pendingset[part], in pop order
    pend,     \* pendingset[part]: key -> entry
    idx,      \* position in batch of the next key handle_uve_notif takes
    ok,       \* handle_uve_notif's success flag
    out,      \* handle_uve_notif's output
    info,     \* ptab_info[part]: AGKeyInfo.current_dict per key
    agVals,   \* AGPARTVALUES:<inst>:<part>:<key>
    agKeys,   \* AGPARTKEYS:<inst>:<part>
    agEpoch,  \* AGPARTS:<inst>[part], 0 when absent
    acq,      \* the worker's acq_time
    lkey,     \* the liveness key <moduleid>:<instance_id> exists
    conn,     \* run_uve_processing's lredis is not None
    writes, faults

vars == <<src, live, msgs, cons, synced, uvedb, uveq, qord, phase, batch,
          pend, idx, ok, out, info, agVals, agKeys, agEpoch, acq, lkey, conn, writes,
          faults>>

MaxEpoch == 1 + MaxFaults

(* A struct absent from a view, and a UVE with no structs. *)
Absent == [c \in {} |-> NoVal]
NoUve == [t \in Types |-> Absent]

(* UVEServer.get_uve over the collectors in S: per type, the contributions *)
(* of the collectors that hold it.                                         *)
View(S, k) ==
    [t \in Types |-> [c \in {d \in S : src[d][k][t] # NoVal} |-> src[c][k][t]]]

(* Entries of _uveq: absent, None (all types) or a set of struct names. *)
NoEntry == [q |-> FALSE, all |-> FALSE, types |-> {}]
Full == [q |-> TRUE, all |-> TRUE, types |-> {}]
Typed(S) == [q |-> TRUE, all |-> FALSE, types |-> S]

(* Mutant: a typed entry already queued does not take the new struct names. *)
Coalesce_DropTypes(e, new) ==
    IF new.all THEN Full ELSE IF e.q THEN e ELSE new

(* One "for uv,types in uves.items()" step of handle_uve_notifq. *)
Coalesce(e, new) ==
    IF new.all THEN Full
    ELSE IF e.q THEN (IF e.all THEN e ELSE Typed(e.types \cup new.types))
    ELSE new

(* handle_uve_notifq(part, uves) for uves given as a sequence of keys ks   *)
(* and a map from key to entry; new keys go to the end of the OrderedDict. *)
NotifQ(q, ord, ks, chg) ==
    [uveq |-> [k \in Keys |-> IF k \in ToSet(ks) THEN Coalesce(q[k], chg[k])
                                                ELSE q[k]],
     qord |-> ord \o SelectSeq(ks, LAMBDA k : ~q[k].q)]

(* The output of handle_uve_notif for one key: no entry, None (delete the *)
(* whole UVE) or rows type -> value, Absent standing for None.            *)
NoOut == [del |-> FALSE, rows |-> {}]

----------------------------------------------------------------------------
(* Collector side: a generator changes a struct; the collector writes its *)
(* Redis and produces the Kafka message key|type|gen|coll.                *)
Write(c, k, t, v) ==
    /\ writes < MaxWrites
    /\ v # src[c][k][t]
    /\ src' = [src EXCEPT ![c][k][t] = v]
    /\ msgs' = Append(msgs, [c |-> c, k |-> k, t |-> t, del |-> v = NoVal])
    /\ writes' = writes + 1
    /\ UNCHANGED <<live, cons, synced, uvedb, uveq, qord, phase, batch, pend, idx,
                   ok, out, info, agVals, agKeys, agEpoch, acq, lkey, conn, faults>>

(* UVEServer.run loses (or regains) a collector's Redis or its pid. *)
CollectorFlap(c) ==
    /\ "flap" \in Faults /\ faults < MaxFaults
    /\ live' = IF c \in live THEN live \ {c} ELSE live \cup {c}
    /\ faults' = faults + 1
    /\ UNCHANGED <<src, msgs, cons, synced, uvedb, uveq, qord, phase, batch,
                   pend, idx, ok, out, info, agVals, agKeys, agEpoch, acq, lkey, conn,
                   writes>>

(* The aggregate Redis restarts empty. *)
RedisRestart ==
    /\ "redis" \in Faults /\ faults < MaxFaults /\ acq < MaxEpoch
    /\ agVals' = [k \in Keys |-> NoUve]
    /\ agKeys' = {} /\ agEpoch' = 0 /\ lkey' = FALSE
    /\ faults' = faults + 1
    /\ UNCHANGED <<src, live, msgs, cons, synced, uvedb, uveq, qord, phase,
                   batch, pend, idx, ok, out, info, acq, conn, writes>>
----------------------------------------------------------------------------
(* Consumer side. *)
Pairs(c) == {kt \in Keys \X Types : src[c][kt[1]][kt[2]] # NoVal}
KeysOf(P) == {kt[1] : kt \in P}
AllFull(ks) == [k \in ks |-> Full]

(* msg_handler_single: a message of an unsynced collector is ignored;     *)
(* otherwise _uvedb is updated and the callback gets {key: {type: ...}}.  *)
Consume ==
    /\ cons = "up" /\ msgs # <<>>
    /\ LET m == Head(msgs)
           pr == <<m.k, m.t>>
           nq == NotifQ(uveq, qord, <<m.k>>, [x \in {m.k} |-> Typed({m.t})])
       IN IF m.c \notin synced
          THEN UNCHANGED <<uvedb, uveq, qord>>
          ELSE /\ uvedb' = [uvedb EXCEPT ![m.c] = IF m.del THEN @ \ {pr}
                                                             ELSE @ \cup {pr}]
               /\ uveq' = nq.uveq /\ qord' = nq.qord
    /\ msgs' = Tail(msgs)
    /\ UNCHANGED <<src, live, cons, synced, phase, batch, pend, idx, ok, out, info,
                   agVals, agKeys, agEpoch, acq, lkey, conn, writes, faults>>

(* handle_resource_check: the redis instances UVEServer reports against  *)
(* the ones the partition has synced.                                      *)
ResourceDiff(cur) == [added |-> live \ cur, deleted |-> cur \ live]

(* UveStreamProc.resource_check with handle_resource_check: stop_partition *)
(* for each collector UVEServer lost (None for every key it had), then     *)
(* get_part and start_partition for each new one (None for every key of   *)
(* the partition in its Redis). get_part of a failing Redis returns {}.    *)
ResourceCheck ==
    /\ cons = "up" /\ live # synced
    /\ \E G \in SUBSET (live \ synced) :
         /\ G # {} => ("read" \in Faults /\ faults < MaxFaults)
         /\ LET dels == ResourceDiff(synced).deleted
                adds == ResourceDiff(synced).added
                part(c) == IF c \in G THEN {} ELSE Pairs(c)
                dk == UNION {KeysOf(uvedb[c]) : c \in dels}
                ak == UNION {KeysOf(part(c)) : c \in adds}
                q1 == NotifQ(uveq, qord, SetToSeq(dk), AllFull(dk))
                q2 == NotifQ(q1.uveq, q1.qord, SetToSeq(ak), AllFull(ak))
            IN /\ uvedb' = [c \in Colls |-> IF c \in dels THEN {}
                                            ELSE IF c \in adds THEN part(c)
                                            ELSE uvedb[c]]
               /\ uveq' = q2.uveq /\ qord' = q2.qord
               /\ faults' = IF G = {} THEN faults ELSE faults + 1
    /\ synced' = live
    /\ UNCHANGED <<src, live, msgs, cons, phase, batch, pend, idx, ok, out, info,
                   agVals, agKeys, agEpoch, acq, lkey, conn, writes>>

(* An exception in PartitionHandler._run: stop_partition() for all         *)
(* collectors, without a callback, then a 5 s pause.                       *)
ConsumerFail ==
    /\ "consumer" \in Faults /\ faults < MaxFaults /\ cons = "up"
    /\ cons' = "down" /\ synced' = {} /\ uvedb' = [c \in Colls |-> {}]
    /\ faults' = faults + 1
    /\ UNCHANGED <<src, live, msgs, uveq, qord, phase, batch, pend, idx, ok, out,
                   info, agVals, agKeys, agEpoch, acq, lkey, conn, writes>>

(* A new KafkaConsumer (group_id None) assigned to the partition starts at *)
(* the latest offset: messages not yet consumed are never read.            *)
ConsumerStart ==
    /\ cons = "down"
    /\ cons' = "up" /\ msgs' = <<>>
    /\ UNCHANGED <<src, live, synced, uvedb, uveq, qord, phase, batch, pend, idx,
                   ok, out, info, agVals, agKeys, agEpoch, acq, lkey, conn, writes,
                   faults>>
----------------------------------------------------------------------------
(* run_uve_processing. *)

(* Each iteration first looks at lredis.  If an exception left it None,    *)
(* get_redis_instance connects again (the aggregate Redis is reachable)   *)
(* and reconnect_agg_uve runs; otherwise it checks the liveness key, and  *)
(* if the aggregate Redis lost it, runs reconnect_agg_uve: set the key,   *)
(* and per worker reset_acq_time, kill the consumer, clear_agg_uve with   *)
(* the new acq_time and stop_uve_partition; then delete _uveq.            *)
RedisRestartDetected == ~conn \/ ~lkey

(* clear_agg_uve: both pipelines, leaving AGPARTVALUES and AGPARTKEYS of  *)
(* the partition empty.                                                    *)
ClearedVals == [k \in Keys |-> NoUve]

(* Mutant: reconnect_agg_uve without stop_uve_partition. *)
Reconnect_KeepInfo ==
    /\ phase = "idle" /\ RedisRestartDetected
    /\ lkey' = TRUE /\ conn' = TRUE /\ acq' = acq + 1
    /\ cons' = "down" /\ synced' = {} /\ uvedb' = [c \in Colls |-> {}]
    /\ agVals' = ClearedVals /\ agKeys' = {} /\ agEpoch' = acq + 1
    /\ uveq' = [k \in Keys |-> NoEntry] /\ qord' = <<>>
    /\ UNCHANGED <<src, live, msgs, phase, batch, pend, idx, ok, out, info,
                   writes, faults>>

(* Mutant: the reconnect after a lost connection skips clear_agg_uve,    *)
(* clearing only after a detected Redis restart.                          *)
Reconnect_ClearOnRestartOnly ==
    /\ phase = "idle" /\ RedisRestartDetected
    /\ lkey' = TRUE /\ conn' = TRUE /\ acq' = acq + 1
    /\ cons' = "down" /\ synced' = {} /\ uvedb' = [c \in Colls |-> {}]
    /\ agVals' = IF lkey THEN agVals ELSE ClearedVals
    /\ agKeys' = IF lkey THEN agKeys ELSE {}
    /\ agEpoch' = acq + 1
    /\ info' = [k \in Keys |-> NoUve]
    /\ uveq' = [k \in Keys |-> NoEntry] /\ qord' = <<>>
    /\ UNCHANGED <<src, live, msgs, phase, batch, pend, idx, ok, out, writes,
                   faults>>

Reconnect ==
    /\ phase = "idle" /\ RedisRestartDetected
    /\ lkey' = TRUE /\ conn' = TRUE /\ acq' = acq + 1
    /\ cons' = "down" /\ synced' = {} /\ uvedb' = [c \in Colls |-> {}]
    /\ agVals' = ClearedVals /\ agKeys' = {} /\ agEpoch' = acq + 1
    /\ info' = [k \in Keys |-> NoUve]
    /\ uveq' = [k \in Keys |-> NoEntry] /\ qord' = <<>>
    /\ UNCHANGED <<src, live, msgs, phase, batch, pend, idx, ok, out, writes,
                   faults>>

(* An iteration with nothing queued only sleeps. *)
Sleep ==
    /\ phase = "idle" /\ ~RedisRestartDetected /\ qord = <<>>
    /\ UNCHANGED vars

(* Mutant: the pop loop counts with icount <= 200 and takes one key more. *)
Pop_CountInclusive ==
    /\ phase = "idle" /\ ~RedisRestartDetected /\ qord # <<>>
    /\ LET n == IF Len(qord) < Batch + 1 THEN Len(qord) ELSE Batch + 1
           popped == Reverse(SubSeq(qord, Len(qord) - n + 1, Len(qord)))
       IN /\ batch' = popped
          /\ pend' = [k \in Keys |-> IF k \in ToSet(popped) THEN uveq[k]
                                                           ELSE NoEntry]
          /\ uveq' = [k \in Keys |-> IF k \in ToSet(popped) THEN NoEntry
                                                           ELSE uveq[k]]
          /\ qord' = SubSeq(qord, 1, Len(qord) - n)
    /\ phase' = "notif" /\ idx' = 1 /\ ok' = TRUE
    /\ out' = [k \in Keys |-> NoOut]
    /\ UNCHANGED <<src, live, msgs, cons, synced, uvedb, info, agVals, agKeys,
                   agEpoch, acq, lkey, conn, writes, faults>>

(* Pop at most Batch keys with OrderedDict.popitem() (last in, first out) *)
(* into pendingset and spawn handle_uve_notif.                             *)
Pop ==
    /\ phase = "idle" /\ ~RedisRestartDetected /\ qord # <<>>
    /\ LET n == IF Len(qord) < Batch THEN Len(qord) ELSE Batch
           popped == Reverse(SubSeq(qord, Len(qord) - n + 1, Len(qord)))
       IN /\ batch' = popped
          /\ pend' = [k \in Keys |-> IF k \in ToSet(popped) THEN uveq[k]
                                                           ELSE NoEntry]
          /\ uveq' = [k \in Keys |-> IF k \in ToSet(popped) THEN NoEntry
                                                           ELSE uveq[k]]
          /\ qord' = SubSeq(qord, 1, Len(qord) - n)
    /\ phase' = "notif" /\ idx' = 1 /\ ok' = TRUE
    /\ out' = [k \in Keys |-> NoOut]
    /\ UNCHANGED <<src, live, msgs, cons, synced, uvedb, info, agVals, agKeys,
                   agEpoch, acq, lkey, conn, writes, faults>>

(* AGKeyInfo.update (D = every type) or update_single for each type of D: *)
(* the new current_dict, and the rows for the structs that were added,    *)
(* changed or removed.                                                     *)
KeyInfoUpdate(cur, data, D) ==
    [t \in Types |-> IF t \in D THEN data[t] ELSE cur[t]]
KeyInfoDelta(cur, data, D) ==
    {<<t, data[t]>> : t \in {u \in D : cur[u] # data[u]}}

(* handle_uve_notif for one key: get_uve, restricted to the queued types,  *)
(* reads every live collector; those in F raise and set failures. The     *)
(* AGKeyInfo is updated (update for None, update_single per type) and the *)
(* delta becomes output[uv]; an empty UVE is deleted from ptab_info and   *)
(* output[uv] = None.                                                      *)
GetUve(F) ==
    /\ phase = "notif" /\ idx <= Len(batch)
    /\ F # {} => ("read" \in Faults /\ faults < MaxFaults)
    /\ LET k == batch[idx]
           D == IF pend[k].all THEN Types ELSE pend[k].types
           data == View(live \ F, k)
           new == KeyInfoUpdate(info[k], data, D)
           delta == KeyInfoDelta(info[k], data, D)
       IN /\ info' = [info EXCEPT ![k] = new]
          /\ out' = [out EXCEPT ![k] = IF new = NoUve
                                       THEN [del |-> TRUE, rows |-> {}]
                                       ELSE [del |-> FALSE, rows |-> delta]]
    /\ ok' = (ok /\ F = {})
    /\ idx' = idx + 1
    /\ faults' = IF F = {} THEN faults ELSE faults + 1
    /\ UNCHANGED <<src, live, msgs, cons, synced, uvedb, uveq, qord, phase,
                   batch, pend, agVals, agKeys, agEpoch, acq, lkey, conn, writes>>

(* After joinall: a failed handle_uve_notif returns None and the working  *)
(* set is requeued with handle_uve_notifq; otherwise run_uve_agg starts.  *)
Join ==
    /\ phase = "notif" /\ idx > Len(batch)
    /\ IF ok
       THEN /\ phase' = "agg"
            /\ UNCHANGED <<uveq, qord, out>>
       ELSE LET nq == NotifQ(uveq, qord, batch, pend)
            IN /\ uveq' = nq.uveq /\ qord' = nq.qord
               /\ phase' = "idle" /\ out' = [k \in Keys |-> NoOut]
    /\ UNCHANGED <<src, live, msgs, cons, synced, uvedb, batch, pend, idx, ok,
                   info, agVals, agKeys, agEpoch, acq, lkey, conn, writes, faults>>

(* run_uve_agg with no rows sends nothing. *)
SendNothing ==
    /\ phase = "agg" /\ \A k \in Keys : out[k] = NoOut
    /\ phase' = "idle"
    /\ UNCHANGED <<src, live, msgs, cons, synced, uvedb, uveq, qord, batch,
                   pend, idx, ok, out, info, agVals, agKeys, agEpoch, acq, lkey, conn,
                   writes, faults>>

(* Mutant: send_agg_uve without the exists/srem pass over check_keys. *)
IndexAfter_NoExistsCheck(keys0, dels, adds, checks, vals) ==
    (keys0 \ dels) \cup adds

(* AGPARTKEYS after the srem/sadd pipeline and the exists/srem pass over *)
(* the keys that lost a struct.                                           *)
IndexAfter(keys0, dels, adds, checks, vals) ==
    ((keys0 \ dels) \cup adds) \ {k \in checks : vals[k] = NoUve}

(* The rows of send_agg_uve.  The epoch check clears the partition on a   *)
(* stale AGPARTS entry.  A whole-UVE delete is srem+delete; a None struct *)
(* is hdel and marks the key for the exists/srem check; a value is         *)
(* sadd+hset.                                                              *)
Stale == agEpoch # 0 /\ agEpoch # acq
BaseVals == IF Stale THEN ClearedVals ELSE agVals
BaseKeys == IF Stale THEN {} ELSE agKeys
RowFor(k, t) == {r \in out[k].rows : r[1] = t}
SentVals ==
    [k \in Keys |->
       IF out[k].del THEN NoUve
       ELSE [t \in Types |-> IF RowFor(k, t) = {} THEN BaseVals[k][t]
                             ELSE (CHOOSE r \in RowFor(k, t) : TRUE)[2]]]
Dels == {k \in Keys : out[k].del}
Adds == {k \in Keys : \E r \in out[k].rows : r[2] # Absent}
Checks == {k \in Keys : \E r \in out[k].rows : r[2] = Absent}

(* run_uve_agg and its send_agg_uve calls, every pipeline executed.        *)
SendAgg ==
    /\ phase = "agg"
    /\ \E k \in Keys : out[k] # NoOut
    /\ agVals' = SentVals
    /\ agKeys' = IndexAfter(BaseKeys, Dels, Adds, Checks, SentVals)
    /\ agEpoch' = acq
    /\ phase' = "idle" /\ out' = [k \in Keys |-> NoOut]
    /\ UNCHANGED <<src, live, msgs, cons, synced, uvedb, uveq, qord, batch,
                   pend, idx, ok, info, acq, lkey, conn, writes, faults>>

(* send_agg_uve raising ConnectionError: at its first call (hget), or     *)
(* after the row pipeline has executed and before the exists/srem pass.   *)
(* gevs_out[part].get() re-raises, the rest of the rows are lost and the  *)
(* loop's exception handler sets lredis None.  (AGPARTS always equals     *)
(* acq_time here, so clear_agg_uve's own two pipelines are not reached.)  *)
SendAggFail ==
    /\ phase = "agg" /\ "send" \in Faults /\ faults < MaxFaults /\ acq < MaxEpoch
    /\ \E k \in Keys : out[k] # NoOut
    /\ \/ UNCHANGED <<agVals, agKeys, agEpoch>>
       \/ /\ agVals' = SentVals
          /\ agKeys' = (BaseKeys \ Dels) \cup Adds
          /\ agEpoch' = acq
    /\ conn' = FALSE /\ faults' = faults + 1
    /\ phase' = "idle" /\ out' = [k \in Keys |-> NoOut]
    /\ UNCHANGED <<src, live, msgs, cons, synced, uvedb, uveq, qord, batch,
                   pend, idx, ok, info, acq, lkey, writes>>

----------------------------------------------------------------------------
(* The state after the first iteration connected to the aggregate Redis   *)
(* and every collector was synced, before any generator wrote.            *)
Init ==
    /\ src = [c \in Colls |-> [k \in Keys |-> [t \in Types |-> NoVal]]]
    /\ live = Colls /\ msgs = <<>>
    /\ cons = "up" /\ synced = Colls /\ uvedb = [c \in Colls |-> {}]
    /\ uveq = [k \in Keys |-> NoEntry] /\ qord = <<>>
    /\ phase = "idle" /\ batch = <<>> /\ pend = [k \in Keys |-> NoEntry]
    /\ idx = 1 /\ ok = TRUE /\ out = [k \in Keys |-> NoOut]
    /\ info = [k \in Keys |-> NoUve]
    /\ agVals = [k \in Keys |-> NoUve] /\ agKeys = {}
    /\ agEpoch = 1 /\ acq = 1 /\ lkey = TRUE /\ conn = TRUE
    /\ writes = 0 /\ faults = 0

Environment ==
    \/ \E c \in Colls, k \in Keys, t \in Types, v \in Vals \cup {NoVal} :
          Write(c, k, t, v)
    \/ \E c \in Colls : CollectorFlap(c)
    \/ RedisRestart
    \/ ConsumerFail

ConsumerStep == Consume \/ ResourceCheck \/ ConsumerStart

LoopStep == Reconnect \/ Pop \/ (\E F \in SUBSET live : GetUve(F)) \/ Join \/ SendAgg
            \/ SendNothing \/ SendAggFail

Next == Environment \/ ConsumerStep \/ LoopStep \/ Sleep

(* Both greenlets loop forever and gevent runs each when the other yields. *)
Fairness == WF_vars(ConsumerStep) /\ WF_vars(LoopStep)

Spec == Init /\ [][Next]_vars /\ Fairness

----------------------------------------------------------------------------
Entries == {NoEntry, Full} \cup {Typed(S) : S \in SUBSET Types \ {{}}}
Views == [Types -> UNION {[S -> Vals] : S \in SUBSET Colls}]

(* Every variable has its type; _uveq keeps each key once in insertion    *)
(* order, and pendingset never takes more keys than the pop loop's bound. *)
TypeOK ==
    /\ src \in [Colls -> [Keys -> [Types -> Vals \cup {NoVal}]]]
    /\ live \subseteq Colls /\ synced \subseteq Colls
    /\ msgs \in Seq([c : Colls, k : Keys, t : Types, del : BOOLEAN])
    /\ cons \in {"up", "down"}
    /\ uvedb \in [Colls -> SUBSET (Keys \X Types)]
    /\ uveq \in [Keys -> Entries] /\ qord \in Seq(Keys)
    /\ ToSet(qord) = {k \in Keys : uveq[k].q} /\ IsInjective(qord)
    /\ phase \in {"idle", "notif", "agg"} /\ Len(batch) <= Batch
    /\ pend \in [Keys -> Entries] /\ idx \in 1..(Len(batch) + 1)
    /\ info \in [Keys -> Views] /\ agVals \in [Keys -> Views]
    /\ agKeys \subseteq Keys /\ agEpoch \in 0..MaxEpoch /\ acq \in 1..MaxEpoch
    /\ conn \in BOOLEAN

(* Spec section 8: a UVE key is in AGPARTKEYS exactly when its             *)
(* AGPARTVALUES hash is non-empty, through every send_agg_uve,             *)
(* clear_agg_uve and Redis restart, whenever the loop holds a connection. *)
(* A send_agg_uve cut off after its row pipeline leaves an emptied key in *)
(* the index; the reconnect_agg_uve that follows must clear it before     *)
(* anything else is written.                                               *)
KeyIndexMatchesValues ==
    conn => \A k \in Keys : k \in agKeys <=> agVals[k] # NoUve

(* Nothing is in flight: the Kafka partition is consumed, the consumer is *)
(* up and synced with UVEServer, _uveq is empty and the loop is idle on a  *)
(* connected aggregate Redis.                                              *)
Quiet ==
    /\ msgs = <<>> /\ cons = "up" /\ synced = live
    /\ qord = <<>> /\ phase = "idle" /\ lkey /\ conn

(* Spec section 8: the structs in AGPARTVALUES of every key are those the *)
(* live collectors hold, once every notification has been processed.     *)
StoreMatchesSources ==
    Quiet => \A k \in Keys : agVals[k] = View(live, k)

(* The same, as the liveness promise: once the generators stop writing,   *)
(* AGPARTVALUES comes to equal the live collectors' contents and stays so.*)
Converges ==
    <>[](\A k \in Keys : agVals[k] = View(live, k))

============================================================================
