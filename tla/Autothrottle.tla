---------------------------- MODULE Autothrottle ----------------------------
(***************************************************************************)
(* The autothrottle service: the loop of cmd/autothrottle/main.go with its *)
(* ThrottleManager (internal/autothrottle/replication), which sets and     *)
(* removes replication throttles in Kafka's dynamic configs, and the       *)
(* handlers of the admin API (internal/autothrottle/api), which set and    *)
(* remove overrides in ZooKeeper (throttlestore) and trigger the loop.     *)
(*                                                                         *)
(* The loop is cut where it reads or writes what the handlers write, the   *)
(* override znodes: what it does in between, to the configs, nobody else   *)
(* reads or writes.  A failing request is a fault of a plan; the faults of *)
(* a behaviour are bounded by MaxFaults.  A crash in the middle of a step  *)
(* is a step some of whose writes fail, and a crash after it.              *)
(***************************************************************************)
EXTENDS ThrottleRates

CONSTANTS
    Modes,             \* subset of {"legacy", "native"}: -kafka-native-mode
    Handlers,          \* concurrent API requests
    OverrideConfigs,   \* the configs that requests set
    OverrideBrokers,   \* the brokers whose overrides requests set or remove
    GlobalOverrides,   \* whether requests set or remove the global override
    Utils,             \* network utilisation that the metrics may show
    MetricsFail,       \* whether metrics may fail or lack brokers
    FailureThreshold,  \* -failure-threshold
    CleanupAfter,      \* -cleanup-after
    SkipAutoDeleteThrottles,
    InitialRates,      \* rates that the brokers may be throttled by at first
    InitialOverrides,  \* configs of overrides that may be stored at first
    Unstable,          \* brokers that may go down and come back
    MaxRequests,       \* requests to the API in a behaviour
    MaxFaults          \* failed requests and crashes in a behaviour

ASSUME LoopAssumption ==
    /\ Modes \subseteq {"legacy", "native"}
    /\ OverrideBrokers \subseteq Brokers /\ Unstable \subseteq Brokers
    /\ OverrideConfigs \cup InitialOverrides \subseteq [rate : Nat, autoRemove : BOOLEAN]
    /\ Utils \subseteq Nat /\ InitialRates \subseteq Nat
    /\ FailureThreshold \in Nat /\ CleanupAfter \in Nat /\ MaxFaults \in Nat
    /\ MaxRequests \in Nat
    /\ {MetricsFail, GlobalOverrides, SkipAutoDeleteThrottles} \subseteq BOOLEAN

VARIABLES
    mode,         \* the mode the service was started in
    reassigning,  \* topics that Kafka is reassigning
    live,         \* brokers that are up
    rate,         \* [Brokers -> [Roles -> Nat]]: throttled rates in Kafka's configs
    list,         \* [Topics -> [Roles -> SUBSET Brokers]]: throttled replicas there
    global,       \* znode of the global override
    override,     \* [Brokers -> config or Missing]: znodes of the broker overrides
    trigger,      \* messages in the channel from the API to the loop
    tm,           \* the loop's variables and its ThrottleManager
    req,          \* the API requests
    requests,     \* how many there have been
    faults        \* failed requests and crashes so far

kafka == <<reassigning, live>>
configs == <<rate, list>>
store == <<global, override>>
vars == <<mode, kafka, configs, store, trigger, tm, req, requests, faults>>

Native == mode = "native"

(* Where a request fails: at the first read, at the write, or after it     *)
(* (the reply is lost, or the change notification fails).  "skipped" is a  *)
(* later request of the same sequence, never made.                         *)
Outcomes == {"read", "write", "after", "skipped"}

Failed(f) == {e \in DOMAIN f : f[e] # "skipped"}
Cost(f)   == Cardinality(Failed(f))

(* The ways the requests for the entities es may fail.  The requests of a  *)
(* sequence stop at the first failure.                                     *)
Plans(es, sequence) ==
    {f \in UNION {[S -> Outcomes] : S \in SUBSET es} :
        /\ Cost(f) <= MaxFaults - faults
        /\ sequence => Cost(f) <= 1
        /\ Failed(f) # DOMAIN f => sequence /\ Failed(f) # {}}

Written(f, e) == e \in DOMAIN f => f[e] = "after"

Start == [pc |-> "list", now |-> {}, previously |-> {}, throttledPreviously |-> {},
          known |-> TRUE, interval |-> 0, failures |-> 0, err |-> FALSE,
          prev |-> [b \in Brokers |-> NoRates],
          skipTopicUpdates |-> FALSE, skipOverrideTopicUpdates |-> FALSE,
          overrideCfg |-> NoOverride,
          bo |-> NoBrokerOverrides]

IdleRequest == [pc |-> "idle", target |-> {}, cfg |-> NoOverride, exists |-> FALSE]
Global == -2                                     \* the target of a global request

(* Throttles and overrides may have been set by an earlier process.        *)
Init ==
    /\ mode \in Modes
    /\ reassigning = {} /\ live = Brokers
    /\ \E m \in InitialRates : rate = [b \in Brokers |-> [r \in Roles |-> m]]
    /\ list = [t \in Topics |-> NoLists]
    /\ global = NoOverride
    /\ override \in {o \in [Brokers -> {Missing} \cup InitialOverrides] :
                        \A b \in Brokers \ OverrideBrokers : o[b] = Missing}
    /\ trigger = 0
    /\ tm = Start
    /\ req = [h \in Handlers |-> IdleRequest]
    /\ requests = 0 /\ faults = 0

-----------------------------------------------------------------------------
(* Writing and removing throttles.                                         *)

(* Mutant: a rate that has been set is never changed.                      *)
MutWriteOnce(caps, b, r) == caps[b][r] # 0 /\ tm.prev[b][r] = 0

(* applyBrokerThrottles: the roles of b whose rate is written.             *)
ToWrite(caps, b, r) == caps[b][r] # 0 /\ ExceedsThreshold(tm.prev[b][r], caps[b][r])

(* The configs after applyBrokerThrottles, with the failures f.            *)
RatesApplied(caps, f) ==
    [b \in Brokers |-> [r \in Roles |->
        IF b \in DOMAIN caps /\ ToWrite(caps, b, r) /\ Written(f, b)
        THEN caps[b][r] ELSE rate[b][r]]]

(* legacyApplyBrokerThrottles stores what UpdateKafkaConfig reports as     *)
(* changed, which it does also when the write fails and not when Kafka has *)
(* the rate already; applyBrokerThrottlesSequential what was set without   *)
(* an error.                                                               *)
PreviousApplied(caps, f) ==
    [b \in Brokers |-> [r \in Roles |->
        IF /\ b \in DOMAIN caps /\ ToWrite(caps, b, r)
           /\ IF Native THEN b \notin DOMAIN f
              ELSE rate[b][r] # caps[b][r] /\ (b \in DOMAIN f => f[b] # "read")
        THEN caps[b][r] ELSE tm.prev[b][r]]]

(* The lists that Kafka's admin client sets, both "*".                     *)
Wildcard == [r \in Roles |-> Brokers]

(* legacyApplyTopicThrottles writes the lists that are not empty.          *)
LegacyLists(old, new) == [r \in Roles |-> IF new[r] # {} THEN new[r] ELSE old[r]]

ListsApplied(lists, f) ==
    [t \in Topics |->
        IF t \notin DOMAIN lists \/ ~Written(f, t) THEN list[t]
        ELSE IF Native THEN Wildcard ELSE LegacyLists(list[t], lists[t])]

(* removeTopicThrottles *)
ListsRemoved(f) == [t \in Topics |-> IF Written(f, t) THEN NoLists ELSE list[t]]

(* removeBrokerThrottlesByID; only the legacy method forgets the rates it  *)
(* had set, also when the write fails.                                     *)
RatesRemoved(rates, ids, f) ==
    [b \in Brokers |-> IF b \in ids /\ Written(f, b) THEN NoRates ELSE rates[b]]
(* Mutant: a removed rate is remembered as set.                            *)
MutPreviousKept(prev, rates, ids, f) == prev

PreviousRemoved(prev, rates, ids, f) ==
    [b \in Brokers |->
        IF ~Native /\ b \in ids /\ rates[b] # NoRates /\ (b \in DOMAIN f => f[b] # "read")
        THEN NoRates ELSE prev[b]]

-----------------------------------------------------------------------------
(* The loop.                                                               *)

At(pc) == tm.pc = pc

(* The topics being reassigned are ts.  Topic lists are written again, and *)
(* rates forgotten, only when there is a new topic.                        *)
Listed(ts) ==
    LET known == ts \subseteq tm.previously
    IN  tm' = [tm EXCEPT !.pc = "fetch", !.now = ts, !.previously = ts,
                         !.skipTopicUpdates = known,
                         !.prev = IF known THEN @ ELSE Start.prev]

GetReassignments ==
    /\ At("list")
    /\ Listed(reassigning)
    /\ UNCHANGED <<mode, kafka, configs, store, trigger, req, requests, faults>>

(* The legacy lookup returns no reassignments when it fails; the loop of   *)
(* the native one starts over.                                             *)
GetReassignmentsFails ==
    /\ At("list") /\ faults < MaxFaults
    /\ IF Native THEN UNCHANGED tm ELSE Listed({})
    /\ faults' = faults + 1
    /\ UNCHANGED <<mode, kafka, configs, store, trigger, req, requests>>

(* The next step updates the throttles of the reassigning topics, if any.  *)
Fetched(cfg, bs) ==
    tm' = [tm EXCEPT !.pc = IF tm.now # {} THEN "update" ELSE "overrides",
                     !.overrideCfg = cfg,
                     !.bo = FetchBrokerOverrides(override, bs)]

FetchOverrides ==
    /\ At("fetch")
    /\ Fetched(global, Brokers)
    /\ UNCHANGED <<mode, kafka, configs, store, trigger, req, requests, faults>>

(* The loop goes on with what it has got: no global override, and some of  *)
(* the broker overrides.                                                   *)
FetchOverridesFails ==
    /\ At("fetch") /\ faults < MaxFaults
    /\ \/ Fetched(NoOverride, Brokers)
       \/ \E bs \in SUBSET {b \in Brokers : Exists(override[b])} : Fetched(global, bs)
    /\ faults' = faults + 1
    /\ UNCHANGED <<mode, kafka, configs, store, trigger, req, requests>>

(* The rates of the brokers' own overrides go before the ones in caps.     *)
WithOverrides(caps, bs) ==
    [b \in bs |->
        LET o == tm.bo[b].cfg
        IN  IF HasActiveOverride(o) THEN [r \in Roles |-> o.rate] ELSE caps[b]]

MarkParticipants(bs) ==
    [b \in Brokers |-> [tm.bo[b] EXCEPT !.participant = b \in bs /\ Exists(tm.bo[b].cfg)]]

(* The rest of UpdateReplicationThrottle, once the rates are determined.   *)
ApplyReplication(rb, caps, failures, spent) ==
    LET all   == WithOverrides(caps, rb.all)
        lists == IF tm.skipTopicUpdates THEN <<>> ELSE rb.lists
    IN  \E f \in Plans(rb.all, FALSE), g \in Plans(DOMAIN lists, Native) :
            /\ spent + Cost(f) + Cost(g) <= MaxFaults - faults
            /\ faults' = faults + spent + Cost(f) + Cost(g)
            /\ rate' = RatesApplied(all, f)
            /\ list' = ListsApplied(lists, g)
            /\ tm' = [tm EXCEPT !.pc = "overrides", !.known = TRUE,
                                !.failures = failures,
                                !.bo = MarkParticipants(rb.all),
                                !.prev = PreviousApplied(all, f)]

(* Return without an update.  err is the error that is returned and then   *)
(* logged; it leaves knownThrottles alone.                                 *)
Retain(failures, err, spent) ==
    /\ tm' = [tm EXCEPT !.pc = "overrides", !.failures = failures,
                        !.err = err, !.known = @ \/ ~err]
    /\ faults' = faults + spent
    /\ UNCHANGED configs

GlobalRate(rb, spent) ==
    /\ tm.overrideCfg.rate # 0
    /\ ApplyReplication(rb, setAllRatesWithDefault(rb.all, tm.overrideCfg.rate), 0, spent)

(* The metrics that a request which returns no error may yield, or which   *)
(* cover all participants: of the brokers that have reported any lately.   *)
BrokerMetrics(bs) ==
    UNION {[seen -> Utils] : seen \in {s \in SUBSET bs : MetricsFail \/ s = bs}}

(* Without an error from the metrics nothing is counted as a failure: when *)
(* they lack a participant, nobody is throttled and the count starts over. *)
MetricsRate(rb, spent) ==
    /\ tm.overrideCfg.rate = 0
    /\ \E bm \in BrokerMetrics(rb.all) :
          IF CapacitiesError(rb, bm)
          THEN Retain(0, TRUE, spent)
          ELSE ApplyReplication(rb, brokerReplicationCapacities(rb, bm, tm.prev), 0, spent)

(* One more failure is too many.  The count is compared with the threshold *)
(* and nothing else, and stops just above it here.                         *)
Failure == tm.failures + 1 > FailureThreshold

MetricsMissing(rb, spent) ==
    /\ MetricsFail
    /\ tm.overrideCfg.rate = 0
    /\ IF Failure
       THEN ApplyReplication(rb, setAllRatesWithDefault(rb.all, Minimum),
                             FailureThreshold + 1, spent)
       ELSE Retain(tm.failures + 1, FALSE, spent)

UpdateReplicationThrottle ==
    /\ At("update")
    /\ \/ LET rb == GetReassigningBrokers(tm.now)
          IN  GlobalRate(rb, 0) \/ MetricsRate(rb, 0) \/ MetricsMissing(rb, 0)
       \/ /\ faults < MaxFaults
          /\ \E t \in tm.now : \E ts \in SUBSET (tm.now \ {t}) :
                LET rb == PartialReassigningBrokers(ts, t)
                IN  GlobalRate(rb, 1) \/ MetricsRate(rb, 1) \/ MetricsMissing(rb, 1)
    /\ UNCHANGED <<mode, kafka, store, trigger, req, requests>>

(* Overrides of brokers that take no part in a reassignment: rates are set *)
(* for the active ones and removed for those set to 0.                     *)
UpdateOverrideThrottles ==
    LET assign  == NotReassignmentParticipant(tm.bo)
        remove  == {b \in Removed(tm.bo) : ~tm.bo[b].participant}
        caps    == [b \in assign |-> [r \in Roles |-> tm.bo[b].cfg.rate]]
        any     == \E b \in Brokers : Exists(tm.bo[b].cfg)
        skip    == assign = tm.throttledPreviously
        found(ok) == IF skip \/ assign \cup remove = {} \/ ~ok THEN <<>>
                     ELSE GetTopicsWithThrottledBrokers(assign)
    IN  /\ At("overrides")
        /\ \E ok \in BOOLEAN, f \in Plans(assign, FALSE), h \in Plans(remove, Native) :
           \E g \in Plans(DOMAIN found(ok), Native) :
             LET spent == Cost(f) + Cost(g) + Cost(h) + IF ok THEN 0 ELSE 1
                 rates == RatesApplied(caps, f)
             IN /\ spent <= MaxFaults - faults /\ (~ok => any)
                /\ faults' = faults + spent
                /\ list' = ListsApplied(found(ok), g)
                /\ rate' = RatesRemoved(rates, remove, h)
                /\ tm' = [tm EXCEPT
                     !.pc = "purge",
                     !.known = @ \/ assign # {},
                     !.skipOverrideTopicUpdates = IF any THEN skip ELSE @,
                     !.throttledPreviously = IF any THEN assign ELSE @,
                     !.prev = PreviousRemoved(PreviousApplied(caps, f), rates, remove, h)]
        /\ UNCHANGED <<mode, kafka, store, trigger, req, requests>>

(* RemoveThrottleOverride for the brokers bs.  Delete reads the version of *)
(* the znode and deletes that version, whatever its rate is by now.        *)
Purged(bs) == [b \in Brokers |-> IF b \in bs THEN Missing ELSE override[b]]

PurgeOverrideThrottles ==
    /\ At("purge")
    /\ tm' = [tm EXCEPT !.pc = "clear"]
    /\ \E failed \in SUBSET Removed(tm.bo) :
          /\ Cardinality(failed) <= MaxFaults - faults
          /\ faults' = faults + Cardinality(failed)
          /\ override' = Purged(Removed(tm.bo) \ failed)
    /\ UNCHANGED <<mode, kafka, configs, global, trigger, req, requests>>

(* Brokers with an override that is not to be removed automatically keep   *)
(* their throttle; those that are down are not seen.                       *)
Unthrottle == {b \in live : Exists(tm.bo[b].cfg) => tm.bo[b].cfg.autoRemove}

(* Mutant: only throttles that this process knows of are removed.          *)
MutClearKnown == tm.known

throttlesToClear == tm.known \/ tm.interval = CleanupAfter

(* RemoveAllThrottles: first the topics, then, if nothing failed, brokers. *)
RemoveAllThrottles ==
    \E f \in Plans(Topics, Native), h \in Plans(Brokers \cap Unthrottle, Native), ok \in BOOLEAN :
        LET ids   == IF Cost(f) > 0 \/ ~ok THEN {} ELSE Unthrottle
            spent == Cost(f) + Cost(h) + IF ok THEN 0 ELSE 1
        IN  /\ spent <= MaxFaults - faults /\ (Cost(f) > 0 => ok /\ Cost(h) = 0)
            /\ (~ok => Cost(h) = 0)
            /\ faults' = faults + spent
            /\ list' = ListsRemoved(f)
            /\ rate' = RatesRemoved(rate, ids, h)
            /\ tm' = [tm EXCEPT
                 !.pc = IF tm.overrideCfg.autoRemove THEN "autoremove" ELSE "wait",
                 !.interval = 0, !.known = IF spent = 0 THEN FALSE ELSE @,
                 !.skipTopicUpdates = FALSE, !.skipOverrideTopicUpdates = FALSE,
                 !.prev = PreviousRemoved(@, rate, ids, h)]

ClearThrottles ==
    /\ At("clear")
    /\ IF tm.now = {} /\ throttlesToClear /\ NotReassignmentParticipant(tm.bo) = {}
       THEN IF SkipAutoDeleteThrottles
            THEN tm' = [tm EXCEPT !.pc = "wait", !.interval = 0] /\ UNCHANGED <<configs, faults>>
            ELSE RemoveAllThrottles
       ELSE tm' = [tm EXCEPT !.pc = "wait"] /\ UNCHANGED <<configs, faults>>
    /\ UNCHANGED <<mode, kafka, store, trigger, req, requests>>

(* The global override as it was read is removed, whatever it is by now.   *)
AutoRemove ==
    /\ At("autoremove")
    /\ tm' = [tm EXCEPT !.pc = "wait"]
    /\ \/ global' = NoOverride /\ UNCHANGED faults
       \/ faults < MaxFaults /\ faults' = faults + 1 /\ UNCHANGED global
    /\ UNCHANGED <<mode, kafka, configs, override, trigger, req, requests>>

(* The next iteration reads everything again.                              *)
NextIteration(interval) ==
    tm' = [tm EXCEPT !.pc = "list", !.interval = interval, !.now = {}, !.err = FALSE,
                     !.overrideCfg = NoOverride, !.bo = NoBrokerOverrides]

(* The interval is compared with CleanupAfter only, and stops above it.    *)
Tick ==
    /\ At("wait")
    /\ NextIteration(IF tm.interval > CleanupAfter THEN tm.interval ELSE tm.interval + 1)
    /\ UNCHANGED <<mode, kafka, configs, store, trigger, req, requests, faults>>

Triggered ==
    /\ At("wait") /\ trigger > 0
    /\ trigger' = trigger - 1
    /\ NextIteration(tm.interval)
    /\ UNCHANGED <<mode, kafka, configs, store, req, requests, faults>>

LoopStep == \/ GetReassignments \/ GetReassignmentsFails \/ FetchOverrides
            \/ FetchOverridesFails \/ UpdateReplicationThrottle
            \/ UpdateOverrideThrottles \/ PurgeOverrideThrottles
            \/ ClearThrottles \/ AutoRemove \/ Tick \/ Triggered

-----------------------------------------------------------------------------
(* The admin API.                                                          *)

Targets == {{b} : b \in OverrideBrokers} \cup (IF GlobalOverrides THEN {{Global}} ELSE {})

Received(h, target, cfg) ==
    /\ req[h].pc = "idle" /\ requests < MaxRequests
    /\ requests' = requests + 1
    /\ req' = [req EXCEPT ![h] =
              [IdleRequest EXCEPT !.pc = IF target = {} THEN "trigger" ELSE "exists",
                                  !.target = target, !.cfg = cfg]]

(* POST /throttle, /throttle/<id>.  A request with bad parameters stores   *)
(* nothing and triggers the loop all the same.                             *)
setThrottle(h) ==
    /\ \/ \E target \in Targets, cfg \in OverrideConfigs : Received(h, target, cfg)
       \/ Received(h, {}, NoOverride)
    /\ UNCHANGED <<mode, kafka, configs, store, trigger, tm, faults>>

(* POST /throttle/remove, /throttle/remove/<id> and /throttle/remove/all.  *)
(* An override is removed by setting its rate to 0.                        *)
removeThrottle(h) ==
    /\ \/ \E target \in Targets : Received(h, target, NoOverride)
       \/ Received(h, {b \in Brokers : Exists(override[b])}, NoOverride)
    /\ UNCHANGED <<mode, kafka, configs, store, trigger, tm, faults>>

NextTarget(h) == CHOOSE b \in req[h].target : \A c \in req[h].target : b <= c

(* StoreThrottleOverride looks for the znode first ...                     *)
CheckOverride(h) ==
    /\ req[h].pc = "exists"
    /\ req' = [req EXCEPT ![h].pc = "store",
                          ![h].exists = NextTarget(h) = Global \/ Exists(override[NextTarget(h)])]
    /\ UNCHANGED <<mode, kafka, configs, store, trigger, tm, requests, faults>>

(* writeOverride has answered for one of the targets.                      *)
Responded(h) ==
    LET rest == req[h].target \ {NextTarget(h)}
    IN  /\ req[h].pc = "store"
        /\ req' = [req EXCEPT ![h].target = rest, ![h].exists = FALSE,
                              ![h].pc = IF rest = {} THEN "trigger" ELSE "exists"]

(* ... and then sets or creates it, which fails if it has gone or come in  *)
(* the meantime.                                                           *)
StoreOverride(h) ==
    LET b == NextTarget(h)
    IN  /\ Responded(h)
        /\ IF b = Global
           THEN global' = req[h].cfg /\ UNCHANGED override
           ELSE /\ UNCHANGED global
                /\ override' = IF req[h].exists = Exists(override[b])
                               THEN [override EXCEPT ![b] = req[h].cfg] ELSE override
        /\ UNCHANGED <<mode, kafka, configs, trigger, tm, requests, faults>>

StoreOverrideFails(h) ==
    /\ Responded(h)
    /\ faults < MaxFaults /\ faults' = faults + 1
    /\ UNCHANGED <<mode, kafka, configs, store, trigger, tm, requests>>

(* Mutant: the channel has no bound.                                       *)
MutSendUnbounded(h) ==
    /\ req[h].pc = "trigger"
    /\ trigger' = trigger + 1
    /\ req' = [req EXCEPT ![h] = IdleRequest]
    /\ UNCHANGED <<mode, kafka, configs, store, tm, requests, faults>>

(* The handler blocks while the channel, of capacity 1, is full.           *)
SendTrigger(h) ==
    /\ req[h].pc = "trigger" /\ trigger < 1
    /\ trigger' = trigger + 1
    /\ req' = [req EXCEPT ![h] = IdleRequest]
    /\ UNCHANGED <<mode, kafka, configs, store, tm, requests, faults>>

HandlerStep(h) == CheckOverride(h) \/ StoreOverride(h) \/ StoreOverrideFails(h)
                  \/ SendTrigger(h)

-----------------------------------------------------------------------------
(* The environment.                                                        *)

(* Kafka starts and finishes reassignments.                                *)
Reassign ==
    /\ \E t \in Topics : reassigning' = IF t \in reassigning THEN reassigning \ {t}
                                        ELSE reassigning \cup {t}
    /\ UNCHANGED <<mode, live, configs, store, trigger, tm, req, requests, faults>>

ComeOrGo ==
    /\ \E b \in Unstable : live' = IF b \in live THEN live \ {b} ELSE live \cup {b}
    /\ UNCHANGED <<mode, reassigning, configs, store, trigger, tm, req, requests, faults>>

(* The process dies, with the requests it was serving, and is restarted.   *)
Crash ==
    /\ faults < MaxFaults
    /\ faults' = faults + 1
    /\ trigger' = 0
    /\ tm' = Start
    /\ req' = [h \in Handlers |-> IdleRequest]
    /\ UNCHANGED <<mode, kafka, configs, store, requests>>

Next ==
    \/ LoopStep
    \/ \E h \in Handlers : setThrottle(h) \/ removeThrottle(h) \/ HandlerStep(h)
    \/ Reassign \/ ComeOrGo \/ Crash

(* The loop goes on, and its ticker is not passed over for ever: select    *)
(* takes one of the cases that are ready at random.  Nothing is assumed of *)
(* the API, of its clients, of Kafka, or of crashes.                       *)
Fairness == WF_vars(LoopStep) /\ SF_vars(Tick)

Spec == Init /\ [][Next]_vars /\ Fairness

-----------------------------------------------------------------------------
(* Properties.                                                             *)

TMType ==
    [pc : {"list", "fetch", "update", "overrides", "purge", "clear", "autoremove", "wait"},
     now : SUBSET Topics, previously : SUBSET Topics, throttledPreviously : SUBSET Brokers,
     known : BOOLEAN, interval : 0 .. CleanupAfter + 1, failures : 0 .. FailureThreshold + 1,
     err : BOOLEAN, prev : [Brokers -> [Roles -> Nat]],
     skipTopicUpdates : BOOLEAN, skipOverrideTopicUpdates : BOOLEAN,
     overrideCfg : [rate : Nat, autoRemove : BOOLEAN],
     bo : [Brokers -> [cfg : [rate : Int, autoRemove : BOOLEAN], participant : BOOLEAN]]]

(* Types of all variables; the channel of the API holds at most one        *)
(* message, and no rate in Kafka is negative.                              *)
TypeOK ==
    /\ mode \in Modes /\ reassigning \subseteq Topics /\ live \subseteq Brokers
    /\ rate \in [Brokers -> [Roles -> Nat]]
    /\ list \in [Topics -> [Roles -> SUBSET Brokers]]
    /\ global \in [rate : Nat, autoRemove : BOOLEAN]
    /\ override \in [Brokers -> [rate : Nat \cup {-1}, autoRemove : BOOLEAN]]
    /\ trigger \in 0 .. 1 /\ faults \in 0 .. MaxFaults /\ requests \in 0 .. MaxRequests
    /\ tm \in TMType
    /\ req \in [Handlers -> [pc : {"idle", "exists", "store", "trigger"},
                             target : SUBSET (Brokers \cup {Global}),
                             cfg : [rate : Nat, autoRemove : BOOLEAN], exists : BOOLEAN]]

(* The rate in Kafka is the wanted one, up to the change threshold.        *)
Close(have, want) == have = want \/ (have # 0 /\ ~ExceedsThreshold(have, want))

(* What the brokers are throttled by when an iteration has ended in which  *)
(* no request failed.                                                      *)
Settled == At("wait") /\ faults = 0

(* An override that the loop has read is what the broker is throttled by   *)
(* when the iteration ends, whatever was set and removed before it         *)
(* (applyBrokerThrottles compares it with a rate it remembers, never with  *)
(* Kafka's).                                                               *)
OverrideApplied ==
    Settled => \A b \in Brokers : HasActiveOverride(tm.bo[b].cfg) =>
                 \A r \in Roles : Close(rate[b][r], tm.bo[b].cfg.rate)

(* The same in legacy mode, where the removal of a throttle also removes   *)
(* the remembered rate.                                                    *)
LegacyOverrideApplied == ~Native => OverrideApplied

(* The rate that a participant without an override may have in a role.     *)
Permitted(b, r) ==
    LET maxRatio == IF r = "leader" THEN SrcMax ELSE DstMax
    IN  IF tm.overrideCfg.rate # 0 THEN {tm.overrideCfg.rate}
        ELSE IF tm.failures > FailureThreshold THEN {Minimum}
        ELSE Minimum .. AtLeast((Capacity[b] * maxRatio) \div 100, Minimum)

(* Every broker that takes part in a reassignment is throttled, in each of *)
(* its roles, when an iteration ends: by its own override, the global one, *)
(* the minimum when metrics have failed too often, or else within its      *)
(* share of the capacity.  There are two exceptions: a failure of the      *)
(* metrics that is not one too many, and an UpdateReplicationThrottle that *)
(* has returned an error, for a broker that the metrics lack or whose      *)
(* instance type is unknown.                                               *)
ParticipantsThrottled ==
    LET rb == GetReassigningBrokers(tm.now)
    IN  Settled /\ ~Native /\ ~tm.err /\ tm.failures \notin 1 .. FailureThreshold =>
          \A b \in rb.all : \A r \in {x \in Roles : b \in rb.role[x]} :
             ~HasActiveOverride(tm.bo[b].cfg) =>
                \E want \in Permitted(b, r) : Close(rate[b][r], want)

NothingThrottled ==
    rate = [b \in Brokers |-> NoRates] /\ list = [t \in Topics |-> NoLists]

(* When the reassignments are over, the overrides gone and the brokers up, *)
(* no throttle stays: whatever had failed before, whichever process had    *)
(* set it, and although a removal sees only the brokers that are up.       *)
NoThrottleLeftBehind ==
    <>[](/\ reassigning = {} /\ live = Brokers
         /\ \A b \in Brokers : ~HasActiveOverride(override[b]))
      => <>[]NothingThrottled
=============================================================================
