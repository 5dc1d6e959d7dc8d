# A TLA+ model of kafka-kit

kafka-kit is a set of tools that manage Kafka clusters: the **registry** (a gRPC
API over topics, brokers and their tags), **autothrottle** (replication
throttles for running reassignments), **topicmappr** (partition placement),
**metricsfetcher**, and the libraries they share: a ZooKeeper based lock, access
to Kafka's znodes, an admin client and the mapper. This directory models the parts
whose correctness depends on interleavings, failures and time, and the placement
algorithms, in which every choice depends on the ones before it; it checks and
proves properties of them. `PROJECT.json` maps every definition to source lines.

## Inventory

| Component | State | Operations | Hard because | Correct when |
|---|---|---|---|---|
| ZooKeeper lock, `cluster/zookeeper` | claim znodes under a lock path, shared by processes; `lockZnode`, `owner`, `mu`, shared by the goroutines of a process | `Lock`, `Unlock`, `UnlockLogError` | claims go away while others list, check and watch them; sessions end; TTLs purge holders; ZooKeeper calls fail; contexts end | one holder, granted in order; `Unlock` removes the caller's claim; calls return; nothing is left behind |
| Registry tag storage, `tagstorage_zk.go` | one znode of tags per object | `SetTags`, `DeleteTags`, `GetTags`, `GetAllTags` | unversioned read-modify-write | no tag lost, none revived |
| Registry tag cleaner, `tag_cleanup.go` | the mark tag in those znodes | `MarkForDeletion`, `DeleteStaleTags`, every few minutes in every process | reads Kafka, waits for the lock, reads again; races requests | only tags of missing objects marked and swept; stale ones do go |
| Registry write API, `api_topics.go`, `api_brokers.go` | Kafka topics, tags | `CreateTopic`, `DeleteTopic`, `TagTopic`, `DeleteTopicTags`, `TagBroker`, `TagBrokers`, `DeleteBrokerTags` | a created topic is visible later; retries under the lock; several objects, some fail | success means stored; requests return |
| Registry server and throttle, `server.go`, `throttle.go` | a token bucket (a channel and a ticker) | `ValidateRequest`, `Request` | the refill waits for a token itself; deadlines | the burst and the rate are bounded; throttled requests end |
| Registry offset translation, `api_offset_translation.go` | a Kafka consumer | `TranslateOffsets` | one consumer, concurrent requests | a request sees its own offsets |
| Autothrottle, `cmd/autothrottle`, `internal/autothrottle/replication` | previously set throttles, overrides, failure counters, interval counters | the control loop: set, update, remove throttles | the API writes the overrides the loop reads and purges; metrics fail; part of an update fails | every running reassignment is throttled, no throttle stays behind |
| Autothrottle API and store, `internal/autothrottle/{api,throttlestore}` | overrides in ZooKeeper | set, get, remove overrides | as above | an override that was set is applied |
| `kafkazk` | Kafka's znodes | reads; `UpdateKafkaConfig` writes a config and a change notification | a crash between the two writes | a change that is written is announced |
| Mapper, `mapper` | partition maps, broker maps | `Rebuild`, placement strategies, constraints, substitution affinities | positions, rack and storage constraints | replicas on distinct brokers and racks, nothing lost |
| topicmappr, `cmd/topicmappr` | partition maps | rebuild, rebalance, scale, chunked and phased reassignments | long sequences of maps, each applied on its own | every intermediate map is a valid assignment, the last is the goal |
| Kafka admin client, `kafkaadmin` | none | calls of the client library | - | conversions |
| metricsfetcher, `kafkametrics` | none | queries a metrics service, writes znodes | - | I/O only |
| `proto` | none | generated | - | - |

How they interact: every registry process has one `ZooKeeperLock`, used by all
its request goroutines and, without a deadline and without an owner, by its tag
cleaner. The handlers run between `Lock` and `Unlock` and call the tag store and
Kafka. The registry sets the lock's TTL to the longest time a request may take
(`server.go:283-285`), so a request that overruns loses the lock while it works.
Locking is off by default (`-enable-locking`); then the lock is `dummyLock`.
Autothrottle's loop and its HTTP API share the override znodes and a channel of
capacity 1, with which a request triggers the loop. The registry's offset
translations share the server's only Kafka consumer. topicmappr and metricsfetcher
run once and read what the others wrote; topicmappr's maps are applied, one after
the other, by the operator.

The hazards of this code, each at its line, are listed in `PROJECT.json`.

## Modules

| Module | What it is |
|---|---|
| `ZKLock` | `ZooKeeperLock`: `Lock`, `Unlock`, the listing, TTL purges, sessions, crashes |
| `TicketLock` | the abstract lock that `ZKLock` implements |
| `RegistryTags` | tag store, write handlers and tag cleaner |
| `RegistryServer` | request throttle, `ValidateRequest`, offset translation on the shared consumer |
| `ThrottleRates` | what autothrottle computes: participants, rates, overrides (operators only) |
| `Autothrottle` | its loop, both modes of its throttle manager, the admin API; extends `ThrottleRates` |
| `Mapper` | package `mapper`: partition maps, broker maps, constraints, statistics (operators only) |
| `Rebuild` | `topicmappr rebuild`, placement included; extends `Mapper` |
| `Reassign` | `topicmappr rebalance` and `scale`; extends `Mapper` |
| `MC...` | the instances for TLC, one module for each of the state machines |
| `ZKLockProofs`, `RegistryTagsProofs`, `RegistryServerProofs`, `AutothrottleProofs` | the theorems about these modules |
| `MapperProofs` | lemmas about `Mapper`, finite sets and sums, for the three below |
| `ReassignProofs` | the theorems about `Reassign` |
| `RebuildProofs`, `RebuildPlacementProofs` | types of `Rebuild`; the maps it builds and writes |

### ZKLock

A *client* is a goroutine that calls `Lock` and then `Unlock`; an *instance* is a
`ZooKeeperLock` value with its ZooKeeper session. `claims` and `ghosts` are the
claim znodes of running and of crashed processes, `lockZnode`, `owner` and `mu`
the fields of the instance, `thisID`, `lockAhead`, `interval`, `lockWaitingErr`
and `attempt` the local variables of a call. The labels are the places where
another goroutine can come in between: every ZooKeeper request and every
critical section of `mu` is a step.

    idle -LockStart-> create -Create-> list -List-> grant -Grant-> held
                                        |  ^
                   expire -> purge -> clear |        (with a TTL)
                                        v  |
                                     watch -> wait   (getLockAheadWait, select)
    any failure -> remove -Remove-> idle
    held -UnlockStart-> unlock -UnlockMu-> delete -UnlockDelete-> idle

What the model keeps although it looks odd: `First` returns 0 for an empty
listing and `Lock` drops its error (`IsFirst`); a purge clears the state of the
instance that *purges* (`Clear`); the owner check of `Unlock` and its deletion are
two critical sections; the cleanup of a failed `Lock` is a single attempt whose
error is dropped; an `Unlock` whose three attempts fail keeps `owner` and
`lockZnode`.

Abstractions: a claim is its sequence number, natural and not a 32 bit integer;
its metadata is whether the TTL deadline has passed; time is the nondeterministic
`TTLPass`. A `Lock` that returns `ErrAlreadyOwnLock` changes nothing and is not a
step. The lock path exists (`init` creates it at start). `CreateFails` includes
the claim that is created, and `deleteFails` the one that is deleted, although the
reply is lost ("lostreply").

`TicketLock` says what all processes together may rely on, whatever fails:
tickets are numbered in order, only the lowest ticket in the queue is granted,
and a ticket that has left the queue backs nobody. The mapping is
`queue <- Znodes`, `next <- nextSeq`, `held <-` the claims of holders that are
still there.

### RegistryTags

A *request* runs a write handler, a *cleaner* runs `MarkForDeletion` and
`DeleteStaleTags` in turn, each in a critical section of its own. `exists` and
`lagging` are Kafka (a new topic is not returned by `DescribeTopics` at once),
`store` the tag znodes, `holder` the lock. A `SetTags` or `DeleteTags` is the steps
`get` (the read, `GetNoNode` if there is no znode), `mknode` (`SetTags` creates it,
empty) and `put`; `Updated` is what it writes. What the code computes from the
reads of one critical section stays in `snap`, `seen` and `allTags` until it is
used, however old it is by then.

Abstractions: a tag is its key, values are dropped; the mark's key is kept apart
with its value, the time, and requests do not use it. `GetAllTags` is one read (it
reads many znodes, under the lock); the cleaner reads the time and the brokers in
one step before it locks. `DeleteTopic` takes effect at once. `CreateTopic` and
`DeleteTopic` succeed with or without an effect, because `kafkaadmin` drops the
result of the topic; a call that fails may have had its effect. Requests that fail
their argument checks change nothing and are not steps. Broker IDs that are not
numbers do not occur. The lock is an exclusive `holder`: that a TTL can take it
away is modelled and shown in `ZKLock` only. There is no wait between two attempts
of `tagTopicWithRetries`: the code multiplies its delay by the index of the
attempt, which is 0 first, so that it never waits, although its comment promises
a backoff (`api_topics.go:313-317, 337`; the comment also says 10 retries, the
code makes 100).

### RegistryServer

A *request* is a read request that passes `ValidateRequest` and then, if it is a
`TranslateOffsets`, works on the consumer. The bucket is `tokens` (filled places of
the channel), `tick` (the ticker's channel, of capacity 1) and `waiting` (the refill
goroutine has taken a tick and waits for a token). `Admit` sends a token; `Expire` is
the end of the context while the bucket is full. A context that had a good deadline
of its own has no cancel function: `ExpirePanics` is the call of the nil function
(`server.go:387`), which ends the process and all its requests.

    idle -Receive-> throttle -Admit-> assign -> seek -> query -> poll <-> read
                        |                                          |
                   throttled / lost                            unassign -> done

Each call of the consumer is a step, because another translation can come between
any two of them: `assigned` and `position` are the consumer's, `end` and `offsets` the
request's own. `alone` records which translations nothing has overlapped, and
`admitted`, `fired`, `credit` count in a window of time that `Observe` starts anew;
neither is a part of the program.

Abstractions: a checkpoint is a group, a partition and an offset, or a record that
cannot be decoded; the consumer (external) has a position that is unset until a
message has been read, and a read ends with a message or, when nothing is there,
with an error, which stands for its time-out. Handlers that call other handlers
with the same context need no second token.

### ThrottleRates and Autothrottle

`tm` holds the loop's local variables and the `ThrottleManager` (`prev` is
`previouslySetThrottles`, `bo` the `BrokerOverrides` that were read); `rate` and `list`
are Kafka's dynamic configs, `global` and `override` the override znodes, `trigger` the
channel. The loop is cut where it reads or writes what a handler writes:

    list -> fetch -> update -> overrides -> purge -> clear -> autoremove -> wait
                  \_________/ (nothing reassigning)      \_______________/

`list` reads the reassignments, `fetch` the overrides, `update` is
`UpdateReplicationThrottle`, `overrides` is `UpdateOverrideThrottles`, `purge`
deletes the override znodes that were read as 0, `clear` is `RemoveAllThrottles` with
its conditions, `autoremove` removes the global override, `wait` is the `select`.
A handler checks whether the znode exists, writes it (or creates it, which fails if
the znode has come or gone meanwhile), and sends to the channel, where it may block.

Requests to ZooKeeper, Kafka and the metrics service fail. A *plan* (`Plans`) says for
each entity of a step whether its request fails at the first read, at the write, or
after it; in native mode the first failure ends the sequence, in legacy mode the
others go on. `MaxFaults` bounds failures and crashes in a behaviour; a crash starts
the process again with nothing remembered. In legacy mode the throttle manager
remembers a rate also when its write has failed, and forgets it when it removes it;
in native mode it is the other way round: the two are modelled as they are.

Abstractions: rates are integers in MB/s and 0 is no rate; a topic has one
partition; utilisation is the same for both roles; a reassignment's replicas do not
change while it runs; a broker that is down is not seen by `RemoveAllThrottles`.

### Mapper and Rebuild

A partition map is a sequence of records, a broker map a function from IDs to
records. What the code orders by a pseudo-random shuffle, by an unstable sort or by
the order of a Go map is a choice: every order the code permits is explored. The
phases of a rebuild:

    validate -> read -> affinities -> prepare -> place -> optimize -> conclude -> chunk -> write

`place` visits one position of one replica set in each step: the replica is kept, or
replaced by a broker that passes the constraints merged from the rest of the set, or
left out with a warning. By position (`placeByPosition`) the passes go over all sets,
by partition (`placeByPartition`) over one set at a time. `conclude` evacuates
leaderships, computes the first of two phases and drops partitions that do not
change; `chunk` makes one intermediate map after the other; `write` stops if there are
warnings that may not be ignored. Any exit of the command is `pc = "exit"`.

Abstractions: sizes and storage are integers; statistics are compared without
division; topics and racks are numbers in the order of their names; the metadata and
metrics are an input, and reading them may fail as a whole.

### Reassign

For each tolerance a plan is made from a copy of the brokers: the offload targets are
visited in the order of their free storage, each visit relocates at most one
partition, the largest that has a destination within the tolerance, and passes are
made until as many visits have planned nothing as there are targets. The best bundle
by range and deviation is chosen, optimised and written. The code computes the plans
in goroutines that share nothing they write; here they come one after the other.

## Runs

| Run | Instance | Result |
|---|---|---|
| `lock_mutex` | a request and the cleaner on A, a request on B; no TTL; ZooKeeper errors, lost replies and crashes | `TypeOK`, `MutualExclusion`, `HolderIsOwner`, `UnlockReleasesOwnClaim`, `UnlockReturns` hold |
| `lock_faults` | two requests on A, one on B; TTL on A only; lost sessions, ZooKeeper errors | `AtMostOneLiveHolder`, `ImplementsTicketLock` hold |
| `lock_fifo` | the clients of `lock_mutex`, crashes and no other fault; `MaxInterval` 2, so that a queue of three is long | `NoLeakedClaim`, `ClaimGranted` hold |
| `lock_retry` | two requests on A; TTL, lost sessions, ZooKeeper errors | `LockReturns` holds |
| `tags_topic` | two requests (create, delete, tag, untag one topic; tag two brokers) and the cleaner; failing calls, refused topics, lost replies, crashes; locking on | `TypeOK`, `AckedTagsStored`, `OtherTagsUnmodified`, `MarkedTopicIsMissing` hold |
| `tags_live` | a request (create and delete a topic, tag two brokers), the cleaner, a broker that comes and goes | `RequestReturns`, `OverdueSwept` hold |
| `server_reads` | two translations of different topics, one with failing calls and a record that cannot be decoded, and a request without a group whose deadline is its own; a bucket of one token; checkpoints that arrive | `TypeOK`, `BurstBounded`, `SoleTranslationRight`, `RequestReturns` hold |
| `throttle_rates` | legacy mode, a topic moving between two brokers, two API requests, metrics that fail, lack a broker or do neither, two utilisations | `TypeOK`, `LegacyOverrideApplied`, `ParticipantsThrottled` hold |
| `throttle_live` | both modes, one broker that goes down, throttles of an earlier process, one request, one fault or crash anywhere | `NoThrottleLeftBehind` holds |
| `rebuild_maps` | four maps on three brokers, one of them with offline replicas, six brokers in three racks, 290 sets of parameters | `TypeOK`, `NoBrokerTwice`, `OnlyProvidedBrokers`, `RacksSpread`, `ReplicationKept`, `StorageAccounted`, `NoBrokerOverrun`, `PhaseKeepsLeader`, `ChunksConverge`, `Ends` hold |
| `reassign_plans` | five maps, one with an offline replica, five brokers in three racks, up to three tolerances, 160 sets of parameters | `TypeOK`, `NoBrokerTwice`, `RacksKept`, `StorageMatchesMap`, `WithinTolerance`, `Ends` hold |
| `rebuild_passes` | a map with a set of one and a set of four replicas, nothing to move | `NoReplicaLost` is violated |

What the deeper of them say:

- `MutualExclusion`: of the callers that were granted the lock and whose `Unlock` has not
  deleted their claim there is at most one. That moment is the deletion in ZooKeeper
  and not the return of `Unlock`: when the reply is lost, the next caller is granted
  while the `Unlock` tries again.
- `ClaimGranted`: with fewer than `MaxInterval` claims ahead a caller is granted without
  an error. The number matters: each claim that vanishes between the listing and the
  watch sets an error that is never reset, and the count of iterations goes on.
- `AckedTagsStored`: a topic that is acknowledged with tags exists and has them, although
  Kafka's refusal to create it is no error: the tagging looks for the topic once
  more, under the lock.
- `BurstBounded`: a window with k ticks lets at most capacity + k + 2 requests pass, and
  no idle time makes it more. The two are real: the refill goroutine takes its tick
  before it waits for a token, and the ticker keeps one more tick for it.
- `SoleTranslationRight`: what an earlier request has left in the consumer (an
  assignment, a position, after an error) does not reach the next translation. Of
  translations that overlap nothing is claimed; see the deviations.
- `LegacyOverrideApplied`, `ParticipantsThrottled`: the loop compares with what it
  remembers and not with Kafka, so they say that its memory is good enough. An
  iteration whose `UpdateReplicationThrottle` returned an error is exempt from the
  second; see the deviations.
- `NoThrottleLeftBehind`: once nothing is reassigned, no override is active and the
  brokers stay up, all throttles go, whoever had set them.
- `NoBrokerTwice`, `RacksSpread`, `RacksKept`: choices made one at a time, each against
  a set that other choices have changed, add up to valid sets.
- `StorageAccounted`, `StorageMatchesMap`: the free storage by which brokers are
  chosen, updated step by step, is the one the maps imply.
- `ChunksConverge`: chunks end with the map that was built, and an intermediate map
  has only brokers that are still to be moved away from or that belong to that map.

`rebuild_passes` shows a disagreement of the code with its comment: the visits that
`placeByPosition` skips are counted over all passes and compared with the number of
partitions (`mapper/partitions.go:302-315`). With a set of one and a set of four
replicas the short set is skipped twice and the placement ends after the third pass:
the fourth replica is dropped and no warning is given. `rebuild_maps` has sets of one and of
three replicas, where the count happens to suffice.

### Known deviations

Other places where the code does not do what one expects; TLC shows them on these
models when the properties are checked outside of their conditions. They have no
run of their own.

Lock
- Purging an expired waiter clears the owner of the instance that purges, although a
  caller of it may hold the lock; its `Unlock` is then refused (`locking.go:230`).
- After a purge `Unlock` can delete the claim of the next holder (`locking.go:145`).
- Claim number 0 is granted on an empty listing (`locking.go:85`).
- `Lock` can fail although no request to ZooKeeper does: `lockWaitingErr`, set when the
  claim ahead vanishes between listing and watch, is never reset, and in the sixth
  iteration it is returned (`locking.go:66-71`, `109-123`). It takes five or more claims
  ahead; with `MaxInterval` 2 TLC shows it behind two.
- An `Unlock` whose delete was applied and whose reply was lost finds no znode any more:
  its other attempts fail, it returns `ErrUnlockingFailed`, and `owner` and `lockZnode` of
  the instance stay set (`locking.go:149-173`). A later `Lock` with the same owner gets
  `ErrAlreadyOwnLock`.
- `NoLeakedClaim` does not hold once ZooKeeper requests fail: the single cleanup attempt
  (`locking.go:44-49`) may fail too, and the claim then blocks everyone until the
  session or the TTL ends. So `lock_fifo` has no ZooKeeper errors and every client of
  `lock_retry` a deadline.

Registry
- Without locking, which is the default, concurrent requests lose tags
  (`tagstorage_zk.go:133`).
- A topic that is created again between mark and sweep loses its tags
  (`tag_cleanup.go:142`).
- `TagBrokers` reports only the last broker's error (`api_brokers.go:333-339`): it may be
  acknowledged although other brokers have not got the tags that
  `registrypb/registry.proto:165` promises. `AckedTagsStored` is about the last object,
  and about all of them where no call fails.
- `CreateTopic` and `DeleteTopic` return success for topics that Kafka refuses, because
  the results of the topics are dropped (`kafkaadmin/topics.go:43, 50`; a comment at
  `api_topics.go:293-294` knows of it). Of two requests that create a topic at the same
  time both may be told that they have. Without tags nothing is looked at again, so
  nothing is claimed of such a request.
- A sweep deletes tags, not the znode: the empty znode of a missing object is marked
  and swept again for ever.
- Concurrent translations mix up assignments and positions: one reads the other's
  topic, misses checkpoints or fails (`api_offset_translation.go:42`).
- The translation of an empty topic always fails: the loop reads before the position
  can tell it that there is nothing.
- A request that is throttled beyond its own deadline ends the process
  (`server.go:387`).

Autothrottle
- Metrics that come back without an error but lack a broker, which has reported nothing
  in the window of the query, are not a failure (`throttles_update.go:69-73`): the count of
  failures is reset and `brokerReplicationCapacities` returns an error
  (`capacities.go:70-73`), so that the iteration throttles nobody (`102-114`). As long as
  this lasts a new reassignment is not throttled, and the minimum rate is not
  reached. The same holds of an unknown instance type. Participants are not marked
  then either, and an override of 0 removes the throttle of one.
- In native mode the removal of a throttle does not reset `previouslySetThrottles`: an
  override of the same rate, set again, is not applied (`throttles_update.go:499`).
  `OverrideApplied` states it for both modes; the run checks it for the legacy one.
- An override that is read as 0 is deleted at the end of the iteration even if the
  API has set it again meanwhile (`throttles_update.go:267`).
- Topic lists are written when a topic is new, or when the set of overridden brokers
  changes, and then by replacing the list: a topic may be left with a list that names
  fewer brokers than are throttled.
- The interval counter is compared with `-cleanup-after` for equality
  (`cmd/autothrottle/main.go:401`): a clean-up that is due while something is reassigned,
  or while there is an override, comes later only because `knownThrottles` is then set.

topicmappr
- Chunks, where brokers may change positions (leadership evacuated or optimised, a
  forced rebuild, the storage placement, a replica left out): an intermediate map may
  assign a broker twice, as chunks replace brokers position by position. `Reordered`
  states the condition.
- Passes that end too early (`rebuild_passes`) also drop brokers that could have been
  kept, and leave fewer racks than asked for. `AllVisited` states when they do not.
- With `--min-rack-ids` a candidate from a rack that is already in the set is not
  checked for storage (`constraints.go:162`).
- Locality scoped relocations do not look at the replica set: one with two replicas in
  a rack may get a broker twice (`planner.go:127-139`).
- The visits that plan nothing are counted over all passes, whereas the comment
  (`reassignments.go:246-247`) speaks of a pass: planning may end while some target
  could still be relieved.
- Substitution affinities are found greedily, in the order of a Go map: they may fail
  although a complete assignment exists, and succeed the next time.
- `--force-rebuild` with `--sub-affinity` ends the command although the message says
  that it disables the other option (`rebuild.go:134-135`).
- An offline partition has the broker ID -1 in its map. `BrokerMapFromPartitionMap` skips
  it (`brokers.go:418-421`, tested at `brokers_test.go:344-345`), but the code after it looks
  it up: when the replica is visited, or another of its set is replaced
  (`partitions.go:325-340`, and the same by partition), and when a replica of its set is
  relocated without a locality (`planner.go:141-160`). The pointer is nil and the command
  panics. These are the actions `Panic`.
- A forced rebuild ignores what the map had, and so survives; but chunks move what
  brokers of the broker map hold, so that the last chunk keeps the -1. `Converges`
  states the condition, which `ChunksConverge` and the properties of written maps have.
- `OptimizeLeaderFollower` indexes the first partition of a map that may be empty.

### Bounds

- `MaxSeq` (3 or 4 claims): one claim per client and, with 4, a second round, so
  that a caller meets the state an earlier call has left.
- `MaxInterval` is 5 in the code. 1 and 2 let the failure threshold be reached
  within the bounded number of claims, also in `lock_fifo`, where three clients make
  queues that are shorter than it and queues that are not.
- Three clients on two instances: two that share `mu` and `owner`, and one that
  shares only the lock path.
- `MaxRetries` is 100 in the code; 2 is a first attempt, a retry and the end of
  the loop.
- `MaxTime` and `Staleness`: `MaxTime > Staleness` in `tags_topic`, so that a mark
  is made, ages past the staleness and is swept while requests go on. In
  `tags_live` `Staleness` is 0 and one tick makes a mark overdue.
- `Clusters` are the clusters to start from: in `tags_topic` the brokers are up and the
  topic is there or not; in `tags_live` any part of the objects is.
- One topic and two brokers in the tags' runs: operations on different objects touch
  different znodes; two brokers are needed for `TagBrokers`. Two keys tell a tag of the
  request from one that must stay.
- `server_reads`: a bucket of one token is filled by the first request, so that the
  others meet the refill goroutine. One topic is empty at first and gets two
  checkpoints of a partition, the other has a record of another group and a broken
  one. `MaxFired` is the end of the window.
- `throttle_rates`: one broker is a source and one a destination; two requests set an
  override and change or remove it; `FailureThreshold` and `CleanupAfter` are 1, so that
  the counters get below, to and above them. The utilisations make the headroom change
  by less and by more than the change threshold, and fall to the minimum. With `MetricsFail`
  the metrics service returns an error, or metrics that lack some of the brokers.
- `throttle_live`: one fault is enough for every place where a write may be lost, and
  both modes with one broker and one topic keep the graph small enough for liveness.
- The topicmappr runs enumerate parameters: every option alone, and the pairs that
  meet in the code (replication with phases, chunks with dropped partitions, lists
  with missing brokers, evacuation with chunks). Six brokers are two for each rack,
  so that a rack can be used up and a substitute found in it. One map of each run has
  offline replicas, in `rebuild_maps` in every position, so that the command panics at
  each kind of lookup and gets past them where it does.

The two requests of `tags_topic` are symmetric. No other model values are: clients
differ by instance and by deadline, and the liveness runs must not use symmetry. Runs do not check for
deadlock where the system stops: with `MaxSeq` claims made all clients of the lock
stop, and topicmappr ends. The others do: a loop or a server never stops.

### Fairness

`ZKLock`: a goroutine inside `Lock` or `Unlock` goes on when it can, which includes
that a context with a deadline ends; ZooKeeper ends the sessions of crashed
processes. Nothing forces a call, a TTL or a fault. A holder calls `Unlock`: all
callers defer it. `RegistryTags`: handlers go on; a request that waits for the lock
gets it or fails, as its context has a deadline; the ticker keeps the cleaner
running. Strong fairness is assumed for the cleaner's `Lock`: its context
has no deadline and the lock is granted in the order of the claims, which is what
`ClaimGranted` shows of `ZKLock`.

`RegistryServer`: handlers go on, and every context that `ValidateRequest` returns has
a deadline; nothing is assumed of the ticker. `Autothrottle`: the loop goes on, and
its ticker is not passed over for ever (strong fairness of `Tick`), because `select`
takes one of the ready cases at random; nothing is assumed of the API, Kafka or
crashes. `Rebuild`, `Reassign`: the command computes until it ends.

## Proofs

The proof modules prove, for all constants that satisfy the named assumptions
(any clients, instances, objects, requests, logs, bounds), facts that the runs check
on the instances above.

`ZKLockProofs`
- `TypeCorrect`: `TypeOK`.
- `LockInvariant`: `LockInv`, the inductive invariant. `IDsFresh`: the numbers in the
  queue and in calls are below `nextSeq`, and no two calls have the same one.
  `NothingAhead`: no claim under the path is lower than a holder's own. The second is
  inductive only with the first: a new claim is behind the holder because its
  number is fresh.
- `OneLiveHolder`: from it, two holders whose claims are both there are one,
  whatever fails.
- `MutualExclusionHolds`, `HolderIsOwnerHolds`, `UnlockReleasesOwn`: under
  `NoPreemption` (no TTLs, no lost sessions; requests may fail and processes crash)
  every call past its create has its claim in the session of its instance until its
  `Unlock` has deleted it (`Released`), and the holder's instance knows its claim and owner
  (`ClaimsKept`). So holders that are not past that point are live holders, and nobody
  but a holder touches the instance's fields: an `Unlock` that tries a delete again
  still has `mu`, and no other claim can have its number. A crash takes the calls of a
  process together with its claims. The assumption is needed: with TTLs two of the
  three are violated (known deviations).
- `NoClaimLeaks`: under `NoFailedRequest` (moreover no failing requests), `NoLeakedClaim`.
  `ClaimsOwned` says that a claim in a session has a call of the same instance. It is
  inductive with `ClaimsKept` and `AllLive` (no reply of a delete is lost): `Unlock` is never refused and deletes the caller's own
  claim, and the clean-up of a failed `Lock` finds its claim there.
- `Refinement`: every step is a step of `TicketLock` or leaves its variables alone.

`RegistryTagsProofs`
- `TypeCorrect`: `TypeOK`, with `WorkOK` (what a process works on is there).
- `TagsInvariant`: with locking on, `TagsInv`. `Exclusive`: whoever is between `Lock` and
  `Unlock` is the holder. `SnapCurrent`: the tags it has read are the stored ones
  when it writes. Neither says anything without the other: the snapshot stays
  current because only the holder writes.
- `OtherTagsUnmodifiedHolds`: from it, the action property.
- `MarkedTopicIsMissingHolds`: needs two more facts, that only the mark pass sets
  marks, on objects it has not seen (`MarkCalls`), and that the topics it has seen
  are current while it has the lock (`SeenTopics`), where topics are created
  through the registry only.
- `AckedTagsAreStored`: with locking on and topics created through the registry only,
  `AckedTagsStored`. `AckInv` follows a request: which of its objects it has come to and
  the call it makes for that one (`PositionOK`), that the keys are stored for the ones
  before where no call fails (`ProgressOK`, `StoredTo`), that `retry` means an error, and that
  the topic of `CreateTopic` or `TagTopic` is there from the moment it was described
  (`TaggedTopicOK`); its creation proves nothing, as refusals are dropped. `OthersStep`
  says that while a request has the lock nobody else writes tags or removes topics.

`RegistryServerProofs`, from `ServerAssumption`
- `TypeCorrect`: `TypeOK`; the bucket never holds more than its capacity.
- `BurstBoundedHolds`: `BurstBounded` is not inductive, as it does not say where the
  admitted requests' tokens are. `TokensAccounted` does: admitted requests, ticks still
  pending and free places balance the capacity, the credit and the ticks fired.
- `SoleTranslationRightHolds`: `ConsumerInv` says of the one translation that uses the
  consumer alone that it is assigned its topic, and that what it has collected is the
  translation of the records up to the consumer's position (`AloneOK`); and of a
  request that has not started reading that it has collected nothing
  (`FreshOffsets`). The lemmas about `Translation` say what one more record adds, of the group
  or not; `Untouched` says that a step of another request leaves `AloneOK` true.

`AutothrottleProofs`, from `LimitsAssumption`, `ClusterAssumption` and `LoopAssumption`
- `TypeCorrect`: `TypeOK`, with `StoredConfigs`: only a znode that is missing has the
  negative rate that stands for it.
- `OverridesApplied`, `AllParticipantsThrottled`: in legacy mode, as long as nothing has
  failed (`Smooth`), `LoopInv`. `Remembered`: a remembered rate is the one in Kafka, which
  is why comparing with it is good enough. `OverridesInEffect`: overrides take effect in
  two steps, first those of participants, which are marked, then the others.
  An iteration that returns an error (`tm.err`) leaves the configs and the memory alone.
  `ParticipantRates`: the removal of an override does not take the rate from a
  participant, because of that mark. None of the three is inductive alone.

`MapperProofs`, from `SizesAssumption`: finite induction (`FiniteInduction`, from a minimal
counterexample), sums over finite sets (`SumRemove`, `SumEqual`, `SumImage`: what a sum
loses with an element, and that it follows a bijection), minima, sorted orders,
pruned maps, and that the operators of `Mapper` keep maps and broker maps what they are.

`ReassignProofs`, from `InputAssumption`
- `ReassignTypes`: `TypeOK`, from `TypeInv`.
- `NoReplicaTwice`, `RacksKeptApart`: from `PlanInv`. A partition leaves a broker at most once
  and for none that is to be relieved (`MovedOnce`); by the constraints a destination is
  apart from what stays of the set and from the other destinations (`ByConstraints`),
  within a locality it is in the rack of its source (`ByLocality`). The map of a plan
  exists only when the plan is complete, so the facts must be about the plan.
- `StorageAccountedFor`: from `StorageInv`, during the planning free storage and the sizes
  on a broker have a constant sum; a relocation moves one term from one sum to another.
- `PlansWithinTolerance`: from `ToleranceInv`. Each move is checked against the mean of the
  moment; as all brokers have storage and moves keep the total, it is the first one.

`RebuildProofs` and `RebuildPlacementProofs`, from `InputAssumption`
- `RebuildTypes`: `TypeOK`. Its `TypeInv` also says which maps and broker maps there are at
  each step, and that the brokers of the maps have records, offline replicas excepted:
  for any input, maps with the ID -1 included.
- `NoReplicaPlacedTwice`, `ProvidedBrokersUsed`, `ReplicationAsAsked`, `RacksSpreadOut`,
  `FirstPhaseKeepsLeaders`, `ChunksEndWithTheMap`: from `RebuildInv`. `PlaceInv`: the set built
  so far has the brokers kept at the positions visited (`Seen`), has no broker twice, no
  broker that a later visit will keep, and no rack that clashes with any of them
  (`Partial`). This is what makes it inductive: a candidate is checked against the whole
  old set, and not only against what was placed. `SkipInv`: the count of skipped visits is
  a sum over the sets, which gives the state when the passes end. `SetInv` and
  `ConcludeInv` carry the result through optimisation, evacuation, phase, pruning
  and chunks; `WrittenInv` to the maps written. A chunk is `Mixed`: what is not yet moved is
  of a broker still to be emptied, or offline; the last one is so the map that was built
  unless replicas were offline at first (`Stuck`).
- `StorageIsAccounted`, `NoBrokerIsOverrun`: from `StorageInv`, which balances the free storage
  of each broker with the sum of what was placed on it (`Balance`), visit by visit.

Three properties are weaker than first thought, which the proofs brought up:
maps between chunks in more cases than leadership evacuation (`Reordered`), and
`OnlyProvidedBrokers`, `RacksSpread` and `ReplicationKept` in maps whose longest sets are not
visited to their end (`AllVisited`). `NoReplicaLost` states the last one without that
condition, and `rebuild_passes` violates it.

Every invariant and action property that a passing run checks, and the refinement,
is so stated by a theorem, from the assumptions named. Checked by TLC only: the liveness properties
(`UnlockReturns`, `LockReturns`, `ClaimGranted`, `RequestReturns`, `OverdueSwept`,
`NoThrottleLeftBehind`, `Ends`), as fairness and `ENABLED` are out of the proof system's
reach.

## Not modelled

- Generated code (`proto`), the metrics client and metricsfetcher, flags, output,
  listeners, start-up and shutdown: I/O without state of their own.
- Read-only handlers and tag filters of the registry, `getThrottle` of the API: they
  change nothing. The replica assignment of the registry's `CreateTopic`.
- Numbers of claims beyond 32 bits: 2^31 calls of `Lock`.
- Kafka's change notifications: `UpdateKafkaConfig` writes a config and then announces
  it; when a broker hears of a change is not in the model, as nothing in this
  repository reads it back.
- In autothrottle: the znode that `POST /throttle/all` would create, negative rates, the
  exclusion of `__consumer_offsets`, events.
- In the mapper: JSON, copies, the degree distribution, regular expressions of topics,
  the count of uses by `BestCandidate`. In topicmappr: printing, and files that cannot
  be written (their errors are only printed).

## Plan

What is left, in this order:

1. In `Autothrottle`: what holds in legacy mode after failures, and of overrides in
   native mode; a bound on the throttles that a crash leaves.
2. In `Rebuild`: what substitution affinities promise, as an invariant and a theorem;
   variants that decrease with each visit, as safety counterparts of `Ends`.
3. In `RegistryTags`: TTL preemption of the lock, and the time of a mark against the
   time its object went missing (`tag_cleanup.go:46`).
4. The change notifications of `UpdateKafkaConfig`, with brokers that hear of them.
