---------------------------- MODULE RegistryTags ----------------------------
(***************************************************************************)
(* The registry's tags: the write handlers of the API that touch topics    *)
(* and tags, the tag store in ZooKeeper, and the tag cleaner that marks    *)
(* the tags of objects that are gone and sweeps them when they are stale.  *)
(*                                                                         *)
(* Every writer is a Lock, some reads, some read-modify-writes of a tag    *)
(* znode and an Unlock.  The lock is the one ZKLock models, here reduced   *)
(* to what ZKLock shows it to be: at most one holder at a time.  Without   *)
(* -enable-locking it is dummyLock, which does nothing.                    *)
(*                                                                         *)
(* A tag is its key: no property depends on the value.  The one key the    *)
(* registry itself writes, tagMarkedForDeletionTime, is kept apart with    *)
(* its value (mark); requests do not use it.                               *)
(***************************************************************************)
EXTENDS Integers, Sequences, FiniteSets

CONSTANTS
  Requests,    \* API requests, in any registry process
  Cleaners,    \* the tag cleaner of each registry process
  Topics, Brokers,
  Keys,        \* user defined tag keys
  Ops,         \* the requests clients make: records of kind, ids and keys
  Clusters,    \* the sets of objects that there may be in the cluster at the start
  External,    \* the objects that come and go without the registry
  Locking,     \* the -enable-locking flag
  Staleness,   \* TagAllowedStalenessMinutes
  MaxRetries,  \* of tagTopicWithRetries: 100 in the code
  Faults,      \* a subset of {"error", "crash"}
  MaxTime,     \* bound on the clock
  NoProc, NoTags, NoMark

Procs == Requests \union Cleaners
Objects == Topics \union Brokers

RequestKinds == {"CreateTopic", "DeleteTopic", "TagTopic", "DeleteTopicTags",
                 "TagBroker", "TagBrokers", "DeleteBrokerTags"}
SetKinds == {"CreateTopic", "TagTopic", "TagBroker", "TagBrokers"}
SetTopicKinds == {"CreateTopic", "TagTopic"}
CleanerKinds == {"MarkForDeletion", "DeleteStaleTags"}
TopicKinds == {"CreateTopic", "DeleteTopic", "TagTopic", "DeleteTopicTags"}

\* The data of a tag znode.
TagSets == [keys : SUBSET Keys, mark : (0 .. MaxTime) \union {NoMark}]
EmptyTagSet == [keys |-> {}, mark |-> NoMark]

ASSUME ConstantsAssumption ==
  /\ Requests \intersect Cleaners = {}
  /\ Topics \intersect Brokers = {}
  /\ NoProc \notin Procs
  /\ NoTags \notin TagSets
  /\ NoMark \notin Nat
  /\ Ops \subseteq [kind : RequestKinds, ids : Seq(Objects), keys : SUBSET Keys]
  /\ \A op \in Ops :
       /\ Len(op.ids) > 0
       /\ op.kind # "TagBrokers" => Len(op.ids) = 1
       /\ \A n \in 1 .. Len(op.ids) :
            op.ids[n] \in IF op.kind \in TopicKinds THEN Topics ELSE Brokers
  /\ Clusters \subseteq SUBSET Objects
  /\ External \subseteq Objects
  /\ Locking \in BOOLEAN
  /\ Staleness \in Nat
  /\ MaxRetries \in Nat \ {0}
  /\ Faults \subseteq {"error", "crash"}
  /\ MaxTime \in Nat

VARIABLES
  exists,    \* the objects in the Kafka cluster
  lagging,   \* topics just created that DescribeTopics does not return yet
  store,     \* the tag znodes
  clock,
  holder,    \* the holder of the distributed lock
  pc, kind,  \* where each process is, and in which handler
  call,      \* its current SetTags or DeleteTags
  snap,      \* the tags that call has read
  res,       \* what the handler is about to return
  \* A request: its objects, how many of them it has come to, its tag keys, and
  \* the local variables of tagTopicWithRetries.
  ids, nth, keys, tries,
  \* A cleaner: the time it works with, the objects it saw in the cluster, the
  \* tags it fetched and the objects it still has to look at.
  time, seen, allTags, left

kafkaVars   == <<exists, lagging>>
handlerVars == <<kind, res>>
editVars    == <<call, snap>>
requestVars == <<ids, nth, keys, tries>>
cleanerVars == <<time, seen, allTags, left>>
vars == <<kafkaVars, store, clock, holder, pc, handlerVars, editVars,
          requestVars, cleanerVars>>

Calls == [verb : {"set", "delete"}, obj : Objects, ts : TagSets]
NoCall == [verb |-> "none"]

\* The steps between a successful Lock and the return of Unlock.
Critical == {"createtopic", "relock", "retry", "describe", "deletetopic",
             "topics", "alltags", "next", "get", "mknode", "put", "unlock"}
Labels == {"idle", "check", "begin", "lock"} \union Critical

At(p, l) == pc[p] = l
Goto(p, l) == pc' = [pc EXCEPT ![p] = l]
Visible == exists \ lagging
MayFail == "error" \in Faults

Init ==
  /\ exists \in Clusters
  /\ lagging = {}
  /\ store = [o \in Objects |-> NoTags]
  /\ clock = 0
  /\ holder = NoProc
  /\ pc = [p \in Procs |-> "idle"]
  /\ kind = [p \in Procs |-> IF p \in Requests THEN "TagTopic"
                                               ELSE "MarkForDeletion"]
  /\ call = [p \in Procs |-> NoCall]
  /\ snap = [p \in Procs |-> EmptyTagSet]
  /\ res = [p \in Procs |-> "ok"]
  /\ ids = [r \in Requests |-> <<>>]
  /\ nth = [r \in Requests |-> 0]
  /\ keys = [r \in Requests |-> {}]
  /\ tries = [r \in Requests |-> 0]
  /\ time = [c \in Cleaners |-> 0]
  /\ seen = [c \in Cleaners |-> {}]
  /\ allTags = [c \in Cleaners |-> [o \in Objects |-> NoTags]]
  /\ left = [c \in Cleaners |-> {}]

-----------------------------------------------------------------------------
(***************************************************************************)
(* What SetTags and DeleteTags write, given the tags they have read.  The  *)
(* TagSet ts of a delete stands for its keys: NoMark if the mark's key is  *)
(* not among them.                                                         *)
(***************************************************************************)

Updated(cl, tags) ==
  IF cl.verb = "set"
  THEN [keys |-> tags.keys \union cl.ts.keys,
        mark |-> IF cl.ts.mark = NoMark THEN tags.mark ELSE cl.ts.mark]
  ELSE [keys |-> tags.keys \ cl.ts.keys,
        mark |-> IF cl.ts.mark = NoMark THEN tags.mark ELSE NoMark]

\* The tags of a znode; one that does not exist, or is empty, has none.
TagsOf(z) == IF z = NoTags THEN EmptyTagSet ELSE z

-----------------------------------------------------------------------------
(***************************************************************************)
(* A call of SetTags or DeleteTags, by a request or a cleaner.             *)
(***************************************************************************)

\* Mutant: an error is logged and forgotten.
MutErrorDropped(p, result) ==
  /\ UNCHANGED res
  /\ Goto(p, IF kind[p] = "CreateTopic" THEN "unlock" ELSE "next")
  /\ UNCHANGED <<kafkaVars, clock, holder, kind, call, requestVars, cleanerVars>>

\* CreateTopic retries a failed TagTopic; TagBrokers goes on with the next
\* broker, and only what the last one returned is kept; the cleaner logs the
\* error and goes on.
Finish(p, result) ==
  /\ res' = [res EXCEPT ![p] = IF p \in Requests THEN result ELSE @]
  /\ Goto(p, IF kind[p] # "CreateTopic" THEN "next"
             ELSE IF result = "ok" THEN "unlock" ELSE "retry")
  /\ UNCHANGED <<kafkaVars, clock, holder, kind, call, requestVars, cleanerVars>>

\* The writes of a tag znode: an empty one is created; the tags are persisted,
\* whatever the version of the znode is by now.
CreateZnode(p) ==
  /\ store[call[p].obj] = NoTags
  /\ store' = [store EXCEPT ![call[p].obj] = EmptyTagSet]

SetZnode(p) == store' = [store EXCEPT ![call[p].obj] = Updated(call[p], snap[p])]

\* Fetch the current tags.
Get(p) ==
  /\ At(p, "get")
  /\ store[call[p].obj] # NoTags
  /\ snap' = [snap EXCEPT ![p] = store[call[p].obj]]
  /\ Goto(p, "put")
  /\ UNCHANGED <<kafkaVars, store, clock, holder, handlerVars, call,
                 requestVars, cleanerVars>>

\* The znode doesn't exist: SetTags creates it ...
GetNoNode(p) ==
  /\ At(p, "get")
  /\ store[call[p].obj] = NoTags
  /\ call[p].verb = "set"
  /\ Goto(p, "mknode")
  /\ UNCHANGED <<kafkaVars, store, clock, holder, handlerVars, editVars,
                 requestVars, cleanerVars>>

\* ... and DeleteTags returns ErrKafkaObjectDoesNotExist.
GetFails(p) ==
  /\ At(p, "get")
  /\ MayFail \/ (store[call[p].obj] = NoTags /\ call[p].verb = "delete")
  /\ Finish(p, "err")
  /\ UNCHANGED <<store, snap>>

CreateNode(p) ==
  /\ At(p, "mknode")
  /\ CreateZnode(p)
  /\ snap' = [snap EXCEPT ![p] = EmptyTagSet]
  /\ Goto(p, "put")
  /\ UNCHANGED <<kafkaVars, clock, holder, handlerVars, call, requestVars,
                 cleanerVars>>

\* Somebody else has created it, or ZooKeeper fails, or only its reply is lost.
CreateNodeFails(p) ==
  /\ At(p, "mknode")
  /\ \/ (MayFail \/ store[call[p].obj] # NoTags) /\ UNCHANGED store
     \/ MayFail /\ CreateZnode(p)
  /\ Finish(p, "err")
  /\ UNCHANGED snap

Put(p) ==
  /\ At(p, "put")
  /\ SetZnode(p)
  /\ snap' = [snap EXCEPT ![p] = EmptyTagSet]
  /\ Finish(p, "ok")

PutFails(p) ==
  /\ At(p, "put")
  /\ MayFail
  /\ SetZnode(p) \/ UNCHANGED store
  /\ snap' = [snap EXCEPT ![p] = EmptyTagSet]
  /\ Finish(p, "err")

-----------------------------------------------------------------------------
(***************************************************************************)
(* Lock and Unlock, of the distributed lock or of dummyLock.               *)
(***************************************************************************)

\* Where each handler goes on once it has the lock.
AfterLock(k) ==
  CASE k = "CreateTopic" -> "createtopic"
    [] k \in {"DeleteTopic", "TagTopic", "DeleteTopicTags", "DeleteBrokerTags"}
         -> "describe"
    [] k \in {"TagBroker", "TagBrokers"} -> "next"
    [] k = "MarkForDeletion" -> "topics"
    [] k = "DeleteStaleTags" -> "alltags"

\* Mutant: nobody is kept out.
MutNoLock(p) ==
  /\ At(p, "lock")
  /\ holder' = p
  /\ Goto(p, AfterLock(kind[p]))
  /\ UNCHANGED <<kafkaVars, store, clock, handlerVars, editVars, requestVars,
                 cleanerVars>>

Lock(p) ==
  /\ At(p, "lock")
  /\ Locking => holder = NoProc
  /\ holder' = IF Locking THEN p ELSE holder
  /\ Goto(p, AfterLock(kind[p]))
  /\ UNCHANGED <<kafkaVars, store, clock, handlerVars, editVars, requestVars,
                 cleanerVars>>

\* The handler of r returns: its local variables are gone.
ReturnRequest(r) ==
  /\ Goto(r, "idle")
  /\ kind' = [kind EXCEPT ![r] = "TagTopic"]
  /\ call' = [call EXCEPT ![r] = NoCall]
  /\ snap' = [snap EXCEPT ![r] = EmptyTagSet]
  /\ res' = [res EXCEPT ![r] = "ok"]
  /\ ids' = [ids EXCEPT ![r] = <<>>]
  /\ nth' = [nth EXCEPT ![r] = 0]
  /\ keys' = [keys EXCEPT ![r] = {}]
  /\ tries' = [tries EXCEPT ![r] = 0]
  /\ UNCHANGED cleanerVars

\* RunTagCleanup: k is the function that runs next; MarkForDeletion waits for
\* the ticker.
RestartCleaner(c, k) ==
  /\ Goto(c, IF k = "MarkForDeletion" THEN "idle" ELSE "begin")
  /\ kind' = [kind EXCEPT ![c] = k]
  /\ call' = [call EXCEPT ![c] = NoCall]
  /\ snap' = [snap EXCEPT ![c] = EmptyTagSet]
  /\ res' = [res EXCEPT ![c] = "ok"]
  /\ time' = [time EXCEPT ![c] = 0]
  /\ seen' = [seen EXCEPT ![c] = {}]
  /\ allTags' = [allTags EXCEPT ![c] = [o \in Objects |-> NoTags]]
  /\ left' = [left EXCEPT ![c] = {}]
  /\ UNCHANGED requestVars

\* The context of a request ends while it waits, or ZooKeeper fails.
LockFails(p) ==
  /\ At(p, "lock")
  /\ \/ p \in Requests /\ ReturnRequest(p)
     \/ p \in Cleaners /\ MayFail /\ RestartCleaner(p, "MarkForDeletion")
  /\ UNCHANGED <<kafkaVars, store, clock, holder>>

\* The deferred UnlockLogError, and the return.  After MarkForDeletion without
\* an error comes DeleteStaleTags.
Unlock(p) ==
  /\ At(p, "unlock")
  /\ holder' = IF Locking THEN NoProc ELSE holder
  /\ \/ p \in Requests /\ ReturnRequest(p)
     \/ /\ p \in Cleaners
        /\ RestartCleaner(p, IF kind[p] = "MarkForDeletion" /\ res[p] = "ok"
                             THEN "DeleteStaleTags" ELSE "MarkForDeletion")
  /\ UNCHANGED <<kafkaVars, store, clock>>

-----------------------------------------------------------------------------
(***************************************************************************)
(* The request handlers                                                    *)
(***************************************************************************)

\* A request comes in.
Receive(r) ==
  /\ At(r, "idle")
  /\ \E op \in Ops :
       /\ kind' = [kind EXCEPT ![r] = op.kind]
       /\ ids' = [ids EXCEPT ![r] = op.ids]
       /\ keys' = [keys EXCEPT ![r] = op.keys]
       /\ Goto(r, IF op.kind = "CreateTopic" THEN "check" ELSE "lock")
  /\ UNCHANGED <<kafkaVars, store, clock, holder, res, editVars, nth, tries,
                 cleanerVars>>

\* CreateTopic looks for the topic before it takes the lock.
CheckTopic(r) ==
  /\ At(r, "check")
  /\ Head(ids[r]) \notin Visible
  /\ Goto(r, "lock")
  /\ UNCHANGED <<kafkaVars, store, clock, holder, handlerVars, editVars,
                 requestVars, cleanerVars>>

\* ErrTopicAlreadyExists, or ListTopics fails.
CheckTopicFails(r) ==
  /\ At(r, "check")
  /\ MayFail \/ Head(ids[r]) \in Visible
  /\ ReturnRequest(r)
  /\ UNCHANGED <<kafkaVars, store, clock, holder>>

\* The handler of r goes on to l with this result.
Proceed(r, result, l) ==
  /\ res' = [res EXCEPT ![r] = result]
  /\ Goto(r, l)
  /\ UNCHANGED <<store, clock, holder, kind, editVars, requestVars, cleanerVars>>

\* Kafka creates the topic, which may not be visible at once.
TopicCreated(r) ==
  /\ Head(ids[r]) \notin exists
  /\ exists' = exists \union {Head(ids[r])}
  /\ lagging' \in {lagging, lagging \union {Head(ids[r])}}

\* kafkaadmin.CreateTopic returns no error.  It drops the result of the topic, so
\* that is also what it returns when Kafka refuses the topic, because it exists or
\* for any other reason.
CreateTopic(r) ==
  /\ At(r, "createtopic")
  /\ TopicCreated(r) \/ UNCHANGED kafkaVars
  /\ Proceed(r, "ok", IF keys[r] = {} THEN "unlock" ELSE "relock")

\* The target brokers are not there or too few, or Kafka fails, or only its reply
\* is lost.
CreateTopicFails(r) ==
  /\ At(r, "createtopic")
  /\ UNCHANGED kafkaVars \/ (MayFail /\ TopicCreated(r))
  /\ Proceed(r, "err", "unlock")

\* tagTopicWithRetries calls TagTopic, whose Lock returns ErrAlreadyOwnLock.
Relock(r) ==
  /\ At(r, "relock")
  /\ Locking => holder = r
  /\ Proceed(r, "ok", "describe")
  /\ UNCHANGED kafkaVars

\* ErrTaggingTopicTimedOut.
TagTimeout(r) ==
  /\ At(r, "relock")
  /\ Proceed(r, "err", "unlock")
  /\ UNCHANGED kafkaVars

\* DescribeTopics or DescribeBrokers returns the object.
Describe(r) ==
  /\ At(r, "describe")
  /\ Head(ids[r]) \in Visible
  /\ Goto(r, IF kind[r] = "DeleteTopic" THEN "deletetopic" ELSE "next")
  /\ UNCHANGED <<kafkaVars, store, clock, holder, handlerVars, editVars,
                 requestVars, cleanerVars>>

\* ErrTopicNotExist, ErrBrokerNotExist, or Kafka fails.
DescribeFails(r) ==
  /\ At(r, "describe")
  /\ MayFail \/ Head(ids[r]) \notin Visible
  /\ Proceed(r, "err", IF kind[r] = "CreateTopic" THEN "retry" ELSE "unlock")
  /\ UNCHANGED kafkaVars

\* The tags of a deleted topic stay.
TopicDeleted(r) ==
  /\ exists' = exists \ {Head(ids[r])}
  /\ lagging' = lagging \ {Head(ids[r])}

\* kafkaadmin.DeleteTopic drops the result of the topic too.
DeleteTopic(r) ==
  /\ At(r, "deletetopic")
  /\ TopicDeleted(r) \/ UNCHANGED kafkaVars
  /\ Proceed(r, "ok", "unlock")

DeleteTopicFails(r) ==
  /\ At(r, "deletetopic")
  /\ MayFail
  /\ TopicDeleted(r) \/ UNCHANGED kafkaVars
  /\ Proceed(r, "err", "unlock")

\* Mutants: one attempt too many; the attempts are not counted.
MutOneMoreRetry(r) ==
  /\ At(r, "retry")
  /\ tries' = [tries EXCEPT ![r] = @ + 1]
  /\ nth' = [nth EXCEPT ![r] = 0]
  /\ Goto(r, IF tries[r] < MaxRetries THEN "relock" ELSE "unlock")
  /\ UNCHANGED <<kafkaVars, store, clock, holder, handlerVars, editVars, ids,
                 keys, cleanerVars>>
MutRetryForever(r) ==
  /\ At(r, "retry")
  /\ nth' = [nth EXCEPT ![r] = 0]
  /\ Goto(r, "relock")
  /\ UNCHANGED <<kafkaVars, store, clock, holder, handlerVars, editVars, ids,
                 keys, tries, cleanerVars>>

\* An attempt of tagTopicWithRetries has failed.  There is no wait before the
\* next: the delay is multiplied by the index of the attempt, which is 0 first.
Retry(r) ==
  /\ At(r, "retry")
  /\ tries' = [tries EXCEPT ![r] = @ + 1]
  /\ nth' = [nth EXCEPT ![r] = 0]
  /\ Goto(r, IF tries[r] + 1 < MaxRetries THEN "relock" ELSE "unlock")
  /\ UNCHANGED <<kafkaVars, store, clock, holder, handlerVars, editVars, ids,
                 keys, cleanerVars>>

\* The next object of the request, if there is one.
NextObject(r) ==
  /\ At(r, "next")
  /\ nth[r] < Len(ids[r])
  /\ call' = [call EXCEPT ![r] =
                [verb |-> IF kind[r] \in {"DeleteTopicTags", "DeleteBrokerTags"}
                          THEN "delete" ELSE "set",
                 obj |-> ids[r][nth[r] + 1],
                 ts |-> [keys |-> keys[r], mark |-> NoMark]]]
  /\ nth' = [nth EXCEPT ![r] = @ + 1]
  /\ Goto(r, "get")
  /\ UNCHANGED <<kafkaVars, store, clock, holder, handlerVars, snap, ids,
                 keys, tries, cleanerVars>>

\* There is none: the handler returns what the last call returned.
LastObject(r) ==
  /\ At(r, "next")
  /\ nth[r] = Len(ids[r])
  /\ Goto(r, "unlock")
  /\ UNCHANGED <<kafkaVars, store, clock, holder, handlerVars, editVars,
                 requestVars, cleanerVars>>

-----------------------------------------------------------------------------
(***************************************************************************)
(* The tag cleaner                                                         *)
(***************************************************************************)

\* MarkForDeletion takes the time and reads the brokers, and then locks.
MarkBegin(c) ==
  /\ At(c, "idle")
  /\ time' = [time EXCEPT ![c] = clock]
  /\ seen' = [seen EXCEPT ![c] = exists \intersect Brokers]
  /\ Goto(c, "lock")
  /\ UNCHANGED <<kafkaVars, store, clock, holder, handlerVars, editVars,
                 requestVars, allTags, left>>

\* DeleteStaleTags takes the time, and then locks.
SweepBegin(c) ==
  /\ At(c, "begin")
  /\ time' = [time EXCEPT ![c] = clock]
  /\ Goto(c, "lock")
  /\ UNCHANGED <<kafkaVars, store, clock, holder, handlerVars, editVars,
                 requestVars, seen, allTags, left>>

\* Mutant: the topics come from Kafka's metadata, which may lag.
MutGetVisibleTopics(c) ==
  /\ At(c, "topics")
  /\ seen' = [seen EXCEPT ![c] = @ \union (Visible \intersect Topics)]
  /\ Goto(c, "alltags")
  /\ UNCHANGED <<kafkaVars, store, clock, holder, handlerVars, editVars,
                 requestVars, time, allTags, left>>

\* The topics are read, from ZooKeeper, under the lock.
GetTopics(c) ==
  /\ At(c, "topics")
  /\ seen' = [seen EXCEPT ![c] = @ \union (exists \intersect Topics)]
  /\ Goto(c, "alltags")
  /\ UNCHANGED <<kafkaVars, store, clock, holder, handlerVars, editVars,
                 requestVars, time, allTags, left>>

\* So are the tags.
GetAllTags(c) ==
  /\ At(c, "alltags")
  /\ allTags' = [allTags EXCEPT ![c] = store]
  /\ left' = [left EXCEPT ![c] = {o \in Objects : store[o] # NoTags}]
  /\ Goto(c, "next")
  /\ UNCHANGED <<kafkaVars, store, clock, holder, handlerVars, editVars,
                 requestVars, time, seen>>

\* A failed read ends the pass.  (DeleteStaleTags ignores the error: it has no
\* tags to look at.)
ReadFails(c) ==
  /\ pc[c] \in {"topics", "alltags"}
  /\ MayFail
  /\ res' = [res EXCEPT ![c] = "err"]
  /\ Goto(c, "unlock")
  /\ UNCHANGED <<kafkaVars, store, clock, holder, kind, editVars, requestVars,
                 cleanerVars>>

\* A dangling tag set that is not marked yet, and a marked one whose object is
\* back.
ToMark(c, o) == o \notin seen[c] /\ allTags[c][o].mark = NoMark
ToUnmark(c, o) == o \in seen[c] /\ allTags[c][o].mark # NoMark

\* Mutant: the age of the mark has the wrong sign.
MutSweepFuture(c, o) ==
  /\ allTags[c][o].mark # NoMark
  /\ allTags[c][o].mark - time[c] > Staleness

ToSweep(c, o) ==
  /\ allTags[c][o].mark # NoMark
  /\ time[c] - allTags[c][o].mark > Staleness

\* The next tag set in the loop of the cleaner calls SetTags or DeleteTags ...
Edit(c, cl) ==
  /\ left' = [left EXCEPT ![c] = @ \ {cl.obj}]
  /\ call' = [call EXCEPT ![c] = cl]
  /\ Goto(c, "get")
  /\ UNCHANGED <<kafkaVars, store, clock, holder, handlerVars, snap,
                 requestVars, time, seen, allTags>>

\* Mark: the whole tag set that was fetched is set again, with the mark.
Mark(c, o) ==
  /\ At(c, "next") /\ kind[c] = "MarkForDeletion" /\ o \in left[c]
  /\ ToMark(c, o)
  /\ Edit(c, [verb |-> "set", obj |-> o,
              ts |-> [keys |-> allTags[c][o].keys, mark |-> time[c]]])

Unmark(c, o) ==
  /\ At(c, "next") /\ kind[c] = "MarkForDeletion" /\ o \in left[c]
  /\ ToUnmark(c, o)
  /\ Edit(c, [verb |-> "delete", obj |-> o,
              ts |-> [keys |-> {}, mark |-> allTags[c][o].mark]])

\* Sweep: every key that was fetched is deleted, the mark's included.
Sweep(c, o) ==
  /\ At(c, "next") /\ kind[c] = "DeleteStaleTags" /\ o \in left[c]
  /\ ToSweep(c, o)
  /\ Edit(c, [verb |-> "delete", obj |-> o, ts |-> allTags[c][o]])

\* ... or is left alone.
Skip(c, o) ==
  /\ At(c, "next") /\ o \in left[c]
  /\ IF kind[c] = "MarkForDeletion" THEN ~ToMark(c, o) /\ ~ToUnmark(c, o)
                                    ELSE ~ToSweep(c, o)
  /\ left' = [left EXCEPT ![c] = @ \ {o}]
  /\ UNCHANGED <<kafkaVars, store, clock, holder, pc, handlerVars, editVars,
                 requestVars, time, seen, allTags>>

EndPass(c) ==
  /\ At(c, "next")
  /\ left[c] = {}
  /\ Goto(c, "unlock")
  /\ UNCHANGED <<kafkaVars, store, clock, holder, handlerVars, editVars,
                 requestVars, cleanerVars>>

-----------------------------------------------------------------------------
(***************************************************************************)
(* The environment                                                         *)
(***************************************************************************)
Tick ==
  /\ clock < MaxTime
  /\ clock' = clock + 1
  /\ UNCHANGED <<kafkaVars, store, holder, pc, handlerVars, editVars,
                 requestVars, cleanerVars>>

\* A broker joins or leaves; a topic is created or deleted by other means.
ComeOrGo(o) ==
  /\ exists' = IF o \in exists THEN exists \ {o} ELSE exists \union {o}
  /\ lagging' = lagging \ {o}
  /\ UNCHANGED <<store, clock, holder, pc, handlerVars, editVars, requestVars,
                 cleanerVars>>

\* The metadata of a new topic reaches the brokers.
BecomeVisible(t) ==
  /\ t \in lagging
  /\ lagging' = lagging \ {t}
  /\ UNCHANGED <<exists, store, clock, holder, pc, handlerVars, editVars,
                 requestVars, cleanerVars>>

\* The process of a request or of a cleaner crashes, anywhere; the lock it may
\* hold goes with its session.
Crash(p) ==
  /\ "crash" \in Faults
  /\ ~At(p, "idle")
  /\ holder' = IF holder = p THEN NoProc ELSE holder
  /\ \/ p \in Requests /\ ReturnRequest(p)
     \/ p \in Cleaners /\ RestartCleaner(p, "MarkForDeletion")
  /\ UNCHANGED <<kafkaVars, store, clock>>

-----------------------------------------------------------------------------
EditStep(p) ==
  \/ Get(p) \/ GetNoNode(p) \/ GetFails(p)
  \/ CreateNode(p) \/ CreateNodeFails(p)
  \/ Put(p) \/ PutFails(p)

RequestStep(r) ==
  \/ CheckTopic(r) \/ CheckTopicFails(r)
  \/ CreateTopic(r) \/ CreateTopicFails(r)
  \/ Relock(r) \/ TagTimeout(r) \/ Retry(r)
  \/ Describe(r) \/ DescribeFails(r)
  \/ DeleteTopic(r) \/ DeleteTopicFails(r)
  \/ NextObject(r) \/ LastObject(r)

CleanerStep(c) ==
  \/ MarkBegin(c) \/ SweepBegin(c)
  \/ GetTopics(c) \/ GetAllTags(c) \/ ReadFails(c)
  \/ \E o \in Objects : Mark(c, o) \/ Unmark(c, o) \/ Sweep(c, o) \/ Skip(c, o)
  \/ EndPass(c)

Next ==
  \/ \E p \in Procs : EditStep(p) \/ Lock(p) \/ LockFails(p) \/ Unlock(p) \/ Crash(p)
  \/ \E r \in Requests : Receive(r) \/ RequestStep(r)
  \/ \E c \in Cleaners : CleanerStep(c)
  \/ \E o \in External : ComeOrGo(o)
  \/ \E t \in Topics : BecomeVisible(t)
  \/ Tick

Spec == Init /\ [][Next]_vars

(***************************************************************************)
(* Handlers that can go on do, and the ticker keeps the cleaner running.   *)
(* The distributed lock is granted in the order of the claims, so a        *)
(* cleaner, whose context has no deadline, gets it if it is released again *)
(* and again.  Nothing says that requests come in, that time passes or     *)
(* that Kafka changes.                                                     *)
(***************************************************************************)
Fairness ==
  /\ \A p \in Procs : WF_vars(EditStep(p) \/ Unlock(p))
  /\ \A r \in Requests : WF_vars(RequestStep(r)) /\ WF_vars(Lock(r) \/ LockFails(r))
  /\ \A c \in Cleaners : WF_vars(CleanerStep(c)) /\ SF_vars(Lock(c))

FairSpec == Spec /\ Fairness

-----------------------------------------------------------------------------
(***************************************************************************)
(* Safety                                                                  *)
(***************************************************************************)

\* The type invariant; tagTopicWithRetries makes at most MaxRetries attempts.
TypeOK ==
  /\ exists \in SUBSET Objects
  /\ lagging \in SUBSET Objects
  /\ store \in [Objects -> TagSets \union {NoTags}]
  /\ clock \in 0 .. MaxTime
  /\ holder \in Procs \union {NoProc}
  /\ pc \in [Procs -> Labels]
  /\ kind \in [Procs -> RequestKinds \union CleanerKinds]
  /\ call \in [Procs -> Calls \union {NoCall}]
  /\ snap \in [Procs -> TagSets]
  /\ res \in [Procs -> {"ok", "err"}]
  /\ ids \in [Requests -> Seq(Objects)]
  /\ nth \in [Requests -> Nat]
  /\ keys \in [Requests -> SUBSET Keys]
  /\ tries \in [Requests -> 0 .. MaxRetries]
  /\ time \in [Cleaners -> 0 .. MaxTime]
  /\ seen \in [Cleaners -> SUBSET Objects]
  /\ allTags \in [Cleaners -> [Objects -> TagSets \union {NoTags}]]
  /\ left \in [Cleaners -> SUBSET Objects]

-----------------------------------------------------------------------------
(***************************************************************************)
(* What the proofs strengthen the safety properties with.                  *)
(***************************************************************************)
Editing == {"get", "mknode", "put"}

\* What each process works on is there: a call while it edits, an object and an
\* attempt while a request runs, and fetched tags for what a cleaner still has
\* to look at.
WorkOK ==
  /\ \A p \in Procs : pc[p] \in Editing => call[p] \in Calls
  /\ \A r \in Requests : ~At(r, "idle") => Len(ids[r]) > 0
  /\ \A r \in Requests : ~At(r, "unlock") => tries[r] < MaxRetries
  /\ \A c \in Cleaners : \A o \in left[c] : allTags[c][o] # NoTags

\* Between Lock and Unlock a handler has the lock.
Exclusive == \A p \in Procs : pc[p] \in Critical => holder = p

\* So the tags it has read are current until it has written them.
SnapCurrent ==
  \A p \in Procs : At(p, "put") => snap[p] = store[call[p].obj]

\* Only MarkForDeletion sets marks, on objects it has not seen.
MarkCalls ==
  /\ \A r \in Requests : pc[r] \in Editing => call[r].ts.mark = NoMark
  /\ \A c \in Cleaners : pc[c] \in Editing /\ call[c].verb = "set"
       => kind[c] = "MarkForDeletion" /\ call[c].obj \notin seen[c]

\* And what it has seen of the topics is current until it unlocks.
SeenTopics ==
  \A c \in Cleaners :
    kind[c] = "MarkForDeletion" /\ pc[c] \in {"alltags", "next"} \union Editing
      => exists \intersect Topics \subseteq seen[c]

\* A request works on what a client has asked for.
RequestOf(r) ==
  ~At(r, "idle") => \E op \in Ops : op.kind = kind[r] /\ op.ids = ids[r] /\ op.keys = keys[r]

\* The keys of r are among the tags of its n-th object.
Stored(r, n) == keys[r] \subseteq TagsOf(store[ids[r][n]]).keys

\* Where a request is in its objects, and the call it makes for each of them.
Before == {"idle", "check", "lock", "createtopic", "describe"}
PositionOK(r) ==
  /\ pc[r] \in Before => nth[r] = 0 /\ res[r] = "ok"
  /\ At(r, "relock") => nth[r] = 0
  /\ At(r, "retry") => res[r] = "err"
  /\ At(r, "deletetopic") => kind[r] = "DeleteTopic"
  /\ At(r, "next") => nth[r] \in 0 .. Len(ids[r])
  /\ pc[r] \in Editing => /\ nth[r] \in 1 .. Len(ids[r])
                          /\ call[r].obj = ids[r][nth[r]]
                          /\ call[r].ts.keys = keys[r]
                          /\ kind[r] \in SetKinds => call[r].verb = "set"

\* The keys of r are stored for the n-th object, the last one it has come to, and,
\* where no call fails, for those before it.
StoredTo(r, n) ==
  /\ n > 0 => Stored(r, n)
  /\ ~MayFail => \A m \in 1 .. n : Stored(r, m)

\* What it has stored by then, and that its calls do not fail by themselves.
ProgressOK(r) ==
  /\ At(r, "mknode") => store[call[r].obj] = NoTags
  /\ ~MayFail /\ pc[r] \in {"next"} \union Editing => res[r] = "ok"
  /\ ~MayFail /\ pc[r] \in Editing => \A n \in 1 .. (nth[r] - 1) : Stored(r, n)
  /\ At(r, "next") /\ res[r] = "ok" => StoredTo(r, nth[r])
  /\ At(r, "unlock") /\ res[r] = "ok" => StoredTo(r, Len(ids[r]))

\* The topic of CreateTopic or TagTopic is there from Describe on.
TaggedTopicOK(r) ==
  \/ pc[r] \in {"next"} \union Editing
  \/ At(r, "unlock") /\ res[r] = "ok" /\ keys[r] # {}
  => Head(ids[r]) \in exists

AckInv ==
  \A r \in Requests : /\ RequestOf(r)
                      /\ PositionOK(r)
                      /\ kind[r] \in SetKinds => ProgressOK(r)
                      /\ kind[r] \in SetTopicKinds => TaggedTopicOK(r)

TagsInv == TypeOK /\ WorkOK /\ Exclusive /\ SnapCurrent

-----------------------------------------------------------------------------
(***************************************************************************)
(* Correctness                                                             *)
(***************************************************************************)

\* Every write of a tag znode is exactly what one SetTags or DeleteTags asks
\* for, applied to the tags as they are at that moment: "any previously
\* existing tags that were not specified in the request remain unmodified",
\* deleted ones do not come back, and a mark is neither lost nor revived.
OtherTagsUnmodified ==
  [][\A p \in Procs : At(p, "put") /\ pc'[p] # "put" /\ store' # store
       => LET o == call[p].obj
          IN store' = [store EXCEPT ![o] = Updated(call[p], TagsOf(store[o]))]]_vars

\* A tag set that a request was told it has stored is there when the request
\* returns: for its last object, whatever failed on the way, and for all of them
\* where no call fails (TagBrokers keeps the last call's error only).  And a topic
\* that CreateTopic or TagTopic reports with tags exists, although Kafka's refusal
\* to create it is not an error: the tagging looks for it again, under the lock.
\* (Nothing is claimed of a CreateTopic without tags, which returns success for
\* any refused topic.)
AckedTagsStored ==
  \A r \in Requests :
    At(r, "unlock") /\ res[r] = "ok" /\ kind[r] \in SetKinds /\ keys[r] # {} =>
      /\ kind[r] \in TopicKinds => Head(ids[r]) \in exists
      /\ Stored(r, Len(ids[r]))
      /\ ~MayFail => \A n \in 1 .. Len(ids[r]) : Stored(r, n)

\* The tags of a topic are marked for deletion only while there is no such
\* topic.  (Claimed where topics are created through the registry only.  For
\* a broker it does not hold: the brokers are read before the lock is taken.)
MarkedTopicIsMissing ==
  [][\A o \in Topics :
       TagsOf(store[o]).mark = NoMark /\ TagsOf(store'[o]).mark # NoMark
         => o \notin exists]_vars

-----------------------------------------------------------------------------
(***************************************************************************)
(* Liveness                                                                *)
(***************************************************************************)
Overdue(o) ==
  TagsOf(store[o]).mark # NoMark /\ clock - TagsOf(store[o]).mark > Staleness

\* A stale mark does not stay: the tags are swept, or unmarked.
OverdueSwept == \A o \in Objects : Overdue(o) ~> ~Overdue(o)

\* Every request returns: CreateTopic does not wait for the lock it has, and
\* does not retry for ever.
RequestReturns == \A r \in Requests : ~At(r, "idle") ~> At(r, "idle")
=============================================================================
