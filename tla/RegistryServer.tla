--------------------------- MODULE RegistryServer ---------------------------
(***************************************************************************)
(* The read requests of the registry server: ValidateRequest               *)
(* (registry/server/server.go) with the token bucket of throttle.go, and   *)
(* TranslateOffsets (api_offset_translation.go), whose requests share the  *)
(* server's only Kafka consumer.  The consumer is external: what is        *)
(* modelled of it is what translateOffsets relies on.                      *)
(*                                                                         *)
(* The bucket is full of free places at first; a request puts a token into *)
(* one, and the refill goroutine takes one out for every tick.             *)
(***************************************************************************)
EXTENDS Naturals, Sequences, FiniteSets

CONSTANTS
    Requests,      \* requests to the server; each comes once
    Capacity,      \* burst capacity of the bucket
    Deadline,      \* [Requests -> {"none", "long", "own"}]: of the request's context
    Topic,         \* [Requests -> DOMAIN Logs \cup {NoTopic}]: checkpoint topic to read
    Group,         \* [Requests -> consumer groups]
    Logs,          \* [topics -> Seq([group, partition, offset])]: the checkpoints
    Initial,       \* [topics -> Nat]: how many of them there are at first
    NoTopic,       \* the topic of any other read request
    NoGroup,       \* the GroupId field is empty
    Malformed,     \* the group of a record that cannot be decoded
    Faulty,        \* requests whose consumer calls may fail
    MaxFired       \* ticks that are counted in a window

ASSUME ServerAssumption ==
    /\ Capacity \in Nat \ {0} /\ MaxFired \in Nat
    /\ Deadline \in [Requests -> {"none", "long", "own"}]
    /\ NoTopic \notin DOMAIN Logs
    /\ Topic \in [Requests -> DOMAIN Logs \cup {NoTopic}]
    /\ Initial \in [DOMAIN Logs -> Nat] /\ \A t \in DOMAIN Logs : Initial[t] <= Len(Logs[t])
    /\ Faulty \subseteq Requests

VARIABLES
    tokens,     \* tokens in the bucket
    tick,       \* ticks in the ticker's channel, which holds one
    waiting,    \* 1 while the refill goroutine waits for a token, else 0
    pc,         \* [Requests -> where the request is]
    assigned,   \* the topic the consumer is assigned
    position,   \* messages of it that have been read; 0: position unset
    end,        \* [Requests -> endOffset]
    offsets,    \* [Requests -> [partitions -> offset]]: the translated offsets
    published,  \* [topics -> records of its log that are there by now]
    alone,      \* translations whose use of the consumer nothing has overlapped
    admitted,   \* requests admitted in the observed window
    fired,      \* ticks fired in it
    credit      \* ticks that were pending when it began

bucket   == <<tokens, tick, waiting>>
consumer == <<assigned, position>>
window   == <<admitted, fired, credit>>
locals   == <<end, offsets, alone>>
vars == <<bucket, pc, consumer, locals, published, window>>

(* Between the first and the last of its calls to the consumer.            *)
Using == {"seek", "query", "poll", "read", "unassign"}
Ended == {"done", "failed", "throttled", "lost"}

Init ==
    /\ tokens = 0 /\ tick = 0 /\ waiting = 0
    /\ pc = [r \in Requests |-> "idle"]
    /\ assigned = NoTopic /\ position = 0
    /\ end = [r \in Requests |-> 0]
    /\ offsets = [r \in Requests |-> <<>>]
    /\ published = Initial
    /\ alone = {}
    /\ admitted = 0 /\ fired = 0 /\ credit = 0

Go(r, to) == pc' = [pc EXCEPT ![r] = to]

(* A request that fails answers with an error, not with what it has read.  *)
Fail(r) ==
    /\ Go(r, "failed")
    /\ end' = [end EXCEPT ![r] = 0] /\ offsets' = [offsets EXCEPT ![r] = <<>>]
    /\ alone' = alone \ {r}

-----------------------------------------------------------------------------
(* The request throttle.                                                   *)

Ticks ==
    /\ tick' = 1
    /\ fired' = IF fired < MaxFired THEN fired + 1 ELSE fired
    /\ UNCHANGED <<tokens, waiting, pc, consumer, locals, published, admitted, credit>>

RefillWakes ==
    /\ tick = 1 /\ waiting = 0
    /\ tick' = 0 /\ waiting' = 1
    /\ UNCHANGED <<tokens, pc, consumer, locals, published, window>>

(* Mutant: the goroutine goes on taking tokens after a tick.               *)
MutTakesOn ==
    /\ waiting = 1 /\ tokens > 0
    /\ tokens' = tokens - 1
    /\ UNCHANGED <<tick, waiting, pc, consumer, locals, published, window>>

RefillTakes ==
    /\ waiting = 1 /\ tokens > 0
    /\ waiting' = 0 /\ tokens' = tokens - 1
    /\ UNCHANGED <<tick, pc, consumer, locals, published, window>>

(* A context without a deadline, or with one too far away, gets a deadline *)
(* of the server's, and a function to cancel it.                           *)
HasCancel(r) == Deadline[r] # "own"

Receive(r) ==
    /\ pc[r] = "idle"
    /\ Go(r, "throttle")
    /\ UNCHANGED <<bucket, consumer, locals, published, window>>

(* Mutant: one token too many.                                             *)
MutOneMore(r) ==
    /\ pc[r] = "throttle" /\ tokens <= Capacity
    /\ tokens' = tokens + 1
    /\ admitted' = admitted + 1
    /\ Go(r, "done")
    /\ UNCHANGED <<tick, waiting, consumer, locals, published, fired, credit>>

(* The request has a token; calls of other handlers from its own, with the *)
(* same context, need none.                                                *)
Admit(r) ==
    /\ pc[r] = "throttle" /\ tokens < Capacity
    /\ tokens' = tokens + 1
    /\ admitted' = IF fired < MaxFired THEN admitted + 1 ELSE admitted
    /\ Go(r, IF Topic[r] = NoTopic THEN "done"
             ELSE IF Group[r] = NoGroup THEN "failed" ELSE "assign")
    /\ UNCHANGED <<tick, waiting, consumer, locals, published, fired, credit>>

(* Mutant: only a deadline of the client's is waited for.                  *)
MutOwnDeadline(r) ==
    /\ pc[r] = "throttle" /\ Deadline[r] = "long"
    /\ Go(r, "throttled")
    /\ UNCHANGED <<bucket, consumer, locals, published, window>>

(* ErrRequestThrottleTimeout *)
Expire(r) ==
    /\ pc[r] = "throttle" /\ HasCancel(r)
    /\ Go(r, "throttled")
    /\ UNCHANGED <<bucket, consumer, locals, published, window>>

(* The deferred function calls cancel, which is nil: the process dies, and *)
(* with it all requests; a new one starts with an empty bucket.            *)
ExpirePanics(r) ==
    /\ pc[r] = "throttle" /\ ~HasCancel(r)
    /\ pc' = [q \in Requests |-> IF pc[q] \in {"idle"} \cup Ended THEN pc[q] ELSE "lost"]
    /\ tokens' = 0 /\ tick' = 0 /\ waiting' = 0
    /\ assigned' = NoTopic /\ position' = 0
    /\ alone' = {q \in alone : pc[q] \in Ended}
    /\ admitted' = 0 /\ fired' = 0 /\ credit' = 0
    /\ UNCHANGED <<end, offsets, published>>

-----------------------------------------------------------------------------
(* translateOffsets.  Another request may come between any two calls.      *)

Assign(r) ==
    LET others == {q \in Requests : pc[q] \in Using}
    IN  /\ pc[r] = "assign"
        /\ assigned' = Topic[r] /\ position' = 0
        /\ alone' = (alone \ others) \cup (IF others = {} THEN {r} ELSE {})
        /\ Go(r, "seek")
        /\ UNCHANGED <<bucket, end, offsets, published, window>>

(* Fails, unnoticed, if the consumer has another assignment.               *)
Seek(r) ==
    /\ pc[r] = "seek"
    /\ position' = IF assigned = Topic[r] THEN 0 ELSE position
    /\ Go(r, "query")
    /\ UNCHANGED <<bucket, assigned, locals, published, window>>

QueryWatermarkOffsets(r) ==
    /\ pc[r] = "query"
    /\ end' = [end EXCEPT ![r] = published[Topic[r]]]
    /\ Go(r, "poll")
    /\ UNCHANGED <<bucket, consumer, offsets, alone, published, window>>

(* Mutant: one record too few is read.                                     *)
MutStopsEarly(r) == assigned = Topic[r] /\ position # 0 /\ position + 1 >= end[r]

(* The position is unset until a message has been read.                    *)
endOfStream(r) == assigned = Topic[r] /\ position # 0 /\ position >= end[r]

Poll(r) ==
    /\ pc[r] = "poll"
    /\ Go(r, IF endOfStream(r) THEN "unassign" ELSE "read")
    /\ UNCHANGED <<bucket, consumer, locals, published, window>>

Readable == assigned # NoTopic /\ position < published[assigned]

(* The checkpoints of the group are kept, a later one of a partition       *)
(* replacing an earlier one.                                               *)
With(f, m) == [p \in DOMAIN f \cup {m.partition} |->
                  IF p = m.partition THEN m.offset ELSE f[p]]

ReadMessage(r) ==
    LET m == Logs[assigned][position + 1]
    IN  /\ pc[r] = "read" /\ Readable
        /\ position' = position + 1
        /\ IF m.group = Malformed THEN Fail(r)
           ELSE /\ Go(r, "poll")
                /\ offsets' = IF m.group = Group[r] THEN [offsets EXCEPT ![r] = With(@, m)]
                              ELSE offsets
                /\ UNCHANGED <<end, alone>>
        /\ UNCHANGED <<bucket, assigned, published, window>>

(* An error leaves the assignment in place.  There is one whenever nothing *)
(* arrives in time, as from an empty topic or without an assignment.       *)
ConsumerFails(r) ==
    /\ \/ pc[r] = "read" /\ ~Readable
       \/ pc[r] \in {"query", "read"} /\ r \in Faulty
    /\ Fail(r)
    /\ UNCHANGED <<bucket, consumer, published, window>>

Unassign(r) ==
    /\ pc[r] = "unassign"
    /\ assigned' = NoTopic /\ position' = 0
    /\ Go(r, "done")
    /\ UNCHANGED <<bucket, locals, published, window>>

-----------------------------------------------------------------------------

(* MirrorMaker emits a checkpoint.                                         *)
Publish ==
    /\ \E t \in DOMAIN Logs :
          /\ published[t] < Len(Logs[t])
          /\ published' = [published EXCEPT ![t] = @ + 1]
    /\ UNCHANGED <<bucket, pc, consumer, locals, window>>

(* A window ends with its tick number MaxFired, and another one starts at  *)
(* any time after it; no step of the server.                               *)
Observe ==
    /\ fired = MaxFired
    /\ admitted' = 0 /\ fired' = 0 /\ credit' = tick + waiting
    /\ UNCHANGED <<bucket, pc, consumer, locals, published>>

Handle(r) ==
    \/ Admit(r) \/ Assign(r) \/ Seek(r) \/ QueryWatermarkOffsets(r) \/ Poll(r)
    \/ ReadMessage(r) \/ ConsumerFails(r) \/ Unassign(r)

Next ==
    \/ Ticks \/ RefillWakes \/ RefillTakes \/ Publish \/ Observe
    \/ \E r \in Requests : Receive(r) \/ Handle(r) \/ Expire(r) \/ ExpirePanics(r)

(* Handlers go on, and every context that ValidateRequest returns has a    *)
(* deadline.  Nothing is assumed of the ticker.                            *)
Spec ==
    /\ Init /\ [][Next]_vars
    /\ \A r \in Requests : WF_vars(Handle(r)) /\ WF_vars(Expire(r) \/ ExpirePanics(r))

-----------------------------------------------------------------------------
(* Properties.                                                             *)

(* Types of the variables; the bucket never holds more than its capacity,  *)
(* the ticker's channel never more than one tick, and only translations    *)
(* use the consumer.                                                       *)
TypeOK ==
    /\ tokens \in 0 .. Capacity /\ tick \in 0 .. 1 /\ waiting \in 0 .. 1
    /\ pc \in [Requests -> {"idle", "throttle", "assign"} \cup Using \cup Ended]
    /\ \A r \in Requests : pc[r] \in {"assign"} \cup Using => Topic[r] \in DOMAIN Logs
    /\ assigned \in DOMAIN Logs \cup {NoTopic} /\ position \in Nat
    /\ end \in [Requests -> Nat]
    /\ published \in [DOMAIN Logs -> Nat]
    /\ alone \subseteq Requests
    /\ admitted \in Nat /\ fired \in 0 .. MaxFired /\ credit \in Nat

(* In a window with fired ticks the throttle admits at most fired requests *)
(* and a burst: the capacity of the bucket, one request more if the refill *)
(* goroutine was already waiting for a token, and one more if another tick *)
(* was left in the channel.  No idle time makes the burst larger.          *)
BurstBounded ==
    /\ credit <= 2
    /\ fired < MaxFired => admitted <= Capacity + credit + fired

(* What the first n records of t say of the group.                         *)
Translation(t, group, n) ==
    LET of(p)   == {i \in 1 .. n : Logs[t][i].group = group /\ Logs[t][i].partition = p}
        parts   == {Logs[t][i].partition : i \in {j \in 1 .. n : Logs[t][j].group = group}}
        last(S) == CHOOSE i \in S : \A j \in S : j <= i
    IN  [p \in parts |-> Logs[t][last(of(p))].offset]

(* A translation that no other overlaps answers with the newest checkpoint *)
(* of every partition, as of the end of the log that it has read (or of    *)
(* the first record, if the log was still empty then); whatever an earlier *)
(* request, which may have failed, has left in the consumer.               *)
SoleTranslationRight ==
    \A r \in alone : pc[r] = "done" =>
        offsets[r] = Translation(Topic[r], Group[r], IF end[r] = 0 THEN 1 ELSE end[r])

(* Every request ends: it is not kept waiting for a token beyond its       *)
(* deadline, and a translation does not wait for ever at the position that *)
(* another one has moved.                                                  *)
RequestReturns == \A r \in Requests : pc[r] # "idle" ~> pc[r] \in Ended
=============================================================================
