------------------------ MODULE RegistryServerProofs ------------------------
(* What the request throttle admits, and what a translation that runs      *)
(* alone reads from the shared consumer, for every capacity, all requests  *)
(* and all logs of checkpoints.                                            *)
EXTENDS RegistryServer, TLAPS

(* The types are kept by all interleavings of the ticker, the refill       *)
(* goroutine, the handlers and the panic of ValidateRequest.               *)
THEOREM TypeCorrect == Spec => []TypeOK
<1>1. Init => TypeOK
  BY ServerAssumption DEF Init, TypeOK, Using, Ended
<1>2. TypeOK /\ [Next]_vars => TypeOK'
  <2> SUFFICES ASSUME TypeOK, [Next]_vars PROVE TypeOK'
    OBVIOUS
  <2> USE ServerAssumption DEF TypeOK, Using, Ended
  <2>1. CASE Ticks
    BY <2>1 DEF Ticks, consumer, locals
  <2>2. CASE RefillWakes
    BY <2>2 DEF RefillWakes, consumer, locals, window
  <2>3. CASE RefillTakes
    BY <2>3 DEF RefillTakes, consumer, locals, window
  <2>4. CASE Publish
    BY <2>4 DEF Publish, bucket, consumer, locals, window
  <2>5. CASE Observe
    BY <2>5 DEF Observe, bucket, consumer, locals
  <2>6. ASSUME NEW r \in Requests,
               Receive(r) \/ Handle(r) \/ Expire(r) \/ ExpirePanics(r)
        PROVE  TypeOK'
    <3>1. CASE Receive(r)
      BY <3>1 DEF Receive, Go, bucket, consumer, locals, window
    <3>2. CASE Expire(r)
      BY <3>2 DEF Expire, Go, bucket, consumer, locals, window
    <3>3. CASE ExpirePanics(r)
      BY <3>3 DEF ExpirePanics
    <3>4. CASE Admit(r)
      BY <3>4 DEF Admit, Go, consumer, locals
    <3>5. CASE Assign(r)
      BY <3>5 DEF Assign, Go, bucket, window
    <3>6. CASE Seek(r)
      BY <3>6 DEF Seek, Go, bucket, locals, window
    <3>7. CASE QueryWatermarkOffsets(r)
      BY <3>7 DEF QueryWatermarkOffsets, Go, bucket, consumer, window
    <3>8. CASE Poll(r)
      BY <3>8 DEF Poll, Go, bucket, consumer, locals, window
    <3>9. CASE ReadMessage(r)
      <4>1. /\ pc[r] = "read" /\ position' = position + 1
            /\ UNCHANGED <<bucket, assigned, published, window>>
            /\ Fail(r) \/ (Go(r, "poll") /\ UNCHANGED <<end, alone>>)
        BY <3>9, Zenon DEF ReadMessage
      <4>2. CASE Fail(r)
        BY <4>1, <4>2 DEF Fail, Go, bucket, window
      <4>3. CASE Go(r, "poll") /\ UNCHANGED <<end, alone>>
        BY <4>1, <4>3 DEF Go, bucket, window
      <4> QED
        BY <4>1, <4>2, <4>3
    <3>10. CASE ConsumerFails(r)
      BY <3>10 DEF ConsumerFails, Fail, Go, bucket, consumer, window
    <3>11. CASE Unassign(r)
      BY <3>11 DEF Unassign, Go, bucket, locals, window
    <3> QED
      BY <2>6, <3>1, <3>2, <3>3, <3>4, <3>5, <3>6, <3>7, <3>8, <3>9, <3>10, <3>11 DEF Handle
  <2>7. CASE UNCHANGED vars
    BY <2>7 DEF vars, bucket, consumer, locals, window
  <2> QED
    BY <2>1, <2>2, <2>3, <2>4, <2>5, <2>6, <2>7 DEF Next
<1> QED
  BY <1>1, <1>2, PTL DEF Spec

(* Every admitted request has left its token in the bucket or has had it   *)
(* taken for a tick; a tick is used once, and pending until then.          *)
TokensAccounted ==
    /\ credit <= 2
    /\ fired < MaxFired => admitted + tick + waiting <= tokens + fired + credit

(* The bound on a burst, for every capacity and any number of requests.    *)
THEOREM BurstBoundedHolds == Spec => []BurstBounded
<1>1. Init => TokensAccounted
  BY DEF Init, TokensAccounted
<1>2. TypeOK /\ TokensAccounted /\ [Next]_vars => TokensAccounted'
  <2> SUFFICES ASSUME TypeOK, TokensAccounted, [Next]_vars PROVE TokensAccounted'
    OBVIOUS
  <2> USE ServerAssumption DEF TokensAccounted, TypeOK
  <2>1. CASE Ticks
    BY <2>1 DEF Ticks
  <2>2. CASE RefillWakes
    BY <2>2 DEF RefillWakes, window
  <2>3. CASE RefillTakes
    BY <2>3 DEF RefillTakes, window
  <2>4. CASE Publish
    BY <2>4 DEF Publish, bucket, window
  <2>5. CASE Observe
    BY <2>5 DEF Observe, bucket
  <2>6. ASSUME NEW r \in Requests,
               Receive(r) \/ Handle(r) \/ Expire(r) \/ ExpirePanics(r)
        PROVE  TokensAccounted'
    <3>1. CASE Admit(r)
      BY <3>1 DEF Admit
    <3>2. CASE ExpirePanics(r)
      BY <3>2 DEF ExpirePanics
    <3>3. ASSUME ~Admit(r), ~ExpirePanics(r) PROVE UNCHANGED <<bucket, window>>
      BY <2>6, <3>3 DEF Receive, Handle, Expire, Assign, Seek, QueryWatermarkOffsets, Poll,
         ReadMessage, ConsumerFails, Unassign
    <3> QED
      BY <3>1, <3>2, <3>3 DEF bucket, window
  <2>7. CASE UNCHANGED vars
    BY <2>7 DEF vars, bucket, window
  <2> QED
    BY <2>1, <2>2, <2>3, <2>4, <2>5, <2>6, <2>7 DEF Next
<1>3. TypeOK /\ TokensAccounted => BurstBounded
  BY ServerAssumption DEF TypeOK, TokensAccounted, BurstBounded
<1> QED
  BY <1>1, <1>2, <1>3, TypeCorrect, PTL DEF Spec

-----------------------------------------------------------------------------
(* The shared consumer.                                                    *)

(* Nothing is said of any partition by no records.                         *)
LEMMA TranslationOfNone ==
    ASSUME NEW t, NEW g PROVE Translation(t, g, 0) = <<>>
  BY DEF Translation

(* A record of the group replaces what was said of its partition.          *)
LEMMA TranslationWith ==
    ASSUME NEW t, NEW g, NEW n \in Nat, Logs[t][n + 1].group = g
    PROVE  Translation(t, g, n + 1) = With(Translation(t, g, n), Logs[t][n + 1])
<1> DEFINE m == Logs[t][n + 1]
           of(k, p)   == {i \in 1 .. k : Logs[t][i].group = g /\ Logs[t][i].partition = p}
           parts(k)   == {Logs[t][i].partition : i \in {j \in 1 .. k : Logs[t][j].group = g}}
           last(S)    == CHOOSE i \in S : \A j \in S : j <= i
<1>1. \A k : Translation(t, g, k) = [p \in parts(k) |-> Logs[t][last(of(k, p))].offset]
  BY DEF Translation
<1>2. 1 .. (n + 1) = (1 .. n) \cup {n + 1}
  OBVIOUS
<1>3. parts(n + 1) = parts(n) \cup {m.partition}
  BY <1>2
<1>4. \A p : p # m.partition => of(n + 1, p) = of(n, p)
  BY <1>2
<1>5. last(of(n + 1, m.partition)) = n + 1
  <2>1. n + 1 \in of(n + 1, m.partition)
    BY <1>2
  <2>2. \A j \in of(n + 1, m.partition) : j \in Nat /\ j <= n + 1
    OBVIOUS
  <2>3. \A i \in of(n + 1, m.partition) :
           (\A j \in of(n + 1, m.partition) : j <= i) => i = n + 1
    BY <2>1, <2>2
  <2> HIDE DEF of
  <2> QED
    BY <2>1, <2>2, <2>3
<1> HIDE DEF of, parts, last, m
<1>6. Translation(t, g, n) = [p \in parts(n) |-> Logs[t][last(of(n, p))].offset]
  BY <1>1
<1>7. Translation(t, g, n + 1) = [p \in parts(n) \cup {m.partition} |->
                                     Logs[t][last(of(n + 1, p))].offset]
  BY <1>1, <1>3
<1>8. With(Translation(t, g, n), m) =
        [p \in parts(n) \cup {m.partition} |->
            IF p = m.partition THEN m.offset ELSE Translation(t, g, n)[p]]
  BY <1>6 DEF With
<1>9. \A p \in parts(n) \cup {m.partition} :
         Logs[t][last(of(n + 1, p))].offset
           = IF p = m.partition THEN m.offset ELSE Translation(t, g, n)[p]
  BY <1>4, <1>5, <1>6 DEF m
<1> QED
  BY <1>7, <1>8, <1>9 DEF m

(* Any other record says nothing.                                          *)
LEMMA TranslationWithout ==
    ASSUME NEW t, NEW g, NEW n \in Nat, Logs[t][n + 1].group # g
    PROVE  Translation(t, g, n + 1) = Translation(t, g, n)
<1> DEFINE of(k, p)   == {i \in 1 .. k : Logs[t][i].group = g /\ Logs[t][i].partition = p}
           parts(k)   == {Logs[t][i].partition : i \in {j \in 1 .. k : Logs[t][j].group = g}}
           last(S)    == CHOOSE i \in S : \A j \in S : j <= i
<1>1. \A k : Translation(t, g, k) = [p \in parts(k) |-> Logs[t][last(of(k, p))].offset]
  BY DEF Translation
<1>2. 1 .. (n + 1) = (1 .. n) \cup {n + 1}
  OBVIOUS
<1>3. parts(n + 1) = parts(n)
  BY <1>2
<1>4. \A p : of(n + 1, p) = of(n, p)
  BY <1>2
<1> HIDE DEF of, parts, last
<1> QED
  BY <1>1, <1>3, <1>4

(* How much a translation has read when it is done.                        *)
Goal(r) == IF end[r] = 0 THEN 1 ELSE end[r]

(* A request that has not used the consumer yet has translated nothing.    *)
FreshOffsets ==
    /\ DOMAIN offsets = Requests
    /\ \A r \in Requests : pc[r] \in {"idle", "throttle", "assign"} => offsets[r] = <<>>

(* The consumer is at the disposal of a translation that is alone.  What   *)
(* has been read up to the consumer's position is what it has translated,  *)
(* and the position is never beyond its goal.                              *)
AloneOK(r) ==
    /\ pc[r] \in Using =>
         /\ assigned = Topic[r]
         /\ \A q \in Requests \ {r} : pc[q] \notin Using
         /\ offsets[r] = Translation(Topic[r], Group[r], position)
    /\ pc[r] \in {"seek", "query"} => position = 0
    /\ pc[r] = "poll" => position <= Goal(r)
    /\ pc[r] = "read" => position < Goal(r)
    /\ pc[r] = "unassign" => position = Goal(r)
    /\ pc[r] = "done" => offsets[r] = Translation(Topic[r], Group[r], Goal(r))

ConsumerInv ==
    /\ FreshOffsets
    /\ \A r \in alone : pc[r] \in Using \cup Ended /\ AloneOK(r)

(* A step that another process takes outside the consumer.                 *)
LEMMA Untouched ==
    ASSUME TypeOK, ConsumerInv, UNCHANGED <<pc, consumer, locals>>
    PROVE  ConsumerInv'
  BY DEF ConsumerInv, FreshOffsets, AloneOK, Goal, consumer, locals

(* The consumer, by itself or by another's leftovers, never makes a        *)
(* translation that is alone wrong, whatever the logs are.                 *)
THEOREM SoleTranslationRightHolds == Spec => []SoleTranslationRight
<1>1. Init => ConsumerInv
  BY DEF Init, ConsumerInv, FreshOffsets
<1>2. TypeOK /\ ConsumerInv /\ [Next]_vars => ConsumerInv'
  <2> SUFFICES ASSUME TypeOK, ConsumerInv, [Next]_vars PROVE ConsumerInv'
    OBVIOUS
  <2>1. CASE Ticks \/ RefillWakes \/ RefillTakes \/ Publish \/ Observe \/ UNCHANGED vars
    <3>1. UNCHANGED <<pc, consumer, locals>>
      BY <2>1 DEF Ticks, RefillWakes, RefillTakes, Publish, Observe, vars
    <3> QED
      BY <3>1, Untouched
  <2>2. ASSUME NEW r \in Requests,
               Receive(r) \/ Handle(r) \/ Expire(r) \/ ExpirePanics(r)
        PROVE  ConsumerInv'
    <3> USE DEF ConsumerInv, FreshOffsets, AloneOK, Goal, Using, Ended
    <3>1. CASE Receive(r)
      BY <3>1 DEF Receive, Go, consumer, locals, TypeOK
    <3>2. CASE Expire(r)
      BY <3>2 DEF Expire, Go, consumer, locals, TypeOK
    <3>3. CASE ExpirePanics(r)
      BY <3>3 DEF ExpirePanics, TypeOK
    <3>4. CASE Admit(r)
      BY <3>4 DEF Admit, Go, consumer, locals, TypeOK
    <3>5. CASE Assign(r)
      BY <3>5, TranslationOfNone DEF Assign, Go, TypeOK
    <3>6. CASE Seek(r)
      BY <3>6 DEF Seek, Go, locals, TypeOK
    <3>7. CASE QueryWatermarkOffsets(r)
      BY <3>7 DEF QueryWatermarkOffsets, Go, consumer, TypeOK
    <3>8. CASE Poll(r)
      BY <3>8 DEF Poll, Go, endOfStream, consumer, locals, TypeOK
    <3>9. CASE ReadMessage(r)
      <4> DEFINE m == Logs[assigned][position + 1]
      <4>1. /\ pc[r] = "read" /\ position' = position + 1 /\ UNCHANGED assigned
            /\ \/ Fail(r)
               \/ /\ Go(r, "poll") /\ UNCHANGED <<end, alone>>
                  /\ offsets' = IF m.group = Group[r] THEN [offsets EXCEPT ![r] = With(@, m)]
                                ELSE offsets
        BY <3>9, Zenon DEF ReadMessage
      <4>2. \A q \in alone \ {r} : pc[q] \notin Using
        BY <4>1
      <4>3. CASE Fail(r)
        BY <4>1, <4>2, <4>3 DEF Fail, Go, TypeOK
      <4>4. CASE ~Fail(r)
        <5>1. r \in alone => offsets'[r] = Translation(Topic[r], Group[r], position + 1)
          <6> SUFFICES ASSUME r \in alone
                       PROVE  offsets'[r] = Translation(Topic[r], Group[r], position + 1)
            OBVIOUS
          <6>1. /\ assigned = Topic[r] /\ position \in Nat
                /\ offsets[r] = Translation(Topic[r], Group[r], position)
            BY <4>1 DEF TypeOK
          <6>2. CASE m.group = Group[r]
            <7>1. offsets'[r] = With(offsets[r], m)
              BY <4>1, <4>4, <6>2
            <7>2. m = Logs[Topic[r]][position + 1]
              BY <6>1
            <7> HIDE DEF m, ConsumerInv, FreshOffsets, AloneOK, Goal, Using, Ended
            <7>3. Logs[Topic[r]][position + 1].group = Group[r]
              BY <6>2, <7>2
            <7>4. Translation(Topic[r], Group[r], position + 1)
                    = With(Translation(Topic[r], Group[r], position), Logs[Topic[r]][position + 1])
              BY <6>1, <7>3, TranslationWith, Zenon
            <7> QED
              BY <6>1, <7>1, <7>2, <7>4, Zenon
          <6>3. CASE m.group # Group[r]
            BY <4>1, <4>4, <6>1, <6>3, TranslationWithout
          <6> QED
            BY <6>2, <6>3
        <5> HIDE DEF m
        <5>2. /\ pc' = [pc EXCEPT ![r] = "poll"] /\ UNCHANGED <<end, alone>>
              /\ position' = position + 1 /\ UNCHANGED assigned
          BY <4>1, <4>4 DEF Go
        <5>3. \A q \in Requests \ {r} : offsets'[q] = offsets[q]
          BY <4>1, <4>4
        <5>4. FreshOffsets'
          BY <4>1, <4>4, <5>2, <5>3 DEF TypeOK
        <5>5. r \in alone => pc'[r] \in Using \cup Ended /\ AloneOK(r)'
          BY <4>1, <5>1, <5>2 DEF TypeOK
        <5>6. \A q \in alone \ {r} : pc'[q] \in Using \cup Ended /\ AloneOK(q)'
          BY <4>2, <5>2, <5>3 DEF TypeOK
        <5> QED
          BY <5>2, <5>4, <5>5, <5>6
      <4> QED
        BY <4>3, <4>4
    <3>10. CASE ConsumerFails(r)
      BY <3>10 DEF ConsumerFails, Fail, Go, consumer, TypeOK
    <3>11. CASE Unassign(r)
      BY <3>11 DEF Unassign, Go, locals, TypeOK
    <3> QED
      BY <2>2, <3>1, <3>2, <3>3, <3>4, <3>5, <3>6, <3>7, <3>8, <3>9, <3>10, <3>11 DEF Handle
  <2> QED
    BY <2>1, <2>2 DEF Next
<1>3. ConsumerInv => SoleTranslationRight
  BY DEF ConsumerInv, AloneOK, SoleTranslationRight, Goal
<1> QED
  BY <1>1, <1>2, <1>3, TypeCorrect, PTL DEF Spec
=============================================================================
