------------------------------- MODULE ZKLock -------------------------------
(***************************************************************************)
(* The ZooKeeper backed lock of cluster/zookeeper (ZooKeeperLock).         *)
(*                                                                         *)
(* A Lock call enters an ephemeral, sequentially numbered claim znode      *)
(* under the lock path, and waits until its claim is the lowest one.  The  *)
(* claims are shared by every process that uses the path; the fields       *)
(* lockZnode and owner are shared by every goroutine that uses the same    *)
(* ZooKeeperLock value (in the registry: by every gRPC request).           *)
(*                                                                         *)
(* A claim is its sequence number: the znode path and the metadata in it   *)
(* matter only through that number and through whether the TTL deadline    *)
(* in the metadata has passed (expired).                                   *)
(***************************************************************************)
EXTENDS Integers, FiniteSets

CONSTANTS
  Clients,      \* callers of Lock/Unlock: requests, the tag cleaner
  Instances,    \* ZooKeeperLock values, each with its own ZooKeeper session
  InstOf,       \* the instance each client calls
  OwnerOf,      \* the client's context value for OwnerKey; NoOwner if it has none
  NoOwner,      \* the nil owner
  NoClient,     \* mu is free
  TTLInstances, \* the instances configured with TTL > 0
  Deadlined,    \* the clients whose context has a deadline
  Faults,       \* the faults that may happen, a subset of FaultKinds
  MaxInterval,  \* loop iterations before a waiting error is fatal: 5 in the code
  MaxSeq        \* bound on the number of claims ever created

FaultKinds == {"zkerr", "lostreply", "session", "crash"}

ASSUME ConstantsAssumption ==
  /\ InstOf \in [Clients -> Instances]
  /\ NoClient \notin Clients
  /\ TTLInstances \subseteq Instances
  /\ Deadlined \subseteq Clients
  /\ Faults \subseteq FaultKinds
  /\ MaxInterval \in Nat
  /\ MaxSeq \in Nat

VARIABLES
  \* ZooKeeper: what is under the lock path.
  claims,    \* the live claims of each instance's current session
  ghosts,    \* the live claims of sessions whose process has crashed
  nextSeq,   \* the parent's sequence counter
  expired,   \* the claims whose TTLDeadline has passed
  \* A ZooKeeperLock instance.
  lockZnode, owner,
  mu,        \* the client that holds mu across several steps (Unlock)
  \* A client: where it is, and the local variables of its call.
  pc,
  thisID,
  lockAhead,      \* the claim ahead of ours in the last listing
  interval,
  lockWaitingErr,
  attempt

zkVars   == <<claims, ghosts, nextSeq, expired>>
instVars == <<lockZnode, owner, mu>>
callVars == <<thisID, lockAhead, interval, lockWaitingErr, attempt>>
vars     == <<zkVars, instVars, pc, callVars>>

NoZnode == -1          \* the empty path, or no claim
ZnodeIDs == Nat \union {NoZnode}
MaxAttempts == 3       \* delete attempts of one Unlock

Owners == {OwnerOf[c] : c \in Clients} \union {NoOwner}

\* Lock has been called and has not returned yet.
Locking == {"create", "list", "grant", "expire", "purge", "clear", "watch",
            "wait", "remove"}
\* Lock has returned nil and the deferred Unlock has not returned yet.
Holding == {"held", "unlock", "delete"}

\* The claims under the lock path.
Znodes == ghosts \union UNION {claims[i] : i \in Instances}

inst(c) == InstOf[c]
Peers(i) == {c \in Clients : InstOf[c] = i}
Goto(c, l) == pc' = [pc EXCEPT ![c] = l]
At(c, l) == pc[c] = l
MuFree(c) == mu[inst(c)] = NoClient
ZKMayFail == "zkerr" \in Faults

\* The call of c returns: its local variables are gone.
Return(c) ==
  /\ Goto(c, "idle")
  /\ thisID' = [thisID EXCEPT ![c] = NoZnode]
  /\ lockAhead' = [lockAhead EXCEPT ![c] = NoZnode]
  /\ interval' = [interval EXCEPT ![c] = 0]
  /\ lockWaitingErr' = [lockWaitingErr EXCEPT ![c] = FALSE]
  /\ attempt' = [attempt EXCEPT ![c] = 0]

Init ==
  /\ claims = [i \in Instances |-> {}]
  /\ ghosts = {}
  /\ nextSeq = 0
  /\ expired = {}
  /\ lockZnode = [i \in Instances |-> NoZnode]
  /\ owner = [i \in Instances |-> NoOwner]
  /\ mu = [i \in Instances |-> NoClient]
  /\ pc = [c \in Clients |-> "idle"]
  /\ thisID = [c \in Clients |-> NoZnode]
  /\ lockAhead = [c \in Clients |-> NoZnode]
  /\ interval = [c \in Clients |-> 0]
  /\ lockWaitingErr = [c \in Clients |-> FALSE]
  /\ attempt = [c \in Clients |-> 0]

-----------------------------------------------------------------------------
(***************************************************************************)
(* The listing of the lock path, LockEntries.                              *)
(***************************************************************************)

\* Mutants: the listing is not sorted; it is sorted the wrong way round.
MutAnyClaim(L, n) == n \in L
MutLastClaim(L, n) == n \in L /\ \A z \in L : z <= n

\* First returns the lowest ID, and 0 (with an error that Lock drops) when
\* nothing is listed: this is when n equals what it returns.
IsFirst(L, n) ==
  \/ L = {} /\ n = 0
  \/ n \in L /\ \A z \in L : n <= z

\* The ID immediately ahead of n, as a set of at most one element: there is
\* none when n is the first one or is itself not listed any more.
LockAhead(L, n) ==
  {p \in L : n \in L /\ p < n /\ \A z \in L : z < n => z <= p}

\* LockPath: the path of n, empty when it is not listed.
LockPath(L, n) == IF n \in L THEN n ELSE NoZnode

-----------------------------------------------------------------------------
(***************************************************************************)
(* deleteLockZnode reads the znode's version and deletes that version. The *)
(* data of a claim never changes, so it fails exactly when the path is not *)
(* there (or ZooKeeper fails).                                             *)
(***************************************************************************)
deleteLockZnode(z) ==
  /\ z \in Znodes
  /\ claims' = [i \in Instances |-> claims[i] \ {z}]
  /\ ghosts' = ghosts \ {z}
  /\ UNCHANGED <<nextSeq, expired>>

\* Its error returns: nothing was deleted, or the znode was deleted and only the
\* reply was lost.
deleteFails(z) ==
  \/ (z \notin Znodes \/ ZKMayFail) /\ UNCHANGED zkVars
  \/ "lostreply" \in Faults /\ deleteLockZnode(z)

-----------------------------------------------------------------------------
(***************************************************************************)
(* Lock                                                                    *)
(***************************************************************************)

\* The owner check passes; otherwise ErrAlreadyOwnLock is returned and nothing
\* changes.  The bound counts the claims about to be created.
LockStart(c) ==
  /\ At(c, "idle")
  /\ MuFree(c)
  /\ OwnerOf[c] = NoOwner \/ OwnerOf[c] # owner[inst(c)]
  /\ nextSeq + Cardinality({d \in Clients : At(d, "create")}) < MaxSeq
  /\ Goto(c, "create")
  /\ UNCHANGED <<zkVars, instVars, callVars>>

\* CreateProtectedEphemeralSequential.  TTLDeadline is now + TTL, so without a
\* TTL the claim is expired from the start.
CreateClaim(c) ==
  /\ claims' = [claims EXCEPT ![inst(c)] = @ \union {nextSeq}]
  /\ expired' = IF inst(c) \in TTLInstances THEN expired
                                            ELSE expired \union {nextSeq}
  /\ nextSeq' = nextSeq + 1
  /\ UNCHANGED ghosts

Create(c) ==
  /\ At(c, "create")
  /\ CreateClaim(c)
  /\ thisID' = [thisID EXCEPT ![c] = nextSeq]
  /\ Goto(c, "list")
  /\ UNCHANGED <<instVars, lockAhead, interval, lockWaitingErr, attempt>>

\* Creating fails; the deferred cleanup has no path to delete.  When only the
\* reply was lost the claim is there all the same.
CreateFails(c) ==
  /\ At(c, "create")
  /\ \/ ZKMayFail /\ UNCHANGED zkVars
     \/ "lostreply" \in Faults /\ CreateClaim(c)
  /\ Return(c)
  /\ UNCHANGED instVars

\* The head of the loop: count the iteration, then give up ...
NextInterval(c) == IF interval[c] > MaxInterval THEN interval[c]
                                                ELSE interval[c] + 1
\* Mutants: no failure threshold; one iteration too few before it.
MutNeverGivesUp(c) == FALSE
MutGivesUpEarly(c) == NextInterval(c) >= MaxInterval /\ lockWaitingErr[c]

GivesUp(c) == NextInterval(c) > MaxInterval /\ lockWaitingErr[c]

GiveUp(c) ==
  /\ At(c, "list")
  /\ GivesUp(c)
  /\ Goto(c, "remove")
  /\ UNCHANGED <<zkVars, instVars, callVars>>

\* ... or list the claims, under mu.RLock, and see whether ours is the first.
List(c) ==
  /\ At(c, "list")
  /\ ~GivesUp(c)
  /\ MuFree(c)
  /\ interval' = [interval EXCEPT ![c] = NextInterval(c)]
  /\ \/ /\ IsFirst(Znodes, thisID[c])
        /\ lockAhead' = [lockAhead EXCEPT ![c] = LockPath(Znodes, thisID[c])]
        /\ Goto(c, "grant")
     \/ /\ ~IsFirst(Znodes, thisID[c])
        /\ \E p \in IF LockAhead(Znodes, thisID[c]) = {} THEN {NoZnode}
                    ELSE LockAhead(Znodes, thisID[c]) :
             lockAhead' = [lockAhead EXCEPT ![c] = p]
        /\ Goto(c, IF inst(c) \in TTLInstances THEN "expire" ELSE "watch")
  /\ UNCHANGED <<zkVars, instVars, thisID, lockWaitingErr, attempt>>

ListFails(c) ==
  /\ At(c, "list")
  /\ ~GivesUp(c)
  /\ MuFree(c)
  /\ ZKMayFail
  /\ Goto(c, "remove")
  /\ UNCHANGED <<zkVars, instVars, callVars>>

\* Mutant: the owner is not recorded.
MutGrantNoOwner(c) ==
  /\ At(c, "grant")
  /\ MuFree(c)
  /\ lockZnode' = [lockZnode EXCEPT ![inst(c)] = lockAhead[c]]
  /\ Goto(c, "held")
  /\ UNCHANGED <<zkVars, owner, mu, callVars>>

\* We have the lock: record the path and, if the context has one, the owner.
Grant(c) ==
  /\ At(c, "grant")
  /\ MuFree(c)
  /\ lockZnode' = [lockZnode EXCEPT ![inst(c)] = lockAhead[c]]
  /\ owner' = [owner EXCEPT ![inst(c)] = IF OwnerOf[c] = NoOwner THEN @
                                                               ELSE OwnerOf[c]]
  /\ Goto(c, "held")
  /\ UNCHANGED <<zkVars, mu, callVars>>

\* A step of the waiting part fails: remember the error, try again.
Retry(c) ==
  /\ lockWaitingErr' = [lockWaitingErr EXCEPT ![c] = TRUE]
  /\ Goto(c, "list")
  /\ UNCHANGED <<instVars, thisID, lockAhead, interval, attempt>>

\* expireLockAhead reads the metadata of the claim ahead.
ExpireCheck(c) ==
  /\ At(c, "expire")
  /\ lockAhead[c] \in Znodes
  /\ Goto(c, IF lockAhead[c] \in expired THEN "purge" ELSE "watch")
  /\ UNCHANGED <<zkVars, instVars, callVars>>

ExpireCheckFails(c) ==
  /\ At(c, "expire")
  /\ lockAhead[c] \notin Znodes \/ ZKMayFail
  /\ Retry(c)
  /\ UNCHANGED zkVars

\* It purges an expired claim ...
Purge(c) ==
  /\ At(c, "purge")
  /\ deleteLockZnode(lockAhead[c])
  /\ Goto(c, "clear")
  /\ UNCHANGED <<instVars, callVars>>

PurgeFails(c) ==
  /\ At(c, "purge")
  /\ deleteFails(lockAhead[c])
  /\ Retry(c)

\* ... and then clears the lock state of its own instance.
Clear(c) ==
  /\ At(c, "clear")
  /\ MuFree(c)
  /\ lockZnode' = [lockZnode EXCEPT ![inst(c)] = NoZnode]
  /\ owner' = [owner EXCEPT ![inst(c)] = NoOwner]
  /\ Goto(c, "list")
  /\ UNCHANGED <<zkVars, mu, callVars>>

\* getLockAheadWait: put a watch on the claim ahead.
Watch(c) ==
  /\ At(c, "watch")
  /\ lockAhead[c] \in Znodes
  /\ Goto(c, "wait")
  /\ UNCHANGED <<zkVars, instVars, callVars>>

WatchFails(c) ==
  /\ At(c, "watch")
  /\ lockAhead[c] \notin Znodes \/ ZKMayFail
  /\ Retry(c)
  /\ UNCHANGED zkVars

\* The select: the watched claim is gone ...
Wake(c) ==
  /\ At(c, "wait")
  /\ lockAhead[c] \notin Znodes
  /\ Goto(c, "list")
  /\ UNCHANGED <<zkVars, instVars, callVars>>

\* ... or the context is done.
TimeOut(c) ==
  /\ At(c, "wait")
  /\ c \in Deadlined
  /\ Goto(c, "remove")
  /\ UNCHANGED <<zkVars, instVars, callVars>>

\* Mutant: a Lock that timed out leaves its claim behind.
MutRemoveNothing(c) ==
  /\ At(c, "remove")
  /\ Return(c)
  /\ UNCHANGED <<zkVars, instVars>>

\* The deferred cleanup of a failed Lock: one attempt, its error dropped.
Remove(c) ==
  /\ At(c, "remove")
  /\ deleteLockZnode(thisID[c]) \/ deleteFails(thisID[c])
  /\ Return(c)
  /\ UNCHANGED instVars

-----------------------------------------------------------------------------
(***************************************************************************)
(* Unlock.  The owner is read under mu.RLock, which is released before mu  *)
(* is taken for the rest of the call.                                      *)
(***************************************************************************)
UnlockStart(c) ==
  /\ At(c, "held")
  /\ MuFree(c)
  /\ OwnerOf[c] = NoOwner \/ OwnerOf[c] = owner[inst(c)]
  /\ Goto(c, "unlock")
  /\ UNCHANGED <<zkVars, instVars, callVars>>

\* ErrNotLockOwner.  The callers only log it (UnlockLogError).
NotOwner(c) ==
  /\ At(c, "held")
  /\ MuFree(c)
  /\ OwnerOf[c] # NoOwner /\ OwnerOf[c] # owner[inst(c)]
  /\ Return(c)
  /\ UNCHANGED <<zkVars, instVars>>

UnlockMu(c) ==
  /\ At(c, "unlock")
  /\ MuFree(c)
  /\ mu' = [mu EXCEPT ![inst(c)] = c]
  /\ Goto(c, "delete")
  /\ UNCHANGED <<zkVars, lockZnode, owner, callVars>>

UnlockDelete(c) ==
  /\ At(c, "delete")
  /\ deleteLockZnode(lockZnode[inst(c)])
  /\ lockZnode' = [lockZnode EXCEPT ![inst(c)] = NoZnode]
  /\ owner' = [owner EXCEPT ![inst(c)] = NoOwner]
  /\ mu' = [mu EXCEPT ![inst(c)] = NoClient]
  /\ Return(c)

\* Mutants: one attempt too many; the attempts start over.
MutUnlockExtraAttempt(c) ==
  /\ At(c, "delete")
  /\ deleteFails(lockZnode[inst(c)])
  /\ attempt[c] < MaxAttempts
  /\ attempt' = [attempt EXCEPT ![c] = @ + 1]
  /\ UNCHANGED <<instVars, pc, thisID, lockAhead, interval, lockWaitingErr>>

MutUnlockRetriesForever(c) ==
  /\ At(c, "delete")
  /\ deleteFails(lockZnode[inst(c)])
  /\ attempt' = [attempt EXCEPT ![c] = (@ + 1) % MaxAttempts]
  /\ UNCHANGED <<instVars, pc, thisID, lockAhead, interval, lockWaitingErr>>

\* A failed attempt; after the last one ErrUnlockingFailed, the state kept.  An
\* attempt that did delete the claim makes the later ones fail to find it.
UnlockDeleteFails(c) ==
  /\ At(c, "delete")
  /\ deleteFails(lockZnode[inst(c)])
  /\ \/ /\ attempt[c] + 1 < MaxAttempts
        /\ attempt' = [attempt EXCEPT ![c] = @ + 1]
        /\ UNCHANGED <<instVars, pc, thisID, lockAhead, interval, lockWaitingErr>>
     \/ /\ attempt[c] + 1 >= MaxAttempts
        /\ mu' = [mu EXCEPT ![inst(c)] = NoClient]
        /\ Return(c)
        /\ UNCHANGED <<lockZnode, owner>>

-----------------------------------------------------------------------------
(***************************************************************************)
(* The environment: time, ZooKeeper sessions and crashes.                  *)
(***************************************************************************)

\* The TTL deadline of a claim passes.
TTLPass ==
  \E z \in Znodes \ expired :
    /\ expired' = expired \union {z}
    /\ UNCHANGED <<claims, ghosts, nextSeq, instVars, pc, callVars>>

\* ZooKeeper expires the session of an instance that is still running: its
\* claims go and its watches fire, but its goroutines carry on.
SessionExpire(i) ==
  /\ "session" \in Faults
  /\ claims' = [claims EXCEPT ![i] = {}]
  /\ pc' = [c \in Clients |-> IF c \in Peers(i) /\ pc[c] = "wait" THEN "list"
                                                                 ELSE pc[c]]
  /\ UNCHANGED <<ghosts, nextSeq, expired, instVars, callVars>>

\* The process crashes and restarts.  Its claims stay until the session ends.
Crash(i) ==
  /\ "crash" \in Faults
  /\ ghosts' = ghosts \union claims[i]
  /\ claims' = [claims EXCEPT ![i] = {}]
  /\ lockZnode' = [lockZnode EXCEPT ![i] = NoZnode]
  /\ owner' = [owner EXCEPT ![i] = NoOwner]
  /\ mu' = [mu EXCEPT ![i] = NoClient]
  /\ LET Restart(f, v) == [c \in Clients |-> IF c \in Peers(i) THEN v ELSE f[c]]
     IN /\ pc' = Restart(pc, "idle")
        /\ thisID' = Restart(thisID, NoZnode)
        /\ lockAhead' = Restart(lockAhead, NoZnode)
        /\ interval' = Restart(interval, 0)
        /\ lockWaitingErr' = Restart(lockWaitingErr, FALSE)
        /\ attempt' = Restart(attempt, 0)
  /\ UNCHANGED <<nextSeq, expired>>

\* Sessions of crashed processes end, not necessarily all at once.
GhostsExpire ==
  /\ \E S \in (SUBSET ghosts) \ {{}} : ghosts' = ghosts \ S
  /\ UNCHANGED <<claims, nextSeq, expired, instVars, pc, callVars>>

-----------------------------------------------------------------------------
LockStep(c) ==
  \/ Create(c) \/ CreateFails(c)
  \/ GiveUp(c) \/ List(c) \/ ListFails(c) \/ Grant(c)
  \/ ExpireCheck(c) \/ ExpireCheckFails(c)
  \/ Purge(c) \/ PurgeFails(c) \/ Clear(c)
  \/ Watch(c) \/ WatchFails(c) \/ Wake(c) \/ TimeOut(c)
  \/ Remove(c)

UnlockStep(c) ==
  \/ UnlockStart(c) \/ NotOwner(c) \/ UnlockMu(c)
  \/ UnlockDelete(c) \/ UnlockDeleteFails(c)

Next ==
  \/ \E c \in Clients : LockStart(c) \/ LockStep(c) \/ UnlockStep(c)
  \/ \E i \in Instances : SessionExpire(i) \/ Crash(i)
  \/ TTLPass
  \/ GhostsExpire

Spec == Init /\ [][Next]_vars

(***************************************************************************)
(* Goroutines that can run do run, deferred Unlocks included, and contexts *)
(* with a deadline end.  ZooKeeper ends the session of a crashed process.  *)
(* Nothing says that a Lock call is ever made, that a TTL is reached or    *)
(* that a fault happens.                                                   *)
(***************************************************************************)
Fairness ==
  /\ \A c \in Clients : WF_vars(LockStep(c)) /\ WF_vars(UnlockStep(c))
  /\ WF_vars(GhostsExpire)

FairSpec == Spec /\ Fairness

-----------------------------------------------------------------------------
(***************************************************************************)
(* Safety                                                                  *)
(***************************************************************************)

\* The type invariant; an Unlock makes at most MaxAttempts delete attempts.
TypeOK ==
  /\ claims \in [Instances -> SUBSET Nat]
  /\ ghosts \in SUBSET Nat
  /\ nextSeq \in Nat
  /\ expired \in SUBSET Nat
  /\ lockZnode \in [Instances -> ZnodeIDs]
  /\ owner \in [Instances -> Owners]
  /\ mu \in [Instances -> Clients \union {NoClient}]
  /\ pc \in [Clients -> {"idle"} \union Locking \union Holding]
  /\ thisID \in [Clients -> ZnodeIDs]
  /\ lockAhead \in [Clients -> ZnodeIDs]
  /\ interval \in [Clients -> 0 .. (MaxInterval + 1)]
  /\ lockWaitingErr \in [Clients -> BOOLEAN]
  /\ attempt \in [Clients -> 0 .. (MaxAttempts - 1)]

\* c has been told that it has the lock and has not finished releasing it.
Holds(c) == pc[c] \in Holding

\* c holds the lock and ZooKeeper still has its claim.
HoldsLive(c) == Holds(c) /\ thisID[c] \in Znodes

\* Of the callers that Lock returned nil to, at most one has a live claim:
\* whatever TTLs, sessions, crashes and failing requests do, ZooKeeper never
\* backs two holders at once.
AtMostOneLiveHolder ==
  \A c, d \in Clients : HoldsLive(c) /\ HoldsLive(d) => c = d

\* c has been told that it has the lock, and its Unlock has not deleted its claim.
InUse(c) == Holds(c) /\ (At(c, "delete") => thisID[c] \in Znodes)

\* Lock is a mutual exclusion lock: at most one caller is between a successful
\* Lock and the moment at which its Unlock has deleted its claim, through failing
\* requests, lost replies and crashes.  That moment can be before the end of the
\* Unlock: a delete whose reply is lost is tried again, while the next caller is
\* granted.  Claimed where nothing can take a claim away from a running holder: no
\* TTLs and no lost sessions.
MutualExclusion ==
  \A c, d \in Clients : InUse(c) /\ InUse(d) => c = d

\* While a holder's claim is live, its instance knows it as the owner: a nested
\* Lock gets ErrAlreadyOwnLock, and Unlock is not refused with ErrNotLockOwner.
HolderIsOwner ==
  \A c \in Clients :
    At(c, "held") /\ thisID[c] \in Znodes /\ OwnerOf[c] # NoOwner
      => owner[inst(c)] = OwnerOf[c]

\* Every claim of a running process belongs to a running Lock or to a holder:
\* no return path of Lock or Unlock leaves a claim that blocks everyone else.
NoLeakedClaim ==
  \A z \in Znodes \ ghosts : \E c \in Clients : thisID[c] = z

-----------------------------------------------------------------------------
(***************************************************************************)
(* What the proofs strengthen the safety properties with.                  *)
(***************************************************************************)

\* Past the create, a call has a claim number; before it and after the return,
\* it has none.
HasID(c) == pc[c] \notin {"idle", "create"}

\* Every number in use was handed out by the sequence counter, once.
IDsFresh ==
  /\ \A z \in Znodes : z < nextSeq
  /\ \A c \in Clients : thisID[c] < nextSeq
  /\ \A c \in Clients : HasID(c) <=> thisID[c] # NoZnode
  /\ \A c, d \in Clients : HasID(c) /\ thisID[c] = thisID[d] => c = d

\* No live claim is ahead of a holder's, or of one about to be a holder's:
\* this survives every deletion, and new claims queue up behind.
NothingAhead ==
  \A c \in Clients : Holds(c) \/ At(c, "grant") =>
    \A z \in Znodes : thisID[c] <= z

LockInv == TypeOK /\ IDsFresh /\ NothingAhead

\* Nothing takes a claim away from a running call but the call itself.
NoPreemption == TTLInstances = {} /\ "session" \notin Faults

\* Then the claims of all running calls are live, in the session of their
\* instance, until Unlock deletes them, which it does while it has mu; and the
\* instance of the holder knows its claim and its owner.
Released(c) == At(c, "delete") /\ thisID[c] \notin Znodes

ClaimsKept ==
  /\ \A c \in Clients : pc[c] \notin {"expire", "purge", "clear"}
  /\ \A c \in Clients : HasID(c) => thisID[c] \in claims[inst(c)] \/ Released(c)
  /\ \A c \in Clients : At(c, "delete") => mu[inst(c)] = c
  /\ \A c \in Clients : At(c, "grant") => lockAhead[c] = thisID[c]
  /\ \A c \in Clients : Holds(c) => lockZnode[inst(c)] = thisID[c]
  /\ \A c \in Clients : Holds(c) /\ OwnerOf[c] # NoOwner
                          => owner[inst(c)] = OwnerOf[c]

\* If, besides, no request to ZooKeeper fails, a running call has its claim to the
\* end, and a claim has a running call.
NoFailedRequest == NoPreemption /\ Faults \intersect {"zkerr", "lostreply"} = {}

AllLive == \A c \in Clients : ~Released(c)

ClaimsOwned ==
  \A i \in Instances : \A z \in claims[i] : \E c \in Peers(i) : thisID[c] = z

-----------------------------------------------------------------------------
(***************************************************************************)
(* Action properties                                                       *)
(***************************************************************************)

\* A delete attempt of Unlock, successful or not, releases the caller's own claim
\* and no other requestor's.
UnlockReleasesOwnClaim ==
  [][\A c \in Clients :
       At(c, "delete") /\ (pc'[c] # "delete" \/ attempt'[c] # attempt[c])
         => Znodes \ Znodes' \subseteq {thisID[c]}]_vars

-----------------------------------------------------------------------------
(***************************************************************************)
(* Refinement: the claims are the queue of a TicketLock, and its granted   *)
(* tickets are the live claims of holders.                                 *)
(***************************************************************************)
LiveHeld == {thisID[c] : c \in {d \in Clients : HoldsLive(d)}}

Ticket == INSTANCE TicketLock WITH queue <- Znodes, next <- nextSeq,
                                   held <- LiveHeld

\* Claims are granted in the order they were entered and one at a time, through
\* TTL purges, session loss, crashes and failing requests.
ImplementsTicketLock == Ticket!TicketSpec

-----------------------------------------------------------------------------
(***************************************************************************)
(* Liveness                                                                *)
(***************************************************************************)

\* Every Lock call returns, granted or not: no lost wakeup leaves it waiting
\* and no error keeps it in the retry loop for ever.
LockReturns ==
  \A c \in Clients : pc[c] \in Locking ~> pc[c] \notin Locking

\* c has entered claim n and not yet looked at the others, of which fewer than
\* MaxInterval are ahead.
EntersShortQueue(c, n) ==
  /\ At(c, "list") /\ interval[c] = 0 /\ thisID[c] = n
  /\ Cardinality({z \in Znodes : z < n}) < MaxInterval

\* A caller without a deadline that enters the queue with fewer than MaxInterval
\* (5 in the code) claims ahead of it never fails, and is granted its claim unless
\* its process crashes: claims ahead that are released, time out or die with their
\* process while it lists, checks and watches them neither strand it nor make it
\* give up.  Behind a longer queue it can fail although no request does: every
\* claim that goes between the listing and the watch leaves an error that no later
\* iteration resets.
ClaimGranted ==
  \A c \in Clients \ Deadlined : \A n \in 0 .. (MaxSeq - 1) :
    /\ [](EntersShortQueue(c, n) => [](thisID[c] = n => ~At(c, "remove")))
    /\ EntersShortQueue(c, n) ~> (Holds(c) \/ At(c, "idle"))

\* Every Unlock ends, so a holder does not keep mu (and with it every other
\* caller of the instance) for ever.
UnlockReturns ==
  \A c \in Clients : Holds(c) ~> ~Holds(c)
=============================================================================
