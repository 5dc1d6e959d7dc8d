------------------------------ MODULE MCZKLock ------------------------------
(***************************************************************************)
(* Small instances of ZKLock.  r1, r2 and r3 are requests with an owner,   *)
(* cl is the tag cleaner, whose context has neither an owner nor a         *)
(* deadline; A and B are two registry processes.                           *)
(***************************************************************************)
EXTENDS ZKLock, TLC

CONSTANTS r1, r2, r3, cl, A, B

\* Two requests on A, one on B.
SharedClients == {r1, r2, r3}
SharedInst == r1 :> A @@ r2 :> A @@ r3 :> B

\* A request and the tag cleaner on A, a request on B.
CleanerClients == {r1, r3, cl}
CleanerInst == r1 :> A @@ cl :> A @@ r3 :> B

\* Two requests on one instance.
PairClients == {r1, r2}
PairInst == r1 :> A @@ r2 :> A

\* Every client is its own owner, except that the tag cleaner has none.
MCOwnerOf == [c \in Clients |-> IF c = cl THEN NoOwner ELSE c]
MCDeadlined == Clients \ {cl}
=============================================================================
