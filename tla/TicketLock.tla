----------------------------- MODULE TicketLock -----------------------------
(***************************************************************************)
(* What the lock promises to the processes that share it, whatever fails:  *)
(* claims are tickets, numbered in the order they are entered; only the    *)
(* lowest ticket in the queue is ever granted; and a granted ticket that   *)
(* leaves the queue (released, expired, purged, lost with its session)     *)
(* backs nobody any more.  ZKLock implements this specification.           *)
(***************************************************************************)
EXTENDS Integers

VARIABLES
  queue,   \* the tickets in the queue
  next,    \* the next ticket
  held     \* the granted tickets that are still in the queue

ticketVars == <<queue, next, held>>

TicketInit == queue = {} /\ next = 0 /\ held = {}

Enqueue ==
  /\ queue' = queue \union {next}
  /\ next' = next + 1
  /\ UNCHANGED held

\* Granted in order: only the lowest ticket.
GrantLowest ==
  /\ \E t \in queue : (\A u \in queue : t <= u) /\ held' = held \union {t}
  /\ UNCHANGED <<queue, next>>

\* Tickets leave the queue, or holders give up theirs without it leaving the
\* queue (the claim of a crashed holder, or one whose removal failed).
Leave ==
  /\ queue' \subseteq queue
  /\ held' \subseteq held \intersect queue'
  /\ UNCHANGED next

TicketNext == Enqueue \/ GrantLowest \/ Leave

TicketSpec == TicketInit /\ [][TicketNext]_ticketVars

\* At most one ticket is granted.
OneHolder == \A t, u \in held : t = u
=============================================================================
