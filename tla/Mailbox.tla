------------------------------ MODULE Mailbox ------------------------------
(***************************************************************************)
(* mailbox.Mailbox (pkg/utils/mailbox/mailbox.go): a bounded queue that    *)
(* drops its oldest item when it is full, and a channel of capacity one    *)
(* that tells a reader that there is something to retrieve.  Every         *)
(* operation holds mu throughout and is one action.                        *)
(*                                                                         *)
(* Items are numbered in the order they are delivered.                     *)
(***************************************************************************)
EXTENDS Naturals, Sequences

CONSTANTS
  Capacity,       \* capacity, 0 for no limit
  MaxDeliveries   \* bound on the items delivered

ASSUME MailboxAssumption == Capacity \in Nat /\ MaxDeliveries \in Nat

VARIABLES
  queue,      \* the newest item first
  queueLen,   \* read by the monitor without the lock
  chNotify,   \* chNotify holds a notification
  delivered,  \* the number of items delivered
  retrieved   \* the item retrieved last, or 0

mbVars == <<queue, queueLen, chNotify, delivered, retrieved>>

MBInit ==
  /\ queue = <<>>
  /\ queueLen = 0
  /\ chNotify = FALSE
  /\ delivered = 0
  /\ retrieved = 0

Oldest == queue[Len(queue)]

\* q without its last, oldest item.
DropOldest(q) == SubSeq(q, 1, Len(q) - 1)

\* Mutant of Deliver: it is the item that is already there that stays.
DeliverKeepOld ==
  /\ delivered < MaxDeliveries
  /\ delivered' = delivered + 1
  /\ IF Capacity > 0 /\ Len(queue) + 1 > Capacity
       THEN UNCHANGED <<queue, queueLen>>
       ELSE queue' = <<delivered'>> \o queue /\ queueLen' = queueLen + 1
  /\ chNotify' = TRUE
  /\ UNCHANGED retrieved

Deliver ==
  /\ delivered < MaxDeliveries
  /\ delivered' = delivered + 1
  /\ LET longer == <<delivered'>> \o queue
     IN  IF Capacity > 0 /\ Len(longer) > Capacity
           THEN queue' = DropOldest(longer) /\ UNCHANGED queueLen
           ELSE queue' = longer /\ queueLen' = queueLen + 1
  /\ chNotify' = TRUE
  /\ UNCHANGED retrieved

\* A reader receives from Notify().
Notify ==
  /\ chNotify
  /\ chNotify' = FALSE
  /\ UNCHANGED <<queue, queueLen, delivered, retrieved>>

Retrieve ==
  /\ queue # <<>>
  /\ retrieved' = Oldest
  /\ queue' = DropOldest(queue)
  /\ queueLen' = queueLen - 1
  /\ UNCHANGED <<chNotify, delivered>>

\* RetrieveAll and RetrieveLatestAndClear return the queue, oldest first, and
\* its newest item; either way the newest is the last one retrieved.
RetrieveAll ==
  /\ queue # <<>>
  /\ retrieved' = Head(queue)
  /\ queue' = <<>>
  /\ queueLen' = 0
  /\ UNCHANGED <<chNotify, delivered>>

\* The queue is empty: all three return nothing.
RetrieveNone == queue = <<>> /\ UNCHANGED mbVars

MBNext == Deliver \/ Notify \/ Retrieve \/ RetrieveAll

MBSpec == MBInit /\ [][MBNext]_mbVars

-----------------------------------------------------------------------------
(* Properties.                                                             *)

MBTypeOK ==
  /\ queue \in Seq(Nat)
  /\ queueLen \in Nat
  /\ chNotify \in BOOLEAN
  /\ delivered \in 0..MaxDeliveries
  /\ retrieved \in Nat

\* However deliveries overflow the queue and readers take from it, it holds the
\* items delivered last, without a gap, in order and within the capacity; what
\* has been retrieved is older; and the length the monitor reads is the queue's.
MailboxFresh ==
  /\ \A i \in 1..Len(queue) : queue[i] + i = delivered + 1
  /\ Capacity > 0 => Len(queue) <= Capacity
  /\ retrieved + Len(queue) <= delivered
  /\ queueLen = Len(queue)
=============================================================================
