---------------------------- MODULE RequestChannel ----------------------------
(***************************************************************************)
(* What the thread-safe scheduler wrappers of the OSIF promise             *)
(* (zb_nrf_platform.c, docs/lib/osif.rst): a request that a thread or an   *)
(* ISR was told is accepted waits in a bounded channel and is handed to    *)
(* the ZBOSS scheduler once, in the order of acceptance.  The only thing   *)
(* that may discard an accepted request is the deinitialisation.           *)
(***************************************************************************)
EXTENDS Naturals, Sequences

CONSTANTS Request,   \* the requests, each with an identity of its own
          QueueLen   \* how many accepted requests may wait

VARIABLES pending,   \* accepted, not yet handed over, oldest first
          handed     \* given to the ZBOSS scheduler, in that order

vars == <<pending, handed>>

Init == pending = <<>> /\ handed = <<>>

Accept(r) ==
  /\ Len(pending) < QueueLen
  /\ pending' = Append(pending, r)
  /\ UNCHANGED handed

Hand ==
  /\ pending # <<>>
  /\ handed' = Append(handed, Head(pending))
  /\ pending' = Tail(pending)

Discard ==
  /\ pending' = <<>>
  /\ UNCHANGED handed

Next ==
  \/ \E r \in Request : Accept(r)
  \/ Hand
  \/ Discard

Spec == Init /\ [][Next]_vars
================================================================================
