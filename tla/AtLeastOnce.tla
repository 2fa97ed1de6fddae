----------------------------- MODULE AtLeastOnce -----------------------------
(***************************************************************************)
(* What the services of SentigonEdge expect of the event bus: messages are *)
(* appended to a log, each one is processed at least once, possibly again  *)
(* after a failure, and the frontier (the offset the consumer group would  *)
(* resume from) moves over a message only when it has been processed.      *)
(*                                                                         *)
(* This is the promise in the docstring of run_consumer; BusConsumer is    *)
(* the loop that has to keep it.                                           *)
(***************************************************************************)
EXTENDS Integers

VARIABLES
  published,   \* number of messages in the log; their offsets are 0 .. published - 1
  settled,     \* offsets whose processing finished (handled, or parked in the DLQ)
  frontier     \* every offset below it counts as consumed

vars == <<published, settled, frontier>>

TypeOK ==
  /\ published \in Nat
  /\ settled \subseteq 0 .. published - 1
  /\ frontier \in 0 .. published

Init ==
  /\ published = 0
  /\ settled = {}
  /\ frontier = 0

Publish ==
  /\ published' = published + 1
  /\ UNCHANGED <<settled, frontier>>

\* Processing finishes for a message that is not behind the frontier.  It may
\* have finished before: delivery is at least once.
Settle(o) ==
  /\ o \in frontier .. published - 1
  /\ settled' = settled \cup {o}
  /\ UNCHANGED <<published, frontier>>

\* The frontier moves one message at a time, over a message that is settled.
Advance ==
  /\ frontier \in settled
  /\ frontier' = frontier + 1
  /\ UNCHANGED <<published, settled>>

Next ==
  \/ Publish
  \/ \E o \in frontier .. published - 1 : Settle(o)
  \/ Advance

Spec == Init /\ [][Next]_vars

\* No message behind the frontier is unprocessed.
NothingSkipped == \A o \in 0 .. frontier - 1 : o \in settled
=============================================================================
