----------------------------- MODULE BusConsumer -----------------------------
(***************************************************************************)
(* run_consumer of sentigon_common/kafka.py: the loop every service reads  *)
(* the event bus with.  One topic of one partition (ensure_topics creates  *)
(* them with partitions=1, and every caller subscribes to one topic), one  *)
(* consumer group, one process that systemd restarts when it dies.         *)
(*                                                                         *)
(* The broker keeps the log and the group's committed offset; everything   *)
(* else is lost with the process.                                          *)
(***************************************************************************)
EXTENDS Integers, FiniteSets

CONSTANTS
  MaxLog,        \* bound: messages published
  MaxHalts,      \* bound: times the process is killed or shut down
  MaxRetries,    \* max_retries
  OffsetReset,   \* auto_offset_reset: "earliest" or "latest"
  DeadLetter     \* dead_letter: is there a dead-letter producer

ASSUME MaxLogAssumption == MaxLog \in Nat
ASSUME MaxHaltsAssumption == MaxHalts \in Nat
ASSUME MaxRetriesAssumption == MaxRetries \in Nat \ {0}
ASSUME OffsetResetAssumption == OffsetReset \in {"earliest", "latest"}
ASSUME DeadLetterAssumption == DeadLetter \in BOOLEAN

NoCommit == -1   \* the group has never committed an offset

VARIABLES
  logEnd,      \* broker: the next offset to be written
  poison,      \* broker: offsets whose body does not decode
  committed,   \* broker: the group's committed offset, or NoCommit
  dlq,         \* broker: offsets copied to <topic>.dlq
  pc,          \* where the loop is
  position,    \* consumer: next offset to fetch; position - 1 is in flight
  attempts,    \* handler calls that failed for the message in flight
  stopping,    \* stop_event.is_set()
  handled,     \* history: offsets some handler call returned from
  fetched,     \* history: offsets given to the loop at least once
  origin,      \* history: position when the group without a commit last started
  halts        \* history: process deaths so far

broker == <<logEnd, poison, committed, dlq>>
loop == <<pc, position, attempts, stopping>>
history == <<handled, fetched, origin, halts>>
vars == <<broker, loop, history>>

Offsets == 0 .. MaxLog - 1

\* "down": no process.  "ended": run_consumer returned or raised, but its
\* process is up.  The others are the points the loop awaits at.
Locations ==
  {"down", "polling", "handling", "deadletter", "committing", "ended"}

TypeOK ==
  /\ logEnd \in 0 .. MaxLog
  /\ poison \subseteq 0 .. logEnd - 1
  /\ committed \in {NoCommit} \cup 0 .. logEnd
  /\ dlq \subseteq 0 .. logEnd - 1
  /\ pc \in Locations
  /\ position \in 0 .. logEnd
  /\ attempts \in 0 .. MaxRetries
  /\ stopping \in BOOLEAN
  /\ handled \subseteq 0 .. logEnd - 1
  /\ fetched \subseteq 0 .. logEnd - 1
  /\ origin \in 0 .. logEnd
  /\ halts \in 0 .. MaxHalts

Init ==
  /\ logEnd = 0
  /\ poison = {}
  /\ committed = NoCommit
  /\ dlq = {}
  /\ pc = "down"
  /\ position = 0
  /\ attempts = 0
  /\ stopping = FALSE
  /\ handled = {}
  /\ fetched = {}
  /\ origin = 0
  /\ halts = 0

-----------------------------------------------------------------------------
\* BusProducer.publish by another service; the body may be one that
\* orjson.loads rejects.
Publish ==
  /\ logEnd < MaxLog
  /\ logEnd' = logEnd + 1
  /\ poison' \in {poison, poison \cup {logEnd}}
  /\ UNCHANGED <<committed, dlq, loop, history>>

\* Where a consumer that has just joined the group begins to read.
ResumeOffset ==
  IF committed = NoCommit
    THEN IF OffsetReset = "earliest" THEN 0 ELSE logEnd
    ELSE committed

\* consumer.start() in a new process.
Start ==
  /\ pc = "down"
  /\ pc' = "polling"
  /\ position' = ResumeOffset
  /\ attempts' = 0
  /\ stopping' = FALSE
  /\ origin' = IF committed = NoCommit THEN ResumeOffset ELSE origin
  /\ UNCHANGED <<broker, handled, fetched, halts>>

\* The offset of the message in flight.
Current == position - 1

\* `async for msg in consumer`, then the decoding of the body.
Fetch ==
  /\ pc = "polling"
  /\ position < logEnd
  /\ position' = position + 1
  /\ fetched' = fetched \cup {position}
  /\ attempts' = 0
  /\ pc' = IF position \in poison THEN "deadletter" ELSE "handling"
  /\ UNCHANGED <<broker, stopping, handled, origin, halts>>

HandlerReturns ==
  /\ pc = "handling"
  /\ handled' = handled \cup {Current}
  /\ pc' = "committing"
  /\ UNCHANGED <<broker, position, attempts, stopping, fetched, origin, halts>>

\* The handler raised for the n-th time: no further attempt is made.
OutOfAttemptsAtOnce(n) == n \in 0 .. MaxRetries          \* mutant
OutOfAttempts(n) == n = MaxRetries \/ stopping

HandlerRaises ==
  /\ pc = "handling"
  /\ attempts' = attempts + 1
  /\ pc' = IF OutOfAttempts(attempts + 1) THEN "deadletter" ELSE "handling"
  /\ UNCHANGED <<broker, position, stopping, history>>

\* After a message the loop fetches the next one, unless it is asked to stop.
NextIteration == IF stopping THEN "ended" ELSE "polling"

\* _to_dead_letter returned True.
DeadLettered ==
  /\ pc = "deadletter"
  /\ DeadLetter
  /\ dlq' = dlq \cup {Current}
  /\ pc' = "committing"
  /\ UNCHANGED <<logEnd, poison, committed, position, attempts, stopping, history>>

\* _to_dead_letter returned False: no producer, or the send raised (the copy
\* may have reached the broker all the same).  Nothing is committed and the
\* message is fetched again.
SeekBackForgotten == position   \* mutant
SeekBack == Current

DeadLetterUnavailable ==
  /\ pc = "deadletter"
  /\ dlq' \in IF DeadLetter THEN {dlq, dlq \cup {Current}} ELSE {dlq}
  /\ position' = SeekBack
  /\ pc' = NextIteration
  /\ UNCHANGED <<logEnd, poison, committed, attempts, stopping, history>>

\* The offset the loop commits for the message in flight: the next to consume.
CommitOffsetHighWater == logEnd   \* mutant
CommitOffset == Current + 1

Commit ==
  /\ pc = "committing"
  /\ committed' = CommitOffset
  /\ pc' = NextIteration
  /\ UNCHANGED <<logEnd, poison, dlq, position, attempts, stopping, history>>

\* consumer.commit raised (the broker may have stored the offset): nothing
\* catches it, the finally clause runs and the task is over.
CommitRaises ==
  /\ pc = "committing"
  /\ committed' \in {committed, CommitOffset}
  /\ pc' = "ended"
  /\ UNCHANGED <<logEnd, poison, dlq, position, attempts, stopping, history>>

\* The service's lifespan ends: stop.set(), while this task still runs because
\* the tasks of the service are cancelled and awaited one after the other.
RequestStop ==
  /\ pc # "down"
  /\ ~stopping
  /\ halts < MaxHalts
  /\ stopping' = TRUE
  /\ UNCHANGED <<broker, pc, position, attempts, history>>

\* The task is cancelled and the process exits, or it is killed, at whatever
\* point of the loop it is.
Halt ==
  /\ pc # "down"
  /\ halts < MaxHalts
  /\ halts' = halts + 1
  /\ pc' = "down"
  /\ UNCHANGED <<broker, position, attempts, stopping, handled, fetched, origin>>

Next ==
  \/ Publish
  \/ Start
  \/ Fetch
  \/ HandlerReturns
  \/ HandlerRaises
  \/ DeadLettered
  \/ DeadLetterUnavailable
  \/ Commit
  \/ CommitRaises
  \/ RequestStop
  \/ Halt

Spec == Init /\ [][Next]_vars

\* systemd restarts a dead process (Restart=always); a handler call ends; the
\* event loop keeps running the task; the broker is not unreachable for ever,
\* so a dead-letter send tried again and again succeeds in the end.
Fairness ==
  /\ WF_vars(Start)
  /\ WF_vars(Fetch)
  /\ WF_vars(HandlerReturns \/ HandlerRaises)
  /\ WF_vars(DeadLettered \/ DeadLetterUnavailable)
  /\ SF_vars(DeadLettered)
  /\ WF_vars(Commit \/ CommitRaises)

FairSpec == Spec /\ Fairness

-----------------------------------------------------------------------------
\* Processing of these is over: a handler returned, or a copy is in the DLQ.
Settled == handled \cup dlq

\* kafka.py:134-135.  No offset the group has consumed past, since it began to
\* read, was left neither handled nor dead-lettered: a later success can never
\* carry the committed offset over a message that failed.
NothingSkipped ==
  committed # NoCommit => \A o \in origin .. committed - 1 : o \in Settled

\* kafka.py:169-217.  What makes NothingSkipped inductive: the loop works on
\* exactly the message at the committed offset, and commits only what is
\* settled.
InFlight == {"handling", "deadletter", "committing"}
Frontier == IF committed = NoCommit THEN origin ELSE committed
LoopAtFrontier ==
  /\ pc = "polling" => position = Frontier
  /\ pc \in InFlight => Current = Frontier
  /\ pc = "committing" => Current \in Settled
  /\ pc = "handling" => attempts < MaxRetries
  /\ origin <= Frontier

\* kafka.py:138-139, for the loop as documented.  Every message the loop was
\* ever given is settled or will be given to it again: wherever the process
\* dies, the next one resumes at or before it.
RestartOffset == IF pc \in {"polling"} \cup InFlight THEN Frontier ELSE ResumeOffset
NeverLost == \A o \in fetched \ Settled : o >= RestartOffset

\* kafka.py:187-205.  The same, except that a requested shutdown cuts the
\* retries short.
DeadLetterAfterRetriesUnlessStopping ==
  [][\A o \in dlq' \ dlq : o \in poison \/ attempts = MaxRetries \/ stopping]_vars

\* The committed offset never moves back, whatever is replayed, and each
\* commit moves it past one message only.
CommitsOneByOne ==
  [][committed' # committed =>
       \/ committed' = committed + 1
       \/ committed = NoCommit /\ committed' = origin + 1]_vars

\* kafka.py:136-139.  One poison or failing message does not wedge the
\* partition: if from some moment on the task neither has died nor is being
\* stopped, every message is settled in the end.
EverythingSettles ==
  <>[](pc # "ended" /\ ~stopping) =>
     \A o \in Offsets : (o < logEnd) ~> (o \in Settled)

\* The promise of AtLeastOnce, read off the loop's state.  It is kept by a
\* group that starts at the beginning of the log.
Promise == INSTANCE AtLeastOnce WITH
  published <- logEnd,
  settled <- Settled,
  frontier <- Frontier
KeepsPromise == Promise!Spec
=============================================================================
