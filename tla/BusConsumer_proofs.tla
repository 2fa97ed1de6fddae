-------------------------- MODULE BusConsumer_proofs --------------------------
(***************************************************************************)
(* What the consumer loop guarantees for a log of any length, any number   *)
(* of retries and any number of process deaths.  The argument is one       *)
(* inductive invariant: the loop always works on the message at the        *)
(* committed offset (LoopAtFrontier), so a commit moves the offset over    *)
(* that message and no other.                                              *)
(***************************************************************************)
EXTENDS BusConsumer, TLAPS

IInv == TypeOK /\ LoopAtFrontier /\ NothingSkipped

LEMMA InitIInv == Init => IInv
<1> SUFFICES ASSUME Init PROVE IInv
  OBVIOUS
<1> USE MaxLogAssumption, MaxHaltsAssumption, MaxRetriesAssumption DEF Init, NoCommit
<1>1. TypeOK
  <2>1. logEnd \in 0 .. MaxLog /\ halts \in 0 .. MaxHalts /\ attempts \in 0 .. MaxRetries
    OBVIOUS
  <2>2. committed \in {NoCommit} \cup 0 .. logEnd /\ pc \in Locations /\ stopping \in BOOLEAN
    BY DEF Locations
  <2>3. position \in 0 .. logEnd /\ origin \in 0 .. logEnd
    OBVIOUS
  <2>4. QED
    BY <2>1, <2>2, <2>3 DEF TypeOK
<1>2. LoopAtFrontier
  BY DEF LoopAtFrontier, InFlight, Frontier
<1>3. NothingSkipped
  BY DEF NothingSkipped
<1>4. QED
  BY <1>1, <1>2, <1>3 DEF IInv

LEMMA NextIInv == IInv /\ [Next]_vars => IInv'
<1> SUFFICES ASSUME IInv, [Next]_vars PROVE IInv'
  OBVIOUS
<1> USE MaxLogAssumption, MaxHaltsAssumption, MaxRetriesAssumption,
        OffsetResetAssumption, DeadLetterAssumption
    DEF IInv, NoCommit, Current, broker, loop, history
<1>1. CASE Publish
  <2>1. TypeOK'
    BY <1>1 DEF Publish, TypeOK, LoopAtFrontier, InFlight, Frontier, Locations
  <2>2. LoopAtFrontier'
    BY <1>1 DEF Publish, TypeOK, LoopAtFrontier, InFlight, Frontier, Settled
  <2>3. NothingSkipped'
    BY <1>1 DEF Publish, TypeOK, LoopAtFrontier, NothingSkipped, InFlight,
       Frontier, Settled
  <2>4. QED
    BY <2>1, <2>2, <2>3
<1>2. CASE Start
  <2>1. TypeOK'
    <3>1. ResumeOffset \in 0 .. logEnd
      BY DEF ResumeOffset, TypeOK
    <3>2. attempts' \in 0 .. MaxRetries /\ position' \in 0 .. logEnd /\ origin' \in 0 .. logEnd
      BY <1>2, <3>1 DEF Start, TypeOK
    <3>3. QED
      BY <1>2, <3>2 DEF Start, TypeOK, Locations
  <2>2. LoopAtFrontier'
    BY <1>2 DEF Start, ResumeOffset, TypeOK, LoopAtFrontier, InFlight, Frontier, Settled
  <2>3. NothingSkipped'
    BY <1>2 DEF Start, ResumeOffset, TypeOK, LoopAtFrontier, NothingSkipped, InFlight,
       Frontier, Settled
  <2>4. QED
    BY <2>1, <2>2, <2>3
<1>3. CASE Fetch
  <2>1. TypeOK'
    BY <1>3 DEF Fetch, TypeOK, LoopAtFrontier, InFlight, Frontier, Locations
  <2>2. LoopAtFrontier'
    BY <1>3 DEF Fetch, TypeOK, LoopAtFrontier, InFlight, Frontier, Settled
  <2>3. NothingSkipped'
    BY <1>3 DEF Fetch, TypeOK, LoopAtFrontier, NothingSkipped, InFlight,
       Frontier, Settled
  <2>4. QED
    BY <2>1, <2>2, <2>3
<1>4. CASE HandlerReturns
  <2>1. TypeOK'
    BY <1>4 DEF HandlerReturns, TypeOK, LoopAtFrontier, InFlight, Frontier, Locations
  <2>2. LoopAtFrontier'
    BY <1>4 DEF HandlerReturns, TypeOK, LoopAtFrontier, InFlight, Frontier, Settled
  <2>3. NothingSkipped'
    BY <1>4 DEF HandlerReturns, TypeOK, LoopAtFrontier, NothingSkipped, InFlight,
       Frontier, Settled
  <2>4. QED
    BY <2>1, <2>2, <2>3
<1>5. CASE HandlerRaises
  <2>1. TypeOK'
    BY <1>5 DEF HandlerRaises, OutOfAttempts, TypeOK, LoopAtFrontier, InFlight, Frontier, Locations
  <2>2. LoopAtFrontier'
    BY <1>5 DEF HandlerRaises, OutOfAttempts, TypeOK, LoopAtFrontier, InFlight, Frontier, Settled
  <2>3. NothingSkipped'
    BY <1>5 DEF HandlerRaises, OutOfAttempts, TypeOK, LoopAtFrontier, NothingSkipped, InFlight,
       Frontier, Settled
  <2>4. QED
    BY <2>1, <2>2, <2>3
<1>6. CASE DeadLettered
  <2>1. TypeOK'
    BY <1>6 DEF DeadLettered, NextIteration, TypeOK, LoopAtFrontier, InFlight, Frontier, Locations
  <2>2. LoopAtFrontier'
    BY <1>6 DEF DeadLettered, NextIteration, TypeOK, LoopAtFrontier, InFlight, Frontier, Settled
  <2>3. NothingSkipped'
    BY <1>6 DEF DeadLettered, NextIteration, TypeOK, LoopAtFrontier, NothingSkipped, InFlight,
       Frontier, Settled
  <2>4. QED
    BY <2>1, <2>2, <2>3
<1>7. CASE DeadLetterUnavailable
  <2>1. TypeOK'
    BY <1>7 DEF DeadLetterUnavailable, SeekBack, NextIteration, TypeOK, LoopAtFrontier, InFlight, Frontier, Locations
  <2>2. LoopAtFrontier'
    BY <1>7 DEF DeadLetterUnavailable, SeekBack, NextIteration, TypeOK, LoopAtFrontier, InFlight, Frontier, Settled
  <2>3. NothingSkipped'
    BY <1>7 DEF DeadLetterUnavailable, SeekBack, NextIteration, TypeOK, LoopAtFrontier, NothingSkipped, InFlight,
       Frontier, Settled
  <2>4. QED
    BY <2>1, <2>2, <2>3
<1>8. CASE Commit
  <2>1. TypeOK'
    BY <1>8 DEF Commit, CommitOffset, NextIteration, TypeOK, LoopAtFrontier, InFlight, Frontier, Locations
  <2>2. LoopAtFrontier'
    BY <1>8 DEF Commit, CommitOffset, NextIteration, TypeOK, LoopAtFrontier, InFlight, Frontier, Settled
  <2>3. NothingSkipped'
    BY <1>8 DEF Commit, CommitOffset, NextIteration, TypeOK, LoopAtFrontier, NothingSkipped, InFlight,
       Frontier, Settled
  <2>4. QED
    BY <2>1, <2>2, <2>3
<1>9. CASE CommitRaises
  <2>1. TypeOK'
    BY <1>9 DEF CommitRaises, CommitOffset, TypeOK, LoopAtFrontier, InFlight, Frontier, Locations
  <2>2. LoopAtFrontier'
    BY <1>9 DEF CommitRaises, CommitOffset, TypeOK, LoopAtFrontier, InFlight, Frontier, Settled
  <2>3. NothingSkipped'
    <3>1. CASE committed' = committed
      BY <1>9, <3>1 DEF CommitRaises, NothingSkipped, Settled
    <3>2. CASE committed' = Current + 1
      BY <1>9, <3>2 DEF CommitRaises, TypeOK, LoopAtFrontier, NothingSkipped, InFlight,
         Frontier, Settled
    <3>3. QED
      BY <1>9, <3>1, <3>2 DEF CommitRaises, CommitOffset
  <2>4. QED
    BY <2>1, <2>2, <2>3
<1>10. CASE RequestStop
  <2>1. TypeOK'
    BY <1>10 DEF RequestStop, TypeOK, LoopAtFrontier, InFlight, Frontier, Locations
  <2>2. LoopAtFrontier'
    BY <1>10 DEF RequestStop, TypeOK, LoopAtFrontier, InFlight, Frontier, Settled
  <2>3. NothingSkipped'
    BY <1>10 DEF RequestStop, TypeOK, LoopAtFrontier, NothingSkipped, InFlight,
       Frontier, Settled
  <2>4. QED
    BY <2>1, <2>2, <2>3
<1>11. CASE Halt
  <2>1. TypeOK'
    BY <1>11 DEF Halt, TypeOK, LoopAtFrontier, InFlight, Frontier, Locations
  <2>2. LoopAtFrontier'
    BY <1>11 DEF Halt, TypeOK, LoopAtFrontier, InFlight, Frontier, Settled
  <2>3. NothingSkipped'
    BY <1>11 DEF Halt, TypeOK, LoopAtFrontier, NothingSkipped, InFlight,
       Frontier, Settled
  <2>4. QED
    BY <2>1, <2>2, <2>3
<1>12. CASE UNCHANGED vars
  BY <1>12 DEF vars, TypeOK, LoopAtFrontier, NothingSkipped, InFlight, Frontier, Settled
<1>13. QED
  BY <1>1, <1>2, <1>3, <1>4, <1>5, <1>6, <1>7, <1>8, <1>9, <1>10, <1>11, <1>12 DEF Next

LEMMA Inductive == Spec => []IInv
BY InitIInv, NextIInv, PTL DEF Spec

-----------------------------------------------------------------------------
\* kafka.py:121-225.  The broker's and the loop's variables keep their types.
THEOREM TypeCorrect == Spec => []TypeOK
BY Inductive, PTL DEF IInv

\* kafka.py:134-135.  A success never carries the group's offset over a message
\* that was neither handled nor dead-lettered.
THEOREM NoMessageSkipped == Spec => []NothingSkipped
BY Inductive, PTL DEF IInv

\* The commit of a message moves the group's offset past that message only.
LEMMA CommitStep ==
  IInv /\ [Next]_vars =>
    (committed' # committed =>
       \/ committed' = committed + 1
       \/ committed = NoCommit /\ committed' = origin + 1)
<1> SUFFICES ASSUME IInv, [Next]_vars, committed' # committed
             PROVE  \/ committed' = committed + 1
                    \/ committed = NoCommit /\ committed' = origin + 1
  OBVIOUS
<1>1. Commit \/ CommitRaises
  BY DEF Next, vars, broker, Publish, Start, Fetch, HandlerReturns, HandlerRaises,
     DeadLettered, DeadLetterUnavailable, RequestStop, Halt
<1>2. committed' = Current + 1 /\ pc = "committing"
  BY <1>1 DEF Commit, CommitRaises, CommitOffset
<1>3. Current = Frontier
  BY <1>2 DEF IInv, LoopAtFrontier, InFlight
<1>4. QED
  BY <1>2, <1>3 DEF Frontier

\* kafka.py:170-171 and 207-212.  The committed offset never moves back and
\* advances by one message at a time.
THEOREM CommitsInOrder == Spec => CommitsOneByOne
<1>1. IInv /\ [Next]_vars =>
        [committed' # committed =>
           \/ committed' = committed + 1
           \/ committed = NoCommit /\ committed' = origin + 1]_vars
  BY CommitStep
<1>2. QED
  BY <1>1, Inductive, PTL DEF Spec, CommitsOneByOne

\* What the loop is about to dead-letter was poison, used up its attempts, or
\* had them cut short by a shutdown.
GivenUp ==
  pc = "deadletter" => Current \in poison \/ attempts = MaxRetries \/ stopping

LEMMA NextGivenUp == IInv /\ GivenUp /\ [Next]_vars => GivenUp'
<1> SUFFICES ASSUME IInv, GivenUp, [Next]_vars, pc' = "deadletter"
             PROVE  (Current \in poison \/ attempts = MaxRetries \/ stopping)'
  BY DEF GivenUp
<1> USE DEF Current
<1>1. CASE Fetch
  <2>1. Current' = position /\ poison' = poison
    BY <1>1 DEF Fetch, broker, IInv, TypeOK
  <2>2. position \in poison
    BY <1>1 DEF Fetch
  <2>3. QED
    BY <2>1, <2>2
<1>2. CASE HandlerRaises
  BY <1>2 DEF HandlerRaises, OutOfAttempts
<1>3. CASE Publish \/ RequestStop \/ UNCHANGED vars
  BY <1>3 DEF Publish, RequestStop, GivenUp, vars, broker, loop
<1>4. CASE \/ Start \/ HandlerReturns \/ DeadLettered \/ DeadLetterUnavailable
           \/ Commit \/ CommitRaises \/ Halt
  BY <1>4 DEF Start, HandlerReturns, DeadLettered, DeadLetterUnavailable, Commit,
     CommitRaises, Halt, NextIteration
<1>5. QED
  BY <1>1, <1>2, <1>3, <1>4 DEF Next

\* kafka.py:187-205.  A copy goes to the dead-letter topic only of a message
\* that does not decode, that failed max_retries times, or whose retries a
\* requested shutdown cut short.
THEOREM DeadLettersAreGivenUp == Spec => DeadLetterAfterRetriesUnlessStopping
<1>1. Init => GivenUp
  BY DEF Init, GivenUp
<1>2. GivenUp /\ [Next]_vars =>
        [\A o \in dlq' \ dlq : o \in poison \/ attempts = MaxRetries \/ stopping]_vars
  <2> SUFFICES ASSUME GivenUp, [Next]_vars, NEW o \in dlq' \ dlq
               PROVE  o \in poison \/ attempts = MaxRetries \/ stopping
    OBVIOUS
  <2>1. DeadLettered \/ DeadLetterUnavailable
    BY DEF Next, vars, broker, Publish, Start, Fetch, HandlerReturns, HandlerRaises,
       Commit, CommitRaises, RequestStop, Halt
  <2>2. pc = "deadletter" /\ o = Current
    BY <2>1 DEF DeadLettered, DeadLetterUnavailable
  <2>3. QED
    BY <2>2 DEF GivenUp
<1>3. QED
  BY <1>1, <1>2, NextGivenUp, Inductive, PTL
     DEF Spec, DeadLetterAfterRetriesUnlessStopping

\* kafka.py:138-139 under "earliest": whatever the loop was given is settled, or
\* the next process will be given it again.
THEOREM NothingLostFromEarliest ==
  ASSUME OffsetReset = "earliest"
  PROVE  Spec => []NeverLost
<1> DEFINE FromZero == IInv /\ origin = 0 /\ fetched \subseteq 0 .. logEnd - 1
<1>1. Init => FromZero
  BY InitIInv DEF Init
<1>2. FromZero /\ [Next]_vars => FromZero'
  <2> SUFFICES ASSUME FromZero, [Next]_vars PROVE FromZero'
    OBVIOUS
  <2>1. IInv'
    BY NextIInv
  <2>2. origin' = 0
    BY OffsetReset = "earliest"
       DEF Next, vars, history, Publish, Start, ResumeOffset, Fetch, HandlerReturns,
           HandlerRaises, DeadLettered, DeadLetterUnavailable, Commit, CommitRaises,
           RequestStop, Halt
  <2>3. QED
    BY <2>1, <2>2 DEF IInv, TypeOK
<1>3. FromZero => NeverLost
  <2> SUFFICES ASSUME FromZero, NEW o \in fetched \ Settled
               PROVE  o >= RestartOffset
    BY DEF NeverLost
  <2>1. o \in 0 .. logEnd - 1
    OBVIOUS
  <2>2. RestartOffset = IF committed = NoCommit THEN 0 ELSE committed
    BY OffsetReset = "earliest" DEF RestartOffset, ResumeOffset, Frontier
  <2>3. CASE committed = NoCommit
    BY <2>1, <2>2, <2>3
  <2>4. CASE committed # NoCommit
    <3>1. committed \in Nat
      BY <2>4 DEF IInv, TypeOK
    <3>2. ~(o \in 0 .. committed - 1)
      BY <2>4 DEF IInv, NothingSkipped
    <3>3. QED
      BY <2>1, <2>2, <2>4, <3>1, <3>2
  <2>5. QED
    BY <2>3, <2>4
<1>4. QED
  BY <1>1, <1>2, <1>3, PTL DEF Spec

\* kafka.py:131-141.  A group that reads the log from its beginning keeps the
\* promise of AtLeastOnce, step by step.
THEOREM KeepsAtLeastOnce ==
  ASSUME OffsetReset = "earliest"
  PROVE  Spec => KeepsPromise
<1> DEFINE FromZero == IInv /\ origin = 0
<1> USE DEF NoCommit
<1>1. Init => FromZero /\ Promise!Init
  BY InitIInv DEF Init, Promise!Init, Frontier, Settled
<1>2. FromZero /\ [Next]_vars => FromZero'
  <2>1. IInv /\ [Next]_vars => IInv'
    BY NextIInv
  <2>2. origin = 0 /\ [Next]_vars => origin' = 0
    BY OffsetReset = "earliest"
       DEF Next, vars, history, Publish, Start, ResumeOffset, Fetch, HandlerReturns,
           HandlerRaises, DeadLettered, DeadLetterUnavailable, Commit, CommitRaises,
           RequestStop, Halt
  <2>3. QED
    BY <2>1, <2>2
<1>3. FromZero /\ FromZero' /\ [Next]_vars => [Promise!Next]_(Promise!vars)
  <2> SUFFICES ASSUME FromZero, FromZero', [Next]_vars
               PROVE  Promise!Next \/ UNCHANGED Promise!vars
    OBVIOUS
  <2> USE DEF broker, loop, history, Settled, Frontier, Current, TypeOK, IInv
  <2>1. CASE Publish
    <3>1. Promise!Publish
      BY <2>1 DEF Publish, Promise!Publish
    <3>2. QED
      BY <3>1 DEF Promise!Next
  <2>2. CASE Start \/ Fetch \/ HandlerRaises \/ RequestStop \/ Halt \/ UNCHANGED vars
    BY <2>2 DEF Start, Fetch, HandlerRaises, RequestStop, Halt, vars, Promise!vars
  <2>3. ASSUME pc \in InFlight, Settled' = Settled \cup {Current},
               UNCHANGED <<logEnd, committed, origin>>
        PROVE  Promise!Next
    <3>1. Current = Frontier /\ Current \in Frontier .. logEnd - 1
      BY <2>3 DEF LoopAtFrontier
    <3>2. Promise!Settle(Current)
      BY <2>3, <3>1 DEF Promise!Settle
    <3>3. QED
      BY <3>1, <3>2 DEF Promise!Next
  <2>4. CASE HandlerReturns
    BY <2>3, <2>4 DEF HandlerReturns, InFlight
  <2>5. CASE DeadLettered
    BY <2>3, <2>5 DEF DeadLettered, InFlight
  <2>6. CASE DeadLetterUnavailable
    <3>1. CASE dlq' = dlq
      BY <2>6, <3>1 DEF DeadLetterUnavailable, Promise!vars
    <3>2. CASE dlq' = dlq \cup {Current}
      BY <2>3, <2>6, <3>2 DEF DeadLetterUnavailable, InFlight
    <3>3. QED
      BY <2>6, <3>1, <3>2 DEF DeadLetterUnavailable
  <2>7. CASE Commit \/ CommitRaises
    <3>1. UNCHANGED <<logEnd, handled, dlq, origin>> /\ pc = "committing"
      BY <2>7 DEF Commit, CommitRaises
    <3>2. CASE committed' = committed
      BY <3>1, <3>2 DEF Promise!vars
    <3>3. CASE committed' = Current + 1
      <4>1. Current = Frontier /\ Current \in Settled
        BY <3>1 DEF LoopAtFrontier, InFlight
      <4>2. Frontier' = Frontier + 1
        BY <3>1, <3>3, <4>1
      <4>3. Promise!Advance
        BY <3>1, <4>1, <4>2 DEF Promise!Advance
      <4>4. QED
        BY <4>3 DEF Promise!Next
    <3>4. QED
      BY <2>7, <3>2, <3>3 DEF Commit, CommitRaises, CommitOffset
  <2>8. QED
    BY <2>1, <2>2, <2>4, <2>5, <2>6, <2>7 DEF Next
<1>4. QED
  BY <1>1, <1>2, <1>3, PTL DEF Spec, KeepsPromise, Promise!Spec
===============================================================================
