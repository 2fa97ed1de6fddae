------------------------------ MODULE Perception ------------------------------
(***************************************************************************)
(* Perception of one camera: the manager that starts and stops its worker, *)
(* and the worker threads, which connect by hardware or software decoding, *)
(* publish what they detect, and reconnect.  Stopping does not wait for    *)
(* the thread, so an old one may still run beside its successor.           *)
(***************************************************************************)
EXTENDS Integers, FiniteSets

CONSTANTS
  Threads,    \* 1 .. n: the workers a run makes, in order
  MaxTries    \* bound on the attempts of a worker that fail

VARIABLES
  made,     \* number of workers made
  current,  \* PerceptionManager.workers of the camera; 0 for none
  latest,   \* the worker whose detections the overlay is served; 0 for none
  thread,   \* per worker: where it is, its stop event, decoder, failures of the hardware
  dry       \* history: per worker, the connections by hardware that gave no frame

vars == <<made, current, latest, thread, dry>>

Unmade == [at |-> "none", stop |-> FALSE, mode |-> "cpu", seen |-> FALSE, hwFail |-> 0, tries |-> 0]

Init ==
  /\ made = 0 /\ current = 0 /\ latest = 0
  /\ thread = [t \in Threads |-> Unmade] /\ dry = [t \in Threads |-> 0]

\* _start; a camera that has a worker, be it one that failed to load, keeps it.
StartWorker ==
  /\ current = 0 /\ made + 1 \in Threads
  /\ made' = made + 1 /\ current' = made + 1
  /\ thread' = [thread EXCEPT ![made + 1].at = "loading"]
  /\ UNCHANGED <<latest, dry>>

\* stop_worker: forgets the worker and its detections, sets the event, does not join.
StopWorker ==
  /\ current # 0
  /\ thread' = [thread EXCEPT ![current].stop = TRUE]
  /\ current' = 0 /\ latest' = 0
  /\ UNCHANGED <<made, dry>>

\* run: without a model the thread ends.
Load(t) ==
  /\ thread[t].at = "loading"
  /\ \E next \in {"connect", "ended"} : thread' = [thread EXCEPT ![t].at = next]
  /\ UNCHANGED <<made, current, latest, dry>>

UseHardware(t) == thread[t].hwFail < 2

\* _open_capture: hardware that dies at its start is replaced by software on the spot.
Connect(t) ==
  /\ thread[t].at = "connect"
  /\ IF thread[t].stop THEN thread' = [thread EXCEPT ![t].at = "ended"]
     ELSE \E mode \in {"cpu"} \cup (IF UseHardware(t) THEN {"nvdec"} ELSE {}) :
            thread' = [thread EXCEPT ![t].at = "opened", ![t].mode = mode, ![t].seen = FALSE]
  /\ UNCHANGED <<made, current, latest, dry>>

Dry(t) == thread[t].mode = "nvdec" /\ ~thread[t].seen
Counted(t) == dry' = [dry EXCEPT ![t] = IF Dry(t) THEN @ + 1 ELSE @]

\* The capture is not open: a source that is down, or hardware that died since.
OpenFails(t) ==
  /\ thread[t].at = "opened" /\ thread[t].tries < MaxTries
  /\ thread' = [thread EXCEPT ![t].at = "backoff", ![t].tries = @ + 1,
                              ![t].hwFail = IF thread[t].mode = "nvdec" THEN @ + 1 ELSE @]
  /\ Counted(t)
  /\ UNCHANGED <<made, current, latest>>

Online(t) ==
  /\ thread[t].at = "opened"
  /\ thread' = [thread EXCEPT ![t].at = "loop"]
  /\ UNCHANGED <<made, current, latest, dry>>

\* _loop tests the event before it reads; the frame may be published after a stop.
Read(t) ==
  /\ thread[t].at = "loop" /\ ~thread[t].stop
  /\ thread' = [thread EXCEPT ![t].at = "frame", ![t].seen = TRUE]
  /\ UNCHANGED <<made, current, latest, dry>>

Publish(t) ==
  /\ thread[t].at = "frame"
  /\ thread' = [thread EXCEPT ![t].at = "loop"]
  /\ latest' = t
  /\ UNCHANGED <<made, current, dry>>

\* No frame for eight seconds, an error, or the event.
HardwareRefused(t) == FALSE     \* mutant: only what could not be opened counts
HardwareStarved(t) == Dry(t)

LoopEnds(t) ==
  /\ thread[t].at \in {"loop", "frame"}
  /\ thread[t].stop \/ thread[t].tries < MaxTries
  /\ thread' = [thread EXCEPT ![t].at = "backoff",
                              ![t].tries = IF thread[t].stop THEN @ ELSE @ + 1,
                              ![t].hwFail = IF HardwareStarved(t) THEN @ + 1 ELSE @]
  /\ Counted(t)
  /\ UNCHANGED <<made, current, latest>>

Backoff(t) ==
  /\ thread[t].at = "backoff"
  /\ thread' = [thread EXCEPT ![t].at = IF thread[t].stop THEN "ended" ELSE "connect"]
  /\ UNCHANGED <<made, current, latest, dry>>

Next ==
  \/ StartWorker \/ StopWorker
  \/ \E t \in Threads :
       \/ Load(t) \/ Connect(t) \/ OpenFails(t) \/ Online(t) \/ Read(t) \/ Publish(t)
       \/ LoopEnds(t) \/ Backoff(t)

Spec == Init /\ [][Next]_vars
-----------------------------------------------------------------------------
\* worker.py:148-150, "a bad pipeline can never wedge a camera offline".  Hardware that
\* dies while it connects, or connects and starves, is tried no more than twice in the
\* life of a worker, however the two kinds of failure follow one another.
HardwareGivesWay == \A t \in Threads : dry[t] <= 2
=============================================================================
