------------------------------- MODULE Ingest -------------------------------
(***************************************************************************)
(* The recorder of one camera: the capture thread that writes segments,    *)
(* the pool that uploads them, the retention each upload runs, and the     *)
(* deletion of the camera by the API meanwhile.  A segment lives in three  *)
(* stores, a local file, an object and a Recording row, that fail and lag  *)
(* independently.  Segments are numbered by start_time.                    *)
(***************************************************************************)
EXTENDS Integers, FiniteSets

CONSTANTS
  MaxSegments,   \* bound on the segments recorded
  Limit,         \* retention_segments
  Parallel,      \* max_workers of the upload pool
  MaxFaults      \* bound on failed calls and process deaths

Segments == 1 .. MaxSegments

VARIABLES
  worker,    \* capture thread: none, connecting, online
  stopping,  \* its _stop event is set
  pool,      \* open, closed (after shutdown), down (the process has ended)
  last,      \* number of the last segment opened
  stage,     \* per segment: how far it has come
  file,      \* local copy: none, work, failed (the directory it is moved to)
  object,    \* segments with an object in the recordings bucket
  rows,      \* segments with a Recording row
  excess,    \* per upload: count - limit, as it was counted
  old,       \* per upload: the rows it has selected for removal
  expired,   \* history: segments retention has selected
  camera,    \* there, deleted (row and recordings gone), purged (objects, too)
  listed,    \* objects delete_camera has read before it deleted the rows
  faults

vars == <<worker, stopping, pool, last, stage, file, object, rows, excess, old,
          expired, camera, listed, faults>>
store == <<object, rows, excess, old, expired>>
api == <<camera, listed>>

InFlight == {"put", "stored", "counted", "selected", "pruned"}
Running == {s \in Segments : stage[s] \in InFlight \cup {"started"}}
Oldest(n, S) == {s \in S : Cardinality({t \in S : t < s}) < n}

Init ==
  /\ worker = "connecting" /\ stopping = FALSE /\ pool = "open"
  /\ last = 0
  /\ stage = [s \in Segments |-> "none"] /\ file = [s \in Segments |-> "none"]
  /\ object = {} /\ rows = {}
  /\ excess = [s \in Segments |-> 0] /\ old = [s \in Segments |-> {}]
  /\ expired = {}
  /\ camera = "there" /\ listed = {}
  /\ faults = 0

Fault == faults < MaxFaults /\ faults' = faults + 1
NoFault == faults' = faults
-----------------------------------------------------------------------------
\* The capture thread.  A failed connection leaves it connecting.
Connect ==
  /\ worker = "connecting" /\ ~stopping
  /\ worker' = "online"
  /\ UNCHANGED <<stopping, pool, last, stage, file, faults>> /\ UNCHANGED <<store, api>>

\* _emit_segment: submit raises once the pool is shut down; the file stays where it is.
Emitted == IF pool = "open" THEN "queued" ELSE "left"
OpenSegment == {s \in Segments : stage[s] = "open"}
Close == [s \in Segments |-> IF s \in OpenSegment THEN Emitted ELSE stage[s]]

\* The segment that is open is emitted when the next one starts.
NewSegment ==
  /\ worker = "online" /\ ~stopping /\ last < MaxSegments
  /\ last' = last + 1
  /\ stage' = [Close EXCEPT ![last + 1] = "open"]
  /\ file' = [file EXCEPT ![last + 1] = "work"]
  /\ UNCHANGED <<worker, stopping, pool, faults>> /\ UNCHANGED <<store, api>>

\* The loop ends for a dead stream or for the stop event.
LoopEnds ==
  /\ worker = "online"
  /\ worker' = IF stopping THEN "none" ELSE "connecting"
  /\ stage' = Close
  /\ UNCHANGED <<stopping, pool, last, file, faults>> /\ UNCHANGED <<store, api>>

\* An exception in the loop: nobody emits the segment that is open.
LoopRaises ==
  /\ worker = "online" /\ Fault
  /\ worker' = IF stopping THEN "none" ELSE "connecting"
  /\ stage' = [s \in Segments |-> IF s \in OpenSegment THEN "left" ELSE stage[s]]
  /\ UNCHANGED <<stopping, pool, last, file>> /\ UNCHANGED <<store, api>>

GiveUpConnecting ==
  /\ worker = "connecting" /\ stopping
  /\ worker' = "none"
  /\ UNCHANGED <<stopping, pool, last, stage, file, faults>> /\ UNCHANGED <<store, api>>
-----------------------------------------------------------------------------
\* _upload_segment, step by step, in one of the threads of the pool.
Step(s, from, to) == stage[s] = from /\ stage' = [stage EXCEPT ![s] = to]
Capture == <<worker, stopping, pool, last>>

Start(s) ==
  /\ pool # "down" /\ Cardinality(Running) < Parallel
  /\ Step(s, "queued", "started")
  /\ UNCHANGED <<file, faults>> /\ UNCHANGED <<Capture, store, api>>

Put(s) ==
  /\ Step(s, "started", "put")
  /\ object' = object \cup {s}
  /\ UNCHANGED <<file, rows, excess, old, expired, faults>> /\ UNCHANGED <<Capture, api>>

\* The row of a segment refers to its camera: without one the insert fails (see Fail).
Commit(s) ==
  /\ camera = "there"
  /\ Step(s, "put", "stored")
  /\ rows' = rows \cup {s}
  /\ UNCHANGED <<file, object, excess, old, expired, faults>> /\ UNCHANGED <<Capture, api>>

\* _enforce_retention counts, ...
Count(s) ==
  /\ Step(s, "stored", IF Cardinality(rows) <= Limit THEN "pruned" ELSE "counted")
  /\ excess' = [excess EXCEPT ![s] = IF Cardinality(rows) <= Limit THEN 0 ELSE Cardinality(rows) - Limit]
  /\ UNCHANGED <<file, object, rows, old, expired, faults>> /\ UNCHANGED <<Capture, api>>

\* ... selects as many of the oldest rows there are by now, ...
Surplus(n) == Oldest(n, rows)

Select(s) ==
  /\ Step(s, "counted", "selected")
  /\ old' = [old EXCEPT ![s] = Surplus(excess[s])]
  /\ expired' = expired \cup Surplus(excess[s])
  /\ UNCHANGED <<file, object, rows, excess, faults>> /\ UNCHANGED <<Capture, api>>

\* ... and removes object and row of each; a row that has gone meanwhile is no error.
Prune(s) ==
  /\ Step(s, "selected", "pruned")
  /\ \/ NoFault /\ object' = object \ old[s]
     \/ Fault /\ object' = object     \* errors of the store are suppressed
  /\ rows' = rows \ old[s]
  /\ UNCHANGED <<file, excess, old, expired>> /\ UNCHANGED <<Capture, api>>

\* Only now is the local copy removed.
RemoveLocal(s) ==
  /\ Step(s, "pruned", "done")
  /\ file' = [file EXCEPT ![s] = "none"]
  /\ UNCHANGED faults /\ UNCHANGED <<Capture, store, api>>

\* Any call fails: the local copy is moved aside, whatever has been stored by then.
\* When it is the commit of retention, the objects are gone and the rows stay.
Discarded(s) == [file EXCEPT ![s] = "none"]     \* mutant: the local copy goes in any case
SetAside(s) == [file EXCEPT ![s] = "failed"]

Fail(s) ==
  /\ stage[s] \in {"started", "put", "stored", "counted", "selected"}
  /\ \/ stage[s] = "put" /\ camera # "there" /\ NoFault
     \/ Fault
  /\ stage' = [stage EXCEPT ![s] = "failed"]
  /\ file' = SetAside(s)
  /\ object' \in {object, object \ old[s]}
  /\ UNCHANGED <<rows, excess, old, expired>> /\ UNCHANGED <<Capture, api>>
-----------------------------------------------------------------------------
\* POST /cameras/{id}/stop, and the first loop of stop().
StopWorker ==
  /\ worker # "none" /\ ~stopping
  /\ stopping' = TRUE
  /\ UNCHANGED <<worker, pool, last, stage, file, faults>> /\ UNCHANGED <<store, api>>

\* POST /cameras/{id}/start; started before the old thread has ended, a second one
\* records beside it, into segments of its own: left out.
StartWorker ==
  /\ worker = "none" /\ pool = "open" /\ camera = "there"
  /\ worker' = "connecting" /\ stopping' = FALSE
  /\ UNCHANGED <<pool, last, stage, file, faults>> /\ UNCHANGED <<store, api>>

\* stop(): join has returned or its five seconds are over; what is queued is cancelled.
Shutdown ==
  /\ pool = "open" /\ (worker # "none" => stopping)
  /\ pool' = "closed"
  /\ stage' = [s \in Segments |-> IF stage[s] = "queued" THEN "left" ELSE stage[s]]
  /\ UNCHANGED <<worker, stopping, last, file, faults>> /\ UNCHANGED <<store, api>>

\* The process ends (daemon threads with it): after the running uploads, or by dying.
Cut == [s \in Segments |-> IF stage[s] \in {"open", "queued"} \/ s \in Running
                           THEN "left" ELSE stage[s]]
End ==
  /\ pool # "down"
  /\ \/ pool = "closed" /\ Running = {} /\ NoFault
     \/ Fault
  /\ pool' = "down" /\ worker' = "none" /\ stopping' = FALSE
  /\ stage' = Cut
  /\ UNCHANGED <<last, file>> /\ UNCHANGED <<store, api>>

\* start(): a worker per active camera; files left by the last process stay unread.
Restart ==
  /\ pool = "down"
  /\ pool' = "open"
  /\ worker' = IF camera = "there" THEN "connecting" ELSE "none"
  /\ UNCHANGED <<stopping, last, stage, file, faults>> /\ UNCHANGED <<store, api>>
-----------------------------------------------------------------------------
\* delete_camera: one transaction reads the recordings and deletes camera and rows, ...
DeleteCamera ==
  /\ camera = "there"
  /\ camera' = "deleted" /\ listed' = rows /\ rows' = {}
  /\ UNCHANGED <<stage, file, object, excess, old, expired, faults>> /\ UNCHANGED Capture

\* ... then the objects go, best effort, and the worker is told to stop (StopWorker).
Purge ==
  /\ camera = "deleted"
  /\ camera' = "purged"
  /\ \/ NoFault /\ object' = object \ listed
     \/ Fault /\ object' = object
  /\ UNCHANGED <<stage, file, rows, excess, old, expired, listed>> /\ UNCHANGED Capture

Next ==
  \/ Connect \/ NewSegment \/ LoopEnds \/ LoopRaises \/ GiveUpConnecting
  \/ \E s \in Segments :
       \/ Start(s) \/ Put(s) \/ Commit(s) \/ Count(s) \/ Select(s) \/ Prune(s)
       \/ RemoveLocal(s) \/ Fail(s)
  \/ StopWorker \/ StartWorker \/ Shutdown \/ End \/ Restart
  \/ DeleteCamera \/ Purge

Spec == Init /\ [][Next]_vars
-----------------------------------------------------------------------------
\* manager.py:139-149.  What was recorded is somewhere: a local file, or an object
\* with its row, unless retention has selected it or its camera was deleted.
NothingIsLost ==
  \A s \in Segments :
    \/ stage[s] = "none" \/ file[s] # "none"
    \/ s \in object \cap rows
    \/ s \in expired \/ camera # "there"

\* config.py:26 calls the limit a rolling retention per camera: the newest Limit rows
\* would never be selected.  Uploads count and select in separate statements, and the
\* code lets those of one camera run beside each other.
NewestAreKept ==
  [][\A s \in expired' \ expired : Cardinality({t \in rows : t > s}) >= Limit]_vars
=============================================================================
