---------------------------- MODULE MediaSources ----------------------------
(***************************************************************************)
(* Media sources: a relay process per source kept up by a thread of its    *)
(* own, a thread per source that onboards its camera, a watcher that       *)
(* onboards whatever devices push, and the API that deletes cameras.       *)
(* Requests to the service are synchronous on its event loop, so they are  *)
(* atomic towards each other, not towards the threads.                     *)
(***************************************************************************)
EXTENDS Integers, FiniteSets

CONSTANTS
  Added,        \* paths of sources an operator adds (usb, stream), kept in the config file
  Pushed,       \* paths devices push to
  MaxSources,   \* bound on the Source objects a run makes
  MaxRestarts   \* bound on restarts of the service

Ids == 1 .. MaxSources
Paths == Added \cup Pushed

VARIABLES
  made,        \* number of Source objects made
  source,      \* per Source: path, relay thread, registrar thread, stop_event, camera_id
  listed,      \* self.sources
  config,      \* paths in media_sources.yaml
  cameras,     \* camera rows: the path each has in its rtsp_uri
  deleting,    \* cameras whose row delete_camera has deleted, the source not yet
  removing,    \* the push source remove_source has dropped, not yet suppressed
  suppressed,  \* self._suppressed
  ready,       \* push paths devices publish to right now
  seen,        \* the watcher: wait, listed or new, and the paths of that step
  restarts

vars == <<made, source, listed, config, cameras, deleting, removing, suppressed, ready, seen, restarts>>

None == 0
NoPath == ""
Fresh(p, relay) == [path |-> p, relay |-> relay, reg |-> "wait", stop |-> FALSE,
                    cam |-> None, late |-> 0]
Unmade == [path |-> NoPath, relay |-> "none", reg |-> "none", stop |-> FALSE, cam |-> None, late |-> 0]
Waiting == [at |-> "wait", paths |-> {}]
PathsOf(S) == {source[i].path : i \in S}

Init ==
  /\ made = 0 /\ source = [i \in Ids |-> Unmade] /\ listed = {}
  /\ config = {} /\ cameras = << >> /\ deleting = {} /\ removing = None
  /\ suppressed = {} /\ ready = {} /\ seen = Waiting
  /\ restarts = 0

Set(i, field, value) == source' = [source EXCEPT ![i] = [@ EXCEPT ![field] = value]]
CamOf(p) == {c \in DOMAIN cameras : cameras[c] = p}
World == <<config, cameras, deleting, ready, restarts>>
Onboarding == <<made, listed, removing, suppressed, seen>>
-----------------------------------------------------------------------------
\* add_usb_source, add_stream_source: written to the config before the probe, whose
\* failure leaves the source listed, without threads.
Add(p, live) ==
  /\ made < MaxSources /\ removing = None /\ p \notin PathsOf(listed)
  /\ made' = made + 1
  /\ source' = [source EXCEPT ![made + 1] =
                  IF live THEN Fresh(p, "test") ELSE [Fresh(p, "none") EXCEPT !.reg = "none"]]
  /\ listed' = listed \cup {made + 1}
  /\ config' = config \cup {p}
  /\ UNCHANGED <<cameras, deleting, removing, suppressed, ready, seen, restarts>>

\* _run_source: test the events, start the process, wait for its end, wait the backoff.
Untested(i) == FALSE     \* mutant: the thread does not look at stop_event
Stopped(i) == source[i].stop

Test(i) ==
  /\ source[i].relay = "test"
  /\ Set(i, "relay", IF Stopped(i) THEN "ended" ELSE "start")
  /\ UNCHANGED <<World, Onboarding>>

Spawn(i) ==
  /\ source[i].relay = "start"
  /\ source' = [source EXCEPT ![i].relay = "runs",
                              ![i].late = IF source[i].stop THEN @ + 1 ELSE @]
  /\ UNCHANGED <<World, Onboarding>>

Exit(i) ==
  /\ source[i].relay = "runs"
  /\ Set(i, "relay", IF Stopped(i) THEN "ended" ELSE "backoff")
  /\ UNCHANGED <<World, Onboarding>>

Retry(i) ==
  /\ source[i].relay = "backoff"
  /\ Set(i, "relay", IF Stopped(i) THEN "ended" ELSE "test")
  /\ UNCHANGED <<World, Onboarding>>

\* _register_one: nothing when the path never gets ready; _register reads the cameras, ...
Register(i) ==
  /\ source[i].reg = "wait"
  /\ \/ source' = [source EXCEPT ![i].reg = "done"]
     \/ /\ CamOf(source[i].path) # {}
        /\ source' = [source EXCEPT ![i].reg = "done",
                                    ![i].cam = CHOOSE c \in CamOf(source[i].path) : TRUE]
     \/ /\ CamOf(source[i].path) = {}
        /\ Set(i, "reg", "post")
  /\ UNCHANGED <<World, Onboarding>>

\* ... and has ingest create one when there was none for the path.
Create(i) ==
  /\ source[i].reg = "post" /\ Cardinality(DOMAIN cameras) < MaxSources
  /\ LET c == 1 + Cardinality(DOMAIN cameras) IN
       /\ cameras' = [k \in 1 .. c |-> IF k = c THEN source[i].path ELSE cameras[k]]
       /\ source' = [source EXCEPT ![i].reg = "done", ![i].cam = c]
  /\ UNCHANGED <<config, deleting, ready, restarts>> /\ UNCHANGED Onboarding
-----------------------------------------------------------------------------
\* The API's delete_camera: first the row, then DELETE /sources/by-camera.
DeleteRow(c) ==
  /\ cameras[c] # NoPath
  /\ cameras' = [cameras EXCEPT ![c] = NoPath]
  /\ deleting' = deleting \cup {c}
  /\ UNCHANGED <<source, config, ready, restarts>> /\ UNCHANGED Onboarding

Lost(c) ==
  /\ c \in deleting
  /\ deleting' = deleting \ {c}
  /\ UNCHANGED <<source, config, cameras, ready, restarts>> /\ UNCHANGED Onboarding

\* remove_source, up to the filtering of self.sources; a running relay is terminated,
\* one that is not yet in procs is not.
Remove(c) ==
  /\ c \in deleting /\ removing = None
  /\ deleting' = deleting \ {c}
  /\ IF \E i \in listed : source[i].cam = c
     THEN LET i == CHOOSE j \in listed : source[j].cam = c
              p == source[i].path IN
            /\ source' = [source EXCEPT ![i].stop = TRUE,
                            ![i].relay = IF @ = "runs" THEN "ended" ELSE @]
            /\ listed' = {j \in listed : source[j].path # p}
            /\ IF p \in Pushed THEN removing' = i /\ UNCHANGED config
               ELSE config' = config \ {p} /\ UNCHANGED removing
     ELSE UNCHANGED <<source, listed, config, removing>>
  /\ UNCHANGED <<made, cameras, suppressed, ready, seen, restarts>>

Suppress ==
  /\ removing # None
  /\ suppressed' = suppressed \cup {source[removing].path}
  /\ removing' = None
  /\ UNCHANGED <<made, source, listed, seen>> /\ UNCHANGED World
-----------------------------------------------------------------------------
\* _watch_pushes: ask for the paths, ...
Look ==
  /\ seen.at = "wait"
  /\ seen' = [at |-> "listed", paths |-> ready]
  /\ UNCHANGED <<made, source, listed, removing, suppressed>> /\ UNCHANGED World

\* ... forget the suppressed ones that went idle, see which ones nobody knows, ...
New(paths) == IF paths = {} THEN Waiting ELSE [at |-> "new", paths |-> paths]

Compare ==
  /\ seen.at = "listed"
  /\ suppressed' = suppressed \cap seen.paths
  /\ seen' = New(seen.paths \ PathsOf(listed))
  /\ UNCHANGED <<made, source, listed, removing>> /\ UNCHANGED World

\* ... and onboard each of these that is not suppressed by then.
Onboard(p) ==
  /\ seen.at = "new" /\ p \in seen.paths
  /\ seen' = New(seen.paths \ {p})
  /\ IF p \in suppressed \/ made = MaxSources
     THEN UNCHANGED <<made, source, listed>>
     ELSE /\ made' = made + 1
          /\ source' = [source EXCEPT ![made + 1] = Fresh(p, "none")]
          /\ listed' = listed \cup {made + 1}
  /\ UNCHANGED <<removing, suppressed>> /\ UNCHANGED World

Push(p) ==
  /\ ready' = IF p \in ready THEN ready \ {p} ELSE ready \cup {p}
  /\ UNCHANGED <<source, config, cameras, deleting, restarts>> /\ UNCHANGED Onboarding

\* stop and start: what is in the config is relayed again, what was suppressed is not
\* remembered.
Restart ==
  /\ restarts < MaxRestarts /\ made + Cardinality(config) <= MaxSources
  /\ restarts' = restarts + 1
  /\ LET again == (made + 1) .. (made + Cardinality(config))
     IN \E order \in [again -> config] :
          /\ \A i, j \in again : order[i] = order[j] => i = j
          /\ made' = made + Cardinality(config)
          /\ source' = [i \in Ids |-> IF i \in again THEN Fresh(order[i], "test") ELSE Unmade]
          /\ listed' = again
  /\ removing' = None /\ suppressed' = {} /\ seen' = Waiting
  /\ UNCHANGED <<config, cameras, deleting, ready>>

Next ==
  \/ \E p \in Added, live \in BOOLEAN : Add(p, live)
  \/ \E i \in Ids : Test(i) \/ Spawn(i) \/ Exit(i) \/ Retry(i) \/ Register(i) \/ Create(i)
  \/ \E c \in DOMAIN cameras : DeleteRow(c) \/ Lost(c) \/ Remove(c)
  \/ Suppress \/ Look \/ Compare \/ Restart
  \/ \E p \in Pushed : Onboard(p) \/ Push(p)

Spec == Init /\ [][Next]_vars
-----------------------------------------------------------------------------
\* manager.py:203-239, 400-421.  A source that has been removed is not relayed again
\* and again: its thread may have passed its test of stop_event and then starts one
\* process nobody terminates, never a second one.
OneLateRelay == \A i \in Ids : source[i].late <= 1
=============================================================================
