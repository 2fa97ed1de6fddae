------------------------ MODULE ContextParts_proofs ------------------------
(***************************************************************************)
(* Proofs about the firing of alarms, for every set of alarms, devices,    *)
(* watchlist entries and concurrent requests: an alarm passes once per     *)
(* cooldown, and what becomes an incident is apart from what already is    *)
(* one.  Then the watchlist: whoever is watched and near enough is found.  *)
(* What ContextParts composes are behaviours of the three modules.         *)
(***************************************************************************)
EXTENDS ContextParts, SequenceTheorems, FiniteSetTheorems, WellFoundedInduction, TLAPS

\* What a task can be asked to fire, and what it then does.
Firing == {"suppress", "look", "roll", "store"}
Busy(t) == call[t] # F!Idle
Signatures == {a.sig : a \in F!Alarms}
Incidents == [sig : Signatures, made : Nat, last : Nat, count : Nat, open : BOOLEAN]

\* The types, and what a task that is firing has in hand.
InHand(t) ==
  /\ DOMAIN call[t] = {"pc", "work", "unusual", "left", "made", "todo", "at", "attempt",
                       "row", "seen", "before"}
  /\ call[t].pc \in Firing \cup {"next", "publish", "count"}
  /\ call[t].pc \in Firing \cup {"publish"} => call[t].todo # << >>
  /\ call[t].work \in Seq(F!AlarmsOf(t)) /\ call[t].todo \in Seq(F!AlarmsOf(t))
  /\ call[t].unusual \in Seq(Anomalies) /\ call[t].left \in Seq(Handoffs)
  /\ t # "objects" => call[t].unusual = << >> /\ call[t].left = << >>
  /\ call[t].at \in Nat /\ call[t].at <= now
  /\ call[t].seen \in Nat
FiringTypes ==
  /\ now \in Nat /\ started \in Nat
  /\ cooldowns \in [F!Alarms -> Nat \cup {F!None}]
  /\ passed \in [F!Alarms -> Nat \cup {F!None}]
  /\ incidents \in Seq(Incidents)
  /\ DOMAIN call = F!Tasks
  /\ \A t \in F!Tasks : Busy(t) => InHand(t)

-----------------------------------------------------------------------------
\* The work of a message: sequences of the task's own alarms.

LEMMA OrdersAreSequences ==
  ASSUME NEW S, NEW n \in Nat
  PROVE  F!Orders(S, n) \subseteq Seq(S)
BY DEF F!Orders

LEMMA RequestsAreNoConsumers ==
  \A t \in Requests : t \notin {"objects", "embeddings", "sensors"}
BY FiringParameters DEF F!FiringAssumption, F!Consumers

LEMMA OneOf ==
  ASSUME NEW S
  PROVE  << >> \in Seq(S) /\ \A x \in S : <<x>> \in Seq(S)
OBVIOUS

LEMMA WorkIsTheTasks ==
  ASSUME NEW t \in F!Tasks, NEW work \in F!Work(t)
  PROVE  work \in Seq(F!AlarmsOf(t))
<1>1. CASE t = "objects"
  <2>1. work \in F!Orders(FrameAlarms, 2)
    BY <1>1 DEF F!Work
  <2>2. work \in Seq(FrameAlarms)
    BY <2>1, OrdersAreSequences
  <2>3. FrameAlarms \subseteq F!AlarmsOf(t)
    BY <1>1 DEF F!AlarmsOf, F!VideoAlarms
  <2> QED BY <2>2, <2>3
<1>2. CASE t = "embeddings"
  <2>1. PICK e \in Watched : work = <<F!Alarm("Watchlist Hit", e)>>
    BY <1>2 DEF F!Work
  <2>2. F!Alarm("Watchlist Hit", e) \in F!AlarmsOf(t)
    BY <1>2 DEF F!AlarmsOf, F!Alarm
  <2> QED BY <2>1, <2>2, OneOf
<1>3. CASE t = "sensors"
  <2>1. PICK r \in F!SensorReports : work = F!SensorAlarms(r)
    BY <1>3 DEF F!Work
  <2>2. \A s \in F!SensorSignatures : F!Alarm(s, r.device) \in F!AlarmsOf(t)
    BY <1>3 DEF F!AlarmsOf, F!Alarm, F!SensorReports
  <2>3. work = << >> \/ \E s \in F!SensorSignatures : work = <<F!Alarm(s, r.device)>>
    BY <2>1 DEF F!SensorAlarms, F!SensorSignatures
  <2> QED BY <2>2, <2>3, OneOf
<1>4. CASE t \in Requests
  <2>1. /\ \A s \in F!AccessSignatures : F!Alarm(s, "door") \in F!AlarmsOf(t)
        /\ F!Alarm("Person Fall", "camera") \in F!AlarmsOf(t)
    BY <1>4, RequestsAreNoConsumers DEF F!AlarmsOf, F!Alarm
  <2>2. CASE work = <<F!Alarm("Person Fall", "camera")>>
    BY <2>1, <2>2, OneOf
  <2>3. CASE \E e \in F!AccessEvents : work = F!AccessAlarms(e)
    <3>1. work = << >> \/ \E s \in F!AccessSignatures : work = <<F!Alarm(s, "door")>>
      BY <2>3 DEF F!AccessAlarms, F!AccessSignatures
    <3> QED BY <2>1, <3>1, OneOf
  <2>4. \/ \E e \in F!AccessEvents : work = F!AccessAlarms(e)
        \/ work = <<F!Alarm("Person Fall", "camera")>>
    BY <1>4, RequestsAreNoConsumers DEF F!Work
  <2> QED BY <2>2, <2>3, <2>4
<1> QED BY <1>1, <1>2, <1>3, <1>4 DEF F!Tasks, F!Consumers

-----------------------------------------------------------------------------
\* A step of one task leaves the others' calls alone.
LEMMA OneCall ==
  ASSUME FiringTypes, NEW t \in F!Tasks, now' = now,
         DOMAIN call' = F!Tasks, \A u \in F!Tasks : u # t => call'[u] = call[u],
         Busy(t)' => InHand(t)'
  PROVE  \A u \in F!Tasks : Busy(u)' => InHand(u)'
<1> SUFFICES ASSUME NEW u \in F!Tasks, u # t, Busy(u)' PROVE InHand(u)'
  OBVIOUS
<1>1. call'[u] = call[u] /\ InHand(u)
  BY DEF FiringTypes, Busy
<1> QED BY <1>1 DEF InHand

LEMMA BusyWhen ==
  ASSUME FiringTypes, NEW t \in F!Tasks, call[t].pc # "idle"
  PROVE  Busy(t) /\ InHand(t)
BY DEF FiringTypes, Busy, F!Idle

LEMMA CurrentIsTheTasks ==
  ASSUME FiringTypes, NEW t \in F!Tasks, call[t].pc # "idle", call[t].todo # << >>
  PROVE  /\ F!Current(t) \in F!AlarmsOf(t) /\ F!Current(t) \in F!Alarms
         /\ Tail(call[t].todo) \in Seq(F!AlarmsOf(t))
         /\ F!Current(t).sig \in Signatures
<1>1. call[t].todo \in Seq(F!AlarmsOf(t))
  BY BusyWhen DEF InHand
<1>2. F!Current(t) \in F!AlarmsOf(t) /\ Tail(call[t].todo) \in Seq(F!AlarmsOf(t))
  BY <1>1 DEF F!Current
<1>3. F!Current(t) \in F!Alarms
  BY <1>2 DEF F!Alarms
<1> QED BY <1>2, <1>3 DEF Signatures

LEMMA TypesAtStart == F!Init => FiringTypes
<1> SUFFICES ASSUME F!Init PROVE FiringTypes
  OBVIOUS
<1>1. \A t \in F!Tasks : ~Busy(t)
  BY DEF F!Init, Busy
<1>2. incidents \in Seq(Incidents) /\ DOMAIN call = F!Tasks
  BY DEF F!Init
<1>3. cooldowns \in [F!Alarms -> Nat \cup {F!None}] /\ passed = cooldowns
  BY DEF F!Init
<1> QED BY <1>1, <1>2, <1>3 DEF F!Init, FiringTypes

LEMMA TypesReceive ==
  ASSUME FiringTypes, NEW t \in F!Tasks, F!Receive(t)
  PROVE  FiringTypes'
<1>1. PICK work \in F!Work(t), unusual \in (IF t = "objects" THEN F!Unusual ELSE {<< >>}),
           left \in (IF t = "objects" THEN F!Reappearances ELSE {<< >>}) :
        /\ work \o unusual \o left # << >> \/ t # "objects"
        /\ call' = [call EXCEPT ![t] =
            [pc |-> "next", work |-> work, unusual |-> unusual, left |-> left,
             made |-> t # "objects",
             todo |-> IF t = "objects" THEN << >> ELSE work,
             at |-> IF t = "objects" THEN now ELSE 0,
             attempt |-> 1, row |-> 0, seen |-> 0, before |-> 0]]
  BY DEF F!Receive
<1>2. work \in Seq(F!AlarmsOf(t))
  BY WorkIsTheTasks
<1>3. unusual \in Seq(Anomalies) /\ left \in Seq(Handoffs)
  BY OrdersAreSequences, OneOf DEF F!Unusual, F!Reappearances
<1>4. now' = now /\ now \in Nat
  BY DEF F!Receive, FiringTypes
<1>5. InHand(t)'
  BY <1>1, <1>2, <1>3, <1>4 DEF InHand, Firing, FiringTypes
<1>6. \A u \in F!Tasks : Busy(u)' => InHand(u)'
  BY <1>1, <1>4, <1>5, OneCall DEF FiringTypes
<1>7. cooldowns' \in [F!Alarms -> Nat \cup {F!None}]
  BY DEF F!Receive, F!Pruned, FiringTypes, F!None
<1> QED BY <1>1, <1>6, <1>7 DEF F!Receive, FiringTypes

LEMMA TypesHandoff ==
  ASSUME FiringTypes, NEW t \in F!Tasks, F!Handoff(t)
  PROVE  FiringTypes'
<1>1. Busy(t) /\ InHand(t) /\ call[t].left # << >>
  BY BusyWhen DEF F!Handoff, F!At
<1>2. t = "objects" /\ Head(call[t].left) \in Handoffs /\ Tail(call[t].left) \in Seq(Handoffs)
  BY <1>1 DEF InHand
<1>3. <<Head(call[t].left)>> \in Seq(F!AlarmsOf(t))
  BY <1>2, OneOf DEF F!AlarmsOf, F!VideoAlarms
<1> DEFINE todo == IF F!GateOpen(Head(call[t].left), call[t].at)
                   THEN <<Head(call[t].left)>> ELSE << >>
<1>4. /\ call' = [call EXCEPT ![t].left = Tail(@), ![t].todo = todo]
      /\ todo \in Seq(F!AlarmsOf(t))
  BY <1>3, OneOf DEF F!Handoff
<1> HIDE DEF todo
<1>5. InHand(t)'
  <2>1. now' = now /\ call[t].pc = "next" /\ DOMAIN call = F!Tasks
    BY DEF F!Handoff, F!At, FiringTypes
  <2> QED BY <1>1, <1>2, <1>4, <2>1 DEF InHand, Firing
<1>6. \A u \in F!Tasks : Busy(u)' => InHand(u)'
  BY <1>4, <1>5, OneCall DEF FiringTypes, F!Handoff
<1> QED BY <1>4, <1>6 DEF F!Handoff, FiringTypes

LEMMA TypesEvaluate ==
  ASSUME FiringTypes, NEW t \in F!Tasks, F!Evaluate(t)
  PROVE  FiringTypes'
<1>1. Busy(t) /\ InHand(t)
  BY BusyWhen DEF F!Evaluate, F!At
<1>2. call[t].unusual \in Seq(F!AlarmsOf(t))
  <2>1. CASE t = "objects"
    <3>1. Anomalies \subseteq F!AlarmsOf(t)
      BY <2>1 DEF F!AlarmsOf, F!VideoAlarms
    <3> QED BY <1>1, <3>1 DEF InHand
  <2> QED BY <1>1, <2>1, OneOf DEF InHand
<1> DEFINE found == call[t].unusual # << >> /\ F!GateOpen(Head(call[t].unusual), call[t].at)
           todo == IF found THEN call[t].unusual \o call[t].work ELSE call[t].work
<1>3. call' = [call EXCEPT ![t].made = TRUE, ![t].todo = todo]
  BY DEF F!Evaluate
<1>6. todo \in Seq(F!AlarmsOf(t))
  BY <1>1, <1>2 DEF InHand
<1> HIDE DEF todo
<1>4. InHand(t)'
  <2>1. now' = now /\ call[t].pc = "next" /\ DOMAIN call = F!Tasks
    BY DEF F!Evaluate, F!At, FiringTypes
  <2> QED BY <1>1, <1>3, <1>6, <2>1 DEF InHand, Firing
<1>5. \A u \in F!Tasks : Busy(u)' => InHand(u)'
  BY <1>3, <1>4, OneCall DEF FiringTypes, F!Evaluate
<1> QED BY <1>3, <1>5 DEF F!Evaluate, FiringTypes

LEMMA TypesSkip ==
  ASSUME FiringTypes, NEW t \in F!Tasks, F!Skip(t)
  PROVE  FiringTypes'
<1>1. Busy(t) /\ InHand(t) /\ Tail(call[t].todo) \in Seq(F!AlarmsOf(t))
  BY BusyWhen, CurrentIsTheTasks DEF F!Skip, F!At
<1>2. InHand(t)'
  BY <1>1 DEF InHand, Firing, FiringTypes, F!Skip, F!At
<1>3. \A u \in F!Tasks : Busy(u)' => InHand(u)'
  BY <1>2, OneCall DEF FiringTypes, F!Skip
<1> QED BY <1>3 DEF F!Skip, FiringTypes

LEMMA TypesPass ==
  ASSUME FiringTypes, NEW t \in F!Tasks, F!Pass(t)
  PROVE  FiringTypes'
<1>1. Busy(t) /\ InHand(t) /\ F!Current(t) \in F!Alarms
  BY BusyWhen, CurrentIsTheTasks DEF F!Pass, F!At
<1>2. F!Clock(t) \in Nat /\ F!Clock(t) <= now
  BY <1>1 DEF F!Clock, FiringTypes, InHand
<1>3. InHand(t)'
  BY <1>1, <1>2 DEF InHand, Firing, FiringTypes, F!Pass, F!At
<1>4. \A u \in F!Tasks : Busy(u)' => InHand(u)'
  BY <1>3, OneCall DEF FiringTypes, F!Pass
<1>5. /\ cooldowns' \in [F!Alarms -> Nat \cup {F!None}]
      /\ passed' \in [F!Alarms -> Nat \cup {F!None}]
  BY <1>2 DEF F!Pass, FiringTypes
<1> QED BY <1>4, <1>5 DEF F!Pass, FiringTypes

LEMMA EachIncident ==
  ASSUME FiringTypes, NEW i \in DOMAIN incidents
  PROVE  i \in Nat /\ i >= 1 /\ i <= Len(incidents) /\ incidents[i] \in Incidents
BY DEF FiringTypes

\* Changing one incident.
LEMMA OneIncident ==
  ASSUME FiringTypes, NEW i \in DOMAIN incidents, NEW x \in Incidents,
         incidents' = [incidents EXCEPT ![i] = x]
  PROVE  incidents' \in Seq(Incidents) /\ Len(incidents') = Len(incidents)
BY ExceptSeq DEF FiringTypes

\* What comes back from _fire.
LEMMA TypesReturn ==
  ASSUME FiringTypes, NEW t \in F!Tasks, Busy(t), InHand(t), now' = now,
         NEW rest \in Seq(F!AlarmsOf(t)), call' = F!Return(t, rest)
  PROVE  DOMAIN call' = F!Tasks /\ \A u \in F!Tasks : Busy(u)' => InHand(u)'
<1>1. InHand(t)'
  BY DEF InHand, Firing, FiringTypes, F!Return
<1> QED BY <1>1, OneCall DEF FiringTypes, F!Return

LEMMA TypesFire ==
  ASSUME FiringTypes, NEW t \in F!Tasks,
         F!Suppress(t) \/ F!Look(t) \/ F!Roll(t) \/ F!Store(t) \/ F!Publish(t)
  PROVE  FiringTypes'
<1>1. Busy(t) /\ InHand(t) /\ call[t].todo # << >>
  BY BusyWhen DEF F!Suppress, F!Look, F!Roll, F!Store, F!Publish, F!At, InHand, Firing
<1>2. call[t].pc # "idle"
  BY DEF F!Suppress, F!Look, F!Roll, F!Store, F!Publish, F!At
<1>3. Tail(call[t].todo) \in Seq(F!AlarmsOf(t)) /\ F!Current(t).sig \in Signatures
  BY <1>1, <1>2, CurrentIsTheTasks
<1>4. CASE F!Suppress(t)
  BY <1>1, <1>3, <1>4, TypesReturn DEF F!Suppress, FiringTypes
<1>5. CASE F!Look(t)
  <2>1. CASE call' = [call EXCEPT ![t].pc = "store"]
    <3>1. InHand(t)'
      BY <1>1, <1>5, <2>1 DEF InHand, Firing, FiringTypes, F!Look, F!At
    <3>2. \A u \in F!Tasks : Busy(u)' => InHand(u)'
      BY <1>5, <2>1, <3>1, OneCall DEF FiringTypes, F!Look
    <3> QED BY <1>5, <2>1, <3>2 DEF F!Look, FiringTypes
  <2>2. ASSUME NEW i \in F!Matches(t),
               call' = [call EXCEPT ![t].pc = "roll", ![t].row = i, ![t].seen = incidents[i].count]
        PROVE  FiringTypes'
    <3>1. i \in Nat /\ incidents[i].count \in Nat
      BY EachIncident DEF Incidents, F!Matches
    <3>2. InHand(t)'
      BY <1>1, <2>2, <3>1, <1>5 DEF InHand, Firing, FiringTypes, F!Look, F!At
    <3>3. \A u \in F!Tasks : Busy(u)' => InHand(u)'
      BY <1>5, <2>2, <3>2, OneCall DEF FiringTypes, F!Look
    <3> QED BY <1>5, <2>2, <3>3 DEF F!Look, FiringTypes
  <2> QED BY <1>5, <2>1, <2>2 DEF F!Look
<1>6. CASE F!Roll(t)
  <2>1. incidents' \in Seq(Incidents)
    <3> DEFINE r == call[t].row
    <3>1. CASE r \in DOMAIN incidents
      <4>1. [incidents[r] EXCEPT !.count = call[t].seen + 1, !.last = call[t].at] \in Incidents
        <5>1. call[t].seen + 1 \in Nat /\ call[t].at \in Nat
          BY <1>1 DEF InHand
        <5>2. incidents[r] \in Incidents
          BY <3>1, EachIncident
        <5> QED BY <5>1, <5>2 DEF Incidents
      <4>2. incidents' = [incidents EXCEPT ![r] =
              [incidents[r] EXCEPT !.count = call[t].seen + 1, !.last = call[t].at]]
        BY <1>6, <3>1 DEF F!Roll, FiringTypes
      <4> QED BY <3>1, <4>1, <4>2, OneIncident
    <3>2. CASE r \notin DOMAIN incidents
      <4>1. incidents = [i \in DOMAIN incidents |-> incidents[i]]
        BY DEF FiringTypes
      <4>2. incidents' = incidents
        BY <1>6, <3>2, <4>1 DEF F!Roll
      <4> QED BY <4>2 DEF FiringTypes
    <3> QED BY <3>1, <3>2
  <2> QED BY <1>1, <1>3, <1>6, <2>1, TypesReturn DEF F!Roll, FiringTypes
<1>7. CASE F!Store(t)
  <2>1. incidents' \in Seq(Incidents)
    BY <1>1, <1>3, <1>7 DEF F!Store, FiringTypes, Incidents, InHand
  <2>2. InHand(t)'
    BY <1>1, <1>7 DEF InHand, Firing, FiringTypes, F!Store, F!At
  <2>3. \A u \in F!Tasks : Busy(u)' => InHand(u)'
    BY <1>7, <2>2, OneCall DEF FiringTypes, F!Store
  <2> QED BY <1>7, <2>1, <2>3 DEF F!Store, FiringTypes
<1>8. CASE F!Publish(t)
  BY <1>1, <1>3, <1>8, TypesReturn DEF F!Publish, FiringTypes
<1> QED BY <1>4, <1>5, <1>6, <1>7, <1>8

LEMMA TypesEnd ==
  ASSUME FiringTypes, NEW t \in F!Tasks, F!Count(t) \/ F!Done(t) \/ F!Fail(t)
  PROVE  FiringTypes'
<1>1. Busy(t) /\ InHand(t)
  BY BusyWhen DEF F!Count, F!Done, F!Fail, F!At
<1>2. CASE F!Count(t)
  <2>1. InHand(t)'
    BY <1>1, <1>2 DEF InHand, Firing, FiringTypes, F!Count, F!At
  <2> QED BY <1>2, <2>1, OneCall DEF FiringTypes, F!Count
<1>3. CASE F!Done(t)
  BY <1>3, OneCall DEF FiringTypes, F!Done, Busy
<1>4. CASE F!Fail(t)
  <2>2. Busy(t)' => InHand(t)'
    BY <1>1, <1>4, OneOf DEF F!Fail, F!Again, InHand, Busy, FiringTypes, Firing
  <2> QED BY <1>4, <2>2, OneCall DEF FiringTypes, F!Fail
<1> QED BY <1>2, <1>3, <1>4

LEMMA TypesOthers ==
  ASSUME FiringTypes,
         (\E i \in DOMAIN incidents : F!Close(i)) \/ F!Crash \/ F!Tick \/ UNCHANGED F!vars
  PROVE  FiringTypes'
<1>1. ASSUME NEW i \in DOMAIN incidents, F!Close(i) PROVE FiringTypes'
  <2>1. incidents' \in Seq(Incidents)
    <3>1. [incidents[i] EXCEPT !.open = FALSE] \in Incidents
      BY EachIncident DEF Incidents
    <3> QED BY <1>1, <3>1, OneIncident DEF F!Close
  <2> QED BY <1>1, <2>1 DEF F!Close, FiringTypes, Busy, InHand
<1>2. CASE F!Crash
  BY <1>2 DEF F!Crash, FiringTypes, Busy, F!None
<1>3. CASE F!Tick
  BY <1>3 DEF F!Tick, FiringTypes, Busy, InHand
<1>4. CASE UNCHANGED F!vars
  BY <1>4 DEF F!vars, FiringTypes, Busy, InHand
<1> QED BY <1>1, <1>2, <1>3, <1>4

LEMMA TypesStep == FiringTypes /\ [F!Next]_F!vars => FiringTypes'
BY TypesReceive, TypesHandoff, TypesEvaluate, TypesSkip, TypesPass, TypesFire, TypesEnd, TypesOthers
DEF F!Next

-----------------------------------------------------------------------------
\* A cooldown is forgotten only when it is over, also for the frame in hand.
Remembered ==
  \A a \in F!Alarms :
    \/ cooldowns[a] = passed[a]
    \/ /\ cooldowns[a] = F!None /\ passed[a] # F!None
       /\ now - passed[a] >= Horizon
       /\ Busy("objects") => call["objects"].at - passed[a] >= Horizon

\* A look decides between a new incident and the latest that matches.
LEMMA LookSets ==
  ASSUME FiringTypes, NEW t \in F!Tasks, F!Look(t)
  PROVE  /\ call[t].pc = "look" /\ call'[t].at = call[t].at /\ call'[t].todo = call[t].todo
         /\ \A u \in F!Tasks : u # t => call'[u] = call[u]
         /\ \/ call'[t].pc = "store" /\ F!Matches(t) = {}
            \/ call'[t].pc = "roll" /\ call'[t].row \in F!Matches(t)
<1>1. InHand(t) /\ call[t].pc = "look" /\ DOMAIN call = F!Tasks
  BY BusyWhen DEF F!Look, F!At, FiringTypes
<1>2. CASE F!Matches(t) = {} /\ call' = [call EXCEPT ![t].pc = "store"]
  BY <1>1, <1>2 DEF InHand
<1>3. ASSUME NEW i \in F!Matches(t),
             call' = [call EXCEPT ![t].pc = "roll", ![t].row = i, ![t].seen = incidents[i].count]
      PROVE  /\ call'[t].at = call[t].at /\ call'[t].todo = call[t].todo
             /\ \A u \in F!Tasks : u # t => call'[u] = call[u]
             /\ call'[t].pc = "roll" /\ call'[t].row = i
  BY <1>1, <1>3 DEF InHand
<1> QED BY <1>1, <1>2, <1>3 DEF F!Look

\* The frame in hand keeps its time until the next is received.
LEMMA FrameTime ==
  ASSUME FiringTypes, NEW t \in F!Tasks, Busy("objects")',
         \/ F!Handoff(t) \/ F!Evaluate(t) \/ F!Skip(t) \/ F!Pass(t) \/ F!Suppress(t) \/ F!Look(t)
         \/ F!Roll(t) \/ F!Store(t) \/ F!Publish(t) \/ F!Count(t) \/ F!Done(t) \/ F!Fail(t)
  PROVE  Busy("objects") /\ call'["objects"].at = call["objects"].at
<1>0. "objects" \in F!Tasks /\ DOMAIN call = F!Tasks
  BY DEF F!Tasks, F!Consumers, FiringTypes
<1>1. CASE t # "objects"
  BY <1>0, <1>1 DEF Busy, F!Handoff, F!Evaluate, F!Skip, F!Pass, F!Suppress, F!Look, F!Roll,
     F!Store, F!Publish, F!Count, F!Done, F!Fail, F!Return
<1>2. CASE t = "objects"
  <2>1. call[t].pc # "idle"
    BY DEF F!Handoff, F!Evaluate, F!Skip, F!Pass, F!Suppress, F!Look, F!Roll, F!Store, F!Publish,
       F!Count, F!Done, F!Fail, F!At
  <2>2. Busy(t) /\ InHand(t)
    BY <2>1, BusyWhen
  <2>3. CASE F!Skip(t) \/ F!Store(t) \/ F!Count(t)
    BY <1>0, <1>2, <2>2, <2>3 DEF InHand, F!Skip, F!Store, F!Count
  <2>10. CASE F!Look(t)
    BY <1>2, <2>2, <2>10, LookSets
  <2>8. CASE F!Handoff(t)
    BY <1>0, <1>2, <2>2, <2>8 DEF InHand, F!Handoff
  <2>9. CASE F!Evaluate(t)
    BY <1>0, <1>2, <2>2, <2>9 DEF InHand, F!Evaluate
  <2>4. CASE F!Suppress(t) \/ F!Roll(t) \/ F!Publish(t)
    BY <1>0, <1>2, <2>2, <2>4 DEF InHand, F!Suppress, F!Roll, F!Publish, F!Return
  <2>5. CASE F!Pass(t)
    BY <1>0, <1>2, <2>2, <2>5 DEF InHand, F!Pass, F!Clock
  <2>6. CASE F!Done(t)
    BY <1>0, <1>2, <2>6 DEF F!Done, Busy
  <2>7. CASE F!Fail(t)
    <3>1. call'[t] = F!Again(t)
      BY <1>0, <2>7 DEF F!Fail
    <3>2. F!Again(t) = F!Idle \/ F!Again(t).at = call[t].at
      BY <2>2 DEF F!Again, InHand
    <3> QED BY <1>2, <2>2, <3>1, <3>2 DEF Busy
  <2> QED BY <2>3, <2>4, <2>5, <2>6, <2>7, <2>8, <2>9, <2>10
<1> QED BY <1>1, <1>2

\* One step's effect on what is remembered of an alarm.
LEMMA RememberedOf ==
  ASSUME FiringTypes, Remembered, NEW a \in F!Alarms,
         cooldowns'[a] = cooldowns[a], passed'[a] = passed[a], now' \in Nat, now' >= now,
         Busy("objects")' => Busy("objects") /\ call'["objects"].at = call["objects"].at
  PROVE  \/ cooldowns'[a] = passed'[a]
         \/ /\ cooldowns'[a] = F!None /\ passed'[a] # F!None
            /\ now' - passed'[a] >= Horizon
            /\ Busy("objects")' => call'["objects"].at - passed'[a] >= Horizon
<1>1. now \in Nat /\ Horizon \in Nat /\ passed[a] \in Nat \cup {F!None}
  BY FiringParameters DEF FiringTypes, F!FiringAssumption
<1> QED BY <1>1 DEF Remembered, F!None

LEMMA RememberedStep ==
  ASSUME FiringTypes, Remembered, [F!Next]_F!vars
  PROVE  Remembered'
<1> SUFFICES ASSUME NEW a \in F!Alarms
             PROVE  \/ cooldowns'[a] = passed'[a]
                    \/ /\ cooldowns'[a] = F!None /\ passed'[a] # F!None
                       /\ now' - passed'[a] >= Horizon
                       /\ Busy("objects")' => call'["objects"].at - passed'[a] >= Horizon
  BY DEF Remembered
<1>0. /\ now \in Nat /\ Horizon \in Nat /\ cooldowns[a] \in Nat \cup {F!None}
      /\ passed[a] \in Nat \cup {F!None}
      /\ DOMAIN cooldowns = F!Alarms /\ DOMAIN passed = F!Alarms
  BY FiringParameters DEF FiringTypes, F!FiringAssumption
<1>2. ASSUME NEW t \in F!Tasks, F!Receive(t)
      PROVE  \/ cooldowns'[a] = passed'[a]
             \/ /\ cooldowns'[a] = F!None /\ passed'[a] # F!None
                /\ now' - passed'[a] >= Horizon
                /\ Busy("objects")' => call'["objects"].at - passed'[a] >= Horizon
  <2>1. now' = now /\ passed' = passed
    BY <1>2 DEF F!Receive
  <2>2. CASE t = "objects"
    <3>1. call'["objects"].at = now
      BY <1>2, <2>2 DEF F!Receive, FiringTypes
    <3>2. \/ cooldowns'[a] = cooldowns[a]
          \/ cooldowns'[a] = F!None /\ now - cooldowns[a] >= Horizon
      BY <1>0, <1>2 DEF F!Receive, F!Pruned
    <3> QED BY <1>0, <2>1, <3>1, <3>2 DEF Remembered, F!None
  <2>3. CASE t # "objects"
    <3>1. cooldowns' = cooldowns /\ call'["objects"] = call["objects"]
      BY <1>2, <2>3 DEF F!Receive, FiringTypes, F!Tasks, F!Consumers
    <3> QED BY <2>1, <3>1 DEF Remembered, Busy
  <2> QED BY <2>2, <2>3
<1>3. ASSUME NEW t \in F!Tasks, F!Pass(t)
      PROVE  \/ cooldowns'[a] = passed'[a]
             \/ /\ cooldowns'[a] = F!None /\ passed'[a] # F!None
                /\ now' - passed'[a] >= Horizon
                /\ Busy("objects")' => call'["objects"].at - passed'[a] >= Horizon
  <2>1. CASE a = F!Current(t)
    BY <1>0, <1>3, <2>1 DEF F!Pass
  <2>2. CASE a # F!Current(t)
    <3>1. cooldowns'[a] = cooldowns[a] /\ passed'[a] = passed[a] /\ now' = now
      BY <1>0, <1>3, <2>2 DEF F!Pass
    <3>2. Busy("objects")' => Busy("objects") /\ call'["objects"].at = call["objects"].at
      BY <1>3, FrameTime
    <3> QED BY <1>0, <3>1, <3>2, RememberedOf
  <2> QED BY <2>1, <2>2
<1>4. CASE F!Crash
  BY <1>4 DEF F!Crash
<1>5. ASSUME NEW t \in F!Tasks,
             F!Handoff(t) \/ F!Evaluate(t) \/ F!Skip(t) \/ F!Suppress(t) \/ F!Look(t) \/ F!Roll(t)
             \/ F!Store(t) \/ F!Publish(t) \/ F!Count(t) \/ F!Done(t) \/ F!Fail(t)
      PROVE  \/ cooldowns'[a] = passed'[a]
             \/ /\ cooldowns'[a] = F!None /\ passed'[a] # F!None
                /\ now' - passed'[a] >= Horizon
                /\ Busy("objects")' => call'["objects"].at - passed'[a] >= Horizon
  <2>1. UNCHANGED <<cooldowns, passed, now>>
    BY <1>5 DEF F!Handoff, F!Evaluate, F!Skip, F!Suppress, F!Roll, F!Publish, F!Store,
       F!Count, F!Look, F!Done, F!Fail
  <2>2. Busy("objects")' => Busy("objects") /\ call'["objects"].at = call["objects"].at
    BY <1>5, FrameTime
  <2> QED BY <1>0, <2>1, <2>2, RememberedOf
<1>6. CASE (\E i \in DOMAIN incidents : F!Close(i)) \/ F!Tick \/ UNCHANGED F!vars
  <2>1. UNCHANGED <<cooldowns, passed, call>> /\ now' \in Nat /\ now' >= now
    BY <1>0, <1>6 DEF F!Close, F!Tick, F!vars
  <2> QED BY <2>1, RememberedOf DEF Busy
<1> QED BY <1>2, <1>3, <1>4, <1>5, <1>6 DEF F!Next

\* An alarm that passes again has cooled, by what the engine remembers and by what passed.
LEMMA PassHasCooled ==
  ASSUME FiringTypes, Remembered, NEW t \in F!Tasks, F!Pass(t), passed[F!Current(t)] # F!None
  PROVE  F!Clock(t) - passed[F!Current(t)] >= Cooldown
<1> DEFINE a == F!Current(t)
<1>1. Busy(t) /\ InHand(t) /\ a \in F!Alarms
  BY BusyWhen, CurrentIsTheTasks DEF F!Pass, F!At
<1>2. /\ now \in Nat /\ passed[a] \in Nat /\ Cooldown \in Nat /\ Horizon \in Nat
      /\ Cooldown <= Horizon /\ call[t].at \in Nat
  BY <1>1, FiringParameters DEF FiringTypes, F!FiringAssumption, F!None, InHand
<1>3. cooldowns[a] = F!None \/ F!Clock(t) - cooldowns[a] >= Cooldown
  BY <1>1, <1>2 DEF F!Pass, F!Cooling, F!Clock, FiringTypes, F!None
<1>4. CASE cooldowns[a] = passed[a]
  BY <1>3, <1>4
<1>5. CASE cooldowns[a] # passed[a]
  <2>1. /\ now - passed[a] >= Horizon
        /\ Busy("objects") => call["objects"].at - passed[a] >= Horizon
    BY <1>1, <1>5 DEF Remembered
  <2> QED BY <1>1, <1>2, <2>1 DEF F!Clock
<1> QED BY <1>4, <1>5

\* Only a crash and the check of a cooldown change what has passed.
LEMMA PassedChanges ==
  ASSUME [F!Next]_F!vars
  PROVE  \/ passed' = passed /\ started' = started
         \/ \E t \in F!Tasks : F!Pass(t)
         \/ F!Crash
BY DEF F!Next, F!vars, F!Receive, F!Handoff, F!Evaluate, F!Skip, F!Suppress, F!Roll, F!Publish,
   F!Store, F!Count, F!Look, F!Done, F!Fail, F!Close, F!Tick

\* ContextFiring.OncePerCooldown: whatever the tasks, the restarts, the pruning and the
\* messages handled twice, an alarm that has passed passes again only a cooldown later.
THEOREM PassesOncePerCooldown == F!Spec => OncePerCooldown
<1> DEFINE Inv == FiringTypes /\ Remembered
           Cooled == \A a \in F!Alarms :
                       {passed[a], passed'[a]} \cap {F!None} = {} /\ passed'[a] # passed[a]
                         => passed'[a] - passed[a] >= Cooldown
<1>1. F!Init => Inv
  BY TypesAtStart DEF F!Init, Remembered
<1>2. Inv /\ [F!Next]_F!vars => Inv'
  BY TypesStep, RememberedStep
<1>3. Inv /\ [F!Next]_F!vars => Cooled
  <2> SUFFICES ASSUME Inv, [F!Next]_F!vars, NEW a \in F!Alarms,
                      passed[a] # F!None, passed'[a] # F!None, passed'[a] # passed[a]
               PROVE  passed'[a] - passed[a] >= Cooldown
    OBVIOUS
  <2>1. ASSUME NEW t \in F!Tasks, F!Pass(t)
        PROVE  passed'[a] - passed[a] >= Cooldown
    <3>1. DOMAIN passed = F!Alarms
      BY DEF FiringTypes
    <3>2. a = F!Current(t) /\ passed'[a] = F!Clock(t)
      BY <2>1, <3>1 DEF F!Pass
    <3> QED BY <2>1, <3>2, PassHasCooled
  <2>2. ~F!Crash
    BY DEF F!Crash
  <2> QED BY <2>1, <2>2, PassedChanges
<1>4. Inv /\ [F!Next]_F!vars => [Cooled]_F!vars
  BY <1>3
<1> QED BY <1>1, <1>2, <1>4, PTL DEF F!Spec, OncePerCooldown, F!OncePerCooldown

-----------------------------------------------------------------------------
\* Whose signatures are whose.
Owns(t) == {a.sig : a \in F!AlarmsOf(t)}

LEMMA Owners ==
  /\ \A t \in F!Consumers : Owns(t) \cap F!RequestSignatures = {}
  /\ \A t, u \in F!Consumers : t # u => Owns(t) \cap Owns(u) = {}
  /\ \A t \in Requests : Owns(t) \subseteq F!RequestSignatures
<1>1. \A s \in Owns("objects") : s \notin F!SensorSignatures \cup F!RequestSignatures \cup {"Watchlist Hit"}
  BY FiringParameters DEF Owns, F!AlarmsOf, F!FiringAssumption
<1>2. \A s \in Owns("embeddings") : s = "Watchlist Hit"
  BY DEF Owns, F!AlarmsOf
<1>3. \A s \in Owns("sensors") : s \in F!SensorSignatures
  BY DEF Owns, F!AlarmsOf
<1>4. ASSUME NEW t \in Requests PROVE Owns(t) \subseteq F!RequestSignatures
  <2> SUFFICES ASSUME NEW a \in F!AlarmsOf(t) PROVE a.sig \in F!RequestSignatures
    BY DEF Owns
  <2>1. a \in [sig : F!AccessSignatures, scope : {"door"}] \/ a = F!Alarm("Person Fall", "camera")
    BY RequestsAreNoConsumers DEF F!AlarmsOf
  <2>2. CASE a \in [sig : F!AccessSignatures, scope : {"door"}]
    BY <2>2 DEF F!RequestSignatures
  <2>3. CASE a = F!Alarm("Person Fall", "camera")
    BY <2>3 DEF F!Alarm, F!RequestSignatures
  <2> QED BY <2>1, <2>2, <2>3
<1>5. /\ "Watchlist Hit" \notin F!SensorSignatures /\ "Watchlist Hit" \notin F!RequestSignatures
      /\ F!SensorSignatures \cap F!RequestSignatures = {}
  BY DEF F!SensorSignatures, F!RequestSignatures, F!AccessSignatures
<1> QED BY <1>1, <1>2, <1>3, <1>4, <1>5 DEF F!Consumers

RequestAlarms == {a \in F!Alarms : a.sig \in F!RequestSignatures}

\* A request's alarms differ in their signatures.
LEMMA RequestAlarmsDiffer ==
  ASSUME NEW a \in RequestAlarms, NEW b \in RequestAlarms, a.sig = b.sig
  PROVE  a = b
<1>1. ASSUME NEW c \in RequestAlarms
      PROVE  c = F!Alarm(c.sig, IF c.sig = "Person Fall" THEN "camera" ELSE "door")
  <2>1. PICK t \in F!Tasks : c \in F!AlarmsOf(t)
    BY DEF RequestAlarms, F!Alarms
  <2>2. c.sig \in Owns(t) /\ c.sig \in F!RequestSignatures
    BY <2>1 DEF Owns, RequestAlarms
  <2>3. t \in Requests
    BY <2>2, Owners DEF F!Tasks
  <2>4. c \in [sig : F!AccessSignatures, scope : {"door"}] \/ c = F!Alarm("Person Fall", "camera")
    BY <2>1, <2>3, RequestsAreNoConsumers DEF F!AlarmsOf
  <2>5. CASE c \in [sig : F!AccessSignatures, scope : {"door"}]
    <3>1. c = [sig |-> c.sig, scope |-> "door"] /\ c.sig # "Person Fall"
      BY <2>5 DEF F!AccessSignatures
    <3> QED BY <3>1 DEF F!Alarm
  <2>6. CASE c = F!Alarm("Person Fall", "camera")
    BY <2>6 DEF F!Alarm
  <2> QED BY <2>4, <2>5, <2>6
<1> QED BY <1>1

LEMMA CurrentIsOwned ==
  ASSUME FiringTypes, NEW t \in F!Tasks, call[t].pc \in Firing
  PROVE  /\ InHand(t) /\ F!Current(t) \in F!Alarms /\ F!Current(t).sig \in Owns(t)
         /\ t \in Requests => F!Current(t) \in RequestAlarms
         /\ F!Current(t) \in RequestAlarms => t \in Requests
<1>1. InHand(t) /\ call[t].pc # "idle" /\ call[t].todo # << >>
  BY BusyWhen DEF Firing, InHand
<1>2. F!Current(t) \in F!AlarmsOf(t) /\ F!Current(t) \in F!Alarms
  BY <1>1, CurrentIsTheTasks
<1>3. F!Current(t).sig \in Owns(t)
  BY <1>2 DEF Owns
<1> QED BY <1>1, <1>2, <1>3, Owners DEF RequestAlarms, F!Tasks

\* A task that is firing after a step was so before, or has passed or looked.
LEMMA StillFiring ==
  ASSUME FiringTypes, [F!Next]_F!vars, NEW t \in F!Tasks, call'[t].pc \in Firing
  PROVE  call'[t] = call[t] \/ F!Pass(t) \/ F!Look(t)
<1>0. DOMAIN call = F!Tasks
  BY DEF FiringTypes
<1>1. ASSUME NEW u \in F!Tasks,
             F!Receive(u) \/ F!Handoff(u) \/ F!Evaluate(u) \/ F!Skip(u) \/ F!Suppress(u) \/ F!Roll(u)
             \/ F!Store(u) \/ F!Publish(u) \/ F!Count(u) \/ F!Done(u) \/ F!Fail(u)
      PROVE  call'[t] = call[t]
  <2>1. CASE u # t
    BY <1>0, <1>1, <2>1 DEF F!Receive, F!Handoff, F!Evaluate, F!Skip, F!Suppress, F!Roll, F!Store,
       F!Publish, F!Count, F!Done, F!Fail, F!Return
  <2>2. CASE u = t
    <3>1. CASE F!Receive(t)
      BY <1>0, <3>1 DEF F!Receive, Firing
    <3>2. CASE F!Done(t)
      BY <1>0, <3>2 DEF F!Done, Firing, F!Idle
    <3>3. InHand(t) \/ F!Receive(t) \/ F!Done(t)
      BY <1>1, <2>2, BusyWhen DEF F!Handoff, F!Evaluate, F!Skip, F!Suppress, F!Roll, F!Store,
         F!Publish, F!Count, F!Fail, F!At
    <3>4. CASE InHand(t) /\ (F!Suppress(t) \/ F!Roll(t) \/ F!Publish(t))
      BY <1>0, <3>4 DEF F!Suppress, F!Roll, F!Publish, F!Return, Firing, InHand
    <3>5. CASE InHand(t) /\ (F!Skip(t) \/ F!Store(t) \/ F!Count(t))
      BY <1>0, <3>5 DEF F!Skip, F!Store, F!Count, Firing, InHand, F!At
    <3>6. CASE InHand(t) /\ F!Handoff(t)
      BY <1>0, <3>6 DEF F!Handoff, F!At, Firing, InHand
    <3>7. CASE InHand(t) /\ F!Evaluate(t)
      BY <1>0, <3>7 DEF F!Evaluate, F!At, Firing, InHand
    <3>8. CASE InHand(t) /\ F!Fail(t)
      BY <1>0, <3>8 DEF F!Fail, F!Again, Firing, InHand, F!Idle
    <3> QED BY <1>1, <2>2, <3>1, <3>2, <3>3, <3>4, <3>5, <3>6, <3>7, <3>8
  <2> QED BY <2>1, <2>2
<1>2. ASSUME NEW u \in F!Tasks, F!Pass(u) \/ F!Look(u), u # t
      PROVE  call'[t] = call[t]
  BY <1>0, <1>2, LookSets DEF F!Pass
<1>3. CASE F!Crash
  BY <1>3 DEF F!Crash, Firing, F!Idle
<1>4. CASE (\E i \in DOMAIN incidents : F!Close(i)) \/ F!Tick \/ UNCHANGED F!vars
  BY <1>4 DEF F!Close, F!Tick, F!vars
<1> QED BY <1>1, <1>2, <1>3, <1>4 DEF F!Next

-----------------------------------------------------------------------------
\* What a task that rolls up has found.
RollsItsOwn ==
  \A t \in F!Tasks :
    call[t].pc = "roll" =>
      /\ call[t].row \in DOMAIN incidents
      /\ incidents[call[t].row].sig = F!Current(t).sig

\* Rolling up sets an incident's last time, storing adds one, closing closes one.
LEMMA IncidentEffect ==
  ASSUME FiringTypes, RollsItsOwn, [F!Next]_F!vars
  PROVE  /\ \A j \in DOMAIN incidents :
              /\ j \in DOMAIN incidents'
              /\ incidents'[j].sig = incidents[j].sig /\ incidents'[j].made = incidents[j].made
              /\ incidents'[j].open => incidents[j].open
              /\ \/ incidents'[j].last = incidents[j].last
                 \/ \E t \in F!Tasks : /\ F!Roll(t) /\ call[t].row = j
                                      /\ incidents'[j].last = call[t].at
         /\ \A j \in DOMAIN incidents' \ DOMAIN incidents :
              /\ j = Len(incidents) + 1
              /\ \E t \in F!Tasks :
                   /\ F!Store(t)
                   /\ incidents'[j].sig = F!Current(t).sig
                   /\ incidents'[j].made = call[t].at /\ incidents'[j].last = call[t].at
<1>0. incidents \in Seq(Incidents) /\ DOMAIN incidents = 1 .. Len(incidents)
  BY DEF FiringTypes
<1>1. ASSUME NEW t \in F!Tasks, F!Roll(t)
      PROVE  /\ DOMAIN incidents' = DOMAIN incidents
             /\ \A j \in DOMAIN incidents :
                  /\ incidents'[j].sig = incidents[j].sig /\ incidents'[j].made = incidents[j].made
                  /\ incidents'[j].open = incidents[j].open
                  /\ \/ incidents'[j].last = incidents[j].last
                     \/ call[t].row = j /\ incidents'[j].last = call[t].at
  <2>1. \A j \in DOMAIN incidents : incidents[j] \in Incidents
    BY EachIncident
  <2> QED BY <1>0, <1>1, <2>1 DEF F!Roll, Incidents
<1>2. ASSUME NEW t \in F!Tasks, F!Store(t)
      PROVE  /\ \A j \in DOMAIN incidents : j \in DOMAIN incidents' /\ incidents'[j] = incidents[j]
             /\ \A j \in DOMAIN incidents' \ DOMAIN incidents :
                  /\ j = Len(incidents) + 1
                  /\ incidents'[j].sig = F!Current(t).sig
                  /\ incidents'[j].made = call[t].at /\ incidents'[j].last = call[t].at
  <2> DEFINE new == [sig |-> F!Current(t).sig, made |-> call[t].at, last |-> call[t].at,
                     count |-> 1, open |-> TRUE]
  <2>1. incidents' = Append(incidents, new)
    BY <1>2 DEF F!Store
  <2>2. new.sig = F!Current(t).sig /\ new.made = call[t].at /\ new.last = call[t].at
    OBVIOUS
  <2> HIDE DEF new
  <2> QED BY <1>0, <2>1, <2>2
<1>3. ASSUME NEW i \in DOMAIN incidents, F!Close(i)
      PROVE  /\ DOMAIN incidents' = DOMAIN incidents
             /\ \A j \in DOMAIN incidents :
                  /\ incidents'[j].sig = incidents[j].sig /\ incidents'[j].made = incidents[j].made
                  /\ incidents'[j].open => incidents[j].open
                  /\ incidents'[j].last = incidents[j].last
  <2>1. \A j \in DOMAIN incidents : incidents[j] \in Incidents
    BY EachIncident
  <2> QED BY <1>0, <1>3, <2>1 DEF F!Close, Incidents
<1>4. \/ incidents' = incidents
      \/ \E t \in F!Tasks : F!Roll(t) \/ F!Store(t)
      \/ \E i \in DOMAIN incidents : F!Close(i)
  BY DEF F!Next, F!vars, F!Receive, F!Handoff, F!Evaluate, F!Skip, F!Pass, F!Suppress, F!Look,
     F!Publish, F!Count, F!Done, F!Fail, F!Crash, F!Tick
<1>5. CASE incidents' = incidents
  BY <1>5
<1>6. CASE \E t \in F!Tasks : F!Roll(t)
  BY <1>1, <1>6
<1>7. CASE \E t \in F!Tasks : F!Store(t)
  BY <1>2, <1>7
<1>8. CASE \E i \in DOMAIN incidents : F!Close(i)
  BY <1>3, <1>8
<1> QED BY <1>4, <1>5, <1>6, <1>7, <1>8

LEMMA RollsItsOwnStep ==
  ASSUME FiringTypes, RollsItsOwn, [F!Next]_F!vars
  PROVE  RollsItsOwn'
<1> SUFFICES ASSUME NEW t \in F!Tasks, call'[t].pc = "roll"
             PROVE  /\ call'[t].row \in DOMAIN incidents'
                    /\ incidents'[call'[t].row].sig = F!Current(t)'.sig
  BY DEF RollsItsOwn
<1>1. CASE call'[t] = call[t]
  BY <1>1, IncidentEffect DEF RollsItsOwn, F!Current
<1>2. CASE F!Pass(t)
  <2>1. InHand(t) /\ DOMAIN call = F!Tasks
    BY <1>2, BusyWhen DEF F!Pass, F!At, FiringTypes
  <2> QED BY <1>2, <2>1 DEF F!Pass, InHand
<1>3. CASE F!Look(t)
  <2>1. incidents' = incidents
    BY <1>3 DEF F!Look
  <2> QED BY <1>3, <2>1, LookSets DEF F!Matches, F!Current
<1> QED BY <1>1, <1>2, <1>3, StillFiring DEF Firing

-----------------------------------------------------------------------------
\* A consumer handles one message at a time: while it fires, no incident of its signatures
\* is later than the time it fires at.  A frame has its time from the start.
FireTime(t) == IF t = "objects" THEN call[t].pc # "idle" ELSE call[t].pc \in Firing
OfRequests(i) == incidents[i].sig \in F!RequestSignatures

NoneLater ==
  /\ \A i \in DOMAIN incidents : incidents[i].last <= now
  /\ \A i \in DOMAIN incidents : ~OfRequests(i) => incidents[i].made <= incidents[i].last
  /\ \A t \in F!Consumers : FireTime(t) =>
       \A i \in DOMAIN incidents : incidents[i].sig \in Owns(t) => incidents[i].last <= call[t].at
\* About to store an incident, it has seen that the open ones are out of the window.
NoneWithin ==
  \A t \in F!Consumers : call[t].pc = "store" =>
    \A i \in DOMAIN incidents :
      incidents[i].open /\ incidents[i].sig = F!Current(t).sig
        => incidents[i].last < call[t].at - Window
\* So open incidents of one signature are made more than the window apart.
ConsumedApart ==
  \A i, j \in DOMAIN incidents :
    /\ i < j /\ incidents[i].sig = incidents[j].sig /\ incidents[i].open /\ incidents[j].open
    /\ ~OfRequests(i)
    => incidents[j].made - incidents[i].made > Window

LEMMA FireTimes ==
  ASSUME FiringTypes, [F!Next]_F!vars, NEW t \in F!Consumers, FireTime(t)'
  PROVE  \/ FireTime(t) /\ call'[t].at = call[t].at
         \/ call'[t].at = now /\ now' = now /\ incidents' = incidents
<1>0. t \in F!Tasks /\ DOMAIN call = F!Tasks
  BY DEF F!Tasks, FiringTypes
<1>1. CASE t = "objects"
  <2>0. Busy(t)'
    BY <1>1 DEF FireTime, Busy, F!Idle
  <2>1. ASSUME Busy(t), call'[t].at = call[t].at
        PROVE  FireTime(t) /\ call'[t].at = call[t].at
    BY <1>0, <1>1, <2>1 DEF FireTime, FiringTypes, InHand, Firing
  <2>2. ASSUME NEW u \in F!Tasks, F!Receive(u)
        PROVE  \/ Busy(t) /\ call'[t].at = call[t].at
               \/ call'[t].at = now /\ now' = now /\ incidents' = incidents
    BY <1>0, <1>1, <2>0, <2>2 DEF F!Receive, Busy
  <2>3. ASSUME NEW u \in F!Tasks,
               \/ F!Handoff(u) \/ F!Evaluate(u) \/ F!Skip(u) \/ F!Pass(u) \/ F!Suppress(u)
               \/ F!Look(u) \/ F!Roll(u) \/ F!Store(u) \/ F!Publish(u) \/ F!Count(u) \/ F!Done(u)
               \/ F!Fail(u)
        PROVE  Busy(t) /\ call'[t].at = call[t].at
    BY <1>1, <2>0, <2>3, FrameTime
  <2>4. CASE F!Crash
    BY <1>0, <2>0, <2>4 DEF F!Crash, Busy
  <2>5. CASE (\E i \in DOMAIN incidents : F!Close(i)) \/ F!Tick \/ UNCHANGED F!vars
    <3>1. call' = call
      BY <2>5 DEF F!Close, F!Tick, F!vars
    <3> QED BY <2>0, <2>1, <3>1 DEF Busy
  <2> QED BY <2>0, <2>1, <2>2, <2>3, <2>4, <2>5 DEF F!Next, Busy
<1>2. CASE t # "objects"
  <2>1. call'[t].pc \in Firing
    BY <1>2 DEF FireTime
  <2>2. CASE call'[t] = call[t]
    BY <1>2, <2>1, <2>2 DEF FireTime
  <2>3. CASE F!Pass(t)
    <3>1. InHand(t)
      BY <1>0, <2>3, BusyWhen DEF F!Pass, F!At
    <3> QED BY <1>0, <1>2, <2>3, <3>1 DEF F!Pass, F!Clock, InHand
  <2>4. CASE F!Look(t)
    BY <1>0, <1>2, <2>4, LookSets DEF FireTime, Firing
  <2> QED BY <1>0, <2>1, <2>2, <2>3, <2>4, StillFiring
<1> QED BY <1>1, <1>2

\* A task that changes an incident fires at its own time.
LEMMA WhoChanges ==
  ASSUME FiringTypes, NEW t \in F!Tasks, F!Roll(t) \/ F!Store(t)
  PROVE  /\ call[t].pc \in Firing /\ InHand(t) /\ call[t].at <= now /\ call[t].at \in Nat
         /\ F!Current(t).sig \in Owns(t)
         /\ t \in F!Consumers => FireTime(t)
<1>1. call[t].pc \in Firing
  BY DEF F!Roll, F!Store, F!At, Firing
<1> QED BY <1>1, CurrentIsOwned DEF InHand, FireTime, Firing

LEMMA NoneLaterStep ==
  ASSUME FiringTypes, FiringTypes', RollsItsOwn, NoneLater, [F!Next]_F!vars
  PROVE  NoneLater'
<1>0. /\ now \in Nat /\ now' \in Nat /\ now' >= now
      /\ \A i \in DOMAIN incidents : incidents[i].last \in Nat /\ incidents[i].made \in Nat
      /\ \A i \in DOMAIN incidents' : incidents'[i].last \in Nat /\ incidents'[i].made \in Nat
  <2>1. now' = now \/ F!Tick
    BY DEF F!Next, F!vars, F!Receive, F!Handoff, F!Evaluate, F!Skip, F!Pass, F!Suppress,
       F!Look, F!Roll, F!Store, F!Publish, F!Count, F!Done, F!Fail, F!Crash, F!Close
  <2>2. now \in Nat /\ now' \in Nat /\ now' >= now
    BY <2>1 DEF FiringTypes, F!Tick
  <2>3. \A i \in DOMAIN incidents : incidents[i].last \in Nat /\ incidents[i].made \in Nat
    BY EachIncident DEF Incidents
  <2>4. ASSUME NEW i \in DOMAIN incidents'
        PROVE  incidents'[i].last \in Nat /\ incidents'[i].made \in Nat
    <3>1. incidents' \in Seq(Incidents)
      BY DEF FiringTypes
    <3>2. incidents'[i] \in Incidents
      BY <3>1
    <3> QED BY <3>2 DEF Incidents
  <2> QED BY <2>2, <2>3, <2>4
<1>1. ASSUME NEW i \in DOMAIN incidents'
      PROVE  incidents'[i].last <= now'
  BY <1>0, IncidentEffect, WhoChanges DEF NoneLater, InHand
<1>2. ASSUME NEW i \in DOMAIN incidents', incidents'[i].sig \notin F!RequestSignatures
      PROVE  incidents'[i].made <= incidents'[i].last
  <2>1. CASE i \notin DOMAIN incidents
    BY <1>0, <2>1, IncidentEffect
  <2>2. CASE i \in DOMAIN incidents /\ incidents'[i].last = incidents[i].last
    BY <1>2, <2>2, IncidentEffect DEF NoneLater, OfRequests
  <2>3. ASSUME i \in DOMAIN incidents, NEW t \in F!Tasks, F!Roll(t), call[t].row = i,
               incidents'[i].last = call[t].at
        PROVE  incidents'[i].made <= incidents'[i].last
    <3>1. incidents[i].sig = F!Current(t).sig /\ incidents[i].sig \in Owns(t)
      BY <2>3, WhoChanges DEF RollsItsOwn, F!Roll, F!At
    <3>2. incidents'[i].sig = incidents[i].sig /\ incidents'[i].made = incidents[i].made
      BY <2>3, IncidentEffect
    <3>3. t \in F!Consumers
      BY <1>2, <3>1, <3>2, Owners DEF F!Tasks
    <3>4. incidents[i].made <= incidents[i].last /\ incidents[i].last <= call[t].at
      BY <1>2, <2>3, <3>1, <3>2, <3>3, WhoChanges DEF NoneLater, OfRequests
    <3>5. call[t].at \in Nat
      BY <2>3, WhoChanges
    <3> QED BY <1>0, <2>3, <3>2, <3>4, <3>5
  <2> QED BY <2>1, <2>2, <2>3, IncidentEffect
<1>3. ASSUME NEW t \in F!Consumers, FireTime(t)',
             NEW i \in DOMAIN incidents', incidents'[i].sig \in Owns(t)
      PROVE  incidents'[i].last <= call'[t].at
  <2>1. CASE call'[t].at = now /\ now' = now /\ incidents' = incidents
    BY <2>1 DEF NoneLater
  <2>2. CASE FireTime(t) /\ call'[t].at = call[t].at
    <3>1. ASSUME NEW u \in F!Tasks, F!Current(u).sig = incidents'[i].sig, F!Roll(u) \/ F!Store(u)
          PROVE  u = t
      BY <1>3, <3>1, WhoChanges, Owners DEF F!Tasks
    <3>2. CASE i \notin DOMAIN incidents
      <4>1. PICK u \in F!Tasks : /\ F!Store(u) /\ incidents'[i].sig = F!Current(u).sig
                                 /\ incidents'[i].last = call[u].at
        BY <3>2, IncidentEffect
      <4> QED BY <1>0, <2>2, <3>1, <4>1
    <3>3. CASE i \in DOMAIN incidents /\ incidents'[i].last = incidents[i].last
      BY <1>3, <2>2, <3>3, IncidentEffect DEF NoneLater
    <3>4. ASSUME i \in DOMAIN incidents, NEW u \in F!Tasks, F!Roll(u), call[u].row = i,
                 incidents'[i].last = call[u].at
          PROVE  incidents'[i].last <= call'[t].at
      <4>1. incidents'[i].sig = F!Current(u).sig
        <5>1. incidents[i].sig = F!Current(u).sig
          BY <3>4 DEF RollsItsOwn, F!Roll, F!At
        <5> QED BY <3>4, <5>1, IncidentEffect
      <4> QED BY <1>0, <2>2, <3>1, <3>4, <4>1
    <3> QED BY <3>2, <3>3, <3>4, IncidentEffect
  <2> QED BY <1>3, <2>1, <2>2, FireTimes
<1> QED BY <1>1, <1>2, <1>3 DEF NoneLater, OfRequests

LEMMA NoneWithinStep ==
  ASSUME FiringTypes, RollsItsOwn, NoneWithin, [F!Next]_F!vars
  PROVE  NoneWithin'
<1> SUFFICES ASSUME NEW t \in F!Consumers, call'[t].pc = "store",
                    NEW i \in DOMAIN incidents',
                    incidents'[i].open, incidents'[i].sig = F!Current(t)'.sig
             PROVE  incidents'[i].last < call'[t].at - Window
  BY DEF NoneWithin
<1>0. t \in F!Tasks /\ Window \in Nat
  BY FiringParameters DEF F!Tasks, F!FiringAssumption
<1>1. CASE call'[t] = call[t]
  <2>1. F!Current(t)' = F!Current(t) /\ F!Current(t).sig \in Owns(t)
    BY <1>0, <1>1, CurrentIsOwned DEF F!Current, Firing
  <2>2. ASSUME NEW u \in F!Tasks, F!Roll(u) \/ F!Store(u) PROVE F!Current(u).sig # F!Current(t).sig
    <3>1. u # t
      <4>1. ASSUME u = t PROVE FALSE
        <5>1. InHand(t) /\ DOMAIN call = F!Tasks
          BY <1>0, <2>2, <4>1, WhoChanges DEF FiringTypes
        <5> QED BY <1>0, <1>1, <2>2, <4>1, <5>1 DEF F!Roll, F!Store, F!Return, InHand, F!At
      <4> QED BY <4>1
    <3> QED BY <2>1, <2>2, <3>1, WhoChanges, Owners DEF F!Tasks
  <2>3. i \in DOMAIN incidents
    BY <2>1, <2>2, IncidentEffect
  <2>4. /\ incidents[i].open /\ incidents[i].sig = F!Current(t).sig
        /\ incidents'[i].sig = incidents[i].sig
    BY <2>1, <2>3, IncidentEffect
  <2>5. incidents'[i].last = incidents[i].last
    <3>1. ASSUME NEW u \in F!Tasks, F!Roll(u), call[u].row = i PROVE FALSE
      BY <2>2, <2>4, <3>1 DEF RollsItsOwn, F!Roll, F!At
    <3> QED BY <2>3, <3>1, IncidentEffect
  <2> QED BY <1>1, <2>3, <2>4, <2>5 DEF NoneWithin
<1>2. CASE F!Pass(t)
  <2>1. InHand(t) /\ DOMAIN call = F!Tasks
    BY <1>0, <1>2, BusyWhen DEF F!Pass, F!At, FiringTypes
  <2> QED BY <1>0, <1>2, <2>1 DEF F!Pass, InHand
<1>3. CASE F!Look(t)
  <2>1. F!Matches(t) = {} /\ call'[t].at = call[t].at /\ F!Current(t)' = F!Current(t)
        /\ incidents' = incidents /\ InHand(t)
    BY <1>0, <1>3, LookSets, BusyWhen DEF F!Look, F!Current
  <2>2. incidents[i].last \in Nat /\ call[t].at \in Nat
    BY <2>1, EachIncident DEF Incidents, InHand
  <2> QED BY <1>0, <2>1, <2>2 DEF F!Matches
<1> QED BY <1>0, <1>1, <1>2, <1>3, StillFiring DEF Firing

LEMMA ConsumedApartStep ==
  ASSUME FiringTypes, RollsItsOwn, NoneLater, NoneWithin, ConsumedApart, [F!Next]_F!vars
  PROVE  ConsumedApart'
<1> SUFFICES ASSUME NEW i \in DOMAIN incidents', NEW j \in DOMAIN incidents', i < j,
                    incidents'[i].sig = incidents'[j].sig, incidents'[i].open, incidents'[j].open,
                    incidents'[i].sig \notin F!RequestSignatures
             PROVE  incidents'[j].made - incidents'[i].made > Window
  BY DEF ConsumedApart, OfRequests
<1>0. Window \in Nat /\ Len(incidents) \in Nat /\ DOMAIN incidents = 1 .. Len(incidents)
  <2>1. Window \in Nat
    BY FiringParameters DEF F!FiringAssumption
  <2>2. Len(incidents) \in Nat /\ DOMAIN incidents = 1 .. Len(incidents)
    BY DEF FiringTypes
  <2> QED BY <2>1, <2>2
<1>1. i \in DOMAIN incidents
  <2>1. ASSUME i \notin DOMAIN incidents PROVE FALSE
    <3>1. i = Len(incidents) + 1 /\ (j \in DOMAIN incidents \/ j = Len(incidents) + 1)
      BY <2>1, IncidentEffect
    <3> QED BY <1>0, <3>1
  <2> QED BY <2>1
<1>2. /\ incidents[i].open /\ incidents'[i].sig = incidents[i].sig
      /\ incidents'[i].made = incidents[i].made
  BY <1>1, IncidentEffect
<1>3. CASE j \in DOMAIN incidents
  BY <1>1, <1>2, <1>3, IncidentEffect DEF ConsumedApart, OfRequests
<1>4. CASE j \notin DOMAIN incidents
  <2>1. PICK t \in F!Tasks : /\ F!Store(t) /\ incidents'[j].sig = F!Current(t).sig
                             /\ incidents'[j].made = call[t].at
    BY <1>4, IncidentEffect
  <2>2. t \in F!Consumers /\ call[t].at \in Nat
    BY <1>2, <2>1, WhoChanges, Owners DEF F!Tasks
  <2>3. incidents[i].last < call[t].at - Window
    BY <1>1, <1>2, <2>1, <2>2 DEF NoneWithin, F!Store, F!At
  <2>4. incidents[i].made <= incidents[i].last
    BY <1>1, <1>2 DEF NoneLater, OfRequests
  <2>5. incidents[i].made \in Nat /\ incidents[i].last \in Nat
    BY <1>1, EachIncident DEF Incidents
  <2> QED BY <1>0, <1>2, <2>1, <2>2, <2>3, <2>4, <2>5
<1> QED BY <1>3, <1>4

-----------------------------------------------------------------------------
\* Requests fire beside each other.  Since the service started, the times of an alarm's
\* incidents, and of the requests that are about to store one, are a cooldown apart, and
\* none is after the alarm last passed.
Apart(x, y) == x - y >= Cooldown \/ y - x >= Cooldown
Since(a) == {i \in DOMAIN incidents : i > started /\ incidents[i].sig = a.sig}
Under(a) == {t \in Requests : call[t].pc \in Firing /\ F!Current(t) = a}

NoneAfter(a) ==
  /\ \A i \in Since(a) : passed[a] # F!None /\ incidents[i].made <= passed[a]
  /\ \A t \in Under(a) : passed[a] # F!None /\ call[t].at <= passed[a]
AllApart(a) ==
  /\ \A i, j \in Since(a) : i # j => Apart(incidents[i].made, incidents[j].made)
  /\ \A i \in Since(a), t \in Under(a) : Apart(incidents[i].made, call[t].at)
  /\ \A t, u \in Under(a) : t # u => Apart(call[t].at, call[u].at)
RequestsApart ==
  /\ started <= Len(incidents)
  /\ \A a \in RequestAlarms : NoneAfter(a) /\ AllApart(a)

\* One task passes in a step.
LEMMA OnePasses ==
  ASSUME FiringTypes, NEW t \in F!Tasks, NEW u \in F!Tasks, F!Pass(t), F!Pass(u)
  PROVE  u = t
<1>1. InHand(u) /\ call[u].pc = "next" /\ DOMAIN call = F!Tasks
  BY BusyWhen DEF F!Pass, F!At, FiringTypes
<1>2. call'[u].pc # "next"
  BY <1>1 DEF F!Pass, InHand
<1>3. u # t => call'[u] = call[u]
  BY <1>1 DEF F!Pass
<1> QED BY <1>1, <1>2, <1>3

LEMMA UnderEffect ==
  ASSUME FiringTypes, [F!Next]_F!vars, NEW a, NEW t \in Under(a)'
  PROVE  \/ t \in Under(a) /\ call'[t].at = call[t].at
         \/ F!Pass(t) /\ F!Current(t) = a /\ call'[t].at = now
<1>0. t \in Requests /\ t \in F!Tasks /\ call'[t].pc \in Firing /\ F!Current(t)' = a /\ t # "objects"
  BY RequestsAreNoConsumers DEF Under, F!Tasks
<1>1. CASE call'[t] = call[t]
  BY <1>0, <1>1 DEF Under, F!Current
<1>2. CASE F!Look(t)
  BY <1>0, <1>2, LookSets DEF Under, F!Current, Firing
<1>3. CASE F!Pass(t)
  <2>1. InHand(t) /\ DOMAIN call = F!Tasks
    BY <1>0, <1>3, BusyWhen DEF F!Pass, F!At, FiringTypes
  <2> QED BY <1>0, <1>3, <2>1 DEF F!Pass, F!Clock, F!Current, InHand
<1> QED BY <1>0, <1>1, <1>2, <1>3, StillFiring

LEMMA SinceEffect ==
  ASSUME FiringTypes, RollsItsOwn, [F!Next]_F!vars, started' = started,
         NEW a \in RequestAlarms, NEW i \in Since(a)'
  PROVE  \/ i \in Since(a) /\ incidents'[i].made = incidents[i].made
         \/ /\ i = Len(incidents) + 1
            /\ \E t \in Under(a) : /\ incidents'[i].made = call[t].at
                                   /\ t \notin Under(a)'
<1>0. i \in DOMAIN incidents' /\ i > started /\ incidents'[i].sig = a.sig
  BY DEF Since
<1>1. CASE i \in DOMAIN incidents
  BY <1>0, <1>1, IncidentEffect DEF Since
<1>2. CASE i \notin DOMAIN incidents
  <2>1. PICK t \in F!Tasks : /\ F!Store(t) /\ incidents'[i].sig = F!Current(t).sig
                             /\ incidents'[i].made = call[t].at
    BY <1>0, <1>2, IncidentEffect
  <2>2. /\ call[t].pc \in Firing /\ F!Current(t) \in F!Alarms /\ InHand(t)
        /\ F!Current(t) \in RequestAlarms => t \in Requests
    BY <2>1, CurrentIsOwned DEF F!Store, F!At, Firing
  <2>3. F!Current(t) \in RequestAlarms
    BY <1>0, <2>1, <2>2 DEF RequestAlarms
  <2>4. F!Current(t) = a /\ t \in Requests
    BY <1>0, <2>1, <2>2, <2>3, RequestAlarmsDiffer
  <2>5. call'[t].pc = "publish"
    BY <2>1, <2>2 DEF F!Store, FiringTypes, InHand
  <2> QED BY <1>0, <1>2, <2>1, <2>2, <2>4, <2>5, IncidentEffect DEF Under, Firing
<1> QED BY <1>1, <1>2

LEMMA TheirTimes ==
  ASSUME FiringTypes, NEW a \in RequestAlarms
  PROVE  /\ \A i \in Since(a) : incidents[i].made \in Nat /\ i <= Len(incidents)
         /\ \A t \in Under(a) : call[t].at \in Nat
         /\ passed[a] \in Nat \cup {F!None} /\ Len(incidents) \in Nat
<1>1. \A i \in Since(a) : incidents[i].made \in Nat /\ i <= Len(incidents)
  BY EachIncident DEF Since, Incidents
<1>2. \A t \in Under(a) : call[t].at \in Nat
  BY CurrentIsOwned DEF Under, InHand, F!Tasks
<1>3. passed[a] \in Nat \cup {F!None} /\ Len(incidents) \in Nat
  BY DEF FiringTypes, RequestAlarms
<1> QED BY <1>1, <1>2, <1>3

LEMMA LenGrows ==
  ASSUME FiringTypes, RollsItsOwn, [F!Next]_F!vars, FiringTypes'
  PROVE  Len(incidents) <= Len(incidents')
<1>1. Len(incidents) \in Nat /\ Len(incidents') \in Nat
  BY DEF FiringTypes
<1>2. DOMAIN incidents = 1 .. Len(incidents) /\ DOMAIN incidents' = 1 .. Len(incidents')
  BY DEF FiringTypes
<1>3. CASE Len(incidents) = 0
  BY <1>1, <1>3
<1>4. CASE Len(incidents) # 0
  <2>1. Len(incidents) \in DOMAIN incidents
    BY <1>1, <1>2, <1>4
  <2> QED BY <1>1, <1>2, <2>1, IncidentEffect
<1> QED BY <1>3, <1>4

LEMMA RequestsApartStep ==
  ASSUME FiringTypes, FiringTypes', Remembered, RollsItsOwn, RequestsApart, [F!Next]_F!vars
  PROVE  RequestsApart'
<1>0. /\ Cooldown \in Nat /\ Len(incidents) \in Nat /\ started \in Nat
      /\ DOMAIN incidents = 1 .. Len(incidents)
  <2>1. Cooldown \in Nat
    BY FiringParameters DEF F!FiringAssumption
  <2>2. Len(incidents) \in Nat /\ started \in Nat /\ DOMAIN incidents = 1 .. Len(incidents)
    BY DEF FiringTypes
  <2> QED BY <2>1, <2>2
<1>1. CASE F!Crash
  <2>1. incidents' = incidents /\ started' = Len(incidents) /\ \A t \in Requests : call'[t] = F!Idle
    BY <1>1 DEF F!Crash, F!Tasks
  <2>2. \A a : Since(a)' = {} /\ Under(a)' = {}
    BY <1>0, <2>1 DEF Since, Under, F!Idle, Firing
  <2> QED BY <1>0, <2>1, <2>2 DEF RequestsApart, NoneAfter, AllApart
<1>2. ASSUME NEW t \in F!Tasks, F!Pass(t) PROVE RequestsApart'
  <2>1. UNCHANGED <<incidents, started, now>> /\ now \in Nat
    BY <1>2 DEF F!Pass, FiringTypes
  <2>2. ASSUME NEW a \in RequestAlarms PROVE NoneAfter(a)' /\ AllApart(a)'
    <3>1. Since(a)' = Since(a)
      BY <2>1 DEF Since
    <3>2. CASE a # F!Current(t)
      <4>1. passed'[a] = passed[a]
        BY <1>2, <3>2 DEF F!Pass, FiringTypes, RequestAlarms
      <4>2. \A u \in Under(a)' : u \in Under(a) /\ call'[u].at = call[u].at
        BY <1>2, <3>2, OnePasses, UnderEffect DEF Under, F!Tasks
      <4> QED BY <2>1, <2>2, <3>1, <4>1, <4>2 DEF RequestsApart, NoneAfter, AllApart, Apart
    <3>3. CASE a = F!Current(t)
      <4>1. call[t].pc # "idle" /\ call[t].todo # << >> /\ DOMAIN passed = F!Alarms
        BY <1>2 DEF F!Pass, F!At, FiringTypes
      <4>2. t \in Requests
        <5>1. F!Current(t) \in F!AlarmsOf(t)
          BY <4>1, CurrentIsTheTasks
        <5> QED BY <3>3, <5>1, Owners DEF Owns, RequestAlarms, F!Tasks
      <4>3. F!Clock(t) = now /\ passed'[a] = now
        BY <1>2, <3>3, <4>1, <4>2, RequestsAreNoConsumers DEF F!Clock, F!Pass, RequestAlarms
      <4>4. passed[a] # F!None => now - passed[a] >= Cooldown
        BY <1>2, <3>3, <4>3, PassHasCooled
      <4>5. \A u \in Under(a)' : \/ u \in Under(a) /\ call'[u].at = call[u].at
                                 \/ u = t /\ call'[u].at = now
        BY <1>2, OnePasses, UnderEffect DEF Under, F!Tasks
      <4>6. \A i \in Since(a) : passed[a] # F!None /\ incidents[i].made <= passed[a]
        BY <2>2 DEF RequestsApart, NoneAfter
      <4>7. \A u \in Under(a) : passed[a] # F!None /\ call[u].at <= passed[a]
        BY <2>2 DEF RequestsApart, NoneAfter
      <4>8. /\ \A i \in Since(a) : incidents[i].made <= now /\ now - incidents[i].made >= Cooldown
            /\ \A u \in Under(a) : call[u].at <= now /\ now - call[u].at >= Cooldown
        BY <1>0, <2>1, <2>2, <4>4, <4>6, <4>7, TheirTimes DEF F!None
      <4>9. NoneAfter(a)'
        BY <2>1, <3>1, <4>3, <4>5, <4>8 DEF NoneAfter, F!None
      <4>10. AllApart(a)'
        BY <2>1, <2>2, <3>1, <4>5, <4>8 DEF RequestsApart, AllApart, Apart
      <4> QED BY <4>9, <4>10
    <3> QED BY <3>2, <3>3
  <2> QED BY <2>1, <2>2 DEF RequestsApart
<1>3. CASE ~F!Crash /\ \A t \in F!Tasks : ~F!Pass(t)
  <2>1. passed' = passed /\ started' = started
    BY <1>3, PassedChanges
  <2>2. started' <= Len(incidents')
    BY <1>0, <2>1, LenGrows DEF RequestsApart
  <2>3. ASSUME NEW a \in RequestAlarms PROVE NoneAfter(a)' /\ AllApart(a)'
    <3>1. \A u \in Under(a)' : u \in Under(a) /\ call'[u].at = call[u].at
      BY <1>3, UnderEffect DEF Under, F!Tasks
    <3>2. \A i \in Since(a)' :
            \/ i \in Since(a) /\ incidents'[i].made = incidents[i].made
            \/ /\ i = Len(incidents) + 1
               /\ \E t \in Under(a) : /\ incidents'[i].made = call[t].at
                                      /\ t \notin Under(a)'
      BY <2>1, SinceEffect
    <3>3. NoneAfter(a) /\ AllApart(a)
      BY DEF RequestsApart
    <3>4. NoneAfter(a)'
      BY <2>1, <3>1, <3>2, <3>3 DEF NoneAfter
    <3>5. \A i, j \in Since(a)' : i # j => Apart(incidents'[i].made, incidents'[j].made)
      BY <1>0, <3>2, <3>3 DEF AllApart, Apart
    <3>6. \A i \in Since(a)', t \in Under(a)' : Apart(incidents'[i].made, call'[t].at)
      BY <3>1, <3>2, <3>3 DEF AllApart
    <3>7. \A t, u \in Under(a)' : t # u => Apart(call'[t].at, call'[u].at)
      BY <3>1, <3>3 DEF AllApart
    <3> QED BY <3>4, <3>5, <3>6, <3>7 DEF AllApart, Apart
  <2> QED BY <2>2, <2>3 DEF RequestsApart
<1> QED BY <1>1, <1>2, <1>3

FiringInv ==
  /\ FiringTypes /\ Remembered
  /\ RollsItsOwn /\ NoneLater /\ NoneWithin /\ ConsumedApart
  /\ RequestsApart

LEMMA FiringInvAtStart == F!Init => FiringInv
<1> SUFFICES ASSUME F!Init PROVE FiringInv
  OBVIOUS
<1>1. FiringTypes /\ Remembered
  BY TypesAtStart DEF F!Init, Remembered
<1>2. /\ DOMAIN incidents = {} /\ Len(incidents) = 0 /\ started = 0
      /\ \A t \in F!Tasks : call[t].pc \notin Firing /\ call[t].pc = "idle"
  BY DEF F!Init, F!Idle, Firing
<1>3. RollsItsOwn /\ NoneLater /\ NoneWithin /\ ConsumedApart
  BY <1>2 DEF RollsItsOwn, NoneLater, NoneWithin, ConsumedApart, FireTime, Firing, F!Tasks
<1>4. RequestsApart
  BY <1>2 DEF RequestsApart, NoneAfter, AllApart, Since, Under, F!Tasks
<1> QED BY <1>1, <1>3, <1>4 DEF FiringInv

\* ContextFiring.DuplicatesAreApart: however many alarms, sensors, watched entries and
\* requests there are, and however their steps interleave, fail and are handled again, open
\* incidents of one signature are apart by the cooldown or by more than the dedup window.
THEOREM OpenIncidentsAreApart == F!Spec => []DuplicatesAreApart
<1>1. F!Init => FiringInv
  BY FiringInvAtStart
<1>2. FiringInv /\ [F!Next]_F!vars => FiringInv'
  <2> SUFFICES ASSUME FiringInv, [F!Next]_F!vars PROVE FiringInv'
    OBVIOUS
  <2>1. FiringTypes'
    BY TypesStep DEF FiringInv
  <2> QED BY <2>1, RememberedStep, RollsItsOwnStep, NoneLaterStep, NoneWithinStep,
             ConsumedApartStep, RequestsApartStep DEF FiringInv
<1>3. FiringInv => DuplicatesAreApart
  <2> SUFFICES ASSUME FiringInv, NEW i \in DOMAIN incidents, NEW j \in DOMAIN incidents, i # j,
                      incidents[i].sig = incidents[j].sig, incidents[i].open, incidents[j].open,
                      incidents[i].sig \in F!RequestSignatures => i > started /\ j > started
               PROVE  LET gap == incidents[j].made - incidents[i].made
                      IN  gap >= Cooldown \/ -gap >= Cooldown \/ gap > Window \/ -gap > Window
    BY DEF DuplicatesAreApart, F!DuplicatesAreApart
  <2>1. /\ incidents[i] \in Incidents /\ incidents[j] \in Incidents /\ i \in Nat /\ j \in Nat
        /\ incidents[i].made \in Nat /\ incidents[j].made \in Nat
    BY EachIncident DEF FiringInv, Incidents
  <2>2. Cooldown \in Nat /\ Window \in Nat
    BY FiringParameters DEF F!FiringAssumption
  <2>3. CASE incidents[i].sig \notin F!RequestSignatures
    <3>1. incidents[j].made - incidents[i].made > Window \/ incidents[i].made - incidents[j].made > Window
      BY <2>1, <2>3 DEF FiringInv, ConsumedApart, OfRequests
    <3> QED BY <2>1, <2>2, <3>1
  <2>4. CASE incidents[i].sig \in F!RequestSignatures
    <3>1. PICK a \in RequestAlarms : a.sig = incidents[i].sig
      BY <2>1, <2>4 DEF Incidents, Signatures, RequestAlarms
    <3>2. i \in Since(a) /\ j \in Since(a)
      BY <2>4, <3>1 DEF Since
    <3>3. Apart(incidents[i].made, incidents[j].made)
      BY <3>2 DEF FiringInv, RequestsApart, AllApart
    <3> QED BY <2>1, <2>2, <3>3 DEF Apart
  <2> QED BY <2>3, <2>4
<1> QED BY <1>1, <1>2, <1>3, PTL DEF F!Spec

-----------------------------------------------------------------------------
\* There is a first among naturals.
LEMMA FirstIn ==
  ASSUME NEW T, T \subseteq Nat, T # {}
  PROVE  \E j \in T : \A k \in T : j <= k
<1> DEFINE R == {ss \in Nat \X Nat : ss[1] < ss[2]}
<1>1. IsWellFoundedOn(R, Nat)
  BY NatLessThanWellFounded DEF OpToRel
<1>2. \A j, k \in Nat : j < k => <<j, k>> \in R
  OBVIOUS
<1> HIDE DEF R
<1>3. PICK j \in T : \A k \in T : ~(<<k, j>> \in R)
  BY <1>1, WFMin
<1>4. ASSUME NEW k \in T PROVE j <= k
  <2>1. j \in Nat /\ k \in Nat /\ ~(<<k, j>> \in R)
    BY <1>3
  <2>2. ~(k < j)
    BY <1>2, <2>1
  <2> QED BY <2>1, <2>2
<1> QED BY <1>4

LEMMA SameSize == \A S : W!Cardinality(S) = Cardinality(S)
BY DEF W!Cardinality, Cardinality

\* A ranking of the vectors has each of them.
LEMMA RankedAll ==
  ASSUME IsFiniteSet(vectors), NEW ranking \in W!Rankings, NEW e \in vectors
  PROVE  /\ Cardinality(vectors) \in Nat
         /\ ranking \in [1 .. Cardinality(vectors) -> vectors]
         /\ \E i \in 1 .. Cardinality(vectors) : ranking[i] = e
<1> DEFINE n == Cardinality(vectors)
<1>1. n \in Nat /\ IsFiniteSet(1 .. n) /\ Cardinality(1 .. n) = n
  BY FS_CardinalityType, FS_Interval
<1>2. /\ ranking \in [1 .. n -> vectors]
      /\ \A i, j \in 1 .. n : ranking[i] = ranking[j] => i = j
  BY SameSize DEF W!Rankings
<1>3. ranking \in Injection(1 .. n, vectors)
  BY <1>2 DEF Injection, IsInjective
<1>4. ranking \in Surjection(1 .. n, vectors)
  BY <1>1, <1>3, FS_Injection
<1> QED BY <1>1, <1>2, <1>4 DEF Surjection

\* Some entry that is known, of the category and near is ranked within the limit, and
\* the first such entry is the match.
LEMMA MatchFinds ==
  ASSUME IsFiniteSet(vectors), W!Cardinality(vectors) <= Limit, NEW ranking \in W!Rankings,
         NEW category, NEW near \in SUBSET vectors, known \cap category \cap near # {}
  PROVE  W!Match(ranking, category, near) # {}
<1> DEFINE n == Cardinality(vectors)
           top == {ranking[i] : i \in 1 .. IF Len(ranking) < Limit THEN Len(ranking) ELSE Limit}
           good == {i \in DOMAIN ranking : ranking[i] \in top \cap known \cap category \cap near}
<1>1. PICK e \in known \cap category \cap near : TRUE
  OBVIOUS
<1>2. n \in Nat /\ ranking \in [1 .. n -> vectors] /\ \E i \in 1 .. n : ranking[i] = e
  BY <1>1, RankedAll
<1>3. Len(ranking) = n
  BY <1>2
<1>4. n <= Limit /\ Limit \in Nat
  BY SameSize, WatchlistParameters DEF W!WatchlistAssumption
<1>5. PICK i \in 1 .. n : ranking[i] = e
  BY <1>2
<1>6. ranking[i] \in top
  BY <1>2, <1>3, <1>4, <1>5
<1>7. DOMAIN ranking = 1 .. n
  BY <1>2
<1> HIDE DEF n, top
<1>8. good \subseteq Nat /\ i \in good
  BY <1>1, <1>5, <1>6, <1>7
<1> HIDE DEF good
<1>9. PICK j \in good : \A k \in good : j <= k
  BY <1>8, FirstIn
<1>10. ranking[j] \in W!Match(ranking, category, near)
  BY <1>9 DEF W!Match, good, top
<1> QED BY <1>10

\* watchlist.py:84-107, engine.py:352-382.  Whatever vectors were left behind and however
\* old the copies of the rows are, an appearance near someone watched, or a plate watched,
\* raises an alarm, as long as the index holds no more vectors than are asked for.
THEOREM TheWatchedAreFound == W!Spec => WatchedIsFound
<1> DEFINE A == heard' # heard /\ W!Cardinality(vectors) <= Limit
                  /\ W!Watching(heard'.category) \cap heard'.category \cap heard'.near # {}
                  => heard'.fired # {}
<1>1. W!Init => IsFiniteSet(vectors)
  BY FS_EmptySet DEF W!Init
<1>2. IsFiniteSet(vectors) /\ [W!Next]_W!vars => IsFiniteSet(vectors)'
  <2> SUFFICES ASSUME IsFiniteSet(vectors), [W!Next]_W!vars PROVE IsFiniteSet(vectors)'
    OBVIOUS
  <2>1. vectors' = vectors \/ (\E e \in W!Enrollable : vectors' = vectors \cup {e})
          \/ \E e \in W!Enrollable : vectors' = vectors \ {e}
    BY DEF W!Next, W!vars, W!Enroll, W!EnrollPlate, W!Delete, W!Upsert, W!Remove, W!Fail,
       W!Refresh, W!RefreshPlates, W!Embedding, W!ReadPlate
  <2>2. \A e : IsFiniteSet(vectors \cup {e}) /\ IsFiniteSet(vectors \ {e})
    BY FS_AddElement, FS_RemoveElement
  <2> QED BY <2>1, <2>2
<1>3. IsFiniteSet(vectors) /\ [W!Next]_W!vars => [A]_W!vars
  <2> SUFFICES ASSUME IsFiniteSet(vectors), W!Next, heard' # heard,
                      W!Cardinality(vectors) <= Limit,
                      W!Watching(heard'.category) \cap heard'.category \cap heard'.near # {}
               PROVE  heard'.fired # {}
    BY DEF W!vars
  <2>1. CASE heard' = W!Silence
    BY <2>1 DEF W!Silence
  <2>2. ASSUME NEW category \in {Persons, Vehicles}, NEW near \in SUBSET vectors,
               W!Embedding(category, near)
        PROVE  heard'.fired # {}
    <3>1. PICK ranking \in W!Rankings :
            heard' = [category |-> category, near |-> near,
                      fired |-> W!Match(ranking, category, near)]
      BY <2>2 DEF W!Embedding
    <3>2. category # Plates
      BY <3>1, WatchlistParameters DEF W!WatchlistAssumption, W!Watching
    <3>3. known \cap category \cap near # {}
      BY <3>1, <3>2 DEF W!Watching
    <3> QED BY <3>1, <3>3, MatchFinds
  <2>3. ASSUME NEW plate, W!ReadPlate(plate) PROVE heard'.fired # {}
    <3>1. PICK fired \in {{e} : e \in W!Entries(plate) \cap plateWatch}
                  \cup (IF W!Entries(plate) \cap plateWatch = {} THEN {{}} ELSE {}) :
            heard' = [category |-> Plates, near |-> W!Entries(plate), fired |-> fired]
      BY <2>3 DEF W!ReadPlate
    <3>2. W!Entries(plate) \cap plateWatch # {}
      BY <3>1 DEF W!Watching
    <3> QED BY <3>1, <3>2
  <2> QED BY <2>1, <2>2, <2>3 DEF W!Next, W!Enroll, W!EnrollPlate, W!Delete, W!Upsert,
             W!Remove, W!Fail, W!Refresh, W!RefreshPlates
<1> QED BY <1>1, <1>2, <1>3, PTL DEF W!Spec, WatchedIsFound, W!WatchedIsFound

-----------------------------------------------------------------------------
\* What the composition explores are behaviours of the three modules, and nothing else.
THEOREM PartsBehaveAsModules == PartsSpec => Spec /\ F!Spec /\ W!Spec
<1>1. PartsInit => Init /\ F!Init /\ W!Init
  BY DEF PartsInit
<1>2. /\ UNCHANGED vars => [Next]_vars
      /\ UNCHANGED firing => [F!Next]_F!vars
      /\ UNCHANGED watchlist => [W!Next]_W!vars
  BY DEF firing, watchlist, F!vars, W!vars
<1>3. [PartsNext]_<<part, firing, watchlist, vars>>
        => [Next]_vars /\ [F!Next]_F!vars /\ [W!Next]_W!vars
  BY <1>2 DEF PartsNext
<1> QED BY <1>1, <1>3, PTL DEF PartsSpec, Spec, F!Spec, W!Spec
=============================================================================
