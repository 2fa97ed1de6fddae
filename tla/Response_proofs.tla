--------------------------- MODULE Response_proofs ---------------------------
(***************************************************************************)
(* Five promises of the dispatch service, for any number of incidents,     *)
(* operators, requests and process deaths: one dispatch per incident, at   *)
(* most one escalation per dispatch, no tier on record that was not paged, *)
(* no sweep that overwrites what was there when it began, and no incident  *)
(* that is dropped.                                                        *)
(* Then what ResponseParts composes is what the modules specify: each part *)
(* of it is a behaviour of its module, and so has that module's theorems.  *)
(***************************************************************************)
EXTENDS ResponseParts, SequenceTheorems, TLAPS

\* The parts of the type the argument needs.
Types ==
  /\ rows \in Seq(Row)
  /\ queue \subseteq Incidents
  /\ consumer \in [at : {"idle", "selected", "paged", "handled"},
                   msg : Incidents \cup {Nobody}, failed : Nat]
  /\ consumer.at # "idle" => consumer.msg \in Incidents
  /\ sweep \in {"idle", "next", "flush", "page", "commit"}
  /\ todo \subseteq Rows
  /\ sweep \in {"flush", "page"} =>
       working.row \in Rows /\ working.next \in Responders \cup {Nobody}
  /\ DOMAIN flushed \subseteq Rows
  /\ \A d \in DOMAIN flushed : flushed[d] \in Responders \cup {Nobody}
  /\ \A o \in Operators :
       request[o].op # "none" => request[o].row \in Rows /\ request[o].state \in States

\* A message the consumer is about to insert a row for has none.
NoneYet == consumer.at \in {"selected", "paged"} => ~Existing(consumer.msg)

\* What the sweep will escalate when it commits is still on the first tier.
FirstTier ==
  /\ \A d \in todo \cup DOMAIN flushed : rows[d].tier = 1
  /\ sweep \in {"flush", "page"} => rows[working.row].tier = 1

IInv == Types /\ NoneYet /\ FirstTier /\ OneDispatchPerIncident /\ EscalatesOnce

LEMMA InitIInv == Init => IInv
<1> SUFFICES ASSUME Init PROVE IInv
  OBVIOUS
<1>1. rows = <<>> /\ rows \in Seq(Row) /\ Rows = {}
  BY DEF Init, Rows
<1>2. Types
  BY <1>1 DEF Types, Init, Idle, NoRequest
<1>3. NoneYet /\ FirstTier
  BY <1>1 DEF NoneYet, FirstTier, Init, Idle
<1>4. OneDispatchPerIncident /\ EscalatesOnce
  BY <1>1 DEF OneDispatchPerIncident, EscalatesOnce
<1>5. QED
  BY <1>2, <1>3, <1>4 DEF IInv

\* A new row for an incident that had none disturbs nothing the sweep holds.
LEMMA InsertKeeps ==
  ASSUME NEW r \in Responders \cup {Nobody}, Types, FirstTier, OneDispatchPerIncident,
         EscalatesOnce, consumer.msg \in Incidents, ~Existing(consumer.msg), InsertRow(r),
         UNCHANGED <<sweeper, operators>>
  PROVE  /\ rows' \in Seq(Row) /\ Rows \subseteq Rows'
         /\ \A o \in Operators :
              request'[o].op # "none" =>
                request'[o].row \in Rows' /\ request'[o].state \in States
         /\ todo' \subseteq Rows' /\ DOMAIN flushed' \subseteq Rows'
         /\ \A d \in DOMAIN flushed' : flushed'[d] \in Responders \cup {Nobody}
         /\ sweep' \in {"flush", "page"} =>
              working'.row \in Rows' /\ working'.next \in Responders \cup {Nobody}
         /\ FirstTier' /\ OneDispatchPerIncident' /\ EscalatesOnce'
<1> DEFINE new == [incident |-> consumer.msg, state |-> "notified", tier |-> 1,
                   responder |-> r, acked |-> FALSE, resolved |-> FALSE]
<1> USE DEF Types, sweeper, operators
<1>1. rows \in Seq(Row) /\ new \in Row /\ rows' = Append(rows, new)
  BY DEF InsertRow, Row, States
<1> HIDE DEF new
<1>2. /\ rows' \in Seq(Row)
      /\ Rows = 1 .. Len(rows) /\ Rows' = 1 .. Len(rows) + 1 /\ Len(rows) \in Nat
      /\ \A d \in Rows : rows'[d] = rows[d]
      /\ rows'[Len(rows) + 1] = new
  BY <1>1, AppendProperties DEF Rows
<1>3. new.incident = consumer.msg /\ new.tier = 1
  BY DEF new
<1>4. FirstTier'
  BY <1>2 DEF FirstTier
<1>5. OneDispatchPerIncident'
  <2> SUFFICES ASSUME NEW d \in Rows', NEW e \in Rows',
                      rows'[d].incident = rows'[e].incident
               PROVE  d = e
    BY DEF OneDispatchPerIncident
  <2>1. \A x \in Rows : rows'[x].incident # consumer.msg
    BY <1>2 DEF Existing
  <2>2. CASE d \in Rows /\ e \in Rows
    BY <1>2, <2>2 DEF OneDispatchPerIncident
  <2>3. CASE d = Len(rows) + 1 \/ e = Len(rows) + 1
    BY <1>2, <1>3, <2>1, <2>3
  <2>4. d \in Rows \/ d = Len(rows) + 1
    BY <1>2
  <2>5. e \in Rows \/ e = Len(rows) + 1
    BY <1>2
  <2>6. QED
    BY <2>2, <2>3, <2>4, <2>5
<1>6. EscalatesOnce'
  BY <1>2, <1>3 DEF EscalatesOnce
<1>7. QED
  BY <1>2, <1>4, <1>5, <1>6

LEMMA SameTable ==
  ASSUME IInv, UNCHANGED <<rows, sweeper, operators>>
  PROVE  /\ rows' \in Seq(Row) /\ Rows' = Rows
         /\ \A o \in Operators :
              request'[o].op # "none" =>
                request'[o].row \in Rows' /\ request'[o].state \in States
         /\ todo' \subseteq Rows' /\ DOMAIN flushed' \subseteq Rows'
         /\ \A d \in DOMAIN flushed' : flushed'[d] \in Responders \cup {Nobody}
         /\ sweep' \in {"idle", "next", "flush", "page", "commit"}
         /\ sweep' \in {"flush", "page"} =>
              working'.row \in Rows' /\ working'.next \in Responders \cup {Nobody}
         /\ FirstTier' /\ OneDispatchPerIncident' /\ EscalatesOnce'
         /\ \A i \in Incidents : Existing(i)' <=> Existing(i)
BY DEF IInv, Types, sweeper, operators, Rows, FirstTier, OneDispatchPerIncident,
       EscalatesOnce, Existing

LEMMA ConsumeKeeps == IInv /\ Consume => IInv'
<1> SUFFICES ASSUME IInv, Consume PROVE IInv'
  OBVIOUS
<1> USE DEF IInv, Types, database, bus
<1>1. ASSUME NEW i \in queue, HandleSelect(i)
      PROVE  IInv'
  <2>1. UNCHANGED <<rows, queue, sweeper, operators>> /\ i \in Incidents
    BY <1>1 DEF HandleSelect
  <2>2. /\ consumer'.msg = i
        /\ consumer'.at = IF i \in Qualifying /\ ~Existing(i) THEN "selected" ELSE "handled"
        /\ consumer' \in [at : {"idle", "selected", "paged", "handled"},
                          msg : Incidents \cup {Nobody}, failed : Nat]
    BY <1>1, <2>1 DEF HandleSelect
  <2>3. NoneYet'
    BY <2>1, <2>2, SameTable DEF NoneYet
  <2>4. QED
    BY <2>1, <2>2, <2>3, SameTable
<1>2. CASE HandleNotify \/ CommitOffset
  <2>1. UNCHANGED <<rows, sweeper, operators>> /\ queue' \subseteq Incidents
    BY <1>2 DEF HandleNotify, CommitOffset
  <2>2. /\ consumer' \in [at : {"idle", "selected", "paged", "handled"},
                          msg : Incidents \cup {Nobody}, failed : Nat]
        /\ consumer'.at # "idle" =>
             consumer.at = "selected" /\ consumer'.msg = consumer.msg
    BY <1>2 DEF HandleNotify, CommitOffset, Idle
  <2>3. NoneYet'
    BY <2>1, <2>2, SameTable DEF NoneYet
  <2>4. QED
    BY <2>1, <2>2, <2>3, SameTable
<1>3. ASSUME NEW r \in Responders \cup {Nobody}, consumer.at = "paged", InsertRow(r),
             consumer' \in [at : {"idle", "handled"},
                           msg : Incidents \cup {Nobody}, failed : Nat],
             consumer'.msg = consumer.msg,
             queue' = queue, UNCHANGED <<sweeper, operators>>
      PROVE  IInv'
  <2>1. ~Existing(consumer.msg) /\ consumer.msg \in Incidents
    BY <1>3 DEF NoneYet
  <2>2. NoneYet' /\ consumer' \in [at : {"idle", "selected", "paged", "handled"},
                                   msg : Incidents \cup {Nobody}, failed : Nat]
    BY <1>3 DEF NoneYet
  <2>3. sweep' = sweep
    BY <1>3 DEF sweeper
  <2>4. QED
    BY <1>3, <2>1, <2>2, <2>3, InsertKeeps
<1>4. ASSUME NEW r \in Responders \cup {Nobody}, HandleCommit(r)
      PROVE  IInv'
  <2>1. /\ consumer.at = "paged" /\ InsertRow(r) /\ queue' = queue
        /\ UNCHANGED <<sweeper, operators>>
    BY <1>4 DEF HandleCommit
  <2>2. /\ consumer' \in [at : {"idle", "handled"}, msg : Incidents \cup {Nobody}, failed : Nat]
        /\ consumer'.msg = consumer.msg
    BY <1>4 DEF HandleCommit
  <2>3. QED
    BY <1>3, <2>1, <2>2
<1>5. CASE HandleRaises
  <2>1. UNCHANGED <<queue, sweeper, operators>>
    BY <1>5 DEF HandleRaises
  <2>2. /\ consumer' \in [at : {"idle", "handled"}, msg : Incidents \cup {Nobody}, failed : Nat]
        /\ consumer'.msg = consumer.msg /\ consumer.msg \in Incidents
    <3>1. \/ consumer' = [consumer EXCEPT !.at = "handled"]
          \/ consumer' = [consumer EXCEPT !.at = "idle", !.failed = 0]
          \/ consumer' = [consumer EXCEPT !.at = "idle", !.failed = @ + 1]
      BY <1>5 DEF HandleRaises
    <3>2. consumer.msg \in Incidents
      BY <1>5 DEF HandleRaises
    <3>3. CASE consumer' = [consumer EXCEPT !.at = "handled"]
      BY <3>2, <3>3
    <3>4. CASE consumer' = [consumer EXCEPT !.at = "idle", !.failed = 0]
      BY <3>2, <3>4
    <3>5. CASE consumer' = [consumer EXCEPT !.at = "idle", !.failed = @ + 1]
      <4>1. consumer.failed \in Nat /\ consumer.failed + 1 \in Nat
        OBVIOUS
      <4>2. consumer' = [at |-> "idle", msg |-> consumer.msg, failed |-> consumer.failed + 1]
        BY <3>5
      <4>3. QED
        BY <3>2, <4>1, <4>2
    <3>6. QED
      BY <3>1, <3>2, <3>3, <3>4, <3>5
  <2>3. CASE UNCHANGED database
    <3>1. NoneYet'
      BY <2>2 DEF NoneYet
    <3>2. UNCHANGED <<rows, sweeper, operators>>
      BY <2>1, <2>3
    <3>3. QED
      BY <2>1, <2>2, <3>1, <3>2, SameTable
  <2>4. CASE consumer.at = "paged" /\ \E r \in Responders \cup {Nobody} : InsertRow(r)
    BY <1>3, <2>1, <2>2, <2>4
  <2>5. QED
    BY <1>5, <2>3, <2>4 DEF HandleRaises
<1>6. QED
  BY <1>1, <1>2, <1>4, <1>5 DEF Consume

\* An operator's request changes columns of one row, never its incident or its
\* tier, nor its state back to "notified".
LEMMA OperateKeeps == IInv /\ Operate => IInv'
<1> SUFFICES ASSUME IInv, NEW o \in Operators,
                    \/ \E op \in {"ack", "resolve", "assign"}, d \in Rows : RequestLoad(o, op, d)
                    \/ AckDispatch(o)
                    \/ ResolveDispatch(o)
                    \/ \E r \in Responders \cup {Nobody} : AssignDispatch(o, r)
             PROVE  IInv'
  BY DEF Operate
<1> USE DEF IInv, Types
<1>1. ASSUME NEW op \in {"ack", "resolve", "assign"}, NEW d \in Rows, RequestLoad(o, op, d)
      PROVE  IInv'
  <2>1. UNCHANGED <<rows, queue, consumer, sweep, todo, working, flushed>>
    BY <1>1 DEF RequestLoad, database, bus, sweeper
  <2>2. rows[d].state \in States
    <3>1. rows[d] \in Row
      BY DEF Rows
    <3>2. QED
      BY <3>1 DEF Row
  <2>3. request' = [request EXCEPT ![o] = [op |-> op, row |-> d, state |-> rows[d].state]]
    BY <1>1 DEF RequestLoad
  <2>4. \A p \in Operators :
          request'[p].op # "none" => request'[p].row \in Rows /\ request'[p].state \in States
    BY <2>2, <2>3
  <2>5. QED
    BY <2>1, <2>4 DEF Rows, NoneYet, FirstTier, OneDispatchPerIncident, EscalatesOnce, Existing
<1>2. ASSUME request[o].op # "none", NEW new \in Row, RequestWrites(o, new),
             new.incident = rows[request[o].row].incident,
             new.tier = rows[request[o].row].tier,
             new.state = "notified" => rows[request[o].row].state = "notified"
      PROVE  IInv'
  <2> DEFINE d == request[o].row
  <2>1. d \in Rows
    BY <1>2
  <2>2. /\ rows' = [rows EXCEPT ![d] = new]
        /\ UNCHANGED <<queue, consumer, sweep, todo, working, flushed>>
        /\ request' = [request EXCEPT ![o] = NoRequest]
    BY <1>2 DEF RequestWrites, bus, sweeper
  <2>3. rows' \in Seq(Row) /\ Rows' = Rows
    BY <2>1, <2>2, ExceptSeq DEF Rows
  <2>4. /\ rows'[d] = new
        /\ \A e \in Rows \ {d} : rows'[e] = rows[e]
    BY <2>1, <2>2 DEF Rows
  <2>5. \A e \in Rows : /\ rows'[e].incident = rows[e].incident
                        /\ rows'[e].tier = rows[e].tier
                        /\ rows'[e].state = "notified" => rows[e].state = "notified"
    BY <1>2, <2>4
  <2>6. Types'
    BY <2>2, <2>3 DEF NoRequest
  <2>7. NoneYet' /\ FirstTier'
    BY <2>2, <2>3, <2>5 DEF NoneYet, FirstTier, Existing
  <2>8. OneDispatchPerIncident' /\ EscalatesOnce'
    BY <2>3, <2>5 DEF OneDispatchPerIncident, EscalatesOnce
  <2>9. QED
    BY <2>6, <2>7, <2>8
<1>3. CASE AckDispatch(o) \/ ResolveDispatch(o)
             \/ \E r \in Responders \cup {Nobody} : AssignDispatch(o, r)
  <2>1. request[o].op # "none" /\ request[o].row \in Rows /\ request[o].state \in States
    BY <1>3 DEF AckDispatch, ResolveDispatch, AssignDispatch
  <2>2. rows[request[o].row] \in Row
    BY <2>1 DEF Rows
  <2>3. CASE AckDispatch(o)
    BY <1>2, <2>1, <2>2, <2>3 DEF AckDispatch, Written, Row, States
  <2>4. CASE ResolveDispatch(o)
    BY <1>2, <2>1, <2>2, <2>4 DEF ResolveDispatch, Written, Row, States
  <2>5. ASSUME NEW r \in Responders \cup {Nobody}, AssignDispatch(o, r)
        PROVE  IInv'
    BY <1>2, <2>1, <2>2, <2>5 DEF AssignDispatch, Row
  <2>6. QED
    BY <1>3, <2>3, <2>4, <2>5
<1>4. QED
  BY <1>1, <1>3

\* What the commit writes: each escalated row gets its second tier, once.
LEMMA SweptColumns ==
  ASSUME IInv, NEW d \in Rows
  PROVE  /\ Swept(d) \in Row
         /\ Swept(d).incident = rows[d].incident
         /\ \/ Swept(d).tier = rows[d].tier
            \/ rows[d].tier = 1 /\ Swept(d).tier = 2 /\ Swept(d).state # "notified"
         /\ Swept(d).state = "notified" => Swept(d) = rows[d]
<1> USE DEF IInv, Types
<1> DEFINE r == IF d \in DOMAIN flushed
                  THEN [rows[d] EXCEPT !.state = "escalated", !.tier = @ + 1,
                                       !.responder = NewResponder(d, flushed[d])]
                  ELSE rows[d]
<1>1. rows[d] \in Row
  BY DEF Rows
<1>2. r \in Row /\ r.incident = rows[d].incident
      /\ (d \notin DOMAIN flushed => r = rows[d])
      /\ (d \in DOMAIN flushed => r.tier = 2 /\ rows[d].tier = 1 /\ r.state = "escalated")
  <2>1. CASE d \in DOMAIN flushed
    <3>1. NewResponder(d, flushed[d]) \in Responders \cup {Nobody}
      BY <1>1, <2>1 DEF NewResponder, Row
    <3>2. rows[d].tier = 1
      BY <2>1 DEF FirstTier
    <3>3. \A n \in Responders \cup {Nobody}, x \in Row :
            LET y == [x EXCEPT !.state = "escalated", !.tier = 2, !.responder = n]
            IN  y \in Row /\ y.incident = x.incident /\ y.tier = 2 /\ y.state = "escalated"
      BY DEF Row, States
    <3> DEFINE n == NewResponder(d, flushed[d])
               e == [rows[d] EXCEPT !.state = "escalated", !.tier = 2, !.responder = n]
    <3>4. r = e
      BY <2>1, <3>2
    <3>5. n \in Responders \cup {Nobody}
      BY <3>1
    <3> HIDE DEF n
    <3>6. e \in Row /\ e.incident = rows[d].incident /\ e.tier = 2 /\ e.state = "escalated"
      BY <1>1, <3>3, <3>5
    <3> HIDE DEF e, r
    <3>7. QED
      BY <2>1, <3>2, <3>4, <3>6
  <2>2. QED
    BY <1>1, <2>1
<1> HIDE DEF r
<1>3. Swept(d) = IF d \in expiring THEN [r EXCEPT !.state = "expired"] ELSE r
  BY DEF Swept, r
<1>4. QED
  BY <1>2, <1>3 DEF Row, States

LEMMA SweepKeeps == IInv /\ (Sweep \/ SweepRaises) => IInv'
<1> SUFFICES ASSUME IInv, Sweep \/ SweepRaises PROVE IInv'
  OBVIOUS
<1> USE DEF IInv, Types, database, bus, operators
<1>1. UNCHANGED <<queue, consumer, request>>
  BY DEF Sweep, SweepSelect, SweepEscalate, SweepFlush, SweepPage,
         SweepSelectUnresolved, SweepCommit, SweepRaises
<1>2. ASSUME rows' = rows,
             sweep' \in {"idle", "next", "flush", "page", "commit"},
             todo' \subseteq Rows, DOMAIN flushed' \subseteq Rows,
             \A d \in DOMAIN flushed' : flushed'[d] \in Responders \cup {Nobody},
             sweep' \in {"flush", "page"} =>
               working'.row \in Rows /\ working'.next \in Responders \cup {Nobody},
             FirstTier'
      PROVE  IInv'
  BY <1>1, <1>2 DEF Rows, NoneYet, Existing, OneDispatchPerIncident, EscalatesOnce
<1>3. CASE SweepSelect
  <2>1. \A d \in todo' : d \in Rows /\ rows[d].tier = 1
    BY <1>3 DEF SweepSelect, AwaitingAck, EscalatesOnce
  <2>2. QED
    BY <1>2, <1>3, <2>1 DEF SweepSelect, FirstTier
<1>4. CASE \E d \in todo, next \in Responders \cup {Nobody} : SweepEscalate(d, next)
  BY <1>2, <1>4 DEF SweepEscalate, FirstTier
<1>5. CASE SweepFlush
  BY <1>2, <1>5 DEF SweepFlush, AfterFlush, FirstTier
<1>6. CASE SweepPage
  BY <1>2, <1>6 DEF SweepPage, FirstTier
<1>7. CASE SweepSelectUnresolved
  BY <1>2, <1>7 DEF SweepSelectUnresolved, FirstTier
<1>8. CASE SweepRaises
  BY <1>2, <1>8 DEF SweepRaises, SweepEnds, FirstTier
<1>9. CASE SweepCommit
  <2>1. rows' = [d \in Rows |-> Swept(d)] /\ SweepEnds
    BY <1>9 DEF SweepCommit
  <2>2. rows' \in Seq(Row) /\ Rows' = Rows
    BY <2>1, SweptColumns DEF Rows
  <2>3. \A d \in Rows : rows'[d] = Swept(d)
    BY <2>1
  <2>4. Types' /\ FirstTier'
    BY <1>1, <2>1, <2>2 DEF SweepEnds, FirstTier
  <2>5. NoneYet' /\ OneDispatchPerIncident'
    BY <1>1, <2>2, <2>3, SweptColumns DEF NoneYet, Existing, OneDispatchPerIncident
  <2>6. EscalatesOnce'
    BY <2>2, <2>3, SweptColumns DEF EscalatesOnce
  <2>7. QED
    BY <2>4, <2>5, <2>6
<1>10. QED
  BY <1>3, <1>4, <1>5, <1>6, <1>7, <1>8, <1>9 DEF Sweep

LEMMA NextIInv == IInv /\ [Next]_vars => IInv'
<1> SUFFICES ASSUME IInv, [Next]_vars PROVE IInv'
  OBVIOUS
<1>1. ASSUME UNCHANGED <<rows, queue, consumer, sweeper, operators>>
      PROVE  IInv'
  BY <1>1 DEF IInv, Types, sweeper, operators, Rows, NoneYet, FirstTier, Existing,
     OneDispatchPerIncident, EscalatesOnce
<1>2. CASE \E d \in Rows : SlaElapses(d)
  BY <1>1, <1>2 DEF SlaElapses, bus
<1>3. CASE Crash
  <2>1. UNCHANGED <<rows, queue>> /\ consumer' = Idle /\ SweepEnds
        /\ request' = [o \in Operators |-> NoRequest]
    BY <1>3 DEF Crash, database, bus
  <2>2. QED
    BY <2>1 DEF IInv, Types, Idle, NoRequest, SweepEnds, Rows, NoneYet, FirstTier,
       OneDispatchPerIncident, EscalatesOnce
<1>4. CASE UNCHANGED vars
  BY <1>1, <1>4 DEF vars, database, bus
<1>5. QED
  BY <1>2, <1>3, <1>4, ConsumeKeeps, OperateKeeps, SweepKeeps DEF Next

LEMMA Inductive == Spec => []IInv
BY InitIInv, NextIInv, PTL DEF Spec

\* engine.py:46-47 and 67.  However often a message is delivered and whatever
\* fails in between, an incident never has two dispatches.
THEOREM OneDispatch == Spec => []OneDispatchPerIncident
BY Inductive, PTL DEF IInv

\* sla.py:7.  No interleaving of sweeps, failed sweeps and requests escalates a
\* dispatch twice.
THEOREM EscalatesAtMostOnce == Spec => []EscalatesOnce
BY Inductive, PTL DEF IInv

-----------------------------------------------------------------------------
Paged(d, t) == <<rows[d].incident, t>> \in paged

\* Pages precede the writes that record them: the first tier's the insert, the second
\* tier's the sweep's commit.  A row with a camera is updated before its page, within
\* the transaction; a row without is paged before its update.
Pages ==
  /\ PagedBeforeRecorded
  /\ consumer.at = "paged" => <<consumer.msg, 1>> \in paged
  /\ \A d \in DOMAIN flushed :
       Paged(d, 2) \/ (sweep = "page" /\ HasCamera(d) /\ working.row = d)
  /\ sweep = "flush" /\ ~HasCamera(working.row) => Paged(working.row, 2)

\* A step that only adds pages, and leaves the sweep and every row's incident and tier.
LEMMA PagesStable ==
  ASSUME IInv, Pages, paged \subseteq paged', Rows' = Rows,
         \A d \in Rows : rows'[d].incident = rows[d].incident /\ rows'[d].tier = rows[d].tier,
         UNCHANGED sweeper,
         consumer'.at = "paged" => <<consumer'.msg, 1>> \in paged'
  PROVE  Pages'
<1> USE DEF IInv, Types, Pages, sweeper, Paged, HasCamera
<1>1. PagedBeforeRecorded'
  BY DEF PagedBeforeRecorded
<1> QED BY <1>1

LEMMA InsertPages ==
  ASSUME IInv, Pages, NEW r \in Responders \cup {Nobody}, InsertRow(r),
         consumer.at = "paged", consumer'.at # "paged", UNCHANGED <<paged, sweeper>>
  PROVE  Pages'
<1> DEFINE new == [incident |-> consumer.msg, state |-> "notified", tier |-> 1,
                   responder |-> r, acked |-> FALSE, resolved |-> FALSE]
<1>1. rows \in Seq(Row) /\ rows' = Append(rows, new)
  BY DEF InsertRow, IInv, Types
<1>2. consumer.msg \in Incidents /\ new \in Row
  BY DEF IInv, Types, Row, States
<1>3. new.incident = consumer.msg /\ new.tier = 1
  OBVIOUS
<1> HIDE DEF new
<1>4. /\ Rows = 1 .. Len(rows) /\ Rows' = 1 .. Len(rows) + 1 /\ Len(rows) \in Nat
      /\ \A d \in Rows : rows'[d] = rows[d]
      /\ rows'[Len(rows) + 1] = new
  BY <1>1, <1>2, AppendProperties DEF Rows
<1>5. PagedBeforeRecorded'
  <2> SUFFICES ASSUME NEW d \in Rows', NEW t \in 1 .. rows'[d].tier
               PROVE  <<rows'[d].incident, t>> \in paged
    BY DEF PagedBeforeRecorded
  <2>1. CASE d \in Rows
    BY <1>4, <2>1 DEF Pages, PagedBeforeRecorded
  <2>2. CASE d = Len(rows) + 1
    <3>1. rows'[d].incident = consumer.msg /\ t = 1
      BY <1>3, <1>4, <2>2
    <3> QED BY <3>1 DEF Pages
  <2> QED BY <1>4, <2>1, <2>2
<1> QED
  BY <1>4, <1>5 DEF Pages, Paged, HasCamera, sweeper, IInv, Types

LEMMA ConsumePages == IInv /\ Pages /\ Consume => Pages'
<1> SUFFICES ASSUME IInv, Pages, Consume PROVE Pages'
  OBVIOUS
<1>1. ASSUME NEW i \in queue, HandleSelect(i) PROVE Pages'
  <2>1. consumer'.at # "paged"
    BY <1>1 DEF HandleSelect, IInv, Types
  <2> QED BY <1>1, <2>1, PagesStable DEF HandleSelect, database, Rows
<1>2. CASE HandleNotify
  <2>1. <<consumer'.msg, 1>> \in paged'
    BY <1>2 DEF HandleNotify, IInv, Types
  <2> QED BY <1>2, <2>1, PagesStable DEF HandleNotify, database, Rows
<1>3. ASSUME NEW r \in Responders \cup {Nobody}, HandleCommit(r) PROVE Pages'
  <2>1. consumer'.at # "paged"
    BY <1>3 DEF HandleCommit, IInv, Types
  <2> QED BY <1>3, <2>1, InsertPages DEF HandleCommit
<1>4. CASE HandleRaises
  <2>1. consumer'.at # "paged"
    <3>1. \/ consumer' = [consumer EXCEPT !.at = "handled"]
          \/ consumer' = [consumer EXCEPT !.at = "idle", !.failed = 0]
          \/ consumer' = [consumer EXCEPT !.at = "idle", !.failed = @ + 1]
      BY <1>4 DEF HandleRaises
    <3> QED BY <3>1 DEF IInv, Types
  <2>2. UNCHANGED <<paged, sweeper>>
    BY <1>4 DEF HandleRaises
  <2>3. CASE UNCHANGED database
    BY <2>1, <2>2, <2>3, PagesStable DEF database, Rows
  <2>4. CASE consumer.at = "paged" /\ \E r \in Responders \cup {Nobody} : InsertRow(r)
    BY <2>1, <2>2, <2>4, InsertPages
  <2> QED BY <1>4, <2>3, <2>4 DEF HandleRaises
<1>5. CASE CommitOffset
  BY <1>5, PagesStable DEF CommitOffset, Idle, database, Rows
<1> QED BY <1>1, <1>2, <1>3, <1>4, <1>5 DEF Consume

LEMMA OperatePages == IInv /\ Pages /\ Operate => Pages'
<1> SUFFICES ASSUME IInv, Pages, NEW o \in Operators,
                    \/ \E op \in {"ack", "resolve", "assign"}, d \in Rows : RequestLoad(o, op, d)
                    \/ AckDispatch(o)
                    \/ ResolveDispatch(o)
                    \/ \E r \in Responders \cup {Nobody} : AssignDispatch(o, r)
             PROVE  Pages'
  BY DEF Operate
<1>1. ASSUME NEW op \in {"ack", "resolve", "assign"}, NEW d \in Rows, RequestLoad(o, op, d)
      PROVE  Pages'
  BY <1>1, PagesStable DEF RequestLoad, database, Rows, Pages
<1>2. ASSUME request[o].op # "none", NEW new, RequestWrites(o, new),
             new.incident = rows[request[o].row].incident,
             new.tier = rows[request[o].row].tier
      PROVE  Pages'
  <2>1. rows' = [rows EXCEPT ![request[o].row] = new] /\ UNCHANGED <<paged, sweeper, consumer>>
    BY <1>2 DEF RequestWrites
  <2>2. Rows' = Rows
    BY <2>1 DEF Rows
  <2>3. \A d \in Rows : rows'[d].incident = rows[d].incident /\ rows'[d].tier = rows[d].tier
    BY <1>2, <2>1 DEF Rows
  <2> QED BY <2>1, <2>2, <2>3, PagesStable DEF Pages
<1>3. rows[request[o].row] \in Row \/ request[o].op = "none"
  BY DEF IInv, Types, Rows
<1>4. CASE AckDispatch(o)
  BY <1>2, <1>3, <1>4 DEF AckDispatch, Row
<1>5. CASE ResolveDispatch(o)
  BY <1>2, <1>3, <1>5 DEF ResolveDispatch, Row
<1>6. ASSUME NEW r \in Responders \cup {Nobody}, AssignDispatch(o, r) PROVE Pages'
  BY <1>2, <1>3, <1>6 DEF AssignDispatch, Row
<1> QED BY <1>1, <1>4, <1>5, <1>6

LEMMA SweepPages == IInv /\ Pages /\ (Sweep \/ SweepRaises) => Pages'
<1> SUFFICES ASSUME IInv, Pages, Sweep \/ SweepRaises PROVE Pages'
  OBVIOUS
<1>1. UNCHANGED consumer
  BY DEF Sweep, SweepSelect, SweepEscalate, SweepFlush, SweepPage,
         SweepSelectUnresolved, SweepCommit, SweepRaises
<1>2. ASSUME rows' = rows, paged \subseteq paged',
             \A d \in DOMAIN flushed' :
               Paged(d, 2)' \/ (sweep' = "page" /\ HasCamera(d) /\ working'.row = d),
             \A d : sweep' = "flush" /\ working'.row = d /\ ~HasCamera(d) => Paged(d, 2)'
      PROVE  Pages'
  <2>1. PagedBeforeRecorded'
    <3>1. Rows' = Rows
      BY <1>2 DEF Rows
    <3> QED BY <1>2, <3>1 DEF Pages, PagedBeforeRecorded
  <2>2. \A d : HasCamera(d)' <=> HasCamera(d)
    BY <1>2 DEF HasCamera
  <2>3. consumer'.at = "paged" => <<consumer'.msg, 1>> \in paged'
    BY <1>1, <1>2 DEF Pages
  <2>4. \A d \in DOMAIN flushed' :
          Paged(d, 2)' \/ (sweep' = "page" /\ HasCamera(d)' /\ working'.row = d)
    BY <1>2, <2>2
  <2>5. (sweep = "flush" /\ ~HasCamera(working.row) => Paged(working.row, 2))'
    BY <1>2 DEF HasCamera, Paged
  <2> QED BY <2>1, <2>3, <2>4, <2>5 DEF Pages
<1>3. CASE SweepSelect
  BY <1>2, <1>3 DEF SweepSelect, database, Pages, Paged
<1>4. CASE \E d \in todo, next \in Responders \cup {Nobody} : SweepEscalate(d, next)
  BY <1>2, <1>4 DEF SweepEscalate, database, Pages, Paged
<1>5. CASE SweepFlush
  <2>1. /\ sweep = "flush" /\ UNCHANGED <<rows, paged, working>>
        /\ DOMAIN flushed' = DOMAIN flushed \cup {working.row}
        /\ sweep' = IF HasCamera(working.row) THEN "page" ELSE "next"
    BY <1>5 DEF SweepFlush, AfterFlush, database
  <2> QED BY <1>2, <2>1 DEF Pages, Paged
<1>6. CASE SweepPage
  <2> DEFINE d == working.row
  <2>1. /\ sweep = "page" /\ UNCHANGED <<rows, working, flushed>>
        /\ paged' = paged \cup {<<rows[d].incident, rows[d].tier + 1>>}
        /\ sweep' = IF HasCamera(d) THEN "next" ELSE "flush"
    BY <1>6 DEF SweepPage, database
  <2>2. rows[d].tier = 1
    BY <2>1 DEF IInv, FirstTier
  <2>3. \A e : e = d => Paged(e, 2)'
    BY <2>1, <2>2 DEF Paged
  <2>4. \A e \in DOMAIN flushed : Paged(e, 2)'
    <3> SUFFICES ASSUME NEW e \in DOMAIN flushed PROVE Paged(e, 2)'
      OBVIOUS
    <3>1. Paged(e, 2) => Paged(e, 2)'
      BY <2>1 DEF Paged
    <3>2. Paged(e, 2) \/ e = d
      BY DEF Pages
    <3> QED BY <2>3, <3>1, <3>2
  <2> QED BY <1>2, <2>1, <2>3, <2>4
<1>7. CASE SweepSelectUnresolved
  BY <1>2, <1>7 DEF SweepSelectUnresolved, database, Pages, Paged
<1>8. CASE SweepRaises
  BY <1>2, <1>8 DEF SweepRaises, SweepEnds, database
<1>9. CASE SweepCommit
  <2>1. /\ sweep = "commit" /\ UNCHANGED paged /\ SweepEnds
        /\ rows' = [d \in Rows |-> Swept(d)]
    BY <1>9 DEF SweepCommit
  <2>2. Rows' = Rows /\ \A d \in Rows : rows'[d] = Swept(d)
    BY <2>1 DEF Rows
  <2>3. ASSUME NEW d \in Rows, NEW t \in 1 .. Swept(d).tier
        PROVE  <<rows[d].incident, t>> \in paged
    <3>1. CASE d \in DOMAIN flushed
      <4>1. rows[d].tier = 1 /\ Paged(d, 2)
        BY <2>1, <3>1 DEF IInv, FirstTier, Pages
      <4>2. Paged(d, 1)
        BY <4>1 DEF Pages, PagedBeforeRecorded, Paged
      <4>3. t \in 1 .. 2
        BY <4>1, SweptColumns
      <4> QED BY <4>1, <4>2, <4>3 DEF Paged
    <3>2. CASE d \notin DOMAIN flushed
      <4>1. rows[d] \in Row
        BY DEF IInv, Types, Rows
      <4>2. Swept(d).tier = rows[d].tier
        BY <3>2, <4>1 DEF Swept, Row
      <4> QED BY <4>2 DEF Pages, PagedBeforeRecorded
    <3> QED BY <3>1, <3>2
  <2>4. PagedBeforeRecorded'
    BY <2>1, <2>2, <2>3, SweptColumns DEF PagedBeforeRecorded
  <2> QED BY <1>1, <2>1, <2>4 DEF Pages, SweepEnds
<1> QED BY <1>3, <1>4, <1>5, <1>6, <1>7, <1>8, <1>9 DEF Sweep

\* sla.py:5-6, engine.py:129-141.  However the handler and the sweeps fail, are retried
\* or die between paging and committing, no tier is on record that was not paged.
THEOREM PagesPrecedeRecords == Spec => []PagedBeforeRecorded
<1>1. Init => Pages
  BY DEF Init, Pages, PagedBeforeRecorded, Rows, Idle
<1>2. IInv /\ Pages /\ [Next]_vars => Pages'
  <2> SUFFICES ASSUME IInv, Pages, [Next]_vars PROVE Pages'
    OBVIOUS
  <2>1. CASE \E d \in Rows : SlaElapses(d)
    BY <2>1, PagesStable DEF SlaElapses, Rows, Pages
  <2>2. CASE Crash
    <3>1. UNCHANGED <<rows, paged>> /\ consumer' = Idle /\ SweepEnds
      BY <2>2 DEF Crash, database
    <3>2. PagedBeforeRecorded'
      BY <3>1 DEF Pages, PagedBeforeRecorded, Rows
    <3> QED BY <3>1, <3>2 DEF Pages, Idle, SweepEnds
  <2>3. CASE UNCHANGED vars
    BY <2>3, PagesStable DEF vars, database, Rows, Pages
  <2> QED BY <2>1, <2>2, <2>3, ConsumePages, OperatePages, SweepPages DEF Next
<1>3. Pages => PagedBeforeRecorded
  BY DEF Pages
<1> QED BY <1>1, <1>2, <1>3, Inductive, PTL DEF Spec

-----------------------------------------------------------------------------
\* A row somebody acted on is not "notified", and never becomes so again; what the sweep
\* has in hand was not acted on when it began, and what it expires not resolved.
Acted ==
  \A d \in Rows : rows[d].acked \/ rows[d].resolved => rows[d].state # "notified"

ReadState ==
  \A o \in Operators :
    request[o].op # "none" /\ request[o].state # "notified" =>
      rows[request[o].row].state # "notified"

InHand == todo \cup DOMAIN flushed \cup {d \in {working.row} : sweep \in {"flush", "page"}}

Untouched ==
  /\ \A d \in resolvedBefore : d \in Rows /\ rows[d].resolved
  /\ \A d \in InHand : d \notin ackedBefore \cup resolvedBefore
  /\ \A d \in expiring : d \in Rows /\ d \notin resolvedBefore
  /\ sweep = "idle" => DOMAIN flushed = {} /\ expiring = {}

FreshInv == Acted /\ ReadState /\ Untouched

\* The sweep's state is kept; old rows lose neither an action nor their progress.
LEMMA RowsGoForward ==
  ASSUME IInv, FreshInv, Rows \subseteq Rows', UNCHANGED <<sweeper, request>>,
         \A d \in Rows :
           /\ rows[d].resolved => rows'[d].resolved
           /\ rows'[d].state = "notified" => rows[d].state = "notified",
         Acted'
  PROVE  FreshInv'
BY DEF FreshInv, ReadState, Untouched, InHand, IInv, Types, sweeper

LEMMA OperateFresh == IInv /\ FreshInv /\ Operate => FreshInv'
<1> SUFFICES ASSUME IInv, FreshInv, NEW o \in Operators,
                    \/ \E op \in {"ack", "resolve", "assign"}, d \in Rows : RequestLoad(o, op, d)
                    \/ AckDispatch(o)
                    \/ ResolveDispatch(o)
                    \/ \E r \in Responders \cup {Nobody} : AssignDispatch(o, r)
             PROVE  FreshInv'
  BY DEF Operate
<1>1. ASSUME NEW op \in {"ack", "resolve", "assign"}, NEW d \in Rows, RequestLoad(o, op, d)
      PROVE  FreshInv'
  <2>1. /\ UNCHANGED <<rows, sweeper>>
        /\ request' = [request EXCEPT ![o] = [op |-> op, row |-> d, state |-> rows[d].state]]
    BY <1>1 DEF RequestLoad, database
  <2>2. ReadState'
    BY <2>1 DEF FreshInv, ReadState
  <2> QED BY <2>1, <2>2 DEF FreshInv, Acted, Untouched, InHand, Rows, sweeper
<1>2. ASSUME request[o].op # "none", NEW new, RequestWrites(o, new),
             rows[request[o].row].resolved => new.resolved,
             new.state = "notified" => rows[request[o].row].state = "notified",
             new.acked \/ new.resolved => new.state # "notified"
      PROVE  FreshInv'
  <2> DEFINE d == request[o].row
  <2>1. d \in Rows /\ UNCHANGED sweeper
        /\ rows' = [rows EXCEPT ![d] = new] /\ request' = [request EXCEPT ![o] = NoRequest]
    BY <1>2 DEF RequestWrites, IInv, Types
  <2>2. Rows' = Rows /\ rows'[d] = new /\ \A e \in Rows \ {d} : rows'[e] = rows[e]
    BY <2>1 DEF Rows
  <2>3. Acted'
    BY <1>2, <2>2 DEF FreshInv, Acted
  <2>4. \A e \in Rows : /\ rows[e].resolved => rows'[e].resolved
                        /\ rows'[e].state = "notified" => rows[e].state = "notified"
    BY <1>2, <2>2
  <2>5. ReadState'
    BY <2>1, <2>4 DEF FreshInv, ReadState, NoRequest, IInv, Types
  <2>6. Untouched'
    BY <2>1, <2>2, <2>4 DEF FreshInv, Untouched, InHand, sweeper
  <2> QED BY <2>3, <2>5, <2>6 DEF FreshInv
<1>3. request[o].op # "none" =>
        /\ request[o].row \in Rows /\ rows[request[o].row] \in Row
        /\ request[o].state # "notified" => rows[request[o].row].state # "notified"
  BY DEF IInv, Types, Rows, FreshInv, ReadState
<1>4. CASE AckDispatch(o)
  BY <1>2, <1>3, <1>4 DEF AckDispatch, Written, Row
<1>5. CASE ResolveDispatch(o)
  BY <1>2, <1>3, <1>5 DEF ResolveDispatch, Written, Row
<1>6. ASSUME NEW r \in Responders \cup {Nobody}, AssignDispatch(o, r) PROVE FreshInv'
  BY <1>2, <1>3, <1>6 DEF AssignDispatch, Row, FreshInv, Acted
<1> QED BY <1>1, <1>4, <1>5, <1>6

LEMMA SweepFresh == IInv /\ FreshInv /\ (Sweep \/ SweepRaises) => FreshInv'
<1> SUFFICES ASSUME IInv, FreshInv, Sweep \/ SweepRaises PROVE FreshInv'
  OBVIOUS
<1>1. UNCHANGED request
  BY DEF Sweep, SweepSelect, SweepEscalate, SweepFlush, SweepPage,
         SweepSelectUnresolved, SweepCommit, SweepRaises, operators
<1>2. ASSUME rows' = rows, Untouched' PROVE FreshInv'
  BY <1>1, <1>2 DEF FreshInv, Acted, ReadState, Rows
<1>3. CASE SweepSelect
  <2>1. /\ sweep = "idle" /\ sweep' = "next" /\ UNCHANGED <<rows, flushed, expiring>>
        /\ todo' \subseteq {d \in Rows : rows[d].state = "notified"}
        /\ ackedBefore' = {d \in Rows : rows[d].acked}
        /\ resolvedBefore' = {d \in Rows : rows[d].resolved}
    BY <1>3 DEF SweepSelect, AwaitingAck, database
  <2>2. DOMAIN flushed = {} /\ expiring = {}
    BY <2>1 DEF FreshInv, Untouched
  <2>3. InHand' = todo'
    BY <2>1, <2>2 DEF InHand
  <2>4. \A d \in todo' : d \notin ackedBefore' \cup resolvedBefore'
    BY <2>1 DEF FreshInv, Acted
  <2>5. \A d \in resolvedBefore' : d \in Rows' /\ rows'[d].resolved
    BY <2>1 DEF Rows
  <2>6. Untouched'
    BY <2>1, <2>2, <2>3, <2>4, <2>5 DEF Untouched
  <2> QED BY <1>2, <2>1, <2>6
<1>4. CASE \E d \in todo, next \in Responders \cup {Nobody} : SweepEscalate(d, next)
  BY <1>2, <1>4 DEF SweepEscalate, database, FreshInv, Untouched, InHand, Rows
<1>5. CASE SweepFlush
  BY <1>2, <1>5 DEF SweepFlush, AfterFlush, database, FreshInv, Untouched, InHand, Rows
<1>6. CASE SweepPage
  BY <1>2, <1>6 DEF SweepPage, database, FreshInv, Untouched, InHand, Rows
<1>7. CASE SweepSelectUnresolved
  BY <1>2, <1>7 DEF SweepSelectUnresolved, AwaitingResolve, database, FreshInv, Untouched,
     InHand, Rows
<1>8. CASE SweepRaises
  BY <1>2, <1>8 DEF SweepRaises, SweepEnds, database, Untouched, InHand
<1>9. CASE SweepCommit
  <2>1. rows' = [d \in Rows |-> Swept(d)] /\ SweepEnds
    BY <1>9 DEF SweepCommit
  <2>2. Rows' = Rows /\ \A d \in Rows : rows'[d] = Swept(d)
    BY <2>1 DEF Rows
  <2>3. \A d \in Rows : Swept(d).state = "notified" => Swept(d) = rows[d]
    BY SweptColumns
  <2>4. Acted'
    BY <2>2, <2>3 DEF FreshInv, Acted
  <2>5. ReadState'
    BY <1>1, <2>2, <2>3 DEF FreshInv, ReadState, IInv, Types
  <2>6. Untouched'
    BY <2>1 DEF SweepEnds, Untouched, InHand
  <2> QED BY <2>4, <2>5, <2>6 DEF FreshInv
<1> QED BY <1>3, <1>4, <1>5, <1>6, <1>7, <1>8, <1>9 DEF Sweep

LEMMA InsertFresh ==
  ASSUME IInv, FreshInv, NEW r, InsertRow(r), UNCHANGED <<sweeper, request>>
  PROVE  FreshInv'
<1> DEFINE new == [incident |-> consumer.msg, state |-> "notified", tier |-> 1,
                   responder |-> r, acked |-> FALSE, resolved |-> FALSE]
<1>1. rows \in Seq(Row) /\ rows' = Append(rows, new)
  BY DEF InsertRow, IInv, Types
<1>2. ~new.acked /\ ~new.resolved
  OBVIOUS
<1> HIDE DEF new
<1>3. rows \in Seq(Row \cup {new})
  BY <1>1, SeqMonotonic
<1>4. /\ Rows = 1 .. Len(rows) /\ Rows' = 1 .. Len(rows) + 1 /\ Len(rows) \in Nat
      /\ \A d \in Rows : rows'[d] = rows[d]
      /\ rows'[Len(rows) + 1] = new
  BY <1>1, <1>3, AppendProperties DEF Rows
<1>5. Acted'
  BY <1>2, <1>4 DEF FreshInv, Acted
<1> QED BY <1>4, <1>5, RowsGoForward

LEMMA NextFresh == IInv /\ FreshInv /\ [Next]_vars => FreshInv'
<1> SUFFICES ASSUME IInv, FreshInv, [Next]_vars PROVE FreshInv'
  OBVIOUS
<1>1. ASSUME UNCHANGED <<rows, sweeper, request>> PROVE FreshInv'
  BY <1>1 DEF FreshInv, Acted, ReadState, Untouched, InHand, Rows, sweeper
<1>2. CASE Consume
  <2>1. UNCHANGED <<sweeper, request>>
    BY <1>2 DEF Consume, HandleSelect, HandleNotify, HandleCommit, HandleRaises, CommitOffset,
       operators
  <2>2. rows' = rows \/ \E r \in Responders \cup {Nobody} : InsertRow(r)
    BY <1>2 DEF Consume, HandleSelect, HandleNotify, HandleCommit, HandleRaises, CommitOffset,
       database
  <2> QED BY <1>1, <2>1, <2>2, InsertFresh
<1>3. CASE \E d \in Rows : SlaElapses(d)
  BY <1>1, <1>3 DEF SlaElapses, operators
<1>4. CASE Crash
  BY <1>4 DEF Crash, SweepEnds, NoRequest, database, FreshInv, Acted, ReadState, Untouched,
     InHand, Rows
<1>5. CASE UNCHANGED vars
  BY <1>1, <1>5 DEF vars, database, operators
<1> QED BY <1>2, <1>3, <1>4, <1>5, OperateFresh, SweepFresh DEF Next

\* sla.py:56-126.  A sweep that pages and awaits for long escalates nothing that was
\* acknowledged or resolved when it began, and expires nothing that was resolved then;
\* only what happens while it runs can be overwritten.
THEOREM SweepsAreFresh == Spec => SweepIsFresh
<1>1. Init => FreshInv
  BY DEF Init, FreshInv, Acted, ReadState, Untouched, InHand, Rows, NoRequest
<1>2. IInv /\ FreshInv /\ [Next]_vars =>
        [\A d \in Rows :
           rows'[d].state # rows[d].state =>
             /\ rows'[d].state = "escalated" => d \notin ackedBefore \cup resolvedBefore
             /\ rows'[d].state = "expired" => d \notin resolvedBefore]_vars
  <2> SUFFICES ASSUME IInv, FreshInv, Next, NEW d \in Rows, rows'[d].state # rows[d].state
               PROVE  /\ rows'[d].state = "escalated" => d \notin ackedBefore \cup resolvedBefore
                      /\ rows'[d].state = "expired" => d \notin resolvedBefore
    OBVIOUS
  <2>1. rows[d] \in Row
    BY DEF IInv, Types, Rows
  <2>2. CASE SweepCommit
    <3>1. rows'[d] = Swept(d)
      BY <2>2 DEF SweepCommit
    <3>2. d \in DOMAIN flushed \cup expiring
      BY <3>1 DEF Swept
    <3>3. d \in expiring => Swept(d).state = "expired"
      BY <2>1 DEF Swept, Row
    <3> QED BY <3>1, <3>2, <3>3 DEF FreshInv, Untouched, InHand
  <2>3. CASE Operate
    <3>1. PICK o \in Operators :
            \/ \E op \in {"ack", "resolve", "assign"}, e \in Rows : RequestLoad(o, op, e)
            \/ AckDispatch(o)
            \/ ResolveDispatch(o)
            \/ \E r \in Responders \cup {Nobody} : AssignDispatch(o, r)
      BY <2>3 DEF Operate
    <3> DEFINE e == request[o].row
    <3>2. ASSUME NEW new, RequestWrites(o, new),
                 new.state \in {rows[e].state, "acknowledged", "resolved"}
          PROVE  rows'[d].state \in {"acknowledged", "resolved"}
      <4>1. rows' = [rows EXCEPT ![e] = new]
        BY <3>2 DEF RequestWrites
      <4>2. IF d = e THEN rows'[d] = new ELSE rows'[d] = rows[d]
        BY <4>1 DEF Rows
      <4> QED BY <3>2, <4>2
    <3>3. request[o].op # "none" => rows[e] \in Row
      BY DEF IInv, Types, Rows
    <3>4. CASE \E op \in {"ack", "resolve", "assign"}, f \in Rows : RequestLoad(o, op, f)
      <4>1. rows' = rows
        BY <3>4 DEF RequestLoad, database
      <4> QED BY <4>1
    <3>5. CASE AckDispatch(o)
      BY <3>2, <3>3, <3>5 DEF AckDispatch, Written, Row
    <3>6. CASE ResolveDispatch(o)
      BY <3>2, <3>3, <3>6 DEF ResolveDispatch, Written, Row
    <3>7. CASE \E r \in Responders \cup {Nobody} : AssignDispatch(o, r)
      BY <3>2, <3>3, <3>7 DEF AssignDispatch, Row
    <3> QED BY <3>1, <3>4, <3>5, <3>6, <3>7
  <2>4. CASE Consume
    <3>1. rows' = rows \/ \E r \in Responders \cup {Nobody} : InsertRow(r)
      BY <2>4 DEF Consume, HandleSelect, HandleNotify, HandleCommit, HandleRaises,
         CommitOffset, database
    <3>2. ASSUME NEW r, InsertRow(r) PROVE rows'[d] = rows[d]
      <4> DEFINE new == [incident |-> consumer.msg, state |-> "notified", tier |-> 1,
                         responder |-> r, acked |-> FALSE, resolved |-> FALSE]
      <4>1. rows \in Seq(Row) /\ rows' = Append(rows, new)
        BY <3>2 DEF InsertRow, IInv, Types
      <4> HIDE DEF new
      <4>2. rows \in Seq(Row \cup {new})
        BY <4>1, SeqMonotonic
      <4> QED BY <4>1, <4>2, AppendProperties DEF Rows
    <3> QED BY <3>1, <3>2
  <2>5. CASE (Sweep /\ ~SweepCommit) \/ SweepRaises \/ Crash \/ \E e \in Rows : SlaElapses(e)
    <3>1. rows' = rows
      BY <2>5 DEF Sweep, SweepSelect, SweepEscalate, SweepFlush, SweepPage,
         SweepSelectUnresolved, SweepRaises, Crash, SlaElapses, database
    <3> QED BY <3>1
  <2> QED BY <2>2, <2>3, <2>4, <2>5 DEF Next
<1> QED BY <1>1, <1>2, NextFresh, Inductive, PTL DEF Spec, SweepIsFresh
-----------------------------------------------------------------------------
\* What the dispatch service owes an incident it must dispatch: a row, or the DLQ.
Kept(i) == i \in Dispatched \cup dlq
ConfirmedKept == \A i \in Qualifying : i \in queue \/ Kept(i)

KeptFirst ==
  /\ ConfirmedKept
  /\ consumer.at = "handled" /\ consumer.msg \in Qualifying => Kept(consumer.msg)

LEMMA KeptStays == ASSUME IInv, [Next]_vars, NEW i, Kept(i) PROVE Kept(i)'
<1>1. dlq \subseteq dlq'
  BY DEF Next, Consume, HandleSelect, HandleNotify, HandleCommit, HandleRaises, CommitOffset,
     SlaElapses, Sweep, SweepSelect, SweepEscalate, SweepFlush, SweepPage,
     SweepSelectUnresolved, SweepCommit, SweepRaises, Operate, RequestLoad, AckDispatch,
     ResolveDispatch, AssignDispatch, RequestWrites, Crash, vars, bus
<1>2. ASSUME NEW d \in Rows PROVE d \in Rows' /\ rows'[d].incident = rows[d].incident
  <2>1. ASSUME UNCHANGED rows PROVE d \in Rows' /\ rows'[d].incident = rows[d].incident
    BY <2>1 DEF Rows
  <2>2. ASSUME NEW r \in Responders \cup {Nobody}, InsertRow(r), consumer.msg \in Incidents
        PROVE  d \in Rows' /\ rows'[d].incident = rows[d].incident
    <3> DEFINE new == [incident |-> consumer.msg, state |-> "notified", tier |-> 1,
                       responder |-> r, acked |-> FALSE, resolved |-> FALSE]
    <3>1. rows \in Seq(Row) /\ new \in Row /\ rows' = Append(rows, new)
      BY <2>2 DEF InsertRow, IInv, Types, Row, States
    <3> HIDE DEF new
    <3> QED BY <3>1, AppendProperties DEF Rows
  <2>3. ASSUME NEW o \in Operators, NEW new, RequestWrites(o, new), request[o].op # "none",
               new.incident = rows[request[o].row].incident
        PROVE  d \in Rows' /\ rows'[d].incident = rows[d].incident
    BY <2>3 DEF RequestWrites, Rows
  <2>4. CASE Consume
    <3>1. \A m \in queue : HandleSelect(m) => UNCHANGED rows
      BY DEF HandleSelect, database
    <3>2. HandleNotify \/ CommitOffset => UNCHANGED rows
      BY DEF HandleNotify, CommitOffset, database
    <3>3. HandleRaises => \/ UNCHANGED rows
                          \/ \E r \in Responders \cup {Nobody} : InsertRow(r)
      BY DEF HandleRaises, database
    <3>4. HandleRaises \/ consumer.at = "paged" => consumer.msg \in Incidents
      BY DEF HandleRaises, IInv, Types
    <3>5. \A r \in Responders \cup {Nobody} :
            HandleCommit(r) => InsertRow(r) /\ consumer.at = "paged"
      BY DEF HandleCommit
    <3> QED BY <2>1, <2>2, <2>4, <3>1, <3>2, <3>3, <3>4, <3>5 DEF Consume
  <2>5. CASE Operate
    <3>1. PICK o \in Operators :
            \/ \E op \in {"ack", "resolve", "assign"}, e \in Rows : RequestLoad(o, op, e)
            \/ AckDispatch(o)
            \/ ResolveDispatch(o)
            \/ \E r \in Responders \cup {Nobody} : AssignDispatch(o, r)
      BY <2>5 DEF Operate
    <3>2. request[o].op # "none" => rows[request[o].row] \in Row
      BY DEF IInv, Types, Rows
    <3>3. CASE \E op \in {"ack", "resolve", "assign"}, e \in Rows : RequestLoad(o, op, e)
      BY <2>1, <3>3 DEF RequestLoad, database
    <3>4. CASE AckDispatch(o)
      BY <2>3, <3>2, <3>4 DEF AckDispatch, Row
    <3>5. CASE ResolveDispatch(o)
      BY <2>3, <3>2, <3>5 DEF ResolveDispatch, Row
    <3>6. CASE \E r \in Responders \cup {Nobody} : AssignDispatch(o, r)
      BY <2>3, <3>2, <3>6 DEF AssignDispatch, Row
    <3> QED BY <3>1, <3>3, <3>4, <3>5, <3>6
  <2>6. CASE SweepCommit
    BY <2>6, SweptColumns DEF SweepCommit, Rows
  <2>7. CASE (Sweep /\ ~SweepCommit) \/ SweepRaises \/ Crash \/ UNCHANGED vars
               \/ \E e \in Rows : SlaElapses(e)
    <3>1. rows' = rows
      BY <2>7 DEF Sweep, SweepSelect, SweepEscalate, SweepFlush, SweepPage,
         SweepSelectUnresolved, SweepRaises, Crash, SlaElapses, vars, database
    <3> QED BY <2>1, <3>1
  <2> QED BY <2>4, <2>5, <2>6, <2>7 DEF Next
<1>3. i \in Dispatched => i \in Dispatched'
  BY <1>2 DEF Dispatched
<1> QED BY <1>1, <1>3 DEF Kept

LEMMA NextKept == ASSUME IInv, IInv', KeptFirst, [Next]_vars PROVE KeptFirst'
<1>1. \A i : Kept(i) => Kept(i)'
  BY KeptStays
<1>2. ASSUME queue' = queue, consumer'.at = "handled" => consumer' = consumer
      PROVE  KeptFirst'
  BY <1>1, <1>2 DEF KeptFirst, ConfirmedKept
<1>3. ASSUME NEW i \in queue, HandleSelect(i) PROVE KeptFirst'
  <2>1. /\ consumer'.msg = i /\ UNCHANGED <<queue, rows, dlq>>
        /\ consumer'.at = "handled" /\ i \in Qualifying => Existing(i)
    BY <1>3 DEF HandleSelect, IInv, Types, bus, database
  <2>2. Existing(i) => Kept(i)
    BY DEF Existing, Kept, Dispatched
  <2> QED BY <1>1, <2>1, <2>2 DEF KeptFirst, ConfirmedKept
<1>4. CASE HandleNotify
  BY <1>2, <1>4 DEF HandleNotify, IInv, Types, bus
<1>5. ASSUME NEW r \in Responders \cup {Nobody}, HandleCommit(r) PROVE KeptFirst'
  <2>1. /\ consumer' = [consumer EXCEPT !.at = "handled"] /\ queue' = queue /\ InsertRow(r)
        /\ consumer.msg \in Incidents
    BY <1>5 DEF HandleCommit, bus, IInv, Types
  <2>2. Kept(consumer.msg)'
    <3> DEFINE new == [incident |-> consumer.msg, state |-> "notified", tier |-> 1,
                       responder |-> r, acked |-> FALSE, resolved |-> FALSE]
    <3>1. rows \in Seq(Row) /\ new \in Row /\ rows' = Append(rows, new)
      BY <2>1 DEF InsertRow, IInv, Types, Row, States
    <3>2. new.incident = consumer.msg
      OBVIOUS
    <3>3. consumer'.msg = consumer.msg
      BY <2>1 DEF IInv, Types
    <3> HIDE DEF new
    <3>4. Len(rows) + 1 \in Rows' /\ rows'[Len(rows) + 1] = new
      BY <3>1, AppendProperties DEF Rows
    <3> QED BY <3>2, <3>3, <3>4 DEF Kept, Dispatched
  <2>3. consumer'.msg = consumer.msg
    BY <2>1 DEF IInv, Types
  <2> QED BY <1>1, <2>1, <2>2, <2>3 DEF KeptFirst, ConfirmedKept
<1>6. CASE HandleRaises
  <2>1. \/ consumer'.at = "handled" /\ consumer'.msg \in dlq'
        \/ consumer'.at = "idle"
    BY <1>6 DEF HandleRaises, IInv, Types
  <2>2. queue' = queue
    BY <1>6 DEF HandleRaises
  <2> QED BY <1>1, <2>1, <2>2 DEF KeptFirst, ConfirmedKept, Kept
<1>7. CASE CommitOffset
  <2>1. consumer.at = "handled" /\ queue' = queue \ {consumer.msg} /\ consumer'.at = "idle"
    BY <1>7 DEF CommitOffset, Idle
  <2> QED BY <1>1, <2>1 DEF KeptFirst, ConfirmedKept
<1>8. CASE Sweep \/ SweepRaises \/ Operate \/ UNCHANGED vars \/ \E d \in Rows : SlaElapses(d)
  <2>1. queue' = queue /\ consumer' = consumer
    BY <1>8 DEF Sweep, SweepSelect, SweepEscalate, SweepFlush, SweepPage,
       SweepSelectUnresolved, SweepCommit, SweepRaises, Operate, RequestLoad, AckDispatch,
       ResolveDispatch, AssignDispatch, RequestWrites, SlaElapses, vars, bus
  <2> QED BY <1>2, <2>1
<1>9. CASE Crash
  BY <1>2, <1>9 DEF Crash, Idle, bus
<1> QED BY <1>3, <1>4, <1>5, <1>6, <1>7, <1>8, <1>9 DEF Next, Consume

\* kafka.py:138-139, engine.py:46.  Whatever fails or dies while it is handled, a confirmed
\* incident of high severity leaves the queue only with its dispatch on record, or for the
\* DLQ (that it comes to that is EveryIncidentDispatched).
THEOREM NoIncidentDropped == Spec => []ConfirmedKept
<1>1. Init => KeptFirst
  BY IncidentsAssumption DEF Init, KeptFirst, ConfirmedKept, Idle
<1>2. IInv /\ IInv' /\ KeptFirst /\ [Next]_vars => KeptFirst'
  BY NextKept
<1>3. KeptFirst => ConfirmedKept
  BY DEF KeptFirst
<1> QED BY <1>1, <1>2, <1>3, Inductive, PTL DEF Spec
-----------------------------------------------------------------------------
\* What TypeOK says beyond Types, as far as it is inductive: every row has an age, a sweep
\* saw no more rows than there are, and the attempts at a message have not run out.
AgesTyped == age \in Seq(0 .. 2) /\ Len(age) = Len(rows)
BusTyped ==
  /\ dlq \subseteq Incidents
  /\ paged \subseteq Incidents \X (1 .. 2)
  /\ consumer.failed \in 0 .. MaxRetries - 1
SweepTyped ==
  /\ now \in Seq(0 .. 2) /\ Len(now) <= Len(rows)
  /\ working \in [row : {0} \cup Rows, next : Responders \cup {Nobody}]
  /\ expiring \cup ackedBefore \cup resolvedBefore \subseteq Rows
RequestsTyped ==
  /\ request \in [Operators -> [op : {"none", "ack", "resolve", "assign"},
                                row : {0} \cup Rows, state : States]]
  /\ requests \in 0 .. MaxRequests
  /\ crashes \in 0 .. MaxCrashes

TInv == AgesTyped /\ BusTyped /\ SweepTyped /\ RequestsTyped

\* A step inserts a row with its age, lets an SLA run out, or leaves the ages and the
\* number of rows.
LEMMA RowsAndAges ==
  ASSUME IInv, [Next]_vars
  PROVE  \/ consumer.msg \in Incidents /\ \E r \in Responders \cup {Nobody} : InsertRow(r)
         \/ rows' = rows /\ \E d \in Rows : SlaElapses(d)
         \/ age' = age /\ rows' \in Seq(Row) /\ Len(rows') = Len(rows)
<1> USE DEF IInv, Types
<1>1. CASE Consume
  <2>1. \/ UNCHANGED database
        \/ consumer.at = "paged" /\ \E r \in Responders \cup {Nobody} : InsertRow(r)
    BY <1>1 DEF Consume, HandleSelect, HandleNotify, HandleCommit, HandleRaises, CommitOffset
  <2> QED BY <2>1 DEF database
<1>2. CASE SweepCommit
  <2>1. age' = age /\ rows' = [d \in Rows |-> Swept(d)]
    BY <1>2 DEF SweepCommit
  <2>2. \A d \in Rows : Swept(d) \in Row
    BY SweptColumns
  <2>3. Rows = 1 .. Len(rows) /\ Len(rows) \in Nat
    BY DEF Rows
  <2> QED BY <2>1, <2>2, <2>3
<1>3. CASE Operate
  <2>1. PICK o \in Operators :
          \/ \E op \in {"ack", "resolve", "assign"}, d \in Rows : RequestLoad(o, op, d)
          \/ AckDispatch(o)
          \/ ResolveDispatch(o)
          \/ \E r \in Responders \cup {Nobody} : AssignDispatch(o, r)
    BY <1>3 DEF Operate
  <2>2. CASE \E op \in {"ack", "resolve", "assign"}, d \in Rows : RequestLoad(o, op, d)
    BY <2>2 DEF RequestLoad, database
  <2>3. ASSUME NEW new, request[o].op # "none", RequestWrites(o, new)
        PROVE  age' = age /\ Len(rows') = Len(rows) /\ rows' = [rows EXCEPT ![request[o].row] = new]
    BY <2>3 DEF RequestWrites
  <2>4. CASE ~\E op \in {"ack", "resolve", "assign"}, d \in Rows : RequestLoad(o, op, d)
    <3>1. age' = age /\ Len(rows') = Len(rows)
      BY <2>1, <2>3, <2>4 DEF AckDispatch, ResolveDispatch, AssignDispatch
    <3>2. rows' \in Seq(Row)
      BY <1>3, OperateKeeps
    <3> QED BY <3>1, <3>2
  <2> QED BY <2>2, <2>4
<1>4. CASE (Sweep /\ ~SweepCommit) \/ SweepRaises \/ Crash \/ UNCHANGED vars
  BY <1>4 DEF Sweep, SweepSelect, SweepEscalate, SweepFlush, SweepPage, SweepSelectUnresolved,
     SweepRaises, Crash, vars, database
<1>5. CASE \E d \in Rows : SlaElapses(d)
  BY <1>5 DEF SlaElapses
<1> QED BY <1>1, <1>2, <1>3, <1>4, <1>5 DEF Next

LEMMA AgesStayTyped ==
  ASSUME IInv, AgesTyped, [Next]_vars
  PROVE  AgesTyped' /\ Len(rows) <= Len(rows') /\ Rows \subseteq Rows'
<1> USE DEF IInv, Types, AgesTyped
<1>1. Len(rows) \in Nat /\ Rows = 1 .. Len(rows)
  BY DEF Rows
<1>2. ASSUME NEW r \in Responders \cup {Nobody}, InsertRow(r), consumer.msg \in Incidents
      PROVE  AgesTyped' /\ Len(rows) <= Len(rows') /\ Rows \subseteq Rows'
  <2> DEFINE new == [incident |-> consumer.msg, state |-> "notified", tier |-> 1,
                     responder |-> r, acked |-> FALSE, resolved |-> FALSE]
  <2>1. new \in Row /\ rows' = Append(rows, new) /\ age' = Append(age, 0)
    BY <1>2 DEF InsertRow, Row, States
  <2> HIDE DEF new
  <2>2. age' \in Seq(0 .. 2) /\ Len(age') = Len(age) + 1
    BY <2>1, AppendProperties
  <2>3. Len(rows') = Len(rows) + 1 /\ DOMAIN rows' = 1 .. Len(rows) + 1
    BY <2>1, AppendProperties
  <2> QED BY <1>1, <2>2, <2>3 DEF Rows
<1>3. ASSUME NEW d \in Rows, SlaElapses(d), rows' = rows
      PROVE  AgesTyped' /\ Len(rows) <= Len(rows') /\ Rows \subseteq Rows'
  <2>1. age[d] \in 0 .. 1 /\ age' = [age EXCEPT ![d] = age[d] + 1] /\ d \in 1 .. Len(age)
    BY <1>1, <1>3 DEF SlaElapses
  <2>2. age' \in Seq(0 .. 2) /\ Len(age') = Len(age)
    BY <2>1, ExceptSeq
  <2> QED BY <1>1, <1>3, <2>2 DEF Rows
<1>4. ASSUME age' = age, rows' \in Seq(Row), Len(rows') = Len(rows)
      PROVE  AgesTyped' /\ Len(rows) <= Len(rows') /\ Rows \subseteq Rows'
  BY <1>1, <1>4 DEF Rows
<1> QED BY <1>2, <1>3, <1>4, RowsAndAges

LEMMA RowsTyped ==
  ASSUME IInv PROVE \A d \in Rows : rows[d].incident \in Incidents /\ rows[d].state \in States
<1> SUFFICES ASSUME NEW d \in Rows
             PROVE  rows[d].incident \in Incidents /\ rows[d].state \in States
  OBVIOUS
<1>1. rows[d] \in Row
  BY DEF IInv, Types, Rows
<1> QED BY <1>1 DEF Row

LEMMA AttemptsCounted ==
  ASSUME Types, consumer.failed \in 0 .. MaxRetries - 1,
         \/ consumer' = [consumer EXCEPT !.at = "handled"]
         \/ consumer' = [consumer EXCEPT !.at = "idle", !.failed = 0]
         \/ /\ consumer' = [consumer EXCEPT !.at = "idle", !.failed = @ + 1]
            /\ consumer.failed + 1 # MaxRetries
  PROVE  consumer'.failed \in 0 .. MaxRetries - 1
<1>1. \A n : [consumer EXCEPT !.at = "idle", !.failed = n].failed = n
  BY DEF Types
<1>2. [consumer EXCEPT !.at = "handled"].failed = consumer.failed
  BY DEF Types
<1>3. \/ consumer'.failed \in {consumer.failed, 0}
      \/ consumer'.failed = consumer.failed + 1 /\ consumer.failed + 1 # MaxRetries
  BY <1>1, <1>2
<1> QED BY <1>3, BoundsAssumption

LEMMA BusStaysTyped == ASSUME IInv, BusTyped, [Next]_vars PROVE BusTyped'
<1> USE DEF IInv, Types, BusTyped
<1>1. ASSUME NEW i \in queue, HandleSelect(i) PROVE BusTyped'
  BY <1>1 DEF HandleSelect, bus
<1>2. CASE HandleNotify
  BY <1>2 DEF HandleNotify, bus
<1>3. ASSUME NEW r \in Responders \cup {Nobody}, HandleCommit(r) PROVE BusTyped'
  BY <1>3 DEF HandleCommit, bus
<1>4. CASE HandleRaises
  <2>1. consumer.msg \in Incidents /\ paged' = paged /\ dlq' \subseteq dlq \cup {consumer.msg}
    BY <1>4 DEF HandleRaises
  <2>2. consumer'.failed \in 0 .. MaxRetries - 1
    BY <1>4, AttemptsCounted DEF HandleRaises
  <2> QED BY <2>1, <2>2
<1>5. CASE CommitOffset \/ Crash
  BY <1>5, BoundsAssumption DEF CommitOffset, Crash, Idle, bus
<1>6. CASE SweepPage
  <2>1. /\ paged' = paged \cup {<<rows[working.row].incident, rows[working.row].tier + 1>>}
        /\ UNCHANGED <<dlq, consumer>> /\ sweep = "page"
    BY <1>6 DEF SweepPage, bus
  <2>2. working.row \in Rows /\ rows[working.row].tier = 1
    <3>1. working.row \in Rows
      BY <2>1
    <3>2. sweep = "page" => rows[working.row].tier = 1
      BY DEF FirstTier
    <3> QED BY <2>1, <3>1, <3>2
  <2>3. rows[working.row].incident \in Incidents
    BY <2>2, RowsTyped
  <2> QED BY <2>1, <2>2, <2>3
<1>7. CASE (Sweep /\ ~SweepPage) \/ SweepRaises \/ Operate \/ UNCHANGED vars
             \/ \E d \in Rows : SlaElapses(d)
  <2>1. UNCHANGED <<dlq, paged, consumer>>
    BY <1>7 DEF Sweep, SweepSelect, SweepEscalate, SweepFlush, SweepSelectUnresolved,
       SweepCommit, SweepRaises, Operate, RequestLoad, AckDispatch, ResolveDispatch,
       AssignDispatch, RequestWrites, SlaElapses, vars, bus
  <2> QED BY <2>1
<1> QED BY <1>1, <1>2, <1>3, <1>4, <1>5, <1>6, <1>7 DEF Next, Consume

LEMMA SweepStaysTyped ==
  ASSUME IInv, AgesTyped, SweepTyped, [Next]_vars, Len(rows) <= Len(rows'), Rows \subseteq Rows',
         rows' \in Seq(Row)
  PROVE  SweepTyped'
<1> USE DEF SweepTyped
<1>1. Len(rows) \in Nat /\ Len(rows') \in Nat
  BY DEF IInv, Types
<1>2. ASSUME UNCHANGED <<now, working, expiring, ackedBefore, resolvedBefore>> PROVE SweepTyped'
  BY <1>1, <1>2
<1>3. CASE SweepSelect
  <2>1. /\ now' = age /\ UNCHANGED <<rows, working, expiring>>
        /\ ackedBefore' \cup resolvedBefore' \subseteq Rows
    BY <1>3 DEF SweepSelect, database
  <2> QED BY <1>1, <2>1 DEF AgesTyped
<1>4. CASE \E d \in todo, next \in Responders \cup {Nobody} : SweepEscalate(d, next)
  <2>1. /\ UNCHANGED <<now, expiring, ackedBefore, resolvedBefore>>
        /\ working' \in [row : Rows, next : Responders \cup {Nobody}]
    BY <1>4 DEF SweepEscalate, IInv, Types
  <2> QED BY <1>1, <2>1
<1>5. CASE SweepFlush \/ SweepPage
  BY <1>2, <1>5 DEF SweepFlush, SweepPage
<1>6. CASE SweepSelectUnresolved
  <2>1. UNCHANGED <<now, working, ackedBefore, resolvedBefore>> /\ expiring' \subseteq Rows
    BY <1>6 DEF SweepSelectUnresolved
  <2> QED BY <1>1, <2>1
<1>7. ASSUME SweepEnds PROVE SweepTyped'
  <2>1. /\ now' = <<>> /\ working' = NoWork
        /\ expiring' = {} /\ ackedBefore' = {} /\ resolvedBefore' = {}
    BY <1>7 DEF SweepEnds
  <2> QED BY <1>1, <2>1 DEF NoWork
<1>8. CASE SweepCommit \/ SweepRaises \/ Crash
  BY <1>7, <1>8 DEF SweepCommit, SweepRaises, Crash
<1>9. CASE Consume \/ Operate \/ UNCHANGED vars \/ \E d \in Rows : SlaElapses(d)
  <2>1. UNCHANGED <<now, working, expiring, ackedBefore, resolvedBefore>>
    BY <1>9 DEF Consume, HandleSelect, HandleNotify, HandleCommit, HandleRaises, CommitOffset,
       Operate, RequestLoad, AckDispatch, ResolveDispatch, AssignDispatch, RequestWrites,
       SlaElapses, vars, sweeper
  <2> QED BY <1>2, <2>1
<1> QED BY <1>3, <1>4, <1>5, <1>6, <1>8, <1>9 DEF Next, Sweep

LEMMA RequestsStayTyped ==
  ASSUME IInv, RequestsTyped, [Next]_vars, Rows \subseteq Rows' PROVE RequestsTyped'
<1> USE DEF RequestsTyped
<1>1. NoRequest \in [op : {"none", "ack", "resolve", "assign"}, row : {0} \cup Rows',
                     state : States]
  BY DEF NoRequest, States
<1>2. ASSUME NEW o \in Operators, NEW op \in {"ack", "resolve", "assign"}, NEW d \in Rows,
             RequestLoad(o, op, d)
      PROVE  RequestsTyped'
  <2>1. rows[d].state \in States
    BY RowsTyped
  <2>2. /\ request' = [request EXCEPT ![o] = [op |-> op, row |-> d, state |-> rows[d].state]]
        /\ requests' = requests + 1 /\ requests < MaxRequests /\ crashes' = crashes
    BY <1>2 DEF RequestLoad
  <2> QED BY <2>1, <2>2, BoundsAssumption
<1>3. ASSUME NEW o \in Operators, NEW new, RequestWrites(o, new) PROVE RequestsTyped'
  <2>1. request' = [request EXCEPT ![o] = NoRequest] /\ UNCHANGED <<requests, crashes>>
    BY <1>3 DEF RequestWrites
  <2> QED BY <1>1, <2>1
<1>4. CASE Operate
  BY <1>2, <1>3, <1>4 DEF Operate, AckDispatch, ResolveDispatch, AssignDispatch
<1>5. CASE Crash
  <2>1. /\ request' = [o \in Operators |-> NoRequest] /\ requests' = requests
        /\ crashes < MaxCrashes /\ crashes' = crashes + 1
    BY <1>5 DEF Crash
  <2> QED BY <1>1, <2>1, BoundsAssumption
<1>6. CASE Consume \/ Sweep \/ SweepRaises \/ UNCHANGED vars \/ \E d \in Rows : SlaElapses(d)
  <2>1. UNCHANGED <<request, requests, crashes>>
    BY <1>6 DEF Consume, HandleSelect, HandleNotify, HandleCommit, HandleRaises, CommitOffset,
       Sweep, SweepSelect, SweepEscalate, SweepFlush, SweepPage, SweepSelectUnresolved,
       SweepCommit, SweepRaises, SlaElapses, vars, operators
  <2> QED BY <2>1
<1> QED BY <1>4, <1>5, <1>6 DEF Next

\* The type of the dispatch service: in particular no page goes beyond the second tier, no
\* message is tried more than MaxRetries times, and nobody refers to a row there is not.
THEOREM DispatchTypes == Spec => []TypeOK
<1>1. Init => TInv
  <2> SUFFICES ASSUME Init PROVE TInv
    OBVIOUS
  <2>1. AgesTyped /\ BusTyped
    BY BoundsAssumption DEF Init, AgesTyped, BusTyped, Idle
  <2>2. SweepTyped /\ RequestsTyped
    BY BoundsAssumption DEF Init, SweepTyped, RequestsTyped, NoWork, NoRequest, States
  <2> QED BY <2>1, <2>2 DEF TInv
<1>2. IInv /\ IInv' /\ TInv /\ [Next]_vars => TInv'
  BY AgesStayTyped, BusStaysTyped, SweepStaysTyped, RequestsStayTyped DEF TInv, IInv, Types
<1>3. IInv /\ TInv => TypeOK
  <2> SUFFICES ASSUME IInv, TInv PROVE TypeOK
    OBVIOUS
  <2> USE DEF IInv, Types, TInv, AgesTyped, BusTyped, SweepTyped, RequestsTyped
  <2>1. age \in [Rows -> 0 .. 2]
    BY DEF Rows
  <2>2. consumer \in [at : {"idle", "selected", "paged", "handled"},
                      msg : Incidents \cup {Nobody}, failed : 0 .. MaxRetries]
    BY BoundsAssumption
  <2> QED BY <2>1, <2>2 DEF TypeOK
<1> QED BY <1>1, <1>2, <1>3, Inductive, PTL DEF Spec
-----------------------------------------------------------------------------
\* The theorems of IncidentLife, at the instance ResponseParts composes.
LP == INSTANCE IncidentLife_proofs WITH
  None <- Nobody, Operators <- Users, MaxRetries <- MaxHandlerRetries,
  MaxRequests <- MaxUserRequests, MaxCrashes <- MaxDeaths,
  age <- candidateAge, dlq <- givenUp, paged <- onCallPaged, request <- apiRequest,
  requests <- apiRequests, crashes <- deaths

\* Both instances of IncidentLife are the same.
LEMMA SameLife ==
  /\ L!Init <=> LP!Init
  /\ [L!Next]_L!vars <=> [LP!Next]_LP!vars
  /\ RunsOncePerLife <=> LP!RunsOncePerLife
  /\ OnlyConfirmedPaged <=> LP!OnlyConfirmedPaged
<1> USE DEF
  L!Verdicts, LP!Verdicts, L!row, LP!row, L!world, LP!world, L!candidate,
  LP!candidate, L!playbooks, LP!playbooks, L!escalation, LP!escalation, L!api,
  LP!api, L!vars, LP!vars, L!Statuses, LP!Statuses, L!Attributes, LP!Attributes,
  L!Consumers, LP!Consumers, L!Clients, LP!Clients, L!StatusOf, LP!StatusOf,
  L!NoAttributes, LP!NoAttributes, L!ReasonIdle, LP!ReasonIdle, L!PlaybookIdle,
  LP!PlaybookIdle, L!EscalatorIdle, LP!EscalatorIdle, L!NoRequest, LP!NoRequest,
  L!Init, LP!Init, L!Counted, LP!Counted, L!Retried, LP!Retried, L!AlreadyVerified,
  LP!AlreadyVerified, L!Shed, LP!Shed, L!ReasonTakes, LP!ReasonTakes, L!Marked,
  LP!Marked, L!ReasonDefers, LP!ReasonDefers, L!ReasonReads, LP!ReasonReads,
  L!ReasonDecides, LP!ReasonDecides, L!ReasonPublishes, LP!ReasonPublishes,
  L!ReasonRaises, LP!ReasonRaises, L!ReasonCommitsOffset, LP!ReasonCommitsOffset,
  L!RanBefore, LP!RanBefore, L!PlaybookTakes, LP!PlaybookTakes, L!Escalates,
  LP!Escalates, L!PlaybookOpensCase, LP!PlaybookOpensCase, L!PlaybookSends,
  LP!PlaybookSends, L!PlaybookAsks, LP!PlaybookAsks, L!Answered, LP!Answered,
  L!AnsweredOrTimedOut, LP!AnsweredOrTimedOut, L!PlaybookGoesOn, LP!PlaybookGoesOn,
  L!PlaybookCommits, LP!PlaybookCommits, L!PlaybookRaises, LP!PlaybookRaises,
  L!PlaybookCommitsOffset, LP!PlaybookCommitsOffset, L!Unacked, LP!Unacked,
  L!EscalatorSelects, LP!EscalatorSelects, L!NextLevel, LP!NextLevel,
  L!EscalatorPages, LP!EscalatorPages, L!EscalatorCommits, LP!EscalatorCommits,
  L!EscalatorRaises, LP!EscalatorRaises, L!RequestLoads, LP!RequestLoads,
  L!IncidentAction, LP!IncidentAction, L!IncidentInvestigate,
  LP!IncidentInvestigate, L!RequestFails, LP!RequestFails, L!AgeAdvances,
  LP!AgeAdvances, L!CandidateGoesStale, LP!CandidateGoesStale, L!ReasonCrashes,
  LP!ReasonCrashes, L!NotifyCrashes, LP!NotifyCrashes, L!Reason, LP!Reason,
  L!Playbook, LP!Playbook, L!Escalator, LP!Escalator, L!Requests, LP!Requests,
  L!Next, LP!Next
<1>1. L!Init <=> LP!Init
  OBVIOUS
<1>2. [L!Next]_L!vars <=> [LP!Next]_LP!vars
  OBVIOUS
<1>3. /\ RunsOncePerLife <=> LP!RunsOncePerLife
      /\ OnlyConfirmedPaged <=> LP!OnlyConfirmedPaged
  BY DEF RunsOncePerLife, OnlyConfirmedPaged, L!RunsOncePerLife, LP!RunsOncePerLife,
     L!OnlyConfirmedPaged, LP!OnlyConfirmedPaged
<1> QED BY <1>1, <1>2, <1>3

LEMMA SameParameters == LP!PlaybooksAssumption /\ LP!BoundsAssumption
BY LifeParameters DEF LP!PlaybooksAssumption, L!PlaybooksAssumption, LP!BoundsAssumption,
   L!BoundsAssumption, LP!Verdicts, L!Verdicts

\* What the composition explores are behaviours of the two modules, and nothing else.
THEOREM PartsBehaveAsModules == PartsSpec => Spec /\ L!Spec
<1>1. PartsInit => Init /\ L!Init
  BY DEF PartsInit
<1>2. UNCHANGED vars => [Next]_vars
  OBVIOUS
<1>3. UNCHANGED life => [L!Next]_L!vars
  BY DEF life, L!vars, L!row, L!world, L!candidate, L!playbooks, L!escalation, L!api
<1>4. [PartsNext]_<<part, vars, life>> => [Next]_vars /\ [L!Next]_L!vars
  BY <1>2, <1>3 DEF PartsNext, InLife, L!Next
<1> QED BY <1>1, <1>4, PTL DEF PartsSpec, Spec, L!Spec

\* playbooks.py:95-98.  Beside a dispatch service that goes its own way, a playbook's
\* mails and webhooks go out once in the life of the notify process.
THEOREM PartsSendOncePerLife == PartsSpec => []RunsOncePerLife
<1>1. LP!Spec => []LP!RunsOncePerLife
  BY SameParameters, LP!SendsOncePerLife
<1> QED BY <1>1, SameLife, PartsBehaveAsModules, PTL DEF L!Spec, LP!Spec

\* escalation.py:72-74.  There too, nobody is paged for an incident the model rejected
\* or could not verify, or has not verified yet.
THEOREM PartsPageConfirmed == PartsSpec => []OnlyConfirmedPaged
<1>1. LP!Spec => []LP!OnlyConfirmedPaged
  BY SameParameters, LP!PagesNeedAVerdict
<1> QED BY <1>1, SameLife, PartsBehaveAsModules, PTL DEF L!Spec, LP!Spec
=============================================================================
