----------------------------- MODULE NotifyEngine -----------------------------
(***************************************************************************)
(* The notification rules: one consumer of the verified incidents that     *)
(* mails, calls the webhook, pushes to browsers and then writes an audit   *)
(* entry.  An incident is remembered as notified before any of this is     *)
(* tried, so that a call that fails and is retried repeats nothing.        *)
(***************************************************************************)
EXTENDS Integers, Sequences

CONSTANTS
  Incidents,
  MaxMessages,   \* bound on the messages announced
  MaxCrashes     \* bound on process deaths

VARIABLES
  queue,       \* messages not consumed yet; the first one is in hand or next
  at,          \* idle, email, channels, audit, done
  remembered,  \* _seen
  mailed,      \* history: incidents mailed since they were announced first
  told,        \* history: incidents of consumed messages that had to be notified
  audited,     \* incidents with a notify.sent entry
  announced, crashes

vars == <<queue, at, remembered, mailed, told, audited, announced, crashes>>

\* `due` stands for only_confirmed and severity_meets.
Messages == [incident : Incidents, due : BOOLEAN]

Init ==
  /\ queue = << >> /\ at = "idle" /\ remembered = {}
  /\ mailed = {} /\ told = {} /\ audited = {} /\ announced = 0 /\ crashes = 0

\* The reason service; a message may be produced twice.
Announce(m) ==
  /\ announced < MaxMessages
  /\ announced' = announced + 1
  /\ queue' = Append(queue, m)
  /\ UNCHANGED <<at, remembered, mailed, told, audited, crashes>>

Current == Head(queue)
Wanted == Current.due /\ Current.incident \notin remembered

\* handle, up to its first await.
Take ==
  /\ at = "idle" /\ queue # << >>
  /\ IF Wanted
     THEN at' = "email" /\ remembered' = remembered \cup {Current.incident}
     ELSE at' = "done" /\ UNCHANGED remembered
  /\ UNCHANGED <<queue, mailed, told, audited, announced, crashes>>

\* send_email reports a failure, it does not raise.
Email ==
  /\ at = "email"
  /\ at' = "channels" /\ mailed' = mailed \cup {Current.incident}
  /\ UNCHANGED <<queue, remembered, told, audited, announced, crashes>>

\* send_webhook, send_webpush.
Channels ==
  /\ at = "channels"
  /\ at' = "audit"
  /\ UNCHANGED <<queue, remembered, mailed, told, audited, announced, crashes>>

Audit ==
  /\ at = "audit"
  /\ at' = "done" /\ audited' = audited \cup {Current.incident}
  /\ UNCHANGED <<queue, remembered, mailed, told, announced, crashes>>

\* An unreadable push key, or a database that is down: the bus calls again.  It never
\* gets to the DLQ, since the second call finds the incident remembered.
Raise ==
  /\ at \in {"channels", "audit"}
  /\ at' = "idle"
  /\ UNCHANGED <<queue, remembered, mailed, told, audited, announced, crashes>>

Consume ==
  /\ at = "done"
  /\ at' = "idle"
  /\ queue' = Tail(queue)
  /\ told' = IF Current.due THEN told \cup {Current.incident} ELSE told
  /\ UNCHANGED <<remembered, mailed, audited, announced, crashes>>

\* The process dies; the message in hand is delivered again.
Kept == remembered     \* mutant: remembered in a store of its own
Forgotten == {}

Crash ==
  /\ crashes < MaxCrashes
  /\ crashes' = crashes + 1
  /\ at' = "idle" /\ remembered' = Forgotten
  /\ UNCHANGED <<queue, mailed, told, audited, announced>>

Next ==
  \/ \E m \in Messages : Announce(m)
  \/ Take \/ Email \/ Channels \/ Audit \/ Raise \/ Consume \/ Crash

Spec == Init /\ [][Next]_vars
-----------------------------------------------------------------------------
\* engine.py:35-39.  Although an incident is marked before it is mailed, no message that
\* had to be notified is consumed without a mail having been tried, in this life of the
\* process or in an earlier one.
ConsumedIsNotified == told \subseteq mailed
=============================================================================
