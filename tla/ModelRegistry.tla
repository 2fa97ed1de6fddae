---------------------------- MODULE ModelRegistry ----------------------------
(***************************************************************************)
(* The model registry: which version of a model is the champion of its     *)
(* role.  Requests of the API register the default models and promote one; *)
(* the governance library decides whether a challenger beats the champion  *)
(* and promotes it.  Each request is one READ COMMITTED transaction: it    *)
(* reads, then commits what follows from what it read.  One role.          *)
(***************************************************************************)
EXTENDS Integers, FiniteSets, Sequences

CONSTANTS
  Models,    \* names of the default models
  Default,   \* the one registered as champion
  Requests,  \* concurrent requests
  Scores,    \* precision and recall in thousandths
  Delta,     \* min_delta in thousandths
  MaxRows, MaxCount   \* bounds

VARIABLES
  rows,     \* model_versions: name and stage, in order of creation
  evals,    \* per row, the latest eval run
  audit,    \* audit_logs: the promotions
  tx,       \* per request: what it has read
  count     \* bound: requests and eval runs so far

vars == <<rows, evals, audit, tx, count>>

Rows == DOMAIN rows
Champions == {m \in Rows : rows[m].stage = "champion"}
Runs == [passed : BOOLEAN, p : Scores, r : Scores]
NoRun == [passed |-> FALSE, p |-> 0, r |-> 0]
Idle == [pc |-> "idle", model |-> 0, force |-> FALSE, run |-> NoRun, seen |-> {}, alone |-> TRUE]

Init ==
  /\ rows = << >> /\ evals = << >> /\ audit = << >>
  /\ tx = [q \in Requests |-> Idle]
  /\ count = 0

\* A request is alone when no other is open between its first read and its commit.
Begin(q, t) ==
  LET others == {o \in Requests : tx[o].pc # "idle"}
  IN  /\ tx[q].pc = "idle" /\ count < MaxCount
      /\ count' = count + 1
      /\ tx' = [o \in Requests |->
                  IF o = q THEN [t EXCEPT !.alone = others = {}]
                  ELSE IF o \in others THEN [tx[o] EXCEPT !.alone = FALSE] ELSE tx[o]]
      /\ UNCHANGED <<rows, evals, audit>>
Done(q) == tx' = [tx EXCEPT ![q] = Idle]

\* register_models: the default models that have no row of their name.
Named(n) == {m \in Rows : rows[m].name = n}
Register(q) == Begin(q, [Idle EXCEPT !.pc = "register",
                                     !.seen = {n \in Models : Named(n) = {}}])
\* scalar_one_or_none raises when a name has two rows.
Registrable == \A n \in Models : Cardinality(Named(n)) <= 1
NewRow(n) == [name |-> n, stage |-> IF n = Default THEN "champion" ELSE "challenger"]
CommitRegister(q) ==
  /\ tx[q].pc = "register" /\ Len(rows) + Cardinality(tx[q].seen) <= MaxRows
  /\ \E new \in [1 .. Cardinality(tx[q].seen) -> tx[q].seen] :
       /\ \A i, j \in DOMAIN new : new[i] = new[j] => i = j
       /\ rows' = rows \o [i \in DOMAIN new |-> NewRow(new[i])]
       /\ evals' = evals \o [i \in DOMAIN new |-> NoRun]
  /\ Done(q)
  /\ UNCHANGED <<audit, count>>

\* promote_model: the gate, then the champions of the role, then the swap.
Gate(q, m, force) ==
  /\ force \/ evals[m].passed
  /\ Begin(q, [Idle EXCEPT !.pc = "gated", !.model = m, !.force = force, !.run = evals[m]])
FirstChampion(q) ==      \* mutant
  /\ tx[q].pc = "gated"
  /\ tx' = [tx EXCEPT ![q].pc = "swap",
                      ![q].seen = {m \in Champions : \A o \in Champions : m <= o}]
  /\ UNCHANGED <<rows, evals, audit, count>>
Incumbents(q) ==
  /\ tx[q].pc = "gated"
  /\ tx' = [tx EXCEPT ![q].pc = "swap", ![q].seen = Champions]
  /\ UNCHANGED <<rows, evals, audit, count>>
Swapped(q) ==
  [m \in Rows |-> IF m = tx[q].model THEN [rows[m] EXCEPT !.stage = "champion"]
                  ELSE IF m \in tx[q].seen THEN [rows[m] EXCEPT !.stage = "retired"]
                  ELSE rows[m]]
Swap(q) ==
  /\ tx[q].pc = "swap"
  /\ rows' = Swapped(q)
  /\ audit' = Append(audit, [model |-> tx[q].model, passed |-> tx[q].run.passed,
                             forced |-> tx[q].force])
  /\ Done(q)
  /\ UNCHANGED <<evals, count>>

\* The governance library.  The thousandths are exact: its 1e-9 stands for rounding.
ChallengerWins(c, x) ==
  /\ x.p >= c.p /\ x.r >= c.r
  /\ x.p >= c.p + Delta \/ x.r >= c.r + Delta
\* decide_promotion: the newest challenger against the champion; two champions raise.
Challengers == {m \in Rows : rows[m].stage = "challenger"}
Decides(m) ==
  /\ m \in Challengers /\ \A o \in Challengers : o <= m
  /\ Cardinality(Champions) <= 1
  /\ \A c \in Champions : ChallengerWins(evals[c], evals[m])
Decide(q, m) ==
  /\ Decides(m)
  /\ Begin(q, [Idle EXCEPT !.pc = "retire", !.model = m, !.run = evals[m]])
\* promote: the champions are read again, and no audit entry is written.
Retire(q) ==
  /\ tx[q].pc = "retire"
  /\ rows' = [m \in Rows |-> IF m = tx[q].model THEN [rows[m] EXCEPT !.stage = "champion"]
                             ELSE IF m \in Champions THEN [rows[m] EXCEPT !.stage = "retired"]
                             ELSE rows[m]]
  /\ Done(q)
  /\ UNCHANGED <<evals, audit, count>>

\* An eval run is recorded (bench.eval_harness).
Evaluate(m, run) ==
  /\ count < MaxCount
  /\ evals' = [evals EXCEPT ![m] = run]
  /\ count' = count + 1
  /\ UNCHANGED <<rows, audit, tx>>

Rollback(q) ==
  /\ tx[q].pc # "idle"
  /\ Done(q)
  /\ UNCHANGED <<rows, evals, audit, count>>

Next ==
  \/ \E q \in Requests :
       \/ Registrable /\ Register(q)
       \/ CommitRegister(q)
       \/ \E m \in Rows, force \in BOOLEAN : Gate(q, m, force)
       \/ Incumbents(q) \/ Swap(q)
       \/ \E m \in Rows : Decide(q, m)
       \/ Retire(q) \/ Rollback(q)
  \/ \E m \in Rows, run \in Runs : Evaluate(m, run)

Spec == Init /\ [][Next]_vars
-----------------------------------------------------------------------------
\* app.py:2791, eval.py:5.  A promotion that no other request overlapped leaves
\* its model the one champion, also when promotions that did overlap had left two.
PromotionSettlesTheRole ==
  [][\A q \in Requests :
       tx[q].alone /\ tx[q].pc \in {"swap", "retire"} /\ tx'[q] = Idle
         /\ (rows' # rows \/ audit' # audit)
         => Champions' = {tx[q].model}]_vars
=============================================================================
