-------------------------- MODULE ServiceParts_proofs --------------------------
(***************************************************************************)
(* The parts of ServiceParts but the vault and the migrations, each proved *)
(* by itself, as ServiceParts takes it, for every value of the constants.  *)
(* First those that people and their messages drive: who may write, which  *)
(* model is the champion, who is notified, and how far apart alerts and    *)
(* sweeps raise incidents; then those that follow the cameras: their       *)
(* sources, what is recorded of them, the decoding of their streams, how   *)
(* the fleet monitor learns that one is silent, and the correlation of     *)
(* their sites.                                                            *)
(***************************************************************************)
EXTENDS ServiceParts, FiniteSetTheorems, TLAPS

IsToken(k) == k.sub \in Users /\ k = [sub |-> k.sub, role |-> k.role, left |-> k.left]

\* A write under way was let through when its user was allowed to write.
LetThrough ==
  /\ \A k \in tokens : IsToken(k)
  /\ request \in [Users -> [write : BOOLEAN, on : BOOLEAN, been : SUBSET BOOLEAN]]
  /\ \A u \in Users : request[u].on /\ request[u].write => TRUE \in request[u].been

AccessInv == LetThrough /\ A!WritersWereAllowed

LEMMA AdmittedKeeps ==
  ASSUME LetThrough, NEW u \in Users, NEW write \in BOOLEAN, write => A!May(u)',
         A!Admitted(u, write)
  PROVE  /\ request' \in [Users -> [write : BOOLEAN, on : BOOLEAN, been : SUBSET BOOLEAN]]
         /\ \A v \in Users : request'[v].on /\ request'[v].write => TRUE \in request'[v].been
<1>1. PICK m \in BOOLEAN : m = A!May(u)'
  BY DEF A!May
<1> DEFINE r == [write |-> write, on |-> TRUE, been |-> {m}]
<1>2. request' = [request EXCEPT ![u] = r]
  BY <1>1 DEF A!Admitted
<1>3. write => m = TRUE
  BY <1>1
<1>4. r \in [write : BOOLEAN, on : BOOLEAN, been : SUBSET BOOLEAN] /\ (r.write => TRUE \in r.been)
  BY <1>3
<1> HIDE DEF r
<1> QED BY <1>2, <1>4 DEF LetThrough

LEMMA AccessStep == AccessInv /\ [A!Next]_A!vars => AccessInv'
<1> SUFFICES ASSUME AccessInv, [A!Next]_A!vars PROVE AccessInv'
  OBVIOUS
<1> USE DEF AccessInv
<1>1. ASSUME NEW u \in Users, A!Login(u) PROVE AccessInv'
  <2>1. UNCHANGED <<request, written>>
    BY <1>1 DEF A!Login
  <2>2. \A k \in tokens' : IsToken(k)
    BY <1>1 DEF A!Login, LetThrough, IsToken
  <2> QED BY <2>1, <2>2 DEF LetThrough, A!WritersWereAllowed
<1>2. ASSUME NEW k \in tokens, NEW write \in BOOLEAN, A!Admit(k, write) PROVE AccessInv'
  <2>1. k.sub \in Users /\ UNCHANGED <<users, tokens, written>> /\ A!Admitted(k.sub, write)
    BY <1>2 DEF A!Admit, LetThrough, IsToken
  <2>2. write => A!May(k.sub)'
    BY <1>2, <2>1 DEF A!Admit, A!RoleOf, A!May
  <2> QED BY <2>1, <2>2, AdmittedKeeps DEF LetThrough, A!WritersWereAllowed
<1>3. ASSUME NEW u \in Users, NEW claim \in A!Roles, NEW write \in BOOLEAN, A!AdmitSso(u, claim, write)
      PROVE  AccessInv'
  <2>1. UNCHANGED <<tokens, written>>
    BY <1>3 DEF A!AdmitSso
  <2>2. CASE UNCHANGED request
    BY <2>1, <2>2 DEF LetThrough, A!WritersWereAllowed
  <2>3. CASE A!Admitted(u, write) /\ (write => A!May(u)')
    BY <2>1, <2>3, AdmittedKeeps DEF LetThrough, A!WritersWereAllowed
  <2> QED BY <1>3, <2>2, <2>3 DEF A!AdmitSso, A!May
<1>4. ASSUME NEW u \in Users, A!Handle(u) PROVE AccessInv'
  <2>1. LetThrough'
    BY <1>4 DEF A!Handle, LetThrough, A!NoRequest
  <2>2. A!WritersWereAllowed'
    BY <1>4 DEF A!Handle, LetThrough, A!WritersWereAllowed
  <2> QED BY <2>1, <2>2
<1>5. ASSUME NEW u \in Users, NEW role \in A!Roles, A!Create(u, role) PROVE AccessInv'
  BY <1>5 DEF A!Create, LetThrough, A!WritersWereAllowed
<1>6. ASSUME NEW u \in Users, NEW role \in A!Roles, NEW on \in BOOLEAN, A!Patch(u, role, on)
      PROVE  AccessInv'
  <2>1. PICK m \in BOOLEAN : m = (on /\ role \in A!Writers)
    OBVIOUS
  <2> DEFINE been == IF request[u].on THEN request[u].been \cup {m} ELSE request[u].been
  <2>2. UNCHANGED <<tokens, written>> /\ request' = [request EXCEPT ![u].been = been]
    BY <1>6, <2>1 DEF A!Patch
  <2>3. been \in SUBSET BOOLEAN /\ request[u].been \subseteq been
    BY DEF LetThrough
  <2> HIDE DEF been
  <2> QED BY <2>2, <2>3 DEF LetThrough, A!WritersWereAllowed
<1>7. CASE A!Tick
  <2>1. UNCHANGED <<request, written>>
    BY <1>7 DEF A!Tick
  <2>2. \A k \in tokens' : IsToken(k)
    BY <1>7 DEF A!Tick, LetThrough, IsToken
  <2> QED BY <2>1, <2>2 DEF LetThrough, A!WritersWereAllowed
<1>8. CASE UNCHANGED A!vars
  BY <1>8 DEF A!vars, LetThrough, A!WritersWereAllowed
<1> QED BY <1>1, <1>2, <1>3, <1>4, <1>5, <1>6, <1>7, <1>8 DEF A!Next

\* auth.py:110-131, app.py:236-262.  However old a token is and whoever changes roles
\* meanwhile, a write takes effect only of a user who was active and allowed to write
\* at some moment of the request.
THEOREM RowDecides == A!Spec => []WritersWereAllowed
<1>1. A!Init => AccessInv
  <2> SUFFICES ASSUME A!Init PROVE AccessInv
    OBVIOUS
  <2>1. A!NoRequest \in [write : BOOLEAN, on : BOOLEAN, been : SUBSET BOOLEAN] /\ ~A!NoRequest.on
    BY DEF A!NoRequest
  <2> QED BY <2>1 DEF A!Init, AccessInv, LetThrough, A!WritersWereAllowed
<1>2. AccessInv => WritersWereAllowed
  BY DEF AccessInv, WritersWereAllowed
<1> QED BY <1>1, <1>2, AccessStep, PTL DEF A!Spec
-----------------------------------------------------------------------------
NotifyTypes ==
  /\ queue \in Seq(N!Messages)
  /\ step \in {"idle", "email", "channels", "audit", "done"}
  /\ step # "idle" => queue # << >>

\* What is remembered was mailed, but for the incident about to be mailed; and the
\* message in hand was mailed, or needs no mail, once it is past the mail.
RememberedIsMailed ==
  /\ \A i \in remembered : i \in mailed \/ (step = "email" /\ i = N!Current.incident)
  /\ step \in {"channels", "audit"} => N!Current.incident \in mailed
  /\ step = "done" /\ N!Current.due => N!Current.incident \in mailed

NotifyInv == NotifyTypes /\ RememberedIsMailed /\ N!ConsumedIsNotified

LEMMA NotifyStep == NotifyInv /\ [N!Next]_N!vars => NotifyInv'
<1> SUFFICES ASSUME NotifyInv, [N!Next]_N!vars PROVE NotifyInv'
  OBVIOUS
<1> USE DEF NotifyInv
<1>1. ASSUME NEW m \in N!Messages, N!Announce(m) PROVE NotifyInv'
  <2>1. UNCHANGED <<step, remembered, mailed, told>> /\ queue' = Append(queue, m)
    BY <1>1 DEF N!Announce
  <2>2. queue' \in Seq(N!Messages) /\ queue' # << >>
    BY <2>1 DEF NotifyTypes
  <2>3. step # "idle" => N!Current' = N!Current
    BY <2>1 DEF NotifyTypes, N!Current
  <2> QED BY <2>1, <2>2, <2>3 DEF NotifyTypes, RememberedIsMailed, N!ConsumedIsNotified
<1>2. CASE N!Take
  BY <1>2 DEF N!Take, N!Wanted, N!Current, NotifyTypes, RememberedIsMailed, N!ConsumedIsNotified
<1>3. CASE N!Email
  BY <1>3 DEF N!Email, N!Current, NotifyTypes, RememberedIsMailed, N!ConsumedIsNotified
<1>4. CASE N!Channels
  BY <1>4 DEF N!Channels, N!Current, NotifyTypes, RememberedIsMailed, N!ConsumedIsNotified
<1>5. CASE N!Audit
  BY <1>5 DEF N!Audit, N!Current, NotifyTypes, RememberedIsMailed, N!ConsumedIsNotified
<1>6. CASE N!Raise
  BY <1>6 DEF N!Raise, NotifyTypes, RememberedIsMailed, N!ConsumedIsNotified
<1>7. CASE N!Consume
  <2>1. Tail(queue) \in Seq(N!Messages)
    BY <1>7 DEF N!Consume, NotifyTypes
  <2> QED BY <1>7, <2>1 DEF N!Consume, NotifyTypes, RememberedIsMailed, N!ConsumedIsNotified
<1>8. CASE N!Crash
  BY <1>8 DEF N!Crash, N!Forgotten, NotifyTypes, RememberedIsMailed, N!ConsumedIsNotified
<1>9. CASE UNCHANGED N!vars
  BY <1>9 DEF N!vars, N!Current, NotifyTypes, RememberedIsMailed, N!ConsumedIsNotified
<1> QED BY <1>1, <1>2, <1>3, <1>4, <1>5, <1>6, <1>7, <1>8, <1>9 DEF N!Next

\* engine.py:35-39 of the notify service.  Marking an incident before it is mailed loses
\* no mail: a message that had to be notified is consumed only after a mail was tried.
THEOREM MarkedFirstLosesNothing == N!Spec => []ConsumedIsNotified
<1>1. N!Init => NotifyInv
  BY DEF N!Init, NotifyInv, NotifyTypes, RememberedIsMailed, N!ConsumedIsNotified
<1>2. NotifyInv => ConsumedIsNotified
  BY DEF NotifyInv, ConsumedIsNotified
<1> QED BY <1>1, <1>2, NotifyStep, PTL DEF N!Spec
-----------------------------------------------------------------------------
\* A cooldown began no earlier than MaxLag before the incident it belongs to.
SweepAges ==
  /\ sweep \in -1 .. MaxSweepLag
  /\ cool \in [G!Keys -> 0 .. G!Never]
  /\ sweepAge \in [G!Keys -> 0 .. G!Never]
  /\ \A k \in G!Keys : cool[k] <= sweepAge[k] + MaxSweepLag

LEMMA GrownSweepAge ==
  ASSUME NEW a \in 0 .. G!Never
  PROVE  /\ G!Grown(a) \in 0 .. G!Never
         /\ G!Grown(a) = IF a < G!Never THEN a + 1 ELSE G!Never
BY SweepAssumption DEF G!Grown, G!Never, G!SweepParameters

LEMMA TickAges == ASSUME SweepAges, G!Tick PROVE SweepAges'
<1>1. sweep' \in -1 .. MaxSweepLag
  BY SweepAssumption DEF G!Tick, SweepAges, G!SweepParameters
<1>2. /\ cool' = [k \in G!Keys |-> G!Grown(cool[k])]
      /\ sweepAge' = [k \in G!Keys |-> G!Grown(sweepAge[k])]
  BY DEF G!Tick
<1>3. ASSUME NEW k \in G!Keys
      PROVE  /\ G!Grown(cool[k]) \in 0 .. G!Never /\ G!Grown(sweepAge[k]) \in 0 .. G!Never
             /\ G!Grown(cool[k]) <= G!Grown(sweepAge[k]) + MaxSweepLag
  <2>1. cool[k] \in 0 .. G!Never /\ sweepAge[k] \in 0 .. G!Never /\ cool[k] <= sweepAge[k] + MaxSweepLag
    BY DEF SweepAges
  <2>2. G!Never \in Nat /\ MaxSweepLag \in Nat
    BY SweepAssumption DEF G!Never, G!SweepParameters
  <2> QED BY <2>1, <2>2, GrownSweepAge
<1> QED BY <1>1, <1>2, <1>3 DEF SweepAges

LEMMA FireAges == ASSUME SweepAges, NEW k \in G!Keys, G!Fire(k), sweep # -1 PROVE SweepAges'
<1>1. /\ cool' = [cool EXCEPT ![k] = sweep]
      /\ sweep' \in {sweep, -1}
      /\ sweepAge' = sweepAge \/ sweepAge' = [sweepAge EXCEPT ![k] = 0]
  BY DEF G!Fire
<1>2. sweep \in 0 .. MaxSweepLag /\ sweep \in 0 .. G!Never /\ 0 \in 0 .. G!Never /\ MaxSweepLag \in Nat
  BY SweepAssumption DEF SweepAges, G!SweepParameters, G!Never
<1>3. cool' \in [G!Keys -> 0 .. G!Never] /\ sweepAge' \in [G!Keys -> 0 .. G!Never]
  BY <1>1, <1>2 DEF SweepAges
<1>4. ASSUME NEW l \in G!Keys PROVE cool'[l] <= sweepAge'[l] + MaxSweepLag
  <2>1. cool[l] \in 0 .. G!Never /\ sweepAge[l] \in 0 .. G!Never /\ cool[l] <= sweepAge[l] + MaxSweepLag
    BY DEF SweepAges
  <2>2. G!Never \in Nat
    BY SweepAssumption DEF G!Never, G!SweepParameters
  <2> QED BY <1>1, <1>2, <2>1, <2>2 DEF SweepAges
<1> QED BY <1>1, <1>2, <1>3, <1>4 DEF SweepAges

\* A camera or a match is in hand only while a tick runs.
InSweep == (toSweep # {} \/ matches # {}) => sweep # -1

SweepInv == SweepAges /\ InSweep

LEMMA SweepStep == ASSUME SweepInv, [G!Next]_G!vars PROVE SweepInv'
<1>1. CASE G!Tick
  <2>1. InSweep'
    BY SweepAssumption, <1>1 DEF G!Tick, SweepInv, InSweep, SweepAges, G!SweepParameters
  <2> QED BY <1>1, <2>1, TickAges DEF SweepInv
<1>2. CASE G!Begin
  BY SweepAssumption, <1>2 DEF G!Begin, SweepInv, InSweep, SweepAges, G!SweepParameters
<1>3. CASE G!End
  <2>1. sweep' = -1 /\ toSweep' = {} /\ matches' = {} /\ UNCHANGED sweepAge
        /\ cool' = [k \in G!Keys |-> IF cool[k] - sweep < G!Horizon THEN cool[k] ELSE G!Never]
    BY <1>3 DEF G!End
  <2>2. MaxSweepLag \in Nat /\ sweep \in 0 .. MaxSweepLag /\ G!Never \in Nat /\ G!Horizon = G!Never
    BY SweepAssumption, <1>3 DEF G!End, SweepInv, SweepAges, G!SweepParameters, G!Never, G!Horizon
  <2>3. ASSUME NEW k \in G!Keys
        PROVE  cool'[k] \in 0 .. G!Never /\ cool'[k] <= sweepAge'[k] + MaxSweepLag
    <3>1. cool[k] \in 0 .. G!Never /\ sweepAge[k] \in 0 .. G!Never /\ cool[k] <= sweepAge[k] + MaxSweepLag
      BY DEF SweepInv, SweepAges
    <3>2. cool'[k] = cool[k]
      BY <2>1, <2>2, <3>1
    <3> QED BY <2>1, <3>1, <3>2
  <2>4. SweepAges'
    BY <2>1, <2>2, <2>3 DEF SweepInv, SweepAges
  <2> QED BY <2>1, <2>4 DEF SweepInv, InSweep
<1>4. CASE G!Restart
  <2>1. G!Never \in Nat /\ MaxSweepLag \in Nat
    BY SweepAssumption DEF G!Never, G!SweepParameters
  <2> QED BY <1>4, <2>1 DEF G!Restart, SweepInv, SweepAges, InSweep
<1>5. CASE \E c \in SweepCameras : G!NotDue(c) \/ G!NoFrame(c) \/ G!Evaluate(c)
  <2>1. toSweep # {} /\ UNCHANGED <<sweep, cool, sweepAge>>
    BY <1>5 DEF G!NotDue, G!NoFrame, G!Evaluate
  <2> QED BY <2>1 DEF SweepInv, SweepAges, InSweep
<1>6. ASSUME NEW k \in G!Keys, G!Passed(k) PROVE SweepInv'
  <2>1. matches # {} /\ UNCHANGED <<sweep, cool, sweepAge>>
    BY <1>6 DEF G!Passed
  <2> QED BY <2>1 DEF SweepInv, SweepAges, InSweep
<1>7. ASSUME NEW k \in G!Keys, G!Fire(k) PROVE SweepInv'
  <2>1. matches # {} /\ (sweep' = sweep \/ (matches' = {} /\ toSweep' = {}))
    BY <1>7 DEF G!Fire
  <2>2. sweep # -1
    BY <2>1 DEF SweepInv, InSweep
  <2> QED BY <1>7, <2>1, <2>2, FireAges DEF SweepInv, InSweep
<1>8. CASE UNCHANGED G!vars
  BY <1>8 DEF G!vars, SweepInv, SweepAges, InSweep
<1> QED BY <1>1, <1>2, <1>3, <1>4, <1>5, <1>6, <1>7, <1>8 DEF G!Next

\* signature_sweep.py:177-187.  Although cooldowns run from the start of a tick, are pruned
\* and are not stamped by the clock that stores the incident, incidents of one camera and
\* signature are Cooldown less the length of a tick apart.
THEOREM RefiresAreFar == G!Spec => RefiresAreApart
<1>1. G!Init => SweepInv
  <2>1. G!Never \in Nat /\ MaxSweepLag \in Nat
    BY SweepAssumption DEF G!Never, G!SweepParameters
  <2> QED BY <2>1 DEF G!Init, SweepInv, SweepAges, InSweep
<1>2. SweepInv /\ [G!Next]_G!vars => SweepInv'
  BY SweepStep
<1>3. SweepInv /\ [G!Next]_G!vars =>
        [\A k \in G!Keys : sweepAge'[k] = 0 /\ sweepAge[k] # 0 => sweepAge[k] >= SweepCooldown - MaxSweepLag]_G!vars
  <2> SUFFICES ASSUME SweepInv, G!Next, NEW k \in G!Keys, sweepAge'[k] = 0, sweepAge[k] # 0
               PROVE  sweepAge[k] >= SweepCooldown - MaxSweepLag
    OBVIOUS
  <2>1. /\ cool[k] \in 0 .. G!Never /\ sweepAge[k] \in 0 .. G!Never
        /\ cool[k] <= sweepAge[k] + MaxSweepLag /\ sweep \in -1 .. MaxSweepLag
    BY DEF SweepInv, SweepAges
  <2>2. G!Never \in Nat /\ MaxSweepLag \in Nat /\ SweepCooldown \in Nat /\ MaxSweepLag < SweepCooldown
        /\ G!Never = 2 * SweepCooldown
    BY SweepAssumption DEF G!Never, G!SweepParameters
  <2>3. CASE G!Tick
    <3>1. sweepAge'[k] = G!Grown(sweepAge[k])
      BY <2>3 DEF G!Tick
    <3> QED BY <2>1, <2>2, <3>1, GrownSweepAge
  <2>4. CASE G!Restart
    <3>1. sweepAge'[k] = G!Never
      BY <2>4 DEF G!Restart
    <3> QED BY <2>2, <3>1
  <2>5. ASSUME NEW l \in G!Keys, G!Fire(l) PROVE sweepAge[k] >= SweepCooldown - MaxSweepLag
    <3>1. matches # {} /\ ~G!Cools(l)
          /\ (sweepAge' = [sweepAge EXCEPT ![l] = 0] \/ sweepAge' = sweepAge)
      BY <2>5 DEF G!Fire
    <3>2. l = k
      BY <3>1 DEF SweepInv, SweepAges
    <3>3. sweep >= 0
      BY <2>1, <3>1 DEF SweepInv, InSweep
    <3> QED BY <2>1, <2>2, <3>1, <3>2, <3>3 DEF G!Cools
  <2>6. CASE G!Begin \/ G!End \/ (\E c \in SweepCameras : G!NotDue(c) \/ G!NoFrame(c) \/ G!Evaluate(c))
             \/ \E l \in G!Keys : G!Passed(l)
    <3>1. sweepAge' = sweepAge
      BY <2>6 DEF G!Begin, G!End, G!NotDue, G!NoFrame, G!Evaluate, G!Passed
    <3> QED BY <3>1
  <2> QED BY <2>3, <2>4, <2>5, <2>6 DEF G!Next
<1> QED BY <1>1, <1>2, <1>3, PTL DEF G!Spec, RefiresAreApart, G!RefiresAreApart
-----------------------------------------------------------------------------
\* What a tick has loaded is what the row still says: only the tick itself fires.
AlertInv ==
  /\ lag \in -1 .. MaxAlertLag /\ since \in 0 .. L!Never
  /\ fired = since
  /\ lag # -1 => loaded = since
  /\ frame => lag # -1

LEMMA AlertStep == AlertInv /\ [L!Next]_L!vars => AlertInv'
<1>1. AlertCooldown \in Nat /\ MaxAlertLag \in Nat /\ L!Never = AlertCooldown + MaxAlertLag + 1
  BY AlertAssumption DEF L!Never
<1>2. CASE L!Tick
  BY <1>1, <1>2 DEF AlertInv, L!Tick, L!Grown
<1>3. CASE L!Fire
  BY <1>1, <1>3 DEF AlertInv, L!Fire, L!Done, L!Stamp
<1>4. CASE L!Load \/ L!MarkEval \/ L!NoMatch \/ L!Restart \/ L!Switch \/ UNCHANGED L!vars
  BY <1>1, <1>4 DEF AlertInv, L!Load, L!MarkEval, L!NoMatch, L!Restart, L!Switch, L!Done, L!vars
<1> QED BY <1>2, <1>3, <1>4 DEF L!Next

\* nl_alerts.py:129, 183-188.  The cooldown is tested by the time the tick began against
\* the row as it was loaded then; since nobody else writes it and the stamp is taken when
\* the incident is stored, two incidents of an alert are Cooldown apart, restarts or not.
THEOREM AlertsAreFar == L!Spec => AlertsAreApart
<1>1. L!Init => AlertInv
  BY AlertAssumption DEF L!Init, AlertInv, L!Never
<1>2. AlertInv /\ [L!Next]_L!vars => AlertInv'
  BY AlertStep
<1>3. AlertInv /\ [L!Next]_L!vars => [since' = 0 /\ since # 0 => since >= AlertCooldown]_L!vars
  <2> SUFFICES ASSUME AlertInv, L!Next, since' = 0, since # 0 PROVE since >= AlertCooldown
    OBVIOUS
  <2>1. CASE L!Tick
    BY AlertAssumption, <2>1 DEF AlertInv, L!Tick, L!Grown, L!Never
  <2>2. CASE L!Fire
    BY AlertAssumption, <2>2 DEF AlertInv, L!Fire, L!StillCools
  <2> QED BY <2>1, <2>2 DEF L!Next, L!Load, L!MarkEval, L!NoMatch, L!Restart, L!Switch
<1> QED BY <1>1, <1>2, <1>3, PTL DEF L!Spec, AlertsAreApart, L!AlertsAreApart
-----------------------------------------------------------------------------
RunSet == R!Runs \cup {R!NoRun}
RowSet == [name : Models, stage : {"champion", "challenger", "retired"}]
TxSet == [pc : {"idle", "register", "gated", "swap", "retire"}, model : Nat, force : BOOLEAN,
          run : RunSet, seen : SUBSET (Models \cup Nat), alone : BOOLEAN]
Busy(q) == tx[q].pc # "idle"

RegistryTypes ==
  /\ registry \in Seq(RowSet) /\ evals \in Seq(RunSet) /\ Len(evals) = Len(registry)
  /\ tx \in [Requests -> TxSet]

\* A request that is alone has read what the rows still say.
RegistryReads ==
  \A q \in Requests :
    /\ tx[q].pc = "register" => tx[q].seen \subseteq Models
    /\ tx[q].pc \in {"gated", "swap", "retire"} => tx[q].model \in DOMAIN registry
    /\ Busy(q) /\ tx[q].alone => \A o \in Requests \ {q} : ~Busy(o)
    /\ tx[q].pc = "swap" /\ tx[q].alone => tx[q].seen = R!Champions

RegistryInv == RegistryTypes /\ RegistryReads

LEMMA IdleIsTx == R!Idle \in TxSet /\ R!Idle.pc = "idle" /\ R!Idle.alone = TRUE
BY DEF R!Idle, TxSet, RunSet

LEMMA BeginKeeps ==
  ASSUME RegistryInv, NEW q \in Requests, NEW t \in TxSet, R!Begin(q, t),
         t.pc \in {"register", "gated", "retire"},
         t.pc = "register" => t.seen \subseteq Models,
         t.pc # "register" => t.model \in DOMAIN registry
  PROVE  RegistryInv'
<1> USE DEF RegistryInv
<1>1. UNCHANGED <<registry, evals, audit>> /\ R!Champions' = R!Champions
  BY DEF R!Begin, R!Champions, R!Rows
<1> DEFINE others == {o \in Requests : Busy(o)}
<1>2. /\ ~Busy(q)
      /\ tx' = [o \in Requests |->
                 IF o = q THEN [t EXCEPT !.alone = others = {}]
                 ELSE IF o \in others THEN [tx[o] EXCEPT !.alone = FALSE] ELSE tx[o]]
  BY DEF R!Begin, Busy
<1>3. tx'[q] = [t EXCEPT !.alone = others = {}]
  BY <1>2
<1>4. ASSUME NEW o \in Requests, o # q
      PROVE  IF o \in others THEN tx'[o] = [tx[o] EXCEPT !.alone = FALSE] ELSE tx'[o] = tx[o]
  BY <1>2, <1>4
<1>5. (others = {}) \in BOOLEAN
  OBVIOUS
<1>6. /\ tx'[q] \in TxSet /\ tx'[q].pc = t.pc /\ tx'[q].seen = t.seen /\ tx'[q].model = t.model
      /\ tx'[q].alone = (others = {})
  BY <1>3, <1>5 DEF TxSet
<1>7. ASSUME NEW o \in Requests, o # q
      PROVE  /\ tx'[o] \in TxSet /\ tx'[o].pc = tx[o].pc /\ tx'[o].seen = tx[o].seen
             /\ tx'[o].model = tx[o].model
             /\ Busy(o) => ~tx'[o].alone
             /\ ~Busy(o) => tx'[o] = tx[o]
  <2>1. tx[o] \in TxSet
    BY DEF RegistryTypes
  <2>2. CASE o \in others
    <3>1. tx'[o] = [tx[o] EXCEPT !.alone = FALSE] /\ Busy(o)
      BY <1>4, <1>7, <2>2
    <3> QED BY <2>1, <3>1 DEF TxSet
  <2>3. CASE o \notin others
    BY <1>4, <1>7, <2>1, <2>3
  <2> QED BY <2>2, <2>3
<1>8. RegistryTypes'
  BY <1>1, <1>2, <1>6, <1>7 DEF RegistryTypes
<1>9. RegistryReads'
  <2> SUFFICES ASSUME NEW o \in Requests
               PROVE  /\ tx'[o].pc = "register" => tx'[o].seen \subseteq Models
                      /\ tx'[o].pc \in {"gated", "swap", "retire"} => tx'[o].model \in DOMAIN registry
                      /\ Busy(o)' /\ tx'[o].alone => \A p \in Requests \ {o} : ~Busy(p)'
                      /\ tx'[o].pc = "swap" /\ tx'[o].alone => tx'[o].seen = R!Champions
    BY <1>1 DEF RegistryReads
  <2>1. CASE o = q
    <3>1. tx'[q].alone => \A p \in Requests \ {q} : ~Busy(p)'
      BY <1>6, <1>7 DEF Busy
    <3> QED BY <2>1, <3>1, <1>6
  <2>2. CASE o # q
    BY <2>2, <1>6, <1>7 DEF RegistryReads, Busy
  <2> QED BY <2>1, <2>2
<1> QED BY <1>8, <1>9

\* A request ends: the rows have changed only if it was alone or nobody is.
LEMMA DoneKeeps ==
  ASSUME RegistryInv, NEW q \in Requests, R!Done(q), Busy(q),
         registry' \in Seq(RowSet), evals' \in Seq(RunSet), Len(evals') = Len(registry'),
         Len(registry) <= Len(registry')
  PROVE  RegistryInv'
<1> USE DEF RegistryInv
<1>1. tx' = [tx EXCEPT ![q] = R!Idle]
  BY DEF R!Done
<1>2. tx'[q] = R!Idle /\ ~Busy(q)' /\ \A o \in Requests \ {q} : tx'[o] = tx[o] /\ Busy(o)' = Busy(o)
  BY <1>1, IdleIsTx DEF RegistryTypes, Busy
<1>3. RegistryTypes'
  BY <1>1, IdleIsTx DEF RegistryTypes
<1>4. DOMAIN registry \subseteq DOMAIN registry'
  BY DEF RegistryTypes
<1>5. ASSUME NEW o \in Requests
      PROVE  /\ tx'[o].pc = "register" => tx'[o].seen \subseteq Models
             /\ tx'[o].pc \in {"gated", "swap", "retire"} => tx'[o].model \in DOMAIN registry'
             /\ Busy(o)' /\ tx'[o].alone => \A p \in Requests \ {o} : ~Busy(p)'
             /\ tx'[o].pc = "swap" /\ tx'[o].alone => tx'[o].seen = R!Champions'
  <2>1. CASE o = q
    BY <1>2, <2>1, IdleIsTx DEF Busy
  <2>2. CASE o # q
    <3>1. tx'[o] = tx[o] /\ (Busy(o) => ~tx[o].alone)
      BY <1>2, <2>2 DEF RegistryReads
    <3> QED BY <1>2, <1>4, <2>2, <3>1 DEF RegistryReads, Busy
  <2> QED BY <2>1, <2>2
<1> QED BY <1>3, <1>5 DEF RegistryReads

LEMMA Joined ==
  ASSUME NEW Z, NEW s \in Seq(Z), NEW t \in Seq(Z)
  PROVE  s \o t \in Seq(Z) /\ Len(s \o t) = Len(s) + Len(t)
OBVIOUS

LEMMA RowSequences ==
  ASSUME RegistryTypes, NEW new \in Seq(Models)
  PROVE  /\ registry \o [i \in DOMAIN new |-> R!NewRow(new[i])] \in Seq(RowSet)
         /\ evals \o [i \in DOMAIN new |-> R!NoRun] \in Seq(RunSet)
         /\ Len(evals \o [i \in DOMAIN new |-> R!NoRun])
              = Len(registry \o [i \in DOMAIN new |-> R!NewRow(new[i])])
         /\ Len(registry) <= Len(registry \o [i \in DOMAIN new |-> R!NewRow(new[i])])
<1> DEFINE a == [i \in DOMAIN new |-> R!NewRow(new[i])]
           b == [i \in DOMAIN new |-> R!NoRun]
<1>1. DOMAIN new = 1 .. Len(new) /\ Len(new) \in Nat
  OBVIOUS
<1>2. \A i \in 1 .. Len(new) : R!NewRow(new[i]) \in RowSet
  BY DEF R!NewRow, RowSet
<1>3. a \in Seq(RowSet) /\ Len(a) = Len(new)
  <2>1. a = [i \in 1 .. Len(new) |-> R!NewRow(new[i])]
    BY <1>1
  <2> QED BY <1>1, <1>2, <2>1
<1>4. b \in Seq(RunSet) /\ Len(b) = Len(new)
  <2>1. b = [i \in 1 .. Len(new) |-> R!NoRun] /\ R!NoRun \in RunSet
    BY <1>1 DEF RunSet
  <2> QED BY <1>1, <2>1
<1> HIDE DEF a, b
<1>5. registry \o a \in Seq(RowSet) /\ Len(registry \o a) = Len(registry) + Len(new)
  <2>1. registry \in Seq(RowSet)
    BY DEF RegistryTypes
  <2> QED BY <1>3, <2>1, Joined
<1>6. evals \o b \in Seq(RunSet) /\ Len(evals \o b) = Len(evals) + Len(new)
  <2>1. evals \in Seq(RunSet)
    BY DEF RegistryTypes
  <2> QED BY <1>4, <2>1, Joined
<1> QED BY <1>1, <1>5, <1>6 DEF RegistryTypes, a, b

LEMMA RestagedRows ==
  ASSUME RegistryTypes, NEW Z, NEW m \in DOMAIN registry,
         registry' = [n \in DOMAIN registry |->
                        IF n = m THEN [registry[n] EXCEPT !.stage = "champion"]
                        ELSE IF n \in Z THEN [registry[n] EXCEPT !.stage = "retired"]
                        ELSE registry[n]]
  PROVE  /\ registry' \in Seq(RowSet) /\ Len(registry') = Len(registry)
         /\ Z \cap DOMAIN registry = R!Champions => R!Champions' = {m}
<1>1. /\ DOMAIN registry = 1 .. Len(registry) /\ Len(registry) \in Nat
      /\ \A n \in DOMAIN registry : registry[n] \in RowSet
  BY DEF RegistryTypes
<1>2. \A n \in DOMAIN registry :
        /\ registry'[n] \in RowSet
        /\ registry'[n].stage = IF n = m THEN "champion"
                                ELSE IF n \in Z THEN "retired" ELSE registry[n].stage
  BY <1>1 DEF RowSet
<1>3. DOMAIN registry' = DOMAIN registry
  OBVIOUS
<1>4. registry' \in Seq(RowSet) /\ Len(registry') = Len(registry)
  BY <1>1, <1>2, <1>3
<1> QED BY <1>2, <1>3, <1>4 DEF R!Champions, R!Rows

LEMMA SameCardinality == \A Z : R!Cardinality(Z) = Cardinality(Z)
BY DEF R!Cardinality, Cardinality

LEMMA RegistryStep == RegistryInv /\ [R!Next]_R!vars => RegistryInv'
<1> SUFFICES ASSUME RegistryInv, [R!Next]_R!vars PROVE RegistryInv'
  OBVIOUS
<1> USE DEF RegistryInv
<1>0. /\ \A q \in Requests : tx[q] \in TxSet
      /\ \A m \in R!Rows : registry[m] \in RowSet /\ evals[m] \in RunSet /\ m \in Nat
  BY DEF RegistryTypes, R!Rows
<1>1. ASSUME NEW q \in Requests, R!Register(q) PROVE RegistryInv'
  <2> DEFINE t == [R!Idle EXCEPT !.pc = "register", !.seen = {n \in Models : R!Named(n) = {}}]
  <2>1. t \in TxSet /\ t.pc = "register" /\ t.seen \subseteq Models
    BY IdleIsTx DEF TxSet
  <2> QED BY <1>1, <2>1, BeginKeeps DEF R!Register
<1>2. ASSUME NEW q \in Requests, R!CommitRegister(q) PROVE RegistryInv'
  <2>1. tx[q].seen \subseteq Models /\ Busy(q) /\ R!Done(q)
    BY <1>2 DEF R!CommitRegister, RegistryReads, Busy
  <2>2. Cardinality(tx[q].seen) \in Nat
    BY <2>1, RegistryAssumption, FS_Subset, FS_CardinalityType
  <2>3. PICK new \in [1 .. Cardinality(tx[q].seen) -> tx[q].seen] :
           /\ registry' = registry \o [i \in DOMAIN new |-> R!NewRow(new[i])]
           /\ evals' = evals \o [i \in DOMAIN new |-> R!NoRun]
    BY <1>2, SameCardinality DEF R!CommitRegister
  <2>4. new \in Seq(Models)
    BY <2>1, <2>2
  <2> QED BY <2>1, <2>3, <2>4, RowSequences, DoneKeeps
<1>3. ASSUME NEW q \in Requests, NEW m \in R!Rows, NEW force \in BOOLEAN, R!Gate(q, m, force)
      PROVE  RegistryInv'
  <2> DEFINE t == [R!Idle EXCEPT !.pc = "gated", !.model = m, !.force = force, !.run = evals[m]]
  <2>1. t \in TxSet /\ t.pc = "gated" /\ t.model = m /\ m \in DOMAIN registry
    BY <1>0, IdleIsTx DEF TxSet, R!Rows
  <2> QED BY <1>3, <2>1, BeginKeeps DEF R!Gate
<1>4. ASSUME NEW q \in Requests, R!Incumbents(q) PROVE RegistryInv'
  <2>1. /\ tx' = [tx EXCEPT ![q].pc = "swap", ![q].seen = R!Champions]
        /\ UNCHANGED <<registry, evals>> /\ R!Champions' = R!Champions
        /\ tx[q].pc = "gated"
    BY <1>4 DEF R!Incumbents, R!Champions, R!Rows
  <2>2. R!Champions \subseteq Nat
    BY <1>0 DEF R!Champions
  <2>3. /\ tx'[q] \in TxSet /\ tx'[q].pc = "swap" /\ tx'[q].seen = R!Champions
        /\ tx'[q].alone = tx[q].alone /\ tx'[q].model = tx[q].model
    BY <1>0, <2>1, <2>2 DEF TxSet, RegistryTypes
  <2>4. \A o \in Requests \ {q} : tx'[o] = tx[o]
    BY <2>1 DEF RegistryTypes
  <2>5. RegistryTypes'
    BY <2>1, <2>3, <2>4 DEF RegistryTypes
  <2>6. \A o \in Requests : Busy(o)' = Busy(o)
    BY <2>1, <2>3, <2>4 DEF Busy
  <2>7. RegistryReads'
    BY <2>1, <2>3, <2>4, <2>6 DEF RegistryReads
  <2> QED BY <2>5, <2>7
<1>5. ASSUME NEW q \in Requests, R!Swap(q) \/ R!Retire(q) PROVE RegistryInv'
  <2>1. Busy(q) /\ R!Done(q) /\ UNCHANGED evals /\ tx[q].model \in DOMAIN registry
    BY <1>5 DEF R!Swap, R!Retire, RegistryReads, Busy
  <2>2. \E Z : registry' = [n \in DOMAIN registry |->
                        IF n = tx[q].model THEN [registry[n] EXCEPT !.stage = "champion"]
                        ELSE IF n \in Z THEN [registry[n] EXCEPT !.stage = "retired"]
                        ELSE registry[n]]
    BY <1>5 DEF R!Swap, R!Swapped, R!Retire, R!Rows
  <2>3. registry' \in Seq(RowSet) /\ Len(registry') = Len(registry)
    BY <2>1, <2>2, RestagedRows
  <2>4. Len(registry) \in Nat
    BY DEF RegistryTypes
  <2> QED BY <2>1, <2>3, <2>4, DoneKeeps DEF RegistryTypes
<1>6. ASSUME NEW q \in Requests, NEW m \in R!Rows, R!Decide(q, m) PROVE RegistryInv'
  <2> DEFINE t == [R!Idle EXCEPT !.pc = "retire", !.model = m, !.run = evals[m]]
  <2>1. t \in TxSet /\ t.pc = "retire" /\ t.model = m /\ m \in DOMAIN registry
    BY <1>0, IdleIsTx DEF TxSet, R!Rows
  <2> QED BY <1>6, <2>1, BeginKeeps DEF R!Decide
<1>7. ASSUME NEW q \in Requests, R!Rollback(q) PROVE RegistryInv'
  <2>1. Busy(q) /\ R!Done(q) /\ UNCHANGED <<registry, evals>>
    BY <1>7 DEF R!Rollback, Busy
  <2>2. Len(registry) \in Nat
    BY DEF RegistryTypes
  <2> QED BY <2>1, <2>2, DoneKeeps DEF RegistryTypes
<1>8. ASSUME NEW m \in R!Rows, NEW eval \in R!Runs, R!Evaluate(m, eval) PROVE RegistryInv'
  <2>1. UNCHANGED <<registry, tx>> /\ evals' = [evals EXCEPT ![m] = eval]
    BY <1>8 DEF R!Evaluate
  <2>2. evals' \in Seq(RunSet) /\ Len(evals') = Len(evals)
    <3>1. evals \in Seq(RunSet) /\ eval \in RunSet /\ m \in 1 .. Len(evals)
      BY DEF RegistryTypes, RunSet, R!Rows
    <3> QED BY <2>1, <3>1
  <2> QED BY <2>1, <2>2 DEF RegistryTypes, RegistryReads, Busy, R!Champions, R!Rows
<1>9. CASE UNCHANGED R!vars
  BY <1>9 DEF R!vars, RegistryTypes, RegistryReads, Busy, R!Champions, R!Rows
<1> QED BY <1>1, <1>2, <1>3, <1>4, <1>5, <1>6, <1>7, <1>8, <1>9 DEF R!Next

\* app.py:2791, eval.py:5.  A promotion that no other request overlapped leaves its model
\* the one champion, whatever promotions that did overlap had left before: the champions it
\* retires are the ones there are, as nobody else can have committed since it read them.
THEOREM PromotionLeavesOne == R!Spec => PromotionSettlesTheRole
<1>1. R!Init => RegistryInv
  BY IdleIsTx DEF R!Init, RegistryInv, RegistryTypes, RegistryReads, Busy
<1>2. RegistryInv /\ [R!Next]_R!vars => RegistryInv'
  BY RegistryStep
<1> DEFINE Settles(q) ==
      tx[q].alone /\ tx[q].pc \in {"swap", "retire"} /\ tx'[q] = R!Idle
        /\ (registry' # registry \/ audit' # audit) => R!Champions' = {tx[q].model}
<1>3. RegistryInv /\ [R!Next]_R!vars => [\A q \in Requests : Settles(q)]_R!vars
  <2> SUFFICES ASSUME RegistryInv, R!Next, NEW q \in Requests,
                      tx[q].alone, tx[q].pc \in {"swap", "retire"},
                      registry' # registry \/ audit' # audit
               PROVE  R!Champions' = {tx[q].model}
    OBVIOUS
  <2>1. PICK o \in Requests : R!CommitRegister(o) \/ R!Swap(o) \/ R!Retire(o)
    BY DEF R!Next, R!Register, R!Gate, R!Decide, R!Begin, R!Incumbents, R!Rollback, R!Evaluate
  <2>2. Busy(o)
    BY <2>1 DEF R!CommitRegister, R!Swap, R!Retire, Busy
  <2>3. o = q
    BY <2>2 DEF RegistryInv, RegistryReads, Busy
  <2>4. R!Swap(q) \/ R!Retire(q)
    BY <2>1, <2>3 DEF R!CommitRegister
  <2>5. tx[q].model \in DOMAIN registry /\ (tx[q].pc = "swap" => tx[q].seen = R!Champions)
    BY DEF RegistryInv, RegistryReads
  <2>6. R!Champions \subseteq DOMAIN registry
    BY DEF R!Champions, R!Rows
  <2>7. registry' = [n \in DOMAIN registry |->
                        IF n = tx[q].model THEN [registry[n] EXCEPT !.stage = "champion"]
                        ELSE IF n \in R!Champions THEN [registry[n] EXCEPT !.stage = "retired"]
                        ELSE registry[n]]
    BY <2>4, <2>5 DEF R!Swap, R!Swapped, R!Retire, R!Rows
  <2> QED BY <2>5, <2>6, <2>7, RestagedRows DEF RegistryInv
<1> QED BY <1>1, <1>2, <1>3, PTL DEF R!Spec, PromotionSettlesTheRole, R!PromotionSettlesTheRole

-----------------------------------------------------------------------------
\* What the composition explores are behaviours of the modules, and nothing else: what is
\* proved of each module, here and in Migrations_proofs, holds of its part.
THEOREM PartsBehaveAsModules ==
  PartsSpec => /\ Spec /\ M!Spec /\ R!Spec /\ A!Spec /\ N!Spec /\ I!Spec /\ S!Spec
               /\ P!Spec /\ G!Spec /\ L!Spec /\ F!Spec /\ X!Spec /\ V!Spec
<1> DEFINE Steps ==
      /\ [Next]_vars /\ [M!Next]_M!vars /\ [R!Next]_R!vars /\ [A!Next]_A!vars
      /\ [N!Next]_N!vars /\ [I!Next]_I!vars /\ [S!Next]_S!vars /\ [P!Next]_P!vars
      /\ [G!Next]_G!vars /\ [L!Next]_L!vars /\ [F!Next]_F!vars /\ [X!Next]_X!vars
      /\ [V!Next]_V!vars
<1>1. PartsInit => /\ Init /\ M!Init /\ R!Init /\ A!Init /\ N!Init /\ I!Init /\ S!Init
                   /\ P!Init /\ G!Init /\ L!Init /\ F!Init /\ X!Init /\ V!Init
  BY DEF PartsInit
<1>2. UNCHANGED migrations => UNCHANGED M!vars
  BY DEF migrations, M!vars
<1>3. UNCHANGED registryState => UNCHANGED R!vars
  BY DEF registryState, R!vars
<1>4. UNCHANGED access => UNCHANGED A!vars
  BY DEF access, A!vars
<1>5. UNCHANGED notify => UNCHANGED N!vars
  BY DEF notify, N!vars
<1>6. UNCHANGED ingest => UNCHANGED I!vars
  BY DEF ingest, I!vars
<1>7. UNCHANGED media => UNCHANGED S!vars
  BY DEF media, S!vars
<1>8. UNCHANGED perception => UNCHANGED P!vars
  BY DEF perception, P!vars
<1>9. UNCHANGED sweeps => UNCHANGED G!vars
  BY DEF sweeps, G!vars
<1>10. UNCHANGED alerts => UNCHANGED L!vars
  BY DEF alerts, L!vars
<1>11. UNCHANGED fleet => UNCHANGED F!vars
  BY DEF fleet, F!vars
<1>12. UNCHANGED plates => UNCHANGED X!vars
  BY DEF plates, X!vars
<1>13. UNCHANGED appearances => UNCHANGED V!vars
  BY DEF appearances, V!vars
<1>14. UNCHANGED all => Steps
  BY <1>2, <1>3, <1>4, <1>5, <1>6, <1>7, <1>8, <1>9, <1>10, <1>11, <1>12, <1>13 DEF all
<1>15. PartsNext => Steps
  <2>1. Next /\ Only("vault") => Steps
    BY <1>2, <1>3, <1>4, <1>5, <1>6, <1>7, <1>8, <1>9, <1>10, <1>11, <1>12, <1>13 DEF Only
  <2>2. M!Next /\ Only("migrations") => Steps
    BY <1>2, <1>3, <1>4, <1>5, <1>6, <1>7, <1>8, <1>9, <1>10, <1>11, <1>12, <1>13 DEF Only
  <2>3. R!Next /\ Only("registry") => Steps
    BY <1>2, <1>3, <1>4, <1>5, <1>6, <1>7, <1>8, <1>9, <1>10, <1>11, <1>12, <1>13 DEF Only
  <2>4. A!Next /\ Only("access") => Steps
    BY <1>2, <1>3, <1>4, <1>5, <1>6, <1>7, <1>8, <1>9, <1>10, <1>11, <1>12, <1>13 DEF Only
  <2>5. N!Next /\ Only("notify") => Steps
    BY <1>2, <1>3, <1>4, <1>5, <1>6, <1>7, <1>8, <1>9, <1>10, <1>11, <1>12, <1>13 DEF Only
  <2>6. I!Next /\ Only("ingest") => Steps
    BY <1>2, <1>3, <1>4, <1>5, <1>6, <1>7, <1>8, <1>9, <1>10, <1>11, <1>12, <1>13 DEF Only
  <2>7. S!Next /\ Only("media") => Steps
    BY <1>2, <1>3, <1>4, <1>5, <1>6, <1>7, <1>8, <1>9, <1>10, <1>11, <1>12, <1>13 DEF Only
  <2>8. P!Next /\ Only("perception") => Steps
    BY <1>2, <1>3, <1>4, <1>5, <1>6, <1>7, <1>8, <1>9, <1>10, <1>11, <1>12, <1>13 DEF Only
  <2>9. G!Next /\ Only("sweep") => Steps
    BY <1>2, <1>3, <1>4, <1>5, <1>6, <1>7, <1>8, <1>9, <1>10, <1>11, <1>12, <1>13 DEF Only
  <2>10. L!Next /\ Only("alerts") => Steps
    BY <1>2, <1>3, <1>4, <1>5, <1>6, <1>7, <1>8, <1>9, <1>10, <1>11, <1>12, <1>13 DEF Only
  <2>11. F!Next /\ Only("fleet") => Steps
    BY <1>2, <1>3, <1>4, <1>5, <1>6, <1>7, <1>8, <1>9, <1>10, <1>11, <1>12, <1>13 DEF Only
  <2>12. X!Next /\ Only("plates") => Steps
    BY <1>2, <1>3, <1>4, <1>5, <1>6, <1>7, <1>8, <1>9, <1>10, <1>11, <1>12, <1>13 DEF Only
  <2>13. V!Next /\ Only("appearances") => Steps
    BY <1>2, <1>3, <1>4, <1>5, <1>6, <1>7, <1>8, <1>9, <1>10, <1>11, <1>12, <1>13 DEF Only
  <2> QED BY <2>1, <2>2, <2>3, <2>4, <2>5, <2>6, <2>7, <2>8, <2>9, <2>10, <2>11, <2>12, <2>13 DEF PartsNext
<1> QED
  BY <1>1, <1>14, <1>15, PTL DEF PartsSpec, Spec, M!Spec, R!Spec, A!Spec, N!Spec,
     I!Spec, S!Spec, P!Spec, G!Spec, L!Spec, F!Spec, X!Spec, V!Spec
-----------------------------------------------------------------------------
HasObject == {"put", "stored", "counted", "selected", "pruned", "done"}
HasRow == {"stored", "counted", "selected", "pruned", "done"}
IngestStages == {"none", "open", "queued", "left", "started", "failed"} \cup HasObject

\* Where segment s is kept; nobody misses one that was let go.
LetGo(s) == s \in expired \/ camera # "there"
Kept(s) ==
  /\ stage[s] \notin {"none", "done"} => file[s] # "none"
  /\ stage[s] \in HasObject => s \in object \/ LetGo(s)
  /\ stage[s] \in HasRow => s \in rows \/ LetGo(s)

IngestInv ==
  /\ last \in 0 .. MaxSegments
  /\ stage \in [I!Segments -> IngestStages]
  /\ file \in [I!Segments -> {"none", "work", "failed"}]
  /\ \A s \in I!Segments : old[s] \subseteq expired
  /\ DOMAIN old = I!Segments
  /\ \A s \in I!Segments : Kept(s)

\* A segment another one's step leaves alone stays where it is.
LEMMA OthersKept ==
  ASSUME NEW s, Kept(s), stage'[s] = stage[s], file'[s] = file[s],
         expired \subseteq expired', camera' = camera \/ camera' # "there",
         s \in object => s \in object' \/ s \in expired' \/ camera' # "there",
         s \in rows => s \in rows' \/ s \in expired' \/ camera' # "there"
  PROVE  Kept(s)'
BY DEF Kept, LetGo

\* A step of the capture thread or of the process: files stay, and what stops is left.
LEMMA CaptureKeeps ==
  ASSUME IngestInv, UNCHANGED <<file, object, rows, old, expired, camera>>,
         last' \in 0 .. MaxSegments, stage' \in [I!Segments -> IngestStages],
         \A s \in I!Segments : stage'[s] = stage[s]
                               \/ (stage[s] # "none" /\ stage[s] # "done"
                                   /\ stage'[s] \in {"left", "queued"})
  PROVE  IngestInv'
<1>1. ASSUME NEW s \in I!Segments PROVE Kept(s)'
  BY DEF IngestInv, Kept, LetGo, HasObject, HasRow
<1> QED BY <1>1 DEF IngestInv

LEMMA IngestStep == IngestInv /\ [I!Next]_I!vars => IngestInv'
<1> SUFFICES ASSUME IngestInv, [I!Next]_I!vars PROVE IngestInv'
  OBVIOUS
<1>0. /\ MaxSegments \in Nat /\ last \in 0 .. MaxSegments /\ DOMAIN old = I!Segments
      /\ DOMAIN stage = I!Segments /\ DOMAIN file = I!Segments
      /\ \A s \in I!Segments : /\ stage[s] \in IngestStages /\ old[s] \subseteq expired /\ Kept(s)
                               /\ file[s] \in {"none", "work", "failed"}
  BY CameraAssumption DEF IngestInv
<1>1. CASE I!Connect \/ I!GiveUpConnecting \/ I!StopWorker \/ I!StartWorker \/ I!Restart
           \/ UNCHANGED I!vars
  BY <1>0, <1>1, CaptureKeeps
  DEF I!Connect, I!GiveUpConnecting, I!StopWorker, I!StartWorker, I!Restart, I!vars, I!store, I!api, IngestInv
<1>2. \A s \in I!Segments : I!Close[s] \in {stage[s], "left", "queued"}
        /\ (I!Close[s] # stage[s] => stage[s] = "open")
  BY DEF I!Close, I!OpenSegment, I!Emitted
<1>3. CASE I!LoopEnds \/ I!LoopRaises \/ I!Shutdown \/ I!End
  <2>1. /\ UNCHANGED <<file, object, rows, old, expired, camera, last>>
        /\ DOMAIN stage' = I!Segments
        /\ \A s \in I!Segments : stage'[s] = stage[s]
                               \/ (stage[s] # "none" /\ stage[s] # "done"
                                   /\ stage'[s] \in {"left", "queued"})
    BY <1>2, <1>3
    DEF I!LoopEnds, I!LoopRaises, I!Shutdown, I!End, I!Close, I!OpenSegment, I!Emitted, I!Cut, I!Running,
        I!InFlight, I!store, I!api
  <2>2. stage' \in [I!Segments -> IngestStages]
    BY <1>0, <1>3, <2>1
    DEF I!LoopEnds, I!LoopRaises, I!Shutdown, I!End, I!Close, I!Cut, IngestStages, I!Emitted
  <2> QED BY <1>0, <2>1, <2>2, CaptureKeeps
<1>4. CASE I!NewSegment
  <2>1. /\ last' = last + 1 /\ last + 1 \in I!Segments
        /\ stage' = [I!Close EXCEPT ![last + 1] = "open"]
        /\ file' = [file EXCEPT ![last + 1] = "work"]
        /\ UNCHANGED <<object, rows, old, expired, camera>>
    BY <1>0, <1>4 DEF I!NewSegment, I!store, I!api, I!Segments
  <2>2. ASSUME NEW s \in I!Segments PROVE Kept(s)'
    BY <1>0, <1>2, <2>1 DEF Kept, LetGo, HasObject, HasRow, I!Close
  <2>3. stage' \in [I!Segments -> IngestStages]
    BY <1>0, <1>2, <2>1 DEF IngestStages, I!Close
  <2> QED BY <1>0, <2>1, <2>2, <2>3 DEF IngestInv, I!Segments
<1>5. ASSUME NEW s \in I!Segments,
             I!Start(s) \/ I!Put(s) \/ I!Commit(s) \/ I!Count(s) \/ I!Select(s) \/ I!Prune(s)
             \/ I!RemoveLocal(s) \/ I!Fail(s)
      PROVE  IngestInv'
  <2>1. /\ UNCHANGED <<last, camera>> /\ expired \subseteq expired'
        /\ \A t \in I!Segments : old'[t] \subseteq expired'
        /\ DOMAIN old' = I!Segments
    BY <1>0, <1>5
    DEF I!Start, I!Put, I!Commit, I!Count, I!Select, I!Prune, I!RemoveLocal, I!Fail, I!Capture, I!store, I!api
  <2>2. object \subseteq object' \cup old[s] /\ rows \subseteq rows' \cup old[s]
    BY <1>5
    DEF I!Start, I!Put, I!Commit, I!Count, I!Select, I!Prune, I!RemoveLocal, I!Fail, I!Capture, I!store, I!api
  <2>3. PICK to \in IngestStages :
          /\ stage' = [stage EXCEPT ![s] = to]
          /\ \/ stage[s] = "queued" /\ to = "started" /\ UNCHANGED file
             \/ stage[s] = "started" /\ to = "put" /\ UNCHANGED file /\ s \in object'
             \/ stage[s] = "put" /\ to = "stored" /\ UNCHANGED file /\ s \in rows'
             \/ stage[s] \in HasRow \ {"done"} /\ to \in HasRow \ {"done"} /\ UNCHANGED file
             \/ stage[s] = "pruned" /\ to = "done" /\ file' = [file EXCEPT ![s] = "none"]
             \/ to = "failed" /\ file' = [file EXCEPT ![s] = "failed"]
    BY <1>5
    DEF I!Start, I!Put, I!Commit, I!Count, I!Select, I!Prune, I!RemoveLocal, I!Fail, I!Step, I!SetAside,
        HasRow, HasObject, IngestStages
  <2>4. stage' \in [I!Segments -> IngestStages] /\ file' \in [I!Segments -> {"none", "work", "failed"}]
    BY <2>3 DEF IngestInv
  <2>5. ASSUME NEW t \in I!Segments, t # s PROVE Kept(t)'
    BY <1>0, <2>1, <2>2, <2>3, <2>5, OthersKept
  <2>6. Kept(s)'
    BY <1>0, <2>1, <2>2, <2>3 DEF Kept, LetGo, HasObject, HasRow
  <2> QED BY <1>0, <2>1, <2>4, <2>5, <2>6 DEF IngestInv
<1>6. CASE I!DeleteCamera \/ I!Purge
  <2>1. camera' # "there" /\ UNCHANGED <<last, stage, file, old, expired>>
    BY <1>6 DEF I!DeleteCamera, I!Purge, I!Capture
  <2>2. ASSUME NEW s \in I!Segments PROVE Kept(s)'
    BY <1>0, <2>1 DEF Kept, LetGo
  <2> QED BY <2>1, <2>2 DEF IngestInv
<1> QED BY <1>1, <1>3, <1>4, <1>5, <1>6 DEF I!Next

\* manager.py:139-149.  A segment that was recorded has a local file until it has an object and
\* a row, and loses these only to retention or with its camera, however uploads, failures,
\* shutdowns and deletions interleave.
THEOREM SegmentsAreKept == I!Spec => []NothingIsLost
<1>1. I!Init => IngestInv
  BY CameraAssumption DEF I!Init, IngestInv, Kept, LetGo, IngestStages, HasObject, HasRow
<1>2. IngestInv /\ [I!Next]_I!vars => IngestInv'
  BY IngestStep
<1>3. IngestInv => NothingIsLost
  BY DEF IngestInv, Kept, LetGo, HasObject, HasRow, NothingIsLost, I!NothingIsLost
<1> QED BY <1>1, <1>2, <1>3, PTL DEF I!Spec
-----------------------------------------------------------------------------
Round == Period + MaxProbeLag
HasFinding(c) == <<"camera_offline", c>> \in findings
Elapsed == IF phase = "wait" THEN timer ELSE IF phase = "probe" THEN Period + timer ELSE Round

\* How long a camera without a finding can have been silent; what was collected of it lags
\* behind by the time since.
FleetInv ==
  /\ phase \in {"wait", "probe", "reconcile"} /\ timer \in Nat /\ failed \in 0 .. MaxFailed
  /\ timer <= IF phase = "wait" THEN Period ELSE IF phase = "probe" THEN MaxProbeLag ELSE 0
  /\ silent \in [FleetCameras -> Nat]
  /\ \A c \in FleetCameras :
       /\ collected[c].age \in Nat
       /\ ~HasFinding(c) => silent[c] <= Stale + failed * Round + Elapsed
       /\ phase = "probe" => silent[c] <= collected[c].age + timer
       /\ phase = "reconcile" => silent[c] <= collected[c].age
  /\ DOMAIN collected = FleetCameras
  /\ \A c \in FleetCameras : "age" \in DOMAIN collected[c]

LEMMA Rounds ==
  ASSUME NEW w \in Nat, NEW m \in Nat
  PROVE  /\ \A n \in 0 .. m : n * w \in Nat /\ (n + 1) * w = n * w + w
         /\ \A n \in 0 .. m : n * w <= m * w
OBVIOUS

LEMMA FleetNumbers ==
  /\ Stale \in Nat /\ Period \in Nat /\ MaxProbeLag \in Nat /\ MaxFailed \in Nat /\ Round \in Nat
  /\ F!Deadline = Stale + MaxFailed * Round + Round
<1>1. Stale \in Nat /\ Period \in Nat /\ MaxProbeLag \in Nat /\ MaxFailed \in Nat /\ Round \in Nat
  BY CameraAssumption DEF Round
<1>2. (MaxFailed + 1) * Round = MaxFailed * Round + Round /\ MaxFailed * Round \in Nat
  BY <1>1, Rounds
<1>3. F!Deadline = Stale + (MaxFailed + 1) * Round
  BY DEF F!Deadline, Round
<1> QED BY <1>1, <1>2, <1>3

LEMMA FleetStep == FleetInv /\ [F!Next]_F!vars => FleetInv'
<1> SUFFICES ASSUME FleetInv, [F!Next]_F!vars PROVE FleetInv'
  OBVIOUS
<1>0. /\ Stale \in Nat /\ Period \in Nat /\ MaxProbeLag \in Nat /\ MaxFailed \in Nat
      /\ Round \in Nat /\ Round = Period + MaxProbeLag /\ F!Deadline \in Nat
  BY FleetNumbers, Rounds DEF Round
<1>1. /\ failed \in 0 .. MaxFailed /\ failed * Round \in Nat /\ timer \in Nat
      /\ (failed + 1) * Round = failed * Round + Round
      /\ \A c \in FleetCameras : silent[c] \in Nat /\ collected[c].age \in Nat
  BY <1>0, Rounds DEF FleetInv
<1>2. CASE F!Tick
  <2>1. /\ timer' = timer + 1 /\ silent' = [c \in FleetCameras |-> F!Grown(silent[c])]
        /\ UNCHANGED <<phase, collected, findings, failed>>
        /\ timer' <= IF phase = "wait" THEN Period ELSE IF phase = "probe" THEN MaxProbeLag ELSE 0
    BY <1>0, <1>1, <1>2 DEF F!Tick, FleetInv
  <2>2. \A c \in FleetCameras : silent'[c] \in Nat /\ silent'[c] <= silent[c] + 1
    BY <1>0, <1>1, <2>1 DEF F!Grown
  <2>3. phase # "reconcile"
    BY <1>0, <1>1, <2>1 DEF FleetInv
  <2>4. Elapsed' = Elapsed + 1
    BY <1>0, <1>1, <2>1, <2>3 DEF Elapsed, FleetInv
  <2>5. Elapsed \in Nat
    BY <1>0, <1>1 DEF Elapsed
  <2>6. ASSUME NEW c \in FleetCameras
        PROVE  /\ ~HasFinding(c)' => silent'[c] <= Stale + failed' * Round + Elapsed'
               /\ phase' = "probe" => silent'[c] <= collected'[c].age + timer'
    <3> DEFINE n == failed * Round
    <3>1. n \in Nat /\ failed' * Round = n
      BY <1>1, <2>1
    <3>2. ~HasFinding(c) => silent[c] <= Stale + n + Elapsed
      BY DEF FleetInv
    <3> HIDE DEF n
    <3>3. silent'[c] <= silent[c] + 1 /\ silent[c] \in Nat /\ silent'[c] \in Nat
      BY <1>1, <2>2
    <3>4. ~HasFinding(c)' => silent'[c] <= Stale + n + Elapsed'
      BY <1>0, <2>1, <2>4, <2>5, <3>1, <3>2, <3>3 DEF HasFinding
    <3>5. phase' = "probe" => silent'[c] <= collected'[c].age + timer'
      BY <1>1, <2>1, <3>3 DEF FleetInv
    <3> QED BY <3>1, <3>4, <3>5
  <2>7. silent' \in [FleetCameras -> Nat]
    BY <2>1, <2>2
  <2>8. timer' \in Nat
    BY <1>1, <2>1
  <2> QED BY <1>0, <1>1, <2>1, <2>3, <2>6, <2>7, <2>8 DEF FleetInv
<1>3. ASSUME NEW c \in FleetCameras, NEW s \in {"online", "offline"}, NEW weak \in SUBSET Weaknesses,
             F!Report(c, s, weak)
      PROVE  FleetInv'
  <2>1. /\ UNCHANGED <<phase, timer, collected, findings, failed>>
        /\ silent' \in [FleetCameras -> Nat]
        /\ \A d \in FleetCameras : silent'[d] = silent[d] \/ silent'[d] = 0
    BY <1>1, <1>3 DEF F!Report, F!loop, FleetInv
  <2>2. Elapsed' = Elapsed /\ Elapsed \in Nat
    BY <1>0, <1>1, <2>1 DEF Elapsed
  <2>3. ASSUME NEW d \in FleetCameras
        PROVE  /\ ~HasFinding(d)' => silent'[d] <= Stale + failed' * Round + Elapsed'
               /\ phase' = "probe" => silent'[d] <= collected'[d].age + timer'
               /\ phase' = "reconcile" => silent'[d] <= collected'[d].age
    <3> DEFINE n == failed * Round
    <3>1. n \in Nat /\ failed' * Round = n
      BY <1>1, <2>1
    <3>2. ~HasFinding(d) => silent[d] <= Stale + n + Elapsed
      BY DEF FleetInv
    <3> HIDE DEF n
    <3>3. ~HasFinding(d)' => silent'[d] <= Stale + n + Elapsed'
      BY <1>0, <2>1, <2>2, <3>1, <3>2 DEF HasFinding
    <3> QED BY <1>1, <2>1, <3>1, <3>3 DEF FleetInv
  <2> QED BY <2>1, <2>3 DEF FleetInv
<1>4. CASE F!Collect
  <2>1. /\ phase = "wait" /\ timer = Period /\ phase' = "probe" /\ timer' = 0
        /\ UNCHANGED <<silent, findings, failed>>
        /\ collected' = [c \in FleetCameras |->
                          [status |-> status[c], age |-> silent[c], weak |-> health[c]]]
    BY <1>4 DEF F!Collect, F!rows
  <2>2. Elapsed' = Elapsed
    BY <1>0, <2>1 DEF Elapsed
  <2>3. \A c \in FleetCameras : collected'[c].age = silent[c] /\ "age" \in DOMAIN collected'[c]
    BY <2>1
  <2>4. \A c \in FleetCameras : ~HasFinding(c)' => silent'[c] <= Stale + failed' * Round + Elapsed'
    BY <2>1, <2>2 DEF FleetInv, HasFinding
  <2> QED BY <1>0, <1>1, <2>1, <2>3, <2>4 DEF FleetInv
<1>5. CASE F!Probe
  <2>1. /\ phase = "probe" /\ phase' = "reconcile" /\ timer' = 0
        /\ UNCHANGED <<silent, findings, failed>>
        /\ collected' = [c \in FleetCameras |-> [collected[c] EXCEPT !.age = @ + timer]]
    BY <1>5 DEF F!Probe, F!rows
  <2>2. \A c \in FleetCameras : collected'[c].age = collected[c].age + timer /\ "age" \in DOMAIN collected'[c]
    BY <2>1 DEF FleetInv
  <2>3. Elapsed <= Round /\ Elapsed \in Nat /\ Elapsed' = Round
    BY <1>0, <1>1, <2>1 DEF Elapsed, FleetInv
  <2>4. ASSUME NEW c \in FleetCameras PROVE ~HasFinding(c)' => silent'[c] <= Stale + failed' * Round + Elapsed'
    <3> DEFINE n == failed * Round
    <3>1. n \in Nat /\ failed' * Round = n
      BY <1>1, <2>1
    <3>2. ~HasFinding(c) => silent[c] <= Stale + n + Elapsed
      BY DEF FleetInv
    <3> HIDE DEF n
    <3> QED BY <1>0, <1>1, <2>1, <2>3, <3>1, <3>2 DEF HasFinding
  <2> QED BY <1>0, <1>1, <2>1, <2>2, <2>4 DEF FleetInv
<1>6. ASSUME F!EndTick PROVE /\ phase' = "wait" /\ timer' = 0 /\ Elapsed' = 0
                             /\ DOMAIN collected' = FleetCameras
                             /\ \A c \in FleetCameras : collected'[c].age \in Nat /\ "age" \in DOMAIN collected'[c]
  BY <1>6 DEF F!EndTick, F!Nothing, Elapsed
<1>7. CASE F!Reconcile
  <2>1. phase = "reconcile" /\ findings' = F!Produced /\ failed' = 0 /\ UNCHANGED silent /\ F!EndTick
    BY <1>7 DEF F!Reconcile, F!rows
  <2>2. ASSUME NEW c \in FleetCameras, ~HasFinding(c)' PROVE silent'[c] <= Stale
    <3>1. <<"camera_offline", c>> \notin F!CameraFindings(c)
      BY <2>1, <2>2 DEF HasFinding, F!Produced
    <3>2. ~F!Offline(collected[c])
      BY <3>1 DEF F!CameraFindings
    <3>3. ~(collected[c].age > Stale)
      BY <3>2 DEF F!Offline
    <3> QED BY <1>0, <1>1, <2>1, <3>3 DEF FleetInv
  <2>3. failed' * Round = 0
    BY <1>0, <2>1
  <2> QED BY <1>0, <1>6, <2>1, <2>2, <2>3 DEF FleetInv
<1>8. CASE F!Fail
  <2>1. phase # "wait" /\ failed < MaxFailed /\ failed' = failed + 1 /\ UNCHANGED <<silent, findings>> /\ F!EndTick
    BY <1>8 DEF F!Fail, F!rows
  <2>2. Elapsed <= Round /\ Elapsed \in Nat
    BY <1>0, <1>1, <2>1 DEF Elapsed, FleetInv
  <2>3. ASSUME NEW c \in FleetCameras PROVE ~HasFinding(c)' => silent'[c] <= Stale + failed' * Round + Elapsed'
    <3> DEFINE n == failed * Round
    <3>1. n \in Nat /\ failed' * Round = n + Round
      BY <1>1, <2>1
    <3>2. ~HasFinding(c) => silent[c] <= Stale + n + Elapsed
      BY DEF FleetInv
    <3> HIDE DEF n
    <3> QED BY <1>0, <1>1, <1>6, <2>1, <2>2, <3>1, <3>2 DEF HasFinding
  <2> QED BY <1>0, <1>1, <1>6, <2>1, <2>3 DEF FleetInv
<1>9. CASE (\E s \in FleetServices : F!Flip(s)) \/ UNCHANGED F!vars
  <2>1. UNCHANGED <<phase, timer, collected, findings, failed, silent>>
    BY <1>9 DEF F!Flip, F!rows, F!loop, F!vars
  <2> QED BY <2>1 DEF FleetInv, Elapsed, HasFinding
<1> QED BY <1>2, <1>3, <1>4, <1>5, <1>7, <1>8, <1>9 DEF F!Next

\* engine.py:62-93, diagnostics.py:80-107 (fleet), manager.py:98-104 (ingest).  A camera has its
\* finding by the deadline, although the ages a tick judges by grow stale while it waits for
\* the services, and a tick that fails begins anew.
THEOREM SilenceIsNoticed == F!Spec => []SilenceIsFound
<1>1. F!Init => FleetInv
  <2> SUFFICES ASSUME F!Init PROVE FleetInv
    OBVIOUS
  <2>1. failed * Round = 0 /\ failed \in 0 .. MaxFailed
    BY FleetNumbers DEF F!Init
  <2> QED BY <2>1, FleetNumbers DEF F!Init, F!Nothing, FleetInv, Elapsed
<1>2. FleetInv /\ [F!Next]_F!vars => FleetInv'
  BY FleetStep
<1>3. FleetInv => SilenceIsFound
  <2> SUFFICES ASSUME FleetInv, NEW c \in FleetCameras, silent[c] > F!Deadline PROVE HasFinding(c)
    BY DEF SilenceIsFound, F!SilenceIsFound, HasFinding
  <2> DEFINE n == failed * Round
             m == MaxFailed * Round
  <2>1. n \in Nat /\ m \in Nat /\ n <= m
    BY FleetNumbers, Rounds DEF FleetInv
  <2>2. ~HasFinding(c) => silent[c] <= Stale + n + Elapsed
    BY DEF FleetInv
  <2>3. F!Deadline = Stale + m + Round
    BY FleetNumbers
  <2> HIDE DEF n, m
  <2>4. Elapsed <= Round /\ Elapsed \in Nat
    BY FleetNumbers DEF Elapsed, Round, FleetInv
  <2> QED BY <2>1, <2>2, <2>3, <2>4, FleetNumbers DEF FleetInv
<1> QED BY <1>1, <1>2, <1>3, PTL DEF F!Spec
-----------------------------------------------------------------------------
Places == {"none", "loading", "connect", "opened", "loop", "frame", "backoff", "ended"}
Workers == [at : Places, stop : BOOLEAN, mode : {"cpu", "nvdec"}, seen : BOOLEAN, hwFail : Nat, tries : Nat]

\* Every dry connection by hardware has counted, and a thread connected by it may fail once more.
HardwareInv ==
  /\ thread \in [Threads -> Workers] /\ dry \in [Threads -> Nat]
  /\ \A t \in Threads :
       /\ dry[t] <= thread[t].hwFail /\ thread[t].hwFail <= 2
       /\ thread[t].mode = "nvdec" /\ thread[t].at \in {"opened", "loop", "frame"} => thread[t].hwFail <= 1

\* What a step does to other threads does not matter: it is enough to look at one.
LEMMA OneThread ==
  ASSUME HardwareInv, NEW t \in Threads, NEW w \in Workers, NEW n \in Nat,
         thread' = [thread EXCEPT ![t] = w], dry' = [dry EXCEPT ![t] = n],
         n <= w.hwFail, w.hwFail <= 2,
         w.mode = "nvdec" /\ w.at \in {"opened", "loop", "frame"} => w.hwFail <= 1
  PROVE  HardwareInv'
BY DEF HardwareInv

LEMMA HardwareStep == HardwareInv /\ [P!Next]_P!vars => HardwareInv'
<1> SUFFICES ASSUME HardwareInv, [P!Next]_P!vars PROVE HardwareInv'
  OBVIOUS
<1>0. \A t \in Threads :
        /\ thread[t] \in Workers /\ dry[t] \in Nat /\ thread[t].hwFail \in Nat
        /\ dry[t] <= thread[t].hwFail /\ thread[t].hwFail <= 2
        /\ thread[t].mode = "nvdec" /\ thread[t].at \in {"opened", "loop", "frame"} => thread[t].hwFail <= 1
        /\ dry = [dry EXCEPT ![t] = dry[t]]
  BY DEF HardwareInv, Workers
<1>1. CASE P!StartWorker
  BY <1>0, <1>1 DEF P!StartWorker, HardwareInv, Workers, Places
<1>2. CASE P!StopWorker
  BY <1>0, <1>2 DEF P!StopWorker, HardwareInv, Workers
<1>3. ASSUME NEW t \in Threads, P!Load(t) \/ P!Online(t) \/ P!Backoff(t) \/ P!Publish(t) PROVE HardwareInv'
  <2>1. PICK place \in {"connect", "loop", "ended"} :
          /\ thread' = [thread EXCEPT ![t].at = place]
          /\ place = "loop" => thread[t].at \in {"opened", "frame"}
    BY <1>3 DEF P!Load, P!Online, P!Backoff, P!Publish
  <2>2. UNCHANGED dry
    BY <1>3 DEF P!Load, P!Online, P!Backoff, P!Publish
  <2> DEFINE w == [thread[t] EXCEPT !.at = place]
  <2>3. w \in Workers /\ w.hwFail = thread[t].hwFail /\ w.mode = thread[t].mode /\ w.at = place
    BY <1>0 DEF Workers, Places
  <2>4. thread' = [thread EXCEPT ![t] = w]
    BY <2>1
  <2> HIDE DEF w
  <2> QED BY <1>0, <2>1, <2>2, <2>3, <2>4, OneThread
<1>4. ASSUME NEW t \in Threads, P!Connect(t) PROVE HardwareInv'
  <2>1. CASE thread' = [thread EXCEPT ![t].at = "ended"]
    <3> DEFINE w == [thread[t] EXCEPT !.at = "ended"]
    <3>1. w \in Workers /\ w.hwFail = thread[t].hwFail /\ w.mode = thread[t].mode /\ w.at = "ended"
      BY <1>0 DEF Workers, Places
    <3>2. thread' = [thread EXCEPT ![t] = w] /\ UNCHANGED dry
      BY <1>4, <2>1 DEF P!Connect
    <3> HIDE DEF w
    <3> QED BY <1>0, <3>1, <3>2, OneThread
  <2>2. ASSUME NEW mode \in {"cpu", "nvdec"}, mode = "nvdec" => P!UseHardware(t),
               thread' = [thread EXCEPT ![t].at = "opened", ![t].mode = mode, ![t].seen = FALSE]
        PROVE  HardwareInv'
    <3> DEFINE w == [thread[t] EXCEPT !.at = "opened", !.mode = mode, !.seen = FALSE]
    <3>1. w \in Workers /\ w.hwFail = thread[t].hwFail /\ w.mode = mode
      BY <1>0 DEF Workers, Places
    <3>2. thread' = [thread EXCEPT ![t] = w] /\ UNCHANGED dry
      BY <1>4, <2>2 DEF P!Connect
    <3>3. mode = "nvdec" => thread[t].hwFail <= 1
      BY <1>0, <2>2 DEF P!UseHardware
    <3> HIDE DEF w
    <3> QED BY <1>0, <3>1, <3>2, <3>3, OneThread
  <2> QED BY <1>4, <2>1, <2>2 DEF P!Connect
<1>5. ASSUME NEW t \in Threads, P!Read(t) PROVE HardwareInv'
  <2> DEFINE w == [thread[t] EXCEPT !.at = "frame", !.seen = TRUE]
  <2>1. w \in Workers /\ w.hwFail = thread[t].hwFail /\ w.mode = thread[t].mode
    BY <1>0 DEF Workers, Places
  <2>2. thread' = [thread EXCEPT ![t] = w] /\ UNCHANGED dry /\ thread[t].at = "loop"
    BY <1>5 DEF P!Read
  <2> HIDE DEF w
  <2> QED BY <1>0, <2>1, <2>2, OneThread
<1>6. ASSUME NEW t \in Threads, P!OpenFails(t) PROVE HardwareInv'
  <2> DEFINE k == thread[t].tries + 1
             n == IF thread[t].mode = "nvdec" THEN thread[t].hwFail + 1 ELSE thread[t].hwFail
             d == IF P!Dry(t) THEN dry[t] + 1 ELSE dry[t]
             w == [thread[t] EXCEPT !.at = "backoff", !.tries = k, !.hwFail = n]
  <2>1. k \in Nat /\ n \in Nat /\ n <= 2 /\ d \in Nat /\ d <= n
    BY <1>0, <1>6 DEF P!Dry, P!OpenFails, Workers
  <2> HIDE DEF k, n
  <2>2. w \in Workers /\ w.hwFail = n /\ w.at = "backoff"
    BY <1>0, <2>1 DEF Workers, Places
  <2>3. thread' = [thread EXCEPT ![t] = w] /\ dry' = [dry EXCEPT ![t] = d]
    BY <1>0, <1>6 DEF P!OpenFails, P!Counted, k, n
  <2> HIDE DEF w, d
  <2> QED BY <2>1, <2>2, <2>3, OneThread
<1>7. ASSUME NEW t \in Threads, P!LoopEnds(t) PROVE HardwareInv'
  <2> DEFINE k == IF thread[t].stop THEN thread[t].tries ELSE thread[t].tries + 1
             n == IF P!Dry(t) THEN thread[t].hwFail + 1 ELSE thread[t].hwFail
             d == IF P!Dry(t) THEN dry[t] + 1 ELSE dry[t]
             w == [thread[t] EXCEPT !.at = "backoff", !.tries = k, !.hwFail = n]
  <2>1. k \in Nat /\ n \in Nat /\ n <= 2 /\ d \in Nat /\ d <= n
    BY <1>0, <1>7 DEF P!Dry, P!LoopEnds, Workers
  <2> HIDE DEF k, n
  <2>2. w \in Workers /\ w.hwFail = n /\ w.at = "backoff"
    BY <1>0, <2>1 DEF Workers, Places
  <2>3. thread' = [thread EXCEPT ![t] = w] /\ dry' = [dry EXCEPT ![t] = d]
    BY <1>0, <1>7 DEF P!LoopEnds, P!Counted, P!HardwareStarved, k, n
  <2> HIDE DEF w, d
  <2> QED BY <2>1, <2>2, <2>3, OneThread
<1>8. CASE UNCHANGED P!vars
  BY <1>8 DEF P!vars, HardwareInv
<1> QED BY <1>1, <1>2, <1>3, <1>4, <1>5, <1>6, <1>7, <1>8 DEF P!Next

\* worker.py:148-150.  In the life of a worker, hardware that gave no frame is tried twice,
\* whether it failed while it connected or starved in the loop.
THEOREM HardwareIsGivenUp == P!Spec => []HardwareGivesWay
<1>1. P!Init => HardwareInv
  BY DEF P!Init, P!Unmade, HardwareInv, Workers, Places
<1>2. HardwareInv /\ [P!Next]_P!vars => HardwareInv'
  BY HardwareStep
<1>3. HardwareInv => HardwareGivesWay
  BY DEF HardwareInv, HardwareGivesWay, P!HardwareGivesWay, Workers
<1> QED BY <1>1, <1>2, <1>3, PTL DEF P!Spec
-----------------------------------------------------------------------------
IsSource(s) == DOMAIN s = {"path", "relay", "reg", "stop", "cam", "late"}

\* A relay that was started after the removal is the last its thread starts.
Late(s) ==
  /\ IsSource(s) /\ s.stop \in BOOLEAN /\ s.late \in {0, 1}
  /\ s.late = 1 => s.stop /\ s.relay \in {"runs", "ended"}

RelayInv == DOMAIN source = S!Ids /\ \A i \in S!Ids : Late(source[i])

LEMMA OneSource ==
  ASSUME RelayInv, NEW i \in S!Ids, NEW s, source' = [source EXCEPT ![i] = s], Late(s)
  PROVE  RelayInv'
BY DEF RelayInv

LEMMA FreshIsNotLate ==
  /\ \A p, relay : Late(S!Fresh(p, relay)) /\ Late([S!Fresh(p, relay) EXCEPT !.reg = "none"])
  /\ Late(S!Unmade)
BY DEF Late, IsSource, S!Fresh, S!Unmade

LEMMA RelayStep == RelayInv /\ [S!Next]_S!vars => RelayInv'
<1> SUFFICES ASSUME RelayInv, [S!Next]_S!vars PROVE RelayInv'
  OBVIOUS
<1>0. DOMAIN source = S!Ids /\ \A i \in S!Ids : Late(source[i])
  BY DEF RelayInv
<1>1. ASSUME NEW p \in Added, NEW live \in BOOLEAN, S!Add(p, live) PROVE RelayInv'
  BY <1>0, <1>1, FreshIsNotLate DEF S!Add, RelayInv
<1>2. ASSUME NEW i \in S!Ids, S!Test(i) \/ S!Exit(i) \/ S!Retry(i) PROVE RelayInv'
  <2>1. PICK r \in {"ended", "start", "backoff", "test"} :
          /\ source' = [source EXCEPT ![i] = [@ EXCEPT !["relay"] = r]]
          /\ source[i].stop => r = "ended"
    BY <1>2 DEF S!Test, S!Exit, S!Retry, S!Set, S!Stopped
  <2>2. Late([source[i] EXCEPT !.relay = r])
    BY <1>0, <2>1 DEF Late, IsSource
  <2> QED BY <2>1, <2>2, OneSource
<1>3. ASSUME NEW i \in S!Ids, S!Spawn(i) PROVE RelayInv'
  <2>1. source[i].late = 0
    BY <1>0, <1>3 DEF S!Spawn, Late
  <2> DEFINE n == IF source[i].stop THEN 1 ELSE 0
  <2>2. source' = [source EXCEPT ![i] = [source[i] EXCEPT !.relay = "runs", !.late = n]]
    <3>1. source[i].stop \in BOOLEAN /\ i \in DOMAIN source /\ "late" \in DOMAIN source[i]
      BY <1>0 DEF Late, IsSource
    <3>2. source' = [source EXCEPT ![i].relay = "runs",
                                   ![i].late = IF source[i].stop THEN @ + 1 ELSE @]
      BY <1>3 DEF S!Spawn
    <3>3. CASE source[i].stop
      <4>1. source' = [source EXCEPT ![i].relay = "runs", ![i].late = source[i].late + 1]
        BY <3>1, <3>2, <3>3
      <4>2. source[i].late + 1 = 1
        BY <2>1
      <4>3. source' = [source EXCEPT ![i].relay = "runs", ![i].late = 1]
        BY <4>1, <4>2
      <4> QED BY <3>1, <3>3, <4>3
    <3>4. CASE ~source[i].stop
      BY <2>1, <3>1, <3>2, <3>4
    <3> QED BY <3>1, <3>3, <3>4
  <2>3. Late([source[i] EXCEPT !.relay = "runs", !.late = n])
    BY <1>0 DEF Late, IsSource
  <2> HIDE DEF n
  <2> QED BY <2>2, <2>3, OneSource
<1>4. ASSUME NEW i \in S!Ids, S!Register(i) \/ S!Create(i) PROVE RelayInv'
  <2>1. PICK reg, cam : \/ source' = [source EXCEPT ![i].reg = reg]
                         \/ source' = [source EXCEPT ![i].reg = reg, ![i].cam = cam]
    BY <1>4 DEF S!Register, S!Create, S!Set
  <2>2. Late([source[i] EXCEPT !.reg = reg]) /\ Late([source[i] EXCEPT !.reg = reg, !.cam = cam])
    BY <1>0 DEF Late, IsSource
  <2>3. \/ source' = [source EXCEPT ![i] = [source[i] EXCEPT !.reg = reg]]
        \/ source' = [source EXCEPT ![i] = [source[i] EXCEPT !.reg = reg, !.cam = cam]]
    BY <1>0, <2>1
  <2> QED BY <2>2, <2>3, OneSource
<1>5. ASSUME NEW c \in DOMAIN cameras, S!Remove(c) PROVE RelayInv'
  <2>1. CASE UNCHANGED source
    BY <2>1 DEF RelayInv
  <2>2. ASSUME NEW i \in listed,
               source' = [source EXCEPT ![i].stop = TRUE,
                                        ![i].relay = IF @ = "runs" THEN "ended" ELSE @]
        PROVE  RelayInv'
    <3>1. CASE i \in S!Ids
      <4> DEFINE r == IF source[i].relay = "runs" THEN "ended" ELSE source[i].relay
                 s == [source[i] EXCEPT !.stop = TRUE, !.relay = r]
      <4>1. source' = [source EXCEPT ![i] = s]
        BY <2>2
      <4>2. Late(s)
        BY <1>0, <3>1 DEF Late, IsSource
      <4> HIDE DEF s
      <4> QED BY <3>1, <4>1, <4>2, OneSource
    <3>2. CASE i \notin S!Ids
      BY <1>0, <2>2, <3>2 DEF RelayInv
    <3> QED BY <3>1, <3>2
  <2> QED BY <1>5, <2>1, <2>2 DEF S!Remove
<1>6. ASSUME NEW p \in Pushed, S!Onboard(p) PROVE RelayInv'
  <2>1. CASE UNCHANGED source
    BY <2>1 DEF RelayInv
  <2>2. CASE source' = [source EXCEPT ![sources + 1] = S!Fresh(p, "none")]
    BY <1>0, <2>2, FreshIsNotLate DEF RelayInv
  <2>3. (UNCHANGED source) \/ source' = [source EXCEPT ![sources + 1] = S!Fresh(p, "none")]
    BY <1>6 DEF S!Onboard
  <2> QED BY <2>1, <2>2, <2>3
<1>7. CASE S!Restart
  <2> DEFINE again == (sources + 1) .. (sources + S!Cardinality(config))
  <2>1. PICK order \in [again -> config] :
          source' = [i \in S!Ids |-> IF i \in again THEN S!Fresh(order[i], "test") ELSE S!Unmade]
    BY <1>7 DEF S!Restart
  <2> QED BY <2>1, FreshIsNotLate DEF RelayInv
<1>8. CASE UNCHANGED source
  BY <1>8 DEF RelayInv
<1>9. ASSUME NEW c \in DOMAIN cameras, S!DeleteRow(c) \/ S!Lost(c) PROVE UNCHANGED source
  BY <1>9 DEF S!DeleteRow, S!Lost
<1>10. ASSUME NEW p \in Pushed, S!Push(p) PROVE UNCHANGED source
  BY <1>10 DEF S!Push
<1> QED
  BY <1>1, <1>2, <1>3, <1>4, <1>5, <1>6, <1>7, <1>8, <1>9, <1>10
  DEF S!Next, S!Suppress, S!Look, S!Compare, S!vars, S!World

\* manager.py:203-239, 400-421.  A removed source is relayed at most once more, by a thread
\* that had passed its test of stop_event, whatever happens to its path meanwhile.
THEOREM RelayEnds == S!Spec => []OneLateRelay
<1>1. S!Init => RelayInv
  BY FreshIsNotLate DEF S!Init, RelayInv
<1>2. RelayInv /\ [S!Next]_S!vars => RelayInv'
  BY RelayStep
<1>3. RelayInv => OneLateRelay
  BY DEF RelayInv, Late, OneLateRelay, S!OneLateRelay
<1> QED BY <1>1, <1>2, <1>3, PTL DEF S!Spec
-----------------------------------------------------------------------------
\* Every link is of two points, under the key of these two, and no key has two links.
LinkInv ==
  /\ \A l \in links : \E p, q \in Points : l = [key |-> V!Key(p, q), ends |-> {p, q}]
  /\ \A l, m \in links : l.key = m.key => l = m

LEMMA LinkStep == LinkInv /\ [V!Next]_V!vars => LinkInv'
<1> SUFFICES ASSUME LinkInv, [V!Next]_V!vars PROVE LinkInv'
  OBVIOUS
<1>1. CASE UNCHANGED links
  BY <1>1 DEF LinkInv
<1>2. ASSUME NEW p \in Points, NEW q \in Points, V!Link(p, q) PROVE LinkInv'
  <2>1. CASE UNCHANGED links
    BY <2>1 DEF LinkInv
  <2> DEFINE new == [key |-> V!Key(p, q), ends |-> {p, q}]
  <2>2. CASE (\A l \in links : l.key # V!Key(p, q)) /\ links' = links \cup {new}
    <3>1. new.key = V!Key(p, q)
      OBVIOUS
    <3> HIDE DEF new
    <3>2. \A l \in links' : \E x, y \in Points : l = [key |-> V!Key(x, y), ends |-> {x, y}]
      BY <2>2 DEF LinkInv, new
    <3>3. \A l, m \in links' : l.key = m.key => l = m
      BY <2>2, <3>1 DEF LinkInv
    <3> QED BY <3>2, <3>3 DEF LinkInv
  <2> QED BY <1>2, <2>1, <2>2 DEF V!Link
<1> QED BY <1>1, <1>2 DEF V!Next, V!Move, V!Scan, V!End, V!Restart, V!Miss, V!vars

\* reidscan.py:105-126, 140-188.  A pair is linked once, as its key does not depend on the end
\* that is searched from and the lookup of the key comes with the insert.
THEOREM PairsAreLinkedOnce == V!Spec => []LinkedOnce
<1>1. V!Init => LinkInv
  BY DEF V!Init, LinkInv
<1>2. LinkInv /\ [V!Next]_V!vars => LinkInv'
  BY LinkStep
<1>3. LinkInv => LinkedOnce
  <2> SUFFICES ASSUME LinkInv, NEW l \in links, NEW m \in links, l.ends = m.ends PROVE l = m
    BY DEF LinkedOnce, V!LinkedOnce
  <2>1. PICK p, q \in Points : l = [key |-> V!Key(p, q), ends |-> {p, q}]
    BY DEF LinkInv
  <2>2. PICK x, y \in Points : m = [key |-> V!Key(x, y), ends |-> {x, y}]
    BY DEF LinkInv
  <2>3. {p, q} = {x, y}
    BY <2>1, <2>2
  <2>4. V!Key(p, q) = V!Key(x, y)
    BY <2>3, CameraAssumption DEF V!Key
  <2> QED BY <2>1, <2>2, <2>4 DEF LinkInv
<1> QED BY <1>1, <1>2, <1>3, PTL DEF V!Spec
-----------------------------------------------------------------------------
\* What is in the cache was so when the cache was emptied last, or since.
PlateInv ==
  /\ siteOf \in [PlateCameras -> PlateSites \cup {X!NoSite}]
  /\ left \in [PlateCameras -> [PlateSites -> 0 .. TTL + 1]]
  /\ cache \in [PlateCameras -> PlateSites \cup {X!NoSite, "unread"}]
  /\ cacheAge \in 0 .. TTL + 1
  /\ \A c \in PlateCameras : siteOf[c] \in PlateSites => left[c][siteOf[c]] = 0
  /\ \A c \in PlateCameras : cache[c] \in PlateSites /\ cache[c] # "unread" => left[c][cache[c]] <= cacheAge

LEMMA CurrentSite ==
  ASSUME PlateInv, NEW c \in PlateCameras
  PROVE  /\ X!Site(c) \in PlateSites \cup {X!NoSite}
         /\ X!Site(c) \in PlateSites => left[c][X!Site(c)] <= IF cacheAge > TTL THEN 0 ELSE cacheAge
<1>1. TTL \in Nat /\ cacheAge \in 0 .. TTL + 1
  BY CameraAssumption DEF PlateInv
<1>2. CASE X!Current[c] = "unread"
  BY <1>1, <1>2 DEF X!Site, PlateInv
<1>3. CASE X!Current[c] # "unread"
  <2>1. ~(cacheAge > TTL) /\ X!Site(c) = cache[c] /\ cache[c] # "unread"
    BY <1>3 DEF X!Current, X!Site
  <2> QED BY <2>1 DEF PlateInv
<1> QED BY <1>2, <1>3

LEMMA PlateStep == PlateInv /\ [X!Next]_X!vars => PlateInv'
<1> SUFFICES ASSUME PlateInv, [X!Next]_X!vars PROVE PlateInv'
  OBVIOUS
<1>0. TTL \in Nat
  BY CameraAssumption
<1>1. ASSUME NEW c \in PlateCameras, NEW s \in PlateSites \cup {X!NoSite}, X!Move(c, s) PROVE PlateInv'
  BY <1>0, <1>1 DEF X!Move, PlateInv
<1>2. ASSUME NEW c \in PlateCameras, X!Handle(c) PROVE PlateInv'
  <2>1. /\ cache' = [X!Current EXCEPT ![c] = X!Site(c)]
        /\ cacheAge' = IF cacheAge > TTL THEN 0 ELSE cacheAge
        /\ UNCHANGED <<siteOf, left>>
    BY <1>2 DEF X!Handle
  <2>2. X!Current \in [PlateCameras -> PlateSites \cup {X!NoSite, "unread"}]
    BY DEF X!Current, PlateInv
  <2>3. cache' \in [PlateCameras -> PlateSites \cup {X!NoSite, "unread"}]
    BY <2>1, <2>2, CurrentSite
  <2>4. ASSUME NEW d \in PlateCameras, cache'[d] \in PlateSites, cache'[d] # "unread"
        PROVE  left[d][cache'[d]] <= cacheAge'
    <3>1. CASE d = c
      BY <2>1, <2>2, <2>4, <3>1, CurrentSite
    <3>2. CASE d # c
      <4>1. cache'[d] = X!Current[d]
        BY <2>1, <2>2, <3>2
      <4>2. ~(cacheAge > TTL) /\ cache'[d] = cache[d]
        BY <2>4, <4>1 DEF X!Current
      <4> QED BY <2>1, <2>4, <4>2 DEF PlateInv
    <3> QED BY <3>1, <3>2
  <2> QED BY <1>0, <2>1, <2>3, <2>4 DEF PlateInv
<1>3. CASE X!Tick
  BY <1>0, <1>3 DEF X!Tick, PlateInv
<1>4. CASE X!Restart
  BY <1>0, <1>4 DEF X!Restart, PlateInv
<1>5. CASE X!Forget \/ UNCHANGED X!vars
  BY <1>5 DEF X!Forget, X!vars, PlateInv
<1> QED BY <1>1, <1>2, <1>3, <1>4, <1>5 DEF X!Next

\* engine.py:55-74.  A sighting is tied to a site its camera is at or has left no longer than
\* the lifetime of the cache ago, although the whole cache expires by one age and an entry
\* may have been read long after it.
THEOREM SightingsAreFresh == X!Spec => SightingsAreCurrent
<1>1. X!Init => PlateInv
  BY CameraAssumption DEF X!Init, PlateInv
<1>2. PlateInv /\ [X!Next]_X!vars => PlateInv'
  BY PlateStep
<1>3. PlateInv /\ [X!Next]_X!vars =>
        [\A x \in sighted' \ sighted : x[1] = X!NoSite \/ left[x[2]][x[1]] <= TTL]_X!vars
  <2> SUFFICES ASSUME PlateInv, X!Next, NEW x \in sighted' \ sighted
               PROVE  x[1] = X!NoSite \/ left[x[2]][x[1]] <= TTL
    OBVIOUS
  <2>1. PICK c \in PlateCameras : X!Handle(c)
    BY DEF X!Next, X!Move, X!Tick, X!Forget, X!Restart
  <2>2. x = <<X!Site(c), c>>
    BY <2>1 DEF X!Handle
  <2>3. X!Site(c) \in PlateSites \cup {X!NoSite}
        /\ (X!Site(c) \in PlateSites => left[c][X!Site(c)] <= IF cacheAge > TTL THEN 0 ELSE cacheAge)
    BY CurrentSite
  <2>4. TTL \in Nat /\ cacheAge \in 0 .. TTL + 1 /\ \A s \in PlateSites : left[c][s] \in 0 .. TTL + 1
    BY CameraAssumption DEF PlateInv
  <2> QED BY <2>2, <2>3, <2>4
<1> QED BY <1>1, <1>2, <1>3, PTL DEF X!Spec, SightingsAreCurrent, X!SightingsAreCurrent
===============================================================================
