---------------------------- MODULE ServiceParts ----------------------------
(***************************************************************************)
(* The evidence vault and the components that keep a state of their own    *)
(* beside it.  They share no state, so one specification explores them     *)
(* side by side: the initial state chooses `part`, and only that part      *)
(* takes steps.  Where two modules name a variable or a constant alike, it *)
(* gets the name of its module here.                                       *)
(***************************************************************************)
EXTENDS EvidenceVault, TLC

CONSTANTS
  MaxRuns,                                                        \* Migrations
  Models, Default, Requests, Scores, Delta, MaxRows, MaxCount,    \* ModelRegistry
  Users, Lifetime, LoginMax, LoginWindow, MaxAttempts,            \* Access
  NotifyIncidents, MaxMessages, MaxCrashes,                       \* NotifyEngine
  MaxSegments, Limit, Parallel, MaxFaults,                        \* Ingest
  Added, Pushed, MaxSources, MaxRestarts,                         \* MediaSources
  Threads, MaxTries,                                              \* Perception
  SweepCameras, Signatures, MaxSignatures, MaxCameras,            \* Sweeps
  SweepInterval, SweepCooldown, MaxSweepLag,
  AlertInterval, AlertCooldown, MaxAlertLag,                      \* NLAlerts
  FleetCameras, FleetServices, Weaknesses, HostMetrics,           \* Fleet
  PerceptionMetrics, Stale, Period, MaxProbeLag, MaxFailed,
  PlateCameras, PlateSites, TTL,                                  \* CrossSite
  ScanCameras, ScanSites, Points, PointCamera, MaxLinks           \* Appearances

VARIABLES
  part,
  version, tables, types, used, run, runs,
  registry, evals, audit, tx, count,
  users, tokens, request, hits, written,
  queue, step, remembered, mailed, told, audited, announced, crashes,
  worker, stopping, pool, last, stage, file, object, rows, excess, old, expired,
  camera, recorded, faults,
  sources, source, listed, config, cameras, deleting, removing, suppressed, ready,
  pushes, restarts,
  made, current, latest, thread, dry,
  sweep, toSweep, asks, swept, cool, matches, sweepAge,
  active, evaluated, fired, lag, loaded, frame, since,
  silent, status, health, up, phase, timer, collected, answered, measured, findings, failed,
  siteOf, left, cache, cacheAge, sighted, plate,
  cameraSite, map, points, linked, pairs, links

migrations == <<version, tables, types, used, run, runs>>
registryState == <<registry, evals, audit, tx, count>>
access == <<users, tokens, request, hits, written>>
notify == <<queue, step, remembered, mailed, told, audited, announced, crashes>>
ingest == <<worker, stopping, pool, last, stage, file, object, rows, excess, old, expired,
            camera, recorded, faults>>
media == <<sources, source, listed, config, cameras, deleting, removing, suppressed, ready,
           pushes, restarts>>
perception == <<made, current, latest, thread, dry>>
sweeps == <<sweep, toSweep, asks, swept, cool, matches, sweepAge>>
alerts == <<active, evaluated, fired, lag, loaded, frame, since>>
fleet == <<silent, status, health, up, phase, timer, collected, answered, measured, findings,
           failed>>
plates == <<siteOf, left, cache, cacheAge, sighted, plate>>
appearances == <<cameraSite, map, points, linked, pairs, links>>

M == INSTANCE Migrations

R == INSTANCE ModelRegistry WITH rows <- registry

A == INSTANCE Access WITH Window <- LoginWindow

N == INSTANCE NotifyEngine WITH Incidents <- NotifyIncidents, at <- step

I == INSTANCE Ingest WITH listed <- recorded

S == INSTANCE MediaSources WITH made <- sources, seen <- pushes

P == INSTANCE Perception

G == INSTANCE Sweeps WITH
  Cameras <- SweepCameras, Interval <- SweepInterval, Cooldown <- SweepCooldown,
  MaxLag <- MaxSweepLag,
  lag <- sweep, todo <- toSweep, count <- asks, hits <- matches, since <- sweepAge

L == INSTANCE NLAlerts WITH
  Interval <- AlertInterval, Cooldown <- AlertCooldown, MaxLag <- MaxAlertLag

F == INSTANCE Fleet WITH
  Cameras <- FleetCameras, Services <- FleetServices, MaxLag <- MaxProbeLag

X == INSTANCE CrossSite WITH
  Cameras <- PlateCameras, Sites <- PlateSites, loaded <- cacheAge

V == INSTANCE Appearances WITH
  Cameras <- ScanCameras, Sites <- ScanSites,
  siteOf <- cameraSite, todo <- points, made <- linked, seen <- pairs

\* What the proofs ask of the parameters: that numbers are numbers, that there are finitely
\* many default models, that ids of vectors are ordered, and that the tick of a sweep is
\* shorter than its cooldown (300 s against a dozen calls of the VLM).
ASSUME SweepAssumption == G!SweepParameters
ASSUME AlertAssumption == AlertCooldown \in Nat /\ MaxAlertLag \in Nat
ASSUME RegistryAssumption == IsFiniteSet(Models)
ASSUME CameraAssumption ==
  /\ {MaxSegments, MaxSources, TTL} \subseteq Nat
  /\ {Stale, Period, MaxProbeLag, MaxFailed} \subseteq Nat
  /\ Points \subseteq Int

Parts == {"vault", "migrations", "registry", "access", "notify", "ingest", "media",
          "perception", "sweep", "alerts", "fleet", "plates", "appearances"}

PartsInit ==
  /\ part \in Parts
  /\ Init /\ M!Init /\ R!Init /\ N!Init /\ I!Init /\ S!Init /\ P!Init
  /\ G!Init /\ L!Init /\ F!Init
  /\ A!Init /\ X!Init /\ V!Init

\* All parts but p stay as they are.
Only(p) ==
  /\ UNCHANGED part
  /\ IF p = "vault" THEN TRUE ELSE UNCHANGED vars
  /\ IF p = "migrations" THEN TRUE ELSE UNCHANGED migrations
  /\ IF p = "registry" THEN TRUE ELSE UNCHANGED registryState
  /\ IF p = "access" THEN TRUE ELSE UNCHANGED access
  /\ IF p = "notify" THEN TRUE ELSE UNCHANGED notify
  /\ IF p = "ingest" THEN TRUE ELSE UNCHANGED ingest
  /\ IF p = "media" THEN TRUE ELSE UNCHANGED media
  /\ IF p = "perception" THEN TRUE ELSE UNCHANGED perception
  /\ IF p = "sweep" THEN TRUE ELSE UNCHANGED sweeps
  /\ IF p = "alerts" THEN TRUE ELSE UNCHANGED alerts
  /\ IF p = "fleet" THEN TRUE ELSE UNCHANGED fleet
  /\ IF p = "plates" THEN TRUE ELSE UNCHANGED plates
  /\ IF p = "appearances" THEN TRUE ELSE UNCHANGED appearances

PartsNext ==
  \/ part = "vault" /\ Next /\ Only("vault")
  \/ part = "migrations" /\ M!Next /\ Only("migrations")
  \/ part = "registry" /\ R!Next /\ Only("registry")
  \/ part = "access" /\ A!Next /\ Only("access")
  \/ part = "notify" /\ N!Next /\ Only("notify")
  \/ part = "ingest" /\ I!Next /\ Only("ingest")
  \/ part = "media" /\ S!Next /\ Only("media")
  \/ part = "perception" /\ P!Next /\ Only("perception")
  \/ part = "sweep" /\ G!Next /\ Only("sweep")
  \/ part = "alerts" /\ L!Next /\ Only("alerts")
  \/ part = "fleet" /\ F!Next /\ Only("fleet")
  \/ part = "plates" /\ X!Next /\ Only("plates")
  \/ part = "appearances" /\ V!Next /\ Only("appearances")

all == <<part, vars, migrations, registryState, access, notify, ingest, media, perception,
         sweeps, alerts, fleet, plates, appearances>>

PartsSpec == PartsInit /\ [][PartsNext]_all
-----------------------------------------------------------------------------
\* The properties are those of the modules, where each is stated and explained.

\* Migrations: no operation of an upgrade or downgrade is refused.
NoOperationRefused == M!NoOperationRefused
\* Migrations: the last revision is what the ORM declares.
HeadIsDeclared == M!HeadIsDeclared
\* ModelRegistry: a promotion alone leaves one champion.
PromotionSettlesTheRole == R!PromotionSettlesTheRole
\* Access: a write takes effect only of a user who was allowed to write meanwhile.
WritersWereAllowed == A!WritersWereAllowed
\* NotifyEngine: no confirmed incident is consumed without a mail having been tried.
ConsumedIsNotified == N!ConsumedIsNotified
\* Ingest: every segment is somewhere, unless retention or deletion took it.
NothingIsLost == I!NothingIsLost
\* MediaSources: a removed source is relayed at most once more.
OneLateRelay == S!OneLateRelay
\* Perception: hardware decoding that gives no frames gives way.
HardwareGivesWay == P!HardwareGivesWay
\* Sweeps: two incidents of one camera and signature are a cooldown apart.
RefiresAreApart == G!RefiresAreApart
\* NLAlerts: two incidents of one alert are a cooldown apart.
AlertsAreApart == L!AlertsAreApart
\* Fleet: a camera that has gone silent gets its finding in time.
SilenceIsFound == F!SilenceIsFound
\* CrossSite: a sighting is tied to a site its camera is at or has just left.
SightingsAreCurrent == X!SightingsAreCurrent
\* Appearances: a pair of vectors is linked once.
LinkedOnce == V!LinkedOnce
=============================================================================
