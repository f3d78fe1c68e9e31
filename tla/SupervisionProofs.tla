-------------------------- MODULE SupervisionProofs --------------------------
(***************************************************************************)
(* ConnectorSupervision for any number of connectors, of restarts and of   *)
(* channels: its types, that the dashboard alone never has two connectors, *)
(* and that alerts are spaced.                                             *)
(***************************************************************************)
EXTENDS ConnectorSupervision, TLAPS

USE BoundsAssumption, ChannelAssumption

-----------------------------------------------------------------------------
(* Types.                                                                  *)

LEMMA InitType == Init => TypeOK
BY DEF Init, TypeOK, Idle, Proc, NoProc, Stage, Running, Starter, Status

\* The connector's own steps keep the types.
LEMMA ConnectorType ==
  ASSUME TypeOK, NEW p \in Proc, ConnectorStep(p)
  PROVE  TypeOK'
<1> USE DEF TypeOK, connector, files, dashboard, alerts, Stage, Running, Starter, Status
<1>1. CASE WritePid(p)
  BY <1>1 DEF WritePid
<1>2. CASE Connected(p)
  BY <1>2 DEF Connected, Moves
<1>3. CASE ShowQr(p)
  BY <1>3 DEF ShowQr, Moves
<1>4. CASE Scan(p)
  BY <1>4 DEF Scan, Moves
<1>5. CASE Disconnect(p)
  BY <1>5 DEF Disconnect, Moves
<1>6. CASE LoggedOut(p)
  BY <1>6 DEF LoggedOut, Moves
<1>7. CASE Beat(p)
  BY <1>7 DEF Beat
<1>8. CASE Crash(p)
  BY <1>8 DEF Crash, Stops
<1>9. CASE DieSilently(p)
  BY <1>9 DEF DieSilently, Stops
<1>10. CASE Hang(p)
  BY <1>10 DEF Hang, Stops
<1>11. CASE StartElsewhere(p)
  BY <1>11 DEF StartElsewhere, Spawn, NextProc
<1> QED
  BY <1>1, <1>2, <1>3, <1>4, <1>5, <1>6, <1>7, <1>8, <1>9, <1>10, <1>11
     DEF ConnectorStep

\* So do the dashboard's.
LEMMA DashboardType ==
  ASSUME TypeOK, DashboardStep
  PROVE  TypeOK'
<1> USE DEF TypeOK, connector, files, dashboard, alerts, Stage, Running, Starter, Status
<1>1. CASE SeenRunning \/ ConnectFails \/ GracePeriodEnds
  BY <1>1 DEF SeenRunning, ConnectFails, GracePeriodEnds
<1>2. CASE DashboardRestarts
  BY <1>2 DEF DashboardRestarts, Stops, Idle
<1>3. ASSUME NEW p \in Proc, whatsapp_connect(p) PROVE TypeOK'
  BY <1>3 DEF whatsapp_connect, Spawn, NextProc
<1> QED  BY <1>1, <1>2, <1>3 DEF DashboardStep

\* Whom a run alerts about, and remembers, are channels.
LEMMA AlertTypes ==
  ASSUME NEW bad \in SUBSET Channel, NEW good, NEW remembered \in SUBSET Channel
  PROVE  /\ ToAlert(bad, remembered) \in SUBSET Channel
         /\ Remember(bad, good, remembered) \in SUBSET Channel
BY DEF ToAlert, Remember

\* So do the monitor's.
LEMMA MonitorType ==
  ASSUME TypeOK, MonitorStep
  PROVE  TypeOK'
<1> USE DEF connector, files, dashboard, alerts
<1>1. ASSUME NEW syncFile \in [SyncChannel -> SyncFile], BeginRun(syncFile)
      PROVE  TypeOK'
  <2> DEFINE good == {c \in SyncChannel : check_sync_status(syncFile[c])}
             bad == SyncChannel \ good
             well == check_whatsapp_liveness = "healthy"
  <2>1. good \in SUBSET Channel /\ bad \in SUBSET Channel
    BY DEF Channel
  <2>2. /\ ToAlert(bad, alertState) \in SUBSET Channel
        /\ Remember(bad, good, alertState) \in SUBSET Channel
    <3> HIDE DEF good, bad
    <3> QED  BY <2>1, AlertTypes DEF TypeOK
  <2>3. alerted' \in SUBSET Channel
    BY <1>1, <2>2 DEF BeginRun, Announce, TypeOK
  <2>4. /\ run'.pc \in {"kill", "start", "report"}
        /\ run' = [pc |-> run'.pc, healthy |-> well,
                   sent |-> ToAlert(bad, alertState),
                   alerts |-> Remember(bad, good, alertState)]
    BY <1>1 DEF BeginRun
  <2> well \in BOOLEAN
    OBVIOUS
  <2> HIDE DEF good, bad, well
  <2>5. run' \in [pc : {"idle", "kill", "start", "poll", "report", "save"},
                  healthy : BOOLEAN, sent : SUBSET Channel, alerts : SUBSET Channel]
    BY <2>2, <2>4
  <2> QED  BY <1>1, <2>3, <2>5 DEF BeginRun, TypeOK
<1>2. CASE KillZombie
  BY <1>2 DEF KillZombie, Stops, TypeOK, Stage
<1>3. CASE CannotStart
  BY <1>3 DEF CannotStart, TypeOK
<1>4. CASE PollEnds
  BY <1>4 DEF PollEnds, TypeOK
<1>5. CASE Report
  <2> DEFINE good == IF run.healthy THEN {WhatsApp} ELSE {}
             bad == {WhatsApp} \ good
  <2>1. bad \in SUBSET Channel
    BY DEF Channel
  <2>2. run.sent \in SUBSET Channel /\ run.alerts \in SUBSET Channel
    BY DEF TypeOK
  <2>3. /\ ToAlert(bad, run.alerts) \in SUBSET Channel
        /\ Remember(bad, good, run.alerts) \in SUBSET Channel
    <3> HIDE DEF good, bad
    <3> QED  BY <2>1, <2>2, AlertTypes
  <2>4. alerted' = (alerted \ good) \cup ToAlert(bad, run.alerts)
    BY <1>5 DEF Report, Announce
  <2>5. run' = [run EXCEPT !.pc = "save",
                  !.sent = run.sent \cup ToAlert(bad, run.alerts),
                  !.alerts = Remember(bad, good, run.alerts)]
    BY <1>5 DEF Report
  <2> HIDE DEF good, bad
  <2>6. run' \in [pc : {"idle", "kill", "start", "poll", "report", "save"},
                  healthy : BOOLEAN, sent : SUBSET Channel, alerts : SUBSET Channel]
    BY <2>2, <2>3, <2>5 DEF TypeOK
  <2>7. alerted' \in SUBSET Channel
    BY <2>3, <2>4 DEF TypeOK
  <2> QED  BY <1>5, <2>6, <2>7 DEF Report, TypeOK
<1>6. CASE save_alert_state
  BY <1>6 DEF save_alert_state, Saved, Idle, TypeOK
<1>7. ASSUME NEW p \in Proc, start_whatsapp_detached(p) PROVE TypeOK'
  BY <1>7 DEF start_whatsapp_detached, Spawn, NextProc, TypeOK, Stage, Running, Starter
<1> QED  BY <1>1, <1>2, <1>3, <1>4, <1>5, <1>6, <1>7 DEF MonitorStep

LEMMA StepType == TypeOK /\ [Next]_vars => TypeOK'
<1> SUFFICES ASSUME TypeOK, [Next]_vars PROVE TypeOK'
  OBVIOUS
<1>1. CASE HeartbeatExpires
  BY <1>1 DEF HeartbeatExpires, TypeOK, connector, dashboard, alerts
<1>2. ASSUME NEW c \in Channel, CooldownEnds(c) PROVE TypeOK'
  BY <1>2 DEF CooldownEnds, TypeOK, connector, files, dashboard
<1>3. CASE UNCHANGED vars
  BY <1>3 DEF TypeOK, vars, connector, files, dashboard, alerts
<1> QED  BY <1>1, <1>2, <1>3, ConnectorType, DashboardType, MonitorType DEF Next

\* Every variable keeps the values that the files and the memory it stands for
\* can have.
THEOREM TypeCorrect == Spec => []TypeOK
<1>1. Init => TypeOK
  BY InitType
<1>2. TypeOK /\ [Next]_vars => TypeOK'
  BY StepType
<1> QED  BY <1>1, <1>2, PTL DEF Spec

-----------------------------------------------------------------------------
(* One connector of the dashboard.                                         *)

\* A process has a starter once it has been started, and its number is in .pid
\* only after it has got as far as writing it there.
StartersKnown ==
    /\ \A p \in Proc : stage[p] = "unused" <=> startedBy[p] = "nobody"
    /\ \A p \in Proc : pidFile = p => stage[p] \notin {"unused", "spawned"}

\* A connector that the dashboard cannot see by .pid is one it remembers to
\* have started a moment ago.
Seen(p) ==
    \/ stage[p] = "spawned" /\ spawnStarted = "grace"
    \/ stage[p] # "spawned" /\ pidFile = p

OnlyOne ==
    DashboardOnly =>
      /\ \A p, q \in Proc : Alive(p) /\ Alive(q) => p = q
      /\ \A p \in Proc : Alive(p) => Seen(p)

OneInv == TypeOK /\ StartersKnown /\ OnlyOne

LEMMA InitOne == Init => OneInv
<1> SUFFICES ASSUME Init PROVE OneInv
  OBVIOUS
<1>1. StartersKnown
  BY DEF Init, StartersKnown, Proc, NoProc
<1>2. OnlyOne
  BY DEF Init, OnlyOne, Alive
<1> QED  BY <1>1, <1>2, InitType DEF OneInv

\* A step that starts nobody and revives nobody.
LEMMA NobodyStarted ==
  ASSUME OneInv, UNCHANGED <<startedBy, pidFile, spawnStarted>>, TypeOK',
         \A p \in Proc : \/ stage'[p] = stage[p]
                         \/ Alive(p) /\ stage'[p] = "dead"
                         \/ Alive(p) /\ stage[p] # "spawned"
                              /\ stage'[p] \notin {"unused", "spawned"}
  PROVE  OneInv'
<1>1. \A p \in Proc : Alive(p)' => Alive(p) /\ (stage'[p] = "spawned" <=> stage[p] = "spawned")
  BY DEF Alive
<1>2. \A p \in Proc : stage'[p] = "unused" <=> stage[p] = "unused"
  BY DEF Alive
<1>3. StartersKnown'
  <2>1. \A p \in Proc : stage'[p] = "spawned" => stage[p] = "spawned"
    BY DEF Alive
  <2> QED  BY <1>2, <2>1 DEF OneInv, StartersKnown
<1>4. DashboardOnly' <=> DashboardOnly
  BY DEF DashboardOnly
<1>5. OnlyOne'
  BY <1>1, <1>4 DEF OneInv, OnlyOne, Seen
<1> QED  BY <1>3, <1>5 DEF OneInv

\* A start by anybody but the dashboard ends what is claimed.
LEMMA StartedByAnother ==
  ASSUME OneInv, NEW p \in Proc, Spawn(p, "another"), UNCHANGED pidFile, TypeOK'
  PROVE  OneInv'
<1>1. stage' = [stage EXCEPT ![p] = "spawned"] /\ startedBy' = [startedBy EXCEPT ![p] = "another"]
  BY DEF Spawn
<1>2. stage[p] = "unused"
  BY DEF Spawn, NextProc
<1>3. startedBy'[p] = "another" /\ stage \in [Proc -> Stage] /\ startedBy \in [Proc -> Starter]
  BY <1>1 DEF OneInv, TypeOK
<1>4. ~DashboardOnly'
  BY <1>3 DEF DashboardOnly
<1>5. StartersKnown'
  BY <1>1, <1>2, <1>3 DEF OneInv, StartersKnown
<1> QED  BY <1>4, <1>5 DEF OneInv, OnlyOne

\* With MayStart, nobody is alive.
LEMMA NobodyAlive ==
  ASSUME OneInv, MayStart, DashboardOnly, NEW p \in Proc
  PROVE  ~Alive(p)
BY DEF OneInv, OnlyOne, Seen, MayStart, pid_is_live, Alive

\* The connector's own steps.
LEMMA ConnectorOne ==
  ASSUME OneInv, NEW p \in Proc, ConnectorStep(p), TypeOK'
  PROVE  OneInv'
<1> stage \in [Proc -> Stage]
  BY DEF OneInv, TypeOK
<1>1. CASE WritePid(p)
  <2>1. /\ stage[p] = "spawned" /\ pidFile' = p /\ UNCHANGED <<startedBy, spawnStarted>>
        /\ stage' = [stage EXCEPT ![p] = "connecting"]
    BY <1>1 DEF WritePid, dashboard
  <2>2. StartersKnown'
    BY <2>1 DEF OneInv, StartersKnown
  <2>3. DashboardOnly' <=> DashboardOnly
    BY <2>1 DEF DashboardOnly
  <2>4. \A q \in Proc : Alive(q)' <=> Alive(q)
    BY <2>1 DEF Alive
  <2>5. Alive(p)
    BY <2>1 DEF Alive
  <2>6. OnlyOne'
    BY <2>1, <2>3, <2>4, <2>5 DEF OneInv, OnlyOne, Seen
  <2> QED  BY <2>2, <2>6 DEF OneInv
<1>2. CASE Connected(p)
  BY <1>2, NobodyStarted DEF Connected, Moves, dashboard, Alive
<1>3. CASE ShowQr(p)
  BY <1>3, NobodyStarted DEF ShowQr, Moves, dashboard, Alive
<1>4. CASE Scan(p)
  BY <1>4, NobodyStarted DEF Scan, Moves, dashboard, Alive
<1>5. CASE Disconnect(p)
  BY <1>5, NobodyStarted DEF Disconnect, Moves, dashboard, Alive
<1>6. CASE LoggedOut(p)
  BY <1>6, NobodyStarted DEF LoggedOut, Moves, dashboard, Alive
<1>7. CASE Beat(p)
  BY <1>7, NobodyStarted DEF Beat, dashboard
<1>8. CASE Crash(p)
  BY <1>8, NobodyStarted DEF Crash, Stops, dashboard, Alive, Running
<1>9. CASE DieSilently(p)
  BY <1>9, NobodyStarted DEF DieSilently, Stops, files, dashboard, Alive
<1>10. CASE Hang(p)
  BY <1>10, NobodyStarted DEF Hang, Stops, files, dashboard, Alive, Running
<1>11. CASE StartElsewhere(p)
  BY <1>11, StartedByAnother DEF StartElsewhere
<1> QED
  BY <1>1, <1>2, <1>3, <1>4, <1>5, <1>6, <1>7, <1>8, <1>9, <1>10, <1>11
     DEF ConnectorStep

\* The dashboard's steps.
LEMMA DashboardOne ==
  ASSUME OneInv, DashboardStep, TypeOK'
  PROVE  OneInv'
<1> stage \in [Proc -> Stage] /\ startedBy \in [Proc -> Starter]
  BY DEF OneInv, TypeOK
<1>1. ASSUME UNCHANGED <<stage, startedBy, pidFile>>,
             DashboardOnly => \A p \in Proc : Alive(p) => stage[p] # "spawned"
      PROVE  OneInv'
  <2>1. DashboardOnly' <=> DashboardOnly
    BY <1>1 DEF DashboardOnly
  <2>2. OnlyOne'
    BY <1>1, <2>1 DEF OneInv, OnlyOne, Seen, Alive
  <2>3. StartersKnown'
    BY <1>1 DEF OneInv, StartersKnown
  <2> QED  BY <2>2, <2>3 DEF OneInv
<1>2. CASE SeenRunning
  <2>1. PICK p \in Proc : pidFile = p /\ Alive(p)
    BY <1>2 DEF SeenRunning, pid_is_live
  <2>2. stage[p] # "spawned"
    BY <2>1 DEF OneInv, StartersKnown
  <2>3. DashboardOnly => \A q \in Proc : Alive(q) => stage[q] # "spawned"
    BY <2>1, <2>2 DEF OneInv, OnlyOne
  <2> QED  BY <1>1, <1>2, <2>3 DEF SeenRunning, connector, files
<1>3. CASE ConnectFails
  BY <1>1, <1>3, NobodyAlive DEF ConnectFails, connector, files
<1>4. ASSUME ~Starting, DashboardOnly, NEW p \in Proc
      PROVE  stage[p] # "spawned"
  BY <1>4 DEF Starting, DashboardOnly, OneInv, StartersKnown
<1>5. CASE GracePeriodEnds
  BY <1>1, <1>4, <1>5 DEF GracePeriodEnds, connector, files
<1>6. CASE DashboardRestarts
  <2>1. PICK S \in SUBSET {p \in Proc : Alive(p) /\ startedBy[p] = "dashboard"} :
          Stops(S, "dead")
    BY <1>6 DEF DashboardRestarts
  <2>2. /\ UNCHANGED <<startedBy, pidFile>>
        /\ stage' = [p \in Proc |-> IF p \in S THEN "dead" ELSE stage[p]]
    BY <1>6, <2>1 DEF DashboardRestarts, Stops, files
  <2>3. \A p \in Proc : p \in S => Alive(p)
    BY <2>1
  <2>4. \A p \in Proc : Alive(p)' => Alive(p) /\ stage'[p] = stage[p]
    BY <2>2 DEF Alive
  <2>5. StartersKnown'
    BY <2>2, <2>3 DEF OneInv, StartersKnown, Alive
  <2>6. DashboardOnly' <=> DashboardOnly
    BY <2>2 DEF DashboardOnly
  <2>7. OnlyOne'
    BY <1>4, <1>6, <2>2, <2>4, <2>6 DEF DashboardRestarts, OneInv, OnlyOne, Seen
  <2> QED  BY <2>5, <2>7 DEF OneInv
<1>7. ASSUME NEW p \in Proc, whatsapp_connect(p) PROVE OneInv'
  <2>1. /\ MayStart /\ stage[p] = "unused" /\ pidFile' = pidFile
        /\ spawnStarted' = "grace"
        /\ stage' = [stage EXCEPT ![p] = "spawned"]
        /\ startedBy' = [startedBy EXCEPT ![p] = "dashboard"]
    BY <1>7 DEF whatsapp_connect, Spawn, NextProc, files
  <2>2. StartersKnown'
    BY <2>1 DEF OneInv, StartersKnown
  <2>3. ASSUME DashboardOnly' PROVE DashboardOnly
    <3>1. startedBy[p] = "nobody"
      BY <2>1 DEF OneInv, StartersKnown
    <3>2. \A q \in Proc \ {p} : startedBy'[q] = startedBy[q]
      BY <2>1
    <3> QED  BY <2>3, <3>1, <3>2 DEF DashboardOnly
  <2>4. \A q \in Proc \ {p} : stage'[q] = stage[q]
    BY <2>1
  <2>5. ASSUME DashboardOnly', NEW q \in Proc, Alive(q)' PROVE q = p
    BY <2>1, <2>3, <2>4, <2>5, NobodyAlive DEF Alive
  <2>6. stage'[p] = "spawned"
    BY <2>1
  <2>7. OnlyOne'
    BY <2>1, <2>5, <2>6 DEF OnlyOne, Seen
  <2> QED  BY <2>2, <2>7 DEF OneInv
<1> QED  BY <1>2, <1>3, <1>5, <1>6, <1>7 DEF DashboardStep

\* The monitor's steps: it kills, or starts one itself.
LEMMA MonitorOne ==
  ASSUME OneInv, MonitorStep, TypeOK'
  PROVE  OneInv'
<1> stage \in [Proc -> Stage]
  BY DEF OneInv, TypeOK
<1>1. CASE \/ \E syncFile \in [SyncChannel -> SyncFile] : BeginRun(syncFile)
           \/ CannotStart \/ PollEnds \/ Report \/ save_alert_state
  BY <1>1, NobodyStarted
     DEF BeginRun, CannotStart, PollEnds, Report, save_alert_state, connector,
         files, dashboard
<1>2. CASE KillZombie
  BY <1>2, NobodyStarted DEF KillZombie, Stops, files, dashboard, Alive
<1>3. ASSUME NEW p \in Proc, start_whatsapp_detached(p) PROVE OneInv'
  BY <1>3, StartedByAnother DEF start_whatsapp_detached, files
<1> QED  BY <1>1, <1>2, <1>3 DEF MonitorStep

LEMMA StepOne == OneInv /\ [Next]_vars => OneInv'
<1> SUFFICES ASSUME OneInv, [Next]_vars PROVE OneInv'
  OBVIOUS
<1>1. TypeOK'
  BY StepType DEF OneInv
<1>2. CASE HeartbeatExpires \/ (\E c \in Channel : CooldownEnds(c)) \/ UNCHANGED vars
  BY <1>1, <1>2, NobodyStarted
     DEF HeartbeatExpires, CooldownEnds, vars, connector, files, dashboard
<1> QED  BY <1>1, <1>2, ConnectorOne, DashboardOne, MonitorOne DEF Next

\* As long as only the dashboard starts connectors, one at most is alive,
\* whatever is clicked while it starts, dies, hangs or is killed, and however
\* often the dashboard itself is restarted.
THEOREM DashboardStartsOne == Spec => []OneDashboardConnector
<1>1. Init => OneInv
  BY InitOne
<1>2. OneInv /\ [Next]_vars => OneInv'
  BY StepOne
<1>3. OneInv => OneDashboardConnector
  BY DEF OneInv, OnlyOne, OneDashboardConnector
<1> QED  BY <1>1, <1>2, <1>3, PTL DEF Spec

-----------------------------------------------------------------------------
(* Alerts.                                                                 *)

\* Who has been alerted about within the cooldown is remembered: in the file,
\* and by a run that has not saved it yet, in its copy.
Remembered ==
    /\ run.pc = "idle" => alerted \subseteq alertState
    /\ run.pc # "idle" => alerted \subseteq run.alerts

AlertInv == TypeOK /\ Remembered

\* One report: who is alerted about was not remembered, and is from then on.
LEMMA Alerting ==
  ASSUME NEW bad, NEW good, NEW remembered, alerted \subseteq remembered,
         Announce(bad, good, remembered)
  PROVE  /\ alerted' \subseteq Remember(bad, good, remembered)
         /\ ToAlert(bad, remembered) \cap alerted = {}
BY DEF Announce, Remember, ToAlert, MayAlert

LEMMA StepAlerts ==
  ASSUME AlertInv, [Next]_vars
  PROVE  AlertInv' /\ (run'.sent \ run.sent) \cap alerted = {}
<1>1. TypeOK'
  BY StepType DEF AlertInv
<1> SUFFICES Remembered' /\ (run'.sent \ run.sent) \cap alerted = {}
  BY <1>1 DEF AlertInv
<1>2. ASSUME NEW syncFile \in [SyncChannel -> SyncFile], BeginRun(syncFile)
      PROVE  Remembered' /\ (run'.sent \ run.sent) \cap alerted = {}
  <2> DEFINE good == {c \in SyncChannel : check_sync_status(syncFile[c])}
             bad == SyncChannel \ good
  <2>1. /\ run.pc = "idle" /\ run'.pc \in {"kill", "start", "report"}
        /\ run'.sent = ToAlert(bad, alertState)
        /\ run'.alerts = Remember(bad, good, alertState)
        /\ Announce(bad, good, alertState)
    BY <1>2 DEF BeginRun
  <2> HIDE DEF good, bad
  <2>2. alerted \subseteq alertState
    BY <2>1 DEF AlertInv, Remembered
  <2> QED  BY <2>1, <2>2, Alerting DEF Remembered
<1>3. CASE Report
  <2> DEFINE good == IF run.healthy THEN {WhatsApp} ELSE {}
             bad == {WhatsApp} \ good
  <2>1. /\ run.pc = "report"
        /\ run' = [run EXCEPT !.pc = "save",
                      !.sent = run.sent \cup ToAlert(bad, run.alerts),
                      !.alerts = Remember(bad, good, run.alerts)]
        /\ Announce(bad, good, run.alerts)
    BY <1>3 DEF Report
  <2> HIDE DEF good, bad
  <2>2. /\ run'.pc = "save" /\ run'.sent = run.sent \cup ToAlert(bad, run.alerts)
        /\ run'.alerts = Remember(bad, good, run.alerts)
    BY <2>1 DEF AlertInv, TypeOK
  <2>3. alerted \subseteq run.alerts
    BY <2>1 DEF AlertInv, Remembered
  <2> QED  BY <2>1, <2>2, <2>3, Alerting DEF Remembered
<1>4. CASE save_alert_state
  BY <1>4 DEF save_alert_state, Saved, Idle, AlertInv, Remembered
<1>5. CASE DashboardRestarts
  BY <1>5 DEF DashboardRestarts, Idle, Remembered
<1>6. ASSUME NEW c \in Channel, CooldownEnds(c)
      PROVE  Remembered' /\ (run'.sent \ run.sent) \cap alerted = {}
  BY <1>6 DEF CooldownEnds, AlertInv, Remembered
<1>7. ASSUME UNCHANGED <<alertState, alerted>>, run'.sent = run.sent,
             run'.alerts = run.alerts, run'.pc = "idle" <=> run.pc = "idle"
      PROVE  Remembered' /\ (run'.sent \ run.sent) \cap alerted = {}
  BY <1>7 DEF AlertInv, Remembered
<1>8. CASE KillZombie \/ CannotStart \/ PollEnds \/ \E p \in Proc : start_whatsapp_detached(p)
  BY <1>7, <1>8 DEF KillZombie, CannotStart, PollEnds, start_whatsapp_detached,
     AlertInv, TypeOK
<1>9. CASE \E p \in Proc : ConnectorStep(p)
  BY <1>7, <1>9 DEF ConnectorStep, WritePid, Connected, ShowQr, Scan, Disconnect,
     LoggedOut, Beat, Crash, DieSilently, Hang, StartElsewhere, Moves, alerts
<1>10. CASE \/ SeenRunning \/ ConnectFails \/ GracePeriodEnds \/ HeartbeatExpires
            \/ \E p \in Proc : whatsapp_connect(p)
            \/ UNCHANGED vars
  BY <1>7, <1>10 DEF SeenRunning, ConnectFails, GracePeriodEnds, HeartbeatExpires,
     whatsapp_connect, alerts, vars
<1> QED
  BY <1>2, <1>3, <1>4, <1>5, <1>6, <1>8, <1>9, <1>10
     DEF Next, MonitorStep, DashboardStep

\* Nobody is alerted about twice within a cooldown unless found healthy in
\* between, over any number of runs and of restarts.
THEOREM AlertsSpaced == Spec => AlertsAreSpaced
<1>1. Init => AlertInv
  <2>1. Init => Remembered
    BY DEF Init, Remembered, Idle
  <2> QED  BY <2>1, InitType DEF AlertInv
<1>2. AlertInv /\ [Next]_vars => AlertInv'
  BY StepAlerts
<1>3. AlertInv /\ [Next]_vars => [(run'.sent \ run.sent) \cap alerted = {}]_vars
  BY StepAlerts
<1> QED  BY <1>1, <1>2, <1>3, PTL DEF Spec, AlertsAreSpaced
=============================================================================
