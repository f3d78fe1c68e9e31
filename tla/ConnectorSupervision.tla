------------------------ MODULE ConnectorSupervision ------------------------
(***************************************************************************)
(* The life of the WhatsApp connector (whatsapp/node/ingest.js), who       *)
(* starts it and who watches it: the dashboard's Connect button            *)
(* (onboarding/app.py), the monitor (scripts/monitor.py) that runs in a    *)
(* thread of the same program, and the operator.  They share four files:   *)
(* the process number, the status, the heartbeat and the directory of the  *)
(* session.  The monitor also reads the status files of the two scheduled  *)
(* syncs, and keeps a file of what it has alerted about.                   *)
(*                                                                         *)
(* Times are compared with a limit only, so each is kept as what the       *)
(* comparison says; a step of its own lets the limit pass.                 *)
(***************************************************************************)
EXTENDS Naturals

CONSTANTS
    MaxStarts,     \* bound: starts of a connector
    MaxRestarts,   \* bound: restarts of the dashboard's process
    SyncChannel,   \* channels whose sync is a scheduled script
    WhatsApp,      \* the channel of the connector
    StartsElsewhere \* TRUE: the operator or a logon task may start it too

ASSUME BoundsAssumption == MaxStarts \in Nat /\ MaxRestarts \in Nat
ASSUME ChannelAssumption == WhatsApp \notin SyncChannel

Proc == 1..MaxStarts        \* a connector process, numbered as started
NoProc == 0                 \* no number, or that of a process long gone
Channel == SyncChannel \cup {WhatsApp}

(* connecting stands for the first connection and for a reconnection: both *)
(* are a call of start().                                                  *)
Running == {"connecting", "qr", "open", "logged_out"}
Stage == {"unused", "spawned", "hung", "dead"} \cup Running
Starter == {"nobody", "dashboard", "another"}
Status == {"none", "up", "qr_pending", "logged_out", "crashed"}
            \* up: connected, or reconnecting
SyncFile == {"missing", "error", "old", "ran"}
            \* .sync_status.json of a sync.  missing: or unreadable, or
            \* without a time; ran: "ok" or "capped", recently

VARIABLES
    stage,        \* of every process
    startedBy,
    pidFile,      \* .pid
    statusFile,   \* .status.json
    heartbeat,    \* .heartbeat.txt: none, fresh, or stale (over 5 minutes)
    beating,      \* processes that have written the heartbeat and still do
    auth,         \* .auth_state: none, paired, or revoked
    spawnStarted, \* _whatsapp_spawn_started_at: none, grace, or past grace
    restarts,     \* dashboard restarts so far
    run,          \* the monitor's run: where it is, what it found, whom it has
                  \* alerted about, and its copy of the alert state
    alertState,   \* .monitor_alert_state.json: channels whose cooldown runs
    alerted       \* history: channels alerted about within the cooldown and
                  \* not found healthy since, but for runs cut off unsaved

connector == <<stage, startedBy, beating>>
files == <<pidFile, statusFile, heartbeat, auth>>
dashboard == <<spawnStarted, restarts>>
alerts == <<run, alertState, alerted>>
vars == <<connector, files, dashboard, alerts>>

Idle == [pc |-> "idle", healthy |-> TRUE, sent |-> {}, alerts |-> {}]

TypeOK ==
    /\ stage \in [Proc -> Stage]
    /\ startedBy \in [Proc -> Starter]
    /\ pidFile \in Proc \cup {NoProc}
    /\ statusFile \in Status
    /\ heartbeat \in {"none", "fresh", "stale"}
    /\ beating \in SUBSET {p \in Proc : stage[p] \in Running}
    /\ auth \in {"none", "paired", "revoked"}
    /\ spawnStarted \in {"none", "grace", "past"}
    /\ restarts \in 0..MaxRestarts
    /\ run \in [pc : {"idle", "kill", "start", "poll", "report", "save"},
                healthy : BOOLEAN, sent : SUBSET Channel,
                alerts : SUBSET Channel]
    /\ alertState \in SUBSET Channel
    /\ alerted \in SUBSET Channel

(* A fresh installation, or one whose connector has run before.            *)
Init ==
    /\ stage = [p \in Proc |-> "unused"]
    /\ startedBy = [p \in Proc |-> "nobody"]
    /\ pidFile = NoProc
    /\ \/ statusFile = "none" /\ heartbeat = "none" /\ auth = "none"
       \/ statusFile = "up" /\ heartbeat = "stale" /\ auth = "paired"
    /\ beating = {}
    /\ spawnStarted = "none"
    /\ restarts = 0
    /\ run = Idle
    /\ alertState = {}
    /\ alerted = {}

Alive(p) == stage[p] \notin {"unused", "dead"}

(* _pid_is_alive of the number in the file, for a number that no other     *)
(* program has been given since.                                           *)
pid_is_live == \E p \in Proc : pidFile = p /\ Alive(p)

---------------------------------------------------------------------------
(* The connector.                                                          *)

NextProc(p) ==
    stage[p] = "unused" /\ \A q \in Proc : q < p => stage[q] # "unused"

Spawn(p, who) ==
    /\ NextProc(p)
    /\ stage' = [stage EXCEPT ![p] = "spawned"]
    /\ startedBy' = [startedBy EXCEPT ![p] = who]

(* The require()s have succeeded: the first thing written is .pid.         *)
WritePid(p) ==
    /\ stage[p] = "spawned"
    /\ stage' = [stage EXCEPT ![p] = "connecting"]
    /\ pidFile' = p
    /\ UNCHANGED <<startedBy, statusFile, heartbeat, beating, auth, dashboard,
                   alerts>>

(* A handler of connection.update moves p on and writes the status.        *)
Moves(p, to, status) ==
    /\ stage' = [stage EXCEPT ![p] = to]
    /\ statusFile' = status
    /\ UNCHANGED <<startedBy, pidFile, dashboard, alerts>>

(* connection = 'open': the heartbeat is written at once.                  *)
Connected(p) ==
    /\ stage[p] = "connecting" /\ auth = "paired"
    /\ Moves(p, "open", "up")
    /\ heartbeat' = "fresh"
    /\ beating' = beating \cup {p}
    /\ UNCHANGED auth

(* No session yet: WhatsApp asks for a scan.                               *)
ShowQr(p) ==
    /\ stage[p] = "connecting" /\ auth = "none"
    /\ Moves(p, "qr", "qr_pending")
    /\ UNCHANGED <<heartbeat, beating, auth>>

(* Scanned: the session is saved, and WhatsApp closes the connection so    *)
(* that it is opened anew.                                                 *)
Scan(p) ==
    /\ stage[p] = "qr"
    /\ auth' = "paired"
    /\ Moves(p, "connecting", "up")
    /\ UNCHANGED <<heartbeat, beating>>

(* The connection is closed, for any reason but loggedOut, while open,     *)
(* while a scan is awaited or before either: start() is called again.      *)
Disconnect(p) ==
    /\ stage[p] \in {"connecting", "open", "qr"}
    /\ Moves(p, "connecting", "up")
    /\ UNCHANGED <<heartbeat, beating, auth>>

(* loggedOut: the phone has removed this device, and it shows when this    *)
(* process connects or is connected.  The connection is not restarted; the *)
(* timer of the heartbeat keeps the process, and the heartbeat fresh.      *)
LoggedOut(p) ==
    /\ stage[p] \in {"connecting", "open"} /\ auth # "none"
    /\ auth' = "revoked"
    /\ Moves(p, "logged_out", "logged_out")
    /\ UNCHANGED <<heartbeat, beating>>

(* The timer of one minute.                                                *)
Beat(p) ==
    /\ stage[p] \in Running
    /\ p \notin beating \/ heartbeat # "fresh"
    /\ heartbeat' = "fresh"
    /\ beating' = beating \cup {p}
    /\ UNCHANGED <<stage, startedBy, pidFile, statusFile, auth, dashboard, alerts>>

(* Five minutes without a heartbeat: nobody has been writing it.           *)
HeartbeatExpires ==
    /\ heartbeat = "fresh" /\ beating = {}
    /\ heartbeat' = "stale"
    /\ UNCHANGED <<connector, pidFile, statusFile, auth, dashboard, alerts>>

(* Mutation: the timer of the heartbeat outlives the process.              *)
StopsStillBeating(S, to) ==
    /\ stage' = [p \in Proc |-> IF p \in S THEN to ELSE stage[p]]
    /\ UNCHANGED <<startedBy, beating>>
Stops(S, to) ==
    /\ stage' = [p \in Proc |-> IF p \in S THEN to ELSE stage[p]]
    /\ beating' = beating \ S
    /\ UNCHANGED startedBy

(* uncaughtException, unhandledRejection, or start() failed.               *)
Crash(p) ==
    /\ stage[p] \in Running
    /\ Stops({p}, "dead")
    /\ statusFile' = "crashed"
    /\ UNCHANGED <<pidFile, heartbeat, auth, dashboard, alerts>>

(* Killed, out of memory, the machine went down, or a require() failed:    *)
(* no handler runs.  A hung process is alive to the operating system only. *)
DieSilently(p) ==
    /\ Alive(p)
    /\ Stops({p}, "dead")
    /\ UNCHANGED <<files, dashboard, alerts>>
Hang(p) ==
    /\ stage[p] \in Running
    /\ Stops({p}, "hung")
    /\ UNCHANGED <<files, dashboard, alerts>>

(* What the texts of the monitor and of the log tell the operator to do,   *)
(* and what the logon task does.                                           *)
StartElsewhere(p) ==
    /\ StartsElsewhere
    /\ Spawn(p, "another")
    /\ auth' = IF statusFile = "logged_out" THEN "none" ELSE auth
    /\ UNCHANGED <<pidFile, statusFile, heartbeat, beating, dashboard, alerts>>

---------------------------------------------------------------------------
(* The dashboard: whatsapp_connect and whatsapp_status, each under the     *)
(* lock.  A request that answers already_running within the grace period   *)
(* changes nothing.                                                        *)

SeenRunning ==
    /\ spawnStarted # "none" /\ pid_is_live
    /\ spawnStarted' = "none"
    /\ UNCHANGED <<connector, files, restarts, alerts>>

(* Mutation: only .pid is looked at, not the earlier start.                *)
MayStartByPidAlone == ~pid_is_live
MayStart == ~pid_is_live /\ spawnStarted # "grace"

whatsapp_connect(p) ==
    /\ MayStart
    /\ Spawn(p, "dashboard")
    /\ spawnStarted' = "grace"
    /\ UNCHANGED <<files, beating, restarts, alerts>>

ConnectFails ==     \* Popen raised
    /\ MayStart /\ spawnStarted # "none"
    /\ spawnStarted' = "none"
    /\ UNCHANGED <<connector, files, restarts, alerts>>

Starting == \E p \in Proc : stage[p] = "spawned" /\ startedBy[p] = "dashboard"

(* A process that is not up writes .pid, or is gone, well within the grace *)
(* period (the code's own assumption), and before the dashboard is back    *)
(* after a restart.                                                        *)
GracePeriodEnds ==
    /\ spawnStarted = "grace" /\ ~Starting
    /\ spawnStarted' = "past"
    /\ UNCHANGED <<connector, files, restarts, alerts>>

(* What is in memory is gone; the connectors it started are its children   *)
(* and may go with it.  The monitor's thread is lost where it is, and what *)
(* it has sent is not saved.                                               *)
DashboardRestarts ==
    /\ restarts < MaxRestarts /\ ~Starting
    /\ restarts' = restarts + 1
    /\ spawnStarted' = "none"
    /\ \E S \in SUBSET {p \in Proc : Alive(p) /\ startedBy[p] = "dashboard"} :
         Stops(S, "dead")
    /\ run' = Idle
    /\ alerted' = alerted \cap alertState
    /\ UNCHANGED <<files, alertState>>

---------------------------------------------------------------------------
(* The monitor.  The three checks and the file of alerts are read within   *)
(* one step, the repair and its thirty seconds of polling are steps.  A    *)
(* run that cannot reach the store ends before all this with an alert of   *)
(* its own.                                                                *)

NeedsHuman == statusFile \in {"logged_out", "qr_pending", "crashed"}
(* Mutations: the status is trusted without the heartbeat; a process that  *)
(* exists is trusted without it.                                           *)
TrustsStatus ==
    IF statusFile = "up" THEN "healthy"
    ELSE IF heartbeat = "none" THEN "never_run"
    ELSE IF NeedsHuman THEN statusFile
    ELSE IF heartbeat = "fresh" THEN "healthy"
    ELSE IF pid_is_live THEN "zombie" ELSE "down"
TrustsPid ==
    IF heartbeat = "none" THEN "never_run"
    ELSE IF NeedsHuman THEN statusFile
    ELSE IF heartbeat = "fresh" \/ pid_is_live THEN "healthy" ELSE "down"
check_whatsapp_liveness ==
    CASE heartbeat = "none" -> "never_run"
      [] heartbeat # "none" /\ NeedsHuman -> statusFile
      [] heartbeat = "fresh" /\ ~NeedsHuman -> "healthy"
      [] OTHER -> IF pid_is_live THEN "zombie" ELSE "down"

(* A healthy channel's cooldown is reset; an unhealthy one is alerted      *)
(* about unless its cooldown runs.  `remembered` is the run's copy.        *)
(* Mutation: the cooldown is forgotten.                                    *)
AlertsEveryRun(c, remembered) == TRUE
MayAlert(c, remembered) == c \notin remembered

ToAlert(bad, remembered) == {c \in bad : MayAlert(c, remembered)}
Remember(bad, good, remembered) ==
    (remembered \ good) \cup ToAlert(bad, remembered)
Announce(bad, good, remembered) ==
    alerted' = (alerted \ good) \cup ToAlert(bad, remembered)

(* A sync is judged by what its last run wrote, and when, not by messages.  *)
check_sync_status(file) == file = "ran"

BeginRun(syncFile) ==
    LET verdict == check_whatsapp_liveness
        good == {c \in SyncChannel : check_sync_status(syncFile[c])}
    IN
    /\ run.pc = "idle"
    /\ run' = [pc |-> CASE verdict = "zombie" -> "kill"
                        [] verdict = "down" -> "start"
                        [] OTHER -> "report",
               healthy |-> verdict = "healthy",
               sent |-> ToAlert(SyncChannel \ good, alertState),
               alerts |-> Remember(SyncChannel \ good, good, alertState)]
    /\ Announce(SyncChannel \ good, good, alertState)
    /\ UNCHANGED <<connector, files, dashboard, alertState>>

(* A zombie: .pid is read again, and whatever runs under it is killed.     *)
KillZombie ==
    /\ run.pc = "kill"
    /\ Stops({p \in Proc : p = pidFile /\ Alive(p)}, "dead")
    /\ run' = [run EXCEPT !.pc = "start"]
    /\ UNCHANGED <<files, dashboard, alertState, alerted>>

(* Neither .pid nor the dashboard's start is looked at.                    *)
start_whatsapp_detached(p) ==
    /\ run.pc = "start"
    /\ Spawn(p, "another")
    /\ run' = [run EXCEPT !.pc = "poll"]
    /\ UNCHANGED <<beating, files, dashboard, alertState, alerted>>
CannotStart ==
    /\ run.pc = "start"
    /\ run' = [run EXCEPT !.pc = "report"]
    /\ UNCHANGED <<connector, files, dashboard, alertState, alerted>>

(* Every two seconds until healthy, and a last time at the deadline.       *)
PollEnds ==
    /\ run.pc = "poll"
    /\ run' = [run EXCEPT !.pc = "report",
                         !.healthy = check_whatsapp_liveness = "healthy"]
    /\ UNCHANGED <<connector, files, dashboard, alertState, alerted>>

Report ==
    LET good == IF run.healthy THEN {WhatsApp} ELSE {} IN
    /\ run.pc = "report"
    /\ run' = [run EXCEPT !.pc = "save",
                  !.sent = @ \cup ToAlert({WhatsApp} \ good, run.alerts),
                  !.alerts = Remember({WhatsApp} \ good, good, run.alerts)]
    /\ Announce({WhatsApp} \ good, good, run.alerts)
    /\ UNCHANGED <<connector, files, dashboard, alertState>>

(* Mutation: the file is written as it was read.                           *)
SavedAsLoaded == alertState
Saved == run.alerts
save_alert_state ==
    /\ run.pc = "save"
    /\ alertState' = Saved
    /\ run' = Idle
    /\ UNCHANGED <<connector, files, dashboard, alerted>>

(* Six hours: a run is short against them.                                 *)
CooldownEnds(c) ==
    /\ run.pc = "idle"
    /\ c \in alertState \cup alerted
    /\ alertState' = alertState \ {c}
    /\ alerted' = alerted \ {c}
    /\ UNCHANGED <<connector, files, dashboard, run>>

---------------------------------------------------------------------------
MonitorStep ==
    \/ \E syncFile \in [SyncChannel -> SyncFile] : BeginRun(syncFile)
    \/ KillZombie \/ CannotStart \/ PollEnds \/ Report
    \/ save_alert_state
    \/ \E p \in Proc : start_whatsapp_detached(p)

DashboardStep ==
    \/ SeenRunning \/ ConnectFails \/ GracePeriodEnds \/ DashboardRestarts
    \/ \E p \in Proc : whatsapp_connect(p)

ConnectorStep(p) ==
    \/ WritePid(p) \/ Connected(p) \/ ShowQr(p) \/ Scan(p) \/ Disconnect(p)
    \/ LoggedOut(p) \/ Beat(p) \/ Crash(p) \/ DieSilently(p) \/ Hang(p)
    \/ StartElsewhere(p)

Next ==
    \/ MonitorStep \/ DashboardStep
    \/ \E p \in Proc : ConnectorStep(p)
    \/ HeartbeatExpires
    \/ \E c \in Channel : CooldownEnds(c)

Spec == Init /\ [][Next]_vars
(* The monitor's thread loops, and files grow old.  Nothing is assumed of  *)
(* the connector, the dashboard's user, the phone or the schedules.        *)
FairSpec == Spec /\ WF_vars(MonitorStep) /\ WF_vars(HeartbeatExpires)

---------------------------------------------------------------------------
(* As long as only the dashboard starts connectors, one at most is alive:  *)
(* the lock and the start that is remembered keep two clicks, or a click   *)
(* while the first process has not written .pid yet, apart.                *)
DashboardOnly == \A p \in Proc : startedBy[p] \in {"nobody", "dashboard"}
OneDashboardConnector ==
    DashboardOnly => \A p, q \in Proc : Alive(p) /\ Alive(q) => p = q

(* A channel is alerted about once per cooldown, until it is found healthy *)
(* again.  The exception is a run that ended between its alert and the     *)
(* saving of the file.                                                     *)
AlertsAreSpaced == [][(run'.sent \ run.sent) \cap alerted = {}]_vars

(* It never stays so that no connector is alive and nobody has been told:  *)
(* whatever its last status says, its heartbeat grows old, and it is       *)
(* restarted or alerted about.                                             *)
DeadConnectorIsNoticed ==
    []<>(WhatsApp \in alertState \/ \E p \in Proc : Alive(p))

(* A connector that hangs with a good status does not do so for ever: it   *)
(* is killed, unless another one has taken .pid.  With another one alive   *)
(* it may, since one heartbeat covers both.                                *)
HangsAlone(p) ==
    /\ stage[p] = "hung" /\ pidFile = p /\ heartbeat # "none" /\ ~NeedsHuman
    /\ \A q \in Proc : Alive(q) => q = p
HungConnectorIsKilled == []<>(\A p \in Proc : ~HangsAlone(p))
=============================================================================
