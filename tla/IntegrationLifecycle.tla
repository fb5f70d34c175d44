------------------------ MODULE IntegrationLifecycle ------------------------
(***************************************************************************)
(* Everything that starts, stops or judges the partner process of one      *)
(* integration: its health loop, the user's toggle, the startup recovery   *)
(* pass, the Docker watcher and an update install. They share the registry *)
(* flag, the process, the health map and the update flag, and none of them *)
(* holds a lock from its decision to its effect.                           *)
(***************************************************************************)
EXTENDS Integers, Sequences

CONSTANTS
    MaxRestarts, StartingTimeout, RearmTicks,   \* HealthCheckConfig
    RunningProbes,   \* what health_check may report of a running partner
    DownProbes,      \* and of one that is not running
    ChannelCap       \* bound on undelivered health events (64 in the code)

VARIABLES
    phase, status, enabled, restart_count, ticks_since_exhausted, starting_ticks,
    event, paused,   \* the health loop and the registry's enabled flag
    probe,           \* check_fn between its two halves: what it read as enabled
    restart,         \* restart_fn: "none", "stop" or "start" comes next
    running,         \* the partner process is alive
    startable,       \* the machine meets its requirements and start() succeeds
    last,            \* last_health: what every card and reward figure reads
    channel,         \* health events sent and not yet forwarded
    toggle,          \* toggle_integration: "idle" or its next effect
    recovery,        \* the startup recovery pass
    watcher,         \* the Docker watcher
    update           \* an update install: "idle", "armed", "installing", "done"

Loop == INSTANCE HealthLoop

HealthStatus == Loop!HealthStatus

ASSUME ProbesAssumption ==
    /\ RunningProbes \subseteq HealthStatus /\ RunningProbes # {}
    /\ DownProbes \subseteq HealthStatus \ {"Healthy"} /\ DownProbes # {}
ASSUME ChannelAssumption == ChannelCap \in Nat \ {0}

loopVars == <<phase, status, restart_count, ticks_since_exhausted, starting_ticks,
              event, paused>>
taskVars == <<toggle, recovery, watcher, update>>
vars == <<loopVars, enabled, probe, restart, running, startable, last, channel, taskVars>>

\* restarts_suspended(): the update guard is armed.
Suspended == update # "idle"

Init ==
    /\ Loop!Init
    /\ probe = "none" /\ restart = "none"
    /\ running = FALSE /\ startable \in BOOLEAN
    /\ last = "Unknown" /\ channel = <<>>
    /\ toggle = "idle" /\ watcher = "idle" /\ update = "idle"
    /\ recovery = "listing"

\* The loop waits for a place in the bounded channel.
Send(e, st) ==
    IF e \in {"none", "restart"} THEN UNCHANGED channel
    ELSE Len(channel) < ChannelCap /\ channel' = Append(channel, st)

-----------------------------------------------------------------------------
(* The health loop with its closures.                                      *)

\* A deviation: the probe asks the partner whether or not it is enabled.
ProbeStartsRegardless ==
    /\ phase = "sleep" /\ probe = "none"
    /\ probe' = "on"
    /\ UNCHANGED <<loopVars, enabled, restart, running, startable, last, channel, taskVars>>

\* check_fn reads the enabled flag and drops the registry lock ...
ProbeStarts ==
    /\ phase = "sleep" /\ probe = "none"
    /\ probe' = IF enabled THEN "on" ELSE "off"
    /\ UNCHANGED <<loopVars, enabled, restart, running, startable, last, channel, taskVars>>

\* ... and reports what it saw, into the health map and to the loop.
ProbeEnds ==
    /\ probe # "none"
    /\ \E st \in IF probe = "off" THEN {"Stopped"}
                 ELSE IF running THEN RunningProbes ELSE DownProbes :
          /\ Loop!Check(st)
          /\ last' = st
          /\ Send(event', st)
    /\ probe' = "none"
    /\ UNCHANGED <<restart, running, startable, taskVars>>

LoopDecides ==
    /\ Loop!Decide
    /\ Send(event', "Unhealthy")
    /\ UNCHANGED <<probe, restart, running, startable, last, taskVars>>

\* The gates of restart_fn: no install in progress, requirements met. What it
\* does not ask is whether the integration is still enabled.
RestartBegins ==
    /\ phase = "backoff" /\ restart = "none" /\ ~Suspended
    /\ restart' = "stop"
    /\ UNCHANGED <<loopVars, enabled, probe, running, startable, last, channel, taskVars>>

RestartSkipped ==
    /\ phase = "backoff" /\ restart = "none"
    /\ Suspended \/ ~startable
    /\ Loop!Restart
    /\ UNCHANGED <<probe, restart, running, startable, last, channel, taskVars>>

\* A deviation: an error of stop() ends the attempt.
RestartStopsOnly ==
    /\ restart = "stop" /\ restart' = "none" /\ running' = FALSE
    /\ Loop!Restart
    /\ UNCHANGED <<probe, startable, last, channel, taskVars>>

\* stop() is best effort ...
RestartStops ==
    /\ restart = "stop" /\ restart' = "start" /\ running' = FALSE
    /\ UNCHANGED <<loopVars, enabled, probe, startable, last, channel, taskVars>>

\* A deviation: a restart that went through refunds the budget.
RestartStartsRefunding ==
    /\ restart = "start" /\ restart' = "none" /\ running' = startable
    /\ phase' = "sleep" /\ event' = "restart" /\ restart_count' = 0
    /\ UNCHANGED <<status, enabled, ticks_since_exhausted, starting_ticks, paused, probe,
                   startable, last, channel, taskVars>>

\* ... and start() may fail.
RestartStarts ==
    /\ restart = "start" /\ restart' = "none" /\ running' = startable
    /\ Loop!Restart
    /\ UNCHANGED <<probe, startable, last, channel, taskVars>>

\* The forwarder writes every event into the health map it reads from.
Forward ==
    /\ channel # <<>>
    /\ last' = Head(channel) /\ channel' = Tail(channel)
    /\ UNCHANGED <<loopVars, enabled, probe, restart, running, startable, taskVars>>

HealthTask ==
    \/ ProbeStarts \/ ProbeEnds \/ LoopDecides
    \/ RestartBegins \/ RestartSkipped \/ RestartStops \/ RestartStarts

-----------------------------------------------------------------------------
(* The user's toggle: effects first, the registry flag only on success.    *)

TogglePressed ==
    /\ toggle = "idle"
    /\ toggle' \in {"start", "stop"}
    /\ UNCHANGED <<loopVars, enabled, probe, restart, running, startable, last, channel,
                   recovery, watcher, update>>

\* start_for_user, which fails, or times out having started the partner or not.
ToggleStarts ==
    /\ toggle = "start"
    /\ \/ startable /\ running' = TRUE /\ toggle' \in {"set_on", "idle"}
       \/ running' = running /\ toggle' = "idle"
    /\ UNCHANGED <<loopVars, enabled, probe, restart, startable, last, channel,
                   recovery, watcher, update>>

\* stop_for_disable, which may fail and then leaves the flag as it was.
ToggleStops ==
    /\ toggle = "stop"
    /\ \/ running' = FALSE /\ toggle' = "set_off"
       \/ running' = running /\ toggle' = "idle"
    /\ UNCHANGED <<loopVars, enabled, probe, restart, startable, last, channel,
                   recovery, watcher, update>>

ToggleSets ==
    /\ toggle \in {"set_on", "set_off"}
    /\ enabled' = (toggle = "set_on")
    /\ toggle' = "idle"
    /\ UNCHANGED <<loopVars, probe, restart, running, startable, last, channel,
                   recovery, watcher, update>>

UserToggle == TogglePressed \/ ToggleStarts \/ ToggleStops \/ ToggleSets

-----------------------------------------------------------------------------
(* The startup recovery pass, once per launch.                             *)

RecoveryLists ==
    /\ recovery = "listing"
    /\ recovery' = IF enabled THEN "start" ELSE "done"
    /\ UNCHANGED <<loopVars, enabled, probe, restart, running, startable, last, channel,
                   toggle, watcher, update>>

\* It is deferred while Docker is not ready, fails to install, or starts.
RecoveryStarts ==
    /\ recovery = "start" /\ recovery' = "done"
    /\ \/ startable /\ running' = TRUE /\ last' = "Starting"
       \/ running' = running /\ last' = "Unhealthy"
    /\ UNCHANGED <<loopVars, enabled, probe, restart, startable, channel, toggle,
                   watcher, update>>

-----------------------------------------------------------------------------
(* The Docker watcher, for an integration that runs in Docker.             *)

\* A deviation: the watcher looks at every Docker integration.
WatcherPicksAny ==
    /\ watcher = "idle" /\ ~Suspended
    /\ last \notin {"Healthy", "Stopped", "Starting", "Installing"}
    /\ watcher' = "start"
    /\ UNCHANGED <<loopVars, enabled, probe, restart, running, startable, last, channel,
                   toggle, recovery, update>>

WatcherPicks ==
    /\ watcher = "idle" /\ ~Suspended /\ enabled
    /\ last \notin {"Healthy", "Stopped", "Starting", "Installing"}
    /\ watcher' = "start"
    /\ UNCHANGED <<loopVars, enabled, probe, restart, running, startable, last, channel,
                   toggle, recovery, update>>

\* start() leaves a partner that already runs alone. An install that failed
\* leaves the health map alone.
WatcherStarts ==
    /\ watcher = "start" /\ watcher' = "idle"
    /\ \/ startable /\ running' = TRUE /\ last' = "Starting"
       \/ ~startable /\ running' = running /\ last' \in {last, "Unhealthy"}
    /\ UNCHANGED <<loopVars, enabled, probe, restart, startable, channel, toggle,
                   recovery, update>>

\* Docker Desktop was down and is being started: the card of an enabled
\* integration says so.
WatcherStartsEngine ==
    /\ watcher = "idle" /\ enabled
    /\ last' = "Unhealthy"
    /\ UNCHANGED <<loopVars, enabled, probe, restart, running, startable, channel, taskVars>>

Watcher == WatcherPicks \/ WatcherStarts

-----------------------------------------------------------------------------
(* An update install, automatic or from the Updates page.                  *)

UpdateArms ==
    /\ update = "idle" /\ update' = "armed"
    /\ UNCHANGED <<loopVars, enabled, probe, restart, running, startable, last, channel,
                   toggle, recovery, watcher>>

\* release_install_tree stops the partners.
UpdateStopsPartners ==
    /\ update = "armed" /\ update' = "installing" /\ running' = FALSE
    /\ UNCHANGED <<loopVars, enabled, probe, restart, startable, last, channel,
                   toggle, recovery, watcher>>

\* The guard is dropped on every failure.
UpdateFails ==
    /\ update = "installing" /\ update' = "idle"
    /\ UNCHANGED <<loopVars, enabled, probe, restart, running, startable, last, channel,
                   toggle, recovery, watcher>>

\* keep_suspended_forever: the app is about to restart into the new version.
UpdateSucceeds ==
    /\ update = "installing" /\ update' = "done"
    /\ UNCHANGED <<loopVars, enabled, probe, restart, running, startable, last, channel,
                   toggle, recovery, watcher>>

Update == UpdateArms \/ UpdateStopsPartners \/ UpdateFails \/ UpdateSucceeds

-----------------------------------------------------------------------------
(* The partner and the machine.                                            *)

PartnerCrashes ==
    /\ running /\ running' = FALSE
    /\ UNCHANGED <<loopVars, enabled, probe, restart, startable, last, channel, taskVars>>

MachineChanges ==
    /\ startable' = ~startable
    /\ UNCHANGED <<loopVars, enabled, probe, restart, running, last, channel, taskVars>>

Next ==
    \/ HealthTask \/ Forward \/ UserToggle \/ RecoveryLists \/ RecoveryStarts
    \/ Watcher \/ WatcherStartsEngine \/ Update \/ PartnerCrashes \/ MachineChanges

Spec == Init /\ [][Next]_vars

\* Timers and bounded calls keep every task going; the user, Docker Desktop,
\* the partner and the machine owe nothing.
FairSpec ==
    /\ Spec
    /\ WF_vars(HealthTask) /\ WF_vars(Forward)
    /\ WF_vars(ToggleStarts \/ ToggleStops \/ ToggleSets)
    /\ WF_vars(RecoveryLists \/ RecoveryStarts)
    /\ WF_vars(WatcherStarts)

-----------------------------------------------------------------------------
(* Properties.                                                             *)

\* Types of the shared state.
TypeOK ==
    /\ Loop!TypeOK
    /\ probe \in {"none", "on", "off"} /\ restart \in {"none", "stop", "start"}
    /\ running \in BOOLEAN /\ startable \in BOOLEAN
    /\ last \in HealthStatus
    /\ channel \in Seq(HealthStatus) /\ Len(channel) <= ChannelCap
    /\ toggle \in {"idle", "start", "stop", "set_on", "set_off"}
    /\ recovery \in {"listing", "start", "done"}
    /\ watcher \in {"idle", "start"}
    /\ update \in {"idle", "armed", "installing", "done"}

\* The health loop keeps its own specification whatever the other tasks do.
LoopSpec == Loop!Spec

\* Nobody is on the way to starting the partner: no restart behind its
\* backoff, no observation of the enabled partner still to be acted upon, and
\* no start of the toggle, the startup pass or the watcher.
NoStarter ==
    /\ phase # "backoff" /\ probe # "on"
    /\ phase = "decide" => status # "Unhealthy"
    /\ toggle = "idle" /\ recovery # "start" /\ watcher = "idle"

Off == ~enabled /\ ~running /\ NoStarter

\* Turning an integration off sticks: once it is disabled, down, and nobody
\* is on the way to starting it, only a toggle of the user leads out.
OffStaysOff == [][Off /\ toggle' = "idle" => Off']_vars

\* A restart takes place only on behalf of an integration that is enabled.
RestartsOnlyEnabled == [][restart = "start" /\ running' => enabled]_vars

\* While an update replaces the install tree, restart_fn starts no partner.
NoRestartDuringInstall == [][restart = "start" /\ running' => ~Suspended]_vars

\* Docker-dependent recovery is covered by the same suspension.
NoWatcherStartDuringInstall ==
    [][watcher = "start" /\ running' /\ ~running => ~Suspended]_vars

\* "Never double-start": a guard per integration keeps the watcher off the
\* start of the health loop and the other way round.
NeverDoubleStart == ~(watcher = "start" /\ restart # "none")

\* Whatever broke it, a partner that stays enabled on a machine that can run
\* it comes back, unless an install is under way.
SelfHeals ==
    <>[](enabled /\ startable /\ toggle = "idle" /\ ~Suspended) => []<>running

\* A disabled integration ends up shown as stopped: events and observations
\* from before the toggle do not stay on its card.
OffIsShown == <>[](~enabled /\ toggle = "idle") => <>[](last = "Stopped")
=============================================================================
