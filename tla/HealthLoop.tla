----------------------------- MODULE HealthLoop -----------------------------
(***************************************************************************)
(* The supervisor's health loop of one integration: it checks, announces,  *)
(* and restarts with a budget. A spent budget pauses automatic restarts,   *)
(* and one attempt is re-armed every RearmTicks checks.                    *)
(*                                                                         *)
(* What the check reports and whether the integration is enabled belong to *)
(* the surroundings and change freely; IntegrationLifecycle supplies them. *)
(***************************************************************************)
EXTENDS Integers

CONSTANTS
    MaxRestarts,     \* HealthCheckConfig.max_restarts (3)
    StartingTimeout, \* HealthCheckConfig.starting_timeout_ticks (6)
    RearmTicks       \* HealthCheckConfig.rearm_ticks (10)

ASSUME BudgetAssumption == MaxRestarts \in Nat \ {0}
ASSUME StartingAssumption == StartingTimeout \in Nat
ASSUME RearmAssumption == RearmTicks \in Nat /\ RearmTicks >= 2

\* HealthStatus; "Waiting" stands for the Unhealthy reasons that await the
\* user, "Upstream" for those that name an unreachable upstream.
HealthStatus ==
    {"Healthy", "Unhealthy", "Waiting", "Upstream", "Stopped", "Starting",
     "Installing", "Unknown"}

VARIABLES
    phase,                 \* "sleep", "decide" or "backoff"
    status,                \* what check_fn returned for this tick
    enabled,               \* the registry's enabled flag
    restart_count,
    ticks_since_exhausted,
    starting_ticks,
    event,                 \* what the loop announced in its last step
    paused                 \* history: checks since the pause was announced,
                           \* up to RearmTicks; -1 when no pause is pending

loopVars == <<phase, status, restart_count, ticks_since_exhausted, starting_ticks,
              event, paused>>
vars == <<loopVars, enabled>>

NotPaused == -1

-----------------------------------------------------------------------------
recovery_action(st, on, starting) ==
    CASE st = "Unhealthy" -> "Restart"
      [] st = "Stopped" /\ on -> "Restart"
      [] st = "Starting" /\ on /\ StartingTimeout > 0 /\ starting >= StartingTimeout ->
            "StartupTimedOut"
      [] OTHER -> "None"

Init ==
    /\ phase = "sleep" /\ status = "Unknown" /\ enabled \in BOOLEAN
    /\ restart_count = 0 /\ ticks_since_exhausted = 0 /\ starting_ticks = 0
    /\ event = "none" /\ paused = NotPaused

\* check_fn returns st after the interval; the change is announced, and the
\* run of Starting results is counted (bound: up to the timeout).
Check(st) ==
    /\ phase = "sleep"
    /\ phase' = "decide"
    /\ status' = st
    /\ event' = IF st # status THEN "changed" ELSE "none"
    /\ starting_ticks' = IF st # "Starting" THEN 0
                         ELSE IF starting_ticks < StartingTimeout THEN starting_ticks + 1
                         ELSE starting_ticks
    /\ paused' = IF paused \in 0 .. RearmTicks - 1 THEN paused + 1 ELSE paused
    /\ UNCHANGED <<enabled, restart_count, ticks_since_exhausted>>

Action == recovery_action(status, enabled, starting_ticks)

\* A startup that timed out is announced and its counter starts afresh.
AfterTimeout == IF Action = "StartupTimedOut" THEN 0 ELSE starting_ticks
TimeoutEvent == IF Action = "StartupTimedOut" THEN "timed_out" ELSE "none"

DecideHealthy ==
    /\ phase = "decide" /\ status = "Healthy"
    /\ restart_count' = 0 /\ ticks_since_exhausted' = 0
    /\ phase' = "sleep" /\ event' = "none" /\ paused' = NotPaused
    /\ UNCHANGED <<status, enabled, starting_ticks>>

DecideNothing ==
    /\ phase = "decide" /\ status # "Healthy" /\ Action = "None"
    /\ phase' = "sleep" /\ event' = "none"
    /\ UNCHANGED <<status, enabled, restart_count, ticks_since_exhausted,
                   starting_ticks, paused>>

\* The restart budget pays for an attempt, behind its backoff.
DecideRestart ==
    /\ phase = "decide" /\ Action # "None" /\ restart_count < MaxRestarts
    /\ restart_count' = restart_count + 1
    /\ phase' = "backoff" /\ event' = TimeoutEvent
    /\ starting_ticks' = AfterTimeout
    /\ paused' = NotPaused
    /\ UNCHANGED <<status, enabled, ticks_since_exhausted>>

\* Deviations of the exhausted branch: it re-arms one check early, or it
\* re-arms a budget that stays spent.
ExhaustedEarly ==
    LET ticks == ticks_since_exhausted + 1
    IN  /\ ticks_since_exhausted' = IF ticks = RearmTicks - 1 THEN 0 ELSE ticks
        /\ restart_count' = IF ticks = RearmTicks - 1 THEN MaxRestarts - 1
                            ELSE restart_count

ExhaustedWithoutGrant ==
    LET ticks == ticks_since_exhausted + 1
    IN  /\ ticks_since_exhausted' = IF ticks = RearmTicks THEN 0 ELSE ticks
        /\ UNCHANGED restart_count

\* Counting further checks of a spent budget; the last re-arms one attempt.
Exhausted ==
    LET ticks == ticks_since_exhausted + 1
    IN  IF ticks # 1 /\ ticks >= RearmTicks
        THEN ticks_since_exhausted' = 0 /\ restart_count' = MaxRestarts - 1
        ELSE ticks_since_exhausted' = ticks /\ UNCHANGED restart_count

\* The first such check announces the pause and when it will end.
DecideExhausted ==
    /\ phase = "decide" /\ Action # "None" /\ restart_count >= MaxRestarts
    /\ Exhausted
    /\ event' = IF ticks_since_exhausted' = 1 THEN "pause" ELSE TimeoutEvent
    /\ paused' = IF ticks_since_exhausted' = 1 THEN 0 ELSE paused
    /\ starting_ticks' = AfterTimeout
    /\ phase' = "sleep"
    /\ UNCHANGED <<status, enabled>>

Decide == DecideHealthy \/ DecideNothing \/ DecideRestart \/ DecideExhausted

\* The backoff is over and restart_fn runs: the enabled flag is not read again.
Restart ==
    /\ phase = "backoff"
    /\ phase' = "sleep" /\ event' = "restart"
    /\ UNCHANGED <<status, enabled, restart_count, ticks_since_exhausted,
                   starting_ticks, paused>>

Toggled ==
    /\ enabled' = ~enabled
    /\ UNCHANGED loopVars

Next == (\E st \in HealthStatus : Check(st)) \/ Decide \/ Restart \/ Toggled

Spec == Init /\ [][Next]_vars

\* The loop is a task of its own on timers, so each of its steps is taken.
FairSpec ==
    /\ Spec
    /\ WF_vars(\E st \in HealthStatus : Check(st))
    /\ WF_vars(Decide) /\ WF_vars(Restart)

-----------------------------------------------------------------------------
(* Properties.                                                             *)

Events == {"none", "changed", "timed_out", "pause", "restart"}

\* Types; no attempt beyond the budget is ever counted.
TypeOK ==
    /\ phase \in {"sleep", "decide", "backoff"}
    /\ status \in HealthStatus /\ enabled \in BOOLEAN
    /\ restart_count \in 0 .. MaxRestarts
    /\ ticks_since_exhausted \in 0 .. RearmTicks - 1
    /\ starting_ticks \in 0 .. StartingTimeout
    /\ event \in Events /\ paused \in NotPaused .. RearmTicks

\* The card says when the next automatic attempt comes: RearmTicks checks
\* after the pause. No attempt is started earlier than that, however the
\* status flaps in between, unless the partner was healthy meanwhile.
PauseKept ==
    [][phase' = "backoff" /\ phase # "backoff" /\ paused # NotPaused
         => paused >= RearmTicks]_vars

\* What the loop remembers of a pause and what the card was told of it agree:
\* checks are counted only while the budget is spent and the pause is on the
\* card; the pause stays there until the re-armed attempt, which is granted
\* when RearmTicks - 1 further checks have passed.
Due(n) == IF phase = "decide" THEN n ELSE n - 1

PauseInv ==
    /\ ticks_since_exhausted > 0 =>
         restart_count = MaxRestarts /\ paused >= Due(ticks_since_exhausted)
    /\ paused # NotPaused /\ ticks_since_exhausted = 0 =>
         restart_count = MaxRestarts - 1 /\ paused >= Due(RearmTicks)
    /\ phase = "backoff" => paused = NotPaused

\* Self-healing: a partner that stays enabled and stopped is attempted again
\* and again, however long the outage lasts.
KeepsTrying ==
    <>[](enabled /\ status = "Stopped") => []<>(event = "restart")
=============================================================================
