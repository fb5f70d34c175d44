---------------------- MODULE IntegrationLifecycleProofs ----------------------
(***************************************************************************)
(* Two results about the tasks around one integration, for every value of  *)
(* the constants: the health loop keeps its specification among them, and  *)
(* turning an integration off sticks.                                      *)
(***************************************************************************)
EXTENDS IntegrationLifecycle, TLAPS

\* What both results need of the reachable states.
FlagInv ==
    /\ enabled \in BOOLEAN /\ probe \in {"none", "on", "off"}
    /\ restart # "none" => phase = "backoff"

\* The enabled flag and what check_fn read of it are flags, and restart_fn is
\* under way only in the backoff of its own loop (main.rs restart_fn).
LEMMA FlagInvariant == Spec => []FlagInv
<1> USE DEF FlagInv, loopVars
<1>1. Init => FlagInv
  BY DEF Init, Loop!Init
<1>2. FlagInv /\ [Next]_vars => FlagInv'
  <2> SUFFICES ASSUME FlagInv, [Next]_vars PROVE FlagInv'
    OBVIOUS
  <2>1. CASE ProbeStarts \/ RestartBegins \/ RestartStops
    BY <2>1 DEF ProbeStarts, RestartBegins, RestartStops
  <2>2. CASE ProbeEnds
    BY <2>2 DEF ProbeEnds, Loop!Check
  <2>3. CASE LoopDecides
    BY <2>3 DEF LoopDecides, Loop!Decide, Loop!DecideHealthy, Loop!DecideNothing,
         Loop!DecideRestart, Loop!DecideExhausted
  <2>4. CASE RestartSkipped \/ RestartStarts
    BY <2>4 DEF RestartSkipped, RestartStarts, Loop!Restart
  <2>5. CASE UserToggle
    BY <2>5 DEF UserToggle, TogglePressed, ToggleStarts, ToggleStops, ToggleSets
  <2>6. CASE \/ Forward \/ RecoveryLists \/ RecoveryStarts \/ Watcher
             \/ WatcherStartsEngine \/ Update \/ PartnerCrashes \/ MachineChanges
    BY <2>6 DEF Forward, RecoveryLists, RecoveryStarts, Watcher, WatcherPicks,
         WatcherStarts, WatcherStartsEngine, Update, UpdateArms, UpdateStopsPartners,
         UpdateFails, UpdateSucceeds, PartnerCrashes, MachineChanges
  <2>7. CASE UNCHANGED vars
    BY <2>7 DEF vars
  <2> QED
    BY <2>1, <2>2, <2>3, <2>4, <2>5, <2>6, <2>7 DEF Next, HealthTask
<1> QED
  BY <1>1, <1>2, PTL DEF Spec

\* Whatever the user, the watcher, the startup pass and an update do, what
\* the health loop does is allowed by HealthLoop: restart_count and the pause
\* are written by the loop alone (supervisor/health.rs health_check_loop).
THEOREM LoopIsImplemented == Spec => LoopSpec
<1>1. Init => Loop!Init
  BY DEF Init
<1>2. FlagInv /\ [Next]_vars => [Loop!Next]_(Loop!vars)
  <2> SUFFICES ASSUME FlagInv, [Next]_vars PROVE [Loop!Next]_(Loop!vars)
    OBVIOUS
  <2> USE DEF Loop!vars, Loop!loopVars, loopVars
  <2>1. CASE \/ ProbeStarts \/ RestartBegins \/ RestartStops \/ Forward \/ RecoveryLists
             \/ RecoveryStarts \/ Watcher \/ WatcherStartsEngine \/ Update
             \/ PartnerCrashes \/ MachineChanges
    BY <2>1 DEF ProbeStarts, RestartBegins, RestartStops, Forward, RecoveryLists,
         RecoveryStarts, Watcher, WatcherPicks, WatcherStarts, WatcherStartsEngine, Update,
         UpdateArms, UpdateStopsPartners, UpdateFails, UpdateSucceeds, PartnerCrashes,
         MachineChanges
  <2>2. CASE ProbeEnds
    <3>1. PICK st \in IF probe = "off" THEN {"Stopped"}
                      ELSE IF running THEN RunningProbes ELSE DownProbes : Loop!Check(st)
      BY <2>2 DEF ProbeEnds
    <3>2. st \in Loop!HealthStatus
      BY <3>1, ProbesAssumption DEF HealthStatus, Loop!HealthStatus
    <3> QED
      BY <3>1, <3>2 DEF Loop!Next
  <2>3. CASE LoopDecides
    BY <2>3 DEF LoopDecides, Loop!Next
  <2>4. CASE RestartSkipped \/ RestartStarts
    BY <2>4 DEF RestartSkipped, RestartStarts, Loop!Next
  <2>5. CASE TogglePressed \/ ToggleStarts \/ ToggleStops
    BY <2>5 DEF TogglePressed, ToggleStarts, ToggleStops
  <2>6. CASE ToggleSets
    BY <2>6 DEF FlagInv, ToggleSets, Loop!Next, Loop!Toggled
  <2>7. CASE UNCHANGED vars
    BY <2>7 DEF vars
  <2> QED
    BY <2>1, <2>2, <2>3, <2>4, <2>5, <2>6, <2>7 DEF Next, HealthTask, UserToggle
<1> QED
  BY <1>1, <1>2, FlagInvariant, PTL DEF Spec, LoopSpec, Loop!Spec

\* No step of any task but the user's own toggle brings back a partner that
\* is disabled, down and has no starter on its way (restart_fn main.rs, the
\* startup pass and docker_watcher.rs all start partners).
THEOREM TurningOffSticks == Spec => OffStaysOff
<1>1. FlagInv /\ [Next]_vars => (Off /\ toggle' = "idle" => Off')
  <2> SUFFICES ASSUME FlagInv, [Next]_vars, Off, toggle' = "idle" PROVE Off'
    OBVIOUS
  <2> USE DEF FlagInv, Off, NoStarter, loopVars, taskVars
  <2>1. CASE ProbeStarts
    BY <2>1 DEF ProbeStarts
  <2>2. CASE ProbeEnds
    <3>1. probe = "off"
      BY <2>2 DEF ProbeEnds
    <3> QED
      BY <2>2, <3>1 DEF ProbeEnds, Loop!Check
  <2>3. CASE LoopDecides
    <3>1. phase = "decide" /\ status # "Unhealthy"
      BY <2>3 DEF LoopDecides, Loop!Decide, Loop!DecideHealthy, Loop!DecideNothing,
           Loop!DecideRestart, Loop!DecideExhausted
    <3>2. Loop!Action = "None"
      BY <3>1 DEF Loop!Action, Loop!recovery_action
    <3> QED
      BY <2>3, <3>2 DEF LoopDecides, Loop!Decide, Loop!DecideHealthy,
         Loop!DecideNothing,
           Loop!DecideRestart, Loop!DecideExhausted
  <2>4. ~(RestartBegins \/ RestartSkipped \/ RestartStops \/ RestartStarts)
    BY DEF RestartBegins, RestartSkipped, RestartStops, RestartStarts
  <2>5. CASE UserToggle
    BY <2>5 DEF UserToggle, TogglePressed, ToggleStarts, ToggleStops, ToggleSets
  <2>6. CASE Forward \/ RecoveryLists \/ RecoveryStarts
    BY <2>6 DEF Forward, RecoveryLists, RecoveryStarts
  <2>7. CASE Watcher \/ WatcherStartsEngine
    BY <2>7 DEF Watcher, WatcherPicks, WatcherStarts, WatcherStartsEngine
  <2>8. CASE Update \/ PartnerCrashes \/ MachineChanges
    BY <2>8 DEF Update, UpdateArms, UpdateStopsPartners, UpdateFails,
       UpdateSucceeds,
         PartnerCrashes, MachineChanges
  <2>9. CASE UNCHANGED vars
    BY <2>9 DEF vars
  <2> QED
    BY <2>1, <2>2, <2>3, <2>4, <2>5, <2>6, <2>7, <2>8, <2>9 DEF Next, HealthTask
<1> QED
  BY <1>1, FlagInvariant, PTL DEF Spec, OffStaysOff
=============================================================================
