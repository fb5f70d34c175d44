------------------------------ MODULE MCTasks ------------------------------
(***************************************************************************)
(* The tasks that run by the clock, for TLC: the health loop, the check    *)
(* that has most to do with it (fryvpn's, which parks on its own and must  *)
(* bring the node up through the statuses it returns), and the PoC         *)
(* reporting task.  FryVpn has its own, simpler health loop and relies on  *)
(* what HealthLoop!KeepsTrying promises; the reporting task shares no      *)
(* state with them.  So a behaviour is that of one of them, picked at      *)
(* first among the Parts of the configuration.                             *)
(***************************************************************************)
EXTENDS HealthLoop, Sequences

CONSTANTS Parts,
          MaxSkip, MaxChanges, None,                                \* FryVpn
          SlotsPerDay, Cap, BatchMax, LastTime, MaxVer, NoDoc       \* PocReporting

ASSUME PartsAssumption == Parts \subseteq {"loop", "fryvpn", "reporting"}

ASSUME SkipAssumption == MaxSkip \in Nat

ASSUME ReportingAssumption ==
    /\ SlotsPerDay \in Nat \ {0} /\ BatchMax \in Nat \ {0}
    /\ LastTime \in Nat /\ MaxVer \in Nat \ {0}
    /\ NoDoc \notin [born : Nat, ver : Nat]

\* "A full day is the most a backlog can usefully hold" (retry_queue.rs 28).
ASSUME RoomForADay == Cap \in Nat /\ SlotsPerDay <= Cap

\* The variables of FryVpn but for enabled, and those of PocReporting; None in
\* the parts that are not theirs.
VARIABLES part,
    world, slots, watch, up, at, got, changes, unseen,
    now, api, registered, pc, built, cur, res, batch, queue, server, cache

F == INSTANCE FryVpn
R == INSTANCE PocReporting

ofFryVpn == <<world, slots, watch, up, at, got, changes, unseen>>
ofReporting == <<now, api, registered, pc, built, cur, res, batch, queue, server, cache>>
allVars == <<part, vars, ofFryVpn, ofReporting>>

NoFryVpn ==
    /\ world = None /\ slots = None /\ watch = None /\ up = None /\ at = None
    /\ got = None /\ changes = None /\ unseen = None

NoReporting ==
    /\ now = None /\ api = None /\ registered = None /\ pc = None /\ built = None
    /\ cur = None /\ res = None /\ batch = None /\ queue = None
    /\ server = None /\ cache = None

TasksInit ==
    /\ Init /\ part \in Parts
    /\ IF part = "fryvpn" THEN F!Init ELSE NoFryVpn
    /\ IF part = "reporting" THEN R!Init /\ enabled ELSE NoReporting

OfLoop(step) == part = "loop" /\ step /\ UNCHANGED <<part, ofFryVpn, ofReporting>>
OfFryVpn(step) == part = "fryvpn" /\ step /\ UNCHANGED <<part, loopVars, ofReporting>>
OfReporting(step) == part = "reporting" /\ step /\ UNCHANGED <<part, vars, ofFryVpn>>

TasksNext == OfLoop(Next) \/ OfFryVpn(F!Next) \/ OfReporting(R!Next)

\* The fairness of each, which its module states.
FairLoop ==
    /\ WF_allVars(OfLoop(\E st \in HealthStatus : Check(st)))
    /\ WF_allVars(OfLoop(Decide)) /\ WF_allVars(OfLoop(Restart))
FairFryVpn ==
    WF_allVars(OfFryVpn(F!LoopWorks)) /\ SF_allVars(OfFryVpn(F!Restart))
FairReporting == WF_allVars(OfReporting(R!Tick))

Tasks == TasksInit /\ [][TasksNext]_allVars /\ FairLoop /\ FairReporting
FryVpnTasks == TasksInit /\ [][TasksNext]_allVars /\ FairFryVpn

-----------------------------------------------------------------------------
\* A funding park does not outlive its reason for long: two rounds of the
\* backoff for each of the two tasks that check (fryvpn.rs 602-655, 1397-1462).
FundedIsSeen == part = "fryvpn" => F!FundedIsSeen

\* A parked node comes up by itself, once rule, wallet and port stay as they
\* should be (fryvpn.rs 1430-1437).
NodeComesUp ==
    <>[](part = "fryvpn" /\ enabled /\ F!Ready(world) /\ world.balance
           /\ world.registry /\ world.port # "other")
        => []<>(part = "fryvpn" => up)

\* "One entry per (utc_date, slot_number)", also counting the entries that are
\* out for resubmission and may still be requeued (retry_queue.rs 17-19).
OneEntryPerSlot == part = "reporting" => R!OneEntryPerSlot

\* An outage costs no slot of the running day except those that the drain loop
\* drops behind its first failure: in particular the capacity never evicts an
\* entry of today (retry_queue.rs 28-80, main.rs 1063-1107).
KeptUntilDischarged == [][part = "reporting" => R!LosesNothing]_allVars

\* Once the service answers and the device stays registered, the backlog is
\* worked off for good, batch by batch (main.rs 1077-1100).
BacklogDrains ==
    <>[](part = "reporting" /\ api = "good" /\ registered)
        => <>[](part = "reporting" => R!Backlog = <<>>)
=============================================================================
