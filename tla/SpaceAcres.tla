----------------------------- MODULE SpaceAcres -----------------------------
(***************************************************************************)
(* SpaceAcres (space_acres.rs): an app with a window of its own, in which  *)
(* the owner sets it up, and a farmer process that it starts once it is    *)
(* set up.  FEM tracks the one it spawned in a slot; what it did not spawn *)
(* it sees by image name only.  A restart of the supervisor, a toggle and  *)
(* the boot pass may be at it at the same time.                            *)
(***************************************************************************)
EXTENDS Integers

CONSTANTS Callers,
          MaxSpawns,        \* bound on the instances FEM spawns
          MaxChanges,       \* bound on what happens to them from outside
          None

Ours == 1..MaxSpawns
Owners == 0                 \* the instance the owner starts from the menu
Instances == Ours \cup {Owners}

VARIABLES
    sup,        \* instances whose app runs
    farm,       \* instances whose farmer runs
    child,      \* the slot: FEM's tracked child
    spawned,    \* instances spawned so far
    configured, \* SpaceAcres' own configuration is complete
    installed,  \* the copies on disk: the one FEM staged, and the installer's
    gesture,    \* next_install_is_user_gesture
    on,         \* the card is enabled
    at,         \* per caller, its next step
    op,         \* per caller, what it is doing
    holds,      \* per caller, the child it has in hand
    gone,       \* per caller, whether that child had exited by itself
    clicked,    \* per caller, what the install read from gesture
    prompts,    \* who has raised an elevation prompt
    behind,     \* starts past their probe when a child was stored (history)
    overtaken,  \* children whose place a start took that was behind (history)
    changes

vars == <<sup, farm, child, spawned, configured, installed, gesture, on,
          at, op, holds, gone, clicked, prompts, behind, overtaken, changes>>

\* What FEM once staged is the app or, in older releases, its installer; it may
\* be cut short, or older than what the installer has placed since.
Staged == {"none", "app", "older", "installer", "corrupt"}

world == <<sup, farm, configured, installed, changes>>
installing == <<gesture, clicked, prompts>>
history == <<behind, overtaken>>

TypeOK ==
    /\ sup \subseteq Instances /\ farm \subseteq Instances
    /\ child \in Ours \cup {None} /\ spawned \in 0..MaxSpawns
    /\ {configured, gesture, on} \subseteq BOOLEAN
    /\ installed \in [staged : Staged, found : BOOLEAN]
    /\ at \in [Callers -> {"idle", "spare", "take", "kill", "sweep", "start",
                           "spawn", "store", "install", "look", "fetch", "prompt",
                           "wait"}]
    /\ op \in [Callers -> {"none", "restart", "enable", "disable", "boot"}]
    /\ holds \in [Callers -> Ours \cup {None}]
    /\ gone \in [Callers -> BOOLEAN] /\ clicked \in [Callers -> BOOLEAN]
    /\ prompts \subseteq {"enable", "boot"}
    /\ behind \subseteq Callers /\ overtaken \subseteq Ours
    /\ changes \in 0..MaxChanges

Init ==
    /\ sup = {} /\ farm = {} /\ child = None /\ spawned = 0
    /\ configured \in BOOLEAN /\ on \in BOOLEAN
    /\ installed \in [staged : Staged, found : BOOLEAN]
    /\ gesture = FALSE
    /\ at = [c \in Callers |-> "idle"] /\ op = [c \in Callers |-> "none"]
    /\ holds = [c \in Callers |-> None]
    /\ gone = [c \in Callers |-> FALSE] /\ clicked = [c \in Callers |-> FALSE]
    /\ prompts = {} /\ behind = {} /\ overtaken = {} /\ changes = 0

\* file_is_burn_bundle and file_is_valid_pe, on the copy that was staged
file_is_the_app(f) == f.staged \in {"app", "older"}

\* A version that cannot be read evicts nothing.
staged_is_stale(f) == f.staged = "older" /\ f.found

installed_binary(f) ==
    IF file_is_the_app(f) /\ ~staged_is_stale(f) THEN "staged"
    ELSE IF f.found THEN "found" ELSE None

\* Both quarantines rename the staged copy; a rename may fail.
quarantined(f) ==
    IF f.staged = "installer" \/ staged_is_stale(f)
    THEN {f, [f EXCEPT !.staged = "none"]} ELSE {f}

Goto(c, step) == at' = [at EXCEPT ![c] = step]

\* Apps and farmers are told by their image names.
tasklist_shows_space_acres == sup \cup farm # {}

\* A deviation the runs must notice: a listing that shows no farmer gives the
\* slot up.
ProbeOfFarmer(running) ==
    IF child # None
    THEN /\ running = (child \in sup)
         /\ child' = IF child \in farm THEN child ELSE None
    ELSE /\ running \in {TRUE, tasklist_shows_space_acres}
         /\ UNCHANGED child

\* is_running: the tracked child alone when there is one, and a child that
\* has exited gives the slot up; otherwise the image names, and a listing
\* that fails counts as running.
Probe(running) ==
    IF child # None
    THEN /\ running = (child \in sup)
         /\ child' = IF child \in sup THEN child ELSE None
    ELSE /\ running \in {TRUE, tasklist_shows_space_acres}
         /\ UNCHANGED child

\* health_check and collect_poc_data only look.
Look ==
    /\ installed_binary(installed) # None
    /\ \E running \in BOOLEAN : Probe(running)
    /\ UNCHANGED <<world, installing, spawned, on, at, op, holds, gone, history>>

Restart(c) ==
    /\ at[c] = "idle" /\ on
    /\ op' = [op EXCEPT ![c] = "restart"] /\ Goto(c, "spare")
    /\ UNCHANGED <<world, installing, child, spawned, on, holds, gone, history>>

space_acres_configured == configured

\* stop_for_restart leaves the setup window open.
Spare(c) ==
    /\ at[c] = "spare"
    /\ \E running \in BOOLEAN :
          /\ Probe(running)
          /\ Goto(c, IF ~space_acres_configured /\ running THEN "start" ELSE "take")
    /\ UNCHANGED <<world, installing, spawned, on, op, holds, gone, history>>

Disable(c) ==
    /\ at[c] = "idle" /\ on
    /\ op' = [op EXCEPT ![c] = "disable"] /\ Goto(c, "take")
    /\ UNCHANGED <<world, installing, child, spawned, on, holds, gone, history>>

\* the card's flag follows its stop; a restart goes on to start
Stopped(c) ==
    /\ Goto(c, IF op[c] = "restart" THEN "start" ELSE "idle")
    /\ on' = IF op[c] = "disable" THEN FALSE ELSE on
    /\ holds' = [holds EXCEPT ![c] = None]

StopTakes(c) ==
    /\ at[c] = "take"
    /\ holds' = [holds EXCEPT ![c] = child]
    /\ gone' = [gone EXCEPT ![c] = child # None /\ child \notin sup]
    /\ child' = None
    /\ Goto(c, IF child = None THEN "sweep" ELSE "kill")
    /\ UNCHANGED <<world, installing, spawned, on, op, history>>

\* What kill_tree leaves: SpaceAcres' own processes below the child go with
\* it, orphans too, and only the child when they cannot be listed.
kill_tree(i, known) == IF known THEN farm \ {i} ELSE farm

tracked_stop_is_complete(exited, known) == ~exited /\ known

StopKills(c) ==
    /\ at[c] = "kill"
    /\ sup' = sup \ {holds[c]} /\ gone' = [gone EXCEPT ![c] = FALSE]
    /\ \E known \in BOOLEAN :
          /\ farm' = kill_tree(holds[c], known)
          /\ IF tracked_stop_is_complete(gone[c], known) THEN Stopped(c)
             ELSE Goto(c, "sweep") /\ UNCHANGED <<on, holds>>
    /\ UNCHANGED <<installing, child, spawned, configured, installed, op, changes,
                   history>>

Sweep(c) ==
    /\ at[c] = "sweep"
    /\ sup' = {} /\ farm' = {}
    /\ Stopped(c)
    /\ UNCHANGED <<installing, child, spawned, configured, installed, op, gone, changes,
                   history>>

\* toggle_integration installs what is not there, as the user's click.
Enable(c) ==
    /\ at[c] = "idle" /\ ~on
    /\ op' = [op EXCEPT ![c] = "enable"]
    /\ gesture' = IF installed_binary(installed) # None THEN gesture ELSE TRUE
    /\ Goto(c, IF installed_binary(installed) # None THEN "start" ELSE "install")
    /\ UNCHANGED <<world, clicked, prompts, child, spawned, on, holds, gone, history>>

\* the boot pass, a caller's first act: install() and start() of an enabled
\* card
Boot(c) ==
    /\ at[c] = "idle" /\ op[c] = "none" /\ on
    /\ op' = [op EXCEPT ![c] = "boot"]
    /\ Goto(c, IF installed_binary(installed) # None THEN "start" ELSE "install")
    /\ UNCHANGED <<world, installing, child, spawned, on, holds, gone, history>>

\* install_impl reads and resets the flag before anything else, ...
InstallReads(c) ==
    /\ at[c] = "install"
    /\ clicked' = [clicked EXCEPT ![c] = gesture]
    /\ gesture' = FALSE
    /\ Goto(c, "look")
    /\ UNCHANGED <<world, prompts, child, spawned, on, op, holds, gone, history>>

\* ... clears the staged copy away, is done when the app is there or runs, is
\* refused without a click, ...
InstallLooks(c) ==
    /\ at[c] = "look"
    /\ installed' \in quarantined(installed) /\ clicked' = [clicked EXCEPT ![c] = FALSE]
    /\ \E running \in BOOLEAN :
          /\ Probe(running)
          /\ Goto(c, IF installed_binary(installed') # None \/ running THEN "start"
                     ELSE IF clicked[c] THEN "fetch" ELSE "idle")
    /\ UNCHANGED <<sup, farm, configured, changes, gesture, prompts,
                   spawned, on, op, holds, gone, history>>

\* ... downloads the installer of the latest release, ...
fetch_latest_release(c) ==
    /\ at[c] = "fetch"
    /\ \E step \in {"prompt", "idle"} : Goto(c, step)
    /\ UNCHANGED <<world, installing, child, spawned, on, op, holds, gone, history>>

\* ... runs it behind the elevation gate, which may refuse ...
InstallPrompts(c) ==
    /\ at[c] = "prompt"
    /\ \/ Goto(c, "idle") /\ UNCHANGED <<installed, prompts>>
       \/ /\ prompts' = prompts \cup {op[c]}
          /\ \E found \in BOOLEAN :
                installed' = [installed EXCEPT !.found = @ \/ found]
          /\ Goto(c, "wait")
    /\ UNCHANGED <<sup, farm, configured, changes, gesture, clicked,
                   child, spawned, on, op, holds, gone, history>>

\* ... and waits for the app to appear.
InstallEnds(c) ==
    /\ at[c] = "wait"
    /\ Goto(c, IF installed_binary(installed) # None THEN "start" ELSE "idle")
    /\ UNCHANGED <<world, installing, child, spawned, on, op, holds, gone, history>>

\* The enable is recorded, unless the command fails after the start.
Started(c) ==
    /\ Goto(c, "idle")
    /\ on' \in {on, on \/ op[c] = "enable"}

StartChecks(c) ==
    /\ at[c] = "start"
    /\ \E running \in BOOLEAN :
          /\ Probe(running)
          /\ IF running \/ installed_binary(installed) = None THEN Started(c)
             ELSE Goto(c, "spawn") /\ UNCHANGED on
    /\ UNCHANGED <<world, installing, spawned, op, holds, gone, history>>

StartSpawns(c) ==
    /\ at[c] = "spawn" /\ spawned < MaxSpawns
    /\ spawned' = spawned + 1
    /\ sup' = sup \cup {spawned + 1}
    /\ holds' = [holds EXCEPT ![c] = spawned + 1]
    /\ Goto(c, "store")
    /\ UNCHANGED <<installing, farm, configured, installed, changes,
                   child, on, op, gone, history>>

\* The slot takes the new child, whatever it held.
StartStores(c) ==
    /\ at[c] = "store"
    /\ child' = holds[c]
    /\ holds' = [holds EXCEPT ![c] = None]
    /\ behind' = (behind \cup {d \in Callers : at[d] \in {"spawn", "store"}}) \ {c}
    /\ overtaken' = overtaken \cup (IF c \in behind THEN {child} \cap sup ELSE {})
    /\ Started(c)
    /\ UNCHANGED <<world, installing, spawned, op, gone>>

FarmerStarts(i) ==
    /\ i \in sup \ farm /\ configured
    /\ farm' = farm \cup {i}
    /\ UNCHANGED <<installing, sup, configured, installed, changes, child, spawned,
                   on, at, op, holds, gone, history>>

Change == changes < MaxChanges /\ changes' = changes + 1
Apart == UNCHANGED <<installing, child, spawned, on, at, op, holds, gone, history>>

\* The app ends, closed or crashed; its farmer may outlive it.
AppEnds(i) ==
    /\ Change /\ i \in sup
    /\ sup' = sup \ {i}
    /\ farm' \in {farm, farm \ {i}}
    /\ Apart /\ UNCHANGED <<configured, installed>>

FarmerEnds(i) ==
    /\ Change /\ i \in farm
    /\ farm' = farm \ {i}
    /\ Apart /\ UNCHANGED <<sup, configured, installed>>

OwnerLaunches ==
    /\ Change /\ installed_binary(installed) # None /\ sup = {}
    /\ sup' = {Owners}
    /\ Apart /\ UNCHANGED <<farm, configured, installed>>

OwnerSetsUp ==
    /\ sup # {} /\ ~configured
    /\ configured' = TRUE
    /\ Apart /\ UNCHANGED <<sup, farm, installed, changes>>

Next ==
    \/ Look
    \/ \E c \in Callers :
          \/ Restart(c) \/ Spare(c) \/ Disable(c) \/ StopTakes(c) \/ StopKills(c)
          \/ Sweep(c) \/ Enable(c) \/ Boot(c)
          \/ InstallReads(c) \/ InstallLooks(c) \/ fetch_latest_release(c)
          \/ InstallPrompts(c) \/ InstallEnds(c)
          \/ StartChecks(c) \/ StartSpawns(c) \/ StartStores(c)
    \/ \E i \in Instances : FarmerStarts(i) \/ AppEnds(i) \/ FarmerEnds(i)
    \/ OwnerLaunches \/ OwnerSetsUp

Spec == Init /\ [][Next]_vars

-----------------------------------------------------------------------------
(***************************************************************************)
(* An app that FEM spawned and that still runs is in the slot, or in the   *)
(* hands of the task that stops or stores it, whatever exits, probes and   *)
(* failed stops come between; but for one whose place was taken by a start *)
(* that had found nothing running before it was stored: nothing serialises *)
(* a restart, a toggle and the boot pass (space_acres.rs 1183-1284).       *)
(***************************************************************************)
OnlyOverlapsForget ==
    sup \ {Owners} \subseteq {child} \cup {holds[c] : c \in Callers} \cup overtaken

(***************************************************************************)
(* None is forgotten, which no later stop would end as a tracked one.      *)
(* Violated by two starts that overlap.                                    *)
(***************************************************************************)
NothingForgotten == sup \ {Owners} \subseteq {child} \cup {holds[c] : c \in Callers}

(***************************************************************************)
(* space_acres.rs 145-149: a farmer left running without its app must not  *)
(* read as stopped and let FEM start a second one.                         *)
(***************************************************************************)
OneFarmer == \A i, j \in farm : i = j

(***************************************************************************)
(* space_acres.rs 1240-1279: when a disable is done, none of the processes *)
(* of what FEM spawned is left.                                            *)
(***************************************************************************)
StopEndsFarming ==
    [][\A c \in Callers :
          at[c] \in {"kill", "sweep"} /\ op[c] = "disable" /\ at'[c] = "idle"
          => farm' \subseteq {Owners}]_vars

(***************************************************************************)
(* space_acres.rs 291-293: a restart leaves the setup window alone, which  *)
(* the owner is filling in.                                                *)
(***************************************************************************)
SetupIsSpared ==
    [][\A c \in Callers :
          at[c] \in {"kill", "sweep"} /\ op[c] = "restart" /\ ~configured
          => (at'[c] # at[c] => sup \subseteq sup')]_vars

(***************************************************************************)
(* space_acres.rs 303-311: only an install that a click started prompts.   *)
(***************************************************************************)
OnlyClicksPrompt == prompts \subseteq {"enable"}
=============================================================================
