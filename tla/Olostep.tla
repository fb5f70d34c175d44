------------------------------ MODULE Olostep ------------------------------
(***************************************************************************)
(* Olostep (aem.rs): a browser that updates and relaunches itself, which   *)
(* FEM tracks in a slot and else sees by image name.  A stop asks it to    *)
(* close, waits, and forces it.  FEM also keeps the browser's own          *)
(* configuration, in which the owner may have opted out: an update of the  *)
(* browser wipes the file, and FEM restores it.                            *)
(***************************************************************************)
EXTENDS Integers

CONSTANTS Callers,
          MaxSpawns,    \* bound on the browsers FEM spawns
          MaxChanges,   \* bound on what happens to them from outside
          None

Ours == 1..MaxSpawns
Others == 0             \* started by the owner, by Windows, or by an update
Instances == Ours \cup {Others}

VARIABLES
    alive,      \* browsers that run
    child,      \* the slot: FEM's tracked child
    spawned,
    installed,
    config,     \* the browser's configuration
    optedOut,   \* the owner's latest word was to opt out
    on,         \* the card is enabled
    at,         \* per caller, its next step
    op,         \* per caller, what it is doing
    new,        \* per caller, the child it has spawned
    stale,      \* per caller, it read a configuration that needs restaging
    told,       \* the last stop said it stopped the browser
    behind,     \* starts past their probe when a child was stored (history)
    overtaken,  \* children whose place a start took that was behind (history)
    changes

vars == <<alive, child, spawned, installed, config, optedOut, on, at, op, new,
          stale, told, behind, overtaken, changes>>

browser == <<alive, child, spawned>>
files == <<installed, config, optedOut>>
history == <<behind, overtaken>>

TypeOK ==
    /\ alive \subseteq Instances /\ child \in Ours \cup {None}
    /\ spawned \in 0..MaxSpawns
    /\ {installed, optedOut, on, told} \subseteq BOOLEAN
    /\ config \in {"granted", "refused", "wiped"}
    /\ at \in [Callers -> {"idle", "close", "poll", "force", "failed", "clean",
                           "install", "start", "stage", "write", "spawn", "store"}]
    /\ op \in [Callers -> {"none", "restart", "enable", "disable", "boot", "reinstall"}]
    /\ new \in [Callers -> Ours \cup {None}] /\ stale \in [Callers -> BOOLEAN]
    /\ behind \subseteq Callers /\ overtaken \subseteq Ours
    /\ changes \in 0..MaxChanges

Init ==
    /\ alive = {} /\ child = None /\ spawned = 0
    /\ installed \in BOOLEAN /\ on \in BOOLEAN
    /\ config = "wiped" /\ optedOut = FALSE
    /\ at = [c \in Callers |-> "idle"] /\ op = [c \in Callers |-> "none"]
    /\ new = [c \in Callers |-> None] /\ stale = [c \in Callers |-> FALSE]
    /\ told = FALSE /\ behind = {} /\ overtaken = {} /\ changes = 0

\* past the probe that found no browser
Starting == {"stage", "write", "spawn", "store"}

Goto(c, step) == at' = [at EXCEPT ![c] = step]

Begin(c, what, step) ==
    /\ at[c] = "idle"
    /\ op' = [op EXCEPT ![c] = what] /\ Goto(c, step)
    /\ UNCHANGED <<browser, files, on, new, stale, told, changes, history>>

\* is_running, as tracked_child_probe and the image list answer it
Probe(running) ==
    IF child # None
    THEN /\ running = (child \in alive)
         /\ child' = IF child \in alive THEN child ELSE None
    ELSE /\ running \in {TRUE, alive # {}}
         /\ UNCHANGED child

Disable(c) == on /\ Begin(c, "disable", "close")
Restart(c) == on /\ Begin(c, "restart", "close")
Enable(c) == ~on /\ Begin(c, "enable", IF installed THEN "start" ELSE "install")
Boot(c) == on /\ op[c] = "none" /\ Begin(c, "boot", IF installed THEN "start" ELSE "install")
Reinstall(c) == on /\ Begin(c, "reinstall", "clean")

\* health_check looks; collect_poc_data restores the configuration as well,
\* in one step here.
Look ==
    /\ installed
    /\ \E running \in BOOLEAN : Probe(running)
    /\ config' = IF on /\ config = "wiped" THEN "granted" ELSE config
    /\ UNCHANGED <<alive, spawned, installed, optedOut, on, at, op, new, stale,
                   told, changes, history>>

\* taskkill without /F: the browser closes when it closes.
Close(c) ==
    /\ at[c] = "close"
    /\ Goto(c, "poll")
    /\ told' = FALSE
    /\ UNCHANGED <<browser, files, on, op, new, stale, changes, history>>

Closes(i) ==
    /\ i \in alive /\ \E c \in Callers : at[c] = "poll"
    /\ alive' = alive \ {i}
    /\ UNCHANGED <<child, spawned, files, on, at, op, new, stale, told, changes,
                   history>>

Stopped(c) ==
    /\ Goto(c, IF op[c] = "restart" THEN "start" ELSE "idle")
    /\ on' = IF op[c] = "disable" THEN FALSE ELSE on
    /\ told' = TRUE

Poll(c) ==
    /\ at[c] = "poll"
    /\ \E running \in BOOLEAN :
          /\ Probe(running)
          /\ IF running THEN at' \in {at, [at EXCEPT ![c] = "force"]} /\ UNCHANGED <<on, told>>
             ELSE Stopped(c)
    /\ UNCHANGED <<alive, spawned, files, op, new, stale, changes, history>>

\* taskkill /F of the tree
Force(c) ==
    /\ at[c] = "force"
    /\ \/ alive' = {} /\ child' = None /\ Stopped(c)
       \/ Goto(c, "failed") /\ UNCHANGED <<alive, child, on, told>>
    /\ UNCHANGED <<spawned, files, op, new, stale, changes, history>>

ForceFailed(c) ==
    /\ at[c] = "failed"
    /\ \E running \in BOOLEAN :
          /\ Probe(running)
          /\ IF running
             THEN Goto(c, IF op[c] = "restart" THEN "start" ELSE "idle") /\ UNCHANGED <<on, told>>
             ELSE Stopped(c)
    /\ UNCHANGED <<alive, spawned, files, op, new, stale, changes, history>>

\* force_clean: every browser is killed, the files go as far as they can; the
\* configuration is elsewhere.
Clean(c) ==
    /\ at[c] = "clean"
    /\ alive' = {}
    /\ installed' \in {FALSE, installed}
    /\ Goto(c, "install")
    /\ UNCHANGED <<child, spawned, config, optedOut, on, op, new, stale, told, changes,
                   history>>

\* install ends with the configuration staged, or fails.
Install(c) ==
    /\ at[c] = "install"
    /\ \/ /\ installed' = TRUE
          /\ config' = IF config = "wiped" THEN "granted" ELSE config
          /\ Goto(c, "start")
       \/ Goto(c, "idle") /\ UNCHANGED <<installed, config>>
    /\ UNCHANGED <<browser, optedOut, on, op, new, stale, told, changes, history>>

\* The enable is recorded, unless the command fails after the start.
Started(c) ==
    /\ Goto(c, "idle")
    /\ on' \in {on, on \/ op[c] \in {"enable", "reinstall"}}

StartChecks(c) ==
    /\ at[c] = "start"
    /\ \E running \in BOOLEAN :
          /\ Probe(running)
          /\ IF running \/ ~installed THEN Started(c)
             ELSE Goto(c, "stage") /\ UNCHANGED on
    /\ UNCHANGED <<alive, spawned, files, op, new, stale, told, changes, history>>

\* stage_config reads the file ...
StageReads(c) ==
    /\ at[c] = "stage"
    /\ stale' = [stale EXCEPT ![c] = config = "wiped"]
    /\ Goto(c, "write")
    /\ UNCHANGED <<browser, files, on, op, new, told, changes, history>>

\* ... and writes a new one when the key is gone.
StageWrites(c) ==
    /\ at[c] = "write"
    /\ config' = IF stale[c] THEN "granted" ELSE config
    /\ stale' = [stale EXCEPT ![c] = FALSE]
    /\ Goto(c, "spawn")
    /\ UNCHANGED <<browser, installed, optedOut, on, op, new, told, changes, history>>

Spawn(c) ==
    /\ at[c] = "spawn" /\ spawned < MaxSpawns
    /\ spawned' = spawned + 1
    /\ alive' = alive \cup {spawned + 1}
    /\ new' = [new EXCEPT ![c] = spawned + 1]
    /\ Goto(c, "store")
    /\ UNCHANGED <<child, files, on, op, stale, told, changes, history>>

Store(c) ==
    /\ at[c] = "store"
    /\ child' = new[c]
    /\ new' = [new EXCEPT ![c] = None]
    /\ behind' = (behind \cup {d \in Callers : at[d] \in Starting}) \ {c}
    /\ overtaken' = overtaken \cup (IF c \in behind THEN {child} \cap alive ELSE {})
    /\ Started(c)
    /\ UNCHANGED <<alive, spawned, files, op, stale, told, changes>>

Change ==
    /\ changes < MaxChanges /\ changes' = changes + 1
    /\ UNCHANGED <<child, spawned, installed, on, at, op, new, stale, told, history>>

Ends(i) ==
    /\ i \in alive /\ Change
    /\ alive' = alive \ {i}
    /\ UNCHANGED <<config, optedOut>>

Launched ==
    /\ installed /\ alive = {} /\ Change
    /\ alive' = {Others}
    /\ UNCHANGED <<config, optedOut>>

\* A Squirrel update relaunches the browser, and may wipe its configuration.
SelfUpdates(i) ==
    /\ i \in alive /\ Change
    /\ alive' = (alive \ {i}) \cup {Others}
    /\ config' \in {config, "wiped"}
    /\ UNCHANGED optedOut

\* The owner opts out in the browser.
OptsOut ==
    /\ alive # {} /\ Change
    /\ config' = "refused" /\ optedOut' = TRUE
    /\ UNCHANGED alive

Next ==
    \/ Look
    \/ \E c \in Callers :
          \/ Disable(c) \/ Restart(c) \/ Enable(c) \/ Boot(c) \/ Reinstall(c)
          \/ Close(c) \/ Poll(c) \/ Force(c) \/ ForceFailed(c) \/ Clean(c)
          \/ Install(c) \/ StartChecks(c) \/ StageReads(c) \/ StageWrites(c)
          \/ Spawn(c) \/ Store(c)
    \/ \E i \in Instances : Closes(i) \/ Ends(i) \/ SelfUpdates(i)
    \/ Launched \/ OptsOut

Spec == Init /\ [][Next]_vars

-----------------------------------------------------------------------------
(***************************************************************************)
(* A browser that FEM spawned and that still runs is in the slot, or about *)
(* to be, however a stop or a reinstall failed; but for one whose place    *)
(* was taken by a start that had found nothing running before it was       *)
(* stored (aem.rs 30-85, 446-527).                                         *)
(***************************************************************************)
OnlyOverlapsForget ==
    alive \ {Others} \subseteq {child} \cup {new[c] : c \in Callers} \cup overtaken

(***************************************************************************)
(* None is forgotten and left for the image probe to take for somebody     *)
(* else's.  Violated by two starts that overlap.                           *)
(***************************************************************************)
NothingForgotten == alive \ {Others} \subseteq {child} \cup {new[c] : c \in Callers}

(***************************************************************************)
(* aem.rs 447-487: a stop that reports success has stopped the browser.    *)
(* Violated: when the tracked browser has relaunched itself, the first     *)
(* poll finds the tracked process gone and reports a graceful stop.        *)
(***************************************************************************)
StopMeansStopped == [][told' /\ ~told => alive' = {}]_vars

(***************************************************************************)
(* aem.rs 323-327: an opt-out made inside Olostep is respected.  Violated: *)
(* an update of the browser wipes the opt-out with the file, and FEM       *)
(* restores an opt-in; or the owner opts out between the read and the      *)
(* write of a restage.                                                     *)
(***************************************************************************)
OptOutIsKept == optedOut => config # "granted"
=============================================================================
