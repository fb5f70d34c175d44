------------------------------- MODULE Toggle -------------------------------
(***************************************************************************)
(* The card commands of commands/integration.rs: toggle_integration and    *)
(* force_reinstall_integration, as concurrent calls that stop at every     *)
(* await, over the registry's enabled flags, the configuration's intents,  *)
(* the set of pending enables and the errors the cards show.  The intents  *)
(* have a copy on disk, and the app may exit at any moment.                *)
(***************************************************************************)
EXTENDS Integers, FiniteSets

CONSTANTS
    Id,              \* integrations, by their id in the source
    Call,            \* slots for concurrent commands
    MaxPresses,      \* bound on commands
    MaxSaveFaults,   \* bound on configuration saves that fail
    MaxRestarts      \* bound on exits of the app

ASSUME IdAssumption ==
    Id \subseteq {"storj", "space_acres", "diiisco", "aem", "mysterium"}
ASSUME BoundsAssumption == {MaxPresses, MaxSaveFaults, MaxRestarts} \subseteq Nat

VARIABLES
    deployed,    \* installed_version() is Some
    enabled,     \* the registry's flags
    intent,      \* integrations_enabled of the configuration in memory
    saved,       \* the same map on disk
    pending,     \* pending_enable: the cards marked as mid-enable
    error,       \* last_integration_error: the cards that show one
    call,        \* per slot: the command, where it stands, what it wrote early
    spent,       \* presses, save faults and restarts so far
    entangled,   \* history: cards two of whose commands overlapped
    kept         \* history: cards whose failed enable left the intent on

vars == <<deployed, enabled, intent, saved, pending, error, call, spent,
          entangled, kept>>

Intent == {"absent", "on", "off"}
Idle == [at |-> "idle"]
Command ==
    [at : {"checked", "armed", "rearming", "installing", "starting", "stopping",
           "setting", "saving"},
     id : Id, kind : {"on", "off", "reinstall"}, wrote : Intent \cup {"nothing"}]

Busy(c) == call[c] # Idle
Of(id) == {c \in Call : Busy(c) /\ call[c].id = id}

Spend(what, bound) == spent[what] < bound /\ spent' = [spent EXCEPT ![what] = @ + 1]
Shows(id, shown) == error' = [error EXCEPT ![id] = shown]
Goto(c, place) == call' = [call EXCEPT ![c].at = place]

\* ConfigStore::update: memory first, then the save, which may fail.
SaveOk(new) == intent' = new /\ saved' = new /\ UNCHANGED spent
SaveFails(new) == intent' = new /\ Spend("faults", MaxSaveFaults) /\ UNCHANGED saved
Save(new) == SaveOk(new) \/ SaveFails(new)
NoSave == UNCHANGED <<intent, saved, spent>>

\* mutual_exclusion_conflict: what may not run together.
Rival == [storj |-> "space_acres", space_acres |-> "storj"]
Conflict(id) == id \in DOMAIN Rival \cap Id /\ Rival[id] \in Id /\ enabled[Rival[id]]

Init ==
    /\ deployed = [id \in Id |-> FALSE]
    /\ intent = [id \in Id |-> "absent"]
    /\ saved = intent
    /\ enabled = [id \in Id |-> FALSE]
    /\ pending = {}
    /\ error = [id \in Id |-> FALSE]
    /\ call = [c \in Call |-> Idle]
    /\ spent = [presses |-> 0, faults |-> 0, restarts |-> 0]
    /\ entangled = {} /\ kept = {}

-----------------------------------------------------------------------------
\* A deviation the runs must notice: a manual remove that one path forgets.
ReturnLeaking(c) ==
    /\ call' = [call EXCEPT ![c] = Idle]
    /\ pending' = IF call[c].kind = "on" /\ call[c].at # "installing"
                  THEN pending \ {call[c].id} ELSE pending

\* The end of a command; dropping it drops its PendingGuard, if it had one.
Return(c) ==
    /\ call' = [call EXCEPT ![c] = Idle]
    /\ pending' = IF call[c].kind = "on" THEN pending \ {call[c].id} ELSE pending

Press(c, id, kind, place) ==
    /\ ~Busy(c)
    /\ Spend("presses", MaxPresses)
    /\ call' = [call EXCEPT ![c] =
                  [at |-> place, id |-> id, kind |-> kind, wrote |-> "nothing"]]
    /\ entangled' = IF Of(id) # {} THEN entangled \cup {id} ELSE entangled

\* toggle_integration(id, true): the rival's flag is read once, up front.
PressOn(c, id) ==
    /\ ~Conflict(id)
    /\ Press(c, id, "on", "checked")
    /\ UNCHANGED <<deployed, enabled, intent, saved, pending, error, kept>>

PressRefused(c, id) ==
    /\ Conflict(id) /\ ~Busy(c)
    /\ Spend("presses", MaxPresses)
    /\ Shows(id, TRUE)
    /\ UNCHANGED <<deployed, enabled, intent, saved, pending, call, entangled, kept>>

PressOff(c, id) ==
    /\ Press(c, id, "off", "stopping")
    /\ UNCHANGED <<deployed, enabled, intent, saved, pending, error, kept>>

\* force_reinstall_integration: Olostep only; force_clean wipes the install.
PressReinstall(c, id) ==
    /\ id = "aem"
    /\ Press(c, id, "reinstall", "installing")
    /\ deployed' = [deployed EXCEPT ![id] = FALSE]
    /\ UNCHANGED <<enabled, intent, saved, pending, error, kept>>

\* Eligibility and LAN checks are awaited; a refusal comes before the mark.
PreChecksRefuse(c) ==
    /\ call[c].at = "checked" /\ call[c].id \in {"space_acres", "mysterium"}
    /\ Shows(call[c].id, TRUE)
    /\ call' = [call EXCEPT ![c] = Idle]
    /\ NoSave
    /\ UNCHANGED <<deployed, enabled, pending, entangled, kept>>

PreChecksPass(c) ==
    /\ call[c].at = "checked"
    /\ pending' = pending \cup {call[c].id}
    /\ Goto(c, "armed")
    /\ NoSave
    /\ UNCHANGED <<deployed, enabled, error, entangled, kept>>

\* check_requirements, under the guard.
RequirementsRefuse(c) ==
    /\ call[c].at = "armed"
    /\ Shows(call[c].id, TRUE)
    /\ Return(c)
    /\ NoSave
    /\ UNCHANGED <<deployed, enabled, entangled, kept>>

\* persist_early_diiisco_intent, then on to the first slow step.
Advance(c, wrote) ==
    call' = [call EXCEPT
        ![c].at = IF deployed[call[c].id] THEN "starting" ELSE "installing",
        ![c].wrote = wrote]

\* A deviation the runs must notice: the intent is only written at the end.
PersistLate(c) == NoSave /\ Advance(c, "nothing")

PersistEarly(c) ==
    LET new == [intent EXCEPT ![call[c].id] = "on"] IN
    IF call[c].id = "diiisco"
    THEN \/ SaveOk(new) /\ Advance(c, intent[call[c].id])
         \/ SaveFails(new) /\ Advance(c, "nothing")
    ELSE NoSave /\ Advance(c, "nothing")

RequirementsPass(c) ==
    /\ call[c].at = "armed"
    /\ Goto(c, "rearming")
    /\ NoSave
    /\ UNCHANGED <<deployed, enabled, pending, error, entangled, kept>>

\* clear_blocked and rearm_docker_prerequisite wait for the mutex of the gate,
\* which is held while another prompt is unanswered; only then the early write.
Rearmed(c) ==
    /\ call[c].at = "rearming"
    /\ PersistEarly(c)
    /\ UNCHANGED <<deployed, enabled, pending, error, entangled, kept>>

-----------------------------------------------------------------------------
\* A deviation the runs must notice: the entry is removed, whatever was there.
RestoredAbsent(id, prior) ==
    IF intent[id] = "on" THEN [intent EXCEPT ![id] = "absent"] ELSE intent

\* apply_intent_restore, compare-and-set: what the map becomes when a plain
\* failure undoes the early write of a command that found `prior`.
Restored(id, prior) ==
    IF intent[id] = "on" THEN [intent EXCEPT ![id] = prior] ELSE intent

\* restore_intent_after_failed_enable: only a command that wrote early.
Undoes(c) == call[c].kind = "on" /\ call[c].wrote # "nothing"

\* install_for_user or start_for_user ends in an error that persists nothing.
StepFails(c) ==
    /\ call[c].at \in {"installing", "starting"}
    /\ IF Undoes(c)
       THEN Save(Restored(call[c].id, call[c].wrote))
       ELSE NoSave
    /\ Shows(call[c].id, TRUE)
    /\ Return(c)
    /\ UNCHANGED <<deployed, enabled, entangled, kept>>

\* ... in a node's rejection or at the bound: Diiisco keeps the intent.
StepKeepsIntent(c) ==
    /\ call[c].at \in {"installing", "starting"} /\ call[c].id = "diiisco"
    /\ Save([intent EXCEPT ![call[c].id] = "on"])
    /\ kept' = kept \cup {call[c].id}
    /\ Shows(call[c].id, TRUE)
    /\ Return(c)
    /\ UNCHANGED <<deployed, enabled, entangled>>

Installed(c) ==
    /\ call[c].at = "installing"
    /\ deployed' = [deployed EXCEPT ![call[c].id] = TRUE]
    /\ Goto(c, "starting")
    /\ NoSave
    /\ UNCHANGED <<enabled, pending, error, entangled, kept>>

\* Success of start clears the card's error (a reinstall clears it at the end).
Started(c) ==
    /\ call[c].at = "starting"
    /\ IF call[c].kind = "on" THEN Shows(call[c].id, FALSE) ELSE UNCHANGED error
    /\ Goto(c, "setting")
    /\ NoSave
    /\ UNCHANGED <<deployed, enabled, pending, entangled, kept>>

\* stop_for_disable.
Stopped(c) ==
    /\ call[c].at = "stopping"
    /\ Shows(call[c].id, FALSE)
    /\ Goto(c, "setting")
    /\ NoSave
    /\ UNCHANGED <<deployed, enabled, pending, entangled, kept>>

StopFails(c) ==
    /\ call[c].at = "stopping"
    /\ Shows(call[c].id, TRUE)
    /\ Return(c)
    /\ NoSave
    /\ UNCHANGED <<deployed, enabled, entangled, kept>>

\* The registry's lock, then the configuration's.
SetEnabled(c) ==
    /\ call[c].at = "setting"
    /\ enabled' = [enabled EXCEPT ![call[c].id] = call[c].kind # "off"]
    /\ Goto(c, "saving")
    /\ NoSave
    /\ UNCHANGED <<deployed, pending, error, entangled, kept>>

Record(c) ==
    [intent EXCEPT ![call[c].id] = IF call[c].kind = "off" THEN "off" ELSE "on"]

Saved(c) ==
    /\ call[c].at = "saving"
    /\ \/ /\ SaveOk(Record(c))
          /\ IF call[c].kind = "reinstall" THEN Shows(call[c].id, FALSE) ELSE UNCHANGED error
       \/ SaveFails(Record(c)) /\ UNCHANGED error
    /\ kept' = kept \ {call[c].id}
    /\ Return(c)
    /\ UNCHANGED <<deployed, enabled, entangled>>

\* The app exits with commands under way; restore_enabled_states reads the disk.
Restart ==
    /\ Spend("restarts", MaxRestarts)
    /\ intent' = saved
    /\ enabled' = [id \in Id |-> saved[id] = "on"]
    /\ call' = [c \in Call |-> Idle]
    /\ pending' = {} /\ error' = [id \in Id |-> FALSE]
    /\ entangled' = {} /\ kept' = {}
    /\ UNCHANGED <<deployed, saved>>

Next ==
    \/ \E c \in Call, id \in Id :
          PressOn(c, id) \/ PressRefused(c, id) \/ PressOff(c, id) \/ PressReinstall(c, id)
    \/ \E c \in Call :
          /\ Busy(c)
          /\ \/ PreChecksRefuse(c) \/ PreChecksPass(c)
             \/ RequirementsRefuse(c) \/ RequirementsPass(c)
             \/ Rearmed(c)
             \/ Installed(c) \/ Started(c) \/ StepFails(c) \/ StepKeepsIntent(c)
             \/ Stopped(c) \/ StopFails(c)
             \/ SetEnabled(c) \/ Saved(c)
    \/ Restart

Spec == Init /\ [][Next]_vars

-----------------------------------------------------------------------------
\* The variables have their types, and a slot that is mid-command names a card.
TypeOK ==
    /\ {deployed, enabled, error} \subseteq [Id -> BOOLEAN]
    /\ {intent, saved} \subseteq [Id -> Intent]
    /\ call \in [Call -> {Idle} \cup Command]
    /\ pending \subseteq Id /\ entangled \subseteq Id /\ kept \subseteq Id
    /\ spent.presses \in 0 .. MaxPresses
    /\ spent.faults \in 0 .. MaxSaveFaults
    /\ spent.restarts \in 0 .. MaxRestarts

\* "any one of them leaking an entry would pin that card on Installing
\* forever": a marked card has an enable under way.
NoCardIsPinned ==
    \A id \in pending : \E c \in Of(id) : call[c].kind = "on"

Settled(id) == Of(id) = {} /\ id \notin entangled /\ spent.faults = 0

\* Once a card's commands are over, what the next launch restores is what the
\* registry says now, except for the intent a Diiisco failure kept on purpose.
LaunchAgrees ==
    \A id \in Id : Settled(id) =>
        \/ enabled[id] <=> saved[id] = "on"
        \/ id \in kept /\ saved[id] = "on"

\* The early intent of Diiisco, once written, outlives the app: an exit at any
\* later step of the enable is followed by a launch that enables the card,
\* whatever the commands on other cards have saved or undone since.
Enabling(c) ==
    Busy(c) /\ call[c].id = "diiisco" /\ call[c].kind = "on"
    /\ call[c].at \in {"installing", "starting", "setting", "saving"}

ExitKeepsTheIntent ==
    [][Restart => \A c \in Call :
         Enabling(c) /\ "diiisco" \notin entangled /\ spent.faults = 0
            => enabled'["diiisco"]]_vars

\* persist_early_diiisco_intent: "so an app exit at any time after the click
\* keeps it", also while the accepted enable waits for the gate.
Clicked(c) ==
    Busy(c) /\ call[c].id = "diiisco" /\ call[c].at = "rearming"

ExitKeepsTheClick ==
    [][Restart => \A c \in Call :
         (Enabling(c) \/ Clicked(c)) /\ "diiisco" \notin entangled /\ spent.faults = 0
            => enabled'["diiisco"]]_vars

\* The mutual exclusion of storj and space_acres, as the refusal words it.
MutuallyExclusive == \A id \in Id \cap DOMAIN Rival : enabled[id] => ~Conflict(id)

\* PendingGuard "marks an integration as mid-enable for as long as it is
\* alive": a card with an enable past its checks is marked.
MarkedWhileEnabling ==
    \A c \in Call :
        Busy(c) /\ call[c].kind = "on" /\ call[c].at # "checked" => call[c].id \in pending

\* apply_intent_restore must "only undo the `true` this enable wrote": a card
\* that is on, with nothing under way, is on again at the next launch.
EnableIsKept ==
    \A id \in Id : Of(id) = {} /\ enabled[id] /\ spent.faults = 0 /\ "off" # intent[id]
        => saved[id] = "on"
=============================================================================
