------------------------------- MODULE Updater -------------------------------
(***************************************************************************)
(* Installing an update of the app itself: the background updater and the  *)
(* Updates page run the same preparation (updater_auto.rs) and share one   *)
(* suspension flag. The installer replaces the version on disk, mostly     *)
(* behind the back of a process that has exited, and the next launch reads *)
(* from a record whether the update took effect.                           *)
(*                                                                         *)
(* The partners are not here: what each may do between a look at the flag  *)
(* and its effect is the matter of IntegrationLifecycle. This module is    *)
(* about who holds the flag up, and for how long.                          *)
(***************************************************************************)
EXTENDS Naturals, FiniteSets

CONSTANTS
    Background,   \* the background updater
    Manual,       \* install_update commands of the Updates page
    MaxVersion,   \* bound on published versions
    MaxLaunches,  \* bound on launches
    MaxFaults,    \* bound on copies, writes and removals that fail
    None, Torn    \* no record or version; a record cut short

Installer == {Background} \cup Manual

ASSUME BackgroundAssumption == Background \notin Manual
ASSUME BoundsAssumption == {MaxVersion, MaxLaunches, MaxFaults} \subseteq Nat

VARIABLES
    app,        \* "down", "settling" the last update's record, "tidying" or "up"
    running,    \* the version this process was built as
    flag,       \* UPDATE_IN_PROGRESS
    pc,         \* per installer: where it stands
    target,     \* per installer: the version it installs
    msi,        \* where an msiexec entry of the app is in the registry's list of
                \* its installations: "none", "first", or "later" than another
    latest,     \* the newest version the service offers
    disk,       \* the version in the install tree
    record,     \* update-state.json
    prev,       \* the version of the binaries in .prev
    page,       \* the Updates page: "closed", "open", or "busy" with a command
    notice,     \* what the page shows of an update: "none", "blocked", "failed"
    outcome,    \* history: what this launch said of the last update
    handed,     \* history: the last process ended in an update
    landed,     \* history: an install succeeded in this process
    overlapped, \* history: two installers were past their gates in this process
    unsaved,    \* history: the last copy of the binaries failed
    launches, faults

fileVars == <<disk, record, prev, unsaved>>
pageVars == <<page, notice>>
historyVars == <<outcome, handed, landed, overlapped>>
vars == <<app, running, flag, pc, target, msi, latest, fileVars, pageVars,
          historyVars, launches, faults>>

Version == 0 .. MaxVersion
Record == [from : Version, to : Version]

ASSUME NoneAssumption ==
    None \notin Version /\ {None, Torn} \cap Record = {} /\ Torn # None

Init ==
    /\ app = "down" /\ running = 0 /\ flag = FALSE
    /\ pc = [i \in Installer |-> "idle"] /\ target = [i \in Installer |-> 0]
    /\ msi \in {"none", "first", "later"} /\ latest = 0
    /\ disk = 0 /\ record = None /\ prev = None /\ unsaved = FALSE
    /\ page = "closed" /\ notice = "none"
    /\ outcome = "none" /\ handed = FALSE /\ landed = FALSE /\ overlapped = FALSE
    /\ launches = 0 /\ faults = 0

Fault == faults < MaxFaults /\ faults' = faults + 1
Goto(i, place) == pc' = [pc EXCEPT ![i] = place]

\* The UpdateInProgressGuard of an installer is alive.
Guarded(i) == pc[i] \in {"armed", "released", "saved", "recording", "installing"}

-----------------------------------------------------------------------------
(* One install.                                                            *)

\* The background task looks every six hours; the page's command is given by
\* a button that is disabled while the page waits for one.
Check(i) ==
    /\ app = "up" /\ pc[i] = "idle" /\ latest > running
    /\ IF i = Background THEN UNCHANGED pageVars
                         ELSE page = "open" /\ page' = "busy" /\ notice' = "none"
    /\ target' = [target EXCEPT ![i] = latest]
    /\ Goto(i, "checked")
    /\ UNCHANGED <<app, running, msi, flag, latest, fileVars, historyVars, launches,
                   faults>>

\* What the page makes of the end of its command.
CommandEnds(i) == page' = IF i # Background /\ page = "busy" THEN "open" ELSE page

\* parse_msi_uninstall_json looks at the first entry of the list.
MsiFound == msi = "first"

\* The MSI gate fails closed: an MSI owns the install, or nobody can tell.
\* The event reaches the page, whoever installs, and ends its waiting.
GateBlocks(i) ==
    /\ pc[i] = "checked"
    /\ page' = IF page = "busy" THEN "open" ELSE page
    /\ notice' = IF page = "closed" THEN notice ELSE "blocked"
    /\ Goto(i, "idle")
    /\ UNCHANGED <<app, running, msi, flag, target, latest, fileVars,
                   historyVars, launches, faults>>

\* It passes, and the suspension is armed before any partner is touched. The
\* guard knows nothing of another installer, nor of an install that landed.
GatePasses(i) ==
    /\ pc[i] = "checked" /\ ~MsiFound
    /\ flag' = TRUE
    /\ Goto(i, "armed")
    /\ overlapped' = (overlapped \/ landed \/ \E j \in Installer : Guarded(j))
    /\ UNCHANGED <<app, running, msi, target, latest, fileVars, pageVars, outcome,
                   handed, landed, launches, faults>>

\* release_install_tree stops the partners.
Release(i) ==
    /\ pc[i] = "armed"
    /\ Goto(i, "released")
    /\ UNCHANGED <<app, running, msi, flag, target, latest, fileVars, pageVars,
                   historyVars, launches, faults>>

\* A deviation the runs must notice: a copy that is there is kept.
SaveOnce(i) == prev' = IF prev = None THEN disk ELSE prev

\* What is in place is copied, over whatever was copied before.
Save(i) == prev' = disk

BackUp(i) ==
    /\ pc[i] = "released"
    /\ \/ Save(i) /\ unsaved' = FALSE /\ UNCHANGED faults
       \/ Fault /\ unsaved' = TRUE /\ UNCHANGED prev
    /\ Goto(i, "saved")
    /\ UNCHANGED <<app, running, msi, flag, target, latest, disk, record, pageVars,
                   historyVars, launches>>

\* write_update_state creates the file anew, and then writes it.
RecordCreated(i) ==
    /\ pc[i] = "saved"
    /\ record' = Torn
    /\ Goto(i, "recording")
    /\ UNCHANGED <<app, running, msi, flag, target, latest, disk, prev, unsaved,
                   pageVars, historyVars, launches, faults>>

RecordWritten(i) ==
    /\ pc[i] = "recording"
    /\ record' = [from |-> running, to |-> target[i]]
    /\ Goto(i, "installing")
    /\ UNCHANGED <<app, running, msi, flag, target, latest, disk, prev, unsaved,
                   pageVars, historyVars, launches, faults>>

\* Either half may fail, and the install goes on without.
RecordFails(i) ==
    /\ pc[i] \in {"saved", "recording"} /\ Fault
    /\ Goto(i, "installing")
    /\ UNCHANGED <<app, running, msi, flag, target, latest, fileVars, pageVars,
                   historyVars, launches>>

\* A deviation: only a success lets go of the flag, as before review C1.
DropLeaking(i) == UNCHANGED flag

\* The guard of an install that is given up resets the flag.
Drop(i) == flag' = FALSE

InstallFails(i) ==
    /\ pc[i] = "installing"
    /\ Drop(i) /\ CommandEnds(i)
    /\ Goto(i, "idle")
    /\ UNCHANGED <<app, running, msi, target, latest, fileVars, notice, historyVars,
                   launches, faults>>

\* The process is gone, and with it the their job and the page.
Gone ==
    /\ app' = "down" /\ flag' = FALSE 
    /\ pc' = [i \in Installer |-> "idle"] /\ target' = [i \in Installer |-> 0]
    /\ page' = "closed" /\ notice' = "none"
    /\ outcome' = "none" /\ landed' = FALSE /\ overlapped' = FALSE

\* On Windows the process exits into the installer, which may still fail.
HandsOff(i) ==
    /\ pc[i] = "installing"
    /\ disk' \in {disk, target[i]}
    /\ Gone /\ handed' = TRUE
    /\ UNCHANGED <<running, msi, latest, record, prev, unsaved, launches, faults>>

\* A deviation: the guard is dropped after the success as well.
KeepDropped(i) == flag' = FALSE

\* keep_suspended_forever.
Keep(i) == UNCHANGED flag

Afterwards(i) == IF i = Background THEN "jitter" ELSE "idle"

\* Elsewhere the install returns. The background task then waits its jitter;
\* the page says that a restart is required.
Lands(i) ==
    /\ pc[i] = "installing"
    /\ disk' = target[i] /\ landed' = TRUE
    /\ Keep(i) /\ CommandEnds(i)
    /\ Goto(i, Afterwards(i))
    /\ UNCHANGED <<app, running, msi, target, latest, record, prev, unsaved, notice,
                   outcome, handed, overlapped, launches, faults>>

JitterExpires ==
    /\ pc[Background] = "jitter"
    /\ Gone /\ handed' = TRUE
    /\ UNCHANGED <<running, msi, latest, fileVars, launches, faults>>

Install(i) ==
    \/ Check(i) \/ GateBlocks(i) \/ GatePasses(i) \/ Release(i) \/ BackUp(i)
    \/ RecordCreated(i) \/ RecordWritten(i) \/ RecordFails(i)
    \/ InstallFails(i) \/ HandsOff(i) \/ Lands(i)

-----------------------------------------------------------------------------
(* Launches.                                                               *)

\* After a mismatch the record and the copies are left in place.
Mismatch == "up"

\* check_update_outcome_on_launch, in setup: no page is mounted yet that
\* could hear of a failure.
Launch ==
    /\ app = "down" /\ launches < MaxLaunches
    /\ launches' = launches + 1
    /\ running' = disk
    /\ \/ record \in {None, Torn} /\ app' = "up" /\ UNCHANGED outcome
       \/ record \in Record /\ record.to = disk
          /\ app' = "settling" /\ outcome' = "succeeded"
       \/ record \in Record /\ record.to # disk
          /\ app' = Mismatch /\ outcome' = "failed"
    /\ UNCHANGED <<flag, pc, target, msi, latest, fileVars, pageVars, handed, landed,
                   overlapped, faults>>

\* The record and the copies of a success are removed, as far as they can be.
Settle ==
    /\ app = "settling" /\ app' = "tidying"
    /\ \/ record' = None /\ UNCHANGED faults
       \/ Fault /\ UNCHANGED record
    /\ UNCHANGED <<running, msi, flag, pc, target, latest, disk, prev, unsaved,
                   pageVars, historyVars, launches>>

Tidy ==
    /\ app = "tidying" /\ app' = "up"
    /\ \/ prev' = None /\ UNCHANGED faults
       \/ Fault /\ UNCHANGED prev
    /\ UNCHANGED <<running, msi, flag, pc, target, latest, disk, record, unsaved,
                   pageVars, historyVars, launches>>

-----------------------------------------------------------------------------
(* The surroundings.                                                       *)

\* Mounting the page forgets a command it had waited for.
PageChanges ==
    /\ app = "up"
    /\ page' = IF page = "closed" THEN "open" ELSE "closed"
    /\ notice' = "none"
    /\ UNCHANGED <<app, running, msi, flag, pc, target, latest, fileVars, historyVars,
                   launches, faults>>

Publish ==
    /\ latest < MaxVersion /\ latest' = latest + 1
    /\ UNCHANGED <<app, running, msi, flag, pc, target, fileVars, pageVars,
                   historyVars, launches, faults>>

\* The user quits, the machine goes down, the app crashes; an installer at work
\* may have done its part.
Quit ==
    /\ app # "down"
    /\ \/ UNCHANGED disk
       \/ \E i \in Installer : pc[i] = "installing" /\ disk' = target[i]
    /\ Gone /\ handed' = landed
    /\ UNCHANGED <<running, msi, latest, record, prev, unsaved, launches, faults>>

Next ==
    \/ \E i \in Installer : Install(i)
    \/ JitterExpires \/ Launch \/ Settle \/ Tidy
    \/ PageChanges \/ Publish \/ Quit

Spec == Init /\ [][Next]_vars

-----------------------------------------------------------------------------
(* Properties.                                                             *)

\* Types; nothing is under way in an app that is not up, and only the
\* background updater waits for its jitter.
TypeOK ==
    /\ app \in {"down", "settling", "tidying", "up"}
    /\ running \in Version /\ latest \in Version /\ disk \in Version
    /\ flag \in BOOLEAN /\ msi \in {"none", "first", "later"}
    /\ pc \in [Installer -> {"idle", "checked", "armed", "released", "saved",
                             "recording", "installing", "jitter"}]
    /\ \A i \in Manual : pc[i] # "jitter"
    /\ app # "up" => ~flag /\ \A i \in Installer : pc[i] = "idle"
    /\ target \in [Installer -> Version]
    /\ record \in Record \cup {None, Torn}
    /\ prev \in Version \cup {None} /\ unsaved \in BOOLEAN
    /\ page \in {"closed", "open", "busy"} /\ notice \in {"none", "blocked", "failed"}
    /\ outcome \in {"none", "succeeded", "failed"}
    /\ handed \in BOOLEAN /\ landed \in BOOLEAN /\ overlapped \in BOOLEAN
    /\ launches \in 0 .. MaxLaunches /\ faults \in 0 .. MaxFaults

\* Review C1: an install that failed, however it failed, does not leave the
\* partners without restarts for the rest of the session.
NeverStuckSuspended == flag => landed \/ \E i \in Installer : Guarded(i)

\* B7 and BUG 1/2: from the stop of the partners until the installer is through,
\* or until the restart into the new version, the restarts stay suspended. So it
\* is with one installer in a process, counting those that have landed.
Replacing(i) == Guarded(i) /\ pc[i] # "armed"

SuspendedWhileReplacing ==
    ~overlapped /\ (landed \/ \E i \in Installer : Replacing(i)) => flag

\* The same for installs that overlap: the code does not keep it.
SuspendedAlways == landed \/ (\E i \in Installer : Replacing(i)) => flag

\* What an installer replaces is in .prev at that moment, whatever earlier
\* updates, failures and exits have left there.
FallbackReady ==
    [][disk' # disk /\ ~unsaved /\ ~overlapped => prev = disk]_vars

\* Whenever a launch says that the update failed and the earlier files are
\* preserved, files are: no earlier launch has tidied them away.
FailureKeepsFiles ==
    [][outcome' = "failed" /\ outcome # "failed" /\ ~unsaved => prev # None]_vars

\* An install proceeds only over one that no MSI owns: the code does not keep it,
\* since a second entry is not looked at.
NeverOverMsi == \A i \in Installer : Guarded(i) => msi = "none"

\* A launch that announces a failed update was started by that update.
NoFalseAlarm ==
    [][app = "down" /\ outcome' = "failed" => handed]_vars

\* An update that did not take effect is surfaced to the user.
FailureIsShown == [][outcome' = "failed" /\ outcome # "failed" => notice' = "failed"]_vars
=============================================================================
