---------------------------- MODULE UpdaterProofs ----------------------------
(***************************************************************************)
(* Updater is type correct; a failed install leaves no suspension behind   *)
(* (review C1); a sole install keeps the restarts suspended until the      *)
(* installer is through or the app restarts; and what it replaces is saved *)
(* at that moment. The argument: without overlap at most one guard is      *)
(* alive, none beside an install that landed, so whoever resets the flag   *)
(* is its only owner; and between an installer's copy and its end nobody   *)
(* changes what is on disk.                                                *)
(***************************************************************************)
EXTENDS Updater, TLAPS

\* The suspension has one owner at a time, and is up for as long.
OneOwner ==
    ~overlapped =>
        /\ \A i, j \in Installer : Guarded(i) /\ Guarded(j) => i = j
        /\ landed => \A i \in Installer : ~Guarded(i)
        /\ landed \/ (\E i \in Installer : Guarded(i)) => flag

\* Past its copy, an installer has what is on disk in .prev.
Copied ==
    ~overlapped /\ ~unsaved =>
        \A i \in Installer : pc[i] \in {"saved", "recording", "installing"} => prev = disk

\* An update that did not take effect has left a copy, unless the copy failed.
Preserved ==
    /\ ~unsaved /\ prev = None =>
         /\ \A i \in Installer : pc[i] \notin {"saved", "recording", "installing"}
         /\ record \in Record => record.to = disk
    /\ app \in {"settling", "tidying"} /\ record \in Record => record.to = disk

IInv == TypeOK /\ NeverStuckSuspended /\ OneOwner /\ Copied /\ Preserved

\* The invariant holds before the first step.
LEMMA InitInv == Init => IInv
<1> SUFFICES ASSUME Init PROVE IInv
  OBVIOUS
<1> USE BoundsAssumption
<1>1. TypeOK
  <2>1. Manual \subseteq Installer /\ {MaxVersion, MaxLaunches, MaxFaults} \subseteq Nat
    BY DEF Installer
  <2>2. 0 \in Version /\ 0 \in 0 .. MaxLaunches /\ 0 \in 0 .. MaxFaults
    BY <2>1 DEF Version
  <2>. QED BY <2>1, <2>2 DEF Init, TypeOK
<1>2. NeverStuckSuspended /\ OneOwner /\ Copied /\ Preserved
  BY NoneAssumption
  DEF Init, NeverStuckSuspended, OneOwner, Copied, Preserved, Guarded, fileVars
<1>. QED BY <1>1, <1>2 DEF IInv

\* What the end of the process leaves is typed.
LEMMA GoneTyped ==
    ASSUME TypeOK, Gone,
           running' \in Version, latest' \in Version, disk' \in Version,
           UNCHANGED msi,
           record' \in Record \cup {None, Torn}, prev' \in Version \cup {None},
           unsaved' \in BOOLEAN, handed' \in BOOLEAN,
           UNCHANGED <<launches, faults>>
    PROVE  TypeOK'
<1>1. Manual \subseteq Installer /\ 0 \in Version
  BY BoundsAssumption DEF Installer, Version
<1>. QED BY <1>1 DEF TypeOK, Gone

\* TypeOK in two parts: where the installers stand, and the rest.
PlacesTyped ==
    /\ flag \in BOOLEAN
    /\ pc \in [Installer -> {"idle", "checked", "armed", "released", "saved",
                             "recording", "installing", "jitter"}]
    /\ \A i \in Manual : pc[i] # "jitter"
    /\ app # "up" => ~flag /\ \A i \in Installer : pc[i] = "idle"

RestTyped ==
    /\ app \in {"down", "settling", "tidying", "up"}
    /\ msi \in {"none", "first", "later"}
    /\ running \in Version /\ latest \in Version /\ disk \in Version
    /\ target \in [Installer -> Version]
    /\ record \in Record \cup {None, Torn}
    /\ prev \in Version \cup {None} /\ unsaved \in BOOLEAN
    /\ page \in {"closed", "open", "busy"} /\ notice \in {"none", "blocked", "failed"}
    /\ outcome \in {"none", "succeeded", "failed"}
    /\ handed \in BOOLEAN /\ landed \in BOOLEAN /\ overlapped \in BOOLEAN
    /\ launches \in 0 .. MaxLaunches /\ faults \in 0 .. MaxFaults

\* The installs of the Updates page are not the background task's.
LEMMA ManualApart == Manual \subseteq Installer /\ Background \notin Manual
BY BackgroundAssumption DEF Installer

\* An installer's step leaves it at a proper place of an app that is up.
LEMMA MoveTyped ==
    ASSUME PlacesTyped, NEW i \in Installer, NEW place, Goto(i, place),
           place \in {"idle", "checked", "armed", "released", "saved", "recording",
                     "installing"} \/ (place = "jitter" /\ i = Background),
           pc[i] # "idle" \/ app = "up",
           flag' \in BOOLEAN, UNCHANGED app
    PROVE  PlacesTyped'
<1>1. Manual \subseteq Installer /\ Background \notin Manual
  BY ManualApart
<1>2. app = "up"
  BY DEF PlacesTyped
<1>3. pc' \in [Installer -> {"idle", "checked", "armed", "released", "saved",
                             "recording", "installing", "jitter"}]
  BY DEF PlacesTyped, Goto
<1>4. ASSUME NEW j \in Manual PROVE pc'[j] # "jitter"
  BY <1>1, <1>4 DEF PlacesTyped, Goto
<1>. QED BY <1>2, <1>3, <1>4 DEF PlacesTyped

\* Every step keeps the types.
LEMMA NextTypes == TypeOK /\ [Next]_vars => TypeOK'
<1> SUFFICES ASSUME TypeOK, [Next]_vars PROVE TypeOK'
  OBVIOUS
<1> USE DEF fileVars, pageVars, historyVars, Fault
<1>0. PlacesTyped /\ RestTyped
  BY DEF TypeOK, PlacesTyped, RestTyped
<1>1. ASSUME NEW i \in Installer, Check(i) PROVE TypeOK'
  <2>1. PlacesTyped'
    BY <1>0, <1>1, MoveTyped DEF Check, PlacesTyped
  <2>2. RestTyped'
    BY <1>0, <1>1 DEF Check, RestTyped
  <2>. QED BY <2>1, <2>2 DEF TypeOK, PlacesTyped, RestTyped
<1>2. ASSUME NEW i \in Installer, GateBlocks(i) PROVE TypeOK'
  <2>1. PlacesTyped'
    BY <1>0, <1>2, MoveTyped DEF GateBlocks, PlacesTyped
  <2>2. RestTyped'
    BY <1>0, <1>2 DEF GateBlocks, RestTyped
  <2>. QED BY <2>1, <2>2 DEF TypeOK, PlacesTyped, RestTyped
<1>3. ASSUME NEW i \in Installer, GatePasses(i) PROVE TypeOK'
  <2>1. PlacesTyped'
    BY <1>0, <1>3, MoveTyped DEF GatePasses, PlacesTyped
  <2>2. RestTyped'
    BY <1>0, <1>3 DEF GatePasses, RestTyped
  <2>. QED BY <2>1, <2>2 DEF TypeOK, PlacesTyped, RestTyped
<1>4. ASSUME NEW i \in Installer, Release(i) PROVE TypeOK'
  <2>1. PlacesTyped'
    BY <1>0, <1>4, MoveTyped DEF Release, PlacesTyped
  <2>2. RestTyped'
    BY <1>0, <1>4 DEF Release, RestTyped
  <2>. QED BY <2>1, <2>2 DEF TypeOK, PlacesTyped, RestTyped
<1>5. ASSUME NEW i \in Installer, BackUp(i) PROVE TypeOK'
  <2>1. PlacesTyped'
    BY <1>0, <1>5, MoveTyped DEF BackUp, PlacesTyped
  <2>2. prev' \in Version \cup {None} /\ unsaved' \in BOOLEAN
                                       /\ faults' \in 0 .. MaxFaults
    <3>1. CASE Save(i) /\ unsaved' = FALSE /\ UNCHANGED faults
      BY <1>0, <3>1 DEF RestTyped, Save
    <3>2. CASE Fault /\ unsaved' = TRUE /\ UNCHANGED prev
      BY <1>0, <3>2, BoundsAssumption DEF RestTyped
    <3>. QED BY <1>5, <3>1, <3>2 DEF BackUp
  <2>3. RestTyped'
    BY <1>0, <1>5, <2>2 DEF BackUp, RestTyped
  <2>. QED BY <2>1, <2>3 DEF TypeOK, PlacesTyped, RestTyped
<1>6. ASSUME NEW i \in Installer, RecordCreated(i) PROVE TypeOK'
  <2>1. PlacesTyped'
    BY <1>0, <1>6, MoveTyped DEF RecordCreated, PlacesTyped
  <2>2. RestTyped'
    BY <1>0, <1>6 DEF RecordCreated, RestTyped
  <2>. QED BY <2>1, <2>2 DEF TypeOK, PlacesTyped, RestTyped
<1>7. ASSUME NEW i \in Installer, RecordWritten(i) PROVE TypeOK'
  <2>1. PlacesTyped'
    BY <1>0, <1>7, MoveTyped DEF RecordWritten, PlacesTyped
  <2>2. RestTyped'
    BY <1>0, <1>7 DEF RecordWritten, RestTyped, Record
  <2>. QED BY <2>1, <2>2 DEF TypeOK, PlacesTyped, RestTyped
<1>8. ASSUME NEW i \in Installer, RecordFails(i) PROVE TypeOK'
  <2>1. PlacesTyped'
    BY <1>0, <1>8, MoveTyped DEF RecordFails, PlacesTyped
  <2>2. RestTyped'
    BY <1>0, <1>8, BoundsAssumption DEF RecordFails, RestTyped
  <2>. QED BY <2>1, <2>2 DEF TypeOK, PlacesTyped, RestTyped
<1>9. ASSUME NEW i \in Installer, InstallFails(i) PROVE TypeOK'
  <2>1. PlacesTyped'
    BY <1>0, <1>9, MoveTyped DEF InstallFails, PlacesTyped, Drop
  <2>2. RestTyped'
    BY <1>0, <1>9 DEF InstallFails, RestTyped, CommandEnds
  <2>. QED BY <2>1, <2>2 DEF TypeOK, PlacesTyped, RestTyped
<1>10. ASSUME NEW i \in Installer, HandsOff(i) PROVE TypeOK'
  <2>1. disk' \in Version
    BY <1>10 DEF HandsOff, TypeOK
  <2>. QED BY <1>10, <2>1, GoneTyped DEF TypeOK, HandsOff
<1>11. ASSUME NEW i \in Installer, Lands(i) PROVE TypeOK'
  <2>1. PlacesTyped'
    <3>1. Afterwards(i) = "idle" \/ (Afterwards(i) = "jitter" /\ i = Background)
      BY DEF Afterwards
    <3>2. /\ Goto(i, Afterwards(i)) /\ pc[i] # "idle"
          /\ flag' \in BOOLEAN /\ UNCHANGED app
      BY <1>0, <1>11 DEF Lands, PlacesTyped, Keep
    <3>. QED BY <1>0, <3>1, <3>2, MoveTyped
  <2>2. RestTyped'
    BY <1>0, <1>11 DEF Lands, RestTyped, CommandEnds
  <2>. QED BY <2>1, <2>2 DEF TypeOK, PlacesTyped, RestTyped
<1>12. CASE JitterExpires
  BY <1>12, GoneTyped DEF TypeOK, JitterExpires
<1>13. CASE Launch
  BY BoundsAssumption, <1>13 DEF TypeOK, Launch, Mismatch
<1>14. CASE Settle
  BY BoundsAssumption, <1>14 DEF TypeOK, Settle
<1>15. CASE Tidy
  BY BoundsAssumption, <1>15 DEF TypeOK, Tidy
<1>16. CASE PageChanges
  BY <1>16 DEF TypeOK, PageChanges
<1>17. CASE Publish
  BY BoundsAssumption, <1>17 DEF TypeOK, Publish, Version
<1>18. CASE Quit
  <2>1. disk' \in Version
    BY <1>18 DEF Quit, TypeOK
  <2>. QED BY <1>18, <2>1, GoneTyped DEF TypeOK, Quit
<1>19. CASE UNCHANGED vars
  BY <1>19 DEF TypeOK, vars
<1>. QED
  BY <1>1, <1>2, <1>3, <1>4, <1>5, <1>6, <1>7, <1>8, <1>9, <1>10, <1>11, <1>12,
     <1>13, <1>14, <1>15, <1>16, <1>17, <1>18, <1>19 DEF Next, Install

\* What the three other parts say, once.
Owned == NeverStuckSuspended /\ OneOwner /\ Copied

\* With no installer at work and no flag, they hold.
LEMMA GoneOwned == ASSUME Gone PROVE Owned'
BY DEF Gone, Owned, NeverStuckSuspended, OneOwner, Copied, Guarded

\* A step of an installer that keeps its guard, and touches neither the flag,
\* what is on disk nor its copy, keeps them; so does one that has no guard.
LEMMA PassingOwned ==
    ASSUME TypeOK, Owned, NEW i \in Installer, NEW place, Goto(i, place),
           \/ Guarded(i) /\ place \in {"armed", "released", "saved", "recording", "installing"}
           \/ ~Guarded(i) /\ place \in {"idle", "checked", "jitter"},
           place \in {"saved", "recording", "installing"}
               => pc[i] \in {"saved", "recording", "installing"},
           UNCHANGED <<flag, disk, prev, unsaved, landed, overlapped>>
    PROVE  Owned'
<1>1. pc \in [Installer -> {"idle", "checked", "armed", "released", "saved",
                            "recording", "installing", "jitter"}]
  BY DEF TypeOK
<1>2. \A j \in Installer : Guarded(j)' <=> Guarded(j)
  BY <1>1 DEF Goto, Guarded
<1>3. NeverStuckSuspended' /\ OneOwner'
  BY <1>2 DEF Owned, NeverStuckSuspended, OneOwner
<1>4. Copied'
  BY <1>1 DEF Owned, Copied, Goto
<1>. QED BY <1>3, <1>4 DEF Owned

\* Every step keeps them.
LEMMA NextOwned == TypeOK /\ Owned /\ [Next]_vars => Owned'
<1> SUFFICES ASSUME TypeOK, Owned, [Next]_vars PROVE Owned'
  OBVIOUS
<1> USE DEF fileVars, pageVars, historyVars
<1>0. pc \in [Installer -> {"idle", "checked", "armed", "released", "saved",
                            "recording", "installing", "jitter"}]
  BY DEF TypeOK
<1>1. ASSUME NEW i \in Installer, Check(i) PROVE Owned'
  BY <1>1, PassingOwned DEF Check, Guarded
<1>2. ASSUME NEW i \in Installer, GateBlocks(i) PROVE Owned'
  BY <1>2, PassingOwned DEF GateBlocks, Guarded
<1>3. ASSUME NEW i \in Installer, GatePasses(i) PROVE Owned'
  <2>1. \A j \in Installer : Guarded(j)' <=> Guarded(j) \/ j = i
    BY <1>0, <1>3 DEF GatePasses, Goto, Guarded
  <2>2. NeverStuckSuspended' /\ OneOwner'
    BY <1>3, <2>1 DEF GatePasses, NeverStuckSuspended, OneOwner
  <2>3. Copied'
    BY <1>0, <1>3 DEF GatePasses, Goto, Owned, Copied
  <2>. QED BY <2>2, <2>3 DEF Owned
<1>4. ASSUME NEW i \in Installer, Release(i) PROVE Owned'
  BY <1>4, PassingOwned DEF Release, Guarded
<1>5. ASSUME NEW i \in Installer, BackUp(i) PROVE Owned'
  <2>1. \A j \in Installer : Guarded(j)' <=> Guarded(j)
    BY <1>0, <1>5 DEF BackUp, Goto, Guarded
  <2>2. NeverStuckSuspended' /\ OneOwner'
    BY <1>5, <2>1 DEF BackUp, Owned, NeverStuckSuspended, OneOwner
  <2>3. Copied'
    BY <1>0, <1>5 DEF BackUp, Save, Copied
  <2>. QED BY <2>2, <2>3 DEF Owned
<1>6. ASSUME NEW i \in Installer, RecordCreated(i) PROVE Owned'
  BY <1>6, PassingOwned DEF RecordCreated, Guarded
<1>7. ASSUME NEW i \in Installer, RecordWritten(i) PROVE Owned'
  BY <1>7, PassingOwned DEF RecordWritten, Guarded
<1>8. ASSUME NEW i \in Installer, RecordFails(i) PROVE Owned'
  BY <1>8, PassingOwned DEF RecordFails, Guarded
<1>9. ASSUME NEW i \in Installer, InstallFails(i) PROVE Owned'
  <2>1. \A j \in Installer : Guarded(j)' <=> Guarded(j) /\ j # i
    BY <1>0, <1>9 DEF InstallFails, Goto, Guarded
  <2>2. Guarded(i) /\ flag' = FALSE
    BY <1>9 DEF InstallFails, Drop, Guarded
  <2>3. NeverStuckSuspended' /\ OneOwner'
    BY <1>9, <2>1, <2>2 DEF InstallFails, Owned, NeverStuckSuspended, OneOwner
  <2>4. Copied'
    BY <1>0, <1>9 DEF InstallFails, Goto, Owned, Copied
  <2>. QED BY <2>3, <2>4 DEF Owned
<1>10. ASSUME NEW i \in Installer, HandsOff(i) PROVE Owned'
  BY <1>10, GoneOwned DEF HandsOff
<1>11. ASSUME NEW i \in Installer, Lands(i) PROVE Owned'
  <2>1. \A j \in Installer : Guarded(j)' <=> Guarded(j) /\ j # i
    BY <1>0, <1>11 DEF Lands, Goto, Guarded, Afterwards
  <2>2. Guarded(i) /\ landed' = TRUE /\ flag' = flag
    BY <1>11 DEF Lands, Keep, Guarded
  <2>3. NeverStuckSuspended' /\ OneOwner'
    BY <1>11, <2>1, <2>2 DEF Lands, Owned, NeverStuckSuspended, OneOwner
  <2>4. ASSUME NEW j \in Installer, ~overlapped,
               pc'[j] \in {"saved", "recording", "installing"}
        PROVE  FALSE
    BY <2>1, <2>2, <2>4 DEF Owned, OneOwner, Guarded
  <2>5. Copied'
    BY <1>11, <2>4 DEF Lands, Copied
  <2>. QED BY <2>3, <2>5 DEF Owned
<1>12. CASE JitterExpires
  BY <1>12, GoneOwned DEF JitterExpires
<1>13. CASE Launch
  BY <1>13 DEF Launch, Owned, NeverStuckSuspended, OneOwner, Copied, Guarded
<1>14. CASE Settle
  BY <1>14 DEF Settle, Owned, NeverStuckSuspended, OneOwner, Copied, Guarded
<1>15. CASE Tidy
  <2>1. \A i \in Installer : pc'[i] = "idle"
    BY <1>15 DEF Tidy, TypeOK
  <2>. QED
    BY <1>15, <2>1 DEF Tidy, Owned, NeverStuckSuspended, OneOwner, Copied, Guarded
<1>16. CASE PageChanges
  BY <1>16 DEF PageChanges, Owned, NeverStuckSuspended, OneOwner, Copied, Guarded
<1>17. CASE Publish
  BY <1>17 DEF Publish, Owned, NeverStuckSuspended, OneOwner, Copied, Guarded
<1>18. CASE Quit
  BY <1>18, GoneOwned DEF Quit
<1>19. CASE UNCHANGED vars
  BY <1>19 DEF vars, Owned, NeverStuckSuspended, OneOwner, Copied, Guarded
<1>. QED
  BY <1>1, <1>2, <1>3, <1>4, <1>5, <1>6, <1>7, <1>8, <1>9, <1>10, <1>11, <1>12,
     <1>13, <1>14, <1>15, <1>16, <1>17, <1>18, <1>19 DEF Next, Install

\* Every step keeps that, too.
LEMMA NextPreserved == TypeOK /\ Preserved /\ [Next]_vars => Preserved'
<1> SUFFICES ASSUME TypeOK, Preserved, [Next]_vars PROVE Preserved'
  OBVIOUS
<1> USE DEF fileVars, pageVars, historyVars
<1>0. /\ pc \in [Installer -> {"idle", "checked", "armed", "released", "saved",
                               "recording", "installing", "jitter"}]
      /\ app # "up" => \A i \in Installer : pc[i] = "idle"
      /\ disk # None /\ Torn \notin Record /\ None \notin Record
  BY NoneAssumption DEF TypeOK, Version
<1>1. ASSUME NEW i \in Installer, Install(i), ~HandsOff(i) PROVE Preserved'
  <2>1. CASE Check(i) \/ GateBlocks(i) \/ GatePasses(i) \/ Release(i)
    BY <1>0, <2>1 DEF Preserved, Check, GateBlocks, GatePasses, Release, Goto
  <2>2. CASE BackUp(i)
    BY <1>0, <2>2 DEF Preserved, BackUp, Save
  <2>3. CASE RecordCreated(i) \/ RecordWritten(i) \/ RecordFails(i)
    BY <1>0, <2>3 DEF Preserved, RecordCreated, RecordWritten, RecordFails, Goto
  <2>4. CASE InstallFails(i) \/ Lands(i)
    BY <1>0, <2>4 DEF Preserved, InstallFails, Lands, Goto, Afterwards
  <2>. QED BY <1>1, <2>1, <2>2, <2>3, <2>4 DEF Install
<1>2. CASE (\E i \in Installer : HandsOff(i)) \/ JitterExpires \/ Quit
  BY <1>0, <1>2 DEF Preserved, HandsOff, JitterExpires, Quit, Gone
<1>3. CASE Launch
  BY <1>0, <1>3 DEF Preserved, Launch, Mismatch
<1>4. CASE Settle
  BY <1>0, <1>4 DEF Preserved, Settle
<1>5. CASE Tidy
  BY <1>0, <1>5 DEF Preserved, Tidy
<1>6. CASE PageChanges \/ Publish \/ UNCHANGED vars
  BY <1>0, <1>6 DEF Preserved, PageChanges, Publish, vars
<1>. QED BY <1>1, <1>2, <1>3, <1>4, <1>5, <1>6 DEF Next

\* Every step keeps the invariant.
LEMMA NextInv == IInv /\ [Next]_vars => IInv'
BY NextTypes, NextOwned, NextPreserved DEF IInv, Owned

\* The invariant holds throughout.
LEMMA Inductive == Spec => []IInv
<1>. QED BY InitInv, NextInv, PTL DEF Spec

\* Types, at every moment of every behaviour.
THEOREM TypeCorrect == Spec => []TypeOK
<1>1. IInv => TypeOK
  BY DEF IInv
<1>. QED BY Inductive, <1>1, PTL

\* Review C1: whenever the restarts are suspended, an install is under way or
\* has landed, for any number of installers, failures and launches.
THEOREM NoStuckSuspension == Spec => []NeverStuckSuspended
<1>1. IInv => NeverStuckSuspended
  BY DEF IInv
<1>. QED BY Inductive, <1>1, PTL

\* B7: an install that shares its process with no other keeps the restarts
\* suspended from its stop of the partners to its end, and having landed, to the
\* end of the process.
THEOREM SuspensionHolds == Spec => []SuspendedWhileReplacing
<1>1. IInv => SuspendedWhileReplacing
  BY DEF IInv, OneOwner, SuspendedWhileReplacing, Replacing
<1>. QED BY Inductive, <1>1, PTL

\* Whenever an installer replaces what is on disk, and its copy succeeded, .prev
\* holds what is replaced, whatever earlier updates have left there.
THEOREM FallbackSaved == Spec => FallbackReady
<1> DEFINE Ready == disk' # disk /\ ~unsaved /\ ~overlapped => prev = disk
<1>1. ASSUME IInv, [Next]_vars PROVE [Ready]_vars
  <2> SUFFICES ASSUME disk' # disk, ~unsaved, ~overlapped PROVE prev = disk
    OBVIOUS
  <2>1. \E i \in Installer : pc[i] = "installing"
    BY <1>1 DEF Next, Install, vars, fileVars, pageVars, historyVars, Check, GateBlocks,
       GatePasses, Release, BackUp, RecordCreated, RecordWritten, RecordFails,
       InstallFails, HandsOff, Lands, JitterExpires, Launch, Settle, Tidy, PageChanges,
       Publish, Quit
  <2>. QED BY <1>1, <2>1 DEF IInv, Copied
<1>. QED BY Inductive, <1>1, PTL DEF Spec, FallbackReady

\* Whenever a launch says that the update failed, the earlier files it speaks of
\* are there, whichever launches and failed removals lie between.
THEOREM FailureFiles == Spec => FailureKeepsFiles
<1> DEFINE Kept == outcome' = "failed" /\ outcome # "failed" /\ ~unsaved => prev # None
<1>1. ASSUME IInv, [Next]_vars PROVE [Kept]_vars
  <2> SUFFICES ASSUME outcome' = "failed", outcome # "failed", ~unsaved PROVE prev # None
    OBVIOUS
  <2>1. Launch /\ record \in Record /\ record.to # disk
    BY <1>1 DEF Next, Install, vars, fileVars, pageVars, historyVars, Check, GateBlocks,
       GatePasses, Release, BackUp, RecordCreated, RecordWritten, RecordFails,
       InstallFails, HandsOff, Lands, JitterExpires, Launch, Settle, Tidy, PageChanges,
       Publish, Quit, Gone
  <2>. QED BY <1>1, <2>1 DEF IInv, Preserved
<1>. QED BY Inductive, <1>1, PTL DEF Spec, FailureKeepsFiles
=============================================================================
