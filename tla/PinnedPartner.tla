--------------------------- MODULE PinnedPartner ---------------------------
(***************************************************************************)
(* A native partner whose files are pinned to a digest: Titan (titan.rs,   *)
(* two files out of an archive), MystNodes and Iagon (mysterium.rs,        *)
(* iagon.rs, one file downloaded straight to its place).  A start checks   *)
(* the files, repairs them when they do not match - quarantine, install,   *)
(* second check - and only then runs them.  Toggles, restarts and the      *)
(* recovery pass may be at it at the same time, over the same file names.  *)
(***************************************************************************)
EXTENDS FiniteSets

CONSTANTS Callers,
          Parts,        \* the pinned files
          Exe,          \* the one that is run
          Archive       \* the files come in an archive

VARIABLES
    file,       \* the pinned files, as they are on disk
    part,       \* the ".part" file of a download, one name for all callers
    archive,    \* the downloaded archive
    extracted,  \* the directory the archive is extracted to
    at,         \* per caller, its next step
    why,        \* per caller, what an install is for
    running,    \* the files the partner was started from
    raced       \* callers under whose checked files somebody wrote (history)

vars == <<file, part, archive, extracted, at, why, running, raced>>

Content == {"none", "good", "bad"}

TypeOK ==
    /\ file \in [Parts -> Content]
    /\ part \in Content /\ archive \in Content
    /\ extracted \in [Parts -> Content]
    /\ at \in [Callers -> {"idle", "check", "quarantine", "install", "download",
                           "place", "verify", "extract", "move", "rest",
                           "finish", "recheck", "spawn"}]
    /\ why \in [Callers -> {"start", "toggle"}]
    /\ running \in Content \cup {"partial"} /\ raced \subseteq Callers

Init ==
    /\ file = [p \in Parts |-> "none"]
    /\ part = "none" /\ archive = "none"
    /\ extracted = [p \in Parts |-> "none"]
    /\ at = [c \in Callers |-> "idle"]
    /\ why = [c \in Callers |-> "toggle"]
    /\ running = "none" /\ raced = {}

Present == {p \in Parts : file[p] # "none"}
Unverified == {p \in Parts : file[p] # "good"}

\* install_is_complete looks for the files only; a single file is hashed.
Installed == IF Archive THEN Present = Parts ELSE Unverified = {}

Nowhere == [p \in Parts |-> "none"]
Without(gone) == [p \in Parts |-> IF p \in gone THEN "none" ELSE file[p]]

\* Whoever has checked the files and not yet run them has checked others.
Write(files) ==
    /\ file' = files
    /\ raced' = IF files = file THEN raced ELSE {c \in Callers : at[c] = "spawn"}

Goto(c, step) == at' = [at EXCEPT ![c] = step]
Installs(c) == Goto(c, IF why[c] = "start" THEN "recheck" ELSE "idle")

Start(c) ==
    /\ at[c] = "idle" /\ file[Exe] # "none"
    /\ Goto(c, "check")
    /\ why' = [why EXCEPT ![c] = "start"]
    /\ UNCHANGED <<file, part, archive, extracted, running, raced>>

Install(c) ==
    /\ at[c] = "idle"
    /\ Goto(c, "install")
    /\ why' = [why EXCEPT ![c] = "toggle"]
    /\ UNCHANGED <<file, part, archive, extracted, running, raced>>

\* unverified_pinned_files, verify_binary, staged_binary_matches_pin
Check(c) ==
    /\ at[c] = "check"
    /\ Goto(c, IF Unverified = {} THEN "spawn" ELSE "quarantine")
    /\ UNCHANGED <<file, part, archive, extracted, why, running, raced>>

\* Every pinned file is moved aside, the good ones too; a rename may fail.
Quarantine(c) ==
    /\ at[c] = "quarantine"
    /\ \E gone \in SUBSET Present : Write(Without(gone))
    /\ Goto(c, "install")
    /\ UNCHANGED <<part, archive, extracted, why, running>>

AlreadyInstalled(c) ==
    /\ at[c] = "install" /\ Installed
    /\ Installs(c)
    /\ UNCHANGED <<file, part, archive, extracted, why, running, raced>>

\* What is left of an earlier install goes first, as far as it can.
BeginInstall(c) ==
    /\ at[c] = "install" /\ ~Installed
    /\ \E gone \in SUBSET (Present \cap {Exe}) : Write(Without(gone))
    /\ IF Archive THEN archive' = "none" /\ extracted' = Nowhere
                  ELSE UNCHANGED <<archive, extracted>>
    /\ Goto(c, "download")
    /\ UNCHANGED <<part, why, running>>

\* stream_to_file: what arrives may not be what is pinned.
Download(c) ==
    /\ at[c] = "download"
    /\ part' \in {"good", "bad"}
    /\ Goto(c, "place")
    /\ UNCHANGED <<file, archive, extracted, why, running, raced>>

\* The old file is removed, the part renamed over it - unless another
\* caller has renamed that part already.
Place(c) ==
    /\ at[c] = "place"
    /\ IF Archive THEN archive' = part /\ UNCHANGED <<file, raced>>
                  ELSE Write([file EXCEPT ![Exe] = part]) /\ UNCHANGED archive
    /\ part' = "none"
    /\ Goto(c, IF part = "none" THEN "idle" ELSE "verify")
    /\ UNCHANGED <<extracted, why, running>>

VerifyArchive(c) ==
    /\ at[c] = "verify" /\ Archive
    /\ archive' = IF archive = "good" THEN archive ELSE "none"
    /\ Goto(c, IF archive = "good" THEN "extract" ELSE "idle")
    /\ UNCHANGED <<file, part, extracted, why, running, raced>>

VerifyFile(c) ==
    /\ at[c] = "verify" /\ ~Archive
    /\ \/ Unverified = {} /\ Installs(c) /\ UNCHANGED <<file, raced>>
       \/ /\ Unverified # {}
          /\ \E gone \in SUBSET Present : Write(Without(gone))
          /\ Goto(c, "idle")
    /\ UNCHANGED <<part, archive, extracted, why, running>>

\* tar reads the archive again, whatever it is by now.
Extract(c) ==
    /\ at[c] = "extract" /\ archive # "none"
    /\ extracted' = [p \in Parts |-> archive]
    /\ Goto(c, "move")
    /\ UNCHANGED <<file, part, archive, why, running, raced>>

Moved(ps) == [p \in Parts |-> IF p \in ps /\ extracted[p] # "none"
                              THEN extracted[p] ELSE file[p]]

MoveExe(c) ==
    /\ at[c] = "move"
    /\ Write(Moved({Exe}))
    /\ extracted' = [extracted EXCEPT ![Exe] = "none"]
    /\ Goto(c, "rest")
    /\ UNCHANGED <<part, archive, why, running>>

MoveRest(c) ==
    /\ at[c] = "rest"
    /\ Write(Moved(Parts \ {Exe}))
    /\ extracted' = Nowhere
    /\ archive' = "none"
    /\ Goto(c, "finish")
    /\ UNCHANGED <<part, why, running>>

Finish(c) ==
    /\ at[c] = "finish"
    /\ IF Installed THEN Installs(c) ELSE Goto(c, "idle")
    /\ UNCHANGED <<file, part, archive, extracted, why, running, raced>>

\* a download that fails three times, a tar or a rename that fails
Fails(c) ==
    /\ at[c] \in {"download", "extract", "move", "rest"}
    /\ Goto(c, "idle")
    /\ UNCHANGED <<file, part, archive, extracted, why, running, raced>>

\* A deviation the runs must notice: a start trusts what its install left.
RecheckNothing(c) ==
    /\ at[c] = "recheck"
    /\ Goto(c, "spawn")
    /\ UNCHANGED <<file, part, archive, extracted, why, running, raced>>

Recheck(c) ==
    /\ at[c] = "recheck"
    /\ Goto(c, IF Unverified = {} THEN "spawn" ELSE "idle")
    /\ UNCHANGED <<file, part, archive, extracted, why, running, raced>>

\* start_integration; it skips what runs already, and fails without a file.
Spawn(c) ==
    /\ at[c] = "spawn"
    /\ running' = IF running # "none" \/ file[Exe] = "none" THEN running
                  ELSE IF \E p \in Parts : file[p] = "bad" THEN "bad"
                  ELSE IF Present = Parts THEN "good" ELSE "partial"
    /\ raced' = raced \ {c}
    /\ Goto(c, "idle")
    /\ UNCHANGED <<file, part, archive, extracted, why>>

Stop ==
    /\ running # "none"
    /\ running' = "none"
    /\ UNCHANGED <<file, part, archive, extracted, at, why, raced>>

\* A file is damaged, at any moment.
Damaged(p) ==
    /\ file[p] = "good"
    /\ Write([file EXCEPT ![p] = "bad"])
    /\ UNCHANGED <<part, archive, extracted, at, why, running>>

Next ==
    \/ \E c \in Callers :
          \/ Start(c) \/ Install(c) \/ Check(c) \/ Quarantine(c)
          \/ AlreadyInstalled(c) \/ BeginInstall(c) \/ Download(c) \/ Place(c)
          \/ VerifyArchive(c) \/ VerifyFile(c) \/ Extract(c) \/ MoveExe(c)
          \/ MoveRest(c) \/ Finish(c) \/ Fails(c) \/ Recheck(c) \/ Spawn(c)
    \/ Stop
    \/ \E p \in Parts : Damaged(p)

Spec == Init /\ [][Next]_vars

-----------------------------------------------------------------------------
(***************************************************************************)
(* What a start runs it has found to match its pinned digests, after all   *)
(* of its own repairs: whatever downloads brought, whichever renames       *)
(* failed and whoever else is at the same names, bad files are run only    *)
(* where somebody wrote to them after that check and before the spawn      *)
(* (titan.rs 828-861, mysterium.rs 374-451, iagon.rs 220-239).             *)
(***************************************************************************)
OnlyCheckedFilesRun ==
    [][running # "bad" /\ running' = "bad" =>
         \E c \in raced : at[c] = "spawn" /\ at'[c] = "idle"]_vars

(***************************************************************************)
(* iagon.rs 229: verified against the pin before every spawn.  Violated:   *)
(* between the two there are awaits, in which another call's download or   *)
(* any damage changes the files.                                           *)
(***************************************************************************)
OnlyPinnedFilesRun == running # "bad"

(***************************************************************************)
(* Nor is a part of them: the executable without the files it needs.       *)
(***************************************************************************)
NeverInPart == running # "partial"
=============================================================================
