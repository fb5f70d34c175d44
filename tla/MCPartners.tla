----------------------------- MODULE MCPartners -----------------------------
(***************************************************************************)
(* The partners for TLC.  They share no state and do not interact, so one  *)
(* behaviour is that of one of them, picked at first; what they share with *)
(* the rest of FEM is inside each module.  PinnedPartner is checked twice: *)
(* as titan, whose files come in an archive, and as mysterium and iagon,   *)
(* which are a single file each.                                           *)
(***************************************************************************)
EXTENDS Integers, Sequences, FiniteSets, TLC

CONSTANTS Partners,                                 \* the parts a run is about
          Callers, Pair, Trio,                      \* one caller, two and three
          Keys, Pins, MaxImages, MaxAttempts, Cap, Unreadable,  \* Diiisco
          MaxNow, MaxEntries, MaxTorn, Retention,               \* PawnsConsent
          Files, Exe,                                           \* PinnedPartner
          MaxEngineChanges, MaxSpawns, MaxChanges, None

\* The variables of all of them; those that a part does not have stay None.
VARIABLES part,
    pin, disk, built, proved, call, run, stopping, damaged,
    now, root, log, ended, legacy, rotation, env, engine, agent, enabled, start, ui,
    decided,
    known, path, virt, cli, spent, gate, ask, missed,
    sup, farm, configured, gesture, holds, gone, clicked, prompts,
    alive, config, optedOut, new, stale, told,
    download, archive, extracted, why, running, raced,
    docker, file, at, changes, child, spawned, installed, on, op, behind, overtaken

D == INSTANCE Diiisco
C == INSTANCE PawnsConsent
E == INSTANCE DockerEngine WITH Callers <- Pair, MaxChanges <- MaxEngineChanges
A == INSTANCE SpaceAcres WITH Callers <- Pair
O == INSTANCE Olostep WITH Callers <- Pair
T == INSTANCE PinnedPartner WITH Callers <- Trio, Parts <- Files,
                                 Archive <- TRUE, part <- download
M == INSTANCE PinnedPartner WITH Callers <- Trio, Parts <- {Exe},
                                 Archive <- FALSE, part <- download

Pinned == {"titan", "mysterium"}
Apps == {"space_acres", "aem"}

ASSUME PartnersAssumption ==
    Partners \subseteq {"diiisco", "pawns", "engine"} \cup Apps \cup Pinned

ASSUME DiiiscoAssumption ==
    /\ MaxImages \in Nat \ {0} /\ 1 \in Pins
    /\ None \notin D!Images /\ None \notin D!Target

ASSUME AppsAssumption ==
    /\ MaxSpawns \in Nat /\ None \notin A!Instances \cup O!Instances

ASSUME PawnsAssumption == MaxNow \in Nat

ASSUME EngineAssumption == IsFiniteSet(Pair) /\ None \notin {"docker", "copy"}

ASSUME PinnedAssumption == Exe \in Files

ofDiiisco == <<pin, disk, built, proved, call, run, stopping, damaged>>
ofPawns == <<now, root, log, ended, legacy, rotation, env, engine, agent, enabled,
             start, ui, decided>>
ofEngine == <<known, path, virt, cli, spent, gate, ask, missed>>
ofSpaceAcres == <<sup, farm, configured, gesture, holds, gone, clicked, prompts>>
ofAem == <<alive, config, optedOut, new, stale, told>>
ofPinned == <<download, archive, extracted, why, running, raced>>
ofCards == <<child, spawned, installed, on, op, behind, overtaken>>

notDiiisco == <<part, ofPawns, ofEngine, ofSpaceAcres, ofAem, ofPinned, ofCards,
                file, changes>>
notPawns == <<part, ofDiiisco, ofEngine, ofSpaceAcres, ofAem, ofPinned, ofCards,
              docker, file, at, changes>>
notEngine == <<part, ofDiiisco, ofPawns, ofSpaceAcres, ofAem, ofPinned, ofCards>>
notSpaceAcres == <<part, ofDiiisco, ofPawns, ofEngine, ofAem, ofPinned,
                   docker, file>>
notAem == <<part, ofDiiisco, ofPawns, ofEngine, ofSpaceAcres, ofPinned,
            docker, file>>
notPinned == <<part, ofDiiisco, ofPawns, ofEngine, ofSpaceAcres, ofAem, ofCards,
               docker, changes>>

vars == <<part, ofDiiisco, ofPawns, ofEngine, ofSpaceAcres, ofAem, ofPinned, ofCards,
          docker, file, at, changes>>

Init ==
    /\ part \in Partners
    /\ IF part = "diiisco" THEN D!Init
       ELSE /\ pin = None /\ disk = None /\ built = None /\ proved = None
            /\ call = None /\ run = None /\ stopping = None /\ damaged = None
    /\ IF part = "pawns" THEN C!Init
       ELSE /\ now = None /\ root = None /\ log = None /\ legacy = None
            /\ rotation = None /\ env = None /\ engine = None /\ agent = None
            /\ ended = None /\ enabled = None /\ start = None /\ ui = None /\ decided = None
    /\ IF part = "engine" THEN E!Init
       ELSE /\ known = None /\ path = None /\ virt = None /\ cli = None
            /\ spent = None /\ gate = None /\ ask = None /\ missed = None
    /\ IF part = "space_acres" THEN A!Init
       ELSE /\ sup = None /\ farm = None /\ configured = None /\ gesture = None
            /\ holds = None /\ gone = None /\ clicked = None /\ prompts = None
    /\ IF part = "aem" THEN O!Init
       ELSE /\ alive = None /\ config = None /\ optedOut = None
            /\ new = None /\ stale = None /\ told = None
    /\ CASE part = "titan" -> T!Init
         [] part = "mysterium" -> M!Init
         [] OTHER -> download = None /\ archive = None /\ extracted = None
                     /\ why = None /\ running = None /\ raced = None
    /\ part \notin {"diiisco", "engine"} => docker = None
    /\ part \notin {"engine"} \cup Pinned => file = None
    /\ part = "pawns" => at = None
    /\ part \in {"diiisco", "pawns"} \cup Pinned => changes = None
    /\ part \notin Apps =>
          /\ child = None /\ spawned = None /\ installed = None /\ on = None
          /\ op = None /\ behind = None /\ overtaken = None

Diiisco == part = "diiisco" /\ D!Next /\ UNCHANGED notDiiisco
PawnsConsent == part = "pawns" /\ C!Next /\ UNCHANGED notPawns
DockerEngine == part = "engine" /\ E!Next /\ UNCHANGED notEngine
SpaceAcres == part = "space_acres" /\ A!Next /\ UNCHANGED notSpaceAcres
Olostep == part = "aem" /\ O!Next /\ UNCHANGED notAem
Titan == part = "titan" /\ T!Next /\ UNCHANGED notPinned
Mysterium == part = "mysterium" /\ M!Next /\ UNCHANGED notPinned

Next == Diiisco \/ PawnsConsent \/ DockerEngine \/ SpaceAcres \/ Olostep
           \/ Titan \/ Mysterium

Spec == Init /\ [][Next]_vars

\* The callers of one kind are alike, and so are two node keys.
Symmetry == Permutations(Pair) \cup Permutations(Trio) \cup Permutations(Keys)

-----------------------------------------------------------------------------
\* Diiisco keeps images as NodeImage promises; the others have none.
Keeping == INSTANCE NodeImage
    WITH images <- IF part = "diiisco" THEN docker.images ELSE {},
         proved <- IF part = "diiisco" THEN proved ELSE {},
         current <- IF part = "diiisco" THEN docker.latest ELSE None,
         Images <- D!Images

\* However installs, starts, stops, failures and exits interleave, `latest`
\* only ever names an image that has proved the key, and that image is never
\* removed (diiisco_rebuild.rs 688-710, 929-1043, 1264-1437).
LatestIsProvedAndKept == Keeping!Spec

\* What FEM reads as a consent is the owner's last recorded decision: no
\* rotation, move of the storage root, set clock, torn line or exit brings a
\* withdrawn consent back (pawns.rs 182-255, 524-568), except in the two ways in
\* which the code loses a decision it had recorded: the swap of a rotation that
\* had read the log before, and a line without its newline on either side of it.
ConsentIsTheOwners == part = "pawns" => C!ConsentIsTheOwners

\* A consent in force ends by the owner's own act, or by a launch with another
\* storage root, or by a line written under a clock that was set back behind the
\* record in force, or with a decision that is lost in one of those two ways:
\* restarts, exits and rotation never withdraw it otherwise (pawns.rs 363-380,
\* main.rs 236-247).
OnlyTheOwnerWithdraws ==
    [][part = "pawns" /\ C!consent_active /\ ~C!consent_active' =>
         \/ decided' \in {"withdrawal", "lost"} \/ root' # root
         \/ log' # log /\ now < C!consent_record.at]_vars

\* A docker that is there is not missed for long, however stale the cached
\* answer and whoever else is still about to cache one (docker_manager.rs
\* 119-240).
StaleCliHeals == part = "engine" => E!StaleCliHeals

\* An app or a browser that FEM spawned and that still runs is in the slot, or
\* in the hands of the task that stops or stores it, but for one whose place was
\* taken by an overlapping start, one that had found nothing running before it
\* was stored (space_acres.rs 1183-1284, aem.rs 30-85, 446-527).
OnlyOverlapsForget ==
    /\ part = "space_acres" => A!OnlyOverlapsForget
    /\ part = "aem" => O!OnlyOverlapsForget

\* Files that do not match their pinned digests are run only where somebody
\* wrote to them between the last check of the start that runs them and its
\* spawn: downloads, renames that fail and other callers' repairs at any other
\* moment are noticed (titan.rs 828-861, mysterium.rs 374-451, iagon.rs
\* 220-239).
OnlyCheckedFilesRun ==
    [][running # "bad" /\ running' = "bad" /\ part \in Pinned =>
         \E c \in raced : at[c] = "spawn" /\ at'[c] = "idle"]_vars
=============================================================================
