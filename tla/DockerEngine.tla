---------------------------- MODULE DockerEngine ----------------------------
(***************************************************************************)
(* How FEM finds, starts and installs Docker (docker_manager.rs).  The     *)
(* clicks of the user, the boot pass, the restarts and the watcher each    *)
(* ask on their own; they share the cached answer to "which docker do I    *)
(* run", the installer's file and the elevation gate.                      *)
(***************************************************************************)
EXTENDS Integers, FiniteSets

CONSTANTS Callers,
          MaxChanges,   \* bound on what happens to Docker from outside
          None

VARIABLES
    docker,   \* Docker Desktop
    known,    \* ... in one of DOCKER_PATHS or DOCKER_USER_SCOPE_PATHS
    path,     \* the PATH that FEM was started with names its CLI
    virt,     \* the machine can virtualize
    cli,      \* DOCKER_CLI_CACHE
    file,     \* the downloaded installer is there
    spent,    \* the one attempt at "docker-desktop" is spent
    gate,     \* who holds the elevation gate
    at,       \* per caller, its next step
    ask,      \* per caller, what it asks for and has learnt
    missed,   \* history: misses in a row of a CLI that was there
    changes

vars == <<docker, known, path, virt, cli, file, spent, gate, at, ask, missed, changes>>

machine == <<docker, known, path, virt, changes>>
installer == <<file, spent, gate>>

\* Why a caller asks, what its probe is for, whether the probe is the second
\* one, the CLI it resolved, the probe's answer; and, as history, whether
\* Docker has run ever since it began.
Ask == [why : {"click", "automatic", "look"}, goal : {"status", "fresh", "wait"},
        ping : BOOLEAN, cmd : {"docker", "copy"},
        probe : {"ready", "unreachable", "timed_out", "missing"}, steady : BOOLEAN]
Nothing == [why |-> "look", goal |-> "status", ping |-> FALSE, cmd |-> "docker",
            probe |-> "missing", steady |-> FALSE]
Enough == Cardinality(Callers) + 1

TypeOK ==
    /\ docker \in {"absent", "stopped", "running"}
    /\ {known, path, virt, file, spent} \subseteq BOOLEAN
    /\ cli \in {None, "docker", "copy"}
    /\ gate \in Callers \cup {None}
    /\ at \in [Callers -> {"idle", "command", "resolved", "spawn", "evidence",
                           "fetch", "gate", "prompt"}]
    /\ ask \in [Callers -> Ask]
    /\ missed \in [Callers -> 0..Enough]
    /\ changes \in 0..MaxChanges

Init ==
    /\ docker \in {"absent", "stopped", "running"}
    /\ known \in BOOLEAN /\ path \in BOOLEAN /\ virt \in BOOLEAN
    /\ docker = "running" => virt
    /\ cli = None /\ file = FALSE /\ spent = FALSE /\ gate = None
    /\ at = [c \in Callers |-> "idle"]
    /\ ask = [c \in Callers |-> Nothing]
    /\ missed = [c \in Callers |-> 0]
    /\ changes = 0

There == docker # "absent"
OnPath == There /\ path
Beside == There /\ known            \* the CLI beside Docker Desktop's exe
Runs(which) == IF which = "docker" THEN OnPath ELSE Beside

Goes(c, step, asked) ==
    /\ at' = [at EXCEPT ![c] = step]
    /\ ask' = [ask EXCEPT ![c] = IF step = "idle" THEN Nothing ELSE asked]

Goto(c, step) == Goes(c, step, ask[c])

\* A click on a card that needs Docker re-arms the installer's prompt, which
\* waits for the gate.
Begin(c, why) ==
    /\ at[c] = "idle"
    /\ why = "click" => gate = None
    /\ spent' = (spent /\ why # "click")
    /\ Goes(c, "command", [Nothing EXCEPT !.why = why, !.steady = docker = "running"])
    /\ UNCHANGED <<machine, cli, file, gate, missed>>

\* docker_command: the cached answer, else docker of the PATH, else the
\* installed copy, else docker anyway ...
Command(c) ==
    /\ at[c] = "command"
    /\ IF cli # None
       THEN Goes(c, "spawn", [ask[c] EXCEPT !.cmd = cli])
       ELSE Goes(c, "resolved", [ask[c] EXCEPT !.cmd =
                                    IF ~OnPath /\ Beside THEN "copy" ELSE "docker"])
    /\ UNCHANGED <<machine, installer, cli, missed>>

\* ... which replaces whatever has been cached meanwhile.
Resolved(c) ==
    /\ at[c] = "resolved"
    /\ cli' = ask[c].cmd
    /\ Goto(c, "spawn")
    /\ UNCHANGED <<machine, installer, missed>>

\* docker_cli_probe_detailed asks a lighter question after a timeout, which
\* only a yes can answer; docker_status goes on with the evidence, and
\* wait_for_docker asks again or gives up.
After(a, said) ==
    CASE a.goal = "fresh" -> {"command"}
      [] said = "ready" \/ a.why = "look" -> {"idle"}
      [] a.goal = "wait" -> {"command", "idle"}
      [] OTHER -> {"evidence"}

Answered(c, probe) ==
    LET a == [ask[c] EXCEPT !.cmd = "docker"]
        said == IF a.ping /\ probe # "ready" THEN "timed_out" ELSE probe
    IN  IF probe = "timed_out" /\ ~a.ping
        THEN Goes(c, "command", [a EXCEPT !.ping = TRUE])
        ELSE \E step \in After(a, said) :
                Goes(c, step, [a EXCEPT !.probe = IF step = "evidence" THEN said ELSE @,
                                        !.ping = FALSE,
                                        !.goal = IF @ = "fresh" THEN "wait" ELSE @])

\* A deviation the runs must notice: the answer that failed stays cached.
SpawnFailsCached(c) ==
    /\ at[c] = "spawn" /\ ~Runs(ask[c].cmd)
    /\ missed' = [missed EXCEPT ![c] =
                    IF (OnPath \/ Beside) /\ @ < Enough THEN @ + 1 ELSE @]
    /\ Answered(c, "missing")
    /\ UNCHANGED <<machine, installer, cli>>

\* docker_bounded_probe: a CLI that cannot be spawned is looked for afresh
\* the next time.
SpawnFails(c) ==
    /\ at[c] = "spawn" /\ ~Runs(ask[c].cmd)
    /\ cli' = None
    /\ missed' = [missed EXCEPT ![c] =
                    IF (OnPath \/ Beside) /\ @ < Enough THEN @ + 1 ELSE @]
    /\ Answered(c, "missing")
    /\ UNCHANGED <<machine, installer>>

SpawnAnswers(c) ==
    /\ at[c] = "spawn" /\ Runs(ask[c].cmd)
    /\ missed' = [missed EXCEPT ![c] = 0]
    /\ \/ docker = "running" /\ Answered(c, "ready")
       \/ docker = "stopped" /\ Answered(c, "unreachable")
       \/ Answered(c, "timed_out")
    /\ UNCHANGED <<machine, installer, cli>>

\* resolve_docker_status
Status(probe, installed, virtualization) ==
    CASE probe = "ready" -> "Ready"
      [] probe = "missing" /\ installed -> "DaemonStopped"
      [] ~virtualization -> "VirtualizationDisabled"
      [] probe # "missing" -> "DaemonStopped"
      [] OTHER -> "NotInstalled"

\* docker_desktop_installed: its exe, the engine's pipe, or the registry,
\* which may not answer or know
Evidence == {Beside \/ docker = "running", There}

\* The question about virtualization is answered yes when it fails.
virtualization_supported == {virt, TRUE}

\* Only ensure_docker_with with a click's consent installs.
may_fetch_docker_installer(why) == why = "click"

\* ensure_docker_core
Decide(c) ==
    /\ at[c] = "evidence"
    /\ \E installed \in Evidence, virtualization \in virtualization_supported :
          LET status == Status(ask[c].probe, installed, virtualization)
              a == [ask[c] EXCEPT !.probe = "missing"]
          IN  CASE status = "DaemonStopped" ->
                     Goes(c, "command", [a EXCEPT !.goal = "wait"])
                [] status = "NotInstalled" /\ may_fetch_docker_installer(a.why)
                     -> Goes(c, "fetch", a)
                [] OTHER -> Goto(c, "idle")
    /\ UNCHANGED <<machine, installer, cli, missed>>

Fetch(c) ==
    /\ at[c] = "fetch"
    /\ \/ file' = TRUE /\ Goto(c, "gate")
       \/ file' \in {file, FALSE} /\ Goto(c, "idle")
    /\ UNCHANGED <<machine, spent, gate, cli, missed>>

\* run_elevated, which refuses an attempt that is spent
Prompt(c) ==
    /\ at[c] = "gate" /\ gate = None
    /\ IF spent THEN Goto(c, "idle") /\ UNCHANGED gate
                ELSE Goto(c, "prompt") /\ gate' = c
    /\ spent' = TRUE
    /\ UNCHANGED <<machine, file, cli, missed>>

PromptFails(c) ==
    /\ at[c] = "prompt"
    /\ gate' = None
    /\ Goto(c, "idle")
    /\ UNCHANGED <<machine, file, spent, cli, missed>>

\* Docker becomes d, in a known place or not, and the callers have asked asked
\* by then.  A CLI that comes or goes starts the count of misses afresh.
DockerBecomes(d, k, asked) ==
    /\ docker' = d /\ known' = k
    /\ ask' = [c \in Callers |-> [asked[c] EXCEPT !.steady = @ /\ d = "running"]]
    /\ missed' = IF There = (d # "absent") /\ k = known
                 THEN missed ELSE [c \in Callers |-> 0]
    /\ UNCHANGED <<path, virt>>

Installed(c) ==
    /\ at[c] = "prompt" /\ file
    /\ gate' = None /\ file' = FALSE
    /\ at' = [at EXCEPT ![c] = "command"]
    /\ DockerBecomes(IF There THEN docker ELSE "stopped", known \/ ~There,
                     [ask EXCEPT ![c].goal = "fresh"])
    /\ UNCHANGED <<changes, spent, cli>>

\* the owner, Docker itself, and ten minutes of age
World ==
    /\ changes < MaxChanges /\ changes' = changes + 1
    /\ \/ docker = "running" /\ DockerBecomes("stopped", known, ask) /\ UNCHANGED cli
       \/ There /\ DockerBecomes("absent", known, ask) /\ UNCHANGED cli
       \/ /\ ~There /\ UNCHANGED cli
          /\ \E k \in BOOLEAN : DockerBecomes("stopped", k, ask)
       \/ cli # None /\ cli' = None /\ UNCHANGED <<docker, known, path, virt, ask, missed>>
    /\ UNCHANGED <<installer, at>>

EngineStarts ==
    /\ docker = "stopped" /\ virt
    /\ DockerBecomes("running", known, ask)
    /\ UNCHANGED <<changes, installer, cli, at>>

Next ==
    \/ \E c \in Callers :
          \/ \E why \in {"click", "automatic", "look"} : Begin(c, why)
          \/ Command(c) \/ Resolved(c) \/ SpawnFails(c) \/ SpawnAnswers(c)
          \/ Decide(c) \/ Fetch(c) \/ Prompt(c) \/ PromptFails(c) \/ Installed(c)
    \/ World \/ EngineStarts

Spec == Init /\ [][Next]_vars

-----------------------------------------------------------------------------
(***************************************************************************)
(* A docker that is there is not missed for long, however stale the cached *)
(* answer: once it can be found, each caller fails to spawn it at most     *)
(* once for the cached answer and once for every other caller that was     *)
(* still about to cache what it saw before (docker_manager.rs 119-240).    *)
(***************************************************************************)
StaleCliHeals == \A c \in Callers : missed[c] <= Cardinality(Callers)

(***************************************************************************)
(* resolve_docker_status, 440-445: a machine whose Docker has run all      *)
(* along while the caller asked is not told to install it, whatever the    *)
(* probes said and however many others were asking or installing.          *)
(***************************************************************************)
DockerIsNotDenied == \A c \in Callers : at[c] = "fetch" => ~ask[c].steady

(***************************************************************************)
(* 787-792: once Docker is installed nothing more is installed.  A second  *)
(* click that waits at the gate is let in when a third re-arms it.         *)
(***************************************************************************)
InstalledOnce ==
    [][\A c \in Callers : at[c] = "gate" /\ at'[c] = "prompt" => ~There]_vars
=============================================================================
