------------------------------- MODULE Diiisco -------------------------------
(***************************************************************************)
(* The Diiisco node image: integrations/diiisco.rs and diiisco_rebuild.rs. *)
(* FEM builds the image on the device for a target, the node key and the   *)
(* pinned source, proves it by a probe, and then lets `latest` name it.    *)
(* install() and the detached half of start() do this under one lock; a    *)
(* stop may come at any time and does not wait for the lock.  Every Docker *)
(* command and every file may fail.  The app may exit anywhere.            *)
(***************************************************************************)
EXTENDS Integers, FiniteSets

CONSTANTS Callers,      \* tasks that call install or start
          Keys, Pins,   \* node keys; source pins, 1..n in the order of releases
          MaxImages,    \* bound on the images ever built
          MaxAttempts,  \* bound on a failure count
          Cap,          \* the longest delay, in units of the shortest
          None, Unreadable

Target == Keys \X Pins
Images == 1..MaxImages

VARIABLES
    pin,      \* the source pinned by the release that runs
    docker,   \* images, latest, alias per target, the node's container
    disk,     \* the files of the deploy directory
    built,    \* per image, the target it was built for
    proved,   \* images that have passed the probe
    call,     \* per caller, what it was asked and whether a stop came since
    at,       \* per caller, its place in the code
    run,      \* the locals of the caller that holds REBUILD_LOCK
    stopping, \* a stop() between its generation bump and `compose stop`
    damaged   \* the stamp has been damaged from outside

vars == <<pin, docker, disk, built, proved, call, at, run, stopping,
          damaged>>

AttemptRecord == [for : Target, attempts : 1..MaxAttempts, left : 0..Cap]
NoCall == [op |-> "none", for |-> None, stopped |-> FALSE]
NoRun == [mode |-> "none", have |-> FALSE, prev |-> None, prior |-> None,
          ok |-> FALSE, cand |-> None]

Holding == {"plan", "build", "built", "check", "down", "up", "probe",
            "judge", "promote", "stamp", "giveup", "rundown", "runup", "tidy"}

TypeOK ==
    /\ pin \in Pins
    /\ docker \in [images : SUBSET Images, latest : Images \cup {None},
                   alias : [Target -> Images \cup {None}],
                   node : Images \cup {None}, up : BOOLEAN]
    /\ disk \in [compose : BOOLEAN, stamp : Target \cup {None, Unreadable},
                 backoff : AttemptRecord \cup {None},
                 cooldown : AttemptRecord \cup {None},
                 marker : Target \cup {None}, ledger : SUBSET Images]
    /\ built \in [Images -> Target \cup {None}]
    /\ proved \subseteq Images
    /\ at \in [Callers -> {"idle", "queued"} \cup Holding]
    /\ Cardinality({c \in Callers : at[c] \in Holding}) <= 1

-----------------------------------------------------------------------------
\* Docker: a command does what it is for, or fails and leaves things alone.

Removed(d, S) ==
    [d EXCEPT !.images = @ \ S,
              !.latest = IF @ \in S THEN None ELSE @,
              !.alias = [t \in Target |-> IF @[t] \in S THEN None ELSE @[t]]]

Downs(d) == {d, [d EXCEPT !.node = None, !.up = FALSE]}

\* `compose up`: the container is made, and may not come to run
Ups(d, i) == {[d EXCEPT !.node = i, !.up = b] : b \in BOOLEAN}

\* A container, running or not, holds on to its image.
Rmis(d, i) == {d} \cup (IF d.node = i THEN {} ELSE {Removed(d, {i})})

-----------------------------------------------------------------------------
\* Files

Delay(attempts) == IF 2^(attempts - 1) > Cap THEN Cap ELSE 2^(attempts - 1)

Attempt(record, t) ==
    LET before == IF record # None /\ record.for = t THEN record.attempts ELSE 0
        n == IF before = MaxAttempts THEN MaxAttempts ELSE before + 1
    IN  [for |-> t, attempts |-> n, left |-> Delay(n)]

\* record_attempt and record_fresh_reject; the write may fail
Noted(f, t) == {f, [f EXCEPT !.backoff = Attempt(@, t)]}
Rejected(f, t) == {f, [f EXCEPT !.cooldown = Attempt(@, t)]}

backoff_defers(record, t) == record # None /\ record.for = t /\ record.left > 0

\* A stamp that is torn or damaged counts as none.
readable(f) == f.stamp \in Target

\* what a promotion leaves: a stamp, and no record of earlier trouble
Stamped(f, t) ==
    [f EXCEPT !.stamp = t, !.backoff = None, !.cooldown = None, !.marker = None]

\* the note that an alias does not tell what its image was built for
Marked(f, t) == [f EXCEPT !.marker = t]
Unmarked(f) == [f EXCEPT !.marker = None]

-----------------------------------------------------------------------------
\* discard_candidate_by_id: the worlds it may leave.  `latest` gets the alias
\* back that a rebuild of its own target took; when the stamp cannot be read
\* the alias is marked first.

Realiased(d, f, t) ==
    IF d.latest = None THEN {<<d, f>>}
    ELSE LET aliased == [d EXCEPT !.alias[t] = d.latest]
         IN  CASE f.stamp = t -> {<<d, f>>, <<aliased, f>>}
               [] f.stamp = Unreadable ->
                      {<<d, f>>, <<aliased, Marked(f, t)>>, <<d, Unmarked(f)>>,
                       <<d, Marked(f, t)>>}
               [] OTHER -> {<<d, f>>}

\* A deviation the runs must notice: what the alias names is discarded, also
\* when it has been promoted.
DiscardsPromoted(d, f, t) ==
    LET cand == d.alias[t]
    IN  {<<d, f>>} \cup
        IF cand = None \/ d.node = cand THEN {}
        ELSE Realiased(Removed(d, {cand}), [f EXCEPT !.ledger = @ \ {cand}], t)

Discards(d, f, t) ==
    LET cand == d.alias[t]
    IN  {<<d, f>>} \cup
        IF cand = None \/ cand = d.latest \/ d.node = cand THEN {}
        ELSE Realiased(Removed(d, {cand}), [f EXCEPT !.ledger = @ \ {cand}], t)

DiscardsAfter(D, f, t) == UNION {Discards(d, f, t) : d \in D}

\* sweep_stale_candidates: leftovers by the ledger or by their tags
sweep_targets(d, f, new) ==
    {i \in d.images : i \in f.ledger \/ \E t \in Target : d.alias[t] = i}
        \ {new, d.node, d.latest}

Sweeps(d, f, new) ==
    {<<Removed(d, S), [f EXCEPT !.ledger = @ \ (S \cup {new})]>> :
        S \in SUBSET sweep_targets(d, f, new)}

-----------------------------------------------------------------------------
Init ==
    /\ pin = 1
    /\ \E legacy \in BOOLEAN, key \in Keys :
         /\ docker = [images |-> IF legacy THEN {1} ELSE {},
                      latest |-> IF legacy THEN 1 ELSE None,
                      alias |-> [t \in Target |->
                                    IF legacy /\ t = <<key, 1>> THEN 1 ELSE None],
                      node |-> None, up |-> FALSE]
         /\ built = [i \in Images |-> IF legacy /\ i = 1 THEN <<key, 1>> ELSE None]
         /\ proved = docker.images
         /\ disk = [compose |-> legacy, stamp |-> IF legacy THEN <<key, 1>> ELSE None,
                    backoff |-> None, cooldown |-> None, marker |-> None,
                    ledger |-> {}]
    /\ call = [c \in Callers |-> NoCall]
    /\ at = [c \in Callers |-> "idle"]
    /\ run = NoRun
    /\ stopping = FALSE /\ damaged = FALSE

World == <<docker, disk>>
Becomes(W) == \E w \in W : docker' = w[1] /\ disk' = w[2]
Goto(c, place) == at' = [at EXCEPT ![c] = place]

\* The caller returns and gives the lock back.
Return(c) ==
    /\ at' = [at EXCEPT ![c] = "idle"]
    /\ call' = [call EXCEPT ![c] = NoCall]
    /\ run' = NoRun

UnchangedOutside == UNCHANGED <<pin, stopping, damaged>>
UnchangedImages == UNCHANGED <<built, proved>>

\* install() and start() up to the lock: Docker is there, the device has a
\* wallet and a node key, which the environment, the service or the key file
\* may change at any time.  A start needs the files that an install writes.
Calls(c, op, key) ==
    /\ at[c] = "idle"
    /\ call' = [call EXCEPT ![c] = [op |-> op, for |-> <<key, pin>>, stopped |-> FALSE]]
    /\ Goto(c, "queued")
    /\ UNCHANGED <<docker, run>> /\ UnchangedOutside /\ UnchangedImages

Install(c, key) == Calls(c, "install", key) /\ disk' = [disk EXCEPT !.compose = TRUE]
Start(c, key) == Calls(c, "start", key) /\ disk.compose /\ UNCHANGED disk

Acquire(c) ==
    /\ at[c] = "queued"
    /\ \A other \in Callers : at[other] \notin Holding
    /\ Goto(c, "plan")
    /\ UNCHANGED <<docker, disk, call, run>> /\ UnchangedOutside /\ UnchangedImages

\* The image state could not be told: nothing is built and nothing changed.
ImageUnknown(c) ==
    /\ at[c] = "plan"
    /\ Return(c)
    /\ UNCHANGED <<docker, disk>> /\ UnchangedOutside /\ UnchangedImages

have_image == docker.latest # None

\* What runs already is what is wanted, or a failed attempt is too fresh.
Settled(c) ==
    LET t == call[c].for
    IN  have_image /\ (disk.stamp = t \/ backoff_defers(disk.backoff, t))

\* install() ends here when the image is built or a failure is backing off; a
\* start without an image minds the cooldown of a rejected fresh node.
PlanNothing(c) ==
    LET t == call[c].for
    IN  /\ at[c] = "plan"
        /\ IF call[c].op = "install"
           THEN (have_image /\ disk.stamp = t) \/ backoff_defers(disk.backoff, t)
           ELSE ~have_image /\ backoff_defers(disk.cooldown, t)
        /\ Return(c)
        /\ UNCHANGED <<docker, disk>> /\ UnchangedOutside /\ UnchangedImages

PlanRun(c) ==
    /\ at[c] = "plan"
    /\ call[c].op = "start" /\ Settled(c)
    /\ Goto(c, "rundown")
    /\ run' = [NoRun EXCEPT !.mode = "existing", !.have = TRUE]
    /\ UNCHANGED <<docker, disk, call>> /\ UnchangedOutside /\ UnchangedImages

\* Is `latest` known to be the image of this very target, though unstamped?
reuse_verified_latest(t) ==
    /\ ~readable(disk)
    /\ disk.marker # t
    /\ have_image
    /\ docker.alias[t] = docker.latest

\* An install reads the stop generation only here, a start when it is called.
PlanBuild(c) ==
    LET t == call[c].for
    IN  /\ at[c] = "plan"
        /\ IF call[c].op = "install"
           THEN ~(have_image /\ disk.stamp = t) /\ ~backoff_defers(disk.backoff, t)
           ELSE ~Settled(c) /\ (have_image \/ ~backoff_defers(disk.cooldown, t))
        /\ \/ /\ reuse_verified_latest(t)
              /\ Goto(c, "check")
              /\ run' = [NoRun EXCEPT !.mode = "reuse", !.have = TRUE,
                                      !.cand = docker.latest]
           \/ /\ Goto(c, "build")   \* also when a lookup fails
              /\ run' = [NoRun EXCEPT !.have = have_image]
        /\ call' = IF call[c].op = "install"
                   THEN [call EXCEPT ![c].stopped = FALSE] ELSE call
        /\ UNCHANGED <<docker, disk>> /\ UnchangedOutside /\ UnchangedImages

\* mode: an install gates with or without an image to protect; a start builds
\* afresh or upgrades.
ModeOf(c) ==
    IF call[c].op = "install" THEN "install"
    ELSE IF run.have THEN "upgrade" ELSE "fresh"

\* prev_id: the image to return to; None when Docker would not say
Captured == IF run.have THEN {docker.latest, None} ELSE {None}

Fallbacks(c, W) ==   \* fallback_old and reject_candidate with an image
    UNION {UNION {Discards(d, w[2], call[c].for) :
              d \in {w[1]} \cup (IF w[1].latest = None THEN {}
                                 ELSE Ups(w[1], w[1].latest))} : w \in W}

StoppedCleanups(c, W) ==
    UNION {DiscardsAfter(Downs(w[1]), w[2], call[c].for) : w \in W}

\* A new image takes over the alias of its target.
BuildSucceeds(c) ==
    /\ at[c] = "build"
    /\ \E i \in Images, prev \in Captured :
         /\ built[i] = None /\ \A j \in 1..(i - 1) : built[j] # None
         /\ built' = [built EXCEPT ![i] = call[c].for]
         /\ docker' = [docker EXCEPT !.images = @ \cup {i},
                                     !.alias[call[c].for] = i]
         /\ run' = [run EXCEPT !.mode = ModeOf(c), !.prev = prev, !.cand = i]
    /\ Goto(c, "built")
    /\ UNCHANGED <<disk, call, proved>> /\ UnchangedOutside

\* A failed build counts as an attempt, except of a fresh start; an upgrade
\* brings the old node up again unless a stop is pending.
BuildFails(c) ==
    /\ at[c] = "build"
    /\ LET t == call[c].for
           noted == {docker} \X Noted(disk, t)
       IN  Becomes(CASE ModeOf(c) = "fresh" -> Discards(docker, disk, t)
                     [] ModeOf(c) = "install" ->
                            UNION {Discards(w[1], w[2], t) : w \in noted}
                     [] call[c].stopped -> StoppedCleanups(c, noted)
                     [] OTHER -> Fallbacks(c, noted))
    /\ Return(c)
    /\ UnchangedOutside /\ UnchangedImages

\* record_candidate, then the attempt: an upgrade looks for a stop before it
\* records the attempt, an install after.
Recorded == {disk, [disk EXCEPT !.ledger = @ \cup {run.cand}]}

BuiltStopped(c) ==
    /\ at[c] = "built" /\ run.mode # "install" /\ call[c].stopped
    /\ Becomes(UNION {Discards(docker, f, call[c].for) : f \in Recorded})
    /\ Return(c)
    /\ UnchangedOutside /\ UnchangedImages

BuiltFresh(c) ==
    /\ at[c] = "built" /\ run.mode = "fresh" /\ ~call[c].stopped
    /\ disk' \in Recorded
    /\ Goto(c, "check")
    /\ UNCHANGED <<docker, call, run>> /\ UnchangedOutside /\ UnchangedImages

BuiltCounted(c) ==
    /\ at[c] = "built" /\ run.mode \in {"install", "upgrade"}
    /\ run.mode = "upgrade" => ~call[c].stopped
    /\ \E f \in Recorded :
         disk' = [f EXCEPT !.backoff = Attempt(@, call[c].for)]
    /\ run' = [run EXCEPT !.prior = disk.backoff]
    /\ Goto(c, IF run.mode = "install" THEN "check" ELSE "down")
    /\ UNCHANGED <<docker, call>> /\ UnchangedOutside /\ UnchangedImages

\* An attempt that cannot be recorded is not made.
BuiltUncounted(c) ==
    /\ at[c] = "built" /\ run.mode \in {"install", "upgrade"}
    /\ run.mode = "upgrade" => ~call[c].stopped
    /\ LET gone == UNION {Discards(docker, f, call[c].for) : f \in Recorded}
       IN  Becomes(IF run.mode = "install" THEN gone
                   ELSE gone \cup UNION {Ups(w[1], w[1].latest) \X {w[2]} :
                                            w \in {v \in gone : v[1].latest # None}})
    /\ Return(c)
    /\ UnchangedOutside /\ UnchangedImages

-----------------------------------------------------------------------------
\* gate_candidate, and the same course in an upgrade: away with the old
\* container, up with the candidate, and ask it.  `up` follows a check for a
\* stop as a step of its own: a stop may land between the two.

\* A stop is no failed attempt: the record goes back to what it was.
RolledBack(f) ==
    IF run.mode \in {"install", "upgrade"}
    THEN {f, [f EXCEPT !.backoff = run.prior]} ELSE {f}

EndStopped(c, W) ==
    /\ Becomes(UNION {{w[1]} \X RolledBack(w[2]) : w \in W})
    /\ Return(c)
    /\ UnchangedOutside /\ UnchangedImages

Check(c) ==
    /\ at[c] = "check"
    /\ IF call[c].stopped
       THEN EndStopped(c, Discards(docker, disk, call[c].for))
       ELSE /\ Goto(c, IF run.have THEN "down" ELSE "up")
            /\ UNCHANGED <<docker, disk, call, run>>
            /\ UnchangedOutside /\ UnchangedImages

Down(c) ==
    /\ at[c] = "down"
    /\ IF call[c].stopped
       THEN EndStopped(c, DiscardsAfter(Downs(docker), disk, call[c].for))
       ELSE /\ docker' \in Downs(docker)
            /\ Goto(c, "up")
            /\ UNCHANGED <<disk, call, run>> /\ UnchangedOutside /\ UnchangedImages

Up(c) ==
    /\ at[c] = "up"
    /\ \E d \in {docker} \cup Ups(docker, run.cand) :
         /\ docker' = d
         /\ Goto(c, IF d.node = run.cand /\ d.up THEN "probe" ELSE "judge")
    /\ run' = [run EXCEPT !.ok = FALSE]
    /\ UNCHANGED <<disk, call>> /\ UnchangedOutside /\ UnchangedImages

\* probe_verdict: only a node made for this key lets the key in and nobody else.
Probe(c) ==
    /\ at[c] = "probe"
    /\ \E ok \in BOOLEAN :
         /\ ok => /\ docker.up /\ docker.node = run.cand
                  /\ built[run.cand][1] = call[c].for[1]
                  /\ ~call[c].stopped
         /\ run' = [run EXCEPT !.ok = ok]
         /\ proved' = IF ok THEN proved \cup {run.cand} ELSE proved
    /\ Goto(c, "judge")
    /\ UNCHANGED <<docker, disk, call, built>> /\ UnchangedOutside

\* The time limit of the toggle drops its install at an await: at the lock, or
\* while the candidate is probed.  The lock is free, the node keeps running.
InstallDropped(c) ==
    /\ at[c] \in {"queued", "probe"} /\ call[c].op = "install"
    /\ Goto(c, "idle") /\ call' = [call EXCEPT ![c] = NoCall]
    /\ run' = IF at[c] = "queued" THEN run ELSE NoRun
    /\ UNCHANGED <<docker, disk>> /\ UnchangedOutside /\ UnchangedImages

JudgePass(c) ==
    /\ at[c] = "judge" /\ run.ok /\ ~call[c].stopped
    /\ Goto(c, "promote")
    /\ UNCHANGED <<docker, disk, call, run>> /\ UnchangedOutside /\ UnchangedImages

JudgeStopped(c) ==
    /\ at[c] = "judge" /\ call[c].stopped
    /\ EndStopped(c, StoppedCleanups(c, {World}))

note_install_reject(f, t) == IF run.have THEN {f} ELSE Rejected(f, t)

\* A rejected candidate goes and the old node comes back.  Only a fresh node
\* arms the cooldown.
JudgeFail(c) ==
    /\ at[c] = "judge" /\ ~run.ok /\ ~call[c].stopped
    /\ \E w \in IF run.mode = "upgrade" THEN Fallbacks(c, {World})
                ELSE IF run.have
                THEN Fallbacks(c, Downs(docker) \X {disk})
                     \cup StoppedCleanups(c, {World})
                ELSE StoppedCleanups(c, {World}) :
         /\ docker' = w[1]
         /\ disk' \in CASE run.mode = "fresh" ->
                             UNION {Rejected(f, call[c].for) :
                                       f \in Noted(w[2], call[c].for)}
                        [] run.mode = "install" -> note_install_reject(w[2], call[c].for)
                        [] OTHER -> {w[2]}
    /\ IF run.mode = "reuse"
       THEN /\ Goto(c, "build")
            /\ run' = [NoRun EXCEPT !.have = TRUE]
            /\ UNCHANGED call
       ELSE Return(c)
    /\ UnchangedOutside /\ UnchangedImages

-----------------------------------------------------------------------------
\* Promotion: `latest` first, then the stamp.

Promote(c) ==
    /\ at[c] = "promote"
    /\ docker' = [docker EXCEPT !.latest = docker.alias[call[c].for]]
    /\ Goto(c, "stamp")
    /\ UNCHANGED <<disk, call, run>> /\ UnchangedOutside /\ UnchangedImages

Stamp(c) ==
    /\ at[c] = "stamp"
    /\ disk' = Stamped(disk, call[c].for)
    /\ Goto(c, IF run.mode = "fresh" THEN "rundown" ELSE "tidy")
    /\ UNCHANGED <<docker, call, run>> /\ UnchangedOutside /\ UnchangedImages

\* `latest` or the stamp could not be written.  After the stamp, `latest` goes
\* back to the image before, where Docker lets it.
PromotionFails(c) ==
    /\ at[c] \in {"promote", "stamp"}
    /\ docker' \in
         IF at[c] = "stamp" /\ run.mode \in {"install", "upgrade"} /\ run.prev # None
         THEN {docker, [docker EXCEPT !.latest = run.prev]} ELSE {docker}
    /\ Goto(c, "giveup")
    /\ UNCHANGED <<disk, call, run>> /\ UnchangedOutside /\ UnchangedImages

\* The old node comes up and the candidate goes; a reuse goes on to a build.
GiveUp(c) ==
    /\ at[c] = "giveup"
    /\ \/ /\ run.mode = "upgrade"
          /\ IF call[c].stopped
             THEN Becomes(UNION {{w[1]} \X RolledBack(w[2]) :
                              w \in StoppedCleanups(c, {World})})
             ELSE Becomes(Fallbacks(c, {World}))
          /\ Return(c)
       \/ /\ run.mode = "install"
          /\ Becomes(IF run.have /\ ~call[c].stopped
                     THEN Fallbacks(c, Downs(docker) \X {disk})
                     ELSE StoppedCleanups(c, {World}))
          /\ Return(c)
       \/ /\ run.mode = "fresh"
          /\ \E w \in StoppedCleanups(c, {World}) :
               /\ docker' = w[1]
               /\ disk' \in Noted(w[2], call[c].for)
          /\ Return(c)
       \/ /\ run.mode = "reuse"
          /\ Goto(c, "build")
          /\ run' = [NoRun EXCEPT !.have = TRUE]
          /\ UNCHANGED <<docker, disk, call>>
    /\ UnchangedOutside /\ UnchangedImages

\* Existing image, or a fresh one just promoted: down, check, up.
RunDown(c) ==
    /\ at[c] = "rundown"
    /\ docker' \in Downs(docker)
    /\ IF call[c].stopped THEN Return(c)
       ELSE Goto(c, "runup") /\ UNCHANGED <<call, run>>
    /\ UNCHANGED disk /\ UnchangedOutside /\ UnchangedImages

RunUp(c) ==
    /\ at[c] = "runup"
    /\ \E d \in {docker} \cup Ups(docker, docker.latest) :
         /\ docker' = d
         /\ IF d.up /\ run.mode = "fresh"
            THEN Goto(c, "tidy") /\ UNCHANGED <<call, run>>
            ELSE Return(c)
    /\ UNCHANGED disk /\ UnchangedOutside /\ UnchangedImages

\* drop_previous, then the sweep
Tidy(c) ==
    /\ at[c] = "tidy"
    /\ LET t == call[c].for
           prev == run.prev
           dropped == IF prev = None \/ prev = docker.alias[t] THEN {docker}
                      ELSE Rmis(docker, prev)
       IN  Becomes((dropped \X {disk}) \cup
                   IF run.mode = "reuse" THEN {}
                   ELSE UNION {Sweeps(d, disk, run.cand) : d \in dropped})
    /\ Return(c)
    /\ UnchangedOutside /\ UnchangedImages

-----------------------------------------------------------------------------
\* Around the callers

\* stop(): the generation first, then `compose stop`, without the lock.
StopAsked ==
    /\ ~stopping
    /\ stopping' = TRUE
    /\ call' = [c \in Callers |-> IF at[c] = "idle" THEN call[c]
                                  ELSE [call[c] EXCEPT !.stopped = TRUE]]
    /\ UNCHANGED <<pin, docker, disk, at, run, damaged>>
    /\ UnchangedImages

StopDone ==
    /\ stopping
    /\ stopping' = FALSE
    /\ docker' \in {docker, [docker EXCEPT !.up = FALSE]}
    /\ UNCHANGED <<pin, disk, call, at, run, damaged>>
    /\ UnchangedImages

Waited(record) ==
    IF record = None \/ record.left = 0 THEN record
    ELSE [record EXCEPT !.left = @ - 1]

TimePasses ==
    /\ disk' = [disk EXCEPT !.backoff = Waited(@), !.cooldown = Waited(@)]
    /\ disk' # disk
    /\ UNCHANGED <<pin, docker, call, at, run, stopping, damaged>>
    /\ UnchangedImages

\* Something else damages the stamp, or keeps it from being read, once.
StampDamaged ==
    /\ ~damaged /\ readable(disk)
    /\ damaged' = TRUE
    /\ disk' = [disk EXCEPT !.stamp = Unreadable]
    /\ UNCHANGED <<pin, docker, call, at, run, stopping>>
    /\ UnchangedImages

\* The app exits, with or without an update to the next release's pin.
Exit ==
    /\ pin' \in Pins \cap {pin, pin + 1}
    /\ call' = [c \in Callers |-> NoCall]
    /\ at' = [c \in Callers |-> "idle"]
    /\ run' = NoRun
    /\ stopping' = FALSE
    /\ UNCHANGED <<docker, disk, damaged>> /\ UnchangedImages

Step(c) ==
    \/ \E key \in Keys : Install(c, key) \/ Start(c, key)
    \/ Acquire(c) \/ ImageUnknown(c) \/ PlanNothing(c) \/ PlanRun(c)
    \/ PlanBuild(c) \/ BuildSucceeds(c) \/ BuildFails(c)
    \/ BuiltStopped(c) \/ BuiltFresh(c) \/ BuiltCounted(c) \/ BuiltUncounted(c)
    \/ Check(c) \/ Down(c) \/ Up(c) \/ Probe(c) \/ InstallDropped(c)
    \/ JudgePass(c) \/ JudgeStopped(c) \/ JudgeFail(c)
    \/ Promote(c) \/ Stamp(c) \/ PromotionFails(c) \/ GiveUp(c)
    \/ RunDown(c) \/ RunUp(c) \/ Tidy(c)

Next ==
    \/ \E c \in Callers : Step(c)
    \/ StopAsked \/ StopDone \/ TimePasses
    \/ StampDamaged \/ Exit

Spec == Init /\ [][Next]_vars
-----------------------------------------------------------------------------
\* The abstract image keeping, with `latest` as its current image.
Keeping == INSTANCE NodeImage
    WITH images <- docker.images, current <- docker.latest,
         Images <- Images, None <- None

\* However installs, starts, stops, failures and exits interleave, `latest`
\* only ever names an image that has proved the key, and that image is never
\* removed (diiisco_rebuild.rs 688-710, 929-1043, 1264-1437).
LatestIsProvedAndKept == Keeping!Spec

\* A stamp is only written for the target that the image behind `latest` was
\* really built for: the reuse without a build never passes an image of an
\* older source off as the new one (diiisco_rebuild.rs 1164-1196).
StampTellsTruth ==
    [][disk'.stamp # disk.stamp /\ disk'.stamp \in Target
         => built[docker'.latest] = disk'.stamp]_vars
=============================================================================
