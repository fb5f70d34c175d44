--------------------------- MODULE PartnersProofs ---------------------------
(***************************************************************************)
(* The partners of MCPartners, for all values of their constants.          *)
(*                                                                         *)
(* Diiisco: `latest` names a proved image because of what the holder of    *)
(* REBUILD_LOCK knows at each of its steps (HolderKnows) and because no    *)
(* two callers are past the lock (OneHolder).  The step that promotes is   *)
(* then the abstract one, and every other step a stutter or a loss.        *)
(*                                                                         *)
(* Pawns: unless a decision was lost, the newest readable lines of the     *)
(* logs are the owner's decisions, and what a rotation keeps reads as what *)
(* it had read (CInv).                                                     *)
(*                                                                         *)
(* Docker: each caller's misses are counted with the wrong answers that it *)
(* may still be given (Counted).                                           *)
(*                                                                         *)
(* The pinned partners: who is about to spawn has found the files good,    *)
(* and they still are, or somebody has written to them since.  SpaceAcres  *)
(* and Olostep: who is between its look and its store has found the slot   *)
(* empty, and it still is, or somebody has stored a child since.           *)
(***************************************************************************)
EXTENDS MCPartners, FiniteSetTheorems, WellFoundedInduction, TLAPS

\* A behaviour is that of the partner picked at first: each step is one of its
\* module, or leaves everything alone.
LEMMA OnePart ==
  ASSUME [Next]_vars
  PROVE  /\ part' = part
         /\ \/ UNCHANGED vars
            \/ part = "diiisco" /\ D!Next
            \/ part = "pawns" /\ C!Next
            \/ part = "engine" /\ E!Next
            \/ part = "space_acres" /\ A!Next
            \/ part = "aem" /\ O!Next
            \/ part = "titan" /\ T!Next
            \/ part = "mysterium" /\ M!Next
<1>1. part' = part
  BY DEF Next, vars, Diiisco, PawnsConsent, DockerEngine, SpaceAcres, Olostep,
     Titan,
         Mysterium, notDiiisco, notPawns, notEngine, notSpaceAcres, notAem, notPinned
<1> QED
  BY <1>1 DEF Next, Diiisco, PawnsConsent, DockerEngine, SpaceAcres, Olostep,
     Titan,
              Mysterium

-----------------------------------------------------------------------------
\* Diiisco: what the proof needs to know of types.

Dockers ==
    [images : SUBSET D!Images, latest : D!Images \cup {None},
     alias : [D!Target -> D!Images \cup {None}],
     node : D!Images \cup {None}, up : BOOLEAN]

Calls ==
    [op : {"none", "install", "start"}, for : D!Target \cup {None}, stopped : BOOLEAN]

IsRun(r) ==
    r = [mode |-> r.mode, have |-> r.have, prev |-> r.prev, prior |-> r.prior,
         ok |-> r.ok, cand |-> r.cand]

DTyped ==
    /\ pin \in Pins
    /\ docker \in Dockers /\ call \in [Callers -> Calls] /\ IsRun(run)
    /\ built \in [D!Images -> D!Target \cup {None}] /\ proved \subseteq D!Images
    /\ at \in [Callers -> {"idle", "queued"} \cup D!Holding]
    /\ \A c \in Callers : at[c] # "idle" => call[c].for \in D!Target

\* Only the caller that holds REBUILD_LOCK is past the lock.
OneHolder ==
    \A c, d \in Callers : at[c] \in D!Holding /\ at[d] \in D!Holding => c = d

\* Ids are given once: an image there is or was has been built.
BuiltOnce == \A i \in docker.images \cup proved : built[i] # None

\* What the property is about.
LatestProved == docker.latest # None => docker.latest \in docker.images \cap proved

Testing == {"built", "check", "down", "up", "probe", "judge", "promote"}

\* The candidate is what the alias of its target names, until it is promoted;
\* what has passed the probe is proved; the image to return to can be returned
\* to; what has been promoted is `latest`.
HolderKnows(c) ==
    /\ at[c] \in Testing =>
          run.cand \in docker.images /\ docker.alias[call[c].for] = run.cand
    /\ at[c] = "promote" \/ (at[c] = "judge" /\ run.ok) => run.cand \in proved
    /\ at[c] \in Testing \cup {"stamp"} /\ run.prev # None =>
          run.prev \in docker.images \cap proved
    /\ at[c] \in {"stamp", "tidy"} \/ (at[c] \in {"rundown", "runup"} /\ run.mode = "fresh")
          => docker.latest = docker.alias[call[c].for]

HoldersKnow == \A c \in Callers : HolderKnows(c)

DInv == DTyped /\ OneHolder /\ BuiltOnce /\ LatestProved /\ HoldersKnow

\* What a command or a clean-up may leave of Docker: images may go, `latest`
\* and the image it names stay.
Shrinks(d, e) ==
    /\ e \in Dockers
    /\ e.images \subseteq d.images
    /\ e.latest = d.latest
    /\ d.latest \in d.images => d.latest \in e.images

\* Doing nothing shrinks the store.
LEMMA ShrinksSelf == ASSUME NEW d \in Dockers PROVE Shrinks(d, d)
BY DEF Shrinks

\* One shrinking after another is a shrinking.
LEMMA ShrinksTwice ==
  ASSUME NEW d, NEW e, NEW g, Shrinks(d, e), Shrinks(e, g) PROVE Shrinks(d, g)
BY DEF Shrinks

\* So is the removal of images other than latest,
LEMMA RemovedShrinks ==
  ASSUME NEW d \in Dockers, NEW S, d.latest \notin S
  PROVE  Shrinks(d, D!Removed(d, S))
<1> DEFINE e == D!Removed(d, S)
<1>1. e = [d EXCEPT !.images = @ \ S, !.latest = d.latest,
                    !.alias = [t \in D!Target |-> IF d.alias[t] \in S THEN None ELSE d.alias[t]]]
  BY DEF D!Removed
<1>2. [t \in D!Target |-> IF d.alias[t] \in S THEN None ELSE d.alias[t]]
         \in [D!Target -> D!Images \cup {None}]
  BY DEF Dockers
<1> QED
  BY <1>1, <1>2 DEF Shrinks, Dockers

\* docker compose down,
LEMMA DownsShrink ==
  ASSUME NEW d \in Dockers, NEW e \in D!Downs(d) PROVE Shrinks(d, e)
BY DEF D!Downs, Shrinks, Dockers

\* docker compose up,
LEMMA UpsShrink ==
  ASSUME NEW d \in Dockers, NEW i \in D!Images \cup {None}, NEW e \in D!Ups(d, i)
  PROVE  Shrinks(d, e)
BY DEF D!Ups, Shrinks, Dockers

\* the removal of one image that is not latest,
LEMMA RmisShrink ==
  ASSUME NEW d \in Dockers, NEW i, i # d.latest, NEW e \in D!Rmis(d, i)
  PROVE  Shrinks(d, e)
<1>1. e = d \/ e = D!Removed(d, {i})
  BY DEF D!Rmis
<1> QED
  BY <1>1, ShrinksSelf, RemovedShrinks

\* putting a candidate's alias back to latest,
LEMMA RealiasedShrinks ==
  ASSUME NEW d \in Dockers, NEW f, NEW t \in D!Target, NEW w \in D!Realiased(d, f, t)
  PROVE  Shrinks(d, w[1])
<1> DEFINE e == [d EXCEPT !.alias[t] = d.latest]
<1>1. w[1] = d \/ w[1] = e
  BY DEF D!Realiased
<1>2. e.alias \in [D!Target -> D!Images \cup {None}]
  BY DEF Dockers
<1>3. Shrinks(d, e)
  BY <1>2 DEF Shrinks, Dockers
<1> QED
  BY <1>1, <1>3, ShrinksSelf

\* discarding a candidate,
LEMMA DiscardsShrink ==
  ASSUME NEW d \in Dockers, NEW f, NEW t \in D!Target, NEW w \in D!Discards(d, f, t)
  PROVE  Shrinks(d, w[1])
<1> DEFINE cand == d.alias[t]
           e == D!Removed(d, {cand})
<1>1. CASE w = <<d, f>>
  BY <1>1, ShrinksSelf
<1>2. CASE w # <<d, f>>
  <2>1. /\ cand # d.latest
        /\ w \in D!Realiased(e, [f EXCEPT !.ledger = @ \ {cand}], t)
    BY <1>2 DEF D!Discards
  <2>2. Shrinks(d, e)
    BY <2>1, RemovedShrinks
  <2>3. Shrinks(e, w[1])
    BY <2>1, <2>2, RealiasedShrinks DEF Shrinks
  <2> QED
    BY <2>2, <2>3, ShrinksTwice
<1> QED
  BY <1>1, <1>2

\* the sweep of what nothing needs,
LEMMA SweepsShrink ==
  ASSUME NEW d \in Dockers, NEW f, NEW but, NEW w \in D!Sweeps(d, f, but)
  PROVE  Shrinks(d, w[1])
<1>1. PICK S \in SUBSET D!sweep_targets(d, f, but) : w[1] = D!Removed(d, S)
  BY DEF D!Sweeps
<1>2. d.latest \notin S
  BY <1>1 DEF D!sweep_targets
<1> QED
  BY <1>1, <1>2, RemovedShrinks

\* The clean-ups that take several commands.
LEMMA StoppedCleanupsShrink ==
  ASSUME NEW c, NEW d \in Dockers, NEW W, \A w \in W : w[1] = d,
         call[c].for \in D!Target, NEW w \in D!StoppedCleanups(c, W)
  PROVE  Shrinks(d, w[1])
<1>1. PICK v \in W : w \in D!DiscardsAfter(D!Downs(v[1]), v[2], call[c].for)
  BY DEF D!StoppedCleanups
<1>2. PICK e \in D!Downs(d) : w \in D!Discards(e, v[2], call[c].for)
  BY <1>1 DEF D!DiscardsAfter
<1>3. Shrinks(d, e)
  BY <1>2, DownsShrink
<1> QED
  BY <1>2, <1>3, DiscardsShrink, ShrinksTwice DEF Shrinks

\* and falling back to the image there is.
LEMMA FallbacksShrink ==
  ASSUME NEW c, NEW d \in Dockers, NEW W, \A w \in W : Shrinks(d, w[1]),
         call[c].for \in D!Target, NEW w \in D!Fallbacks(c, W)
  PROVE  Shrinks(d, w[1])
<1>1. PICK v \in W :
         w \in UNION {D!Discards(e, v[2], call[c].for) :
                  e \in {v[1]} \cup (IF v[1].latest = None THEN {}
                                     ELSE D!Ups(v[1], v[1].latest))}
  BY DEF D!Fallbacks
<1>2. PICK e \in {v[1]} \cup (IF v[1].latest = None THEN {}
                              ELSE D!Ups(v[1], v[1].latest)) :
         w \in D!Discards(e, v[2], call[c].for)
  BY <1>1
<1>3. v[1] \in Dockers /\ v[1].latest \in D!Images \cup {None} /\ Shrinks(d, v[1])
  BY <1>1 DEF Shrinks, Dockers
<1>4. Shrinks(v[1], e)
  BY <1>2, <1>3, UpsShrink, ShrinksSelf
<1>5. Shrinks(e, w[1])
  BY <1>2, <1>4, DiscardsShrink DEF Shrinks
<1> QED
  BY <1>3, <1>4, <1>5, ShrinksTwice

-----------------------------------------------------------------------------
\* What a step of Diiisco is to the abstract image keeping.
Implemented ==
    \/ Shrinks(docker, docker') /\ proved' = proved
    \/ \E i \in D!Images \ (docker.images \cup proved) :
          /\ docker'.images = docker.images \cup {i}
          /\ proved' = proved /\ docker'.latest = docker.latest
    \/ \E i \in docker.images : proved' = proved \cup {i} /\ docker' = docker
    \/ \E i \in docker.images \cap proved :
          docker'.latest = i /\ docker'.images = docker.images /\ proved' = proved

\* The invariant holds when FEM starts.
LEMMA DiiiscoInit == ASSUME D!Init PROVE DInv
<1>1. PICK old \in BOOLEAN, key \in Keys :
         /\ docker = [images |-> IF old THEN {1} ELSE {},
                      latest |-> IF old THEN 1 ELSE None,
                      alias |-> [t \in D!Target |->
                                    IF old /\ t = <<key, 1>> THEN 1 ELSE None],
                      node |-> None, up |-> FALSE]
         /\ built = [i \in D!Images |-> IF old /\ i = 1 THEN <<key, 1>> ELSE None]
         /\ proved = docker.images
  BY DEF D!Init
<1>2. <<key, 1>> \in D!Target /\ 1 \in D!Images
  BY DiiiscoAssumption DEF D!Target, D!Images
<1>3. docker \in Dockers
  BY <1>1, <1>2 DEF Dockers
<1>4. DTyped
  BY <1>1, <1>2, <1>3, DiiiscoAssumption
     DEF D!Init, DTyped, Calls, D!NoCall, D!NoRun, IsRun, D!Holding
<1>5. OneHolder /\ HoldersKnow
  BY DEF D!Init, OneHolder, HoldersKnow, HolderKnows, D!Holding, Testing
<1>6. BuiltOnce /\ LatestProved
  BY <1>1, <1>2, DiiiscoAssumption DEF BuiltOnce, LatestProved
<1> QED
  BY <1>4, <1>5, <1>6 DEF DInv

\* The holder gives the lock back and leaves Docker with less, or as it was.
LEMMA ReturnsKeep ==
  ASSUME DInv, NEW c \in Callers, at[c] \in D!Holding, D!Return(c),
         Shrinks(docker, docker'), UNCHANGED <<pin, built, proved>>
  PROVE  DInv' /\ Implemented
<1>1. DTyped'
  BY DEF DInv, DTyped, Calls, D!Return, D!NoCall, D!NoRun, IsRun, Shrinks
<1>2. \A d \in Callers : at'[d] \notin D!Holding
  BY DEF DInv, DTyped, OneHolder, D!Return, D!Holding
<1>3. OneHolder' /\ HoldersKnow'
  BY <1>2 DEF OneHolder, HoldersKnow, HolderKnows, D!Holding, Testing
<1>4. BuiltOnce' /\ LatestProved'
  BY DEF DInv, BuiltOnce, LatestProved, Shrinks
<1> QED
  BY <1>1, <1>3, <1>4 DEF DInv, Implemented

\* A call that is stopped keeps the invariant, and costs other images at most.
LEMMA EndStoppedKeeps ==
  ASSUME DInv, NEW c \in Callers, at[c] \in D!Holding,
         NEW W, \A w \in W : Shrinks(docker, w[1]), D!EndStopped(c, W)
  PROVE  DInv' /\ Implemented
<1>1. PICK w \in UNION {{v[1]} \X D!RolledBack(v[2]) : v \in W} : docker' = w[1]
  BY DEF D!EndStopped, D!Becomes
<1>2. PICK v \in W : w \in {v[1]} \X D!RolledBack(v[2])
  BY <1>1
<1>3. Shrinks(docker, docker')
  BY <1>1, <1>2
<1> QED
  BY <1>3, ReturnsKeep DEF D!EndStopped, D!UnchangedOutside, D!UnchangedImages

\* The holder goes on to another place with what it knows so far, and Docker's
\* images, tags and the holder's locals are what they were.
LEMMA GoesOnKeeps ==
  ASSUME DInv, NEW c \in Callers, at[c] \in D!Holding,
         NEW place \in D!Holding, D!Goto(c, place),
         UNCHANGED <<pin, built, proved>>,
         call' \in [Callers -> Calls], \A d \in Callers : call'[d].for = call[d].for,
         IsRun(run'), Shrinks(docker, docker'), HolderKnows(c)'
  PROVE  DInv' /\ Implemented
<1>1. DTyped'
  BY DEF DInv, DTyped, D!Goto, Shrinks, D!Holding
<1>2. \A d \in Callers : d # c => at'[d] \notin D!Holding
  BY DEF DInv, DTyped, OneHolder, D!Goto
<1>3. OneHolder'
  BY <1>2 DEF OneHolder
<1>4. HoldersKnow'
  BY <1>2 DEF HoldersKnow, HolderKnows, D!Holding, Testing
<1>5. BuiltOnce' /\ LatestProved'
  BY DEF DInv, BuiltOnce, LatestProved, Shrinks
<1> QED
  BY <1>1, <1>3, <1>4, <1>5 DEF DInv, Implemented

\* An install or a start that begins does.
LEMMA Calling ==
  ASSUME DInv, NEW c \in Callers, NEW key \in Keys,
         D!Install(c, key) \/ D!Start(c, key)
  PROVE  DInv' /\ Implemented
<1>1. \E what \in {"install", "start"} : D!Calls(c, what, key)
  BY DEF D!Install, D!Start
<1>2. <<key, pin>> \in D!Target
  BY DEF DInv, DTyped, D!Target
<1>3. DTyped'
  BY <1>1, <1>2 DEF DInv, DTyped, Calls, D!Calls, D!Goto, D!UnchangedOutside,
                    D!UnchangedImages, D!Holding
<1>4. \A d \in Callers : at'[d] \in D!Holding => at[d] = at'[d] /\ call'[d] = call[d]
  BY <1>1 DEF DInv, DTyped, D!Calls, D!Goto, D!Holding
<1>5. UNCHANGED <<docker, run, proved, built>>
  BY <1>1 DEF D!Calls, D!UnchangedImages
<1>6. OneHolder' /\ HoldersKnow'
  BY <1>4, <1>5 DEF DInv, OneHolder, HoldersKnow, HolderKnows, D!Holding,
     Testing
<1>7. BuiltOnce' /\ LatestProved'
  BY <1>5 DEF DInv, BuiltOnce, LatestProved
<1>8. Shrinks(docker, docker')
  BY <1>5, ShrinksSelf DEF DInv, DTyped
<1> QED
  BY <1>3, <1>5, <1>6, <1>7, <1>8 DEF DInv, Implemented

\* Taking REBUILD_LOCK does.
LEMMA Acquiring ==
  ASSUME DInv, NEW c \in Callers, D!Acquire(c)
  PROVE  DInv' /\ Implemented
<1>1. DTyped'
  BY DEF DInv, DTyped, D!Acquire, D!Goto, D!UnchangedOutside,
     D!UnchangedImages, D!Holding
<1>2. \A d \in Callers : at'[d] \in D!Holding => d = c /\ at'[d] = "plan"
  BY DEF DInv, DTyped, D!Acquire, D!Goto
<1>3. OneHolder' /\ HoldersKnow'
  BY <1>2 DEF OneHolder, HoldersKnow, HolderKnows, D!Holding, Testing
<1>4. UNCHANGED <<docker, proved, built>>
  BY DEF D!Acquire, D!UnchangedImages
<1>5. BuiltOnce' /\ LatestProved'
  BY <1>4 DEF DInv, BuiltOnce, LatestProved
<1>6. Shrinks(docker, docker')
  BY <1>4, ShrinksSelf DEF DInv, DTyped
<1> QED
  BY <1>1, <1>3, <1>4, <1>5, <1>6 DEF DInv, Implemented

\* Deciding whether to build, run or do nothing does.
LEMMA Planning ==
  ASSUME DInv, NEW c \in Callers,
         \/ D!ImageUnknown(c) \/ D!PlanNothing(c) \/ D!PlanRun(c) \/ D!PlanBuild(c)
  PROVE  DInv' /\ Implemented
<1> USE DEF D!UnchangedOutside, D!UnchangedImages
<1>1. docker \in Dockers /\ call \in [Callers -> Calls] /\ IsRun(run)
      /\ at \in [Callers -> {"idle", "queued"} \cup D!Holding]
  BY DEF DInv, DTyped
<1>2. CASE D!ImageUnknown(c)
  BY <1>1, <1>2, ReturnsKeep, ShrinksSelf DEF D!ImageUnknown, D!Holding
<1>3. CASE D!PlanNothing(c)
  BY <1>1, <1>3, ReturnsKeep, ShrinksSelf DEF D!PlanNothing, D!Holding
<1>4. CASE D!PlanRun(c)
  <2>1. D!Goto(c, "rundown") /\ at'[c] = "rundown"
    BY <1>1, <1>4 DEF D!PlanRun, D!Goto
  <2>2. IsRun(run') /\ run'.mode = "existing"
    BY <1>4 DEF D!PlanRun, D!NoRun, IsRun
  <2>3. HolderKnows(c)'
    BY <2>1, <2>2 DEF HolderKnows, Testing
  <2> QED
    BY <1>1, <1>4, <2>1, <2>2, <2>3, GoesOnKeeps, ShrinksSelf DEF D!PlanRun,
       D!Holding
<1>5. CASE D!PlanBuild(c)
  <2> DEFINE t == call[c].for
  <2>1. /\ at[c] = "plan" /\ UNCHANGED <<docker, disk, pin, built, proved>>
        /\ call' \in [Callers -> Calls]
        /\ \A d \in Callers : call'[d].for = call[d].for
    BY <1>1, <1>5 DEF D!PlanBuild, Calls
  <2>2. CASE /\ D!reuse_verified_latest(t) /\ D!Goto(c, "check")
             /\ run' = [D!NoRun EXCEPT !.mode = "reuse", !.have = TRUE,
                                       !.cand = docker.latest]
    <3>1. at'[c] = "check"
      BY <1>1, <2>2 DEF D!Goto
    <3>2. IsRun(run') /\ run'.cand = docker.latest /\ run'.prev = None
      BY <2>2 DEF D!NoRun, IsRun
    <3>3. HolderKnows(c)'
      BY <2>1, <2>2, <3>1, <3>2
         DEF HolderKnows, DInv, LatestProved, D!reuse_verified_latest, D!have_image
    <3> QED
      BY <1>1, <2>1, <2>2, <3>2, <3>3, GoesOnKeeps, ShrinksSelf DEF D!Holding
  <2>3. CASE D!Goto(c, "build") /\ run' = [D!NoRun EXCEPT !.have = D!have_image]
    <3>1. at'[c] = "build" /\ IsRun(run')
      BY <1>1, <2>3 DEF D!Goto, D!NoRun, IsRun
    <3>2. HolderKnows(c)'
      BY <3>1 DEF HolderKnows, Testing
    <3> QED
      BY <1>1, <2>1, <2>3, <3>1, <3>2, GoesOnKeeps, ShrinksSelf DEF D!Holding
  <2> QED
    BY <1>5, <2>2, <2>3 DEF D!PlanBuild
<1> QED
  BY <1>2, <1>3, <1>4, <1>5

\* The image that a build makes is a new one.
LEMMA BuildSucceedsKeeps ==
  ASSUME DInv, NEW c \in Callers, D!BuildSucceeds(c)
  PROVE  DInv' /\ Implemented
<1> DEFINE t == call[c].for
<1>1. PICK i \in D!Images, prev \in D!Captured :
         /\ built[i] = None
         /\ built' = [built EXCEPT ![i] = t]
         /\ docker' = [docker EXCEPT !.images = @ \cup {i}, !.alias[t] = i]
         /\ run' = [run EXCEPT !.mode = D!ModeOf(c), !.prev = prev, !.cand = i]
  BY DEF D!BuildSucceeds
<1>2. /\ at[c] = "build" /\ at' = [at EXCEPT ![c] = "built"]
      /\ UNCHANGED <<pin, call, proved>>
  BY DEF D!BuildSucceeds, D!Goto, D!UnchangedOutside
<1>3. /\ docker \in Dockers /\ call \in [Callers -> Calls] /\ IsRun(run)
      /\ built \in [D!Images -> D!Target \cup {None}] /\ proved \subseteq D!Images
      /\ at \in [Callers -> {"idle", "queued"} \cup D!Holding]
      /\ t \in D!Target
  BY <1>2 DEF DInv, DTyped
<1>4. docker' \in Dockers /\ docker'.alias[t] = i /\ docker'.latest = docker.latest
      /\ docker'.images = docker.images \cup {i}
  <2>1. [docker.alias EXCEPT ![t] = i] \in [D!Target -> D!Images \cup {None}]
    BY <1>3 DEF Dockers
  <2>2. docker' = [docker EXCEPT !.images = docker.images \cup {i},
                                 !.alias = [docker.alias EXCEPT ![t] = i]]
    BY <1>1, <1>3 DEF Dockers
  <2> QED
    BY <1>3, <2>1, <2>2 DEF Dockers
<1>5. IsRun(run') /\ run'.cand = i /\ run'.prev = prev
  BY <1>1, <1>3 DEF IsRun
<1>6. DTyped'
  BY <1>1, <1>2, <1>3, <1>4, <1>5 DEF DInv, DTyped, D!Holding
<1>7. \A d \in Callers : d # c => at'[d] \notin D!Holding
  BY <1>2, <1>3 DEF DInv, OneHolder, D!Holding
<1>8. at'[c] = "built"
  BY <1>2, <1>3
<1>9. HolderKnows(c)'
  BY <1>2, <1>4, <1>5, <1>8
     DEF HolderKnows, Testing, DInv, LatestProved, D!Captured
<1>10. OneHolder' /\ HoldersKnow'
  BY <1>7, <1>9 DEF OneHolder, HoldersKnow, HolderKnows, D!Holding, Testing
<1>11. i \notin docker.images \cup proved
  BY <1>1 DEF DInv, BuiltOnce
<1>12. BuiltOnce' /\ LatestProved'
  BY <1>1, <1>2, <1>3, <1>4, DiiiscoAssumption DEF DInv, BuiltOnce,
     LatestProved
<1>13. Implemented
  BY <1>2, <1>4, <1>11 DEF Implemented
<1> QED
  BY <1>6, <1>10, <1>12, <1>13 DEF DInv

\* A build that failed does.
LEMMA BuildFailsKeeps ==
  ASSUME DInv, NEW c \in Callers, D!BuildFails(c)
  PROVE  DInv' /\ Implemented
<1> DEFINE t == call[c].for
           noted == {docker} \X D!Noted(disk, t)
<1>1. docker \in Dockers /\ t \in D!Target /\ at[c] = "build"
  BY DEF DInv, DTyped, D!BuildFails
<1>2. PICK w \in CASE D!ModeOf(c) = "fresh" -> D!Discards(docker, disk, t)
                   [] D!ModeOf(c) = "install" ->
                            UNION {D!Discards(v[1], v[2], t) : v \in noted}
                   [] call[c].stopped -> D!StoppedCleanups(c, noted)
                   [] OTHER -> D!Fallbacks(c, noted) : docker' = w[1]
  BY DEF D!BuildFails, D!Becomes
<1>3. \A v \in noted : v[1] = docker
  OBVIOUS
<1>4. \/ w \in D!Discards(docker, disk, t)
      \/ w \in UNION {D!Discards(v[1], v[2], t) : v \in noted}
      \/ w \in D!StoppedCleanups(c, noted)
      \/ w \in D!Fallbacks(c, noted)
  BY <1>2
<1>5. Shrinks(docker, w[1])
  <2>1. CASE w \in D!Discards(docker, disk, t)
    BY <1>1, <2>1, DiscardsShrink
  <2>2. CASE w \in UNION {D!Discards(v[1], v[2], t) : v \in noted}
    BY <1>1, <1>3, <2>2, DiscardsShrink
  <2>3. CASE w \in D!StoppedCleanups(c, noted)
    BY <1>1, <1>3, <2>3, StoppedCleanupsShrink
  <2>4. CASE w \in D!Fallbacks(c, noted)
    BY <1>1, <1>3, <2>4, FallbacksShrink, ShrinksSelf
  <2> QED
    BY <1>4, <2>1, <2>2, <2>3, <2>4
<1> QED
  BY <1>1, <1>2, <1>5, ReturnsKeep
     DEF D!BuildFails, D!UnchangedOutside, D!UnchangedImages, D!Holding

\* What is recorded after a build does.
LEMMA Recording ==
  ASSUME DInv, NEW c \in Callers,
         D!BuiltStopped(c) \/ D!BuiltFresh(c) \/ D!BuiltCounted(c) \/ D!BuiltUncounted(c)
  PROVE  DInv' /\ Implemented
<1> USE DEF D!UnchangedOutside, D!UnchangedImages
<1>1. /\ docker \in Dockers /\ call \in [Callers -> Calls] /\ IsRun(run)
      /\ at \in [Callers -> {"idle", "queued"} \cup D!Holding]
      /\ at[c] = "built" /\ at[c] \in D!Holding /\ call[c].for \in D!Target
  BY DEF DInv, DTyped, D!BuiltStopped, D!BuiltFresh, D!BuiltCounted,
     D!BuiltUncounted,
         D!Holding
<1>2. HolderKnows(c)
  BY DEF DInv, HoldersKnow
<1>3. CASE D!BuiltStopped(c)
  <2>1. PICK w \in UNION {D!Discards(docker, f, call[c].for) : f \in D!Recorded} :
              docker' = w[1]
    BY <1>3 DEF D!BuiltStopped, D!Becomes
  <2>2. Shrinks(docker, docker')
    BY <1>1, <2>1, DiscardsShrink
  <2> QED
    BY <1>1, <1>3, <2>2, ReturnsKeep DEF D!BuiltStopped
<1>4. CASE D!BuiltFresh(c)
  <2>1. D!Goto(c, "check") /\ at'[c] = "check" /\ UNCHANGED <<docker, call, run, proved>>
    BY <1>1, <1>4 DEF D!BuiltFresh, D!Goto
  <2>2. HolderKnows(c)'
    BY <1>1, <1>2, <2>1 DEF HolderKnows, Testing
  <2> QED
    BY <1>1, <1>4, <2>1, <2>2, GoesOnKeeps, ShrinksSelf DEF D!BuiltFresh,
       D!Holding, IsRun
<1>5. CASE D!BuiltCounted(c)
  <2> DEFINE place == IF run.mode = "install" THEN "check" ELSE "down"
  <2>1. /\ D!Goto(c, place) /\ at'[c] = place /\ UNCHANGED <<docker, call, proved>>
        /\ run' = [run EXCEPT !.prior = disk.backoff]
    BY <1>1, <1>5 DEF D!BuiltCounted, D!Goto
  <2>2. IsRun(run') /\ run'.cand = run.cand /\ run'.prev = run.prev
    BY <1>1, <2>1 DEF IsRun
  <2>3. HolderKnows(c)'
    BY <1>1, <1>2, <2>1, <2>2 DEF HolderKnows, Testing
  <2> QED
    BY <1>1, <1>5, <2>1, <2>2, <2>3, GoesOnKeeps, ShrinksSelf DEF
       D!BuiltCounted, D!Holding
<1>6. CASE D!BuiltUncounted(c)
  <2> DEFINE worlds == UNION {D!Discards(docker, f, call[c].for) : f \in D!Recorded}
  <2>1. PICK w \in worlds \cup UNION {D!Ups(v[1], v[1].latest) \X {v[2]} :
                                        v \in {u \in worlds : u[1].latest # None}} :
              docker' = w[1]
    BY <1>6 DEF D!BuiltUncounted, D!Becomes
  <2>2. \A v \in worlds : Shrinks(docker, v[1])
    BY <1>1, DiscardsShrink
  <2>3. CASE w \in worlds
    BY <1>1, <1>6, <2>1, <2>2, <2>3, ReturnsKeep DEF D!BuiltUncounted
  <2>4. CASE w \notin worlds
    <3>1. PICK v \in worlds : w \in D!Ups(v[1], v[1].latest) \X {v[2]}
      BY <2>1, <2>4
    <3>2. w[1] \in D!Ups(v[1], v[1].latest)
      BY <3>1
    <3>3. Shrinks(docker, v[1]) /\ v[1] \in Dockers /\ v[1].latest \in D!Images \cup {None}
      BY <2>2 DEF Shrinks, Dockers
    <3>4. Shrinks(docker, docker')
      BY <2>1, <3>2, <3>3, UpsShrink, ShrinksTwice
    <3> QED
      BY <1>1, <1>6, <3>4, ReturnsKeep DEF D!BuiltUncounted
  <2> QED
    BY <2>3, <2>4
<1> QED
  BY <1>3, <1>4, <1>5, <1>6

\* The candidate is run and asked.
LEMMA Trying ==
  ASSUME DInv, NEW c \in Callers,
         D!Check(c) \/ D!Down(c) \/ D!Up(c) \/ D!Probe(c)
  PROVE  DInv' /\ Implemented
<1> USE DEF D!UnchangedOutside, D!UnchangedImages
<1>1. /\ docker \in Dockers /\ call \in [Callers -> Calls] /\ IsRun(run)
      /\ at \in [Callers -> {"idle", "queued"} \cup D!Holding]
      /\ at[c] \in Testing /\ at[c] \in D!Holding /\ call[c].for \in D!Target
  BY DEF DInv, DTyped, D!Check, D!Down, D!Up, D!Probe, D!Holding, Testing
<1>2. HolderKnows(c) /\ run.cand \in D!Images
  BY <1>1 DEF DInv, HoldersKnow, HolderKnows, Dockers
<1>3. CASE D!Check(c)
  <2>1. CASE call[c].stopped
    BY <1>1, <1>3, <2>1, DiscardsShrink, EndStoppedKeeps DEF D!Check
  <2>2. CASE ~call[c].stopped
    <3> DEFINE place == IF run.have THEN "down" ELSE "up"
    <3>1. /\ D!Goto(c, place) /\ at'[c] = place
          /\ UNCHANGED <<docker, call, run, pin, built, proved>>
      BY <1>1, <1>3, <2>2 DEF D!Check, D!Goto
    <3>2. HolderKnows(c)'
      BY <1>1, <1>2, <3>1 DEF HolderKnows, Testing
    <3> QED
      BY <1>1, <3>1, <3>2, GoesOnKeeps, ShrinksSelf DEF D!Holding, IsRun
  <2> QED
    BY <2>1, <2>2
<1>4. CASE D!Down(c)
  <2>1. CASE call[c].stopped
    <3>1. \A w \in D!DiscardsAfter(D!Downs(docker), disk, call[c].for) :
            Shrinks(docker, w[1])
      <4> TAKE w \in D!DiscardsAfter(D!Downs(docker), disk, call[c].for)
      <4>1. PICK e \in D!Downs(docker) : w \in D!Discards(e, disk, call[c].for)
        BY DEF D!DiscardsAfter
      <4>2. Shrinks(docker, e)
        BY <1>1, <4>1, DownsShrink
      <4> QED
        BY <1>1, <4>1, <4>2, DiscardsShrink, ShrinksTwice DEF Shrinks
    <3> QED
      BY <1>1, <1>4, <2>1, <3>1, EndStoppedKeeps DEF D!Down
  <2>2. CASE ~call[c].stopped
    <3>1. /\ D!Goto(c, "up") /\ at'[c] = "up" /\ docker' \in D!Downs(docker)
          /\ UNCHANGED <<call, run, pin, built, proved>>
      BY <1>1, <1>4, <2>2 DEF D!Down, D!Goto
    <3>2. docker'.images = docker.images /\ docker'.alias = docker.alias
      BY <1>1, <3>1 DEF D!Downs, Dockers
    <3>3. HolderKnows(c)'
      BY <1>1, <1>2, <3>1, <3>2 DEF HolderKnows, Testing
    <3> QED
      BY <1>1, <3>1, <3>3, GoesOnKeeps, DownsShrink DEF D!Holding, IsRun
  <2> QED
    BY <2>1, <2>2
<1>5. CASE D!Up(c)
  <2>1. PICK d \in {docker} \cup D!Ups(docker, run.cand) :
          /\ docker' = d
          /\ D!Goto(c, IF d.node = run.cand /\ d.up THEN "probe" ELSE "judge")
    BY <1>5 DEF D!Up
  <2>2. PICK place \in {"probe", "judge"} : D!Goto(c, place) /\ at'[c] = place
    BY <1>1, <2>1 DEF D!Goto
  <2>3. /\ UNCHANGED <<call, pin, built, proved>>
        /\ run' = [run EXCEPT !.ok = FALSE]
    BY <1>5 DEF D!Up
  <2>4. IsRun(run') /\ run'.cand = run.cand /\ run'.prev = run.prev /\ ~run'.ok
    BY <1>1, <2>3 DEF IsRun
  <2>5. Shrinks(docker, docker')
    BY <1>1, <1>2, <2>1, UpsShrink, ShrinksSelf
  <2>6. docker'.images = docker.images /\ docker'.alias = docker.alias
    BY <1>1, <2>1 DEF D!Ups, Dockers
  <2>7. HolderKnows(c)'
    BY <1>1, <1>2, <2>2, <2>3, <2>4, <2>6 DEF HolderKnows, Testing
  <2> QED
    BY <1>1, <2>2, <2>3, <2>4, <2>5, <2>7, GoesOnKeeps DEF D!Holding
<1>6. CASE D!Probe(c)
  <2>1. PICK ok \in BOOLEAN :
          /\ run' = [run EXCEPT !.ok = ok]
          /\ proved' = IF ok THEN proved \cup {run.cand} ELSE proved
    BY <1>6 DEF D!Probe
  <2>2. /\ at' = [at EXCEPT ![c] = "judge"] /\ at'[c] = "judge"
        /\ UNCHANGED <<docker, call, built, pin>>
    BY <1>1, <1>6 DEF D!Probe, D!Goto
  <2>3. IsRun(run') /\ run'.cand = run.cand /\ run'.prev = run.prev /\ run'.ok = ok
    BY <1>1, <2>1 DEF IsRun
  <2>4. run.cand \in docker.images
    BY <1>1, <1>2 DEF HolderKnows
  <2>5. DTyped'
    BY <1>1, <1>2, <2>1, <2>2, <2>3 DEF DInv, DTyped, D!Holding
  <2>6. \A d \in Callers : d # c => at'[d] \notin D!Holding
    BY <1>1, <2>2 DEF DInv, OneHolder
  <2>7. HolderKnows(c)'
    BY <1>1, <1>2, <2>1, <2>2, <2>3, <2>4 DEF HolderKnows, Testing
  <2>8. OneHolder' /\ HoldersKnow'
    BY <2>6, <2>7 DEF OneHolder, HoldersKnow, HolderKnows, D!Holding, Testing
  <2>9. BuiltOnce' /\ LatestProved'
    BY <2>1, <2>2, <2>4 DEF DInv, BuiltOnce, LatestProved
  <2>10. Implemented
    <3>1. CASE ok
      BY <2>1, <2>2, <2>4, <3>1 DEF Implemented
    <3>2. CASE ~ok
      BY <1>1, <2>1, <2>2, <3>2, ShrinksSelf DEF Implemented
    <3> QED
      BY <3>1, <3>2
  <2> QED
    BY <2>5, <2>8, <2>9, <2>10 DEF DInv
<1> QED
  BY <1>3, <1>4, <1>5, <1>6

\* The verdict, and what happens to a candidate that failed.
LEMMA Judging ==
  ASSUME DInv, NEW c \in Callers,
         \/ D!InstallDropped(c) \/ D!JudgePass(c) \/ D!JudgeStopped(c) \/ D!JudgeFail(c)
  PROVE  DInv' /\ Implemented
<1> USE DEF D!UnchangedOutside, D!UnchangedImages
<1>1. /\ docker \in Dockers /\ call \in [Callers -> Calls] /\ IsRun(run)
      /\ at \in [Callers -> {"idle", "queued"} \cup D!Holding]
      /\ call[c].for \in D!Target
  BY DEF DInv, DTyped, D!InstallDropped, D!JudgePass, D!JudgeStopped,
     D!JudgeFail,
         D!Holding
<1>2. HolderKnows(c)
  BY DEF DInv, HoldersKnow
<1>3. CASE D!InstallDropped(c) /\ at[c] = "probe"
  BY <1>1, <1>3, ReturnsKeep, ShrinksSelf
     DEF D!InstallDropped, D!Return, D!Goto, D!Holding
<1>4. CASE D!InstallDropped(c) /\ at[c] = "queued"
  <2>1. /\ at' = [at EXCEPT ![c] = "idle"] /\ call' = [call EXCEPT ![c] = D!NoCall]
        /\ UNCHANGED <<docker, run, pin, built, proved>>
    BY <1>4 DEF D!InstallDropped, D!Goto
  <2>2. DTyped'
    BY <2>1 DEF DInv, DTyped, Calls, D!NoCall
  <2>3. OneHolder' /\ HoldersKnow'
    BY <1>1, <2>1 DEF DInv, OneHolder, HoldersKnow, HolderKnows, D!Holding,
       Testing
  <2>4. BuiltOnce' /\ LatestProved'
    BY <2>1 DEF DInv, BuiltOnce, LatestProved
  <2>5. Implemented
    BY <1>1, <2>1, ShrinksSelf DEF Implemented
  <2> QED
    BY <2>2, <2>3, <2>4, <2>5 DEF DInv
<1>5. CASE D!JudgePass(c)
  <2>1. /\ D!Goto(c, "promote") /\ at'[c] = "promote" /\ at[c] = "judge" /\ run.ok
        /\ UNCHANGED <<docker, call, run, pin, built, proved>>
    BY <1>1, <1>5 DEF D!JudgePass, D!Goto
  <2>2. HolderKnows(c)'
    BY <1>2, <2>1 DEF HolderKnows, Testing
  <2> QED
    BY <1>1, <2>1, <2>2, GoesOnKeeps, ShrinksSelf DEF D!Holding, IsRun
<1>6. CASE D!JudgeStopped(c)
  <2>1. D!EndStopped(c, D!StoppedCleanups(c, {D!World})) /\ at[c] \in D!Holding
    BY <1>6 DEF D!JudgeStopped, D!Holding
  <2>2. \A w \in {D!World} : w[1] = docker
    BY DEF D!World
  <2>3. \A w \in D!StoppedCleanups(c, {D!World}) : Shrinks(docker, w[1])
    BY <1>1, <2>2, StoppedCleanupsShrink
  <2> QED
    BY <2>1, <2>3, EndStoppedKeeps
<1>7. CASE D!JudgeFail(c)
  <2>1. PICK w \in IF run.mode = "upgrade" THEN D!Fallbacks(c, {D!World})
                   ELSE IF run.have
                   THEN D!Fallbacks(c, D!Downs(docker) \X {disk})
                        \cup D!StoppedCleanups(c, {D!World})
                   ELSE D!StoppedCleanups(c, {D!World}) : docker' = w[1]
    BY <1>7 DEF D!JudgeFail
  <2>2. Shrinks(docker, docker')
    <3>1. \A v \in {D!World} : v[1] = docker
      BY DEF D!World
    <3>2. CASE w \in D!Fallbacks(c, {D!World})
      BY <1>1, <2>1, <3>1, <3>2, FallbacksShrink, ShrinksSelf
    <3>3. CASE w \in D!Fallbacks(c, D!Downs(docker) \X {disk})
      BY <1>1, <2>1, <3>3, FallbacksShrink, DownsShrink
    <3>4. CASE w \in D!StoppedCleanups(c, {D!World})
      BY <1>1, <2>1, <3>1, <3>4, StoppedCleanupsShrink
    <3> QED
      BY <2>1, <3>2, <3>3, <3>4
  <2>3. CASE run.mode = "reuse"
    <3>1. /\ D!Goto(c, "build") /\ at'[c] = "build"
          /\ run' = [D!NoRun EXCEPT !.have = TRUE]
          /\ UNCHANGED <<call, pin, built, proved>>
      BY <1>1, <1>7, <2>3 DEF D!JudgeFail, D!Goto
    <3>2. IsRun(run')
      BY <3>1 DEF IsRun, D!NoRun
    <3>3. HolderKnows(c)'
      BY <3>1 DEF HolderKnows, Testing
    <3> QED
      BY <1>1, <1>7, <2>2, <3>1, <3>2, <3>3, GoesOnKeeps DEF D!JudgeFail,
         D!Holding
  <2>4. CASE run.mode # "reuse"
    BY <1>7, <2>2, <2>4, ReturnsKeep DEF D!JudgeFail, D!Holding
  <2> QED
    BY <2>3, <2>4
<1> QED
  BY <1>3, <1>4, <1>5, <1>6, <1>7 DEF D!InstallDropped

\* `latest` moves: to the candidate, which is proved, or back.
LEMMA Promoting ==
  ASSUME DInv, NEW c \in Callers,
         D!Promote(c) \/ D!Stamp(c) \/ D!PromotionFails(c)
  PROVE  DInv' /\ Implemented
<1> USE DEF D!UnchangedOutside, D!UnchangedImages
<1> DEFINE t == call[c].for
<1>1. /\ docker \in Dockers /\ call \in [Callers -> Calls] /\ IsRun(run)
      /\ at \in [Callers -> {"idle", "queued"} \cup D!Holding]
      /\ at[c] \in {"promote", "stamp"} /\ t \in D!Target
  BY DEF DInv, DTyped, D!Promote, D!Stamp, D!PromotionFails
<1>2. HolderKnows(c)
  BY DEF DInv, HoldersKnow
<1>3. ASSUME NEW i \in docker.images \cap proved, NEW place \in {"stamp", "giveup"},
             docker' = [docker EXCEPT !.latest = i], at' = [at EXCEPT ![c] = place],
             UNCHANGED <<call, run, pin, built, proved>>,
             place = "stamp" => /\ i = docker.alias[t]
                                /\ run.prev # None => run.prev \in docker.images \cap proved
      PROVE  DInv' /\ Implemented
  <2>1. docker' \in Dockers /\ docker'.latest = i /\ docker'.images = docker.images
        /\ docker'.alias = docker.alias
    BY <1>1, <1>3 DEF Dockers
  <2>2. at'[c] = place
    BY <1>1, <1>3
  <2>3. DTyped'
    BY <1>1, <1>3, <2>1 DEF DInv, DTyped, D!Holding
  <2>4. \A d \in Callers : d # c => at'[d] \notin D!Holding
    BY <1>1, <1>3 DEF DInv, OneHolder, D!Holding
  <2>5. HolderKnows(c)'
    BY <1>3, <2>1, <2>2 DEF HolderKnows, Testing
  <2>6. OneHolder' /\ HoldersKnow'
    BY <2>4, <2>5 DEF OneHolder, HoldersKnow, HolderKnows, D!Holding, Testing
  <2>7. BuiltOnce' /\ LatestProved'
    BY <1>3, <2>1 DEF DInv, BuiltOnce, LatestProved
  <2>8. Implemented
    BY <1>3, <2>1 DEF Implemented
  <2> QED
    BY <2>3, <2>6, <2>7, <2>8 DEF DInv
<1>4. CASE D!Promote(c)
  <2>1. docker.alias[t] \in docker.images \cap proved
    BY <1>2, <1>4 DEF D!Promote, HolderKnows, Testing
  <2>2. run.prev # None => run.prev \in docker.images \cap proved
    BY <1>2, <1>4 DEF D!Promote, HolderKnows, Testing
  <2> QED
    BY <1>3, <1>4, <2>1, <2>2 DEF D!Promote, D!Goto
<1>5. CASE D!Stamp(c)
  <2> DEFINE place == IF run.mode = "fresh" THEN "rundown" ELSE "tidy"
  <2>1. /\ D!Goto(c, place) /\ at'[c] = place /\ at[c] = "stamp"
        /\ UNCHANGED <<docker, call, run, pin, built, proved>>
    BY <1>1, <1>5 DEF D!Stamp, D!Goto
  <2>2. HolderKnows(c)'
    BY <1>2, <2>1 DEF HolderKnows, Testing
  <2> QED
    BY <1>1, <2>1, <2>2, GoesOnKeeps, ShrinksSelf DEF D!Holding, IsRun
<1>6. CASE D!PromotionFails(c)
  <2>1. /\ D!Goto(c, "giveup") /\ at'[c] = "giveup"
        /\ UNCHANGED <<call, run, pin, built, proved>>
    BY <1>1, <1>6 DEF D!PromotionFails, D!Goto
  <2>2. CASE docker' = docker
    <3>1. HolderKnows(c)'
      BY <2>1 DEF HolderKnows, Testing
    <3> QED
      BY <1>1, <2>1, <2>2, <3>1, GoesOnKeeps, ShrinksSelf DEF D!Holding, IsRun
  <2>3. CASE docker' # docker
    <3>1. /\ docker' = [docker EXCEPT !.latest = run.prev]
          /\ run.prev # None /\ at[c] = "stamp"
      BY <1>6, <2>3 DEF D!PromotionFails
    <3>2. run.prev \in docker.images \cap proved
      BY <1>2, <3>1 DEF HolderKnows
    <3> QED
      BY <1>3, <2>1, <3>1, <3>2 DEF D!Goto
  <2> QED
    BY <2>2, <2>3
<1> QED
  BY <1>4, <1>5, <1>6

\* What follows a promotion, or its failure.
LEMMA Finishing ==
  ASSUME DInv, NEW c \in Callers,
         D!GiveUp(c) \/ D!RunDown(c) \/ D!RunUp(c) \/ D!Tidy(c)
  PROVE  DInv' /\ Implemented
<1> USE DEF D!UnchangedOutside, D!UnchangedImages
<1> DEFINE t == call[c].for
<1>1. /\ docker \in Dockers /\ call \in [Callers -> Calls] /\ IsRun(run)
      /\ at \in [Callers -> {"idle", "queued"} \cup D!Holding]
      /\ at[c] \in D!Holding /\ t \in D!Target
  BY DEF DInv, DTyped, D!GiveUp, D!RunDown, D!RunUp, D!Tidy, D!Holding
<1>2. HolderKnows(c) /\ docker.latest \in D!Images \cup {None}
  BY <1>1 DEF DInv, HoldersKnow, Dockers
<1>3. \A v \in {D!World} : v[1] = docker
  BY DEF D!World
<1>4. \A w \in D!StoppedCleanups(c, {D!World}) : Shrinks(docker, w[1])
  BY <1>1, <1>3, StoppedCleanupsShrink
<1>5. CASE D!GiveUp(c)
  <2>1. CASE run.mode = "upgrade" /\ D!Return(c)
    <3>1. CASE call[c].stopped
      <4>1. PICK w \in D!StoppedCleanups(c, {D!World}) :
               \E v \in {w[1]} \X D!RolledBack(w[2]) : docker' = v[1]
        BY <1>5, <2>1, <3>1 DEF D!GiveUp, D!Becomes
      <4> QED
        BY <1>1, <1>4, <1>5, <2>1, <4>1, ReturnsKeep DEF D!GiveUp
    <3>2. CASE ~call[c].stopped
      <4>1. PICK w \in D!Fallbacks(c, {D!World}) : docker' = w[1]
        BY <1>5, <2>1, <3>2 DEF D!GiveUp, D!Becomes
      <4>2. Shrinks(docker, docker')
        BY <1>1, <1>3, <4>1, FallbacksShrink, ShrinksSelf
      <4> QED
        BY <1>1, <1>5, <2>1, <4>2, ReturnsKeep DEF D!GiveUp
    <3> QED
      BY <3>1, <3>2
  <2>2. CASE run.mode = "install" /\ D!Return(c)
    <3>1. PICK w \in IF run.have /\ ~call[c].stopped
                     THEN D!Fallbacks(c, D!Downs(docker) \X {disk})
                     ELSE D!StoppedCleanups(c, {D!World}) : docker' = w[1]
      BY <1>5, <2>2 DEF D!GiveUp, D!Becomes
    <3>2. CASE w \in D!StoppedCleanups(c, {D!World})
      BY <1>1, <1>4, <1>5, <2>2, <3>1, <3>2, ReturnsKeep DEF D!GiveUp
    <3>3. CASE w \in D!Fallbacks(c, D!Downs(docker) \X {disk})
      <4>1. Shrinks(docker, docker')
        BY <1>1, <3>1, <3>3, FallbacksShrink, DownsShrink
      <4> QED
        BY <1>1, <1>5, <2>2, <4>1, ReturnsKeep DEF D!GiveUp
    <3> QED
      BY <3>1, <3>2, <3>3
  <2>3. CASE run.mode = "fresh" /\ D!Return(c)
    <3>1. PICK w \in D!StoppedCleanups(c, {D!World}) : docker' = w[1]
      BY <1>5, <2>3 DEF D!GiveUp
    <3> QED
      BY <1>1, <1>4, <1>5, <2>3, <3>1, ReturnsKeep DEF D!GiveUp
  <2>4. CASE run.mode = "reuse"
    <3>1. /\ D!Goto(c, "build") /\ at'[c] = "build"
          /\ run' = [D!NoRun EXCEPT !.have = TRUE]
          /\ UNCHANGED <<docker, call, pin, built, proved>>
      BY <1>1, <1>5, <2>4 DEF D!GiveUp, D!Goto
    <3>2. IsRun(run') /\ HolderKnows(c)'
      BY <3>1 DEF IsRun, D!NoRun, HolderKnows, Testing
    <3> QED
      BY <1>1, <3>1, <3>2, GoesOnKeeps, ShrinksSelf DEF D!Holding
  <2> QED
    BY <1>5, <2>1, <2>2, <2>3, <2>4 DEF D!GiveUp
<1>6. CASE D!RunDown(c)
  <2>1. docker' \in D!Downs(docker) /\ UNCHANGED <<pin, built, proved>>
    BY <1>6 DEF D!RunDown
  <2>2. Shrinks(docker, docker')
    BY <1>1, <2>1, DownsShrink
  <2>3. CASE D!Return(c)
    BY <1>1, <2>1, <2>2, <2>3, ReturnsKeep
  <2>4. CASE D!Goto(c, "runup") /\ UNCHANGED <<call, run>>
    <3>1. docker'.alias = docker.alias /\ docker'.latest = docker.latest
      BY <1>1, <2>1 DEF D!Downs, Dockers
    <3>2. at'[c] = "runup" /\ at[c] = "rundown"
      BY <1>1, <1>6, <2>4 DEF D!Goto, D!RunDown
    <3>3. HolderKnows(c)'
      BY <1>2, <2>4, <3>1, <3>2 DEF HolderKnows, Testing
    <3> QED
      BY <1>1, <2>1, <2>2, <2>4, <3>3, GoesOnKeeps DEF D!Holding, IsRun
  <2> QED
    BY <1>6, <2>3, <2>4 DEF D!RunDown
<1>7. CASE D!RunUp(c)
  <2>1. /\ docker' \in {docker} \cup D!Ups(docker, docker.latest)
        /\ UNCHANGED <<pin, built, proved>>
    BY <1>7 DEF D!RunUp
  <2>2. Shrinks(docker, docker')
    BY <1>1, <1>2, <2>1, UpsShrink, ShrinksSelf
  <2>3. CASE D!Return(c)
    BY <1>1, <2>1, <2>2, <2>3, ReturnsKeep
  <2>4. CASE run.mode = "fresh" /\ D!Goto(c, "tidy") /\ UNCHANGED <<call, run>>
    <3>1. docker'.alias = docker.alias /\ docker'.latest = docker.latest
      BY <1>1, <2>1 DEF D!Ups, Dockers
    <3>2. at'[c] = "tidy" /\ at[c] = "runup"
      BY <1>1, <1>7, <2>4 DEF D!Goto, D!RunUp
    <3>3. HolderKnows(c)'
      BY <1>2, <2>4, <3>1, <3>2 DEF HolderKnows, Testing
    <3> QED
      BY <1>1, <2>1, <2>2, <2>4, <3>3, GoesOnKeeps DEF D!Holding, IsRun
  <2> QED
    BY <1>7, <2>3, <2>4 DEF D!RunUp
<1>8. CASE D!Tidy(c)
  <2> DEFINE prev == run.prev
             dropped == IF prev = None \/ prev = docker.alias[t] THEN {docker}
                        ELSE D!Rmis(docker, prev)
  <2>1. PICK w \in (dropped \X {disk}) \cup
                   IF run.mode = "reuse" THEN {}
                   ELSE UNION {D!Sweeps(d, disk, run.cand) : d \in dropped} :
               docker' = w[1]
    BY <1>8 DEF D!Tidy, D!Becomes
  <2>2. docker.latest = docker.alias[t]
    BY <1>2, <1>8 DEF D!Tidy, HolderKnows
  <2>3. \A d \in dropped : Shrinks(docker, d)
    BY <1>1, <2>2, RmisShrink, ShrinksSelf
  <2>4. CASE w \in dropped \X {disk}
    BY <1>1, <1>8, <2>1, <2>3, <2>4, ReturnsKeep DEF D!Tidy
  <2>5. CASE w \in UNION {D!Sweeps(d, disk, run.cand) : d \in dropped}
    <3>1. PICK d \in dropped : w \in D!Sweeps(d, disk, run.cand)
      BY <2>5
    <3>2. Shrinks(docker, d) /\ d \in Dockers
      BY <2>3 DEF Shrinks
    <3>3. Shrinks(docker, docker')
      BY <2>1, <3>1, <3>2, SweepsShrink, ShrinksTwice
    <3> QED
      BY <1>1, <1>8, <3>3, ReturnsKeep DEF D!Tidy
  <2> QED
    BY <2>1, <2>4, <2>5
<1> QED
  BY <1>5, <1>6, <1>7, <1>8

\* A stop, the end of a delay, a damaged stamp and an exit know no lock.
LEMMA Surroundings ==
  ASSUME DInv,
         D!StopAsked \/ D!StopDone \/ D!TimePasses \/ D!StampDamaged \/ D!Exit
  PROVE  DInv' /\ Implemented
<1> USE DEF D!UnchangedImages
<1>1. /\ docker \in Dockers /\ call \in [Callers -> Calls] /\ IsRun(run)
      /\ at \in [Callers -> {"idle", "queued"} \cup D!Holding]
  BY DEF DInv, DTyped
<1>2. CASE D!StopAsked
  <2>1. call' \in [Callers -> Calls] /\ \A c \in Callers : call'[c].for = call[c].for
    BY <1>1, <1>2 DEF D!StopAsked, Calls
  <2>2. UNCHANGED <<pin, docker, at, run, built, proved>>
    BY <1>2 DEF D!StopAsked
  <2>3. DTyped'
    BY <2>1, <2>2 DEF DInv, DTyped, IsRun
  <2>4. OneHolder' /\ BuiltOnce' /\ LatestProved' /\ HoldersKnow'
    BY <2>1, <2>2 DEF DInv, OneHolder, BuiltOnce, LatestProved, HoldersKnow,
       HolderKnows
  <2> QED
    BY <1>1, <2>2, <2>3, <2>4, ShrinksSelf DEF DInv, Implemented
<1>3. CASE D!StopDone
  <2>1. /\ docker' \in {docker, [docker EXCEPT !.up = FALSE]}
        /\ UNCHANGED <<pin, call, at, run, built, proved>>
    BY <1>3 DEF D!StopDone
  <2>2. /\ docker'.images = docker.images /\ docker'.latest = docker.latest
        /\ docker'.alias = docker.alias /\ Shrinks(docker, docker')
    BY <1>1, <2>1 DEF Dockers, Shrinks
  <2>3. DTyped'
    BY <2>1, <2>2 DEF DInv, DTyped, IsRun, Shrinks
  <2>4. OneHolder' /\ BuiltOnce' /\ LatestProved' /\ HoldersKnow'
    BY <2>1, <2>2 DEF DInv, OneHolder, BuiltOnce, LatestProved, HoldersKnow,
       HolderKnows
  <2> QED
    BY <2>1, <2>2, <2>3, <2>4 DEF DInv, Implemented
<1>4. CASE D!TimePasses \/ D!StampDamaged
  <2>1. UNCHANGED <<pin, docker, call, at, run, built, proved>>
    BY <1>4 DEF D!TimePasses, D!StampDamaged
  <2>2. DInv'
    BY <2>1 DEF DInv, DTyped, IsRun, OneHolder, BuiltOnce, LatestProved,
       HoldersKnow,
                HolderKnows
  <2> QED
    BY <1>1, <2>1, <2>2, ShrinksSelf DEF Implemented
<1>5. CASE D!Exit
  <2>1. /\ pin' \in Pins /\ call' = [c \in Callers |-> D!NoCall]
        /\ at' = [c \in Callers |-> "idle"] /\ run' = D!NoRun
        /\ UNCHANGED <<docker, built, proved>>
    BY <1>5 DEF D!Exit
  <2>2. DTyped'
    BY <2>1 DEF DInv, DTyped, Calls, D!NoCall, D!NoRun, IsRun
  <2>3. OneHolder' /\ HoldersKnow'
    BY <2>1 DEF OneHolder, HoldersKnow, HolderKnows, D!Holding, Testing
  <2>4. BuiltOnce' /\ LatestProved'
    BY <2>1 DEF DInv, BuiltOnce, LatestProved
  <2> QED
    BY <1>1, <2>1, <2>2, <2>3, <2>4, ShrinksSelf DEF DInv, Implemented
<1> QED
  BY <1>2, <1>3, <1>4, <1>5

\* All steps together.
LEMMA DiiiscoNext == ASSUME DInv, D!Next PROVE DInv' /\ Implemented
<1>1. ASSUME NEW c \in Callers, D!Step(c) PROVE DInv' /\ Implemented
  BY <1>1, Calling, Acquiring, Planning, BuildSucceedsKeeps, BuildFailsKeeps,
     Recording,
     Trying, Judging, Promoting, Finishing DEF D!Step
<1> QED
  BY <1>1, Surroundings DEF D!Next

DiiiscoInv == part = "diiisco" => DInv

\* The invariant holds throughout in Diiisco's part.
LEMMA DiiiscoInvariance == Spec => []DiiiscoInv
<1>1. Init => DiiiscoInv
  BY DiiiscoInit DEF Init, DiiiscoInv
<1>2. DiiiscoInv /\ [Next]_vars => DiiiscoInv'
  <2> SUFFICES ASSUME DiiiscoInv, [Next]_vars, part' = "diiisco" PROVE DInv'
    BY DEF DiiiscoInv
  <2>1. part = "diiisco"
    BY OnePart
  <2>2. CASE D!Next
    BY <2>1, <2>2, DiiiscoNext DEF DiiiscoInv
  <2>3. CASE UNCHANGED vars
    BY <2>1, <2>3 DEF vars, ofDiiisco, DiiiscoInv, DInv, DTyped, IsRun,
       OneHolder,
                      BuiltOnce, LatestProved, HoldersKnow, HolderKnows
  <2> QED
    BY <2>1, <2>2, <2>3, OnePart
<1> QED
  BY <1>1, <1>2, PTL DEF Spec

\* Every step is one of the abstract image store, or a stutter of it.
LEMMA StepIsKeeping ==
  ASSUME DiiiscoInv, [Next]_vars PROVE [Keeping!Next]_(Keeping!vars)
<1>1. part' = part
  BY OnePart
<1>2. CASE part # "diiisco"
  BY <1>1, <1>2 DEF Keeping!vars
<1>3. CASE part = "diiisco" /\ UNCHANGED vars
  BY <1>1, <1>3 DEF Keeping!vars, vars, ofDiiisco
<1>4. CASE part = "diiisco" /\ D!Next
  <2>1. DInv /\ DInv' /\ Implemented
    BY <1>4, DiiiscoNext DEF DiiiscoInv
  <2>2. CASE Shrinks(docker, docker') /\ proved' = proved
    <3> DEFINE S == docker.images \ docker'.images
    <3>1. docker.latest \notin S /\ docker'.images = docker.images \ S
      BY <2>1, <2>2, DiiiscoAssumption DEF DInv, DTyped, Dockers, LatestProved,
         Shrinks
    <3>2. Keeping!Remove(S)
      BY <1>1, <1>4, <2>2, <3>1 DEF Keeping!Remove, Shrinks
    <3> QED
      BY <1>4, <3>2 DEF Keeping!Next
  <2>3. CASE \E i \in D!Images \ (docker.images \cup proved) :
               /\ docker'.images = docker.images \cup {i}
               /\ proved' = proved /\ docker'.latest = docker.latest
    BY <1>1, <1>4, <2>3 DEF Keeping!Next, Keeping!Build
  <2>4. CASE \E i \in docker.images : proved' = proved \cup {i} /\ docker' = docker
    <3>1. docker.images \subseteq D!Images
      BY <2>1 DEF DInv, DTyped, Dockers
    <3> QED
      BY <1>1, <1>4, <2>4, <3>1 DEF Keeping!Next, Keeping!Prove
  <2>5. CASE \E i \in docker.images \cap proved :
               docker'.latest = i /\ docker'.images = docker.images /\ proved' = proved
    <3>1. docker.images \subseteq D!Images
      BY <2>1 DEF DInv, DTyped, Dockers
    <3> QED
      BY <1>1, <1>4, <2>5, <3>1 DEF Keeping!Next, Keeping!Promote
  <2> QED
    BY <2>1, <2>2, <2>3, <2>4, <2>5 DEF Implemented
<1> QED
  BY <1>2, <1>3, <1>4, OnePart

\* Diiisco implements the abstract image keeping, for any tasks, keys and
\* releases (diiisco_rebuild.rs 688-710, 929-1043, 1264-1437).
THEOREM DiiiscoKeepsImages == Spec => LatestIsProvedAndKept
<1>1. Init => Keeping!Init
  <2> SUFFICES ASSUME Init PROVE Keeping!Init
    OBVIOUS
  <2>1. CASE part = "diiisco"
    <3>1. D!Init /\ DInv
      BY <2>1, DiiiscoInit DEF Init
    <3>2. docker.images \in SUBSET D!Images /\ proved = docker.images
          /\ docker.latest \in docker.images \cup {None}
      BY <3>1 DEF DInv, DTyped, Dockers, LatestProved, D!Init
    <3> QED
      BY <2>1, <3>2 DEF Keeping!Init
  <2>2. CASE part # "diiisco"
    BY <2>2 DEF Keeping!Init
  <2> QED
    BY <2>1, <2>2
<1>2. DiiiscoInv /\ [Next]_vars => [Keeping!Next]_(Keeping!vars)
  BY StepIsKeeping
<1> QED
  BY <1>1, <1>2, DiiiscoInvariance, PTL DEF Spec, LatestIsProvedAndKept,
     Keeping!Spec

-----------------------------------------------------------------------------
\* Pawns: unless a decision was lost, the newest readable lines are the owner's
\* decisions, and what a rotation keeps reads as what it has read.

\* Cardinality means the same in the instance.
LEMMA Counting == \A S : C!Cardinality(S) = Cardinality(S)
BY Zenon DEF Cardinality, C!Cardinality

Lines == Seq(C!Line)
Last(l) == C!last_consent_entry_in(l)
Blank(l) == C!Readable(l) = {}

\* The decision that counts is in the anchored log, if there is one in it.
Recorded == decided # "lost" => decided = IF Blank(log) THEN Last(legacy).action
                                                       ELSE Last(log).action

\* A rotation keeps the newest line of what it read; and to the log of a custom
\* root nobody else writes.
Rotating ==
    rotation.at \in {"read", "archived"} =>
        /\ rotation.keep \in Lines /\ Last(rotation.keep) = Last(rotation.read)
        /\ Blank(rotation.keep) <=> Blank(rotation.read)
        /\ root = "custom" => legacy = rotation.read

CInv ==
    /\ now \in 0..MaxNow /\ root \in {"default", "custom"}
    /\ log \in Lines /\ legacy \in Lines
    /\ rotation = [at |-> rotation.at, read |-> rotation.read, keep |-> rotation.keep]
    /\ Recorded /\ Rotating

\* A line that can be read is a decision.
LEMMA ReadableLine ==
  ASSUME NEW l \in Lines
  PROVE  /\ Len(l) \in Nat /\ DOMAIN l = 1..Len(l) /\ C!Readable(l) \subseteq 1..Len(l)
         /\ \A i \in C!Readable(l) : l[i] \in C!Entry
<1>1. Len(l) \in Nat /\ DOMAIN l = 1..Len(l) /\ \A i \in 1..Len(l) : l[i] \in C!Line
  BY DEF Lines
<1> QED
  BY <1>1 DEF C!Readable, C!Line

\* A log with a readable line has a newest one.
LEMMA NewestExists ==
  ASSUME NEW l \in Lines, ~Blank(l)
  PROVE  \E i : C!IsNewest(l, i)
<1> DEFINE n == Len(l)
           gaps == {n - i : i \in C!Readable(l)}
           less == OpToRel(<, Nat)
<1>1. n \in Nat /\ C!Readable(l) \subseteq 1..n
  BY ReadableLine
<1> HIDE DEF n
<1>2. gaps \subseteq Nat /\ gaps # {}
  BY <1>1 DEF Blank
<1>3. IsWellFoundedOn(less, Nat)
  BY NatLessThanWellFounded
<1>4. \A j, m \in Nat : <<j, m>> \in less <=> j < m
  BY DEF OpToRel
<1>5. PICK m \in gaps : \A g \in gaps : ~(<<g, m>> \in less)
  <2> HIDE DEF gaps, less
  <2> QED
    BY <1>2, <1>3, WFMin, Zenon
<1>6. \A g \in gaps : m <= g
  <2> HIDE DEF gaps, less
  <2> TAKE g \in gaps
  <2>1. m \in Nat /\ g \in Nat
    BY <1>2
  <2>2. ~(g < m)
    BY <1>4, <1>5, <2>1, Zenon
  <2> QED
    BY <2>1, <2>2
<1>7. PICK i \in C!Readable(l) : m = n - i
  BY <1>5
<1>8. ASSUME NEW j \in C!Readable(l) PROVE j <= i
  <2>1. n - j \in gaps
    OBVIOUS
  <2>2. m <= n - j
    <3> HIDE DEF gaps
    <3> QED
      BY <1>6, <2>1
  <2> QED
    BY <1>1, <1>7, <2>2
<1> QED
  BY <1>7, <1>8 DEF C!IsNewest

\* It is the line that is read.
LEMMA NewestLine ==
  ASSUME NEW l \in Lines, NEW i, C!IsNewest(l, i)
  PROVE  Last(l) = l[i] /\ Last(l) \in C!Entry /\ ~Blank(l)
<1> DEFINE j == CHOOSE k \in DOMAIN l : C!IsNewest(l, k)
<1>1. i \in C!Readable(l) /\ i \in DOMAIN l
  BY ReadableLine DEF C!IsNewest
<1>2. j \in DOMAIN l /\ C!IsNewest(l, j)
  BY <1>1
<1>3. i = j
  BY <1>2, ReadableLine DEF C!IsNewest
<1>4. Last(l) = l[j]
  BY <1>1 DEF Last, C!last_consent_entry_in
<1> QED
  BY <1>1, <1>3, <1>4, ReadableLine DEF Blank

\* A log without a readable line tells of nobody.
LEMMA BlankLine ==
  ASSUME NEW l, Blank(l)
  PROVE  Last(l) = C!Nobody
BY DEF Blank, Last, C!last_consent_entry_in

\* Logs whose newest lines are the same read the same.
LEMMA SameLast ==
  ASSUME NEW l \in Lines, NEW k \in Lines,
         \A i : C!IsNewest(l, i) => \E j : C!IsNewest(k, j) /\ k[j] = l[i],
         Blank(l) => Blank(k)
  PROVE  Last(k) = Last(l) /\ (Blank(k) <=> Blank(l))
<1>1. CASE Blank(l)
  BY <1>1, BlankLine
<1>2. CASE ~Blank(l)
  <2>1. PICK i : C!IsNewest(l, i)
    BY <1>2, NewestExists
  <2>2. PICK j : C!IsNewest(k, j) /\ k[j] = l[i]
    BY <2>1
  <2> QED
    BY <2>1, <2>2, NewestLine
<1> QED
  BY <1>1, <1>2

\* The newest line of a log is not among those that a rotation takes.
LEMMA LastIsKept ==
  ASSUME NEW l \in Lines, NEW k \in C!Kept(l)
  PROVE  k \in Lines /\ Last(k) = Last(l) /\ (Blank(k) <=> Blank(l))
<1> DEFINE kept == DOMAIN l \ C!Stale(l)
           n == Cardinality(kept)
<1>1. Len(l) \in Nat /\ DOMAIN l = 1..Len(l) /\ l \in [1..Len(l) -> C!Line]
  BY DEF Lines
<1>2. kept \subseteq 1..Len(l) /\ \A i : C!IsNewest(l, i) => i \in kept
  BY <1>1 DEF C!Stale, C!consent_entry_is_stale, C!IsNewest, C!Readable
<1>3. n \in Nat
  <2>1. IsFiniteSet(1..Len(l))
    BY <1>1, FS_Interval
  <2>2. IsFiniteSet(kept)
    BY <1>2, <2>1, FS_Subset
  <2> QED
    BY <2>2, FS_CardinalityType
<1>4. PICK f \in [1..n -> kept] :
         /\ k = [i \in DOMAIN f |-> l[f[i]]]
         /\ kept = {f[i] : i \in DOMAIN f}
         /\ \A i, j \in DOMAIN f : i < j => f[i] < f[j]
  BY Counting DEF C!Kept
<1> HIDE DEF kept, n
<1>5. DOMAIN f = 1..n /\ \A i \in 1..n : f[i] \in 1..Len(l)
  BY <1>2, <1>4
<1>6. k \in [1..n -> C!Line] /\ \A i \in 1..n : k[i] = l[f[i]]
  BY <1>1, <1>4, <1>5
<1>7. k \in Lines /\ DOMAIN k = 1..n
  BY <1>3, <1>6 DEF Lines
<1>8. ASSUME NEW i \in C!Readable(k) PROVE i \in 1..n /\ f[i] \in C!Readable(l)
  BY <1>1, <1>5, <1>6, <1>7, <1>8 DEF C!Readable
<1>9. ASSUME NEW i, C!IsNewest(l, i) PROVE \E j : C!IsNewest(k, j) /\ k[j] = l[i]
  <2>1. i \in kept /\ i \in C!Readable(l) /\ \A m \in C!Readable(l) : m <= i
    BY <1>2, <1>9 DEF C!IsNewest
  <2>2. PICK j \in 1..n : f[j] = i
    BY <1>4, <1>5, <2>1
  <2>3. j \in C!Readable(k) /\ k[j] = l[i]
    BY <1>6, <1>7, <2>1, <2>2 DEF C!Readable
  <2>4. ASSUME NEW m \in C!Readable(k) PROVE m <= j
    <3>1. m \in 1..n /\ f[m] <= i
      BY <1>8, <2>1
    <3>2. j < m => f[j] < f[m]
      BY <1>4, <1>5, <3>1
    <3> QED
      BY <1>3, <1>5, <2>2, <3>1, <3>2
  <2> QED
    BY <2>3, <2>4 DEF C!IsNewest
<1>10. Blank(l) => Blank(k)
  BY <1>8 DEF Blank
<1> QED
  BY <1>7, <1>9, <1>10, SameLast

\* A decision appended is the newest line.
LEMMA Appended ==
  ASSUME NEW l \in Lines, NEW line \in C!Entry
  PROVE  /\ Append(l, line) \in Lines /\ Append(l, line) # l
         /\ Last(Append(l, line)) = line /\ ~Blank(Append(l, line))
<1> DEFINE k == Append(l, line)
<1>1. /\ k \in Lines /\ Len(k) = Len(l) + 1 /\ DOMAIN k = 1..(Len(l) + 1)
      /\ k[Len(l) + 1] = line /\ Len(l) \in Nat
  BY DEF Lines, C!Line
<1> HIDE DEF k
<1>2. line # C!Torn
  BY DEF C!Torn, C!Entry
<1>3. C!IsNewest(k, Len(l) + 1)
  BY <1>1, <1>2 DEF C!IsNewest, C!Readable
<1>4. Last(k) = line /\ ~Blank(k)
  BY <1>1, <1>3, NewestLine
<1>5. k # l
  BY <1>1
<1> QED
  BY <1>1, <1>4, <1>5 DEF k

\* A torn line changes nothing of what is read.
LEMMA AppendedTorn ==
  ASSUME NEW l \in Lines
  PROVE  /\ Append(l, C!Torn) \in Lines
         /\ Last(Append(l, C!Torn)) = Last(l)
         /\ Blank(Append(l, C!Torn)) <=> Blank(l)
<1> DEFINE k == Append(l, C!Torn)
<1>1. /\ k \in Lines /\ DOMAIN k = 1..(Len(l) + 1) /\ DOMAIN l = 1..Len(l)
      /\ k[Len(l) + 1] = C!Torn /\ Len(l) \in Nat
      /\ \A i \in 1..Len(l) : k[i] = l[i]
  BY DEF Lines, C!Line
<1> HIDE DEF k
<1>2. C!Readable(k) = C!Readable(l)
  BY <1>1 DEF C!Readable
<1>3. \A i : C!IsNewest(l, i) => C!IsNewest(k, i) /\ k[i] = l[i]
  BY <1>1, <1>2 DEF C!IsNewest, C!Readable
<1>4. Last(k) = Last(l) /\ (Blank(k) <=> Blank(l))
  BY <1>1, <1>2, <1>3, SameLast DEF Blank
<1> QED
  BY <1>1, <1>4 DEF k

\* What a step does to the logs: what is read stays the same, or a decision is
\* appended, or one is lost.
Records(action) ==
    /\ decided' = action
    /\ log' = Append(log, [action |-> action, at |-> now])

LogSame ==
    /\ decided' = decided
    /\ Last(log') = Last(log) /\ (Blank(log') <=> Blank(log))

LegacySame == Last(legacy') = Last(legacy)

LogStep ==
    \/ LogSame /\ LegacySame
    \/ legacy' = legacy /\ (Records("consent") \/ Records("withdrawal"))
    \/ decided' = "lost"

\* Of an append the log shows nothing new, or the decision, or it loses one.
LEMMA DecisionRecorded ==
  ASSUME log \in Lines, now \in 0..MaxNow, NEW action \in {"consent", "withdrawal"},
         C!Append1(action)
  PROVE  log' \in Lines /\ (LogSame \/ Records(action) \/ decided' = "lost")
<1> DEFINE line == [action |-> action, at |-> now]
<1>1. CASE UNCHANGED <<log, ended, decided>>
  BY <1>1 DEF LogSame
<1>2. CASE log' = Append(log, line) /\ decided' = action
  <2>1. line \in C!Entry
    BY DEF C!Entry
  <2> QED
    BY <1>2, <2>1, Appended DEF Records
<1>3. CASE log' = Append(log, C!Torn) /\ decided' = decided
  BY <1>3, AppendedTorn DEF LogSame
<1>4. CASE log' = [log EXCEPT ![Len(log)] = C!Torn] /\ decided' = "lost"
  <2>1. Len(log) \in Nat /\ log \in [1..Len(log) -> C!Line] /\ C!Torn \in C!Line
    BY DEF Lines, C!Line
  <2>2. log' \in [1..Len(log) -> C!Line]
    BY <1>4, <2>1
  <2>3. \A n \in Nat : [1..n -> C!Line] \subseteq Lines
    BY DEF Lines
  <2> QED
    BY <1>4, <2>1, <2>2, <2>3
<1> QED
  BY <1>1, <1>2, <1>3, <1>4 DEF C!Append1

\* Where the rotation and the older log are left alone, the invariant stays.
LEMMA LogWritten ==
  ASSUME CInv, rotation' = rotation, root' = root, now' = now, legacy' = legacy,
         log' \in Lines,
         LogSame \/ Records("consent") \/ Records("withdrawal") \/ decided' = "lost"
  PROVE  CInv' /\ LogStep
<1>1. LogStep
  BY DEF LogStep, LegacySame
<1>2. Rotating'
  BY DEF CInv, Rotating, Last, Blank
<1>3. LogSame => Recorded'
  BY DEF LogSame, CInv, Recorded, Last, Blank
<1>4. ASSUME NEW action \in {"consent", "withdrawal"}, Records(action)
      PROVE  Recorded'
  <2> DEFINE line == [action |-> action, at |-> now]
  <2>1. log' = Append(log, line) /\ decided' = action /\ line \in C!Entry
    BY <1>4 DEF Records, CInv, C!Entry
  <2> HIDE DEF line
  <2>2. Last(log') = line /\ ~Blank(log')
    BY <2>1, Appended DEF CInv
  <2> QED
    BY <2>1, <2>2 DEF Recorded, line, Last, Blank
<1>5. Recorded'
  BY <1>3, <1>4 DEF Recorded, LogSame, CInv, Last, Blank
<1> QED
  BY <1>1, <1>2, <1>5 DEF CInv

\* Every step keeps the invariant.
LEMMA PawnsNext ==
  ASSUME CInv, C!Next
  PROVE  CInv' /\ LogStep
<1>1. CASE C!ToggleOn \/ C!cancelConsent \/ C!ToggleRefused \/ C!ToggleStarts
           \/ C!TaskStarts \/ C!ToggleOff \/ C!ToggleOffFails \/ C!EngineTurns
           \/ \E s \in {"user", "task"} : C!StartFails(s)
  <2>1. UNCHANGED <<now, root, log, legacy, rotation, decided>>
    BY <1>1 DEF C!ToggleOn, C!cancelConsent, C!ToggleRefused, C!ToggleStarts,
           C!TaskStarts, C!ToggleOff, C!ToggleOffFails, C!EngineTurns, C!StartFails,
           C!logs
  <2>2. LogSame /\ log' \in Lines
    BY <2>1 DEF LogSame, CInv
  <2> QED
    BY <2>1, <2>2, LogWritten
<1>2. CASE C!confirmConsent \/ C!StopRecords \/ C!revoke_consent
           \/ \E s \in {"user", "task"} : C!StartRuns(s)
  <2>1. UNCHANGED <<now, root, legacy, rotation>>
    BY <1>2 DEF C!confirmConsent, C!StopRecords, C!revoke_consent, C!StartRuns
  <2>2. \/ \E a \in {"consent", "withdrawal"} : C!Append1(a)
        \/ log' = log /\ decided' = decided
    BY <1>2 DEF C!confirmConsent, C!StopRecords, C!revoke_consent, C!StartRuns,
           C!grant_consent, C!record_start_consent
  <2>3. CASE log' = log /\ decided' = decided
    <3>1. LogSame /\ log' \in Lines
      BY <2>3 DEF LogSame, CInv
    <3> QED
      BY <2>1, <3>1, LogWritten
  <2>4. ASSUME NEW a \in {"consent", "withdrawal"}, C!Append1(a) PROVE CInv' /\ LogStep
    BY <2>1, <2>4, DecisionRecorded, LogWritten DEF CInv
  <2> QED
    BY <2>2, <2>3, <2>4
<1>3. CASE C!Relaunch \/ C!ClockMoves
  <2>1. log' = log /\ legacy' = legacy /\ decided' = decided /\ now' \in 0..MaxNow
        /\ root' \in {"default", "custom"}
    BY <1>3 DEF C!Relaunch, C!ClockMoves, C!logs, CInv
  <2>2. rotation' = [C!Idle EXCEPT !.at = "due"] \/ (rotation' = rotation /\ root' = root)
    BY <1>3 DEF C!Relaunch, C!ClockMoves, C!logs
  <2>3. Rotating' /\ rotation' = [at |-> rotation'.at, read |-> rotation'.read,
                                  keep |-> rotation'.keep]
    BY <2>1, <2>2 DEF C!Idle, CInv, Rotating, Last, Blank
  <2> QED
    BY <2>1, <2>3 DEF CInv, Recorded, LogStep, LogSame, LegacySame, Last, Blank
<1>4. CASE C!RotationReads \/ C!RotationArchives
  <2>1. UNCHANGED <<now, root, log, legacy, decided>>
    BY <1>4 DEF C!RotationReads, C!RotationArchives
  <2>2. /\ Rotating'
        /\ rotation' = [at |-> rotation'.at, read |-> rotation'.read, keep |-> rotation'.keep]
    <3>1. CASE rotation' = C!Idle
      BY <3>1 DEF C!Idle, Rotating
    <3>2. CASE rotation' \in [at : {"read"}, read : {C!Current}, keep : C!Kept(C!Current)]
      <4>1. PICK k \in C!Kept(C!Current) :
              rotation' = [at |-> "read", read |-> C!Current, keep |-> k]
        BY <3>2
      <4>2. C!Current \in Lines /\ (root = "custom" => C!Current = legacy)
        BY DEF CInv, C!Current
      <4> HIDE DEF C!Current
      <4>3. k \in Lines /\ Last(k) = Last(C!Current) /\ (Blank(k) <=> Blank(C!Current))
        BY <4>2, LastIsKept
      <4> QED
        BY <2>1, <4>1, <4>2, <4>3 DEF Rotating, Last, Blank
    <3>3. CASE rotation.at = "read" /\ rotation' = [rotation EXCEPT !.at = "archived"]
      <4>1. /\ rotation'.read = rotation.read /\ rotation'.keep = rotation.keep
            /\ rotation' = [at |-> "archived", read |-> rotation.read,
                            keep |-> rotation.keep]
        BY <3>3 DEF CInv
      <4> QED
        BY <2>1, <3>3, <4>1 DEF CInv, Rotating, Last, Blank
    <3> QED
      BY <1>4, <3>1, <3>2, <3>3 DEF C!RotationReads, C!RotationArchives
  <2> QED
    BY <2>1, <2>2 DEF CInv, Recorded, LogStep, LogSame, LegacySame, Last, Blank
<1>5. CASE C!RotationSwaps
  <2>1. /\ now' = now /\ root' = root /\ rotation' = C!Idle /\ Rotating'
        /\ rotation' = [at |-> rotation'.at, read |-> rotation'.read, keep |-> rotation'.keep]
    BY <1>5 DEF C!RotationSwaps, C!Idle, Rotating
  <2>2. /\ rotation.keep \in Lines /\ Last(rotation.keep) = Last(rotation.read)
        /\ Blank(rotation.keep) <=> Blank(rotation.read)
        /\ root = "custom" => legacy = rotation.read
    BY <1>5 DEF C!RotationSwaps, CInv, Rotating
  <2>3. CASE UNCHANGED <<log, legacy, decided>>
    BY <2>1, <2>3 DEF CInv, Recorded, LogStep, LogSame, LegacySame, Last, Blank
  <2>4. CASE /\ log' = rotation.keep /\ legacy' = legacy
             /\ decided' = IF log = rotation.read THEN decided ELSE "lost"
    <3>1. LogSame \/ decided' = "lost"
      BY <2>2, <2>4 DEF LogSame
    <3>2. Recorded'
      BY <2>4, <3>1 DEF CInv, Recorded, LogSame, Last, Blank
    <3> QED
      BY <2>1, <2>2, <2>4, <3>1, <3>2 DEF CInv, LogStep, LegacySame
  <2>5. CASE root = "custom" /\ legacy' = rotation.keep /\ UNCHANGED <<log, decided>>
    <3>1. LogSame /\ LegacySame
      BY <2>2, <2>5 DEF LogSame, LegacySame
    <3>2. Recorded'
      BY <2>5, <3>1 DEF CInv, Recorded, LogSame, LegacySame, Last, Blank
    <3> QED
      BY <2>1, <2>2, <2>5, <3>1, <3>2 DEF CInv, LogStep
  <2> QED
    BY <1>5, <2>3, <2>4, <2>5 DEF C!RotationSwaps
<1> QED
  BY <1>1, <1>2, <1>3, <1>4, <1>5 DEF C!Next

PawnsInv == part = "pawns" => CInv

\* The logs of earlier launches satisfy the invariant.
LEMMA PawnsInit == ASSUME C!Init PROVE CInv
<1>1. <<>> \in Lines /\ Blank(<<>>)
  BY DEF Lines, Blank, C!Readable
<1>2. legacy \in Lines
  <2>1. ASSUME NEW a \in {"consent", "withdrawal"}
        PROVE  <<[action |-> a, at |-> 0]>> \in Lines
    <3>1. [action |-> a, at |-> 0] \in C!Line
      BY PawnsAssumption DEF C!Entry, C!Line
    <3> QED
      BY <3>1 DEF Lines
  <2> QED
    BY <1>1, <2>1 DEF C!Init
<1> QED
  BY <1>1, <1>2, PawnsAssumption DEF C!Init, C!Idle, CInv, Recorded, Rotating, Last

\* What is read is the newest line of the log, or of the older log, and either is
\* what the owner decided.
LEMMA ConsentRead ==
  ASSUME CInv
  PROVE  /\ C!consent_active => decided \in {"consent", "lost"}
         /\ Last(log) \in C!Entry \cup {C!Nobody}
         /\ Last(legacy) \in C!Entry \cup {C!Nobody}
<1>1. ASSUME NEW l \in Lines
      PROVE  /\ ~Blank(l) => Last(l) \in C!Entry
             /\ Blank(l) => Last(l) = C!Nobody
  BY NewestExists, NewestLine, BlankLine
<1>2. /\ log \in Lines /\ legacy \in Lines /\ Recorded
  BY DEF CInv
<1>3. C!consent_active => decided \in {"consent", "lost"}
  BY <1>1, <1>2 DEF Recorded, C!consent_active, C!consent_record,
         C!last_consent_entry_across, C!Entry, C!Nobody, Last
<1> QED
  BY <1>1, <1>2, <1>3

\* The invariant holds throughout in Pawns' part.
LEMMA PawnsInvariance == Spec => []PawnsInv
<1>1. Init => PawnsInv
  BY PawnsInit DEF Init, PawnsInv
<1>2. PawnsInv /\ [Next]_vars => PawnsInv'
  <2> SUFFICES ASSUME PawnsInv, [Next]_vars PROVE PawnsInv'
    OBVIOUS
  <2>1. CASE UNCHANGED vars
    BY <2>1 DEF vars, ofPawns, PawnsInv, CInv, Recorded, Rotating, Last, Blank
  <2>2. CASE part = "pawns" /\ C!Next
    BY <2>2, OnePart, PawnsNext DEF PawnsInv
  <2>3. CASE part # "pawns"
    BY <2>3, OnePart DEF PawnsInv
  <2> QED
    BY <2>1, <2>2, <2>3, OnePart
<1> QED
  BY <1>1, <1>2, PTL DEF Spec

\* What FEM reads as a consent is the owner's last recorded decision, for any
\* logs, times and retention and however rotation, clicks and launches
\* interleave, as long as no decision is lost: to a swap that had read the log
\* before, or to a line without its newline (pawns.rs 182-255, 409-419, 524-568).
THEOREM OwnersConsent == Spec => []ConsentIsTheOwners
<1>1. PawnsInv => ConsentIsTheOwners
  BY ConsentRead DEF PawnsInv, ConsentIsTheOwners, C!ConsentIsTheOwners
<1> QED
  BY <1>1, PawnsInvariance, PTL

\* A consent in force ends by a withdrawal, by a launch with another storage
\* root, by a line written under a clock that was set back, or with a decision
\* that is lost: no restart, exit or rotation ends it otherwise (pawns.rs
\* 363-380, main.rs 236-247).
THEOREM ConsentStands == Spec => OnlyTheOwnerWithdraws
<1> DEFINE Stands == part = "pawns" /\ C!consent_active /\ ~C!consent_active' =>
                        \/ decided' \in {"withdrawal", "lost"} \/ root' # root
                        \/ log' # log /\ now < C!consent_record.at
<1>1. PawnsInv /\ [Next]_vars => [Stands]_vars
  <2> SUFFICES ASSUME PawnsInv, [Next]_vars, part = "pawns", C!consent_active,
                      ~C!consent_active', decided' \notin {"withdrawal", "lost"},
                      root' = root
               PROVE  log' # log /\ now < C!consent_record.at
    OBVIOUS
  <2>1. CInv
    BY DEF PawnsInv
  <2>2. CASE UNCHANGED vars
    BY <2>2 DEF vars, ofPawns, C!consent_active, C!consent_record
  <2>3. CASE C!Next
    <3>1. LogStep
      BY <2>1, <2>3, PawnsNext
    <3> DEFINE anchored == Last(log)
               older == IF root = "default" THEN C!Nobody ELSE Last(legacy)
               anchored1 == Last(log')
               older1 == IF root' = "default" THEN C!Nobody ELSE Last(legacy')
    <3>2. /\ C!consent_record = C!last_consent_entry_across(anchored, older)
          /\ C!consent_record' = C!last_consent_entry_across(anchored1, older1)
      BY DEF C!consent_record, Last
    <3>3. CASE anchored1 = anchored /\ older1 = older
      BY <3>2, <3>3 DEF C!consent_active
    <3>4. CASE legacy' = legacy /\ Records("consent")
      <4> DEFINE line == [action |-> "consent", at |-> now]
      <4>1. older1 = older
        BY <3>4
      <4>2. log' = Append(log, line) /\ line \in C!Entry /\ log \in Lines
        BY <2>1, <3>4 DEF Records, CInv, C!Entry
      <4>3. anchored1 = line /\ log' # log
        BY <4>2, Appended
      <4>4. /\ anchored \in C!Entry \cup {C!Nobody} /\ older \in C!Entry \cup {C!Nobody}
        BY <2>1, ConsentRead
      <4> HIDE DEF anchored, older, anchored1, older1
      <4>5. older.action # "consent" /\ older.action # "none" /\ older.at >= now
        BY <2>1, <3>2, <4>1, <4>3, <4>4 DEF C!consent_active,
           C!last_consent_entry_across, C!Entry, C!Nobody, CInv
      <4>6. anchored.action = "consent" /\ anchored.at > older.at
            /\ C!consent_record = anchored
        BY <3>2, <4>4, <4>5 DEF C!consent_active,
           C!last_consent_entry_across, C!Entry, C!Nobody
      <4>7. now < anchored.at
        BY <2>1, <4>4, <4>5, <4>6 DEF C!Entry, C!Nobody, CInv
      <4> QED
        BY <4>3, <4>6, <4>7
    <3> QED
      BY <3>1, <3>3, <3>4 DEF LogStep, LogSame, LegacySame, Records
  <2> QED
    BY <2>2, <2>3, OnePart
<1> QED
  BY <1>1, PawnsInvariance, PTL DEF Spec, OnlyTheOwnerWithdraws

-----------------------------------------------------------------------------
\* Docker: some docker can be run; then a cached or a resolved answer is wrong
\* when that docker cannot be.
Findable == E!OnPath \/ E!Beside

Wrong(which) == which # None /\ ~E!Runs(which)

\* The others that are about to cache a wrong answer, and whether c has one or
\* will read one.
Behind(c) == {d \in Pair \ {c} : at[d] = "resolved" /\ Wrong(ask[d].cmd)}

Misled(c) == Wrong(cli) \/ (at[c] \in {"resolved", "spawn"} /\ Wrong(ask[c].cmd))

\* The misses of a caller and those still to come.
Counted(c) ==
    missed[c] + Cardinality(Behind(c)) + (IF Misled(c) THEN 1 ELSE 0)
        <= Cardinality(Pair)

Steps == {"idle", "command", "resolved", "spawn", "evidence", "fetch", "gate",
          "prompt"}

ETyped ==
    /\ cli \in {None, "docker", "copy"}
    /\ at \in [Pair -> Steps]
    /\ ask \in [Pair -> E!Ask] /\ missed \in [Pair -> Nat]

EInv ==
    /\ ETyped
    /\ \A c \in Pair : Counted(c) /\ (~Findable => missed[c] = 0)

\* A caller that has missed nothing has room for every other one's wrong answer.
LEMMA NothingMissed ==
  ASSUME NEW c \in Pair, missed'[c] = 0
  PROVE  Counted(c)'
<1>1. Behind(c)' \subseteq Pair \ {c}
  BY DEF Behind
<1>2. /\ IsFiniteSet(Pair \ {c}) /\ Cardinality(Pair \ {c}) = Cardinality(Pair) - 1
      /\ Cardinality(Pair) \in Nat
  BY EngineAssumption, FS_RemoveElement, FS_CardinalityType
<1>3. /\ Cardinality(Behind(c)') \in Nat
      /\ Cardinality(Behind(c)') <= Cardinality(Pair) - 1
  BY <1>1, <1>2, FS_Subset, FS_CardinalityType
<1> QED
  BY <1>2, <1>3 DEF Counted

\* The callers that may still write a wrong answer can be counted.
LEMMA BehindFinite ==
  ASSUME NEW c \in Pair
  PROVE  IsFiniteSet(Behind(c)) /\ Cardinality(Behind(c)) \in Nat
<1>1. Behind(c) \subseteq Pair
  BY DEF Behind
<1> QED
  BY <1>1, EngineAssumption, FS_Subset, FS_CardinalityType

\* A step after which no more callers are misled costs nothing.
LEMMA NoneAdded ==
  ASSUME NEW c \in Pair, Counted(c), missed[c] \in Nat,
         missed'[c] = missed[c], Behind(c)' \subseteq Behind(c),
         Misled(c)' => Misled(c)
  PROVE  Counted(c)'
<1>1. Cardinality(Behind(c)') <= Cardinality(Behind(c))
  BY BehindFinite, FS_Subset
<1>2. Cardinality(Behind(c)') \in Nat /\ Cardinality(Behind(c)) \in Nat
  <2>1. IsFiniteSet(Behind(c)')
    BY BehindFinite, FS_Subset
  <2> QED
    BY <2>1, BehindFinite, FS_CardinalityType
<1>3. Cardinality(Pair) \in Nat
  BY EngineAssumption, FS_CardinalityType
<1>4. CASE Misled(c)'
  BY <1>1, <1>2, <1>3, <1>4 DEF Counted
<1>5. CASE ~Misled(c)'
  BY <1>1, <1>2, <1>3, <1>5 DEF Counted
<1> QED
  BY <1>4, <1>5

\* What a caller's move from one step to the next leaves alone.
LEMMA Going ==
  ASSUME ETyped, NEW c \in Pair, NEW step \in Steps, NEW a \in E!Ask,
         E!Goes(c, step, a)
  PROVE  /\ at' \in [Pair -> Steps] /\ ask' \in [Pair -> E!Ask]
         /\ at'[c] = step /\ (step # "idle" => ask'[c] = a)
         /\ \A d \in Pair \ {c} : at'[d] = at[d] /\ ask'[d] = ask[d]
<1>1. E!Nothing \in E!Ask
  BY DEF E!Nothing, E!Ask
<1> QED
  BY <1>1 DEF ETyped, E!Goes

\* A step of c that neither resolves nor counts.
LEMMA Quiet ==
  ASSUME EInv, NEW c \in Pair, NEW step \in Steps \ {"resolved", "spawn"},
         NEW a \in E!Ask, E!Goes(c, step, a), UNCHANGED <<docker, known, path>>,
         cli' \in {cli, None}, missed' = missed
  PROVE  EInv'
<1>1. ETyped'
  BY Going DEF EInv, ETyped, Steps
<1>2. \A w : Wrong(w)' <=> Wrong(w)
  BY DEF Wrong, E!Runs, E!OnPath, E!Beside, E!There
<1>3. ASSUME NEW d \in Pair
      PROVE  Counted(d)'
  <2>1. Behind(d)' \subseteq Behind(d)
    BY <1>2, Going DEF EInv, Behind
  <2>2. Misled(d)' => Misled(d)
    BY <1>2, Going DEF EInv, Misled, Wrong
  <2> QED
    BY <1>3, <2>1, <2>2, NoneAdded DEF EInv, ETyped
<1>4. \A d \in Pair : ~Findable' => missed'[d] = 0
  BY DEF EInv, Findable, E!OnPath, E!Beside, E!There
<1> QED
  BY <1>1, <1>3, <1>4 DEF EInv

\* A note about a request does not change its command.
LEMMA StillAsked ==
  ASSUME NEW a \in E!Ask, NEW b \in BOOLEAN
  PROVE  [a EXCEPT !.steady = b] \in E!Ask /\ [a EXCEPT !.steady = b].cmd = a.cmd
BY DEF E!Ask

\* Docker comes, goes, starts or stops.
LEMMA Becoming ==
  ASSUME EInv, NEW d, NEW k, NEW asked \in [Pair -> E!Ask],
         E!DockerBecomes(d, k, asked), cli' = cli,
         at' \in [Pair -> Steps],
         \A c \in Pair : /\ asked[c].cmd = ask[c].cmd
                         /\ at'[c] \in {at[c], "command"}
  PROVE  EInv'
<1>1. ask' = [c \in Pair |-> [asked[c] EXCEPT !.steady = @ /\ d = "running"]]
  BY DEF E!DockerBecomes
<1>2. ASSUME NEW c \in Pair
      PROVE  ask'[c] \in E!Ask /\ ask'[c].cmd = ask[c].cmd
  <2>1. asked[c] \in E!Ask /\ asked[c].cmd = ask[c].cmd
    OBVIOUS
  <2> DEFINE still == asked[c].steady /\ d = "running"
  <2>2. ask'[c] = [asked[c] EXCEPT !.steady = still]
    BY <1>1, Zenon
  <2>3. still \in BOOLEAN
    OBVIOUS
  <2> HIDE DEF still
  <2> QED
    BY <2>1, <2>2, <2>3, StillAsked
<1>3. ETyped'
  <2>1. ask' \in [Pair -> E!Ask]
    BY <1>1, <1>2
  <2>2. missed' \in [Pair -> Nat]
    BY DEF EInv, ETyped, E!DockerBecomes
  <2> QED
    BY <2>1, <2>2 DEF EInv, ETyped
<1>4. CASE E!There = (d # "absent") /\ k = known
  <2>1. (\A w : Wrong(w)' <=> Wrong(w)) /\ missed' = missed /\ Findable' = Findable
    BY <1>4 DEF E!DockerBecomes, Wrong, Findable, E!Runs, E!OnPath, E!Beside,
       E!There
  <2>2. ASSUME NEW c \in Pair
        PROVE  Counted(c)'
    <3>1. Behind(c)' \subseteq Behind(c)
      BY <1>2, <2>1 DEF Behind
    <3>2. Misled(c)' => Misled(c)
      BY <1>2, <2>1 DEF Misled
    <3> QED
      BY <2>1, <2>2, <3>1, <3>2, NoneAdded DEF EInv, ETyped
  <2> QED
    BY <1>3, <2>1, <2>2 DEF EInv
<1>5. CASE ~(E!There = (d # "absent") /\ k = known)
  <2>1. missed' = [c \in Pair |-> 0]
    BY <1>5 DEF E!DockerBecomes
  <2>2. \A c \in Pair : Counted(c)'
    BY <2>1, NothingMissed
  <2> QED
    BY <1>3, <2>1, <2>2 DEF EInv
<1> QED
  BY <1>4, <1>5

\* The commands that are asked for.
LEMMA Kinds ==
  /\ \A a \in E!Ask : a.cmd \in {"docker", "copy"}
  /\ E!Nothing \in E!Ask
BY DEF E!Ask, E!Nothing

\* docker_command, for the one of the callers and for the others.
LEMMA Resolving ==
  ASSUME EInv, NEW c \in Pair, E!Command(c) \/ E!Resolved(c)
  PROVE  EInv'
<1>1. \A w : Wrong(w)' <=> Wrong(w)
  BY DEF E!Command, E!Resolved, E!machine, Wrong, E!Runs, E!OnPath, E!Beside,
     E!There
<1>2. Findable' = Findable /\ missed' = missed
  BY DEF E!Command, E!Resolved, E!machine, Findable, E!OnPath, E!Beside,
     E!There
<1>3. CASE E!Command(c) /\ cli # None
  <2> DEFINE a == [ask[c] EXCEPT !.cmd = cli]
  <2>1. a \in E!Ask /\ a.cmd = cli
    BY <1>3 DEF EInv, ETyped, E!Ask
  <2>2. E!Goes(c, "spawn", a) /\ cli' = cli
    BY <1>3 DEF E!Command
  <2>3. /\ at' \in [Pair -> Steps] /\ ask' \in [Pair -> E!Ask]
        /\ at'[c] = "spawn" /\ ask'[c] = a
        /\ \A d \in Pair \ {c} : at'[d] = at[d] /\ ask'[d] = ask[d]
    BY <2>1, <2>2, Going DEF EInv, Steps
  <2>4. ASSUME NEW d \in Pair
        PROVE  Counted(d)'
    <3>1. Behind(d)' \subseteq Behind(d)
      BY <1>1, <2>3 DEF Behind
    <3>2. Misled(d)' => Misled(d)
      BY <1>1, <2>1, <2>2, <2>3 DEF Misled
    <3> QED
      BY <1>2, <2>4, <3>1, <3>2, NoneAdded DEF EInv, ETyped
  <2> QED
    BY <1>2, <2>2, <2>3, <2>4 DEF EInv, ETyped
<1>4. CASE E!Command(c) /\ cli = None
  <2> DEFINE cmd == IF ~E!OnPath /\ E!Beside THEN "copy" ELSE "docker"
             a == [ask[c] EXCEPT !.cmd = cmd]
  <2>1. a \in E!Ask /\ a.cmd = cmd
    BY DEF EInv, ETyped, E!Ask
  <2>2. E!Goes(c, "resolved", a) /\ cli' = cli
    BY <1>4 DEF E!Command
  <2>3. /\ at' \in [Pair -> Steps] /\ ask' \in [Pair -> E!Ask]
        /\ at'[c] = "resolved" /\ ask'[c] = a
        /\ \A d \in Pair \ {c} : at'[d] = at[d] /\ ask'[d] = ask[d]
    BY <2>1, <2>2, Going DEF EInv, Steps
  <2>4. Findable => ~Wrong(cmd)
    BY DEF Findable, Wrong, E!Runs
  <2>5. ASSUME NEW d \in Pair
        PROVE  Counted(d)'
    <3>1. CASE ~Findable
      BY <1>2, <3>1, NothingMissed DEF EInv
    <3>2. CASE Findable
      <4>1. Behind(d)' \subseteq Behind(d)
        BY <1>1, <2>1, <2>3, <2>4, <3>2 DEF Behind
      <4>2. Misled(d)' => Misled(d)
        BY <1>1, <2>1, <2>2, <2>3, <2>4, <3>2 DEF Misled
      <4> QED
        BY <1>2, <2>5, <4>1, <4>2, NoneAdded DEF EInv, ETyped
    <3> QED
      BY <3>1, <3>2
  <2> QED
    BY <1>2, <2>2, <2>3, <2>5 DEF EInv, ETyped
<1>5. CASE E!Resolved(c)
  <2>1. /\ at[c] = "resolved" /\ cli' = ask[c].cmd /\ ask[c] \in E!Ask
        /\ E!Goes(c, "spawn", ask[c])
    BY <1>5 DEF E!Resolved, E!Goto, EInv, ETyped
  <2>2. /\ at' \in [Pair -> Steps] /\ ask' \in [Pair -> E!Ask]
        /\ at'[c] = "spawn" /\ ask'[c] = ask[c]
        /\ \A d \in Pair \ {c} : at'[d] = at[d] /\ ask'[d] = ask[d]
    BY <2>1, Going DEF EInv, Steps
  <2>3. ASSUME NEW d \in Pair
        PROVE  Counted(d)'
    <3>1. Behind(d)' = Behind(d) \ {c}
      BY <1>1, <2>2 DEF Behind
    <3>2. CASE Wrong(ask[c].cmd) /\ c # d
      <4>1. c \in Behind(d)
        BY <2>1, <3>2 DEF Behind
      <4>2. Cardinality(Behind(d)') = Cardinality(Behind(d)) - 1
        BY <3>1, <4>1, BehindFinite, FS_RemoveElement
      <4>3. Cardinality(Behind(d)) \in Nat /\ Cardinality(Pair) \in Nat
        BY BehindFinite, EngineAssumption, FS_CardinalityType
      <4>4. /\ missed[d] \in Nat
            /\ missed[d] + Cardinality(Behind(d)) <= Cardinality(Pair)
        BY <4>3 DEF EInv, ETyped, Counted
      <4> QED
        BY <1>2, <4>2, <4>3, <4>4 DEF Counted
    <3>3. CASE ~Wrong(ask[c].cmd) \/ c = d
      <4>1. Misled(d)' => Misled(d)
        BY <1>1, <2>1, <2>2, <3>3 DEF Misled
      <4> QED
        BY <1>2, <2>3, <3>1, <4>1, NoneAdded DEF EInv, ETyped
    <3> QED
      BY <3>2, <3>3
  <2>4. cli' \in {"docker", "copy"}
    BY <2>1, Kinds
  <2> QED
    BY <1>2, <2>2, <2>3, <2>4 DEF EInv, ETyped
<1> QED
  BY <1>3, <1>4, <1>5

\* After a probe c is neither about to cache an answer nor to spawn one.
LEMMA Answering ==
  ASSUME ETyped, NEW c \in Pair,
         NEW probe \in {"ready", "unreachable", "timed_out", "missing"},
         E!Answered(c, probe)
  PROVE  /\ at' \in [Pair -> Steps] /\ ask' \in [Pair -> E!Ask]
         /\ at'[c] \in Steps \ {"resolved", "spawn"}
         /\ \A d \in Pair \ {c} : at'[d] = at[d] /\ ask'[d] = ask[d]
<1> DEFINE a == [ask[c] EXCEPT !.cmd = "docker"]
           said == IF a.ping /\ probe # "ready" THEN "timed_out" ELSE probe
<1>1. ask[c] \in E!Ask
  BY DEF ETyped
<1>2. a \in E!Ask
  BY <1>1 DEF E!Ask
<1>3. said \in {"ready", "unreachable", "timed_out", "missing"}
  OBVIOUS
<1>4. PICK step \in {"command", "idle", "evidence"}, b \in E!Ask : E!Goes(c, step, b)
  <2>1. CASE probe = "timed_out" /\ ~a.ping
    <3>1. E!Goes(c, "command", [a EXCEPT !.ping = TRUE])
      BY <2>1 DEF E!Answered
    <3>2. [a EXCEPT !.ping = TRUE] \in E!Ask
      BY <1>2 DEF E!Ask
    <3> QED
      BY <3>1, <3>2
  <2>2. CASE ~(probe = "timed_out" /\ ~a.ping)
    <3>1. PICK step \in E!After(a, said) :
             E!Goes(c, step,
                [a EXCEPT !.probe = IF step = "evidence" THEN said ELSE @,
                          !.ping = FALSE,
                          !.goal = IF @ = "fresh" THEN "wait" ELSE @])
      BY <2>2 DEF E!Answered
    <3>2. step \in {"command", "idle", "evidence"}
      BY DEF E!After
    <3> HIDE DEF a, said
    <3>3. a.probe \in {"ready", "unreachable", "timed_out", "missing"}
          /\ a.goal \in {"status", "fresh", "wait"}
      BY <1>2 DEF E!Ask
    <3> DEFINE p == IF step = "evidence" THEN said ELSE a.probe
               g == IF a.goal = "fresh" THEN "wait" ELSE a.goal
    <3>4. /\ p \in {"ready", "unreachable", "timed_out", "missing"}
          /\ g \in {"status", "fresh", "wait"}
      BY <1>3, <3>3
    <3>5. E!Goes(c, step, [a EXCEPT !.probe = p, !.ping = FALSE, !.goal = g])
      BY <3>1
    <3> HIDE DEF p, g
    <3>6. [a EXCEPT !.probe = p, !.ping = FALSE, !.goal = g] \in E!Ask
      BY <1>2, <3>4 DEF E!Ask
    <3> QED
      BY <3>2, <3>5, <3>6
  <2> QED
    BY <2>1, <2>2
<1>5. step \in Steps /\ step \notin {"resolved", "spawn"}
  BY DEF Steps
<1> QED
  BY <1>4, <1>5, Going

\* A spawn of docker, whether it fails or answers, keeps the invariant.
LEMMA Spawning ==
  ASSUME EInv, NEW c \in Pair, E!SpawnFails(c) \/ E!SpawnAnswers(c)
  PROVE  EInv'
<1>0. UNCHANGED <<docker, known, path>>
  <2>1. CASE E!SpawnFails(c)
    BY <2>1 DEF E!SpawnFails, E!machine
  <2>2. CASE E!SpawnAnswers(c)
    BY <2>2 DEF E!SpawnAnswers, E!machine
  <2> QED
    BY <2>1, <2>2
<1>1. \A w : Wrong(w)' <=> Wrong(w)
  BY <1>0 DEF Wrong, E!Runs, E!OnPath, E!Beside, E!There
<1>2. Findable' = Findable
  BY <1>0 DEF Findable, E!OnPath, E!Beside, E!There
<1>3. PICK probe \in {"ready", "unreachable", "timed_out", "missing"} :
         E!Answered(c, probe)
  BY DEF E!SpawnFails, E!SpawnAnswers
<1>4. /\ at' \in [Pair -> Steps] /\ ask' \in [Pair -> E!Ask]
      /\ at'[c] \in Steps \ {"resolved", "spawn"}
      /\ \A d \in Pair \ {c} : at'[d] = at[d] /\ ask'[d] = ask[d]
  BY <1>3, Answering DEF EInv
<1>5. cli' \in {cli, None} /\ at[c] = "spawn"
  BY DEF E!SpawnFails, E!SpawnAnswers
<1>6. missed' \in [Pair -> Nat]
  <2>1. CASE E!SpawnFails(c)
    <3>1. PICK m \in {missed[c], missed[c] + 1} : missed' = [missed EXCEPT ![c] = m]
      BY <2>1, Zenon DEF E!SpawnFails
    <3>2. m \in Nat
      BY DEF EInv, ETyped
    <3> QED
      BY <3>1, <3>2 DEF EInv, ETyped
  <2>2. CASE E!SpawnAnswers(c)
    BY <2>2 DEF E!SpawnAnswers, EInv, ETyped
  <2> QED
    BY <2>1, <2>2
<1>7. ETyped'
  BY <1>4, <1>5, <1>6 DEF EInv, ETyped
<1>8. ASSUME NEW d \in Pair
      PROVE  Behind(d)' \subseteq Behind(d) /\ (Misled(d)' => Misled(d))
  <2>1. Behind(d)' \subseteq Behind(d)
    BY <1>1, <1>4 DEF Behind
  <2>2. Misled(d)' => Misled(d)
    BY <1>1, <1>4, <1>5 DEF Misled, Wrong
  <2> QED
    BY <2>1, <2>2
<1>9. CASE missed' = missed
  BY <1>2, <1>7, <1>8, <1>9, NoneAdded DEF EInv, ETyped
<1>10. CASE E!SpawnAnswers(c)
  <2>1. missed' = [missed EXCEPT ![c] = 0]
    BY <1>10 DEF E!SpawnAnswers
  <2>2. ASSUME NEW d \in Pair
        PROVE  Counted(d)' /\ (~Findable' => missed'[d] = 0)
    BY <1>2, <1>8, <2>1, NoneAdded, NothingMissed DEF EInv, ETyped
  <2> QED
    BY <1>7, <2>2 DEF EInv
<1>11. CASE E!SpawnFails(c) /\ missed' # missed
  <2>1. missed' = [missed EXCEPT ![c] = missed[c] + 1] /\ Findable
    BY <1>11 DEF E!SpawnFails, EInv, ETyped, Findable
  <2>2. ~Misled(c)' /\ Misled(c)
    <3>1. cli' = None /\ ~E!Runs(ask[c].cmd)
      BY <1>11 DEF E!SpawnFails
    <3>2. ask[c].cmd # None
      BY EngineAssumption, Kinds DEF EInv, ETyped
    <3> QED
      BY <1>4, <1>5, <3>1, <3>2 DEF Misled, Wrong
  <2>3. Counted(c)'
    <3>1. /\ Cardinality(Behind(c)') <= Cardinality(Behind(c))
          /\ IsFiniteSet(Behind(c)')
      BY <1>8, BehindFinite, FS_Subset
    <3>2. /\ Cardinality(Behind(c)') \in Nat /\ Cardinality(Behind(c)) \in Nat
          /\ Cardinality(Pair) \in Nat
      BY <3>1, BehindFinite, EngineAssumption, FS_CardinalityType
    <3>3. missed[c] \in Nat /\ missed'[c] = missed[c] + 1
      BY <2>1 DEF EInv, ETyped
    <3>4. missed[c] + Cardinality(Behind(c)) + 1 <= Cardinality(Pair)
      BY <2>2 DEF EInv, Counted
    <3>5. \A m, n, b, a, p \in Nat :
             m + b + 1 <= p /\ a <= b /\ n = m + 1 => n + a + 0 <= p
      OBVIOUS
    <3>6. missed'[c] + Cardinality(Behind(c)') + 0 <= Cardinality(Pair)
      BY <3>1, <3>2, <3>3, <3>4, <3>5
    <3>7. (IF Misled(c)' THEN 1 ELSE 0) = 0
      BY <2>2
    <3> QED
      BY <3>6, <3>7, Zenon DEF Counted
  <2>4. ASSUME NEW d \in Pair \ {c}
        PROVE  Counted(d)'
    <3>1. missed'[d] = missed[d] /\ missed[d] \in Nat /\ Counted(d)
      BY <2>1 DEF EInv, ETyped
    <3> QED
      BY <1>8, <3>1, NoneAdded
  <2> QED
    BY <1>2, <1>7, <2>1, <2>3, <2>4 DEF EInv
<1> QED
  BY <1>9, <1>10, <1>11

\* The invariant holds before any caller asks.
LEMMA EngineInit == ASSUME E!Init PROVE EInv
<1>1. ETyped
  BY Kinds DEF E!Init, ETyped, Steps
<1>2. \A c \in Pair : missed[c] = 0 /\ Behind(c) = {} /\ ~Misled(c)
  BY DEF E!Init, Behind, Misled, Wrong
<1>3. Cardinality({}) = 0 /\ Cardinality(Pair) \in Nat
  BY EngineAssumption, FS_EmptySet, FS_CardinalityType
<1> QED
  BY <1>1, <1>2, <1>3 DEF EInv, Counted

\* Every step keeps it.
LEMMA EngineNext == ASSUME EInv, E!Next PROVE EInv'
<1>1. ASSUME NEW c \in Pair,
             \/ \E w \in {"click", "automatic", "look"} : E!Begin(c, w)
             \/ E!Decide(c) \/ E!Fetch(c) \/ E!Prompt(c) \/ E!PromptFails(c)
      PROVE  EInv'
  <2>1. ask[c] \in E!Ask
    BY DEF EInv, ETyped
  <2>2. UNCHANGED <<docker, known, path>> /\ UNCHANGED <<cli, missed>>
    BY <1>1 DEF E!Begin, E!Decide, E!Fetch, E!Prompt, E!PromptFails, E!machine
  <2>3. CASE E!Fetch(c) \/ E!Prompt(c) \/ E!PromptFails(c)
    <3>1. PICK step \in {"idle", "gate", "prompt"} : E!Goes(c, step, ask[c])
      BY <2>3 DEF E!Fetch, E!Prompt, E!PromptFails, E!Goto
    <3> QED
      BY <2>1, <2>2, <3>1, Quiet DEF Steps
  <2>4. CASE \E w \in {"click", "automatic", "look"} : E!Begin(c, w)
    <3>1. PICK w \in {"click", "automatic", "look"} : E!Begin(c, w)
      BY <2>4
    <3> DEFINE s == docker = "running"
               a == [E!Nothing EXCEPT !.why = w, !.steady = s]
    <3>2. E!Goes(c, "command", a)
      BY <3>1 DEF E!Begin
    <3>3. s \in BOOLEAN
      OBVIOUS
    <3> HIDE DEF s
    <3>4. a \in E!Ask
      BY <3>3 DEF E!Ask, E!Nothing
    <3> HIDE DEF a
    <3> QED
      BY <2>2, <3>2, <3>4, Quiet DEF Steps
  <2>5. CASE E!Decide(c)
    <3> DEFINE a == [ask[c] EXCEPT !.probe = "missing"]
               b == [a EXCEPT !.goal = "wait"]
    <3>1. a \in E!Ask /\ b \in E!Ask
      BY <2>1 DEF E!Ask
    <3>2. \/ E!Goes(c, "command", b) \/ E!Goes(c, "fetch", a)
          \/ E!Goes(c, "idle", ask[c])
      BY <2>5, Zenon DEF E!Decide, E!Goto
    <3> HIDE DEF a, b
    <3> QED
      BY <2>1, <2>2, <3>1, <3>2, Quiet DEF Steps
  <2> QED
    BY <1>1, <2>3, <2>4, <2>5
<1>2. ASSUME NEW c \in Pair, E!Installed(c)
      PROVE  EInv'
  <2> DEFINE asked == [ask EXCEPT ![c].goal = "fresh"]
  <2>1. /\ E!DockerBecomes(IF E!There THEN docker ELSE "stopped",
                          known \/ ~E!There, asked)
        /\ at' = [at EXCEPT ![c] = "command"] /\ cli' = cli
    BY <1>2 DEF E!Installed
  <2>2. asked \in [Pair -> E!Ask] /\ \A d \in Pair : asked[d].cmd = ask[d].cmd
    BY DEF EInv, ETyped, E!Ask
  <2>3. /\ at' \in [Pair -> Steps]
        /\ \A d \in Pair : at'[d] \in {at[d], "command"}
    BY <2>1 DEF EInv, ETyped, Steps
  <2> QED
    BY <2>1, <2>2, <2>3, Becoming
<1>3. CASE E!World \/ E!EngineStarts
  <2>1. at' = at /\ at \in [Pair -> Steps] /\ ask \in [Pair -> E!Ask]
    BY <1>3 DEF E!World, E!EngineStarts, EInv, ETyped
  <2>2. ASSUME NEW d, NEW k, E!DockerBecomes(d, k, ask), cli' = cli
        PROVE  EInv'
    BY <2>1, <2>2, Becoming
  <2>3. CASE cli' = None /\ UNCHANGED <<docker, known, path, ask, missed>>
    <3>1. ETyped'
      BY <2>1, <2>3 DEF EInv, ETyped
    <3>2. \A w : Wrong(w)' <=> Wrong(w)
      BY <2>3 DEF Wrong, E!Runs, E!OnPath, E!Beside, E!There
    <3>3. ASSUME NEW c \in Pair
          PROVE  Counted(c)'
      <4>1. Behind(c)' \subseteq Behind(c) /\ (Misled(c)' => Misled(c))
        BY <2>1, <2>3, <3>2 DEF Behind, Misled, Wrong
      <4> QED
        BY <2>3, <3>3, <4>1, NoneAdded DEF EInv, ETyped
    <3>4. \A c \in Pair : ~Findable' => missed'[c] = 0
      BY <2>3 DEF EInv, Findable, E!OnPath, E!Beside, E!There
    <3> QED
      BY <3>1, <3>3, <3>4 DEF EInv
  <2>4. \/ \E d, k : E!DockerBecomes(d, k, ask) /\ cli' = cli
        \/ cli' = None /\ UNCHANGED <<docker, known, path, ask, missed>>
    BY <1>3, Zenon DEF E!World, E!EngineStarts
  <2> QED
    BY <2>2, <2>3, <2>4
<1> QED
  BY <1>1, <1>2, <1>3, Resolving, Spawning DEF E!Next

EngineInv == part = "engine" => EInv

\* A docker that is there is not missed for long, for any callers and any
\* changes of Docker: what a caller has missed, the wrong answer it is about to
\* get and those that others are about to cache are at most as many as the
\* callers (docker_manager.rs 119-240).
THEOREM DockerIsFound == Spec => []StaleCliHeals
<1>1. Init => EngineInv
  BY EngineInit DEF Init, EngineInv
<1>2. EngineInv /\ [Next]_vars => EngineInv'
  <2> SUFFICES ASSUME EngineInv, [Next]_vars PROVE EngineInv'
    OBVIOUS
  <2>1. CASE UNCHANGED vars
    <3>1. /\ UNCHANGED <<docker, known, path, cli, at, ask, missed>>
          /\ part' = part
      BY <2>1 DEF vars, ofEngine
    <3>2. EInv => EInv'
      BY <3>1 DEF EInv, ETyped, Counted, Behind, Misled, Wrong, Findable,
         E!Runs,
             E!OnPath, E!Beside, E!There
    <3> QED
      BY <3>1, <3>2 DEF EngineInv
  <2>2. CASE part = "engine" /\ E!Next
    BY <2>2, OnePart, EngineNext DEF EngineInv
  <2>3. CASE part # "engine"
    BY <2>3, OnePart DEF EngineInv
  <2> QED
    BY <2>1, <2>2, <2>3, OnePart
<1>3. EngineInv => StaleCliHeals
  <2>1. ASSUME EInv, NEW c \in Pair
        PROVE  missed[c] <= Cardinality(Pair)
    <3>1. /\ Cardinality(Behind(c)) \in Nat /\ missed[c] \in Nat
          /\ Cardinality(Pair) \in Nat /\ Counted(c)
      BY <2>1, BehindFinite, EngineAssumption, FS_CardinalityType DEF EInv,
         ETyped
    <3>2. CASE Misled(c)
      BY <3>1, <3>2 DEF Counted
    <3>3. CASE ~Misled(c)
      BY <3>1, <3>3 DEF Counted
    <3> QED
      BY <3>2, <3>3
  <2>2. E!Cardinality(Pair) = Cardinality(Pair)
    BY Zenon DEF Cardinality, E!Cardinality, IsFiniteSet, E!IsFiniteSet
  <2> QED
    BY <2>1, <2>2 DEF EngineInv, StaleCliHeals, E!StaleCliHeals
<1> QED
  BY <1>1, <1>2, <1>3, PTL DEF Spec

-----------------------------------------------------------------------------
\* The pinned partners: who is about to spawn found the files good, or somebody
\* has written to them since.

TTyped ==
    /\ raced \subseteq Trio
    /\ DOMAIN at = Trio /\ DOMAIN file = Files

TInv ==
    /\ TTyped
    /\ \A c \in Trio : at[c] = "spawn" /\ c \notin raced => T!Unverified = {}

\* A start of bad files is one whose files were written under it.
Raced == running # "bad" /\ running' = "bad" =>
            \E c \in raced : at[c] = "spawn" /\ at'[c] = "idle"

\* Titan: every step keeps this, whoever takes it.
LEMMA TitanNext == ASSUME TInv, T!Next PROVE TInv' /\ Raced
<1> USE DEF T!Goto, T!Installs
<1>1. TTyped /\ \A c \in Trio : at[c] = "spawn" /\ c \notin raced => T!Unverified = {}
  BY DEF TInv
<1>2. ASSUME NEW c \in Trio,
             \/ T!Start(c) \/ T!Install(c) \/ T!Check(c) \/ T!AlreadyInstalled(c)
             \/ T!Download(c) \/ T!VerifyArchive(c) \/ T!Extract(c) \/ T!Finish(c)
             \/ T!Fails(c) \/ T!Recheck(c)
      PROVE  TInv' /\ Raced
  <2>1. UNCHANGED <<file, raced, running>>
    BY <1>2 DEF T!Start, T!Install, T!Check, T!AlreadyInstalled, T!Download,
                T!VerifyArchive, T!Extract, T!Finish, T!Fails, T!Recheck
  <2>2. PICK step : /\ at' = [at EXCEPT ![c] = step]
                    /\ step = "spawn" => T!Unverified = {}
    BY <1>2 DEF T!Start, T!Install, T!Check, T!AlreadyInstalled, T!Download,
                T!VerifyArchive, T!Extract, T!Finish, T!Fails, T!Recheck
  <2>3. T!Unverified' = T!Unverified
    BY <2>1 DEF T!Unverified
  <2> QED
    BY <1>1, <2>1, <2>2, <2>3 DEF TInv, TTyped, Raced
<1>3. ASSUME NEW files, DOMAIN files = Files, T!Write(files), running' = running,
             DOMAIN at' = Trio, \A c \in Trio : at'[c] = "spawn" => at[c] = "spawn"
      PROVE  TInv' /\ Raced
  <2>1. /\ file' = files
        /\ raced' = IF files = file THEN raced ELSE {c \in Trio : at[c] = "spawn"}
    BY <1>3 DEF T!Write
  <2>2. TTyped'
    BY <1>1, <1>3, <2>1 DEF TTyped
  <2>3. CASE files = file
    <3>1. T!Unverified' = T!Unverified
      BY <2>1, <2>3 DEF T!Unverified
    <3> QED
      BY <1>1, <1>3, <2>1, <2>2, <2>3, <3>1 DEF TInv, Raced
  <2>4. CASE files # file
    BY <1>3, <2>1, <2>2, <2>4 DEF TInv, Raced
  <2> QED
    BY <2>3, <2>4
<1>4. ASSUME NEW c \in Trio, T!Quarantine(c) \/ T!BeginInstall(c)
      PROVE  TInv' /\ Raced
  <2>1. PICK files : DOMAIN files = Files /\ T!Write(files)
    BY <1>1, <1>4 DEF T!Quarantine, T!BeginInstall, T!Without, TTyped
  <2>2. PICK step : at' = [at EXCEPT ![c] = step] /\ step # "spawn"
    BY <1>4 DEF T!Quarantine, T!BeginInstall
  <2>3. running' = running /\ DOMAIN at' = Trio
        /\ \A d \in Trio : at'[d] = "spawn" => at[d] = "spawn"
    BY <1>1, <1>4, <2>2 DEF T!Quarantine, T!BeginInstall, TTyped
  <2> QED
    BY <1>3, <2>1, <2>3
<1>10. ASSUME NEW c \in Trio, T!MoveExe(c) \/ T!MoveRest(c)
      PROVE  TInv' /\ Raced
  <2>1. PICK files : DOMAIN files = Files /\ T!Write(files)
    BY <1>1, <1>10 DEF T!MoveExe, T!MoveRest, T!Moved, TTyped
  <2>2. PICK step : at' = [at EXCEPT ![c] = step] /\ step # "spawn"
    BY <1>10 DEF T!MoveExe, T!MoveRest
  <2>3. running' = running /\ DOMAIN at' = Trio
        /\ \A d \in Trio : at'[d] = "spawn" => at[d] = "spawn"
    BY <1>1, <1>10, <2>2 DEF T!MoveExe, T!MoveRest, TTyped
  <2> QED
    BY <1>3, <2>1, <2>3
<1>5. ASSUME NEW c \in Trio, T!Place(c) PROVE TInv' /\ Raced
  <2>1. UNCHANGED <<file, raced, running>>
    BY <1>5 DEF T!Place
  <2>2. at' = [at EXCEPT ![c] = IF download = "none" THEN "idle" ELSE "verify"]
    BY <1>5 DEF T!Place
  <2>3. T!Unverified' = T!Unverified
    BY <2>1 DEF T!Unverified
  <2> QED
    BY <1>1, <2>1, <2>2, <2>3 DEF TInv, TTyped, Raced
<1>6. ASSUME NEW c \in Trio, T!Spawn(c) PROVE TInv' /\ Raced
  <2>1. /\ at[c] = "spawn" /\ at' = [at EXCEPT ![c] = "idle"] /\ file' = file
        /\ raced' = raced \ {c}
        /\ running # "bad" /\ running' = "bad" => \E p \in Files : file[p] = "bad"
    BY <1>6 DEF T!Spawn
  <2>2. T!Unverified' = T!Unverified
    BY <2>1 DEF T!Unverified
  <2>3. TInv'
    BY <1>1, <2>1, <2>2 DEF TInv, TTyped
  <2>4. running # "bad" /\ running' = "bad" => c \in raced /\ at'[c] = "idle"
    BY <1>1, <2>1 DEF TTyped, T!Unverified
  <2> QED
    BY <2>1, <2>3, <2>4 DEF Raced
<1>7. CASE T!Stop
  BY <1>1, <1>7 DEF T!Stop, TInv, TTyped, T!Unverified, Raced
<1>8. ASSUME NEW p \in Files, T!Damaged(p) PROVE TInv' /\ Raced
  <2>1. /\ T!Write([file EXCEPT ![p] = "bad"]) /\ running' = running /\ at' = at
        /\ DOMAIN [file EXCEPT ![p] = "bad"] = Files
    BY <1>1, <1>8 DEF T!Damaged, TTyped
  <2>2. DOMAIN at' = Trio /\ \A c \in Trio : at'[c] = "spawn" => at[c] = "spawn"
    BY <1>1, <2>1 DEF TTyped
  <2> QED
    BY <1>3, <2>1, <2>2
<1>9. ASSUME NEW c \in Trio, T!VerifyFile(c) PROVE TInv' /\ Raced
  BY <1>9 DEF T!VerifyFile
<1> QED
  BY <1>2, <1>4, <1>5, <1>6, <1>7, <1>8, <1>9, <1>10 DEF T!Next

MTyped == raced \subseteq Trio /\ DOMAIN at = Trio /\ DOMAIN file = {Exe}

MInv ==
    /\ MTyped
    /\ \A c \in Trio : at[c] = "spawn" /\ c \notin raced => M!Unverified = {}

\* Mysterium and Iagon, a single file: so does every step there.
LEMMA MysteriumNext == ASSUME MInv, M!Next PROVE MInv' /\ Raced
<1> USE DEF M!Goto, M!Installs
<1>1. MTyped /\ \A c \in Trio : at[c] = "spawn" /\ c \notin raced => M!Unverified = {}
  BY DEF MInv
<1>2. ASSUME UNCHANGED <<file, raced, running>>, NEW c \in Trio, NEW step,
             at' = [at EXCEPT ![c] = step], step = "spawn" => M!Unverified = {}
      PROVE  MInv' /\ Raced
  <2>1. M!Unverified' = M!Unverified
    BY <1>2 DEF M!Unverified
  <2> QED
    BY <1>1, <1>2, <2>1 DEF MInv, MTyped, Raced
<1>3. ASSUME NEW files, DOMAIN files = {Exe}, M!Write(files), running' = running,
             DOMAIN at' = Trio, \A c \in Trio : at'[c] = "spawn" => at[c] = "spawn"
      PROVE  MInv' /\ Raced
  <2>1. /\ file' = files
        /\ raced' = IF files = file THEN raced ELSE {c \in Trio : at[c] = "spawn"}
    BY <1>3 DEF M!Write
  <2>2. MTyped'
    BY <1>1, <1>3, <2>1 DEF MTyped
  <2>3. CASE files = file
    <3>1. M!Unverified' = M!Unverified
      BY <2>1, <2>3 DEF M!Unverified
    <3> QED
      BY <1>1, <1>3, <2>1, <2>2, <2>3, <3>1 DEF MInv, Raced
  <2>4. CASE files # file
    BY <1>3, <2>1, <2>2, <2>4 DEF MInv, Raced
  <2> QED
    BY <2>3, <2>4
<1>4. ASSUME NEW c \in Trio,
             \/ M!Start(c) \/ M!Install(c) \/ M!Check(c) \/ M!AlreadyInstalled(c)
             \/ M!Download(c) \/ M!VerifyArchive(c) \/ M!Extract(c) \/ M!Finish(c)
             \/ M!Fails(c) \/ M!Recheck(c)
      PROVE  MInv' /\ Raced
  <2>1. UNCHANGED <<file, raced, running>>
    BY <1>4 DEF M!Start, M!Install, M!Check, M!AlreadyInstalled, M!Download,
                M!VerifyArchive, M!Extract, M!Finish, M!Fails, M!Recheck
  <2>2. PICK step : /\ at' = [at EXCEPT ![c] = step]
                    /\ step = "spawn" => M!Unverified = {}
    BY <1>4 DEF M!Start, M!Install, M!Check, M!AlreadyInstalled, M!Download,
                M!VerifyArchive, M!Extract, M!Finish, M!Fails, M!Recheck
  <2> QED
    BY <1>2, <2>1, <2>2
<1>5. ASSUME NEW c \in Trio, M!Quarantine(c) \/ M!BeginInstall(c)
      PROVE  MInv' /\ Raced
  <2>1. PICK files : DOMAIN files = {Exe} /\ M!Write(files)
    BY <1>1, <1>5 DEF M!Quarantine, M!BeginInstall, M!Without, MTyped
  <2>2. PICK step : at' = [at EXCEPT ![c] = step] /\ step # "spawn"
    BY <1>5 DEF M!Quarantine, M!BeginInstall
  <2>3. running' = running /\ DOMAIN at' = Trio
        /\ \A d \in Trio : at'[d] = "spawn" => at[d] = "spawn"
    BY <1>1, <1>5, <2>2 DEF M!Quarantine, M!BeginInstall, MTyped
  <2> QED
    BY <1>3, <2>1, <2>3
<1>11. ASSUME NEW c \in Trio, M!MoveExe(c) \/ M!MoveRest(c)
      PROVE  MInv' /\ Raced
  <2>1. PICK files : DOMAIN files = {Exe} /\ M!Write(files)
    BY <1>1, <1>11 DEF M!MoveExe, M!MoveRest, M!Moved, MTyped
  <2>2. PICK step : at' = [at EXCEPT ![c] = step] /\ step # "spawn"
    BY <1>11 DEF M!MoveExe, M!MoveRest
  <2>3. running' = running /\ DOMAIN at' = Trio
        /\ \A d \in Trio : at'[d] = "spawn" => at[d] = "spawn"
    BY <1>1, <1>11, <2>2 DEF M!MoveExe, M!MoveRest, MTyped
  <2> QED
    BY <1>3, <2>1, <2>3
<1>12. ASSUME NEW c \in Trio, M!Place(c) PROVE MInv' /\ Raced
  <2>1. PICK files : DOMAIN files = {Exe} /\ M!Write(files)
    BY <1>1, <1>12 DEF M!Place, MTyped
  <2>2. /\ at' = [at EXCEPT ![c] = IF download = "none" THEN "idle" ELSE "verify"]
        /\ running' = running
    BY <1>12 DEF M!Place
  <2>3. DOMAIN at' = Trio /\ \A d \in Trio : at'[d] = "spawn" => at[d] = "spawn"
    BY <1>1, <2>2 DEF MTyped
  <2> QED
    BY <1>3, <2>1, <2>2, <2>3
<1>6. ASSUME NEW c \in Trio, M!VerifyFile(c) PROVE MInv' /\ Raced
  <2>1. CASE UNCHANGED <<file, raced>>
    <3>1. running' = running
      BY <1>6 DEF M!VerifyFile
    <3>2. PICK step : at' = [at EXCEPT ![c] = step] /\ step # "spawn"
      BY <1>6 DEF M!VerifyFile
    <3> QED
      BY <1>2, <2>1, <3>1, <3>2
  <2>2. CASE \E rm \in SUBSET M!Present : M!Write(M!Without(rm)) /\ M!Goto(c, "idle")
    <3>1. PICK rm : M!Write(M!Without(rm)) /\ at' = [at EXCEPT ![c] = "idle"]
      BY <2>2
    <3>2. running' = running /\ DOMAIN M!Without(rm) = {Exe}
      BY <1>6 DEF M!VerifyFile, M!Without
    <3>3. DOMAIN at' = Trio /\ \A d \in Trio : at'[d] = "spawn" => at[d] = "spawn"
      BY <1>1, <3>1 DEF MTyped
    <3> QED
      BY <1>3, <3>1, <3>2, <3>3
  <2> QED
    BY <1>6, <2>1, <2>2 DEF M!VerifyFile
<1>7. ASSUME NEW c \in Trio, M!Spawn(c) PROVE MInv' /\ Raced
  <2>1. /\ at[c] = "spawn" /\ at' = [at EXCEPT ![c] = "idle"] /\ file' = file
        /\ raced' = raced \ {c}
        /\ running # "bad" /\ running' = "bad" => \E p \in {Exe} : file[p] = "bad"
    BY <1>7 DEF M!Spawn
  <2>2. M!Unverified' = M!Unverified
    BY <2>1 DEF M!Unverified
  <2>3. MInv'
    BY <1>1, <2>1, <2>2 DEF MInv, MTyped
  <2>4. running # "bad" /\ running' = "bad" => c \in raced /\ at'[c] = "idle"
    BY <1>1, <2>1 DEF MTyped, M!Unverified
  <2> QED
    BY <2>1, <2>3, <2>4 DEF Raced
<1>8. CASE M!Stop
  BY <1>1, <1>8 DEF M!Stop, MInv, MTyped, M!Unverified, Raced
<1>9. ASSUME NEW p \in {Exe}, M!Damaged(p) PROVE MInv' /\ Raced
  <2>1. /\ M!Write([file EXCEPT ![p] = "bad"]) /\ running' = running /\ at' = at
        /\ DOMAIN [file EXCEPT ![p] = "bad"] = {Exe}
    BY <1>1, <1>9 DEF M!Damaged, MTyped
  <2>2. DOMAIN at' = Trio /\ \A c \in Trio : at'[c] = "spawn" => at[c] = "spawn"
    BY <1>1, <2>1 DEF MTyped
  <2> QED
    BY <1>3, <2>1, <2>2
<1> QED
  BY <1>4, <1>5, <1>6, <1>7, <1>8, <1>9, <1>11, <1>12 DEF M!Next

PinnedInv == (part = "titan" => TInv) /\ (part = "mysterium" => MInv)

\* A start of Titan, Mysterium or Iagon runs what its last check found to match
\* the pinned digests, or somebody wrote to the files between the two: for any
\* number of callers, files, downloads and failing renames (titan.rs 828-861,
\* mysterium.rs 374-451, iagon.rs 220-239).
THEOREM CheckedFilesRun == Spec => OnlyCheckedFilesRun
<1>1. Init => PinnedInv
  BY DEF Init, PinnedInv, T!Init, M!Init, TInv, TTyped, MInv, MTyped
<1>2. PinnedInv /\ [Next]_vars => PinnedInv'
  <2> SUFFICES ASSUME PinnedInv, [Next]_vars PROVE PinnedInv'
    OBVIOUS
  <2>1. CASE UNCHANGED vars
    BY <2>1 DEF vars, ofPinned, PinnedInv, TInv, TTyped, T!Unverified,
                MInv, MTyped, M!Unverified
  <2>2. CASE part = "titan" /\ T!Next
    BY <2>2, OnePart, TitanNext DEF PinnedInv
  <2>3. CASE part = "mysterium" /\ M!Next
    BY <2>3, OnePart, MysteriumNext DEF PinnedInv
  <2> QED
    BY <2>1, <2>2, <2>3, OnePart DEF PinnedInv
<1> DEFINE Checked == running # "bad" /\ running' = "bad" /\ part \in Pinned =>
                         \E c \in raced : at[c] = "spawn" /\ at'[c] = "idle"
<1>3. PinnedInv /\ [Next]_vars => [Checked]_vars
  <2> SUFFICES ASSUME PinnedInv, [Next]_vars, part \in Pinned, vars' # vars
               PROVE  Raced
    BY DEF Raced
  <2>1. CASE part = "titan" /\ T!Next
    BY <2>1, TitanNext DEF PinnedInv
  <2>2. CASE part = "mysterium" /\ M!Next
    BY <2>2, MysteriumNext DEF PinnedInv
  <2> QED
    BY <2>1, <2>2, OnePart DEF Pinned
<1> QED
  BY <1>1, <1>2, <1>3, PTL DEF Spec, OnlyCheckedFilesRun

-----------------------------------------------------------------------------
\* Olostep: a caller's own child is in its hands until it is stored, and while
\* no other is stored after its probe the slot stays empty.

OStarting == {"stage", "write", "spawn", "store"}

OTyped ==
    /\ alive \subseteq O!Instances /\ spawned \in 0..MaxSpawns
    /\ at \in [Pair -> {"idle", "close", "poll", "force", "failed", "clean", "install",
                           "start"} \cup OStarting]
    /\ new \in [Pair -> O!Ours \cup {None}]

OInv ==
    /\ OTyped
    /\ \A c \in Pair : at[c] \in OStarting /\ c \notin behind => child = None
    /\ \A c \in Pair : at[c] # "store" => new[c] = None
    /\ O!OnlyOverlapsForget

\* The invariant of Olostep's browser holds at first.
LEMMA OlostepInit == ASSUME O!Init PROVE OInv
BY AppsAssumption DEF O!Init, OInv, OTyped, OStarting, O!OnlyOverlapsForget,
   O!Ours

\* A probe gives up only a child that has exited.
LEMMA OlostepProbe ==
  ASSUME NEW runs \in BOOLEAN, O!Probe(runs)
  PROVE  /\ child' = child \/ (child' = None /\ child \notin alive)
         /\ ~runs => child' = None
BY DEF O!Probe

\* Every step keeps it, however many are at it.
LEMMA OlostepNext == ASSUME OInv, O!Next PROVE OInv'
<1> USE DEF O!Goto, O!browser, O!files, O!history
<1>1. /\ OTyped /\ O!OnlyOverlapsForget
      /\ \A c \in Pair : at[c] \in OStarting /\ c \notin behind => child = None
      /\ \A c \in Pair : at[c] # "store" => new[c] = None
      /\ None \notin alive /\ 0 \in O!Instances
  BY AppsAssumption DEF OInv, OTyped, O!Instances, O!Others
<1>2. CASE O!Look
  <2>1. PICK runs \in BOOLEAN : O!Probe(runs)
    BY <1>2 DEF O!Look
  <2>2. UNCHANGED <<alive, spawned, at, new, behind, overtaken>>
    BY <1>2 DEF O!Look
  <2> QED
    BY <1>1, <2>1, <2>2, OlostepProbe DEF OInv, OTyped, O!OnlyOverlapsForget
<1>3. ASSUME NEW c \in Pair,
             \/ O!Disable(c) \/ O!Restart(c) \/ O!Enable(c) \/ O!Boot(c) \/ O!Reinstall(c)
             \/ O!Close(c) \/ O!Install(c) \/ O!StageReads(c) \/ O!StageWrites(c)
      PROVE  OInv'
  <2>1. /\ UNCHANGED <<alive, child, spawned, new, behind, overtaken>>
        /\ at'[c] \in OStarting => at[c] \in OStarting
        /\ at[c] # "store"
        /\ \A d \in Pair : d # c => at'[d] = at[d]
        /\ OTyped'
    BY <1>1, <1>3
       DEF OTyped, OStarting, O!Disable, O!Restart, O!Enable, O!Boot, O!Reinstall, O!Begin,
           O!Close, O!Install, O!StageReads, O!StageWrites
  <2> QED
    BY <1>1, <2>1 DEF OInv, O!OnlyOverlapsForget
<1>4. ASSUME NEW c \in Pair,
             O!Poll(c) \/ O!ForceFailed(c) \/ O!StartChecks(c)
      PROVE  OInv'
  <2>1. PICK runs \in BOOLEAN :
           /\ O!Probe(runs)
           /\ at'[c] \in OStarting => ~runs
           /\ at[c] # "store"
           /\ \A d \in Pair : d # c => at'[d] = at[d]
    BY <1>1, <1>4
       DEF OTyped, OStarting, O!Poll, O!ForceFailed, O!StartChecks, O!Stopped, O!Started
  <2>2. UNCHANGED <<alive, spawned, new, behind, overtaken>> /\ OTyped'
    BY <1>1, <1>4
       DEF OTyped, OStarting, O!Poll, O!ForceFailed, O!StartChecks, O!Stopped, O!Started
  <2> QED
    BY <1>1, <2>1, <2>2, OlostepProbe DEF OInv, O!OnlyOverlapsForget
<1>5. ASSUME NEW c \in Pair, O!Force(c) \/ O!Clean(c) PROVE OInv'
  <2>1. /\ (alive' = {} \/ alive' = alive) /\ child' \in {child, None}
        /\ (alive' = alive => child' = child \/ alive' = {})
        /\ UNCHANGED <<spawned, new, behind, overtaken>>
        /\ at'[c] \notin OStarting /\ at[c] # "store"
        /\ \A d \in Pair : d # c => at'[d] = at[d]
        /\ OTyped'
    BY <1>1, <1>5 DEF OTyped, OStarting, O!Force, O!Clean, O!Stopped
  <2> QED
    BY <1>1, <2>1 DEF OInv, O!OnlyOverlapsForget
<1>6. ASSUME NEW c \in Pair, O!Spawn(c) PROVE OInv'
  <2>1. /\ at[c] = "spawn" /\ spawned + 1 \in O!Ours /\ spawned + 1 \in 0..MaxSpawns
        /\ alive' = alive \cup {spawned + 1} /\ spawned' = spawned + 1
        /\ new' = [new EXCEPT ![c] = spawned + 1] /\ at' = [at EXCEPT ![c] = "store"]
        /\ child' = child
    <3>1. spawned \in 0..MaxSpawns /\ spawned < MaxSpawns /\ MaxSpawns \in Nat
      BY <1>1, <1>6, AppsAssumption DEF O!Spawn, OTyped
    <3>2. spawned + 1 \in O!Ours /\ spawned + 1 \in 0..MaxSpawns
      BY <3>1 DEF O!Ours
    <3> QED
      BY <1>6, <3>2 DEF O!Spawn
  <2>2. OTyped' /\ at'[c] \in OStarting /\ at[c] \in OStarting
    BY <1>1, <2>1 DEF OTyped, OStarting, O!Instances
  <2>3. new[c] = None /\ UNCHANGED <<behind, overtaken>>
    BY <1>1, <1>6, <2>1 DEF O!Spawn
  <2>4. new'[c] = spawned + 1 /\ \A d \in Pair : d # c => new'[d] = new[d] /\ at'[d] = at[d]
    BY <1>1, <2>1 DEF OTyped
  <2> QED
    BY <1>1, <2>1, <2>2, <2>3, <2>4 DEF OInv, OTyped, O!OnlyOverlapsForget
<1>7. ASSUME NEW c \in Pair, O!Store(c) PROVE OInv'
  <2>1. /\ at[c] = "store" /\ child' = new[c] /\ new' = [new EXCEPT ![c] = None]
        /\ at' = [at EXCEPT ![c] = "idle"] /\ UNCHANGED <<alive, spawned>>
    BY <1>7 DEF O!Store, O!Started
  <2>2. /\ behind' = (behind \cup {d \in Pair : at[d] \in OStarting}) \ {c}
        /\ overtaken' = overtaken \cup (IF c \in behind THEN {child} \cap alive ELSE {})
    BY <1>7 DEF O!Store, O!Starting, OStarting
  <2>3. c \notin behind => child = None
    BY <1>1, <2>1 DEF OStarting
  <2>4. OTyped' /\ at'[c] = "idle" /\ new'[c] = None
        /\ \A d \in Pair : d # c => new'[d] = new[d] /\ at'[d] = at[d]
    BY <1>1, <2>1 DEF OTyped
  <2>5. O!OnlyOverlapsForget'
    BY <1>1, <2>1, <2>2, <2>3, <2>4 DEF O!OnlyOverlapsForget
  <2> QED
    BY <1>1, <2>2, <2>4, <2>5 DEF OInv, OStarting
<1>8. ASSUME \/ \E i \in O!Instances : O!Closes(i) \/ O!Ends(i) \/ O!SelfUpdates(i)
             \/ O!Launched \/ O!OptsOut
      PROVE  OInv'
  <2>1. /\ alive' \subseteq alive \cup {O!Others}
        /\ UNCHANGED <<child, spawned, at, new, behind, overtaken>>
    BY <1>8 DEF O!Closes, O!Ends, O!SelfUpdates, O!Launched, O!OptsOut,
       O!Change
  <2>2. OTyped'
    BY <1>1, <2>1 DEF OTyped, O!Others
  <2> QED
    BY <1>1, <2>1, <2>2 DEF OInv, O!OnlyOverlapsForget
<1> QED
  BY <1>2, <1>3, <1>4, <1>5, <1>6, <1>7, <1>8 DEF O!Next

-----------------------------------------------------------------------------
\* Space Acres: as Olostep, and a stop takes the child out of the slot before
\* it kills it.

AStarting == {"spawn", "store"}
AHolding == {"kill", "sweep", "store"}

ATyped ==
    /\ sup \subseteq A!Instances /\ spawned \in 0..MaxSpawns
    /\ at \in [Pair -> {"idle", "spare", "take", "start", "install", "look", "fetch",
                           "prompt", "wait"} \cup AStarting \cup AHolding]
    /\ holds \in [Pair -> A!Ours \cup {None}] /\ child \in A!Ours \cup {None}

AInv ==
    /\ ATyped
    /\ \A c \in Pair : at[c] \in AStarting /\ c \notin behind => child = None
    /\ \A c \in Pair : at[c] \notin AHolding => holds[c] = None
    /\ A!OnlyOverlapsForget

\* The invariant of Space Acres holds at first.
LEMMA SpaceAcresInit == ASSUME A!Init PROVE AInv
BY AppsAssumption
   DEF A!Init, AInv, ATyped, AStarting, AHolding, A!OnlyOverlapsForget, A!Ours

\* A probe forgets a child only when it has ended.
LEMMA SpaceAcresProbe ==
  ASSUME NEW runs \in BOOLEAN, A!Probe(runs)
  PROVE  /\ child' = child \/ (child' = None /\ child \notin sup)
         /\ ~runs => child' = None
BY DEF A!Probe

\* Every step keeps the invariant.
LEMMA SpaceAcresNext == ASSUME AInv, A!Next PROVE AInv'
<1> USE DEF A!Goto, A!world, A!installing, A!history
<1>1. /\ ATyped /\ A!OnlyOverlapsForget
      /\ \A c \in Pair : at[c] \in AStarting /\ c \notin behind => child = None
      /\ \A c \in Pair : at[c] \notin AHolding => holds[c] = None
      /\ None \notin sup /\ 0 \in A!Instances
  BY AppsAssumption DEF AInv, ATyped, A!Instances, A!Owners
<1>2. CASE A!Look
  <2>1. PICK runs \in BOOLEAN : A!Probe(runs)
    BY <1>2 DEF A!Look
  <2>2. UNCHANGED <<sup, spawned, at, holds, behind, overtaken>>
    BY <1>2 DEF A!Look
  <2> QED
    BY <1>1, <2>1, <2>2, SpaceAcresProbe DEF AInv, ATyped, A!OnlyOverlapsForget
<1>3. ASSUME NEW c \in Pair,
             \/ A!Restart(c) \/ A!Disable(c) \/ A!Enable(c) \/ A!Boot(c)
             \/ A!InstallReads(c) \/ A!fetch_latest_release(c) \/ A!InstallPrompts(c)
             \/ A!InstallEnds(c)
      PROVE  AInv'
  <2>1. /\ UNCHANGED <<sup, child, spawned, holds, behind, overtaken>>
        /\ at'[c] \notin AStarting /\ at[c] \notin AHolding
        /\ \A d \in Pair : d # c => at'[d] = at[d]
        /\ ATyped'
    BY <1>1, <1>3
       DEF ATyped, AStarting, AHolding, A!Restart, A!Disable, A!Enable, A!Boot,
           A!InstallReads, A!fetch_latest_release, A!InstallPrompts, A!InstallEnds
  <2> QED
    BY <1>1, <2>1 DEF AInv, A!OnlyOverlapsForget
<1>4. ASSUME NEW c \in Pair,
             A!Spare(c) \/ A!InstallLooks(c) \/ A!StartChecks(c)
      PROVE  AInv'
  <2>1. PICK runs \in BOOLEAN :
           /\ A!Probe(runs)
           /\ at'[c] \in AStarting => ~runs
           /\ at[c] \notin AHolding
           /\ \A d \in Pair : d # c => at'[d] = at[d]
    BY <1>1, <1>4
       DEF ATyped, AStarting, AHolding, A!Spare, A!InstallLooks, A!StartChecks, A!Started
  <2>2. UNCHANGED <<sup, spawned, holds, behind, overtaken>> /\ child' \in {child, None}
    BY <1>4, <2>1, SpaceAcresProbe DEF A!Spare, A!InstallLooks, A!StartChecks
  <2>3. ATyped'
    BY <1>1, <1>4, <2>2
       DEF ATyped, AStarting, AHolding, A!Spare, A!InstallLooks, A!StartChecks, A!Started
  <2> QED
    BY <1>1, <2>1, <2>2, <2>3, SpaceAcresProbe DEF AInv, A!OnlyOverlapsForget
<1>5. ASSUME NEW c \in Pair, A!StopTakes(c) PROVE AInv'
  <2>1. /\ at[c] = "take" /\ holds' = [holds EXCEPT ![c] = child] /\ child' = None
        /\ at' = [at EXCEPT ![c] = IF child = None THEN "sweep" ELSE "kill"]
        /\ UNCHANGED <<sup, spawned, behind, overtaken>>
    BY <1>5 DEF A!StopTakes
  <2>2. ATyped'
    BY <1>1, <2>1 DEF ATyped, AStarting, AHolding
  <2>3. holds[c] = None
    BY <1>1, <2>1 DEF AHolding
  <2>4. /\ holds'[c] = child /\ at'[c] \in {"sweep", "kill"}
        /\ \A d \in Pair : d # c => holds'[d] = holds[d] /\ at'[d] = at[d]
    BY <1>1, <2>1 DEF ATyped
  <2>5. A!OnlyOverlapsForget'
    BY <1>1, <2>1, <2>3, <2>4 DEF A!OnlyOverlapsForget
  <2> QED
    BY <1>1, <2>1, <2>2, <2>4, <2>5 DEF AInv, AStarting, AHolding
<1>6. ASSUME NEW c \in Pair, A!StopKills(c) PROVE AInv'
  <2>1. /\ at[c] = "kill" /\ sup' = sup \ {holds[c]} /\ UNCHANGED <<child, spawned, behind, overtaken>>
        /\ \/ holds' = [holds EXCEPT ![c] = None] /\ at'[c] \in {"start", "idle"}
           \/ holds' = holds /\ at'[c] = "sweep"
    BY <1>1, <1>6 DEF ATyped, A!StopKills, A!Stopped
  <2>2. ATyped'
    BY <1>1, <1>6 DEF ATyped, AStarting, AHolding, A!StopKills, A!Stopped
  <2>3. \A d \in Pair : d # c => holds'[d] = holds[d] /\ at'[d] = at[d]
    BY <1>1, <1>6 DEF ATyped, A!StopKills, A!Stopped
  <2>4. A!OnlyOverlapsForget'
    BY <1>1, <2>1, <2>3 DEF A!OnlyOverlapsForget
  <2> QED
    BY <1>1, <2>1, <2>2, <2>3, <2>4 DEF AInv, ATyped, AStarting, AHolding
<1>7. ASSUME NEW c \in Pair, A!Sweep(c) PROVE AInv'
  <2>1. /\ sup' = {} /\ UNCHANGED <<child, spawned, behind, overtaken>>
        /\ holds' = [holds EXCEPT ![c] = None] /\ at'[c] \in {"start", "idle"}
    BY <1>1, <1>7 DEF ATyped, A!Sweep, A!Stopped
  <2>2. ATyped'
    BY <1>1, <1>7 DEF ATyped, AStarting, AHolding, A!Sweep, A!Stopped
  <2>3. \A d \in Pair : d # c => holds'[d] = holds[d] /\ at'[d] = at[d]
    BY <1>1, <1>7 DEF ATyped, A!Sweep, A!Stopped
  <2> QED
    BY <1>1, <2>1, <2>2, <2>3 DEF AInv, ATyped, A!OnlyOverlapsForget, AStarting,
       AHolding
<1>8. ASSUME NEW c \in Pair, A!StartSpawns(c) PROVE AInv'
  <2>1. /\ at[c] = "spawn" /\ spawned' = spawned + 1 /\ sup' = sup \cup {spawned + 1}
        /\ holds' = [holds EXCEPT ![c] = spawned + 1] /\ at' = [at EXCEPT ![c] = "store"]
        /\ child' = child
    BY <1>8 DEF A!StartSpawns
  <2>2. spawned \in 0..MaxSpawns /\ spawned < MaxSpawns /\ MaxSpawns \in Nat
    BY <1>1, <1>8, AppsAssumption DEF A!StartSpawns, ATyped
  <2>3. spawned + 1 \in A!Ours /\ spawned + 1 \in 0..MaxSpawns
    BY <2>2 DEF A!Ours
  <2>4. ATyped'
    BY <1>1, <2>1, <2>3 DEF ATyped, AStarting, AHolding, A!Instances
  <2>5. holds[c] = None /\ UNCHANGED <<behind, overtaken>>
    BY <1>1, <1>8, <2>1 DEF A!StartSpawns, AHolding
  <2>6. /\ holds'[c] = spawned + 1 /\ at'[c] = "store"
        /\ \A d \in Pair : d # c => holds'[d] = holds[d] /\ at'[d] = at[d]
    BY <1>1, <2>1 DEF ATyped
  <2>7. A!OnlyOverlapsForget'
    BY <1>1, <2>1, <2>5, <2>6 DEF A!OnlyOverlapsForget
  <2> QED
    BY <1>1, <2>1, <2>4, <2>5, <2>6, <2>7 DEF AInv, AStarting, AHolding
<1>9. ASSUME NEW c \in Pair, A!StartStores(c) PROVE AInv'
  <2>1. /\ at[c] = "store" /\ child' = holds[c] /\ holds' = [holds EXCEPT ![c] = None]
        /\ at' = [at EXCEPT ![c] = "idle"] /\ UNCHANGED <<sup, spawned>>
    BY <1>9 DEF A!StartStores, A!Started
  <2>2. /\ behind' = (behind \cup {d \in Pair : at[d] \in AStarting}) \ {c}
        /\ overtaken' = overtaken \cup (IF c \in behind THEN {child} \cap sup ELSE {})
    BY <1>9 DEF A!StartStores, AStarting
  <2>3. c \notin behind => child = None
    BY <1>1, <2>1 DEF AStarting
  <2>4. ATyped' /\ at'[c] = "idle" /\ holds'[c] = None
        /\ \A d \in Pair : d # c => holds'[d] = holds[d] /\ at'[d] = at[d]
    BY <1>1, <2>1 DEF ATyped
  <2>5. A!OnlyOverlapsForget'
    BY <1>1, <2>1, <2>2, <2>3, <2>4 DEF A!OnlyOverlapsForget
  <2> QED
    BY <1>1, <2>2, <2>4, <2>5 DEF AInv, AStarting, AHolding
<1>10. ASSUME \/ \E i \in A!Instances : A!FarmerStarts(i) \/ A!AppEnds(i) \/ A!FarmerEnds(i)
              \/ A!OwnerLaunches \/ A!OwnerSetsUp
      PROVE  AInv'
  <2>1. /\ sup' \subseteq sup \cup {A!Owners}
        /\ UNCHANGED <<child, spawned, at, holds, behind, overtaken>>
    BY <1>10 DEF A!FarmerStarts, A!AppEnds, A!FarmerEnds, A!OwnerLaunches,
       A!OwnerSetsUp,
                 A!Apart
  <2>2. ATyped'
    BY <1>1, <2>1 DEF ATyped, A!Owners
  <2> QED
    BY <1>1, <2>1, <2>2 DEF AInv, A!OnlyOverlapsForget
<1> QED
  BY <1>2, <1>3, <1>4, <1>5, <1>6, <1>7, <1>8, <1>9, <1>10 DEF A!Next

AppsInv == (part = "space_acres" => AInv) /\ (part = "aem" => OInv)

\* An app or a browser that FEM spawned and that still runs is in the slot, or
\* in the hands of a task at work, or lost its place to a start that had probed
\* before it was stored: for any number of tasks, spawns, exits and relaunches
\* (space_acres.rs 1183-1284, aem.rs 30-85, 446-527).
THEOREM ForgottenByOverlap == Spec => []OnlyOverlapsForget
<1>1. Init => AppsInv
  BY SpaceAcresInit, OlostepInit DEF Init, AppsInv
<1>2. AppsInv /\ [Next]_vars => AppsInv'
  <2> SUFFICES ASSUME AppsInv, [Next]_vars PROVE AppsInv'
    OBVIOUS
  <2>1. CASE UNCHANGED vars
    BY <2>1 DEF vars, ofCards, ofSpaceAcres, ofAem, AppsInv, AInv, ATyped,
                A!OnlyOverlapsForget, OInv, OTyped, O!OnlyOverlapsForget
  <2>2. CASE part = "space_acres" /\ A!Next
    BY <2>2, OnePart, SpaceAcresNext DEF AppsInv
  <2>3. CASE part = "aem" /\ O!Next
    BY <2>3, OnePart, OlostepNext DEF AppsInv
  <2> QED
    BY <2>1, <2>2, <2>3, OnePart DEF AppsInv
<1>3. AppsInv => OnlyOverlapsForget
  BY DEF AppsInv, AInv, OInv, OnlyOverlapsForget
<1> QED
  BY <1>1, <1>2, <1>3, PTL DEF Spec
=============================================================================
