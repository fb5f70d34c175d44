-------------------------- MODULE SupervisionProofs --------------------------
(***************************************************************************)
(* What MCSupervision checks on small instances, for all of them.          *)
(*                                                                         *)
(* Locks: every circular wait violates both of two orders of the locks, so *)
(* it has a task that violates each: the watcher in its engine start, and  *)
(* a reward summary that waits for the health map.                         *)
(*                                                                         *)
(* Spawning: NoLeak is not inductive by itself: Adopts must know that the  *)
(* process it displaces in the map is dead, and a step of the spawn thread *)
(* must know that the process it hands over is nobody else's.  So the      *)
(* invariant adds where the thread of an attempt stands while its process  *)
(* is held or being adopted, and that a start is only under way when       *)
(* nothing alive is held.                                                  *)
(*                                                                         *)
(* Titan: the refused spawns and those that are still to come are counted  *)
(* together (Accounted): a verdict at hand lets one through, and a listing *)
(* older than the block one for each period in which it is reused.         *)
(*                                                                         *)
(* MystNodes: what still acts upon a token that was withdrawn (Leftover)   *)
(* ends with its period, in which the loop comes to one verdict; after it  *)
(* one more restart finds the token missing and disarms the loop.          *)
(***************************************************************************)
EXTENDS MCSupervision, TLAPS

-----------------------------------------------------------------------------
(* The locks of AppState                                                   *)

\* The order that all but the watcher's engine start respect, and the one that
\* all but the readers of the health map under the registry's guard respect.
RegistryFirst ==
    [registry |-> 1, last_health |-> 2, last_errors |-> 3, reward_cache |-> 3,
     pending |-> 4, config |-> 4]

HealthFirst ==
    [last_health |-> 1, registry |-> 2, last_errors |-> 3, reward_cache |-> 3,
     pending |-> 4, config |-> 4]

\* What a task waits for at the site ranks above all it holds there.
Ordered(rank, site) ==
    /\ rank[site.lock] \in 1 .. 4
    /\ \A o \in site.holds : rank[o.lock] < rank[site.lock]

\* What the two orders have against a site.
Inverts(site) ==
    site.lock = "registry" /\ Own("last_health", "write") \in site.holds
Reads(site) ==
    site.lock = "last_health" /\ Own("registry", "write") \in site.holds

\* Each site respects the first order, or is that of the engine start.
LEMMA SitesRegistryFirst ==
  ASSUME NEW t \in DOMAIN Program, NEW i \in 1 .. Len(Program[t])
  PROVE  \/ Ordered(RegistryFirst, Program[t][i])
         \/ t = "docker_watcher" /\ i = 2 /\ Inverts(Program[t][i])
<1> USE DEF Ordered, Site, Own, RegistryFirst, Inverts
<1>1. CASE t = "get_reward_summary"
  BY <1>1 DEF Program, get_reward_summary, Rewards
<1>2. CASE t = "get_integrations"
  BY <1>2 DEF Program, get_integrations
<1>3. CASE t = "toggle_integration"
  BY <1>3 DEF Program, toggle_integration
<1>4. CASE t = "check_fn"
  BY <1>4 DEF Program, check_fn
<1>5. CASE t = "forwarder"
  BY <1>5 DEF Program, forwarder
<1>6. CASE t = "poc_tick"
  BY <1>6 DEF Program, poc_tick
<1>7. CASE t = "docker_watcher"
  BY <1>7 DEF Program, docker_watcher
<1> QED
  BY <1>1, <1>2, <1>3, <1>4, <1>5, <1>6, <1>7 DEF Program

\* Each site respects the second order, or reads the health map under the
\* registry's guard, in a reward summary or in the watcher's recovery.
LEMMA SitesHealthFirst ==
  ASSUME NEW t \in DOMAIN Program, NEW i \in 1 .. Len(Program[t])
  PROVE  \/ Ordered(HealthFirst, Program[t][i])
         \/ t = "get_reward_summary" /\ Reads(Program[t][i])
         \/ t = "docker_watcher" /\ i = 4
<1> USE DEF Ordered, Site, Own, HealthFirst, Reads
<1>1. CASE t = "get_reward_summary"
  BY <1>1 DEF Program, get_reward_summary, Rewards
<1>2. CASE t = "get_integrations"
  BY <1>2 DEF Program, get_integrations
<1>3. CASE t = "toggle_integration"
  BY <1>3 DEF Program, toggle_integration
<1>4. CASE t = "check_fn"
  BY <1>4 DEF Program, check_fn
<1>5. CASE t = "forwarder"
  BY <1>5 DEF Program, forwarder
<1>6. CASE t = "poc_tick"
  BY <1>6 DEF Program, poc_tick
<1>7. CASE t = "docker_watcher"
  BY <1>7 DEF Program, docker_watcher
<1> QED
  BY <1>1, <1>2, <1>3, <1>4, <1>5, <1>6, <1>7 DEF Program

\* No program is empty.
LEMMA ProgramsAreRuns ==
  ASSUME NEW t \in DOMAIN Program
  PROVE  Len(Program[t]) \in Nat \ {0}
<1>1. CASE t \in {"get_reward_summary", "get_integrations", "toggle_integration"}
  BY <1>1 DEF Program, get_reward_summary, get_integrations, toggle_integration
<1>2. CASE t \in {"check_fn", "forwarder", "poc_tick"}
  BY <1>2 DEF Program, check_fn, forwarder, poc_tick
<1>3. CASE t = "docker_watcher"
  BY <1>3 DEF Program, docker_watcher
<1> QED
  BY <1>1, <1>2, <1>3 DEF Program

\* Every task runs a program, and only the app itself runs the watcher.
LEMMA TasksRun ==
  ASSUME NEW t \in Task
  PROVE  /\ t[1] \in DOMAIN Program
         /\ t[1] = "docker_watcher" => t = <<"docker_watcher", App>>
<1>1. CASE t \in Command \X Callers
  <2>1. t[1] \in Commands
    BY <1>1, TaskAssumption
  <2> QED
    BY <2>1 DEF Commands, Program
<1>2. CASE t \in Background \X {App}
  <2>1. t[1] \in DOMAIN Program /\ t = <<t[1], App>>
    BY <1>2, TaskAssumption
  <2> QED
    BY <2>1
<1> QED
  BY <1>1, <1>2 DEF Task

\* Each task stays at a site of its own program.
LEMMA SitesReached == Supervision => []TypeOK
<1>1. \A t \in Task : Len(Sites(t)) \in Nat \ {0}
  BY ProgramsAreRuns, TasksRun DEF Sites
<1>2. Init => TypeOK
  BY <1>1 DEF Init, TypeOK
<1>3. TypeOK /\ [Next]_pc => TypeOK'
  BY <1>1 DEF Next, Acquire, TypeOK
<1>4. EitherInit => Init
  BY DEF EitherInit
<1>5. [EitherNext]_vars => [Next]_pc
  BY DEF EitherNext, Locks, OfSpawning, OfTitan, OfMyst, vars
<1> QED
  BY <1>2, <1>3, <1>4, <1>5, PTL DEF Supervision

\* Among tasks at ordered sites nobody is wedged: the one of a supposed circular
\* wait that waits for the highest lock is held up by one that waits for a higher.
LEMMA OrderedNeverWedged ==
  ASSUME NEW rank, NEW S \in SUBSET Task, \A t \in S : Ordered(rank, At(t))
  PROVE  ~Circular(S)
<1> SUFFICES ASSUME \A s \in S : \E u \in S : Blocks(u, s)
             PROVE  S = {}
  BY DEF Circular
<1> DEFINE r(s) == rank[At(s).lock]
<1>1. \A s \in S : r(s) \in 1 .. 4
  BY DEF Ordered
<1>2. ASSUME NEW s \in S, NEW u \in S, Holds(u, s) PROVE r(s) < r(u)
  <2>1. PICK o \in At(u).holds : o.lock = At(s).lock
    BY <1>2 DEF Holds
  <2>2. rank[o.lock] < rank[At(u).lock]
    BY <2>1 DEF Ordered
  <2> QED
    BY <2>1, <2>2
<1>3. ASSUME NEW s \in S PROVE \E u \in S : r(s) < r(u)
  <2>1. PICK u \in S : Blocks(u, s)
    OBVIOUS
  <2>2. CASE Holds(u, s)
    BY <1>2, <2>2
  <2>3. CASE At(u).mode = "write" /\ At(u).lock = At(s).lock
    <3>1. PICK v \in S : Blocks(v, u)
      OBVIOUS
    <3>2. Holds(v, u)
      BY <2>3, <3>1 DEF Blocks
    <3> QED
      BY <1>2, <2>3, <3>2
  <2> QED
    BY <2>1, <2>2, <2>3 DEF Blocks
<1> HIDE DEF r
<1>4. ASSUME NEW s \in S PROVE r(s) < 4
  <2>1. PICK u \in S : r(s) < r(u)
    BY <1>3
  <2> QED
    BY <1>1, <2>1
<1>5. ASSUME NEW s \in S PROVE r(s) < 3
  <2>1. PICK u \in S : r(s) < r(u)
    BY <1>3
  <2> QED
    BY <1>1, <1>4, <2>1
<1>6. ASSUME NEW s \in S PROVE r(s) < 2
  <2>1. PICK u \in S : r(s) < r(u)
    BY <1>3
  <2> QED
    BY <1>1, <1>5, <2>1
<1>7. ASSUME NEW s \in S PROVE FALSE
  <2>1. PICK u \in S : r(s) < r(u)
    BY <1>3
  <2> QED
    BY <1>1, <1>6, <2>1
<1> QED
  BY <1>7

\* Whatever calls and tasks run, every circular wait contains the watcher in its
\* engine start (docker_watcher.rs 97) and a reward summary between registry and
\* health map (commands/rewards.rs 108-119): the only inversion of the app's
\* locks, and the only way in which its tasks can come to wait for each other.
THEOREM OneInversion == Supervision => []OnlyTheEngineStartWedges
<1>1. ASSUME TypeOK, NEW S \in SUBSET Task, Circular(S)
      PROVE  /\ \E w \in S : StartsEngine(w)
             /\ \E s \in S : CountsHealth(s)
  <2>1. \A t \in S : /\ t[1] \in DOMAIN Program
                     /\ pc[t] \in 1 .. Len(Program[t[1]])
                     /\ At(t) = Program[t[1]][pc[t]]
    BY <1>1, TasksRun DEF TypeOK, At, Sites
  <2>2. PICK w \in S : ~Ordered(RegistryFirst, At(w))
    BY <1>1, OrderedNeverWedged
  <2>3. w[1] = "docker_watcher" /\ pc[w] = 2 /\ Inverts(At(w))
    BY <2>1, <2>2, SitesRegistryFirst
  <2>4. w = <<"docker_watcher", App>>
    BY <2>3, TasksRun
  <2>5. StartsEngine(w)
    BY <2>3, <2>4 DEF StartsEngine, Inverts
  <2>6. PICK s \in S : ~Ordered(HealthFirst, At(s))
    BY <1>1, OrderedNeverWedged
  <2>7. CountsHealth(s)
    <3>1. CASE s[1] = "docker_watcher" /\ pc[s] = 4
      <4>1. s = w
        BY <2>4, <3>1, TasksRun
      <4> QED
        BY <2>3, <3>1, <4>1
    <3>2. CASE s[1] = "get_reward_summary" /\ Reads(At(s))
      BY <3>2 DEF CountsHealth, Reads
    <3> QED
      BY <2>1, <2>6, <3>1, <3>2, SitesHealthFirst
  <2> QED
    BY <2>5, <2>7
<1>2. TypeOK => OnlyTheEngineStartWedges
  BY <1>1 DEF OnlyTheEngineStartWedges
<1> QED
  BY <1>2, SitesReached, PTL

-----------------------------------------------------------------------------
(* The process of a partner                                                *)

\* what the steps below need of TypeOK
SpawnTyped ==
    /\ thread \in [P!Attempts -> {"none", "creating", "failed", "current",
                                "offers", "offers error", "done"}]
    /\ child \in [P!Attempts -> {"none", "alive", "exited", "crashed"}]
    /\ newest \in 0..MaxAttempts

HeldIsDone ==
    \A n \in P!Attempts : held = n \/ call = P!Adopting(n) => thread[n] = "done"

StartsWhenDead ==
    \A n \in P!Attempts : held = n /\ call # P!NoCall => ~P!Alive(n)

NotBegun == \A n \in P!Attempts : n > newest => thread[n] = "none"

SpawnInv == SpawnTyped /\ HeldIsDone /\ StartsWhenDead /\ NotBegun /\ P!NoLeak

\* The invariant of the spawns holds at first.
LEMMA SpawningBegins == ASSUME P!Init PROVE SpawnInv
BY SpawningAssumption DEF P!Init, SpawnInv, SpawnTyped, HeldIsDone,
   StartsWhenDead, NotBegun,
       P!NoLeak, P!NoCall, P!Adopting, P!Alive, P!Attempts

(***************************************************************************)
(* The spawn thread touches its own attempt only, which is neither held    *)
(* nor being adopted, since its thread is not done.                        *)
(***************************************************************************)
LEMMA SpawnThreadKeeps ==
    ASSUME SpawnInv, NEW n \in P!Attempts, P!Thread(n)
    PROVE  SpawnInv'
<1> USE SpawningAssumption DEF SpawnInv, SpawnTyped, HeldIsDone,
        StartsWhenDead, NotBegun,
            P!NoLeak, P!NoCall, P!Adopting, P!Waiting, P!Alive, P!Attempts
<1>1. CASE P!Created(n)
  BY <1>1 DEF P!Created
<1>2. CASE P!CreateFails(n)
  BY <1>2 DEF P!CreateFails
<1>3. CASE P!ChecksCurrent(n)
  BY <1>3 DEF P!ChecksCurrent
<1>4. CASE P!RecordsError(n)
  BY <1>4 DEF P!RecordsError
<1>5. CASE P!NobodyWaits(n)
  BY <1>5 DEF P!NobodyWaits
<1> QED
  BY <1>1, <1>2, <1>3, <1>4, <1>5 DEF P!Thread

(***************************************************************************)
(* What the caller adopts replaces, in the map, a process that has ended.  *)
(***************************************************************************)
LEMMA SpawnCallerKeeps ==
    ASSUME SpawnInv, NEW n \in P!Attempts, P!Caller(n)
    PROVE  SpawnInv'
<1> USE SpawningAssumption DEF SpawnInv, SpawnTyped, HeldIsDone,
        StartsWhenDead, NotBegun,
            P!NoLeak, P!NoCall, P!Adopting, P!Waiting, P!Alive, P!Attempts
<1>1. CASE P!Receives(n)
  <2>1. call # P!NoCall
    BY <1>1 DEF P!Receives
  <2>2. SpawnTyped'
    BY <1>1 DEF P!Receives
  <2>3. CASE thread[n] = "offers" /\ call' = P!Adopting(n)
    <3>1. \A m \in P!Attempts : call' = P!Adopting(m) => m = n
      BY <2>3
    <3>2. thread' = [thread EXCEPT ![n] = "done"]
      BY <1>1 DEF P!Receives
    <3>3. HeldIsDone'
      BY <1>1, <3>1, <3>2 DEF P!Receives
    <3>4. StartsWhenDead' /\ NotBegun'
      BY <1>1, <2>1, <3>2 DEF P!Receives
    <3>5. P!NoLeak'
      BY <1>1, <2>3, <3>2 DEF P!Receives
    <3> QED
      BY <2>2, <3>3, <3>4, <3>5
  <2>4. CASE thread[n] = "offers error" /\ call' = P!NoCall
    BY <1>1, <2>2, <2>4 DEF P!Receives
  <2> QED
    BY <1>1, <2>3, <2>4 DEF P!Receives
<1>2. CASE P!TimesOut(n)
  BY <1>2 DEF P!TimesOut
<1>3. CASE P!Adopts(n)
  BY <1>3 DEF P!Adopts
<1> QED
  BY <1>1, <1>2, <1>3 DEF P!Caller

(***************************************************************************)
(* A start begins with an attempt that has no thread yet, and only when    *)
(* the process in the map, if there is one, has ended.                     *)
(***************************************************************************)
LEMMA SpawnBeginKeeps == ASSUME SpawnInv, P!StartBegins PROVE SpawnInv'
<1>1. newest \in Nat /\ newest < MaxAttempts /\ MaxAttempts \in Nat
  <2>1. newest < MaxAttempts
    BY DEF P!StartBegins
  <2>2. newest \in 0..MaxAttempts /\ MaxAttempts \in Nat
    BY SpawningAssumption DEF SpawnInv, SpawnTyped
  <2> QED
    BY <2>1, <2>2
<1>2. newest + 1 \in P!Attempts
  BY <1>1 DEF P!Attempts
<1>3. newest' = newest + 1 /\ newest' \in 0..MaxAttempts
  BY <1>1 DEF P!StartBegins
<1>4. /\ thread' = [thread EXCEPT ![newest + 1] = "creating"]
      /\ UNCHANGED <<child, held, fem>>
  BY DEF P!StartBegins
<1>5. thread[newest + 1] = "none"
  BY <1>1, <1>2 DEF SpawnInv, NotBegun
<1>6. SpawnTyped'
  BY <1>2, <1>3, <1>4 DEF SpawnInv, SpawnTyped
<1>7. \A n \in P!Attempts : call # P!Adopting(n) /\ call' # P!Adopting(n)
  BY DEF P!StartBegins, P!Free, P!NoCall, P!Waiting, P!Adopting
<1>8. HeldIsDone'
  BY <1>2, <1>4, <1>5, <1>7 DEF SpawnInv, HeldIsDone
<1>9. StartsWhenDead'
  BY <1>4, SpawningAssumption DEF P!StartBegins, StartsWhenDead, P!Alive
<1>10. NotBegun'
  <2> SUFFICES ASSUME NEW n \in P!Attempts, n > newest'
               PROVE  thread'[n] = "none"
    BY DEF NotBegun
  <2>1. n > newest /\ n # newest + 1
    BY <1>1, <1>3 DEF P!Attempts
  <2> QED
    BY <1>4, <2>1 DEF SpawnInv, SpawnTyped, NotBegun
<1>11. P!NoLeak'
  BY <1>2, <1>4, <1>5, <1>7 DEF SpawnInv, P!NoLeak, P!Alive, SpawnTyped
<1> QED
  BY <1>6, <1>8, <1>9, <1>10, <1>11 DEF SpawnInv

(***************************************************************************)
(* The calls that take the mutex, and what happens to a process from       *)
(* outside.                                                                *)
(***************************************************************************)
LEMMA SpawnOthersKeep ==
    ASSUME SpawnInv,
           \/ P!StartSkipped \/ P!StartBegins \/ P!Stop \/ P!GetStatus \/ P!Killed
           \/ \E n \in P!Attempts : P!ChildEnds(n)
    PROVE  SpawnInv'
<1> USE SpawningAssumption DEF SpawnInv, SpawnTyped, HeldIsDone,
        StartsWhenDead, NotBegun,
            P!NoLeak, P!NoCall, P!Adopting, P!Waiting, P!Alive, P!Attempts
<1>1. CASE P!StartSkipped
  BY <1>1 DEF P!StartSkipped, P!Observed, P!Free
<1>2. CASE P!StartBegins
  BY <1>2, SpawnBeginKeeps
<1>3. CASE P!Stop
  BY <1>3 DEF P!Stop, P!Free
<1>4. CASE P!GetStatus
  BY <1>4 DEF P!GetStatus, P!Observed, P!Free
<1>5. CASE P!Killed
  BY <1>5 DEF P!Killed
<1>6. ASSUME NEW n \in P!Attempts, P!ChildEnds(n)
      PROVE  SpawnInv'
  <2>1. PICK how \in {"exited", "crashed"} : child' = [child EXCEPT ![n] = how]
    BY <1>6 DEF P!ChildEnds
  <2>2. UNCHANGED <<thread, newest, record, held, call, job, fem>>
    BY <1>6 DEF P!ChildEnds
  <2>3. SpawnTyped'
    BY <2>1, <2>2
  <2>4. \A m \in P!Attempts : P!Alive(m)' => P!Alive(m)
    BY <2>1
  <2> QED
    BY <2>2, <2>3, <2>4
<1> QED
  BY <1>1, <1>2, <1>3, <1>4, <1>5, <1>6

\* Spawning is one part of Supervision; elsewhere its variables stay None.
LEMMA SpawnInvariance == Supervision => [](part = "spawning" => SpawnInv)
<1> DEFINE I == part = "spawning" => SpawnInv
<1>1. EitherInit => I
  BY SpawningBegins DEF EitherInit
<1>2. I /\ [EitherNext]_vars => I'
  <2> SUFFICES ASSUME I, [EitherNext]_vars, part' = "spawning"
               PROVE  SpawnInv'
    OBVIOUS
  <2>1. part = "spawning"
    BY DEF EitherNext, Locks, OfSpawning, OfTitan, OfMyst, vars
  <2>2. SpawnInv
    BY <2>1
  <2>3. P!Next \/ UNCHANGED ofSpawning
    BY <2>1 DEF EitherNext, Locks, OfSpawning, OfTitan, OfMyst, vars
  <2>4. CASE P!Next
    BY <2>2, <2>4, SpawnThreadKeeps, SpawnCallerKeeps, SpawnOthersKeep DEF
       P!Next
  <2>5. CASE UNCHANGED ofSpawning
    BY <2>2, <2>5 DEF ofSpawning, SpawnInv, SpawnTyped, HeldIsDone,
       StartsWhenDead, NotBegun, P!NoLeak, P!Alive
  <2> QED
    BY <2>3, <2>4, <2>5
<1> QED
  BY <1>1, <1>2, PTL DEF Supervision

(***************************************************************************)
(* While FEM runs, every live process of the partner is held by the        *)
(* supervisor, by the caller that received it, or by the thread that       *)
(* created it, for any number of starts, time-outs and hung creations      *)
(* (process.rs 165-202).                                                   *)
(***************************************************************************)
THEOREM NoChildLeaks == Supervision => [](part = "spawning" => P!NoLeak)
<1>1. (part = "spawning" => SpawnInv) => (part = "spawning" => P!NoLeak)
  BY DEF SpawnInv
<1> QED
  BY <1>1, SpawnInvariance, PTL

-----------------------------------------------------------------------------
(* Titan                                                                   *)

\* Respawns that the evidence at hand still lets through, the reports of the
\* event log that fail left aside: one for the verdict at hand, then one in
\* each period in which a listing older than the block is reused.
LoopLeft == IF "loop" \in due \/ at["loop"] = "recorded" THEN 1 ELSE 0
Horizon ==
    IF memo = None \/ at["reporter"] = "listed" THEN Memo ELSE Memo - memo.age
Stale ==
    \/ at["reporter"] = "listed" /\ seen["reporter"] # block
    \/ memo # None /\ memo.block # block
Respawns ==
    IF verdict = "restart" THEN 1 + Horizon + LoopLeft
    ELSE IF Stale THEN Horizon + LoopLeft ELSE 0

BlockAge(age) == age = None \/ age \in 0..BlockRecency + 1

TitanTyped ==
    /\ refusals \in Nat /\ lost \in Nat
    /\ due \subseteq T!Checkers
    /\ BlockAge(block)
    /\ memo = None \/ (BlockAge(memo.block) /\ memo.age \in 0..Memo)
    /\ at \in [T!Checkers -> {"idle", "recorded", "listed", "read"}]
    /\ DOMAIN seen = T!Checkers

\* A check ends in the period in which it begins, and the loop makes one.
ListedNow ==
    \A c \in T!Checkers :
        at[c] = "listed" => /\ BlockAge(seen[c])
                            /\ memo = None \/ memo.age = 0
LoopOnce == at["loop"] # "idle" => verdict # "restart" /\ "loop" \notin due

\* While refusals of a block are counted it is in date, and the loop sees it.
BlockInDate ==
    refusals > 0 =>
        /\ refused /\ node = "down"
        /\ T!first_block_for_at(block)
        /\ at["loop"] # "read"
        /\ at["loop"] = "listed" => seen["loop"] = block

Refusable == (Memo + 2) * (lost + 1)
Accounted == refusals + Respawns <= Refusable

TitanInv == TitanTyped /\ ListedNow /\ LoopOnce /\ BlockInDate /\ Accounted


\* A lost listing allows as many respawns more as there were without it.
LEMMA RefusableGrows ==
  ASSUME NEW l \in Nat
  PROVE  /\ (Memo + 2) * (l + 1) \in Nat
         /\ Memo + 2 <= (Memo + 2) * (l + 1)
         /\ (Memo + 2) * (l + 1 + 1) = (Memo + 2) * (l + 1) + Memo + 2
BY TitanAssumption

\* The ranges of what is counted.
LEMMA Sizes ==
  TitanTyped =>
         /\ LoopLeft \in 0..1 /\ Horizon \in 0..Memo
         /\ Refusable \in Nat /\ Memo + 2 <= Refusable
<1> HAVE TitanTyped
<1>1. LoopLeft \in 0..1
  BY DEF LoopLeft
<1>2. Horizon \in 0..Memo
  <2>1. CASE memo = None
    BY <2>1, TitanAssumption DEF Horizon
  <2>2. CASE memo.age \in 0..Memo
    BY <2>2, TitanAssumption DEF Horizon
  <2> QED
    BY <2>1, <2>2 DEF TitanTyped
<1>3. Refusable \in Nat /\ Memo + 2 <= Refusable
  BY RefusableGrows DEF Refusable, TitanTyped
<1> QED
  BY <1>1, <1>2, <1>3

\* Before any refusal what may still come is within the bound.
LEMMA NoneCounted == TitanTyped /\ refusals = 0 => Accounted
<1>1. ASSUME TitanTyped PROVE Respawns \in 0..Memo + 2
  BY <1>1, Sizes, TitanAssumption DEF Respawns
<1> QED
  BY <1>1, Sizes, TitanAssumption DEF Accounted

\* A step that lets no more respawns through, or counts none, stays within.
LEMMA StaysAccounted ==
  ASSUME TitanTyped, TitanTyped', Accounted, UNCHANGED lost,
         refusals' = 0 \/ (refusals' <= refusals /\ Respawns' <= Respawns)
  PROVE  Accounted'
<1>1. (TitanTyped /\ refusals = 0 => Accounted)'
  BY NoneCounted, PTL
<1>2. (TitanTyped => LoopLeft \in 0..1 /\ Horizon \in 0..Memo /\ Refusable \in Nat)'
  BY Sizes, PTL
<1>3. Respawns \in Int /\ Respawns' \in Int
  BY <1>2, Sizes, TitanAssumption DEF Respawns
<1>4. Refusable' = Refusable
  BY DEF Refusable
<1> QED
  BY <1>1, <1>3, <1>4, Sizes DEF Accounted, TitanTyped

\* A checker that begins keeps the invariant.
LEMMA TitanBegins ==
  ASSUME TitanInv, NEW c \in T!Checkers, T!Begin(c)
  PROVE  TitanInv'
<1> USE TitanAssumption DEF TitanInv, T!Begin
<1>1. TitanTyped'
  BY DEF TitanTyped, T!Checkers, BlockAge, T!evidence
<1>2. ListedNow' /\ LoopOnce'
  BY DEF TitanTyped, ListedNow, LoopOnce, T!Checkers, BlockAge, T!evidence
<1>3. BlockInDate'
  BY DEF TitanTyped, BlockInDate, LoopOnce, T!Checkers, T!first_block_for_at,
     T!evidence
<1>4. Accounted'
  BY <1>1, StaysAccounted DEF Respawns, LoopLeft, Horizon, Stale, BlockInDate,
     LoopOnce, ListedNow, TitanTyped, T!Checkers, BlockAge,
     T!first_block_for_at, T!evidence
<1> QED
  BY <1>1, <1>2, <1>3, <1>4

\* So does its verdict on a node that is not running,
LEMMA TitanNotRunning ==
  ASSUME TitanInv, NEW c \in T!Checkers, T!NotRunning(c)
  PROVE  TitanInv'
<1> DEFINE says(what) == T!Says(c, what, fails) /\ UNCHANGED <<memo, refusals>>
           here == UNCHANGED <<refused, node, record, block, due>>
           reads == /\ at' = [at EXCEPT ![c] = "listed"]
                    /\ seen' = [seen EXCEPT ![c] = block]
                    /\ memo = None
                    /\ UNCHANGED <<memo, lost, verdict, refusals>>
           restarts == memo # None /\ ~T!first_block_for_at(memo.block)
<1> USE TitanAssumption DEF TitanInv
<1>1. at[c] = "recorded" /\ here
  BY DEF T!NotRunning
<1>2. \/ says("awaits") /\ UNCHANGED lost
      \/ restarts /\ says("restart") /\ UNCHANGED lost
      \/ memo = None /\ says("restart") /\ lost' = lost + 1
      \/ reads
  BY DEF T!NotRunning, T!cached_listing, T!select_not_running_reason
<1> HIDE DEF restarts
<1>3. TitanTyped' /\ ListedNow' /\ LoopOnce' /\ BlockInDate'
  BY <1>1, <1>2 DEF TitanTyped, BlockAge, ListedNow, LoopOnce, BlockInDate,
     T!Checkers, T!Says, T!first_block_for_at
<1>4. ASSUME \/ says("awaits") /\ UNCHANGED lost
             \/ restarts /\ says("restart") /\ UNCHANGED lost
             \/ reads
      PROVE  Accounted'
  <2> USE DEF TitanTyped, LoopOnce, T!Checkers, Horizon, LoopLeft, Stale,
          Respawns
  <2>1. CASE refusals = 0
    BY <1>1, <1>3, <1>4, <2>1, StaysAccounted DEF T!Says
  <2>2. CASE refusals > 0 /\ says("awaits") /\ UNCHANGED lost
    BY <1>1, <1>3, <2>2, StaysAccounted DEF T!Says
  <2>3. CASE refusals > 0 /\ restarts /\ says("restart") /\ UNCHANGED lost
    <3>1. Stale
      BY <2>3 DEF restarts, BlockInDate, T!first_block_for_at
    <3>2. Horizon' = Horizon
      BY <1>1, <2>3 DEF T!Says
    <3>3. CASE c = "loop"
      <4>1. LoopLeft = 1 /\ LoopLeft' = 0 /\ verdict # "restart" /\ verdict' = "restart"
        BY <1>1, <2>3, <3>3 DEF T!Says
      <4> QED
        BY <1>3, <2>3, <3>1, <3>2, <4>1, StaysAccounted, Sizes DEF T!Says
    <3>4. CASE c = "reporter"
      BY <1>1, <1>3, <2>3, <3>1, <3>2, <3>4, StaysAccounted DEF T!Says
    <3> QED
      BY <3>3, <3>4
  <2>4. CASE refusals > 0 /\ reads
    BY <1>1, <1>3, <2>4, StaysAccounted
  <2> QED
    BY <1>4, <2>1, <2>2, <2>3, <2>4
<1>5. ASSUME memo = None, says("restart"), lost' = lost + 1
      PROVE  Accounted'
  <2>1. Refusable' = Refusable + Memo + 2
    BY <1>5, RefusableGrows DEF Refusable, TitanTyped
  <2>2. (TitanTyped => LoopLeft \in 0..1 /\ Horizon \in 0..Memo)'
    BY Sizes, PTL
  <2>3. Respawns' <= Memo + 2 /\ Respawns >= 0 /\ Respawns \in Int /\ Respawns' \in Int
    BY <1>3, <2>2, Sizes DEF Respawns
  <2>4. refusals' = refusals /\ refusals \in Nat /\ Refusable \in Nat
    BY <1>5, Sizes DEF TitanTyped
  <2> QED
    BY <2>1, <2>3, <2>4 DEF Accounted
<1> QED
  BY <1>2, <1>3, <1>4, <1>5

\* the listing of blocks it uses,
LEMMA TitanListed ==
  ASSUME TitanInv, NEW c \in T!Checkers, T!Listed(c)
  PROVE  TitanInv'
<1> USE TitanAssumption DEF TitanInv, T!Listed, T!Says, T!remember_listing,
        T!select_not_running_reason
<1>1. TitanTyped'
  BY DEF TitanTyped, ListedNow, T!Checkers, BlockAge, T!evidence
<1>2. ListedNow' /\ LoopOnce'
  BY DEF TitanTyped, ListedNow, LoopOnce, T!Checkers, BlockAge, T!evidence
<1>3. BlockInDate'
  BY DEF TitanTyped, BlockInDate, LoopOnce, T!Checkers, T!first_block_for_at,
     T!evidence
<1>4. Accounted'
  BY <1>1, StaysAccounted DEF Respawns, LoopLeft, Horizon, Stale, BlockInDate,
     LoopOnce, ListedNow, TitanTyped, T!Checkers, BlockAge,
     T!first_block_for_at, T!evidence
<1> QED
  BY <1>1, <1>2, <1>3, <1>4

\* the log it reads,
LEMMA TitanLogRead ==
  ASSUME TitanInv, NEW c \in T!Checkers, T!LogRead(c)
  PROVE  TitanInv'
<1> USE TitanAssumption DEF TitanInv, T!LogRead, T!Says
<1>1. TitanTyped'
  BY DEF TitanTyped, T!Checkers, BlockAge, T!evidence
<1>2. ListedNow' /\ LoopOnce'
  BY DEF TitanTyped, ListedNow, LoopOnce, T!Checkers, BlockAge, T!evidence
<1>3. BlockInDate'
  BY DEF TitanTyped, BlockInDate, LoopOnce, T!Checkers, T!first_block_for_at,
     T!evidence
<1>4. Accounted'
  BY <1>1, StaysAccounted DEF Respawns, LoopLeft, Horizon, Stale, BlockInDate,
     LoopOnce, ListedNow, TitanTyped, T!Checkers, BlockAge,
     T!first_block_for_at, T!evidence
<1> QED
  BY <1>1, <1>2, <1>3, <1>4

\* the restart that was decided,
LEMMA TitanRestarts ==
  ASSUME TitanInv, T!Restart
  PROVE  TitanInv'
<1> USE TitanAssumption DEF TitanInv, T!Restart
<1>1. TitanTyped'
  BY DEF TitanTyped, T!Checkers, BlockAge, T!evidence
<1>2. ListedNow' /\ LoopOnce'
  BY DEF TitanTyped, ListedNow, LoopOnce, T!Checkers, BlockAge, T!evidence
<1>3. BlockInDate'
  BY DEF TitanTyped, BlockInDate, LoopOnce, T!Checkers, T!first_block_for_at,
     T!evidence
<1>4. Accounted'
  <2>1. verdict = "restart" /\ refusals' <= refusals + 1
    BY DEF TitanTyped
  <2>2. Horizon' = Horizon /\ LoopLeft' = LoopLeft /\ Refusable' = Refusable
    BY DEF Horizon, LoopLeft, Refusable
  <2>3. Respawns = 1 + Horizon + LoopLeft /\ Respawns' <= Horizon + LoopLeft
    BY <2>1, <2>2, Sizes DEF Respawns
  <2>4. refusals \in Nat /\ refusals' \in Nat
    BY <1>1 DEF TitanTyped
  <2>5. Respawns' \in Int
    BY <2>2, Sizes DEF Respawns
  <2> QED
    BY <2>1, <2>2, <2>3, <2>4, <2>5, Sizes DEF Accounted
<1> QED
  BY <1>1, <1>2, <1>3, <1>4

\* what the node does by itself,
LEMMA TitanNodeSteps ==
  ASSUME TitanInv, T!Node
  PROVE  TitanInv'
<1> USE TitanAssumption DEF TitanInv, T!Node, T!NodeErrs, T!NodeDies
<1>1. TitanTyped'
  BY DEF TitanTyped, T!Checkers, BlockAge, T!evidence
<1>2. ListedNow' /\ LoopOnce'
  BY DEF TitanTyped, ListedNow, LoopOnce, T!Checkers, BlockAge, T!evidence
<1>3. BlockInDate'
  BY DEF TitanTyped, BlockInDate, LoopOnce, T!Checkers, T!first_block_for_at,
     T!evidence
<1>4. Accounted'
  BY <1>1, StaysAccounted DEF Respawns, LoopLeft, Horizon, Stale, BlockInDate,
     LoopOnce, ListedNow, TitanTyped, T!Checkers, BlockAge,
     T!first_block_for_at, T!evidence
<1> QED
  BY <1>1, <1>2, <1>3, <1>4

\* a change of the machine's policy,
LEMMA TitanPolicy ==
  ASSUME TitanInv, T!PolicyChanges
  PROVE  TitanInv'
<1> USE TitanAssumption DEF TitanInv, T!PolicyChanges
<1>1. TitanTyped'
  BY DEF TitanTyped, T!Checkers, BlockAge, T!evidence
<1>2. ListedNow' /\ LoopOnce'
  BY DEF TitanTyped, ListedNow, LoopOnce, T!Checkers, BlockAge, T!evidence
<1>3. BlockInDate'
  BY DEF TitanTyped, BlockInDate, LoopOnce, T!Checkers, T!first_block_for_at,
     T!evidence
<1>4. Accounted'
  BY <1>1, StaysAccounted DEF Respawns, LoopLeft, Horizon, Stale, BlockInDate,
     LoopOnce, ListedNow, TitanTyped, T!Checkers, BlockAge,
     T!first_block_for_at, T!evidence
<1> QED
  BY <1>1, <1>2, <1>3, <1>4

\* and the passing of time.
LEMMA TitanTicks ==
  ASSUME TitanInv, T!Tick
  PROVE  TitanInv'
<1> USE TitanAssumption DEF TitanInv, T!Tick, T!Older
<1>1. TitanTyped'
  BY DEF TitanTyped, T!Checkers, BlockAge, T!evidence
<1>2. ListedNow' /\ LoopOnce'
  BY DEF TitanTyped, ListedNow, LoopOnce, T!Checkers, BlockAge, T!evidence
<1>3. BlockInDate'
  BY DEF TitanTyped, BlockInDate, LoopOnce, T!Checkers, T!first_block_for_at,
     T!evidence
<1>4. Accounted'
  BY <1>1, StaysAccounted DEF Respawns, LoopLeft, Horizon, Stale, BlockInDate,
     LoopOnce, ListedNow, TitanTyped, T!Checkers, BlockAge,
     T!first_block_for_at, T!evidence
<1> QED
  BY <1>1, <1>2, <1>3, <1>4

\* The invariant holds at first.
LEMMA TitanBegun == T!Init => TitanInv
<1>1. T!Init => TitanTyped /\ ListedNow /\ LoopOnce /\ BlockInDate /\ refusals = 0
  BY TitanAssumption DEF T!Init, TitanTyped, BlockAge, ListedNow, LoopOnce,
     BlockInDate, T!Checkers
<1> QED
  BY <1>1, NoneCounted DEF TitanInv

\* The steps together.
LEMMA TitanNext == ASSUME TitanInv, T!Next PROVE TitanInv'
<1>1. ASSUME NEW c \in T!Checkers, T!Checks(c)
      PROVE  TitanInv'
  BY <1>1, TitanBegins, TitanNotRunning, TitanListed, TitanLogRead DEF T!Checks
<1> QED
  BY <1>1, TitanRestarts, TitanNodeSteps, TitanPolicy, TitanTicks DEF T!Next

(***************************************************************************)
(* A node that Windows refuses to load is not respawned forever, for any   *)
(* length of the windows and any number of failed queries: the respawns    *)
(* that meet one block in date are at most those that a listing from       *)
(* before it allows, and once more as many for each failed query of the    *)
(* event log (code_integrity.rs 1-19, 330).                                *)
(***************************************************************************)
THEOREM RefusedNodesRest == Supervision => []FewRefusals
<1> DEFINE I == part = "titan" => TitanInv
<1>1. EitherInit => I
  BY TitanBegun DEF EitherInit
<1>2. I /\ [EitherNext]_vars => I'
  <2> SUFFICES ASSUME I, [EitherNext]_vars, part' = "titan"
               PROVE  TitanInv'
    OBVIOUS
  <2>1. part = "titan" /\ (T!Next \/ UNCHANGED <<ofTitan, ofChecks, record, at>>)
    BY DEF EitherNext, Locks, OfSpawning, OfTitan, OfMyst, vars
  <2>2. CASE T!Next
    BY <2>1, <2>2, TitanNext
  <2>3. CASE UNCHANGED <<ofTitan, ofChecks, record, at>>
    BY <2>1, <2>3 DEF ofTitan, ofChecks, TitanInv, TitanTyped, BlockAge,
       ListedNow, LoopOnce, BlockInDate, Accounted, Refusable, Respawns,
       LoopLeft, Horizon, Stale, T!first_block_for_at
  <2> QED
    BY <2>1, <2>2, <2>3
<1>3. I => FewRefusals
  <2>1. TitanInv => Respawns >= 0 /\ Respawns \in Int /\ refusals \in Nat /\ Refusable \in Nat
    BY Sizes DEF TitanInv, Respawns, TitanTyped
  <2>2. TitanInv => refusals <= Refusable
    BY <2>1 DEF TitanInv, Accounted
  <2> QED
    BY <2>2 DEF FewRefusals, T!FewRefusals, Refusable
<1> QED
  BY <1>1, <1>2, <1>3, PTL DEF Supervision

-----------------------------------------------------------------------------
(* MystNodes                                                               *)

LoopFree == "loop" \in due \/ at["loop"] # "idle"
LoopStarts ==
    start # None /\ start.by = "loop" /\ start.place \in {"fetch", "missing"}
Spending == verdict = "restart" \/ LoopStarts

\* What still acts upon a token that was withdrawn, and what lets the loop
\* start a client once more.
Leftover ==
    \/ \E c \in M!Checkers : at[c] = "store" /\ reading[c] = "present"
    \/ start # None /\ start.place \in {"spawn", "clear"}
Armed == since = None \/ client = "up"

MystTyped ==
    /\ token \in BOOLEAN /\ client \in {"down", "up"}
    /\ since = None \/ since \in 0..Recheck
    /\ due \subseteq M!Checkers
    /\ at \in [M!Checkers -> {"idle", "dead", "lookup", "store"}]
    /\ DOMAIN reading = M!Checkers
    /\ start = None \/ start \in [place : M!Places, left : 0..Retries, by : {"loop", "owner"}]
    /\ spent \in Nat

\* The loop comes to one verdict in a period, and waits for its start.
LoopWaits == LoopFree => ~M!LoopIsBusy
LoopIdles == "loop" \in due => at["loop"] = "idle"
RestartHasEnded ==
    /\ start # None /\ start.by = "loop" => verdict # "restart"
    /\ LoopStarts => client = "down"

Budgeted ==
    /\ token => spent = 0
    /\ ~token =>
          IF Leftover THEN spent = 0 \/ (spent = 1 /\ ~Spending /\ ~LoopFree)
          ELSE spent + (IF Armed \/ Spending THEN 1 ELSE 0) <= 2

MystInv == MystTyped /\ LoopWaits /\ LoopIdles /\ RestartHasEnded /\ Budgeted

\* The lookup of a start keeps the invariant.
LEMMA MystFetches ==
  ASSUME MystInv, M!Fetch
  PROVE  MystInv'
<1> USE MystAssumption DEF MystInv, MystTyped, M!Checkers, M!Fetch, M!lookup,
        M!Answers
<1>1. MystTyped'
  BY DEF M!Places, M!Answers
<1>2. LoopWaits' /\ LoopIdles' /\ RestartHasEnded'
  BY DEF LoopWaits, LoopIdles, RestartHasEnded, LoopFree, LoopStarts,
     M!LoopIsBusy
<1>3. Budgeted'
  BY DEF LoopWaits, LoopIdles, RestartHasEnded, Budgeted, LoopFree, LoopStarts,
     Spending,
     Leftover, Armed, M!LoopIsBusy
<1> QED
  BY <1>1, <1>2, <1>3

\* So does a start that found no token,
LEMMA MystMisses ==
  ASSUME MystInv, M!TokenMissing
  PROVE  MystInv'
<1> USE MystAssumption DEF MystInv, MystTyped, M!Checkers, M!TokenMissing,
        M!Many
<1>1. MystTyped'
  BY DEF M!Places, M!Answers
<1>2. LoopWaits' /\ LoopIdles' /\ RestartHasEnded'
  BY DEF LoopWaits, LoopIdles, RestartHasEnded, LoopFree, LoopStarts,
     M!LoopIsBusy
<1>3. Budgeted'
  BY DEF LoopWaits, LoopIdles, RestartHasEnded, Budgeted, LoopFree, LoopStarts,
     Spending,
     Leftover, Armed, M!LoopIsBusy
<1> QED
  BY <1>1, <1>2, <1>3

\* the spawn of the client,
LEMMA MystSpawns ==
  ASSUME MystInv, M!SpawnClient
  PROVE  MystInv'
<1> USE MystAssumption DEF MystInv, MystTyped, M!Checkers, M!SpawnClient
<1>1. MystTyped'
  BY DEF M!Places, M!Answers
<1>2. LoopWaits' /\ LoopIdles' /\ RestartHasEnded'
  BY DEF LoopWaits, LoopIdles, RestartHasEnded, LoopFree, LoopStarts,
     M!LoopIsBusy
<1>3. Budgeted'
  BY DEF LoopWaits, LoopIdles, RestartHasEnded, Budgeted, LoopFree, LoopStarts,
     Spending,
     Leftover, Armed, M!LoopIsBusy
<1> QED
  BY <1>1, <1>2, <1>3

\* the clearing of the memory behind it,
LEMMA MystSpawned ==
  ASSUME MystInv, M!Spawned
  PROVE  MystInv'
<1> USE MystAssumption DEF MystInv, MystTyped, M!Checkers, M!Spawned
<1>1. MystTyped'
  BY DEF M!Places, M!Answers
<1>2. LoopWaits' /\ LoopIdles' /\ RestartHasEnded'
  BY DEF LoopWaits, LoopIdles, RestartHasEnded, LoopFree, LoopStarts,
     M!LoopIsBusy
<1>3. Budgeted'
  BY DEF LoopWaits, LoopIdles, RestartHasEnded, Budgeted, LoopFree, LoopStarts,
     Spending,
     Leftover, Armed, M!LoopIsBusy
<1> QED
  BY <1>1, <1>2, <1>3

\* a checker's look at the client,
LEMMA MystStatus ==
  ASSUME MystInv, NEW c \in M!Checkers, M!Status(c)
  PROVE  MystInv'
<1> USE MystAssumption DEF MystInv, MystTyped, M!Checkers, M!Status, M!Says
<1>1. MystTyped'
  BY DEF M!Places, M!Answers
<1>2. LoopWaits' /\ LoopIdles' /\ RestartHasEnded'
  BY DEF LoopWaits, LoopIdles, RestartHasEnded, LoopFree, LoopStarts,
     M!LoopIsBusy
<1>3. Budgeted'
  BY DEF LoopWaits, LoopIdles, RestartHasEnded, Budgeted, LoopFree, LoopStarts,
     Spending,
     Leftover, Armed, M!LoopIsBusy
<1> QED
  BY <1>1, <1>2, <1>3

\* its look at the memory of the missing token,
LEMMA MystTokenState ==
  ASSUME MystInv, NEW c \in M!Checkers, M!TokenState(c)
  PROVE  MystInv'
<1> USE MystAssumption DEF MystInv, MystTyped, M!Checkers, M!TokenState,
        M!Says, M!token_missing_recently, M!process_not_running_reason
<1>1. MystTyped'
  BY DEF M!Places, M!Answers
<1>2. LoopWaits' /\ LoopIdles' /\ RestartHasEnded'
  BY DEF LoopWaits, LoopIdles, RestartHasEnded, LoopFree, LoopStarts,
     M!LoopIsBusy
<1>3. Budgeted'
  BY DEF LoopWaits, LoopIdles, RestartHasEnded, Budgeted, LoopFree, LoopStarts,
     Spending,
     Leftover, Armed, M!LoopIsBusy
<1> QED
  BY <1>1, <1>2, <1>3

\* its own lookup,
LEMMA MystLooksUp ==
  ASSUME MystInv, NEW c \in M!Checkers, M!token_present(c)
  PROVE  MystInv'
<1> USE MystAssumption DEF MystInv, MystTyped, M!Checkers, M!token_present,
        M!lookup
<1>1. MystTyped'
  BY DEF M!Places, M!Answers
<1>2. LoopWaits' /\ LoopIdles' /\ RestartHasEnded'
  BY DEF LoopWaits, LoopIdles, RestartHasEnded, LoopFree, LoopStarts,
     M!LoopIsBusy
<1>3. Budgeted'
  BY DEF LoopWaits, LoopIdles, RestartHasEnded, Budgeted, LoopFree, LoopStarts,
     Spending,
     Leftover, Armed, M!LoopIsBusy
<1> QED
  BY <1>1, <1>2, <1>3

\* the verdict after it,
LEMMA MystRechecks ==
  ASSUME MystInv, NEW c \in M!Checkers, M!Rechecked(c)
  PROVE  MystInv'
<1> USE MystAssumption DEF MystInv, MystTyped, M!Checkers, M!Rechecked, M!Says,
        M!still_missing_after_recheck, M!process_not_running_reason
<1>1. MystTyped'
  BY DEF M!Places, M!Answers
<1>2. LoopWaits' /\ LoopIdles' /\ RestartHasEnded'
  BY DEF LoopWaits, LoopIdles, RestartHasEnded, LoopFree, LoopStarts,
     M!LoopIsBusy
<1>3. Budgeted'
  BY DEF LoopWaits, LoopIdles, RestartHasEnded, Budgeted, LoopFree, LoopStarts,
     Spending,
     Leftover, Armed, M!LoopIsBusy
<1> QED
  BY <1>1, <1>2, <1>3

\* the restart that was decided,
LEMMA MystRecovers ==
  ASSUME MystInv, M!RecoveryStarts
  PROVE  MystInv'
<1> USE MystAssumption DEF MystInv, MystTyped, M!Checkers, M!RecoveryStarts
<1>1. MystTyped'
  BY DEF M!Places, M!Answers
<1>2. LoopWaits' /\ LoopIdles' /\ RestartHasEnded'
  BY DEF LoopWaits, LoopIdles, RestartHasEnded, LoopFree, LoopStarts,
     M!LoopIsBusy
<1>3. Budgeted'
  BY DEF LoopWaits, LoopIdles, RestartHasEnded, Budgeted, LoopFree, LoopStarts,
     Spending,
     Leftover, Armed, M!LoopIsBusy
<1> QED
  BY <1>1, <1>2, <1>3

\* a start by the owner,
LEMMA MystOwnerStarts ==
  ASSUME MystInv, M!OwnerStarts
  PROVE  MystInv'
<1> USE MystAssumption DEF MystInv, MystTyped, M!Checkers, M!OwnerStarts
<1>1. MystTyped'
  BY DEF M!Places, M!Answers
<1>2. LoopWaits' /\ LoopIdles' /\ RestartHasEnded'
  BY DEF LoopWaits, LoopIdles, RestartHasEnded, LoopFree, LoopStarts,
     M!LoopIsBusy
<1>3. Budgeted'
  BY DEF LoopWaits, LoopIdles, RestartHasEnded, Budgeted, LoopFree, LoopStarts,
     Spending,
     Leftover, Armed, M!LoopIsBusy
<1> QED
  BY <1>1, <1>2, <1>3

\* the death of the client,
LEMMA MystDies ==
  ASSUME MystInv, M!ClientDies
  PROVE  MystInv'
<1> USE MystAssumption DEF MystInv, MystTyped, M!Checkers, M!ClientDies
<1>1. MystTyped'
  BY DEF M!Places, M!Answers
<1>2. LoopWaits' /\ LoopIdles' /\ RestartHasEnded'
  BY DEF LoopWaits, LoopIdles, RestartHasEnded, LoopFree, LoopStarts,
     M!LoopIsBusy
<1>3. Budgeted'
  BY DEF LoopWaits, LoopIdles, RestartHasEnded, Budgeted, LoopFree, LoopStarts,
     Spending,
     Leftover, Armed, M!LoopIsBusy
<1> QED
  BY <1>1, <1>2, <1>3

\* a token that comes or goes,
LEMMA MystTokenChanges ==
  ASSUME MystInv, M!TokenChanges
  PROVE  MystInv'
<1> USE MystAssumption DEF MystInv, MystTyped, M!Checkers, M!TokenChanges
<1>1. MystTyped'
  BY DEF M!Places, M!Answers
<1>2. LoopWaits' /\ LoopIdles' /\ RestartHasEnded'
  BY DEF LoopWaits, LoopIdles, RestartHasEnded, LoopFree, LoopStarts,
     M!LoopIsBusy
<1>3. Budgeted'
  BY DEF LoopWaits, LoopIdles, RestartHasEnded, Budgeted, LoopFree, LoopStarts,
     Spending,
     Leftover, Armed, M!LoopIsBusy
<1> QED
  BY <1>1, <1>2, <1>3

\* and the passing of time.
LEMMA MystTicks ==
  ASSUME MystInv, M!Tick
  PROVE  MystInv'
<1> USE MystAssumption DEF MystInv, MystTyped, M!Checkers, M!Tick
<1>1. MystTyped'
  BY DEF M!Places, M!Answers
<1>2. LoopWaits' /\ LoopIdles' /\ RestartHasEnded'
  BY DEF LoopWaits, LoopIdles, RestartHasEnded, LoopFree, LoopStarts,
     M!LoopIsBusy
<1>3. Budgeted'
  BY DEF LoopWaits, LoopIdles, RestartHasEnded, Budgeted, LoopFree, LoopStarts,
     Spending,
     Leftover, Armed, M!LoopIsBusy
<1> QED
  BY <1>1, <1>2, <1>3

\* The invariant holds at first.
LEMMA MystBegun == M!Init => MystInv
BY MystAssumption DEF M!Init, MystInv, MystTyped, M!Checkers, M!Places,
   LoopWaits,
   LoopIdles, RestartHasEnded, Budgeted, LoopFree, LoopStarts, Spending,
   Leftover, Armed, M!LoopIsBusy

\* The steps together.
LEMMA MystNext == ASSUME MystInv, M!Next PROVE MystInv'
<1>1. CASE M!Starting
  BY <1>1, MystFetches, MystMisses, MystSpawns, MystSpawned DEF M!Starting
<1>2. ASSUME NEW c \in M!Checkers, M!Checks(c)
      PROVE  MystInv'
  BY <1>2, MystStatus, MystTokenState, MystLooksUp, MystRechecks DEF M!Checks
<1> QED
  BY <1>1, <1>2, MystRecovers, MystOwnerStarts, MystDies, MystTokenChanges,
     MystTicks DEF M!Next

(***************************************************************************)
(* A client without a token does not spend the restart budget (mysterium.rs *)
(* 484-497, 590-601): while there is none, the loop's restarts find that   *)
(* out at most twice, for any period of the recheck, any number of further *)
(* lookups and of lookups that fail.                                       *)
(***************************************************************************)
THEOREM TokenlessRestartsAreFew == Supervision => []BudgetIsKept
<1> DEFINE I == part = "mysterium" => MystInv
<1>1. EitherInit => I
  BY MystBegun DEF EitherInit
<1>2. I /\ [EitherNext]_vars => I'
  <2> SUFFICES ASSUME I, [EitherNext]_vars, part' = "mysterium"
               PROVE  MystInv'
    OBVIOUS
  <2>1. part = "mysterium" /\ (M!Next \/ UNCHANGED <<ofMyst, ofChecks, at>>)
    BY DEF EitherNext, Locks, OfSpawning, OfTitan, OfMyst, vars
  <2>2. CASE M!Next
    BY <2>1, <2>2, MystNext
  <2>3. CASE UNCHANGED <<ofMyst, ofChecks, at>>
    BY <2>1, <2>3 DEF ofMyst, ofChecks, MystInv, MystTyped, LoopWaits,
       LoopIdles, RestartHasEnded, Budgeted, LoopFree, LoopStarts, Spending,
       Leftover, Armed, M!LoopIsBusy
  <2> QED
    BY <2>1, <2>2, <2>3
<1>3. I => BudgetIsKept
  BY DEF MystInv, MystTyped, Budgeted, BudgetIsKept, M!BudgetIsKept
<1> QED
  BY <1>1, <1>2, <1>3, PTL DEF Supervision
=============================================================================
