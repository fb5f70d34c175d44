------------------------------ MODULE LockOrder ------------------------------
(***************************************************************************)
(* The std locks of AppState that one task may hold while it waits for     *)
(* another: who takes which, in which order. A critical section that takes *)
(* no further lock is one step; the registry is a Mutex, the others are    *)
(* RwLocks.                                                                *)
(***************************************************************************)
EXTENDS Integers, Sequences

CONSTANTS
    Command,       \* commands of the pages that take part
    Callers,       \* the calls of a command that may be under way at once
    Background     \* tasks of the app that take part, each of them once

\* A place in the code that waits for a lock, with the locks it holds there.
Site(holds, lock, mode) == [holds |-> holds, lock |-> lock, mode |-> mode]

Own(lock, mode) == [lock |-> lock, mode |-> mode]

Rewards == {Own("registry", "write"), Own("reward_cache", "read")}

\* A deviation the runs must notice: the health map is taken first.
reward_summary_reversed ==
    <<Site({}, "last_health", "read"),
      Site({Own("last_health", "read")}, "registry", "write")>>

\* The registry guard lives to the end of the command.
get_reward_summary ==
    <<Site({}, "registry", "write"),
      Site({Own("registry", "write")}, "last_health", "read"),
      Site({Own("registry", "write")}, "reward_cache", "read"),
      Site(Rewards, "config", "read")>>

\* So do the two map guards of the card poll; the registry guard does not.
get_integrations ==
    <<Site({}, "registry", "write"),
      Site({}, "last_health", "read"),
      Site({Own("last_health", "read")}, "last_errors", "read"),
      Site({Own("last_health", "read"), Own("last_errors", "read")}, "pending", "read")>>

\* An unknown id is recorded on the card under the registry guard.
toggle_integration ==
    <<Site({}, "registry", "write"),
      Site({}, "pending", "write"),
      Site({}, "registry", "write"),
      Site({Own("registry", "write")}, "last_errors", "write"),
      Site({}, "registry", "write"),
      Site({}, "config", "write"),
      Site({}, "pending", "write")>>

check_fn == <<Site({}, "registry", "write"), Site({}, "last_health", "write")>>

forwarder == <<Site({}, "last_health", "write")>>

\* compute_health_map takes the registry twice, build_poc_doc once more.
poc_tick ==
    <<Site({}, "config", "read"),
      Site({}, "registry", "write"), Site({}, "registry", "write"),
      Site({}, "registry", "write"),
      Site({}, "reward_cache", "write")>>

\* A cycle of the watcher starts the engine, and reads the registry under the
\* health map; or it recovers what waits for the engine, whose listing reads the
\* health map under the registry guard.
docker_watcher ==
    <<Site({}, "last_health", "write"),
      Site({Own("last_health", "write")}, "registry", "write"),
      Site({}, "registry", "write"),
      Site({Own("registry", "write")}, "last_health", "read"),
      Site({}, "registry", "write"),
      Site({}, "last_health", "write"),
      Site({}, "last_errors", "write")>>

Program ==
    [get_reward_summary  |-> get_reward_summary,
     get_integrations    |-> get_integrations,
     toggle_integration  |-> toggle_integration,
     check_fn            |-> check_fn,
     forwarder           |-> forwarder,
     poc_tick            |-> poc_tick,
     docker_watcher      |-> docker_watcher]

Commands == {"get_reward_summary", "get_integrations", "toggle_integration"}

ASSUME TaskAssumption ==
    /\ Command \subseteq Commands
    /\ Background \subseteq DOMAIN Program \ Commands

\* Who takes part: every call of a command, and each task of the app.
App == "app"
Task == (Command \X Callers) \cup (Background \X {App})

VARIABLE pc    \* the site each task waits at

Sites(t) == Program[t[1]]
At(t) == Sites(t)[pc[t]]

Conflict(m, n) == m = "write" \/ n = "write"

\* Task u holds what task t waits for.
Holds(u, t) ==
    \E o \in At(u).holds : o.lock = At(t).lock /\ Conflict(At(t).mode, o.mode)

\* Task t waits behind task u: for its guard or, as a reader, in the queue of
\* an RwLock that lets no reader past a waiting writer.
Blocks(u, t) ==
    \/ Holds(u, t)
    \/ At(t).mode = "read" /\ At(u).mode = "write" /\ At(u).lock = At(t).lock

Init == pc = [t \in Task |-> 1]

\* A task takes the lock it waits for, and with it moves to its next site or,
\* everything released, back to its first. Readers may pass a waiting writer.
Acquire(t) ==
    /\ \A u \in Task \ {t} : ~Holds(u, t)
    /\ pc' = [pc EXCEPT ![t] = IF @ < Len(Sites(t)) THEN @ + 1 ELSE 1]

Next == \E t \in Task : Acquire(t)

Spec == Init /\ [][Next]_pc

-----------------------------------------------------------------------------
(* Properties.                                                             *)

\* The sites are those of the programs.
TypeOK ==
    /\ pc \in [Task -> Nat]
    /\ \A t \in Task : pc[t] \in 1 .. Len(Sites(t))

\* The tasks of S wait for nothing but each other, forever.
Circular(S) == S # {} /\ \A s \in S : \E u \in S : Blocks(u, s)

\* The watcher has started Docker Desktop and waits for the registry under the
\* health map (docker_watcher.rs 97-98).
StartsEngine(t) ==
    /\ t = <<"docker_watcher", App>> /\ At(t).lock = "registry"
    /\ Own("last_health", "write") \in At(t).holds

\* A reward summary waits for the health map under the registry's guard.
CountsHealth(t) ==
    /\ t[1] = "get_reward_summary" /\ At(t).lock = "last_health"
    /\ Own("registry", "write") \in At(t).holds

\* There is one inversion in the app's lock order, and no other way to wedge:
\* whatever tasks come to wait for each other, through guards or the queues of
\* the RwLocks, among them are the watcher in its engine start and a reward
\* summary between its two locks.  Everything else takes the locks in one order.
OnlyTheEngineStartWedges ==
    \A S \in SUBSET Task : Circular(S) =>
        /\ \E w \in S : StartsEngine(w)
        /\ \E s \in S : CountsHealth(s)

\* What stalls is isolated: the reporting tick is never among tasks that will
\* wait for each other forever (poc/reporter.rs, main.rs B1).
TickNotWedged ==
    \A S \in SUBSET Task : Circular(S) => <<"poc_tick", App>> \notin S
=============================================================================
