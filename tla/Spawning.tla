------------------------------ MODULE Spawning ------------------------------
(***************************************************************************)
(* How one partner process is created, kept and ended: supervisor/mod.rs,  *)
(* process.rs, start_failure.rs and the job object of platform.rs.  Each   *)
(* call of the supervisor holds its mutex.  The process is created by a    *)
(* thread of its own, since CreateProcess may hang behind a loader dialog; *)
(* the caller waits for it for SPAWN_TIMEOUT and goes.  The thread hands   *)
(* the child over through a channel without a buffer, so that a child is   *)
(* either received or known to be nobody's.                                *)
(***************************************************************************)
EXTENDS Integers

CONSTANTS MaxAttempts,      \* bound on start attempts
          None

Attempts == 1..MaxAttempts

VARIABLES
    thread,     \* per attempt, the spawn thread
    child,      \* per attempt, its process
    newest,     \* start_failure: the newest attempt, 0 before the first
    record,     \* start_failure: the attempt whose failure is on record
    held,       \* the process in the supervisor's map
    call,       \* the start in progress: the mutex is taken
    job,        \* children in the kill-on-close job
    fem         \* FEM runs

vars == <<thread, child, newest, record, held, call, job, fem>>

NoCall == [step |-> "none", of |-> None]
Waiting(n) == [step |-> "wait", of |-> n]
Adopting(n) == [step |-> "adopt", of |-> n]

TypeOK ==
    /\ thread \in [Attempts -> {"none", "creating", "failed", "current",
                                "offers", "offers error", "done"}]
    /\ child \in [Attempts -> {"none", "alive", "exited", "crashed"}]
    /\ newest \in 0..MaxAttempts
    /\ record \in Attempts \cup {None}
    /\ held \in Attempts \cup {None}
    /\ call \in {NoCall} \cup [step : {"wait", "adopt"}, of : Attempts]
    /\ job \in SUBSET Attempts
    /\ fem \in BOOLEAN

Init ==
    /\ thread = [n \in Attempts |-> "none"]
    /\ child = [n \in Attempts |-> "none"]
    /\ newest = 0 /\ record = None /\ held = None
    /\ call = NoCall /\ job = {} /\ fem = TRUE

Alive(n) == child[n] = "alive"

\* The mutex is free, and so is this process.
Free == fem /\ call = NoCall

\* is_running: a child seen alive clears the record; one that is seen dead
\* soon after its start, with a Windows status, goes on record.
Observed(n) ==
    IF n # newest THEN record
    ELSE CASE Alive(n) -> None
           [] child[n] = "crashed" -> n
           [] OTHER -> record

\* start_integration: the one that runs already will do.
StartSkipped ==
    /\ Free /\ held # None
    /\ Alive(held)
    /\ record' = Observed(held)
    /\ UNCHANGED <<thread, child, newest, held, call, job, fem>>

\* begin_attempt: the new attempt takes the record over, empty.
StartBegins ==
    /\ Free /\ newest < MaxAttempts
    /\ held = None \/ (held # None /\ child[held] # "alive")
    /\ newest' = newest + 1
    /\ record' = None
    /\ thread' = [thread EXCEPT ![newest + 1] = "creating"]
    /\ call' = Waiting(newest + 1)
    /\ UNCHANGED <<child, held, job, fem>>

\* the spawn thread
Created(n) ==
    /\ fem /\ thread[n] = "creating"
    /\ child' = [child EXCEPT ![n] = "alive"]
    /\ thread' = [thread EXCEPT ![n] = "offers"]
    /\ UNCHANGED <<newest, record, held, call, job, fem>>

CreateFails(n) ==
    /\ fem /\ thread[n] = "creating"
    /\ thread' = [thread EXCEPT ![n] = "failed"]
    /\ UNCHANGED <<child, newest, record, held, call, job, fem>>

\* record_spawn_error_for_attempt: is_current under one lock ...
ChecksCurrent(n) ==
    /\ fem /\ thread[n] = "failed"
    /\ thread' = [thread EXCEPT ![n] = IF newest = n THEN "current" ELSE "offers error"]
    /\ UNCHANGED <<child, newest, record, held, call, job, fem>>

\* ... and the record under another
RecordsError(n) ==
    /\ fem /\ thread[n] = "current"
    /\ record' = n
    /\ thread' = [thread EXCEPT ![n] = "offers error"]
    /\ UNCHANGED <<child, newest, held, call, job, fem>>

\* recv_timeout
Receives(n) ==
    /\ fem /\ call = Waiting(n)
    /\ \/ thread[n] = "offers" /\ call' = Adopting(n)
       \/ thread[n] = "offers error" /\ call' = NoCall
    /\ thread' = [thread EXCEPT ![n] = "done"]
    /\ UNCHANGED <<child, newest, record, held, job, fem>>

TimesOut(n) ==
    /\ fem /\ call = Waiting(n)
    /\ call' = NoCall
    /\ UNCHANGED <<thread, child, newest, record, held, job, fem>>

\* A deviation the runs must notice: a channel with room for the child takes
\* it, though nobody will read it.
NobodyWaitsBuffered(n) ==
    /\ fem /\ thread[n] \in {"offers", "offers error"} /\ call # Waiting(n)
    /\ thread' = [thread EXCEPT ![n] = "done"]
    /\ UNCHANGED <<child, newest, record, held, call, job, fem>>

\* The send fails when nobody waits: the thread ends the child itself.
NobodyWaits(n) ==
    /\ fem /\ thread[n] \in {"offers", "offers error"} /\ call # Waiting(n)
    /\ thread' = [thread EXCEPT ![n] = "done"]
    /\ child' = [child EXCEPT ![n] = IF Alive(n) THEN "exited" ELSE @]
    /\ job' = job \ {n}
    /\ UNCHANGED <<newest, record, held, call, fem>>

\* adopt_into_partner_job may fail; then the map takes the child
Adopts(n) ==
    /\ fem /\ call = Adopting(n)
    /\ job' \in {job, job \cup {n}}
    /\ held' = n
    /\ record' = None
    /\ call' = NoCall
    /\ UNCHANGED <<thread, child, newest, fem>>

\* stop_integration, and the Drop of what is taken from the map
Stop ==
    /\ Free
    /\ child' = [n \in Attempts |->
                    IF n = held /\ Alive(n) THEN "exited" ELSE child[n]]
    /\ held' = None
    /\ record' = None
    /\ UNCHANGED <<thread, newest, call, job, fem>>

GetStatus ==
    /\ Free /\ held # None
    /\ record' = Observed(held)
    /\ UNCHANGED <<thread, child, newest, held, call, job, fem>>

ChildEnds(n) ==
    /\ Alive(n)
    /\ \E how \in {"exited", "crashed"} : child' = [child EXCEPT ![n] = how]
    /\ UNCHANGED <<thread, newest, record, held, call, job, fem>>

\* FEM is ended from outside: Windows closes the job and ends what is in it.
Killed ==
    /\ fem
    /\ fem' = FALSE
    /\ child' = [n \in Attempts |-> IF n \in job /\ Alive(n) THEN "exited" ELSE child[n]]
    /\ UNCHANGED <<thread, newest, record, held, call, job>>

Thread(n) ==
    \/ Created(n) \/ CreateFails(n) \/ ChecksCurrent(n) \/ RecordsError(n)
    \/ NobodyWaits(n)
Caller(n) == Receives(n) \/ TimesOut(n) \/ Adopts(n)

Next ==
    \/ StartSkipped \/ StartBegins \/ Stop \/ GetStatus \/ Killed
    \/ \E n \in Attempts : Thread(n) \/ Caller(n) \/ ChildEnds(n)

Spec == Init /\ [][Next]_vars

\* A caller goes on, and a thread once CreateProcess has returned; whether it
\* ever returns is not FEM's to say.
Fairness ==
    \A n \in Attempts :
        /\ WF_vars(Caller(n))
        /\ WF_vars(ChecksCurrent(n) \/ RecordsError(n) \/ NobodyWaits(n))

LiveSpec == Spec /\ Fairness

-----------------------------------------------------------------------------
(***************************************************************************)
(* A live child is in the supervisor's map, or in the hands of the caller  *)
(* that received it, or still with the thread that created it, which will  *)
(* hand it over or end it.  A creation that ends after its caller gave up  *)
(* leaves no process that nobody holds (process.rs 165-202).               *)
(***************************************************************************)
NoLeak ==
    fem => \A n \in Attempts :
              Alive(n) => held = n \/ call = Adopting(n) \/ thread[n] = "offers"

(***************************************************************************)
(* Even when CreateProcess hangs, a start returns and gives the mutex of   *)
(* the supervisor back (process.rs 19, 188-197), so the cards that share   *)
(* it are not stuck.                                                       *)
(***************************************************************************)
MutexComesBack == (fem /\ call # NoCall) ~> (~fem \/ call = NoCall)

(***************************************************************************)
(* A child that came too late is ended.                                    *)
(***************************************************************************)
LateChildEnds ==
    \A n \in Attempts :
        (fem /\ Alive(n) /\ held # n) ~> (~fem \/ ~Alive(n) \/ held = n)

(***************************************************************************)
(* start_failure.rs 127-129: a spawn that fails late must not overwrite a  *)
(* newer attempt's record.  The thread looks at the attempt under one lock *)
(* and writes the record under another; a new attempt fits in between.     *)
(***************************************************************************)
LatestAttemptWins == record # None => record = newest

(***************************************************************************)
(* process.rs 408-411: ending FEM leaves zero partner processes.  A child  *)
(* joins the job only after it has been handed over.                       *)
(***************************************************************************)
NoOrphans == ~fem => \A n \in Attempts : ~Alive(n)
=============================================================================
