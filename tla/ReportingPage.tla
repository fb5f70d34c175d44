---------------------------- MODULE ReportingPage ----------------------------
(***************************************************************************)
(* The mining lease of a device, and what the pages show of the reporting: *)
(* the tick (main.rs 971-983, 1114-1172), the report of a new version at   *)
(* launch (device.rs 1211-1336), and useReporting.ts.                      *)
(***************************************************************************)
EXTENDS Integers, Sequences

CONSTANTS
    MaxTaken,   \* bound on the leases that the server takes away
    MaxLost,    \* bound on the calls that fail
    MaxTicks,   \* bound on the ticks whose submission may fail, as may be seen
    MaxRuns,    \* bound on the runs of FEM
    None

Actors == {"tick", "hook"}

VARIABLES
    install,    \* install_id is set; without it the device is half registered
    holder,     \* the server: who holds the lease
    status,     \* ReportingStatus of AppState
    step,       \* per actor, its place
    reported,   \* last_reported_version is the version that runs
    wire,       \* the reporting-status events that are under way
    answer,     \* the answer to the page's get_reporting_status, or None
    page,       \* what the page shows, or None
    spent       \* what was used of the bounds

vars == <<install, holder, status, step, reported, wire, answer, page, spent>>

Statuses == [poc : BOOLEAN, lease : BOOLEAN]
Bounds == [taken |-> MaxTaken, lost |-> MaxLost, failed |-> MaxTicks, runs |-> MaxRuns]
Spend(what) == spent[what] < Bounds[what] /\ spent' = [spent EXCEPT ![what] = @ + 1]

TypeOK ==
    /\ {install, reported} \subseteq BOOLEAN /\ holder \in {None, "me", "other"}
    /\ status \in Statuses /\ page \in Statuses \cup {None}
    /\ answer \in Statuses \cup {None}
    /\ step \in [Actors -> {"idle", "renew", "acquire", "emit", "persist"}]
    /\ wire \in Seq(Statuses) /\ Len(wire) <= 2
    /\ \A what \in DOMAIN Bounds : spent[what] \in 0..Bounds[what]

Begins(hook) ==
    /\ step = [tick |-> "idle", hook |-> hook]
    /\ status = [poc |-> FALSE, lease |-> FALSE]
    /\ wire = <<>> /\ answer = status /\ page = None

Init ==
    /\ install \in BOOLEAN /\ holder \in {None, "me", "other"} /\ reported = FALSE
    /\ Begins(IF install THEN "renew" ELSE "idle")
    /\ spent = [what \in DOMAIN Bounds |-> 0]

-----------------------------------------------------------------------------
\* The server grants a renewal to the holder, and a free lease to anybody.
Granted(call) == IF call = "renew" THEN holder = "me" ELSE holder # "other"

Goto(a, place) == step' = [step EXCEPT ![a] = place]

\* The submission of the tick, and its second attempt (PocReporting).
Submit ==
    /\ step["tick"] = "idle"
    /\ \/ status' = [status EXCEPT !.poc = TRUE] /\ UNCHANGED spent
       \/ status' = [status EXCEPT !.poc = FALSE] /\ Spend("failed")
    /\ Goto("tick", IF install THEN "renew" ELSE "idle")
    /\ UNCHANGED <<install, holder, reported, wire, answer, page>>

\* After the lease calls: the tick records the outcome, and the hook the
\* version, if it was granted.
Outcome(a, ok) ==
    IF a = "tick" THEN status' = [status EXCEPT !.lease = ok] /\ Goto(a, "emit")
    ELSE UNCHANGED status /\ Goto(a, IF ok THEN "persist" ELSE "idle")

renew(a) ==
    /\ step[a] = "renew"
    /\ \/ Granted("renew") /\ Outcome(a, TRUE) /\ UNCHANGED spent
       \/ ~Granted("renew") /\ Goto(a, "acquire") /\ UNCHANGED <<status, spent>>
       \/ Spend("lost") /\ Goto(a, "acquire") /\ UNCHANGED status
    /\ UNCHANGED <<install, holder, reported, wire, answer, page>>

acquire(a) ==
    /\ step[a] = "acquire"
    /\ \/ /\ Granted("acquire") /\ holder' = "me"
          /\ \/ Outcome(a, TRUE) /\ UNCHANGED spent
             \/ Spend("lost") /\ Outcome(a, FALSE)      \* the answer is lost
       \/ ~Granted("acquire") /\ Outcome(a, FALSE) /\ UNCHANGED <<holder, spent>>
       \/ Spend("lost") /\ Outcome(a, FALSE) /\ UNCHANGED holder
    /\ UNCHANGED <<install, reported, wire, answer, page>>

\* A deviation the runs must notice: the outcome is recorded and not emitted.
EmitNothing ==
    /\ step["tick"] = "emit"
    /\ Goto("tick", "idle")
    /\ UNCHANGED <<install, holder, status, reported, wire, answer, page, spent>>

\* The snapshot is emitted in the lease block only.
EmitStatus ==
    /\ step["tick"] = "emit" /\ Len(wire) < 2
    /\ wire' = Append(wire, status)
    /\ Goto("tick", "idle")
    /\ UNCHANGED <<install, holder, status, reported, answer, page, spent>>

\* ConfigStore::update; a save that fails is only logged.
PersistVersion ==
    /\ step["hook"] = "persist"
    /\ reported' \in {reported, TRUE}
    /\ Goto("hook", "idle")
    /\ UNCHANGED <<install, holder, status, wire, answer, page, spent>>

\* Registration completes; the lease runs out; another install takes it.
CompletesRegistration ==
    /\ ~install /\ install' = TRUE
    /\ UNCHANGED <<holder, status, step, reported, wire, answer, page, spent>>

LeaseEnds ==
    /\ holder # None /\ holder' = None
    /\ Spend("taken")
    /\ UNCHANGED <<install, status, step, reported, wire, answer, page>>

OtherTakes ==
    /\ holder = None /\ holder' = "other"
    /\ Spend("taken")
    /\ UNCHANGED <<install, status, step, reported, wire, answer, page>>

\* FEM ends and is started again; the hook runs while the version is unreported.
Relaunch ==
    /\ Spend("runs")
    /\ step' = [tick |-> "idle", hook |-> IF install /\ ~reported THEN "renew" ELSE "idle"]
    /\ status' = [poc |-> FALSE, lease |-> FALSE]
    /\ wire' = <<>> /\ answer' = status' /\ page' = None
    /\ UNCHANGED <<install, holder, reported>>

-----------------------------------------------------------------------------
\* useReporting: the answer and the events reach the page in any order.

Answered ==
    /\ answer # None
    /\ page' = answer /\ answer' = None
    /\ UNCHANGED <<install, holder, status, step, reported, wire, spent>>

Event ==
    /\ wire # <<>>
    /\ page' = Head(wire) /\ wire' = Tail(wire)
    /\ UNCHANGED <<install, holder, status, step, reported, answer, spent>>

Tick == Submit \/ renew("tick") \/ acquire("tick") \/ EmitStatus
Hook == renew("hook") \/ acquire("hook") \/ PersistVersion

Next ==
    \/ Tick \/ Hook \/ Answered \/ Event
    \/ CompletesRegistration \/ LeaseEnds \/ OtherTakes \/ Relaunch

Spec == Init /\ [][Next]_vars

Fairness ==
    WF_vars(Tick) /\ WF_vars(Hook) /\ WF_vars(Answered) /\ WF_vars(Event)

LiveSpec == Spec /\ Fairness

-----------------------------------------------------------------------------
(***************************************************************************)
(* main.rs 1114-1168, useReporting.ts 6-7: whatever is lost on the way, a  *)
(* lease that nobody holds is taken, and the pages never go stale          *)
(* silently: what the page shows ends up as the outcome of the ticks, even *)
(* if the first answer comes after an event.                               *)
(***************************************************************************)
Outcomes == [poc |-> TRUE, lease |-> holder = "me"]
PageIsTruthful == <>[](install => holder # None /\ page = Outcomes)

(***************************************************************************)
(* The same of a device whose registration is not complete.  Does not      *)
(* hold: its ticks submit, but no event follows (main.rs 1115-1172).       *)
(***************************************************************************)
HalfRegisteredIsTruthful == <>[](page # None /\ page.poc)
=============================================================================
