------------------------------ MODULE MystNode ------------------------------
(***************************************************************************)
(* The token of MystNodes (mysterium.rs).  start() fails without a token   *)
(* and remembers that; the checks of the health loop and of the reporting  *)
(* tick say so for a while, then read the credentials again, and let the   *)
(* supervisor start the client only once there is a token.  A tick of the  *)
(* clock is one period of the health loop.                                 *)
(***************************************************************************)
EXTENDS Integers

CONSTANTS
    Recheck,    \* TOKEN_RECHECK, in ticks
    Retries,    \* further lookups of a start after a network error
    MaxLost,    \* bound on the lookups that fail
    None

Checkers == {"loop", "reporter"}

VARIABLES
    token,      \* the device credentials carry a Mysterium token
    since,      \* TOKEN_MISSING_SINCE: how long ago, or None
    client,     \* the process of the SDK client
    at,         \* per checker, its place in health_check
    reading,    \* per checker, what its lookup answered
    verdict,    \* what the health loop made of its last check
    start,      \* the start() at work: None, or its place and the lookups left
    due,        \* the checkers that may still check in this tick; the loop will
    spent,      \* history: restarts that found no token, while there was none
    lost        \* the lookups that failed

vars == <<token, since, client, at, reading, verdict, start, due, spent, lost>>

Places == {"fetch", "spawn", "clear", "missing"}
Answers == {"present", "absent", "unreadable"}
Many == 4

TypeOK ==
    /\ token \in BOOLEAN /\ since \in (0..Recheck) \cup {None}
    /\ client \in {"down", "up"}
    /\ at \in [Checkers -> {"idle", "dead", "lookup", "store"}]
    /\ reading \in [Checkers -> Answers \cup {None}]
    /\ verdict \in {"none", "setup", "restart"}
    /\ start = None \/ start \in [place : Places, left : 0..Retries, by : {"loop", "owner"}]
    /\ due \subseteq Checkers /\ spent \in 0..Many /\ lost \in 0..MaxLost

Init ==
    /\ token \in BOOLEAN /\ since = None /\ client = "down"
    /\ at = [c \in Checkers |-> "idle"] /\ reading = [c \in Checkers |-> None]
    /\ verdict = "none" /\ due = Checkers /\ spent = 0 /\ lost = 0
    /\ start = [place |-> "fetch", left |-> Retries, by |-> "owner"]

-----------------------------------------------------------------------------
\* The credentials, external to FEM: a lookup answers, or fails.
lookup(answer) ==
    \/ answer = (IF token THEN "present" ELSE "absent") /\ UNCHANGED lost
    \/ answer = "unreadable" /\ lost < MaxLost /\ lost' = lost + 1

\* Deviations the runs must notice: a token once missed is never looked for
\* again, and a lookup that fails counts as a token.
MissingForGood == since # None
MissingIfAbsent(answer) == answer = "absent"

token_missing_recently == since # None /\ since < Recheck
still_missing_after_recheck(answer) == answer # "present"

\* start(): a lookup, and after a network error a few more; any other error
\* ends it, and so does the last.
Fetch ==
    /\ start # None /\ start.place = "fetch"
    /\ \E answer \in Answers :
          /\ lookup(answer)
          /\ \/ /\ answer = "unreadable" /\ start.left > 0
                /\ start' = [start EXCEPT !.left = @ - 1]
             \/ answer = "unreadable" /\ start' = None
             \/ /\ answer # "unreadable"
                /\ start' = [start EXCEPT
                      !.place = IF answer = "present" THEN "spawn" ELSE "missing"]
    /\ UNCHANGED <<token, since, client, at, reading, verdict, due, spent>>

TokenMissing ==
    /\ start # None /\ start.place = "missing"
    /\ since' = 0 /\ start' = None
    /\ spent' = IF start.by = "loop" /\ ~token /\ spent < Many THEN spent + 1 ELSE spent
    /\ UNCHANGED <<token, client, at, reading, verdict, due, lost>>

\* start_integration ends an old process first; it fails or it does not.
SpawnClient ==
    /\ start # None /\ start.place = "spawn"
    /\ \/ client' = "up" /\ start' = [start EXCEPT !.place = "clear"]
       \/ client' = "down" /\ start' = None
    /\ UNCHANGED <<token, since, at, reading, verdict, due, spent, lost>>

Spawned ==
    /\ start # None /\ start.place = "clear"
    /\ since' = None /\ start' = None
    /\ UNCHANGED <<token, client, at, reading, verdict, due, spent, lost>>

-----------------------------------------------------------------------------
\* health_check.  A client that runs is not the concern of the token.

process_not_running_reason == "restart"

Says(c, what) ==
    /\ at' = [at EXCEPT ![c] = "idle"]
    /\ verdict' = IF c = "loop" THEN what ELSE verdict

LoopIsBusy == verdict = "restart" \/ (start # None /\ start.by = "loop")

Status(c) ==
    /\ at[c] = "idle" /\ c \in due /\ due' = due \ {c}
    /\ ~(c = "loop" /\ LoopIsBusy)
    /\ \/ client = "down" /\ at' = [at EXCEPT ![c] = "dead"] /\ UNCHANGED verdict
       \/ client = "up" /\ Says(c, "none")
       \/ client = "up" /\ Says(c, "restart")      \* log_error_reason
    /\ UNCHANGED <<token, since, client, reading, start, spent, lost>>

TokenState(c) ==
    /\ at[c] = "dead"
    /\ \/ token_missing_recently /\ Says(c, "setup")
       \/ since = None /\ Says(c, process_not_running_reason)
       \/ /\ since # None /\ ~token_missing_recently
          /\ at' = [at EXCEPT ![c] = "lookup"] /\ UNCHANGED verdict
    /\ UNCHANGED <<token, since, client, reading, start, due, spent, lost>>

token_present(c) ==
    /\ at[c] = "lookup"
    /\ \E answer \in Answers :
          lookup(answer) /\ reading' = [reading EXCEPT ![c] = answer]
    /\ at' = [at EXCEPT ![c] = "store"]
    /\ UNCHANGED <<token, since, client, verdict, start, due, spent>>

Rechecked(c) ==
    /\ at[c] = "store"
    /\ IF still_missing_after_recheck(reading[c])
       THEN since' = 0 /\ Says(c, "setup")
       ELSE since' = None /\ Says(c, process_not_running_reason)
    /\ reading' = [reading EXCEPT ![c] = None]
    /\ UNCHANGED <<token, client, start, due, spent, lost>>

\* recovery_action: a stop and a start for a verdict that is not about the
\* setup.  The health loop waits for them.
RecoveryStarts ==
    /\ verdict = "restart" /\ start = None
    /\ verdict' = "none" /\ client' = "down"
    /\ start' = [place |-> "fetch", left |-> Retries, by |-> "loop"]
    /\ UNCHANGED <<token, since, at, reading, due, spent, lost>>

OwnerStarts ==
    /\ start = None
    /\ start' = [place |-> "fetch", left |-> Retries, by |-> "owner"]
    /\ UNCHANGED <<token, since, client, at, reading, verdict, due, spent, lost>>

ClientDies ==
    /\ client = "up" /\ client' = "down"
    /\ UNCHANGED <<token, since, at, reading, verdict, start, due, spent, lost>>

\* Support provisions a token, or withdraws it.
TokenChanges ==
    /\ token' = ~token /\ spent' = 0
    /\ UNCHANGED <<since, client, at, reading, verdict, start, due, lost>>

\* A period of the health loop; what has begun ends in it.
Tick ==
    /\ "loop" \notin due /\ verdict # "restart" /\ start = None
    /\ \A c \in Checkers : at[c] = "idle"
    /\ due' = Checkers
    /\ since' = IF since = None \/ since = Recheck THEN since ELSE since + 1
    /\ UNCHANGED <<token, client, at, reading, verdict, start, spent, lost>>

Starting == Fetch \/ TokenMissing \/ SpawnClient \/ Spawned
Checks(c) == Status(c) \/ TokenState(c) \/ token_present(c) \/ Rechecked(c)

Next ==
    \/ Starting \/ \E c \in Checkers : Checks(c)
    \/ RecoveryStarts \/ OwnerStarts \/ ClientDies \/ TokenChanges \/ Tick

Spec == Init /\ [][Next]_vars

\* The loops run, a start that has begun goes on, and time passes.
Fairness ==
    /\ WF_vars(Starting) /\ WF_vars(RecoveryStarts)
    /\ \A c \in Checkers : WF_vars(Checks(c))
    /\ SF_vars(Tick)

LiveSpec == Spec /\ Fairness

-----------------------------------------------------------------------------
(***************************************************************************)
(* 484-497, 590-601: a client without a token does not spend the restart   *)
(* budget.  The start that finds it out is one restart; a check that has   *)
(* read a token which was then withdrawn can cause one more.               *)
(***************************************************************************)
BudgetIsKept == spent <= 2

(***************************************************************************)
(* 590-596: a token that support provisions is picked up without an action *)
(* of the owner: a client that is down gets a start that found the token.  *)
(***************************************************************************)
Waits == token /\ client = "down"
Served == client = "up" \/ (start # None /\ start.place = "spawn")
TokenIsPickedUp == Waits ~> (Served \/ ~token)
=============================================================================
