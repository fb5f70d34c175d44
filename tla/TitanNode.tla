----------------------------- MODULE TitanNode -----------------------------
(***************************************************************************)
(* What FEM says of titan-edge and when it starts it again (titan.rs,      *)
(* code_integrity.rs, and the start failures that the supervisor records). *)
(* A node that Windows refuses to load must not be respawned forever, and  *)
(* must be tried again once Windows lets it.  The health loop and the      *)
(* reporting tick both check the node.  A tick of this clock is one period *)
(* of the health loop; the windows are scaled to a few ticks.              *)
(***************************************************************************)
EXTENDS Integers

CONSTANTS
    Memo,           \* LISTING_MEMO
    BlockRecency,   \* BLOCK_RECENCY
    ErrorRecency,   \* ERROR_RECENCY_WINDOW_MINUTES
    MaxLost,        \* bound on the failed queries of the event log
    None

Threshold == 3
Checkers == {"loop", "reporter"}

VARIABLES
    refused,    \* Windows refuses to load the image
    node,
    record,     \* the start failure that the supervisor recorded
    block,      \* age of the newest enforced block of the event log
    memo,       \* LISTING_CACHE: the block of a listing, and the listing's age
    line,       \* age of the newest error line of the node's log
    fails,      \* TITAN_CONSECUTIVE_FAILURES
    at,         \* per checker, its place in health_check
    seen,       \* per checker, what it has read
    verdict,    \* the last verdict of the health loop
    due,        \* the checkers that may still check in this tick; the loop will
    refusals,   \* history: refused spawns, while the same block was in date
    lost        \* failed queries of the event log

vars == <<refused, node, record, block, memo, line, fails, at, seen, verdict, due,
          refusals, lost>>

evidence == <<record, block, memo, lost>>

Age(limit) == (0..limit + 1) \cup {None}     \* limit + 1 is any older
Enough == (Memo + 2) * (MaxLost + 1) + 1

TypeOK ==
    /\ refused \in BOOLEAN /\ due \subseteq Checkers /\ node \in {"down", "up"}
    /\ record \in {"none", "control", "other"}
    /\ block \in Age(BlockRecency) /\ line \in Age(ErrorRecency)
    /\ memo = None \/ (memo.block \in Age(BlockRecency) /\ memo.age \in 0..Memo)
    /\ fails \in 0..Threshold
    /\ at \in [Checkers -> {"idle", "recorded", "listed", "read"}]
    /\ seen \in [Checkers -> Age(BlockRecency) \cup Age(ErrorRecency)]
    /\ verdict \in {"none", "healthy", "starting", "awaits", "upstream", "restart"}
    /\ refusals \in 0..Enough /\ lost \in 0..MaxLost

Init ==
    /\ refused \in BOOLEAN /\ node = "down"
    /\ record = "none" /\ block \in {None, 0} /\ memo = None
    /\ line = None /\ fails = 0
    /\ at = [c \in Checkers |-> "idle"] /\ seen = [c \in Checkers |-> None]
    /\ verdict = "restart" /\ due = Checkers
    /\ refusals = 0 /\ lost = 0

-----------------------------------------------------------------------------
\* What is conclusive: codes by which Windows says that it refused the image.
is_conclusive == record = "control"

\* Deviations the runs must notice: a block counts however old it is, and a
\* block does not count.
AnyBlock(newest) == newest # None
ReasonWithoutBlock(blocked) == IF is_conclusive THEN "awaits" ELSE "restart"

\* An enforced block that is recent: audited ones and old ones do not count.
first_block_for_at(newest) == newest # None /\ newest <= BlockRecency
error_line_is_recent == line # None /\ line <= ErrorRecency

\* A listing is reused for Memo ticks, whatever it shows.
cached_listing == memo # None
remember_listing(newest) == [block |-> newest, age |-> 0]

\* The reason, as recovery_action reads it: an administrator is awaited, or
\* the node is restarted.
select_not_running_reason(blocked) ==
    IF is_conclusive \/ blocked THEN "awaits" ELSE "restart"

should_report_unhealthy(failures) == failures >= Threshold

\* The reason of an error line: one that names the scheduler is upstream's.
daemon_log_failure_reason == {"upstream", "restart"}

\* A log without one shows the daemon at work, or not yet.
log_without_errors == {"healthy", "starting"}

Says(c, what, failing) ==
    /\ at' = [at EXCEPT ![c] = "idle"]
    /\ seen' = [seen EXCEPT ![c] = None]
    /\ verdict' = IF c = "loop" THEN what ELSE verdict
    /\ fails' = failing

\* A check begins with the process.  get_status clears the record of a node
\* that runs.  The loop checks once a tick, the reporter in some ticks.
Begin(c) ==
    /\ at[c] = "idle" /\ c \in due /\ (c = "loop" => verdict # "restart")
    /\ due' = due \ {c}
    /\ at' = [at EXCEPT ![c] = IF node = "up" THEN "read" ELSE "recorded"]
    /\ record' = IF node = "up" THEN "none" ELSE record
    /\ seen' = [seen EXCEPT ![c] = IF node = "up" /\ error_line_is_recent THEN line ELSE None]
    /\ UNCHANGED <<refused, node, block, memo, line, fails, verdict, refusals, lost>>

\* The event log is asked unless the record is conclusive or a listing is
\* young; a query that fails shows no block and is not remembered.
NotRunning(c) ==
    /\ at[c] = "recorded"
    /\ \/ is_conclusive /\ Says(c, "awaits", fails) /\ UNCHANGED <<memo, lost>>
       \/ /\ ~is_conclusive /\ cached_listing
          /\ Says(c, select_not_running_reason(first_block_for_at(memo.block)), fails)
          /\ UNCHANGED <<memo, lost>>
       \/ /\ ~is_conclusive /\ ~cached_listing /\ lost < MaxLost
          /\ lost' = lost + 1
          /\ Says(c, select_not_running_reason(FALSE), fails) /\ UNCHANGED memo
       \/ /\ ~is_conclusive /\ ~cached_listing
          /\ at' = [at EXCEPT ![c] = "listed"]
          /\ seen' = [seen EXCEPT ![c] = block]
          /\ UNCHANGED <<memo, lost, verdict, fails>>
    /\ UNCHANGED <<refused, node, record, block, line, due, refusals>>

\* remember_listing, and the verdict; both searches of one check use it.
Listed(c) ==
    /\ at[c] = "listed"
    /\ memo' = remember_listing(seen[c])
    /\ Says(c, select_not_running_reason(first_block_for_at(seen[c])), fails)
    /\ UNCHANGED <<refused, node, record, block, line, due, refusals, lost>>

\* The error line that a check has read counts one failure; a log without one
\* clears the count.
LogRead(c) ==
    /\ at[c] = "read"
    /\ LET failures == IF fails < Threshold THEN fails + 1 ELSE fails
       IN  IF seen[c] = None THEN \E what \in log_without_errors : Says(c, what, 0)
           ELSE IF ~should_report_unhealthy(failures) THEN Says(c, "starting", failures)
           ELSE \E reason \in daemon_log_failure_reason : Says(c, reason, failures)
    /\ UNCHANGED <<refused, node, evidence, line, due, refusals>>

\* The restart that the verdict asks for: the attempt drops the old record and
\* the old logs.  An image that Windows refuses leaves a block in the event
\* log, and a start failure that names it or not.
Restart ==
    /\ verdict = "restart"
    /\ verdict' = "none"
    /\ line' = None
    /\ \/ /\ ~refused
          /\ \/ node' = "up" /\ record' = "none"
             \/ node' = "down" /\ record' \in {"none", "other"}
          /\ UNCHANGED <<block, refusals>>
       \/ /\ refused
          /\ node' = "down" /\ record' \in {"none", "other", "control"}
          /\ block' = 0
          /\ refusals' = IF refusals = Enough THEN refusals ELSE refusals + 1
    /\ UNCHANGED <<refused, memo, fails, at, seen, due, lost>>

-----------------------------------------------------------------------------
\* The node

NodeErrs == node = "up" /\ line' = 0 /\ UNCHANGED node
NodeDies == node = "up" /\ node' = "down" /\ UNCHANGED line

Node ==
    /\ NodeErrs \/ NodeDies
    /\ UNCHANGED <<refused, evidence, fails, at, seen, verdict, due, refusals>>

\* Somebody allows the file, or forbids it.
PolicyChanges ==
    /\ refused' = ~refused /\ refusals' = 0
    /\ UNCHANGED <<node, evidence, line, fails, at, seen, verdict, due>>

\* A period of the health loop.  A block, a line and a listing grow older; a
\* check that has begun ends in its period.
Older(age, limit) == IF age = None \/ age > limit THEN age ELSE age + 1

Tick ==
    /\ "loop" \notin due /\ verdict # "restart" /\ \A c \in Checkers : at[c] = "idle"
    /\ due' = Checkers
    /\ block' = Older(block, BlockRecency)
    /\ refusals' = IF first_block_for_at(block)' THEN refusals ELSE 0
    /\ memo' = IF memo = None \/ memo.age >= Memo THEN None
               ELSE [block |-> Older(memo.block, BlockRecency), age |-> memo.age + 1]
    /\ line' = Older(line, ErrorRecency)
    /\ UNCHANGED <<refused, node, record, lost, fails, at, seen, verdict>>

Checks(c) == Begin(c) \/ NotRunning(c) \/ Listed(c) \/ LogRead(c)

Next ==
    \/ \E c \in Checkers : Checks(c)
    \/ Restart \/ Node \/ PolicyChanges \/ Tick

Spec == Init /\ [][Next]_vars

\* The loops run (health.rs 70-82, reporter.rs 60-100); time passes.
Fairness ==
    /\ \A c \in Checkers : WF_vars(Checks(c))
    /\ WF_vars(Restart) /\ WF_vars(Tick)

LiveSpec == Spec /\ Fairness

-----------------------------------------------------------------------------
(***************************************************************************)
(* A refusal is not a crash (code_integrity.rs 1-19): while a block is in  *)
(* date, FEM respawns the node only from a listing older than the block,   *)
(* which is reused for Memo ticks.  A query that fails lets it respawn     *)
(* once more, and the listing of that time can be older than the block.    *)
(***************************************************************************)
FewRefusals == refusals <= (Memo + 2) * (lost + 1)

(***************************************************************************)
(* 141-146: because suppression stops the spawns, the window expiring is   *)
(* what lets FEM try again.  A machine that was fixed is tried again, if   *)
(* the record does not name the refusal.                                   *)
(***************************************************************************)
Fixed == node = "down" /\ ~refused /\ ~is_conclusive
Retried == verdict = "restart" \/ node = "up"
BlockExpires == Fixed ~> (Retried \/ refused \/ is_conclusive)

(***************************************************************************)
(* The same without the exception, which does not hold: no tick drops a    *)
(* conclusive record, and no spawn follows that would replace it.          *)
(***************************************************************************)
FixedMachineHeals == (node = "down" /\ ~refused) ~> (Retried \/ refused)
=============================================================================
