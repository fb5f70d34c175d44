---------------------------- MODULE PocReporting ----------------------------
(***************************************************************************)
(* The proof-of-contribution (PoC) reporting task of the app: every tick   *)
(* builds one document for the current ten-minute slot, submits it, keeps  *)
(* it in a bounded retry queue when the submission fails, and drains the   *)
(* queue behind the next submission that succeeds.                         *)
(*                                                                         *)
(* Time is the index of the slot since some midnight UTC, and may advance  *)
(* between any two steps of the task, as every step is a network call.     *)
(***************************************************************************)
EXTENDS Integers, Sequences, Functions

CONSTANTS
    SlotsPerDay,   \* slots of a UTC day (144 in the code)
    Cap,           \* RETRY_QUEUE_CAP (144 in the code)
    BatchMax,      \* backlog entries submitted behind one success (12)
    LastTime,      \* bound: the clock stops at this slot
    MaxVer,        \* bound: documents beyond this many share a version
    NoDoc          \* "the server has nothing for this slot"

VARIABLES
    now,           \* the clock, in slots
    api,           \* "flaky" until the service heals, then "good"
    registered,    \* AppConfig.miner_key is Some
    pc,            \* where the tick is
    built,         \* documents built so far (saturates at MaxVer)
    cur,           \* the document of this tick
    res,           \* answer to this tick's last submission
    batch,         \* backlog entries drained and not yet resubmitted
    queue,         \* PocRetryQueue.entries
    server,        \* what the service holds, per day and slot number
    cache          \* PocCache: the day and slot numbers that have a line

vars == <<now, api, registered, pc, built, cur, res, batch, queue, server, cache>>

Times == 0 .. LastTime
Day(t) == t \div SlotsPerDay
Days == Day(0) .. Day(LastTime)

\* The slot number a document built at t carries.
Slot(t) == t % SlotsPerDay
Slots == 0 .. SlotsPerDay - 1

Docs == [born : Times, ver : 1 .. MaxVer]
QueuedSlot == [utc_date : Days, doc : Docs]
Answers == {"ok", "err", "401"}

-----------------------------------------------------------------------------
(* The retry queue.                                                        *)

SameSlot(e, date, doc) ==
    e.utc_date = date /\ Slot(e.doc.born) = Slot(doc.born)

\* VecDeque::retain, as a function of the prefix looked at: the entries of q
\* that are in keep, in their order.
Retain(q, keep) ==
    LET kept[i \in 0 .. Len(q)] ==
            IF i = 0 THEN <<>>
            ELSE IF q[i] \in keep THEN Append(kept[i - 1], q[i]) ELSE kept[i - 1]
    IN  kept[Len(q)]

OfDay(q, today) == Retain(q, {e \in QueuedSlot : e.utc_date = today})

\* Deviations of the queue that the runs must notice: eviction one entry
\* early, a push that keeps the older document of its slot, a drain that
\* leaves what it hands out.
PopFrontEarly(q) == IF Len(q) >= Cap THEN SubSeq(q, 2, Len(q)) ELSE q

PushKeepingOlder(q, date, doc) == Append(q, [utc_date |-> date, doc |-> doc])

LeftUndrained(q, today) == OfDay(q, today)

\* The newest Cap entries: the front is popped while the queue is too long.
PopFront(q) == IF Len(q) > Cap THEN SubSeq(q, Len(q) - Cap + 1, Len(q)) ELSE q

\* The oldest Cap entries: the back is popped while the queue is too long.
PopBack(q) == IF Len(q) > Cap THEN SubSeq(q, 1, Cap) ELSE q

Push(q, date, doc) ==
    PopFront(Append(Retain(q, {e \in QueuedSlot : ~SameSlot(e, date, doc)}),
                    [utc_date |-> date, doc |-> doc]))

BatchSize(q) == IF Len(q) < BatchMax THEN Len(q) ELSE BatchMax

\* take_batch returns the front of today's entries and leaves the others.
Taken(q, today) == SubSeq(OfDay(q, today), 1, BatchSize(OfDay(q, today)))
Left(q, today) ==
    SubSeq(OfDay(q, today), BatchSize(OfDay(q, today)) + 1, Len(OfDay(q, today)))

Requeue(q, e) == PopBack(<<e>> \o q)

-----------------------------------------------------------------------------
Init ==
    /\ now = 0 /\ api = "flaky" /\ registered = TRUE
    /\ pc = "idle" /\ built = 0 /\ res = "err" /\ batch = <<>> /\ queue = <<>>
    /\ cur = [born |-> 0, ver |-> 1]
    /\ server = [d \in Days |-> [s \in Slots |-> NoDoc]]
    /\ cache = {}

\* A put reaches the service, or not, and the answer comes back, or not. A
\* service that has healed answers "ok"; the document carries a slot number
\* and no date, so it is filed under the day on which it arrives.
Put(doc, answer) ==
    /\ answer \in IF api = "good" THEN {"ok"} ELSE Answers
    /\ \/ answer # "401"
          /\ server' = [server EXCEPT ![Day(now)][Slot(doc.born)] = doc]
       \/ answer # "ok" /\ UNCHANGED server

\* A tick with a registration snapshots the health of the integrations.
TickStart ==
    /\ pc = "idle" /\ registered
    /\ built' = IF built < MaxVer THEN built + 1 ELSE built
    /\ cur' = [born |-> now, ver |-> built']
    /\ pc' = "put"
    /\ UNCHANGED <<now, api, registered, res, batch, queue, server, cache>>

\* The submission, and the single retry five seconds later.
Submit ==
    /\ pc = "put"
    /\ \E answer \in Answers :
          /\ Put(cur, answer)
          /\ res' = answer
          /\ pc' = IF answer = "ok" THEN "settle" ELSE "reput"
    /\ UNCHANGED <<now, api, registered, built, cur, batch, queue, cache>>

Resubmit ==
    /\ pc = "reput"
    /\ \E answer \in Answers :
          /\ Put(cur, answer)
          /\ res' = answer
          /\ pc' \in IF answer = "401" THEN {"recovered", "settle"} ELSE {"settle"}
    /\ UNCHANGED <<now, api, registered, built, cur, batch, queue, cache>>

\* A token recovery that succeeded earns the tick a third submission.
SubmitRecovered ==
    /\ pc = "recovered"
    /\ \E answer \in Answers : Put(cur, answer) /\ res' = answer
    /\ pc' = "settle"
    /\ UNCHANGED <<now, api, registered, built, cur, batch, queue, cache>>

\* The slot is appended to the cache whatever the answer was; then a failure
\* is queued under the date of this instant, a success drains the backlog.
Settle ==
    /\ pc = "settle"
    /\ cache' = cache \cup {<<Day(now), Slot(cur.born)>>}
    /\ \/ /\ res # "ok"
          /\ queue' = Push(queue, Day(now), cur)
          /\ batch' = <<>> /\ pc' = "idle"
       \/ /\ res = "ok"
          /\ queue' = Left(queue, Day(now))
          /\ batch' = Taken(queue, Day(now))
          /\ pc' = IF batch' = <<>> THEN "idle" ELSE "drain"
    /\ UNCHANGED <<now, api, registered, built, cur, res, server>>

\* One backlog entry. The first failure puts its entry back and breaks out of
\* the loop, which drops the entries of the batch behind it.
DrainOne ==
    /\ pc = "drain"
    /\ \E answer \in Answers :
          /\ Put(Head(batch).doc, answer)
          /\ \/ /\ answer = "ok"
                /\ batch' = Tail(batch) /\ queue' = queue
             \/ /\ answer # "ok"
                /\ batch' = <<>> /\ queue' = Requeue(queue, Head(batch))
    /\ pc' = IF batch' = <<>> THEN "idle" ELSE "drain"
    /\ UNCHANGED <<now, api, registered, built, cur, res, cache>>

Tick == TickStart \/ Submit \/ Resubmit \/ SubmitRecovered \/ Settle \/ DrainOne

-----------------------------------------------------------------------------
(* The surroundings.                                                       *)

ClockAdvances ==
    /\ now < LastTime
    /\ now' = now + 1
    /\ UNCHANGED <<api, registered, pc, built, cur, res, batch, queue, server, cache>>

ApiHeals ==
    /\ api = "flaky" /\ api' = "good"
    /\ UNCHANGED <<now, registered, pc, built, cur, res, batch, queue, server, cache>>

\* register_device and deregister_device change the configuration under the
\* task, which reads it only at the start of a tick.
RegistrationChanges ==
    /\ registered' = ~registered
    /\ UNCHANGED <<now, api, pc, built, cur, res, batch, queue, server, cache>>

Next == Tick \/ ClockAdvances \/ ApiHeals \/ RegistrationChanges

Spec == Init /\ [][Next]_vars

\* The interval timer keeps firing and every call has a timeout.
FairSpec == Spec /\ WF_vars(Tick)

-----------------------------------------------------------------------------
(* Properties.                                                             *)

Ledger == [Days -> [Slots -> Docs \cup {NoDoc}]]

\* Types of the reporting task's state; the queue never exceeds its capacity.
TypeOK ==
    /\ now \in Times /\ api \in {"flaky", "good"} /\ registered \in BOOLEAN
    /\ pc \in {"idle", "put", "reput", "recovered", "settle", "drain"}
    /\ built \in 0 .. MaxVer /\ cur \in Docs /\ res \in Answers
    /\ queue \in Seq(QueuedSlot) /\ Len(queue) <= Cap
    /\ batch \in Seq(QueuedSlot) /\ Len(batch) <= BatchMax
    /\ server \in Ledger /\ cache \subseteq Days \X Slots

Backlog == batch \o queue
Retained == Range(Backlog)

\* "One entry per (utc_date, slot_number)", also counting the entries that
\* are out for resubmission and may still be requeued.
OneEntryPerSlot ==
    \A i, j \in DOMAIN Backlog :
        SameSlot(Backlog[i], Backlog[j].utc_date, Backlog[j].doc) => i = j

\* Why an entry may leave the backlog: the service took it, a newer document
\* of the same slot replaced it, or its day is over.
Discharged(e) ==
    \/ server'[Day(now)][Slot(e.doc.born)] = e.doc
    \/ \E f \in Retained' : SameSlot(f, e.utc_date, e.doc) /\ f.doc.ver >= e.doc.ver
    \/ e.utc_date # Day(now)

DrainFailed == pc = "drain" /\ Head(batch) \in Range(queue')

\* An outage costs no slot of the running day except those the drain loop
\* drops behind its first failure: in particular the capacity never evicts an
\* entry of today, since a day has no more slots than the queue has room for.
LosesNothing == \A e \in Retained \ Retained' : Discharged(e) \/ DrainFailed
KeptUntilDischarged == [][LosesNothing]_vars

\* The comments on the drain loop and on requeue promise that what a failed
\* drain did not submit is kept for the next tick: no exception for it.
KeptBehindFailedDrain ==
    [][\A e \in Retained \ Retained' : Discharged(e)]_vars

\* QueuedSlot.utc_date is documented as the UTC date the slot belongs to.
QueuedUnderOwnDay == \A e \in Retained : e.utc_date = Day(e.doc.born)

\* An entry from a previous day is never resubmitted: what the drain loop
\* files on the server is an entry dated the day on which it is filed.
ResubmittedOnOwnDay ==
    [][pc = "drain" /\ server' # server => Head(batch).utc_date = Day(now)]_vars

\* The newest document of a slot wins: no step replaces what the service
\* holds for a slot by an older document.
NewestWins ==
    [][\A d \in Days, s \in Slots :
         server[d][s] # NoDoc => server'[d][s].ver >= server[d][s].ver]_vars

\* The on-disk cache is documented as the cache of submitted slots: what it
\* holds when no submission is running has reached the service.
CacheHoldsSubmitted ==
    pc = "idle" => \A line \in cache : server[line[1]][line[2]] # NoDoc

\* Once the service answers and the device stays registered, the backlog is
\* worked off for good, batch by batch.
BacklogDrains == <>[](api = "good" /\ registered) => <>[](Backlog = <<>>)
=============================================================================
