---------------------------- MODULE MCSupervision ----------------------------
(***************************************************************************)
(* What may stall the app or a node, for TLC: the locks of AppState, the   *)
(* mutex of the supervisor around the creation of a process, and the nodes *)
(* whose health_check decides whether they are started again.  They share  *)
(* no state (the sites of LockOrder do not take the supervisor's mutex),   *)
(* so a behaviour is that of one of them, picked at first.                 *)
(***************************************************************************)
EXTENDS LockOrder

CONSTANTS MaxAttempts,                              \* Spawning
          Memo, BlockRecency, ErrorRecency, MaxListings,    \* TitanNode
          Recheck, Retries, MaxLookups,             \* MystNode
          None

\* The variables of all of them; those that a part does not have stay None.
VARIABLES part,
    thread, child, newest, held, call, job, fem, record,
    refused, node, block, memo, line, fails, seen, refusals,
    token, since, client, reading, start, spent, verdict, due, lost, at

P == INSTANCE Spawning
T == INSTANCE TitanNode WITH MaxLost <- MaxListings
M == INSTANCE MystNode WITH MaxLost <- MaxLookups

ASSUME SpawningAssumption == MaxAttempts \in Nat /\ None \notin P!Attempts
ASSUME TitanAssumption ==
    {Memo, BlockRecency} \subseteq Nat /\ None \notin 0..BlockRecency + 1
ASSUME MystAssumption ==
    {Recheck, Retries} \subseteq Nat /\ None \notin 0..Recheck

ofSpawning == <<thread, child, newest, held, call, job, fem>>
ofTitan == <<refused, node, block, memo, line, fails, seen, refusals>>
ofMyst == <<token, since, client, reading, start, spent>>
ofChecks == <<verdict, due, lost>>

vars == <<part, pc, ofSpawning, ofTitan, ofMyst, ofChecks, record, at>>

NoSpawning ==
    /\ thread = None /\ child = None /\ newest = None
    /\ held = None /\ call = None /\ job = None /\ fem = None
NoTitan ==
    /\ refused = None /\ node = None /\ block = None /\ memo = None /\ line = None
    /\ fails = None /\ seen = None /\ refusals = None
NoMyst ==
    /\ token = None /\ since = None /\ client = None
    /\ reading = None /\ start = None /\ spent = None
NoChecks == verdict = None /\ due = None /\ lost = None

Parts == {"locks", "spawning", "titan", "mysterium"}

EitherInit ==
    /\ Init /\ part \in Parts
    /\ IF part = "spawning" THEN P!Init ELSE NoSpawning
    /\ IF part = "titan" THEN T!Init ELSE NoTitan
    /\ IF part = "mysterium" THEN M!Init ELSE NoMyst
    /\ part \notin {"titan", "mysterium"} => NoChecks
    /\ part \notin {"titan", "spawning"} => record = None
    /\ part \notin {"titan", "mysterium"} => at = None

OfSpawning(step) ==
    /\ part = "spawning" /\ step
    /\ UNCHANGED <<part, pc, ofTitan, ofMyst, ofChecks, at>>
OfTitan(step) ==
    /\ part = "titan" /\ step
    /\ UNCHANGED <<part, pc, ofSpawning, ofMyst>>
OfMyst(step) ==
    /\ part = "mysterium" /\ step
    /\ UNCHANGED <<part, pc, ofSpawning, ofTitan, record>>

Locks ==
    /\ part = "locks" /\ Next
    /\ UNCHANGED <<part, ofSpawning, ofTitan, ofMyst, ofChecks, record, at>>

EitherNext ==
    \/ Locks \/ OfSpawning(P!Next) \/ OfTitan(T!Next) \/ OfMyst(M!Next)

\* The fairness of each, which the module of the part states.
FairSpawning ==
    \A n \in P!Attempts :
        /\ WF_vars(OfSpawning(P!Caller(n)))
        /\ WF_vars(OfSpawning(P!ChecksCurrent(n) \/ P!RecordsError(n)
                                \/ P!NobodyWaits(n)))
FairTitan ==
    /\ \A c \in T!Checkers : WF_vars(OfTitan(T!Checks(c)))
    /\ WF_vars(OfTitan(T!Restart)) /\ WF_vars(OfTitan(T!Tick))
FairMyst ==
    /\ WF_vars(OfMyst(M!Starting)) /\ WF_vars(OfMyst(M!RecoveryStarts))
    /\ \A c \in M!Checkers : WF_vars(OfMyst(M!Checks(c)))
    /\ SF_vars(OfMyst(M!Tick))

Supervision ==
    /\ EitherInit /\ [][EitherNext]_vars
    /\ FairSpawning /\ FairTitan /\ FairMyst

-----------------------------------------------------------------------------
\* Children that came after their caller gave up are ended
\* (process.rs 171-187).
Late(n) == P!Alive(n) /\ held # n
LateChild == part = "spawning" /\ fem /\ \E n \in P!Attempts : Late(n)
LateChildEnds == LateChild ~> ~LateChild

\* A node that Windows refuses is not respawned forever (code_integrity.rs
\* 1-19), and tried again once the block is out of date (141-146).
FewRefusals == part = "titan" => T!FewRefusals
BlockExpires ==
    LET In == part = "titan"
    IN  (In /\ T!Fixed) ~> (In /\ (T!Retried \/ refused \/ T!is_conclusive))

\* A client without a token does not spend the restart budget, and a token
\* that comes later is picked up (mysterium.rs 484-497, 583-587).
BudgetIsKept == part = "mysterium" => M!BudgetIsKept
TokenIsPickedUp ==
    LET In == part = "mysterium"
    IN  (In /\ M!Waits) ~> (In /\ (M!Served \/ ~token))
=============================================================================
