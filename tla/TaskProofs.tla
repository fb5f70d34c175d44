----------------------------- MODULE TaskProofs -----------------------------
(***************************************************************************)
(* HealthLoop for every restart budget, startup timeout and pause length:  *)
(* TypeOK /\ PauseInv is inductive, and PauseKept follows from it in one   *)
(* step.                                                                   *)
(*                                                                         *)
(* FryVpn for every cap of the backoff: the verdicts that have told of a   *)
(* park without its reason, and those that may still (Left), are counted   *)
(* together (CountedDown).  Left depends on where the two checkers stand,  *)
(* and on whether one of them holds a reading from before the wallet would *)
(* do: that reading may renew the park once more, and start a new round.   *)
(* What is read from then on clears (NewsIsGood).                          *)
(*                                                                         *)
(* PocReporting for every day length, batch size and capacity that holds a *)
(* day: a backlog in order (Fine) stays so when entries leave it           *)
(* (Thinned), and has no more entries of a day than the day has slots.     *)
(* Retain is a recursive function; what it keeps is proved by induction,   *)
(* from the well-foundedness of < on Nat.                                  *)
(***************************************************************************)
EXTENDS MCTasks, FiniteSetTheorems, SequenceTheorems, WellFoundedInduction,
        TLAPS

-----------------------------------------------------------------------------
(* The health loop                                                         *)

\* The budget and the counters stay in range.
THEOREM TypeCorrect == Spec => []TypeOK
<1> USE BudgetAssumption, StartingAssumption, RearmAssumption DEF TypeOK,
        NotPaused, Events
<1>1. Init => TypeOK
  BY DEF Init, HealthStatus
<1>2. TypeOK /\ [Next]_vars => TypeOK'
  <2> SUFFICES ASSUME TypeOK, [Next]_vars PROVE TypeOK'
    OBVIOUS
  <2>1. ASSUME NEW st \in HealthStatus, Check(st) PROVE TypeOK'
    BY <2>1 DEF Check
  <2>2. CASE DecideHealthy
    BY <2>2 DEF DecideHealthy
  <2>3. CASE DecideNothing
    BY <2>3 DEF DecideNothing
  <2>4. CASE DecideRestart
    BY <2>4 DEF DecideRestart, AfterTimeout, TimeoutEvent
  <2>5. CASE DecideExhausted
    BY <2>5 DEF DecideExhausted, Exhausted, AfterTimeout, TimeoutEvent
  <2>6. CASE Restart
    BY <2>6 DEF Restart
  <2>7. CASE Toggled
    BY <2>7 DEF Toggled, loopVars
  <2>8. CASE UNCHANGED vars
    BY <2>8 DEF vars, loopVars
  <2>9. QED
    BY <2>1, <2>2, <2>3, <2>4, <2>5, <2>6, <2>7, <2>8 DEF Next, Decide
<1>3. QED
  BY <1>1, <1>2, PTL DEF Spec

\* The loop's counters and the announced pause stay in step.
THEOREM PauseInvariant == Spec => []PauseInv
<1> USE BudgetAssumption, RearmAssumption DEF TypeOK, PauseInv, Due, NotPaused
<1>1. Init => PauseInv
  BY DEF Init
<1>2. TypeOK /\ PauseInv /\ [Next]_vars => PauseInv'
  <2> SUFFICES ASSUME TypeOK, PauseInv, [Next]_vars PROVE PauseInv'
    OBVIOUS
  <2>1. ASSUME NEW st \in HealthStatus, Check(st) PROVE PauseInv'
    BY <2>1 DEF Check
  <2>2. CASE DecideHealthy
    BY <2>2 DEF DecideHealthy
  <2>3. CASE DecideNothing
    BY <2>3 DEF DecideNothing
  <2>4. CASE DecideRestart
    BY <2>4 DEF DecideRestart
  <2>5. CASE DecideExhausted
    BY <2>5 DEF DecideExhausted, Exhausted
  <2>6. CASE Restart
    BY <2>6 DEF Restart
  <2>7. CASE Toggled
    BY <2>7 DEF Toggled, loopVars
  <2>8. CASE UNCHANGED vars
    BY <2>8 DEF vars, loopVars
  <2>9. QED
    BY <2>1, <2>2, <2>3, <2>4, <2>5, <2>6, <2>7, <2>8 DEF Next, Decide
<1>3. QED
  BY <1>1, <1>2, TypeCorrect, PTL DEF Spec

\* No automatic attempt comes before the moment the card announced, unless
\* the partner was healthy in between.
THEOREM PauseIsKept == Spec => PauseKept
<1>1. TypeOK /\ PauseInv /\ [Next]_vars =>
        [phase' = "backoff" /\ phase # "backoff" /\ paused # NotPaused
           => paused >= RearmTicks]_vars
  <2> SUFFICES ASSUME TypeOK, PauseInv, [Next]_vars,
                      phase' = "backoff", phase # "backoff", paused # NotPaused
               PROVE  paused >= RearmTicks
    OBVIOUS
  <2>1. DecideRestart
    BY DEF Next, Decide, Check, DecideHealthy, DecideNothing, DecideExhausted,
       Restart,
           Toggled, vars, loopVars
  <2>2. phase = "decide" /\ restart_count < MaxRestarts
    BY <2>1 DEF DecideRestart
  <2>3. ticks_since_exhausted = 0
    BY <2>2, BudgetAssumption, RearmAssumption DEF PauseInv, TypeOK
  <2>4. QED
    BY <2>2, <2>3 DEF PauseInv, Due
<1>2. QED
  BY <1>1, TypeCorrect, PauseInvariant, PTL DEF Spec, PauseKept

-----------------------------------------------------------------------------
(* fryvpn's check                                                           *)

\* What a check that has read bad news, or none, will do with it.
Clearing == {"none", "affordable", "registered"}
Bad(r) == r # None /\ r.is \notin Clearing

Kinds == {"idle", "waits", "wait_old", "parks", "park_old", "ahead", "past", "rule"}

\* Where a checker stands: in a read that ends a wait or a park, or in one that
\* has bad news from before; past the gates, with a backoff that its probe may
\* still advance or not; in the read for the rule; or elsewhere.
Kind(c) ==
    CASE at[c] = "awaitread" -> IF Bad(got[c]) THEN "wait_old" ELSE "waits"
      [] at[c] = "parkread" -> IF Bad(got[c]) THEN "park_old" ELSE "parks"
      [] at[c] \in {"alive", "probe"} -> "ahead"
      [] at[c] \in {"port", "notice", "box"} -> "past"
      [] at[c] = "ruleread" -> "rule"
      [] OTHER -> "idle"

Old(k) == k \in {"wait_old", "park_old"}
Other(c) == IF c = "loop" THEN "reporter" ELSE "loop"

Once(b) == IF b THEN 1 ELSE 0
Round(b) == IF b THEN MaxSkip ELSE 0

\* Verdicts that may still tell of a park without its reason: w, a wait for the
\* registry; u, a node that is up; p, a park; x, checks to skip; k and l, where
\* the checkers stand.  A read that is due adds a round for the other checker.
Owed(k) == Once(k \in {"ahead", "past", "rule"})

LeftFresh(w, u, p, x, k, l) ==
    IF k = "parks" /\ l = "parks" THEN 0
    ELSE x + Owed(k) + Owed(l) + Round(k # "parks" /\ l # "parks")
           + Round(w /\ k \notin {"parks", "waits"})
           + Round(w /\ l \notin {"parks", "waits"})
           + Round(u /\ k = "ahead") + Round(u /\ l = "ahead")

\* k has old news, l has not
LeftOld(w, u, p, x, k, l) ==
    1 + (IF p /\ Owed(l) = 1 THEN 2 ELSE 1) +
    (CASE u /\ p /\ l = "ahead" -> 4 * MaxSkip
       [] u /\ p /\ l # "ahead" -> x + 2 * MaxSkip + Round(l # "parks")
       [] u /\ ~p -> x + MaxSkip + Round(l # "past")
       [] ~u /\ w /\ p -> x + 2 * MaxSkip + Round(l \notin {"parks", "waits"})
       [] ~u /\ w /\ ~p -> x + MaxSkip + Round(l # "waits") + Round(k = "park_old")
       [] OTHER -> x + MaxSkip + Round(p /\ l # "parks"))

Left(w, u, p, x, k, l) ==
    CASE ~Old(k) /\ ~Old(l) -> LeftFresh(w, u, p, x, k, l)
      [] Old(k) /\ ~Old(l) -> LeftOld(w, u, p, x, k, l)
      [] ~Old(k) /\ Old(l) -> LeftOld(w, u, p, x, l, k)
      [] OTHER -> x + 2 * MaxSkip + Round(w \/ u) + 3

\* What is left is a number.
LEMMA LeftType ==
  ASSUME NEW w \in BOOLEAN, NEW u \in BOOLEAN, NEW p \in BOOLEAN,
         NEW x \in 0..MaxSkip, NEW k \in Kinds, NEW l \in Kinds
  PROVE  Left(w, u, p, x, k, l) \in Nat
<1> USE SkipAssumption DEF Kinds, Old, Once, Round, Owed
<1>1. LeftFresh(w, u, p, x, k, l) \in Nat
  BY DEF LeftFresh
<1>2. ASSUME NEW a \in Kinds, NEW b \in Kinds PROVE LeftOld(w, u, p, x, a, b) \in Nat
  BY DEF LeftOld
<1> HIDE DEF Kinds
<1> QED
  BY <1>1, <1>2 DEF Left

\* It does not matter which of the two is named first.
LEMMA LeftSame ==
  ASSUME NEW w \in BOOLEAN, NEW u \in BOOLEAN, NEW p \in BOOLEAN,
         NEW x \in 0..MaxSkip, NEW k \in Kinds, NEW l \in Kinds
  PROVE  Left(w, u, p, x, k, l) = Left(w, u, p, x, l, k)
BY SkipAssumption DEF Left, LeftFresh, LeftOld, Kinds, Old, Once, Round, Owed

\* What a report leaves.
LEMMA LeftIdle ==
  ASSUME NEW w \in BOOLEAN, NEW u \in BOOLEAN, NEW p \in BOOLEAN,
         NEW x \in 0..MaxSkip, NEW l \in Kinds, w => ~u
  PROVE  Left(w, u, p, x, "idle", l) <= 4 * MaxSkip + 2
BY SkipAssumption DEF Left, LeftFresh, LeftOld, Kinds, Old, Once, Round, Owed

\* A check that is skipped
LEMMA LeftSkips ==
  ASSUME NEW w \in BOOLEAN, NEW u \in BOOLEAN, NEW x \in 0..MaxSkip,
         NEW k \in {"idle", "ahead"}, NEW l \in Kinds, w => ~u, x > 0
  PROVE  Left(w, u, TRUE, x - 1, "idle", l) + 1 <= Left(w, u, TRUE, x, k, l)
BY SkipAssumption DEF Left, LeftFresh, LeftOld, Kinds, Old, Once, Round, Owed

\* A read that is due for the registry: the round it starts was counted.
LEMMA LeftDueWait ==
  ASSUME NEW u \in BOOLEAN, NEW p \in BOOLEAN, NEW x \in 0..MaxSkip,
         NEW l \in Kinds, ~u
  PROVE  Left(TRUE, u, p, x, "waits", l) <= Left(TRUE, u, p, 0, "idle", l)
BY SkipAssumption DEF Left, LeftFresh, LeftOld, Kinds, Old, Once, Round, Owed

\* So was that of a read that is due for a park.
LEMMA LeftDuePark ==
  ASSUME NEW w \in BOOLEAN, NEW u \in BOOLEAN, NEW x \in 0..MaxSkip,
         NEW l \in Kinds, w => ~u, w => l \notin {"parks", "park_old"}
  PROVE  Left(w, u, TRUE, x, "parks", l) <= Left(w, u, TRUE, 0, "idle", l)
BY SkipAssumption DEF Left, LeftFresh, LeftOld, Kinds, Old, Once, Round, Owed

\* News that ends the wait sends the check on to the park.
LEMMA LeftWaits ==
  ASSUME NEW w \in BOOLEAN, NEW u \in BOOLEAN, NEW p \in BOOLEAN,
         NEW x \in 0..MaxSkip, NEW l \in Kinds, w => ~u
  PROVE  Left(FALSE, u, p, x, "idle", l) <= Left(w, u, p, x, "waits", l)
BY SkipAssumption DEF Left, LeftFresh, LeftOld, Kinds, Old, Once, Round, Owed

\* News that ends the park, while the other task has still old news.
LEMMA LeftParks ==
  ASSUME NEW w \in BOOLEAN, NEW u \in BOOLEAN, NEW p \in BOOLEAN,
         NEW x \in 0..MaxSkip, NEW l \in Kinds, w => ~u, Old(l),
         w /\ p => l # "park_old"
  PROVE  Left(w, u, FALSE, x, "ahead", l) <= Left(w, u, p, x, "parks", l)
BY SkipAssumption DEF Left, LeftFresh, LeftOld, Kinds, Old, Once, Round, Owed

\* Old news after a wait may park anew,
LEMMA LeftOldWait ==
  ASSUME NEW w \in BOOLEAN, NEW u \in BOOLEAN, NEW p \in BOOLEAN,
         NEW x \in 0..MaxSkip, NEW l \in Kinds, w => ~u
  PROVE  Left(FALSE, u, TRUE, x, "idle", l) + 1 <= Left(w, u, p, x, "wait_old", l)
BY SkipAssumption DEF Left, LeftFresh, LeftOld, Kinds, Old, Once, Round, Owed

\* or leave the wait as it is.
LEMMA LeftOldWaits ==
  ASSUME NEW w \in BOOLEAN, NEW u \in BOOLEAN,
         NEW x \in 0..MaxSkip, NEW l \in Kinds, w => ~u
  PROVE  Left(w, u, TRUE, x, "idle", l) + 1 <= Left(w, u, TRUE, x, "wait_old", l)
BY SkipAssumption DEF Left, LeftFresh, LeftOld, Kinds, Old, Once, Round, Owed

\* So may old news of a park.
LEMMA LeftOldPark ==
  ASSUME NEW w \in BOOLEAN, NEW u \in BOOLEAN, NEW p \in BOOLEAN,
         NEW x \in 0..MaxSkip, NEW l \in Kinds, w => ~u
  PROVE  Left(w, u, TRUE, x, "idle", l) + 1 <= Left(w, u, p, x, "park_old", l)
BY SkipAssumption DEF Left, LeftFresh, LeftOld, Kinds, Old, Once, Round, Owed

\* A check that passes the gates while the other task has old news.
LEMMA LeftPasses ==
  ASSUME NEW w \in BOOLEAN, NEW u \in BOOLEAN,
         NEW x \in 0..MaxSkip, NEW l \in Kinds, w => ~u, Old(l)
  PROVE  Left(w, u, FALSE, x, "ahead", l) <= Left(w, u, FALSE, x, "idle", l)
BY SkipAssumption DEF Left, LeftFresh, LeftOld, Kinds, Old, Once, Round, Owed

\* One that reports from behind the gates, or from the read for the rule.
LEMMA LeftReports ==
  ASSUME NEW w \in BOOLEAN, NEW u \in BOOLEAN, NEW x \in 0..MaxSkip,
         NEW k \in {"ahead", "past", "rule"}, NEW l \in Kinds, w => ~u
  PROVE  Left(w, u, TRUE, x, "idle", l) + 1 <= Left(w, u, TRUE, x, k, l)
BY SkipAssumption DEF Left, LeftFresh, LeftOld, Kinds, Old, Once, Round, Owed

\* One that clears frynode away.
LEMMA LeftClears ==
  ASSUME NEW w \in BOOLEAN, NEW u \in BOOLEAN, NEW v \in BOOLEAN,
         NEW x \in 0..MaxSkip, NEW l \in Kinds, w => ~u, v => u
  PROVE  Left(w, v, TRUE, x, "idle", l) <= Left(w, u, TRUE, x, "past", l)
BY SkipAssumption DEF Left, LeftFresh, LeftOld, Kinds, Old, Once, Round, Owed

\* A probe that goes on to read starts a round that was counted.
LEMMA LeftProbes ==
  ASSUME NEW p \in BOOLEAN, NEW x \in 0..MaxSkip, NEW l \in Kinds
  PROVE  Left(FALSE, TRUE, p, x, "past", l) <= Left(FALSE, TRUE, p, 0, "ahead", l)
BY SkipAssumption DEF Left, LeftFresh, LeftOld, Kinds, Old, Once, Round, Owed

\* One that looks at the port will start none.
LEMMA LeftPast ==
  ASSUME NEW w \in BOOLEAN, NEW u \in BOOLEAN, NEW p \in BOOLEAN,
         NEW x \in 0..MaxSkip, NEW l \in Kinds, w => ~u
  PROVE  Left(w, u, p, x, "past", l) <= Left(w, u, p, x, "ahead", l)
BY SkipAssumption DEF Left, LeftFresh, LeftOld, Kinds, Old, Once, Round, Owed

\* A start sets the backoff back.
LEMMA LeftAnew ==
  ASSUME NEW w \in BOOLEAN, NEW u \in BOOLEAN, NEW p \in BOOLEAN,
         NEW x \in 0..MaxSkip, NEW k \in Kinds, NEW l \in Kinds, w => ~u
  PROVE  Left(w, u, p, 0, k, l) <= Left(w, u, p, x, k, l)
BY SkipAssumption DEF Left, LeftFresh, LeftOld, Kinds, Old, Once, Round, Owed

\* A node that exits takes its probes along.
LEMMA LeftDown ==
  ASSUME NEW w \in BOOLEAN, NEW u \in BOOLEAN, NEW p \in BOOLEAN,
         NEW x \in 0..MaxSkip, NEW k \in Kinds, NEW l \in Kinds, w => ~u
  PROVE  Left(w, FALSE, p, x, k, l) <= Left(w, u, p, x, k, l)
BY SkipAssumption DEF Left, LeftFresh, LeftOld, Kinds, Old, Once, Round, Owed

Parked == slots.park # None
Awaited == slots.await
Skips == watch.skip

\* The same, of the checks of c and of the other task as they stand now.
LeftNow(c) ==
    Left(Awaited, up, Parked, Skips, Kind(c), Kind(Other(c)))

\* A park without its reason is on record, or will be when old news is noted.
Owing(c) == Parked \/ Old(Kind(c)) \/ Old(Kind(Other(c)))

Backoff(w) ==
    /\ DOMAIN w = {"address", "notice", "unknown", "skip", "reads"}
    /\ w.skip \in 0..MaxSkip /\ w.reads \in 0..4

Parks == [park : {None, "shortfall", "unreadable"}, await : BOOLEAN, rule : BOOLEAN]

ParkTyped ==
    /\ unseen \in Nat /\ up \in BOOLEAN
    /\ DOMAIN world = {"rule", "wallet", "registered", "balance", "registry", "port"}
    /\ Backoff(watch) /\ slots \in Parks
    /\ at \in [F!Actors -> F!Places] /\ DOMAIN got = F!Actors

\* Nothing is read but where a reading is waited for; and parks outlive their
\* reason only while the wallet would do, so that what is read then clears.
NewsIsGood ==
    /\ \A c \in F!Checkers :
         at[c] \notin {"read", "gate"} \cup F!ReadPlaces => got[c] = None
    /\ unseen > 0 => F!Ready(world)

\* Two checks do not both look at a park beside which the registry is awaited.
OneAtPark ==
    slots.await /\ slots.park # None
        => \E c \in F!Checkers : at[c] \notin {"park", "parkread"}

WaitIsDown == Awaited => ~up

ParkShape == ParkTyped /\ NewsIsGood /\ OneAtPark /\ WaitIsDown

CountedDown ==
    /\ unseen <= 4 * MaxSkip + 3
    /\ \A c \in F!Checkers :
         unseen > 0 /\ Owing(c) => unseen + LeftNow(c) <= 4 * MaxSkip + 3

ParkInv == ParkShape /\ CountedDown

\* The checkers are two.
LEMMA Two ==
  ASSUME NEW c \in F!Checkers
  PROVE  /\ Other(c) \in F!Checkers /\ Other(c) # c /\ Other(Other(c)) = c
         /\ \A d \in F!Checkers : d = c \/ d = Other(c)
         /\ F!Checkers \subseteq F!Actors
BY DEF Other, F!Checkers, F!Actors, F!Starters

\* Where they stand is one of the kinds.
LEMMA KindType == \A c \in F!Checkers : Kind(c) \in Kinds
BY DEF Kind, Kinds

\* What is left is a number, whichever of the two counts.
LEMMA LeftNowType ==
  ParkTyped => \A c \in F!Checkers :
                 LeftNow(c) \in Nat /\ LeftNow(Other(c)) = LeftNow(c)
<1> SUFFICES ASSUME ParkTyped, NEW c \in F!Checkers
             PROVE  LeftNow(c) \in Nat /\ LeftNow(Other(c)) = LeftNow(c)
  OBVIOUS
<1>1. Kind(c) \in Kinds /\ Kind(Other(c)) \in Kinds
  BY KindType, Two
<1>2. /\ Awaited \in BOOLEAN /\ up \in BOOLEAN /\ Parked \in BOOLEAN
      /\ Skips \in 0..MaxSkip
  BY DEF ParkTyped, Parks, Backoff, Parked, Awaited, Skips
<1>3. LeftNow(c) \in Nat
  BY <1>1, <1>2, LeftType DEF LeftNow
<1>4. LeftNow(Other(c)) =
        Left(Awaited, up, Parked, Skips, Kind(Other(c)), Kind(c))
  BY Two DEF LeftNow
<1> QED
  BY <1>1, <1>2, <1>3, <1>4, LeftSame DEF LeftNow

\* What a report leaves is a round less.
LEMMA LeftNowIdle ==
  ParkTyped /\ WaitIsDown =>
    \A c \in F!Checkers : Kind(c) = "idle" => LeftNow(c) <= 4 * MaxSkip + 2
<1> SUFFICES ASSUME ParkTyped, WaitIsDown, NEW c \in F!Checkers, Kind(c) = "idle"
             PROVE  LeftNow(c) <= 4 * MaxSkip + 2
  OBVIOUS
<1>1. Kind(Other(c)) \in Kinds
  BY KindType, Two
<1>2. /\ Awaited \in BOOLEAN /\ up \in BOOLEAN /\ Parked \in BOOLEAN
      /\ Skips \in 0..MaxSkip /\ (Awaited => ~up)
  BY DEF ParkTyped, Parks, Backoff, Parked, Awaited, Skips, WaitIsDown
<1>3. LeftNow(c) = Left(Awaited, up, Parked, Skips, "idle", Kind(Other(c)))
  BY DEF LeftNow
<1>4. Left(Awaited, up, Parked, Skips, "idle", Kind(Other(c))) <= 4 * MaxSkip + 2
  BY <1>1, <1>2, LeftIdle
<1> QED
  BY <1>3, <1>4

\* Both after a step
LEMMA LeftNowNext ==
  /\ (ParkTyped => \A c \in F!Checkers :
        LeftNow(c) \in Nat /\ LeftNow(Other(c)) = LeftNow(c))'
  /\ (ParkTyped /\ WaitIsDown => \A c \in F!Checkers :
        Kind(c) = "idle" => LeftNow(c) <= 4 * MaxSkip + 2)'
BY LeftNowType, LeftNowIdle, PTL

\* A step of one checker, or of none, counts what is left down.
LEMMA Carried ==
  ASSUME ParkInv, ParkTyped', NEW c \in F!Checkers,
         WaitIsDown', 
         \/ unseen' = 0
         \/ /\ unseen' = unseen
            /\ unseen > 0 /\ Owing(c)' => Owing(c) /\ LeftNow(c)' <= LeftNow(c)
         \/ /\ unseen' = unseen + 1 /\ Kind(c)' = "idle"
            /\ unseen > 0 => Owing(c) /\ LeftNow(c)' + 1 <= LeftNow(c)
  PROVE  CountedDown'
<1>1. LeftNow(c) \in Nat
  BY LeftNowType DEF ParkInv, ParkShape
<1>2. LeftNow(c)' \in Nat /\ LeftNow(Other(c))' = LeftNow(c)'
  BY LeftNowNext
<1>3. unseen \in Nat /\ unseen' \in Nat /\ MaxSkip \in Nat
  BY SkipAssumption DEF ParkInv, ParkShape, ParkTyped
<1>4. (Owing(Other(c)) <=> Owing(c))'
  BY Two DEF Owing
<1>5. /\ unseen <= 4 * MaxSkip + 3
      /\ unseen > 0 /\ Owing(c) => unseen + LeftNow(c) <= 4 * MaxSkip + 3
  BY DEF ParkInv, CountedDown
<1>6. Kind(c)' = "idle" => LeftNow(c)' <= 4 * MaxSkip + 2
  BY LeftNowNext
<1>7. /\ unseen' <= 4 * MaxSkip + 3
      /\ unseen' > 0 /\ Owing(c)' => unseen' + LeftNow(c)' <= 4 * MaxSkip + 3
  BY <1>1, <1>2, <1>3, <1>5, <1>6
<1> QED
  BY <1>2, <1>4, <1>7, Two DEF CountedDown

\* A step of a checker moves no other one.
LEMMA Moved ==
  ASSUME ParkTyped, NEW c \in F!Checkers, NEW place \in F!Places,
         F!Goto(c, place), UNCHANGED got \/ \E r : F!Read(c, r)
  PROVE  /\ at' \in [F!Actors -> F!Places] /\ DOMAIN got' = F!Actors
         /\ at'[c] = place /\ at'[Other(c)] = at[Other(c)]
         /\ got'[Other(c)] = got[Other(c)]
         /\ Kind(Other(c))' = Kind(Other(c))
<1>1. /\ at' \in [F!Actors -> F!Places] /\ DOMAIN got' = F!Actors
      /\ at'[c] = place /\ at'[Other(c)] = at[Other(c)]
      /\ got'[Other(c)] = got[Other(c)]
  BY Two DEF ParkTyped, F!Goto, F!Read
<1> QED
  BY <1>1 DEF Kind

\* The shape holds after a step of a checker.
LEMMA ShapeKept ==
  ASSUME ParkShape, NEW c \in F!Checkers, NEW place \in F!Places,
         F!Goto(c, place), up' = up \/ up' = FALSE,
         world' = world \/ world' = [world EXCEPT !.port = "free"],
         Backoff(watch'), slots' \in Parks, slots'.await => slots.await,
         unseen' \in Nat, unseen' > 0 => F!Ready(world),
         \/ F!Read(c, None)
         \/ UNCHANGED got /\ got[c] = None
         \/ (UNCHANGED got \/ \E r : F!Read(c, r)) /\ place \in F!ReadPlaces,
         place \in {"park", "parkread"}
            => ~slots'.await \/ (slots' = slots /\ at[c] \in {"park", "parkread"})
  PROVE  ParkShape'
<1>1. /\ at' \in [F!Actors -> F!Places] /\ DOMAIN got' = F!Actors
      /\ at'[c] = place /\ at'[Other(c)] = at[Other(c)]
      /\ got'[Other(c)] = got[Other(c)]
  BY Moved DEF ParkShape
<1>2. ParkTyped'
  BY <1>1 DEF ParkShape, ParkTyped
<1>3. NewsIsGood'
  <2>1. got'[c] = None \/ place \in F!ReadPlaces
    BY Two DEF ParkShape, ParkTyped, F!Read
  <2>2. F!Ready(world)' <=> F!Ready(world)
    BY DEF F!Ready, F!Admitted, F!Funding, F!read_registration,
           F!read_wallet_balance, F!affordable, F!heartbeat_shortfall,
           F!registration_from_box_read, ParkShape, ParkTyped
  <2> QED
    BY <1>1, <2>1, <2>2, Two DEF ParkShape, NewsIsGood
<1>4. OneAtPark'
  <2>1. CASE place \notin {"park", "parkread"}
    BY <1>1, <2>1 DEF OneAtPark
  <2>2. CASE place \in {"park", "parkread"} /\ slots'.await
    <3>1. slots' = slots /\ at[c] \in {"park", "parkread"}
      BY <2>2
    <3> QED
      BY <1>1, <3>1, Two DEF ParkShape, OneAtPark
  <2> QED
    BY <2>1, <2>2 DEF OneAtPark
<1>5. WaitIsDown'
  BY DEF ParkShape, ParkTyped, WaitIsDown, Awaited
<1> QED
  BY <1>2, <1>3, <1>4, <1>5 DEF ParkShape

\* A checker that goes on counts what is left down.
LEMMA WentOn ==
  ASSUME ParkInv, ParkShape', NEW c \in F!Checkers, NEW place \in F!Places,
         F!Goto(c, place), UNCHANGED got \/ \E r : F!Read(c, r),
         unseen' = unseen,
         unseen > 0 /\ (Parked' \/ Old(Kind(c)') \/ Old(Kind(Other(c)))) =>
           /\ Parked \/ Old(Kind(c)) \/ Old(Kind(Other(c)))
           /\ Left(Awaited', up', Parked', Skips', Kind(c)', Kind(Other(c)))
                <= Left(Awaited, up, Parked, Skips, Kind(c), Kind(Other(c)))
  PROVE  ParkInv'
<1>1. Kind(Other(c))' = Kind(Other(c))
  BY Moved DEF ParkInv, ParkShape
<1>2. unseen > 0 /\ Owing(c)' => Owing(c) /\ LeftNow(c)' <= LeftNow(c)
  BY <1>1 DEF Owing, LeftNow
<1>3. CountedDown'
  BY <1>2, Carried DEF ParkShape
<1> QED
  BY <1>3 DEF ParkInv

\* So does one that reports.
LEMMA Reported ==
  ASSUME ParkInv, NEW c \in F!Checkers, NEW told, NEW left \in Parks,
         F!Report(c, told, left), Backoff(watch'), left.await => slots.await,
         \/ left.park = None
         \/ unseen = 0
         \/ /\ Parked \/ Old(Kind(c))
            /\ Left(left.await, up, TRUE, Skips', "idle", Kind(Other(c))) + 1
                 <= Left(Awaited, up, Parked, Skips, Kind(c), Kind(Other(c)))
  PROVE  ParkInv'
<1> DEFINE place == IF c = "loop" /\ F!Restartable(told) THEN "told" ELSE "rest"
<1>1. place \in {"told", "rest"} /\ place \in F!Places
  BY DEF F!Places
<1> HIDE DEF place
<1>2. /\ F!Goto(c, place) /\ F!Read(c, None) /\ slots' = left
      /\ F!Outlived(told, left) /\ UNCHANGED <<world, up>>
  BY DEF F!Report, F!Told, F!Unmoved, place
<1>3. /\ unseen' \in {0, unseen, unseen + 1} /\ unseen \in Nat
      /\ unseen' > 0 => F!Ready(world)
      /\ left.park = None => unseen' = 0
  BY <1>2 DEF F!Outlived, ParkInv, ParkShape, ParkTyped, NewsIsGood
<1>4. ParkShape'
  BY <1>1, <1>2, <1>3, ShapeKept DEF ParkInv
<1>5. Kind(c)' = "idle" /\ Kind(Other(c))' = Kind(Other(c))
  BY <1>1, <1>2, Moved DEF ParkInv, ParkShape, Kind
<1>6. CASE unseen' = 0
  BY <1>4, <1>6, Carried DEF ParkShape, ParkInv
<1>7. CASE unseen' # 0
  <2>1. left.park # None
    BY <1>3, <1>7
  <2>2. Awaited' = left.await /\ Parked' = TRUE /\ up' = up
    BY <1>2, <2>1 DEF Awaited, Parked
  <2>3. LeftNow(c)' = Left(left.await, up, TRUE, Skips', "idle", Kind(Other(c)))
    BY <1>5, <2>2 DEF LeftNow
  <2>4. unseen > 0 => Owing(c) /\ LeftNow(c)' + 1 <= LeftNow(c)
    <3>1. LeftNow(c) = Left(Awaited, up, Parked, Skips, Kind(c), Kind(Other(c)))
      BY DEF LeftNow
    <3>2. unseen > 0 => unseen # 0
      BY <1>3
    <3> QED
      BY <2>1, <2>3, <3>1, <3>2, Zenon DEF Owing
  <2>5. /\ ParkTyped' /\ WaitIsDown'
        /\ LeftNow(c)' \in Nat /\ LeftNow(c) \in Nat
    <3>1. ParkTyped /\ ParkTyped' /\ WaitIsDown'
      BY <1>4 DEF ParkInv, ParkShape
    <3>2. LeftNow(c) \in Nat
      BY <3>1, LeftNowType
    <3>3. LeftNow(c)' \in Nat
      BY <3>1, LeftNowNext
    <3> QED
      BY <3>1, <3>2, <3>3
  <2>6. unseen' > 0 /\ unseen' = unseen => LeftNow(c)' <= LeftNow(c) /\ Owing(c)
    BY <2>4, <2>5
  <2>7. CASE unseen' = unseen
    <3>1. unseen > 0 /\ Owing(c)' => Owing(c) /\ LeftNow(c)' <= LeftNow(c)
      BY <1>3, <1>7, <2>6, <2>7
    <3>2. CountedDown'
      BY <2>5, <2>7, <3>1, Carried
    <3> QED
      BY <1>4, <3>2 DEF ParkInv
  <2>8. CASE unseen' = unseen + 1
    <3>1. CountedDown'
      BY <1>5, <2>4, <2>5, <2>8, Carried
    <3> QED
      BY <1>4, <3>1 DEF ParkInv
  <2> QED
    BY <1>3, <1>7, <2>7, <2>8
<1> QED
  BY <1>6, <1>7

\* Asking for a read leaves at most MaxSkip checks to skip, one less if some
\* were to be skipped.
LEMMA CountedSkips ==
  ASSUME Backoff(watch)
  PROVE  LET w == F!Counted(watch)
         IN  /\ Backoff(w)
             /\ watch.skip > 0 => w.skip = watch.skip - 1
<1> USE SkipAssumption DEF Backoff, F!Counted
<1>1. 2^watch.reads \in Nat /\ 2^watch.reads >= 1
  <2>1. CASE watch.reads = 0
    <3>1. 2^0 = 1
      OBVIOUS
    <3> QED
      BY <2>1, <3>1
  <2>2. CASE watch.reads = 1
    <3>1. 2^1 = 2
      OBVIOUS
    <3> QED
      BY <2>2, <3>1
  <2>3. CASE watch.reads = 2
    <3>1. 2^2 = 4
      OBVIOUS
    <3> QED
      BY <2>3, <3>1
  <2>4. CASE watch.reads = 3
    <3>1. 2^3 = 8
      OBVIOUS
    <3> QED
      BY <2>4, <3>1
  <2>5. CASE watch.reads = 4
    <3>1. 2^4 = 16
      OBVIOUS
    <3> QED
      BY <2>5, <3>1
  <2> QED
    BY <2>1, <2>2, <2>3, <2>4, <2>5
<1>2. CASE watch.skip > 0
  BY <1>2
<1>3. CASE watch.skip = 0
  <2> DEFINE next == 2^watch.reads - 1
             skip == IF next > MaxSkip THEN MaxSkip ELSE next
             reads == IF watch.reads = 4 THEN 4 ELSE watch.reads + 1
  <2>1. skip \in 0..MaxSkip
    BY <1>1
  <2>2. reads \in 0..4
    OBVIOUS
  <2>3. F!Counted(watch) = [watch EXCEPT !.skip = skip, !.reads = reads]
    BY <1>3
  <2> HIDE DEF skip, reads
  <2> QED
    BY <1>3, <2>1, <2>2, <2>3
<1> QED
  BY <1>2, <1>3 DEF Backoff

\* Noting a reading keeps the backoff; a start begins it anew.
LEMMA NotedSkips ==
  ASSUME Backoff(watch), NEW r
  PROVE  /\ Backoff(F!Noted(watch, r))
         /\ F!Noted(watch, r).skip = watch.skip
<1>1. CASE r.is = "none"
  BY <1>1 DEF Backoff, F!Noted
<1>2. CASE r.is # "none"
  <2> DEFINE n == CASE r.is = "registered" /\ r.measured -> r.broke
                    [] r.is = "affordable" -> FALSE
                    [] OTHER -> watch.notice
             u == r.is \in {"unknown", "unmeasurable"}
  <2>1. F!Noted(watch, r) =
          [watch EXCEPT !.address = TRUE, !.unknown = u, !.notice = n]
    BY <1>2 DEF F!Noted
  <2> HIDE DEF n, u
  <2> QED
    BY <2>1 DEF Backoff
<1> QED
  BY <1>1, <1>2

\* What the invariant says of the numbers and the kinds.
LEMMA Ranges ==
  ASSUME ParkInv, NEW c \in F!Checkers
  PROVE  /\ Awaited \in BOOLEAN /\ up \in BOOLEAN /\ Parked \in BOOLEAN
         /\ Skips \in 0..MaxSkip /\ (Awaited => ~up)
         /\ Kind(c) \in Kinds /\ Kind(Other(c)) \in Kinds
         /\ Backoff(watch) /\ slots \in Parks /\ unseen \in Nat
         /\ unseen > 0 => F!Ready(world)
BY KindType, Two DEF ParkInv, ParkShape, ParkTyped, Parks, Backoff, Parked,
   Awaited, Skips, WaitIsDown, NewsIsGood

\* The kind of a checker that comes to a place with nothing read.
Reached(place) ==
    CASE place = "awaitread" -> "waits"
      [] place = "parkread" -> "parks"
      [] place \in {"alive", "probe"} -> "ahead"
      [] place \in {"port", "notice", "box"} -> "past"
      [] place = "ruleread" -> "rule"
      [] OTHER -> "idle"

\* A check that goes on, with the backoff counted or not.
LEMMA GoesOn ==
  ASSUME ParkInv, NEW c \in F!Checkers, NEW place \in F!Places,
         F!GoOn(c, place), got[c] = None, Backoff(watch'),
         place = "park" => ~slots.await, place = "parkread" => at[c] = "park",
         unseen > 0 /\ (Parked \/ Old(Kind(Other(c)))) =>
           Left(Awaited, up, Parked, Skips', Reached(place), Kind(Other(c)))
             <= Left(Awaited, up, Parked, Skips, Kind(c), Kind(Other(c)))
  PROVE  ParkInv'
<1>1. /\ F!Goto(c, place) /\ UNCHANGED <<slots, up, got, unseen, world>>
      /\ slots \in Parks /\ unseen \in Nat /\ (unseen > 0 => F!Ready(world))
  BY Ranges DEF F!GoOn, F!Unmoved
<1>2. ParkShape'
  BY <1>1, ShapeKept DEF ParkInv
<1>3. Kind(c)' = Reached(place)
  <2>1. at'[c] = place /\ got'[c] = None
    BY <1>1, Moved DEF ParkInv, ParkShape
  <2> QED
    BY <2>1 DEF Kind, Reached, Bad
<1>4. Awaited' = Awaited /\ Parked' = Parked /\ up' = up
  BY <1>1 DEF Awaited, Parked
<1>5. ~Old(Reached(place))
  BY DEF Old, Reached
<1> QED
  BY <1>1, <1>2, <1>3, <1>4, <1>5, WentOn

\* Nothing has been read where nothing is waited for.
LEMMA NothingRead ==
  ASSUME ParkInv, NEW c \in F!Checkers,
         at[c] \notin {"read", "gate"} \cup F!ReadPlaces
  PROVE  got[c] = None
BY DEF ParkInv, ParkShape, NewsIsGood

\* A check that begins
LEMMA ParkCheck == ASSUME ParkInv, NEW c \in F!Checkers, F!Check(c) PROVE ParkInv'
<1>1. at[c] = "rest" /\ F!GoOn(c, "rule") /\ watch' = watch
  BY DEF F!Check, F!GoOn
<1>2. Kind(c) = Reached("rule") /\ Skips' = Skips /\ got[c] = None
  BY <1>1, NothingRead DEF Kind, Reached, Skips, F!ReadPlaces
<1>3. Left(Awaited, up, Parked, Skips, Kind(c), Kind(Other(c))) \in Nat
  BY Ranges, LeftType
<1> QED
  BY <1>1, <1>2, <1>3, GoesOn, Ranges DEF F!Places

\* Its look whether the rule is waited for
LEMMA ParkRuleGate == ASSUME ParkInv, NEW c \in F!Checkers, F!RuleGate(c) PROVE ParkInv'
<1>1. PICK place \in {"listing", "await"} :
         at[c] = "rule" /\ F!GoOn(c, place) /\ watch' = watch
  BY DEF F!RuleGate
<1>2. Kind(c) = Reached(place) /\ Skips' = Skips /\ got[c] = None
  BY <1>1, NothingRead DEF Kind, Reached, Skips, F!ReadPlaces
<1>3. Left(Awaited, up, Parked, Skips, Kind(c), Kind(Other(c))) \in Nat
  BY Ranges, LeftType
<1>4. place \in F!Places /\ place \notin {"park", "parkread"}
  BY DEF F!Places
<1> QED
  BY <1>1, <1>2, <1>3, <1>4, GoesOn, Ranges

\* A check that asks whether a read is due
LEMMA Asked ==
  ASSUME ParkInv, NEW c \in F!Checkers, NEW told,
         NEW place \in F!ReadPlaces \cup {"notice", "box"},
         F!OnBackoff(c, place, told), got[c] = None,
         Kind(c) \in {"idle", "ahead"}, place = "parkread" => at[c] = "park",
         unseen > 0 /\ (Parked \/ Old(Kind(Other(c)))) /\ Skips = 0 =>
           \A x \in 0..MaxSkip :
             Left(Awaited, up, Parked, x, Reached(place), Kind(Other(c)))
               <= Left(Awaited, up, Parked, 0, Kind(c), Kind(Other(c)))
  PROVE  ParkInv'
<1>1. /\ watch' = F!Counted(watch) /\ Backoff(watch')
      /\ Skips' \in 0..MaxSkip
      /\ Skips > 0 => Skips' = Skips - 1
  BY CountedSkips, Ranges DEF F!OnBackoff, Skips, Backoff
<1>2. CASE F!read_due(watch)
  <2>1. Skips = 0 /\ F!GoOn(c, place)
    BY <1>2 DEF F!read_due, Skips, F!OnBackoff
  <2>2. place \in F!Places /\ place # "park"
    BY DEF F!Places, F!ReadPlaces
  <2>3. unseen > 0 /\ (Parked \/ Old(Kind(Other(c)))) =>
          Left(Awaited, up, Parked, Skips', Reached(place), Kind(Other(c)))
            <= Left(Awaited, up, Parked, Skips, Kind(c), Kind(Other(c)))
    BY <1>1, <2>1
  <2> QED
    BY <1>1, <2>1, <2>2, <2>3, GoesOn
<1>3. CASE ~F!read_due(watch)
  <2>1. F!Report(c, told, slots) /\ Skips \in 0..MaxSkip /\ Skips > 0
    BY <1>3, Ranges DEF F!read_due, Skips, F!OnBackoff
  <2>2. CASE Parked
    <3>1. Parked = TRUE
      BY <2>2, Ranges
    <3>2. Left(Awaited, up, TRUE, Skips - 1, "idle", Kind(Other(c))) + 1
            <= Left(Awaited, up, TRUE, Skips, Kind(c), Kind(Other(c)))
      BY <2>1, LeftSkips, Ranges
    <3>3. Left(slots.await, up, TRUE, Skips', "idle", Kind(Other(c))) + 1
            <= Left(Awaited, up, Parked, Skips, Kind(c), Kind(Other(c)))
      BY <1>1, <2>1, <3>1, <3>2 DEF Awaited
    <3> QED
      BY <1>1, <2>1, <2>2, <3>3, Reported, Ranges
  <2>3. CASE ~Parked
    BY <1>1, <2>1, <2>3, Reported, Ranges DEF Parked
  <2> QED
    BY <2>2, <2>3
<1> QED
  BY <1>2, <1>3

\* The rule as it is listed
LEMMA ParkListing == ASSUME ParkInv, NEW c \in F!Checkers, F!Listing(c) PROVE ParkInv'
<1>1. /\ at[c] = "listing" /\ got[c] = None /\ Kind(c) = "idle"
  BY NothingRead DEF F!Listing, Kind, F!ReadPlaces
<1>2. CASE /\ slots' = [slots EXCEPT !.rule = FALSE]
           /\ F!Goto(c, "await")
           /\ UNCHANGED <<watch, up, got, unseen>> /\ F!Unmoved
  <2>1. slots' \in Parks /\ slots'.await = slots.await /\ slots'.park = slots.park
    BY <1>2, Ranges DEF Parks
  <2>2. ParkShape'
    BY <1>1, <1>2, <2>1, ShapeKept, Ranges DEF ParkInv, F!Unmoved, F!Places
  <2>3. Kind(c)' = "idle"
    BY <1>2, Moved DEF ParkInv, ParkShape, Kind, F!Places
  <2>4. Awaited' = Awaited /\ Parked' = Parked /\ Skips' = Skips /\ up' = up
    BY <1>2, <2>1 DEF Awaited, Parked, Skips
  <2>5. Left(Awaited, up, Parked, Skips, Kind(c), Kind(Other(c))) \in Nat
    BY Ranges, LeftType
  <2>6. "await" \in F!Places
    BY DEF F!Places
  <2> QED
    BY <1>1, <1>2, <2>2, <2>3, <2>4, <2>5, <2>6, WentOn
<1>3. CASE ~F!Admitted(world) /\ F!OnBackoff(c, "ruleread", "setup")
  <2>1. ~(unseen > 0)
    BY <1>3, Ranges DEF F!Ready
  <2> QED
    BY <1>1, <1>3, <2>1, Asked DEF F!ReadPlaces
<1> QED
  BY <1>2, <1>3 DEF F!Listing

\* The gate of a wait for the registry
LEMMA ParkAwaitGate == ASSUME ParkInv, NEW c \in F!Checkers, F!AwaitGate(c) PROVE ParkInv'
<1>1. at[c] = "await" /\ got[c] = None /\ Kind(c) = "idle"
  BY NothingRead DEF F!AwaitGate, Kind, F!ReadPlaces
<1>2. CASE ~slots.await /\ F!GoOn(c, "park") /\ UNCHANGED watch
  <2>1. Kind(c) = Reached("park") /\ Skips' = Skips
    BY <1>1, <1>2 DEF Reached, Skips
  <2>2. Left(Awaited, up, Parked, Skips, Kind(c), Kind(Other(c))) \in Nat
    BY Ranges, LeftType
  <2> QED
    BY <1>1, <1>2, <2>1, <2>2, GoesOn, Ranges DEF F!Places
<1>3. CASE slots.await /\ F!OnBackoff(c, "awaitread", "unknown")
  <2>1. Awaited = TRUE /\ ~up
    BY <1>3, Ranges DEF Awaited
  <2>2. \A x \in 0..MaxSkip :
          Left(TRUE, up, Parked, x, "waits", Kind(Other(c)))
            <= Left(TRUE, up, Parked, 0, "idle", Kind(Other(c)))
    BY <2>1, LeftDueWait, Ranges
  <2>3. "awaitread" \in F!ReadPlaces /\ Reached("awaitread") = "waits"
    BY DEF F!ReadPlaces, Reached
  <2>4. \A x \in 0..MaxSkip :
          Left(Awaited, up, Parked, x, Reached("awaitread"), Kind(Other(c)))
            <= Left(Awaited, up, Parked, 0, Kind(c), Kind(Other(c)))
    BY <1>1, <2>1, <2>2, <2>3
  <2> QED
    BY <1>1, <1>3, <2>3, <2>4, Asked
<1> QED
  BY <1>2, <1>3 DEF F!AwaitGate

\* The gate of a park
LEMMA ParkParkGate == ASSUME ParkInv, NEW c \in F!Checkers, F!ParkGate(c) PROVE ParkInv'
<1>1. at[c] = "park" /\ got[c] = None /\ Kind(c) = "idle"
  BY NothingRead DEF F!ParkGate, Kind, F!ReadPlaces
<1>2. CASE slots.park = None /\ F!GoOn(c, "alive") /\ UNCHANGED watch
  <2>1. Parked = FALSE /\ Skips' = Skips /\ Reached("alive") = "ahead"
    BY <1>2 DEF Parked, Skips, Reached
  <2>2. Old(Kind(Other(c))) =>
          Left(Awaited, up, FALSE, Skips, "ahead", Kind(Other(c)))
            <= Left(Awaited, up, FALSE, Skips, "idle", Kind(Other(c)))
    BY LeftPasses, Ranges
  <2>3. Old(Kind(Other(c))) =>
          Left(Awaited, up, Parked, Skips', Reached("alive"), Kind(Other(c)))
            <= Left(Awaited, up, Parked, Skips, Kind(c), Kind(Other(c)))
    BY <1>1, <2>1, <2>2
  <2> QED
    BY <1>1, <1>2, <2>1, <2>3, GoesOn, Ranges DEF F!Places
<1>3. CASE slots.park # None /\ F!OnBackoff(c, "parkread", "setup")
  <2>1. Parked = TRUE
    BY <1>3 DEF Parked
  <2>2. Awaited => Kind(Other(c)) \notin {"parks", "park_old"}
    BY <1>1, <1>3, Two DEF ParkInv, ParkShape, OneAtPark, Awaited, Kind
  <2>3. \A x \in 0..MaxSkip :
          Left(Awaited, up, TRUE, x, "parks", Kind(Other(c)))
            <= Left(Awaited, up, TRUE, 0, "idle", Kind(Other(c)))
    BY <2>2, LeftDuePark, Ranges
  <2>4. "parkread" \in F!ReadPlaces /\ Reached("parkread") = "parks"
    BY DEF F!ReadPlaces, Reached
  <2>5. \A x \in 0..MaxSkip :
          Left(Awaited, up, Parked, x, Reached("parkread"), Kind(Other(c)))
            <= Left(Awaited, up, Parked, 0, Kind(c), Kind(Other(c)))
    BY <1>1, <2>1, <2>3, <2>4
  <2> QED
    BY <1>1, <1>3, <2>4, <2>5, Asked
<1> QED
  BY <1>2, <1>3 DEF F!ParkGate

\* A check that reports from behind the gates, or from the read for the rule
LEMMA ReportsLater ==
  ASSUME ParkInv, NEW c \in F!Checkers, NEW told, NEW left \in Parks,
         F!Report(c, told, left), Backoff(watch'), Skips' = Skips,
         left.await = slots.await, left.park = slots.park,
         Kind(c) \in {"ahead", "past", "rule"}
  PROVE  ParkInv'
<1>1. CASE Parked
  <2>1. Parked = TRUE /\ left.await = Awaited
    BY <1>1, Ranges DEF Awaited
  <2>2. Left(Awaited, up, TRUE, Skips, "idle", Kind(Other(c))) + 1
          <= Left(Awaited, up, TRUE, Skips, Kind(c), Kind(Other(c)))
    BY LeftReports, Ranges
  <2>3. Left(left.await, up, TRUE, Skips', "idle", Kind(Other(c))) + 1
          <= Left(Awaited, up, Parked, Skips, Kind(c), Kind(Other(c)))
    BY <2>1, <2>2
  <2> QED
    BY <1>1, <2>3, Reported
<1>2. CASE ~Parked
  BY <1>2, Reported DEF Parked
<1> QED
  BY <1>1, <1>2

\* A reading of a wallet that will do is one that clears.
LEMMA ParkReads == ASSUME ParkInv, NEW c \in F!Checkers, F!CheckReads(c) PROVE ParkInv'
<1>1. PICK r \in F!Readings : F!Read(c, r)
  BY DEF F!CheckReads
<1>2. /\ at[c] \in F!ReadPlaces /\ got[c] = None /\ at[c] \in F!Places
      /\ UNCHANGED <<slots, watch, up, at, unseen, world>>
  BY Two DEF F!CheckReads, F!Unmoved, F!ReadPlaces, F!Places
<1>3. F!Goto(c, at[c])
  BY <1>2, Two DEF F!Goto, ParkInv, ParkShape, ParkTyped
<1>4. ParkShape'
  BY <1>1, <1>2, <1>3, ShapeKept, Ranges DEF ParkInv
<1>5. unseen > 0 => Kind(c)' = Kind(c)
  <2>1. unseen > 0 => r.is \in Clearing
    BY Ranges DEF F!Readings, F!NoKey, F!Ready, Clearing
  <2>2. got'[c] = r /\ at' = at
    BY <1>1, <1>2, Two DEF F!Read, ParkInv, ParkShape, ParkTyped
  <2> QED
    BY <1>2, <2>1, <2>2 DEF Kind, Bad
<1>6. Awaited' = Awaited /\ Parked' = Parked /\ Skips' = Skips /\ up' = up
  BY <1>2 DEF Awaited, Parked, Skips
<1>7. Left(Awaited, up, Parked, Skips, Kind(c), Kind(Other(c))) \in Nat
  BY Ranges, LeftType
<1>8. unseen' = unseen
  BY <1>2
<1> QED
  BY <1>1, <1>2, <1>3, <1>4, <1>5, <1>6, <1>7, <1>8, WentOn

\* What a reading leaves in the backoff
LEMMA ReadNoted ==
  ASSUME ParkInv, NEW c \in F!Checkers, NEW place, F!Reads(c, place)
  PROVE  Backoff(watch') /\ Skips' = Skips
BY NotedSkips, Ranges DEF F!Reads, Skips

\* The read behind the gate of the rule
LEMMA ParkRuleRead == ASSUME ParkInv, NEW c \in F!Checkers, F!RuleRead(c) PROVE ParkInv'
<1> DEFINE left == F!park_for_firewall_rule(slots)
<1>1. F!Reads(c, "ruleread") /\ F!Report(c, "setup", left)
  BY DEF F!RuleRead
<1>2. left \in Parks /\ left.await = slots.await /\ left.park = slots.park
  BY Ranges DEF F!park_for_firewall_rule, Parks
<1>3. Kind(c) = "rule"
  BY <1>1 DEF F!Reads, Kind
<1> HIDE DEF left
<1> QED
  BY <1>1, <1>2, <1>3, ReadNoted, ReportsLater

\* The read behind the gate of a wait
LEMMA ParkAwaitRead == ASSUME ParkInv, NEW c \in F!Checkers, F!AwaitRead(c) PROVE ParkInv'
<1>1. /\ at[c] = "awaitread" /\ got[c] # None
      /\ Backoff(watch') /\ Skips' = Skips
  BY ReadNoted DEF F!AwaitRead, F!Reads
<1> DEFINE f == got[c].is
<1>2. CASE f \in {"unknown", "unmeasurable"} /\ F!Report(c, "unknown", slots)
  <2>1. Kind(c) = "wait_old"
    BY <1>1, <1>2 DEF Kind, Bad, Clearing
  <2>2. Left(Awaited, up, TRUE, Skips, "idle", Kind(Other(c))) + 1
          <= Left(Awaited, up, TRUE, Skips, "wait_old", Kind(Other(c)))
    BY LeftOldWaits, Ranges
  <2>3. CASE Parked
    <3>1. Parked = TRUE
      BY <2>3, Ranges
    <3>2. Left(slots.await, up, TRUE, Skips', "idle", Kind(Other(c))) + 1
            <= Left(Awaited, up, Parked, Skips, Kind(c), Kind(Other(c)))
      BY <1>1, <2>1, <2>2, <3>1 DEF Awaited
    <3> QED
      BY <1>1, <1>2, <2>3, <3>2, Reported, Ranges
  <2>4. CASE ~Parked
    BY <1>1, <1>2, <2>4, Reported, Ranges DEF Parked
  <2> QED
    BY <2>3, <2>4
<1>3. CASE /\ F!Hold(f) # None
           /\ F!Report(c, "setup", [slots EXCEPT !.park = F!Hold(f), !.await = FALSE])
  <2> DEFINE left == [slots EXCEPT !.park = F!Hold(f), !.await = FALSE]
  <2>1. f \in {"underfunded", "unpriced"} /\ F!Hold(f) \in {"shortfall", "unreadable"}
    BY <1>3 DEF F!Hold
  <2>2. left \in Parks /\ left.await = FALSE
    BY <2>1, Ranges DEF Parks
  <2>3. Kind(c) = "wait_old" /\ Old("wait_old")
    BY <1>1, <2>1 DEF Kind, Bad, Clearing, Old
  <2> HIDE DEF left
  <2>4. Left(FALSE, up, TRUE, Skips, "idle", Kind(Other(c))) + 1
          <= Left(Awaited, up, Parked, Skips, "wait_old", Kind(Other(c)))
    BY LeftOldWait, Ranges
  <2>5. Left(left.await, up, TRUE, Skips', "idle", Kind(Other(c))) + 1
          <= Left(Awaited, up, Parked, Skips, Kind(c), Kind(Other(c)))
    BY <1>1, <2>2, <2>3, <2>4
  <2>6. F!Report(c, "setup", left)
    BY <1>3 DEF left
  <2> QED
    BY <1>1, <2>2, <2>3, <2>5, <2>6, Reported
<1>4. CASE F!Cleared(c, "park", [slots EXCEPT !.await = FALSE])
  <2>1. /\ F!Goto(c, "park") /\ F!Read(c, None) /\ UNCHANGED <<up, unseen, world>>
        /\ slots' = [slots EXCEPT !.await = FALSE] /\ f \in Clearing
    BY <1>4 DEF F!Cleared, F!Unmoved, Clearing
  <2>2. slots' \in Parks /\ slots'.await = FALSE /\ slots'.park = slots.park
    BY <2>1, Ranges DEF Parks
  <2>3. "park" \in F!Places
    BY DEF F!Places
  <2>4. ParkShape'
    BY <1>1, <2>1, <2>2, <2>3, ShapeKept, Ranges DEF ParkInv
  <2>5. Kind(c) = "waits" /\ Kind(c)' = "idle"
    BY <1>1, <2>1, <2>3, Moved DEF Kind, Bad, ParkInv, ParkShape
  <2>6. Left(FALSE, up, Parked, Skips, "idle", Kind(Other(c)))
          <= Left(Awaited, up, Parked, Skips, "waits", Kind(Other(c)))
    BY LeftWaits, Ranges
  <2>7. Awaited' = FALSE /\ Parked' = Parked /\ up' = up
    BY <2>1, <2>2 DEF Awaited, Parked
  <2>8. Left(Awaited', up', Parked', Skips', Kind(c)', Kind(Other(c)))
          <= Left(Awaited, up, Parked, Skips, Kind(c), Kind(Other(c)))
    BY <1>1, <2>5, <2>6, <2>7
  <2>9. ~Old(Kind(c)')
    BY <2>5 DEF Old
  <2> QED
    BY <2>1, <2>3, <2>4, <2>7, <2>8, <2>9, WentOn
<1> QED
  BY <1>2, <1>3, <1>4 DEF F!AwaitRead

\* The read behind the gate of a park
LEMMA ParkParkRead == ASSUME ParkInv, NEW c \in F!Checkers, F!ParkRead(c) PROVE ParkInv'
<1>1. /\ at[c] = "parkread" /\ got[c] # None
      /\ Backoff(watch') /\ Skips' = Skips
  BY ReadNoted DEF F!ParkRead, F!Reads
<1> DEFINE f == got[c].is
<1>2. ASSUME f \notin Clearing, NEW left \in Parks, F!Report(c, "setup", left),
             left.await = slots.await
      PROVE  ParkInv'
  <2>1. Kind(c) = "park_old" /\ Old("park_old")
    BY <1>1, <1>2 DEF Kind, Bad, Old
  <2>2. Left(Awaited, up, TRUE, Skips, "idle", Kind(Other(c))) + 1
          <= Left(Awaited, up, Parked, Skips, "park_old", Kind(Other(c)))
    BY LeftOldPark, Ranges
  <2>3. Left(left.await, up, TRUE, Skips', "idle", Kind(Other(c))) + 1
          <= Left(Awaited, up, Parked, Skips, Kind(c), Kind(Other(c)))
    BY <1>1, <1>2, <2>1, <2>2 DEF Awaited
  <2> QED
    BY <1>1, <1>2, <2>1, <2>3, Reported
<1>3. CASE f = "unknown" /\ F!Report(c, "setup", slots)
  BY <1>2, <1>3, Ranges DEF Clearing
<1>4. CASE f = "underfunded" /\ F!Report(c, "setup", [slots EXCEPT !.park = "shortfall"])
  BY <1>2, <1>4, Ranges DEF Clearing, Parks
<1>5. CASE /\ f \in {"unmeasurable", "unpriced"}
           /\ F!Report(c, "setup", [slots EXCEPT !.park = "unreadable"])
  BY <1>2, <1>5, Ranges DEF Clearing, Parks
<1>6. CASE F!Cleared(c, "alive", [slots EXCEPT !.park = None])
  <2>1. /\ F!Goto(c, "alive") /\ F!Read(c, None) /\ UNCHANGED <<up, unseen, world>>
        /\ slots' = [slots EXCEPT !.park = None] /\ f \in Clearing
    BY <1>6 DEF F!Cleared, F!Unmoved, Clearing
  <2>2. slots' \in Parks /\ slots'.await = slots.await /\ slots'.park = None
    BY <2>1, Ranges DEF Parks
  <2>3. "alive" \in F!Places
    BY DEF F!Places
  <2>4. ParkShape'
    BY <1>1, <2>1, <2>2, <2>3, ShapeKept, Ranges DEF ParkInv
  <2>5. Kind(c) = "parks" /\ Kind(c)' = "ahead"
    BY <1>1, <2>1, <2>3, Moved DEF Kind, Bad, ParkInv, ParkShape
  <2>6. Awaited /\ Parked => Kind(Other(c)) # "park_old"
    BY <1>1, Two DEF ParkInv, ParkShape, OneAtPark, Awaited, Parked, Kind
  <2>7. Old(Kind(Other(c))) =>
          Left(Awaited, up, FALSE, Skips, "ahead", Kind(Other(c)))
            <= Left(Awaited, up, Parked, Skips, "parks", Kind(Other(c)))
    BY <2>6, LeftParks, Ranges
  <2>8. Awaited' = Awaited /\ Parked' = FALSE /\ up' = up
    BY <2>1, <2>2 DEF Awaited, Parked
  <2>9. Old(Kind(Other(c))) =>
          Left(Awaited', up', Parked', Skips', Kind(c)', Kind(Other(c)))
            <= Left(Awaited, up, Parked, Skips, Kind(c), Kind(Other(c)))
    BY <1>1, <2>5, <2>7, <2>8
  <2>10. ~Old(Kind(c)')
    BY <2>5 DEF Old
  <2> QED
    BY <2>1, <2>3, <2>4, <2>8, <2>9, <2>10, WentOn
<1> QED
  BY <1>3, <1>4, <1>5, <1>6 DEF F!ParkRead

\* The look at the process
LEMMA ParkAlive == ASSUME ParkInv, NEW c \in F!Checkers, F!Alive(c) PROVE ParkInv'
<1>1. PICK place \in {"probe", "port"} :
         at[c] = "alive" /\ F!GoOn(c, place) /\ watch' = watch
  BY DEF F!Alive
<1>2. /\ Kind(c) = "ahead" /\ Skips' = Skips /\ got[c] = None
      /\ Reached(place) \in {"ahead", "past"}
  BY <1>1, NothingRead DEF Kind, Reached, Skips, F!ReadPlaces
<1>3. /\ Left(Awaited, up, Parked, Skips, "ahead", Kind(Other(c))) \in Nat
      /\ Left(Awaited, up, Parked, Skips, "past", Kind(Other(c)))
           <= Left(Awaited, up, Parked, Skips, "ahead", Kind(Other(c)))
  BY Ranges, LeftType, LeftPast DEF Kinds
<1>4. Left(Awaited, up, Parked, Skips', Reached(place), Kind(Other(c)))
        <= Left(Awaited, up, Parked, Skips, Kind(c), Kind(Other(c)))
  BY <1>2, <1>3
<1>5. place \in F!Places /\ place \notin {"park", "parkread"}
  BY DEF F!Places
<1> QED
  BY <1>1, <1>2, <1>4, <1>5, GoesOn, Ranges

\* What the port tells, and the last look at wallet and registry
LEMMA ParkLater ==
  ASSUME ParkInv, NEW c \in F!Checkers,
         F!PortFree(c) \/ F!PortHeld(c) \/ F!Notice(c) \/ F!Box(c)
  PROVE  ParkInv'
<1>1. Kind(c) = "past"
  BY DEF Kind, F!PortFree, F!PortHeld, F!Notice, F!Box
<1>2. Backoff(watch') /\ Skips' = Skips
  BY Ranges DEF F!PortFree, F!PortHeld, F!Notice, F!Box, Backoff, Skips
<1>3. \E told : F!Report(c, told, slots)
  BY DEF F!PortFree, F!PortHeld, F!Notice, F!Box
<1> QED
  BY <1>1, <1>2, <1>3, ReportsLater, Ranges

\* The clearing of a leftover, or of ours
LEMMA ParkClears == ASSUME ParkInv, NEW c \in F!Checkers, F!ClearFrynode(c) PROVE ParkInv'
<1>1. PICK place \in {"told", "rest"} : F!Goto(c, place)
  BY DEF F!ClearFrynode, F!Told
<1>2. /\ at[c] = "port" /\ got[c] = None /\ Kind(c) = "past"
      /\ place \in F!Places /\ UNCHANGED <<slots, watch, got>>
      /\ up' = up \/ up' = FALSE
      /\ world' = world \/ world' = [world EXCEPT !.port = "free"]
  BY NothingRead DEF F!ClearFrynode, F!ReadPlaces, Kind, F!Places
<1>3. /\ unseen' \in {0, unseen} /\ unseen \in Nat
      /\ slots.park = None => unseen' = 0
      /\ unseen' > 0 => F!Ready(world)
  BY Ranges DEF F!ClearFrynode, F!Outlived
<1>4. ParkShape'
  <2>1. slots' \in Parks /\ Backoff(watch') /\ (slots'.await => slots.await)
    BY <1>2, Ranges
  <2>2. unseen' \in Nat /\ got' = got /\ ParkShape
    BY <1>2, <1>3 DEF ParkInv
  <2>3. place \notin {"park", "parkread"}
    OBVIOUS
  <2> QED
    BY <1>1, <1>2, <1>3, <2>1, <2>2, <2>3, ShapeKept
<1>5. CASE unseen' = 0
  BY <1>4, <1>5, Carried DEF ParkInv, ParkShape
<1>6. CASE unseen' # 0
  <2>1. Parked = TRUE /\ unseen' = unseen
    BY <1>3, <1>6 DEF Parked
  <2>2. Awaited' = Awaited /\ Parked' = TRUE /\ Skips' = Skips
    BY <1>2, <2>1 DEF Awaited, Parked, Skips
  <2>3. Kind(c)' = "idle" /\ up' \in BOOLEAN /\ (up' => up)
    <3>1. at'[c] = place
      BY <1>1, <1>2, Moved DEF ParkInv, ParkShape
    <3>2. Kind(c)' = "idle"
      BY <3>1 DEF Kind
    <3>3. up \in BOOLEAN /\ (up' = up \/ up' = FALSE)
      BY <1>2, Ranges
    <3>4. CASE up' = up
      BY <3>2, <3>3, <3>4
    <3>5. CASE up' = FALSE
      BY <3>2, <3>5
    <3> QED
      BY <3>3, <3>4, <3>5
  <2>4. Left(Awaited, up', TRUE, Skips, "idle", Kind(Other(c)))
          <= Left(Awaited, up, TRUE, Skips, "past", Kind(Other(c)))
    BY <2>3, LeftClears, Ranges
  <2>5. Left(Awaited, up', TRUE, Skips, "idle", Kind(Other(c)))
          <= Left(Awaited, up, Parked, Skips, Kind(c), Kind(Other(c)))
    BY <1>2, <2>1, <2>4
  <2>6. Left(Awaited', up', Parked', Skips', Kind(c)', Kind(Other(c)))
          <= Left(Awaited, up, Parked, Skips, Kind(c), Kind(Other(c)))
    BY <2>2, <2>3, <2>5
  <2> QED
    BY <1>1, <1>2, <1>4, <2>1, <2>6, WentOn
<1> QED
  BY <1>5, <1>6

\* The probe of the node
LEMMA ParkProbe == ASSUME ParkInv, NEW c \in F!Checkers, F!Probe(c) PROVE ParkInv'
<1>1. at[c] = "probe" /\ got[c] = None /\ Kind(c) = "ahead"
  BY NothingRead DEF F!Probe, Kind, F!ReadPlaces
<1>2. CASE \E told : F!Report(c, told, slots) /\ UNCHANGED watch
  BY <1>1, <1>2, ReportsLater, Ranges DEF Skips
<1>3. ASSUME NEW place \in {"notice", "box"}, NEW told, F!OnBackoff(c, place, told),
             F!listening
      PROVE  ParkInv'
  <2>1. up = TRUE /\ Awaited = FALSE
    BY <1>3, Ranges DEF F!listening
  <2>2. \A x \in 0..MaxSkip :
          Left(FALSE, TRUE, Parked, x, "past", Kind(Other(c)))
            <= Left(FALSE, TRUE, Parked, 0, "ahead", Kind(Other(c)))
    BY LeftProbes, Ranges
  <2>3. Reached(place) = "past"
    BY DEF Reached
  <2>4. \A x \in 0..MaxSkip :
          Left(Awaited, up, Parked, x, Reached(place), Kind(Other(c)))
            <= Left(Awaited, up, Parked, 0, Kind(c), Kind(Other(c)))
    BY <1>1, <2>1, <2>2, <2>3
  <2> QED
    BY <1>1, <1>3, <2>4, Asked
<1>4. CASE /\ F!listening /\ world.registered
           /\ watch' = IF watch.address THEN F!Counted(watch) ELSE watch
           /\ IF watch.address /\ F!read_due(watch) THEN F!GoOn(c, "notice")
              ELSE F!Report(c, "healthy", slots)
  BY <1>2, <1>3, <1>4 DEF F!OnBackoff
<1> QED
  BY <1>2, <1>3, <1>4 DEF F!Probe

\* A step of no checker: the reasons are counted anew, or less is left.
LEMMA Elsewhere ==
  ASSUME ParkInv, ParkShape',
         \/ unseen' = 0
         \/ /\ UNCHANGED <<unseen, slots>>
            /\ \A c \in F!Checkers : Kind(c)' = Kind(c)
            /\ \/ Skips' = Skips /\ (up' = up \/ up' = FALSE)
               \/ Skips' = 0 /\ up' = up
  PROVE  ParkInv'
<1> DEFINE c == "loop"
<1>1. c \in F!Checkers
  BY DEF F!Checkers
<1> HIDE DEF c
<1>2. CASE unseen' = 0
  BY <1>1, <1>2, Carried DEF ParkInv, ParkShape
<1>3. CASE /\ UNCHANGED <<unseen, slots>>
           /\ \A d \in F!Checkers : Kind(d)' = Kind(d)
           /\ \/ Skips' = Skips /\ (up' = up \/ up' = FALSE)
              \/ Skips' = 0 /\ up' = up
  <2>1. Kind(c)' = Kind(c) /\ Kind(Other(c))' = Kind(Other(c))
    BY <1>1, <1>3, Two
  <2>2. Awaited' = Awaited /\ Parked' = Parked /\ unseen' = unseen
    BY <1>3 DEF Awaited, Parked
  <2>3. LeftNow(c) \in Nat
    BY <1>1, LeftNowType DEF ParkInv, ParkShape
  <2>4. LeftNow(c) = Left(Awaited, up, Parked, Skips, Kind(c), Kind(Other(c)))
    BY DEF LeftNow
  <2>5. LeftNow(c)' = Left(Awaited, up', Parked, Skips', Kind(c), Kind(Other(c)))
    BY <2>1, <2>2 DEF LeftNow
  <2>6. LeftNow(c)' <= LeftNow(c)
    <3>1. CASE Skips' = Skips /\ up' = up
      BY <2>3, <2>4, <2>5, <3>1
    <3>2. CASE Skips' = Skips /\ up' = FALSE
      <4>1. Left(Awaited, FALSE, Parked, Skips, Kind(c), Kind(Other(c)))
              <= Left(Awaited, up, Parked, Skips, Kind(c), Kind(Other(c)))
        BY <1>1, LeftDown, Ranges
      <4> QED
        BY <2>4, <2>5, <3>2, <4>1
    <3>3. CASE Skips' = 0 /\ up' = up
      <4>1. Left(Awaited, up, Parked, 0, Kind(c), Kind(Other(c)))
              <= Left(Awaited, up, Parked, Skips, Kind(c), Kind(Other(c)))
        BY <1>1, LeftAnew, Ranges
      <4> QED
        BY <2>4, <2>5, <3>3, <4>1
    <3> QED
      BY <1>3, <3>1, <3>2, <3>3
  <2>7. Owing(c)' <=> Owing(c)
    BY <2>1, <2>2 DEF Owing
  <2>8. CountedDown'
    BY <1>1, <2>2, <2>6, <2>7, Carried DEF ParkShape
  <2> QED
    BY <2>8 DEF ParkInv
<1> QED
  BY <1>2, <1>3

\* A start that reads the wallet keeps the invariant.
LEMMA ParkStartReads ==
  ASSUME ParkInv, NEW a \in F!Starters, F!StartReads(a)
  PROVE  ParkInv'
<1>1. ParkShape'
  BY DEF ParkInv, ParkShape, ParkTyped, NewsIsGood, OneAtPark, WaitIsDown,
     Awaited, F!StartReads, F!Goto, F!Read, F!Actors, F!Starters, F!Checkers,
     F!Places, F!ReadPlaces
<1>2. \A c \in F!Checkers : Kind(c)' = Kind(c)
  BY DEF ParkInv, ParkShape, ParkTyped, F!StartReads, F!Goto, F!Read, F!Actors,
     F!Starters, F!Checkers, Kind
<1>3. UNCHANGED <<unseen, slots>> /\ Skips' = Skips /\ up' = up
  BY DEF F!StartReads, Skips
<1> QED
  BY <1>1, <1>2, <1>3, Elsewhere

\* So does one that notes what it read,
LEMMA ParkStartNotes ==
  ASSUME ParkInv, NEW a \in F!Starters, F!StartNotes(a)
  PROVE  ParkInv'
<1>1. Backoff(watch') /\ Skips' = 0
  <2> DEFINE w == F!Noted(watch, got[a])
  <2>1. Backoff(w) /\ watch' = [w EXCEPT !.skip = 0, !.reads = 1]
    BY NotedSkips DEF ParkInv, ParkShape, ParkTyped, F!StartNotes,
       F!restart_backoff
  <2> HIDE DEF w
  <2> QED
    BY <2>1, SkipAssumption DEF Backoff, Skips
<1>2. ParkShape'
  BY <1>1 DEF ParkInv, ParkShape, ParkTyped, NewsIsGood, OneAtPark, WaitIsDown,
     Awaited, F!StartNotes, F!Goto, F!Actors, F!Starters, F!Checkers,
     F!Places, F!ReadPlaces
<1>3. \A c \in F!Checkers : Kind(c)' = Kind(c)
  BY DEF ParkInv, ParkShape, ParkTyped, F!StartNotes, F!Goto, F!Actors,
     F!Starters, F!Checkers, Kind
<1>4. UNCHANGED <<unseen, slots>> /\ up' = up
  BY DEF F!StartNotes
<1> QED
  BY <1>1, <1>2, <1>3, <1>4, Elsewhere

\* one that returns,
LEMMA ParkStartReturns ==
  ASSUME ParkInv, NEW a \in F!Starters,
         \/ F!StartWithoutRule(a) \/ F!StartAwaits(a)
         \/ F!StartParks(a) \/ F!StartSpawns(a)
  PROVE  ParkInv'
<1>1. F!StartReturns(a) /\ slots \in Parks /\ up \in BOOLEAN /\ (slots.await => ~up)
  BY DEF ParkInv, ParkShape, ParkTyped, WaitIsDown, Awaited,
     F!StartWithoutRule,
     F!StartAwaits, F!StartParks, F!StartSpawns
<1>2. /\ slots' \in Parks /\ up' \in BOOLEAN /\ (slots'.await => ~up')
      /\ slots'.await /\ slots'.park # None => slots.await /\ slots.park # None
  <2>1. CASE F!StartWithoutRule(a)
    BY <1>1, <2>1 DEF Parks, F!StartWithoutRule, F!park_for_firewall_rule
  <2>2. CASE F!StartAwaits(a)
    BY <1>1, <2>2 DEF Parks, F!StartAwaits
  <2>3. CASE F!StartParks(a)
    BY <1>1, <2>3 DEF Parks, F!StartParks, F!Hold
  <2>4. CASE F!StartSpawns(a)
    BY <1>1, <2>4 DEF Parks, F!StartSpawns
  <2> QED
    BY <2>1, <2>2, <2>3, <2>4
<1>3. /\ at' = [at EXCEPT ![a] = "rest"] /\ got' = [got EXCEPT ![a] = None]
      /\ UNCHANGED <<world, watch>> /\ at[a] = "gate" /\ unseen' = 0
  BY <1>1 DEF F!StartReturns, F!Goto, F!Read
<1>4. ParkShape'
  BY <1>2, <1>3 DEF ParkInv, ParkShape, ParkTyped, NewsIsGood, OneAtPark,
     WaitIsDown,
     Awaited, F!Actors, F!Starters, F!Checkers, F!Places, F!ReadPlaces
<1> QED
  BY <1>3, <1>4, Elsewhere

\* What a stop leaves
LEMMA Emptied ==
  /\ Backoff(F!NewWatch) /\ F!NothingParked \in Parks
  /\ F!NothingParked.await = FALSE
BY SkipAssumption DEF Backoff, F!NewWatch, F!NothingParked, Parks

\* and whatever stops the node or changes what a park is for.
LEMMA ParkAnew ==
  ASSUME ParkInv,
         \/ F!DisableAsks \/ F!DisableStops \/ F!Restart \/ F!TimesOut
         \/ F!NodeRegisters \/ F!WorldChanges
  PROVE  ParkInv'
<1> USE SkipAssumption DEF ParkInv, ParkShape, ParkTyped, NewsIsGood,
        OneAtPark,
        WaitIsDown, Awaited, F!Goto, F!Read, F!Actors, F!Starters,
        F!Checkers, F!Places, F!ReadPlaces, F!Stopped
<1>1. CASE F!DisableAsks
  <2>1. ParkShape' /\ unseen' = 0
    BY <1>1 DEF F!DisableAsks
  <2> QED
    BY <2>1, Elsewhere
<1>2. CASE F!DisableStops
  <2>1. slots' = F!NothingParked /\ watch' = F!NewWatch /\ up' = FALSE
    BY <1>2 DEF F!DisableStops
  <2>2. ParkTyped'
    BY <1>2, <2>1, Emptied DEF F!DisableStops
  <2>3. NewsIsGood' /\ unseen' = 0
    BY <1>2 DEF F!DisableStops
  <2>4. OneAtPark' /\ WaitIsDown'
    BY <2>1, Emptied
  <2> QED
    BY <2>2, <2>3, <2>4, Elsewhere
<1>3. CASE F!Restart
  <2>1. slots' = F!NothingParked /\ watch' = F!NewWatch /\ up' = FALSE
    BY <1>3 DEF F!Restart
  <2>2. ParkTyped'
    BY <1>3, <2>1, Emptied DEF F!Restart
  <2>3. NewsIsGood' /\ unseen' = 0
    BY <1>3 DEF F!Restart
  <2>4. OneAtPark' /\ WaitIsDown'
    BY <2>1, Emptied
  <2> QED
    BY <2>2, <2>3, <2>4, Elsewhere
<1>4. CASE F!TimesOut
  <2>1. ParkShape' /\ unseen' = 0
    BY <1>4 DEF F!TimesOut
  <2> QED
    BY <2>1, Elsewhere
<1>5. CASE F!NodeRegisters
  <2>1. ParkShape' /\ unseen' = 0
    BY <1>5 DEF F!NodeRegisters
  <2> QED
    BY <2>1, Elsewhere
<1>6. CASE F!WorldChanges
  <2>1. ParkShape' /\ unseen' = 0
    BY <1>6 DEF F!WorldChanges
  <2> QED
    BY <2>1, Elsewhere
<1> QED
  BY <1>1, <1>2, <1>3, <1>4, <1>5, <1>6

\* So do an enable, a status that leads to no restart, a node that exits.
LEMMA ParkRest ==
  ASSUME ParkInv, F!Enable \/ F!NoRestart \/ F!NodeExits
  PROVE  ParkInv'
<1>1. ParkShape'
  <2> USE DEF ParkInv, ParkShape, ParkTyped, NewsIsGood, OneAtPark, WaitIsDown,
              Awaited, F!Goto, F!Actors, F!Starters, F!Checkers, F!Places,
              F!ReadPlaces
  <2>1. CASE F!Enable
    BY <2>1 DEF F!Enable
  <2>2. CASE F!NoRestart
    BY <2>2 DEF F!NoRestart
  <2>3. CASE F!NodeExits
    BY <2>3 DEF F!NodeExits
  <2> QED
    BY <2>1, <2>2, <2>3
<1>2. \A c \in F!Checkers : Kind(c)' = Kind(c)
  BY DEF ParkInv, ParkShape, ParkTyped, F!Enable, F!NoRestart, F!NodeExits,
     F!Goto, F!Actors, F!Starters, F!Checkers, Kind
<1>3. UNCHANGED <<unseen, slots>> /\ Skips' = Skips /\ (up' = up \/ up' = FALSE)
  BY DEF F!Enable, F!NoRestart, F!NodeExits, Skips
<1> QED
  BY <1>1, <1>2, <1>3, Elsewhere

\* All steps of fryvpn's part.
LEMMA ParkNext == ASSUME ParkInv, F!Next PROVE ParkInv'
<1>1. ASSUME NEW c \in F!Checkers, F!Check(c) \/ F!HealthCheck(c) PROVE ParkInv'
  BY <1>1, ParkCheck, ParkRuleGate, ParkListing, ParkAwaitGate, ParkParkGate,
     ParkReads, ParkRuleRead, ParkAwaitRead, ParkParkRead, ParkAlive, ParkLater,
     ParkClears, ParkProbe DEF F!HealthCheck
<1>2. ASSUME NEW a \in F!Starters, F!Start(a) PROVE ParkInv'
  BY <1>2, ParkStartReads, ParkStartNotes, ParkStartReturns DEF F!Start
<1> QED
  BY <1>1, <1>2, ParkAnew, ParkRest DEF F!Next

\* Nothing is parked at first.
LEMMA ParkBegun == F!Init => ParkInv
<1> SUFFICES ASSUME F!Init PROVE ParkInv
  OBVIOUS
<1>1. ParkTyped /\ unseen = 0
  BY Emptied DEF F!Init, F!Actors, F!Starters, F!Checkers, F!Places, ParkTyped
<1>2. NewsIsGood
  BY DEF F!Init, F!Actors, F!Starters, F!Checkers, NewsIsGood
<1>3. OneAtPark /\ WaitIsDown
  BY Emptied DEF F!Init, OneAtPark, WaitIsDown, Awaited
<1> QED
  BY <1>1, <1>2, <1>3, SkipAssumption DEF ParkInv, ParkShape, CountedDown

(***************************************************************************)
(* However starts, stops and the checks of both tasks overlap, and         *)
(* whatever the backoff's cap, a funding park is shown for four rounds of  *)
(* the backoff at most after its reason has gone (fryvpn.rs 602-655,       *)
(* 1397-1462).                                                             *)
(***************************************************************************)
THEOREM ParkIsOver == FryVpnTasks => []FundedIsSeen
<1> DEFINE I == part = "fryvpn" => ParkInv
<1>1. TasksInit => I
  BY ParkBegun DEF TasksInit
<1>2. I /\ [TasksNext]_allVars => I'
  <2> SUFFICES ASSUME I, [TasksNext]_allVars, part' = "fryvpn"
               PROVE  ParkInv'
    OBVIOUS
  <2>1. part = "fryvpn" /\ (F!Next \/ UNCHANGED ofFryVpn)
    BY DEF TasksNext, OfLoop, OfFryVpn, OfReporting, allVars
  <2>2. CASE UNCHANGED ofFryVpn
    BY <2>1, <2>2 DEF ofFryVpn, ParkInv, ParkShape, ParkTyped, Backoff,
       NewsIsGood, OneAtPark, WaitIsDown, CountedDown, LeftNow, Owing, Parked,
       Awaited, Skips, Kind
  <2> QED
    BY <2>1, <2>2, ParkNext
<1>3. I => FundedIsSeen
  BY SkipAssumption DEF ParkInv, ParkShape, ParkTyped, CountedDown,
     FundedIsSeen,
     F!FundedIsSeen
<1> QED
  BY <1>1, <1>2, <1>3, PTL DEF FryVpnTasks

-----------------------------------------------------------------------------
(* The PoC reporting task                                                  *)

\* Every set of naturals has a least element.
LEMMA Smallest ==
    ASSUME NEW T \in SUBSET Nat, T # {}
    PROVE  \E x \in T : \A y \in T : x <= y
<1> DEFINE less == {ss \in Nat \X Nat : ss[1] < ss[2]}
<1>1. IsWellFoundedOn(less, Nat)
  BY NatLessThanWellFounded DEF OpToRel
<1> HIDE DEF less
<1>2. PICK x \in T : \A y \in T : ~(<<y, x>> \in less)
  BY <1>1, WFMin, Zenon
<1>3. \A y \in T : <<y, x>> \in less <=> y < x
  BY DEF less
<1>4. \A y \in T : ~(y < x)
  BY <1>2, <1>3, Zenon
<1>5. x \in Nat /\ \A y \in T : y \in Nat
  OBVIOUS
<1>6. \A y \in T : x <= y
  BY <1>4, <1>5
<1> QED BY <1>6

\* What holds at 0 and passes to the next number holds of every number.
LEMMA Induction ==
    ASSUME NEW S \in SUBSET Nat, 0 \in S, \A n \in S : n + 1 \in S
    PROVE  S = Nat
<1>1. SUFFICES ASSUME Nat \ S # {} PROVE FALSE
  OBVIOUS
<1>2. PICK x \in Nat \ S : \A y \in Nat \ S : x <= y
  BY <1>1, Smallest
<1>3. x - 1 \in Nat /\ x - 1 \notin Nat \ S
  BY <1>2
<1> QED BY <1>2, <1>3

\* The recursion of Retain, up to n.
Keeps(q, keep, n, f) ==
    f = [i \in 0 .. n |-> IF i = 0 THEN <<>>
                          ELSE IF q[i] \in keep THEN Append(f[i-1], q[i]) ELSE f[i-1]]

\* That recursion has a solution.
LEMMA KeepsExists ==
    ASSUME NEW q, NEW keep, NEW n \in Nat
    PROVE  \E f : Keeps(q, keep, n, f)
<1> DEFINE S == {m \in Nat : \E f : Keeps(q, keep, m, f)}
<1>1. 0 \in S
  <2>1. Keeps(q, keep, 0, [i \in {0} |-> <<>>])
    BY DEF Keeps
  <2> QED BY <2>1
<1>2. ASSUME NEW m \in S PROVE m + 1 \in S
  <2>1. PICK f : Keeps(q, keep, m, f)
    BY <1>2
  <2> DEFINE next == IF q[m+1] \in keep THEN Append(f[m], q[m+1]) ELSE f[m]
             g == [i \in 0 .. m + 1 |-> IF i <= m THEN f[i] ELSE next]
             h == [i \in 0 .. m + 1 |-> IF i = 0 THEN <<>>
                          ELSE IF q[i] \in keep THEN Append(g[i-1], q[i]) ELSE g[i-1]]
  <2>2. \A i \in 0 .. m : f[i] = IF i = 0 THEN <<>>
                          ELSE IF q[i] \in keep THEN Append(f[i-1], q[i]) ELSE f[i-1]
    BY <2>1 DEF Keeps
  <2>3. m \in Nat
    OBVIOUS
  <2>4. ASSUME NEW i \in 0 .. m + 1 PROVE g[i] = h[i]
    <3>1. CASE i <= m
      <4>1. i > 0 => g[i-1] = f[i-1]
        BY <2>3, <3>1
      <4>2. g[i] = f[i] /\ i \in 0 .. m
        BY <2>3, <3>1
      <4> HIDE DEF g
      <4> QED BY <2>2, <2>3, <4>1, <4>2
    <3>2. CASE i = m + 1
      <4>1. g[m] = f[m] /\ g[m+1] = next /\ i # 0 /\ i - 1 = m
        BY <2>3, <3>2
      <4> HIDE DEF g
      <4> QED BY <3>2, <4>1
    <3> QED BY <2>3, <3>1, <3>2
  <2>5. g = h
    <3>1. DOMAIN g = DOMAIN h
      OBVIOUS
    <3> QED BY <2>4, <3>1
  <2>6. Keeps(q, keep, m + 1, g)
    BY <2>5 DEF Keeps
  <2> QED BY <2>3, <2>6
<1>3. S = Nat
  <2> HIDE DEF S
  <2>1. S \in SUBSET Nat
    BY DEF S
  <2> QED BY <1>1, <1>2, <2>1, Induction
<1> QED BY <1>3

\* What Retain has kept of the first n entries of q.
Prefix(q, keep, n, r) ==
    /\ Len(r) <= n
    /\ \A j \in 1 .. n : q[j] \in keep => \E a \in 1 .. Len(r) : r[a] = q[j]
    /\ \E g \in [1 .. Len(r) -> 1 .. n] :
          /\ \A a, b \in 1 .. Len(r) : a < b => g[a] < g[b]
          /\ \A a \in 1 .. Len(r) : r[a] = q[g[a]] /\ r[a] \in keep

\* Retain has kept what of q is in keep, and nothing else, in its order.
LEMMA RetainFacts ==
    ASSUME NEW E, NEW q \in Seq(E), NEW keep
    PROVE  R!Retain(q, keep) \in Seq(E) /\ Prefix(q, keep, Len(q), R!Retain(q, keep))
<1> DEFINE kept == CHOOSE f : Keeps(q, keep, Len(q), f)
<1>1. Keeps(q, keep, Len(q), kept)
  <2>1. Len(q) \in Nat
    OBVIOUS
  <2>2. \E f : Keeps(q, keep, Len(q), f)
    BY <2>1, KeepsExists
  <2> QED BY <2>2, Zenon
<1>2. R!Retain(q, keep) = kept[Len(q)]
  BY DEF R!Retain, Keeps
<1>3. \A i \in 0 .. Len(q) :
         kept[i] = IF i = 0 THEN <<>>
                ELSE IF q[i] \in keep THEN Append(kept[i-1], q[i]) ELSE kept[i-1]
  BY <1>1 DEF Keeps
<1> HIDE DEF kept
<1> DEFINE S == {n \in Nat : n <= Len(q) =>
                            kept[n] \in Seq(E) /\ Prefix(q, keep, n, kept[n])}
<1>4. 0 \in S
  <2> DEFINE r == <<>>
             g == [a \in 1 .. 0 |-> 0]
  <2>1. kept[0] = r /\ r \in Seq(E) /\ Len(r) = 0
    BY <1>3
  <2>2. 1 .. 0 = {}
    OBVIOUS
  <2>3. g \in [1 .. Len(r) -> 1 .. 0]
    BY <2>1, <2>2
  <2> HIDE DEF r, g, S
  <2>4. Prefix(q, keep, 0, r)
    <3>1. /\ Len(r) <= 0
          /\ \A j \in 1 .. 0 : q[j] \in keep => \E a \in 1 .. Len(r) : r[a] = q[j]
          /\ \A a, b \in 1 .. Len(r) : a < b => g[a] < g[b]
          /\ \A a \in 1 .. Len(r) : r[a] = q[g[a]] /\ r[a] \in keep
      BY <2>1, <2>2
    <3> QED BY <2>3, <3>1, Zenon DEF Prefix
  <2> QED BY <2>1, <2>4 DEF S
<1>5. ASSUME NEW n \in S PROVE n + 1 \in S
  <2> SUFFICES ASSUME n + 1 <= Len(q)
               PROVE  kept[n+1] \in Seq(E) /\ Prefix(q, keep, n + 1, kept[n+1])
    OBVIOUS
  <2>1. n \in Nat /\ Len(q) \in Nat /\ n + 1 \in 1 .. Len(q) /\ q[n+1] \in E
    OBVIOUS
  <2>2. kept[n] \in Seq(E) /\ Prefix(q, keep, n, kept[n])
    BY <2>1
  <2>3. kept[n+1] = IF q[n+1] \in keep THEN Append(kept[n], q[n+1]) ELSE kept[n]
    BY <1>3, <2>1
  <2> DEFINE r == kept[n]
  <2>4. PICK g \in [1 .. Len(r) -> 1 .. n] :
          /\ \A a, b \in 1 .. Len(r) : a < b => g[a] < g[b]
          /\ \A a \in 1 .. Len(r) : r[a] = q[g[a]] /\ r[a] \in keep
    BY <2>2 DEF Prefix
  <2>5. CASE q[n+1] \notin keep
    <3>1. g \in [1 .. Len(r) -> 1 .. n + 1]
      BY <2>1
    <3>2. \A j \in 1 .. n + 1 : q[j] \in keep => \E a \in 1 .. Len(r) : r[a] = q[j]
      <4>1. \A j \in 1 .. n : q[j] \in keep => \E a \in 1 .. Len(r) : r[a] = q[j]
        BY <2>2 DEF Prefix
      <4>2. \A j \in 1 .. n + 1 : j \in 1 .. n \/ j = n + 1
        BY <2>1
      <4> HIDE DEF r
      <4> QED BY <2>5, <4>1, <4>2, Zenon
    <3>3. Len(r) <= n + 1
      BY <2>1, <2>2 DEF Prefix
    <3>4. kept[n+1] = r /\ r \in Seq(E)
      BY <2>2, <2>3, <2>5
    <3> HIDE DEF S, r
    <3>5. Prefix(q, keep, n + 1, r)
      BY <2>4, <3>1, <3>2, <3>3, Zenon DEF Prefix
    <3> QED BY <3>4, <3>5
  <2>6. CASE q[n+1] \in keep
    <3> DEFINE s == Append(r, q[n+1])
               k == [a \in 1 .. Len(r) + 1 |-> IF a <= Len(r) THEN g[a] ELSE n + 1]
    <3>1. /\ s \in Seq(E) /\ Len(s) = Len(r) + 1
          /\ Len(r) \in Nat /\ s[Len(r) + 1] = q[n+1]
          /\ \A a \in 1 .. Len(r) : s[a] = r[a]
      BY <2>1, <2>2
    <3>2. kept[n+1] = s
      BY <2>3, <2>6
    <3> HIDE DEF S, s
    <3>3. k \in [1 .. Len(s) -> 1 .. n + 1]
      BY <2>1, <3>1
    <3>4. \A a, b \in 1 .. Len(s) : a < b => k[a] < k[b]
      <4> SUFFICES ASSUME NEW a \in 1 .. Len(s), NEW b \in 1 .. Len(s), a < b
                   PROVE  k[a] < k[b]
        OBVIOUS
      <4>1. a \in 1 .. Len(r) /\ k[a] = g[a] /\ g[a] \in 1 .. n
        <5>1. a \in 1 .. Len(r)
          BY <3>1
        <5>2. a <= Len(r) /\ a \in 1 .. Len(r) + 1
          BY <3>1, <5>1
        <5> QED BY <5>1, <5>2
      <4>2. CASE b \in 1 .. Len(r)
        <5>1. k[b] = g[b]
          BY <2>1, <3>1, <4>2
        <5> HIDE DEF k
        <5> QED BY <2>4, <4>1, <4>2, <5>1
      <4>3. CASE b = Len(r) + 1
        <5>1. k[b] = n + 1
          BY <2>1, <3>1, <4>3
        <5> HIDE DEF k
        <5> QED BY <2>1, <4>1, <5>1
      <4> QED BY <3>1, <4>2, <4>3
    <3>5. ASSUME NEW a \in 1 .. Len(s)
          PROVE  s[a] = q[k[a]] /\ s[a] \in keep
      <4>1. CASE a \in 1 .. Len(r)
        <5>1. a <= Len(r) /\ a \in 1 .. Len(r) + 1
          BY <3>1, <4>1
        <5>2. k[a] = g[a]
          BY <5>1
        <5> HIDE DEF k
        <5> QED BY <2>4, <3>1, <4>1, <5>2
      <4>2. CASE a = Len(r) + 1
        <5>1. k[a] = n + 1
          BY <2>1, <3>1, <4>2
        <5> HIDE DEF k
        <5> QED BY <2>6, <3>1, <4>2, <5>1
      <4> QED BY <3>1, <4>1, <4>2
    <3>6. \A j \in 1 .. n + 1 : q[j] \in keep => \E a \in 1 .. Len(s) : s[a] = q[j]
      <4> SUFFICES ASSUME NEW j \in 1 .. n + 1, q[j] \in keep
                   PROVE  \E a \in 1 .. Len(s) : s[a] = q[j]
        OBVIOUS
      <4>1. CASE j = n + 1
        BY <3>1, <4>1
      <4>2. CASE j \in 1 .. n
        <5>1. PICK a \in 1 .. Len(r) : r[a] = q[j]
          BY <2>2, <4>2 DEF Prefix
        <5>2. a \in 1 .. Len(s) /\ s[a] = q[j]
          BY <3>1, <5>1
        <5> QED BY <5>2
      <4> QED BY <2>1, <4>1, <4>2
    <3>7. Len(s) <= n + 1
      BY <2>1, <2>2, <3>1 DEF Prefix
    <3> HIDE DEF k
    <3>8. Prefix(q, keep, n + 1, s)
      BY <3>3, <3>4, <3>5, <3>6, <3>7, Zenon DEF Prefix
    <3> QED BY <3>1, <3>2, <3>8
  <2> QED BY <2>5, <2>6
<1>6. S = Nat
  <2> HIDE DEF S
  <2>1. S \in SUBSET Nat
    BY DEF S
  <2> QED BY <1>4, <1>5, <2>1, Induction
<1>7. Len(q) \in S
  BY <1>6
<1> QED BY <1>2, <1>7

-----------------------------------------------------------------------------
\* A later time is on a later day or the same.
LEMMA DaysPass ==
    ASSUME NEW s \in Nat, NEW t \in Nat, s <= t
    PROVE  R!Day(s) \in Nat /\ R!Day(t) \in Nat /\ R!Day(s) <= R!Day(t)
<1>1. SlotsPerDay \in Nat \ {0}
  BY ReportingAssumption
<1>2. s \div SlotsPerDay \in Nat /\ t \div SlotsPerDay \in Nat
  BY <1>1
<1>3. s \div SlotsPerDay <= t \div SlotsPerDay
  BY <1>1
<1> QED BY <1>2, <1>3 DEF R!Day

\* A document carries a slot number of its day.
LEMMA SlotTyped == ASSUME NEW t \in Nat PROVE R!Slot(t) \in R!Slots
BY ReportingAssumption DEF R!Slot, R!Slots

\* Every instant up to the bound has its day.
LEMMA TimesTyped ==
    /\ R!Times \subseteq Nat
    /\ \A t \in R!Times : R!Day(t) \in R!Days /\ R!Day(t) \in Nat
<1>1. R!Times \subseteq Nat
  BY DEF R!Times
<1>2. ASSUME NEW t \in R!Times PROVE R!Day(t) \in R!Days /\ R!Day(t) \in Nat
  <2>1. t \in Nat /\ LastTime \in Nat /\ 0 <= t /\ t <= LastTime
    BY ReportingAssumption DEF R!Times
  <2>2. /\ R!Day(0) <= R!Day(t) /\ R!Day(t) <= R!Day(LastTime)
        /\ R!Day(0) \in Nat /\ R!Day(t) \in Nat /\ R!Day(LastTime) \in Nat
    BY <2>1, DaysPass
  <2> QED BY <2>2 DEF R!Days
<1> QED BY <1>1, <1>2

\* What an entry of the queue is made of.
LEMMA EntriesTyped ==
    ASSUME NEW e \in R!QueuedSlot
    PROVE  /\ e.utc_date \in Nat /\ e.doc \in R!Docs /\ e.doc.ver \in Nat
           /\ R!Slot(e.doc.born) \in R!Slots
           /\ e = [utc_date |-> e.utc_date, doc |-> e.doc]
<1>1. /\ e.doc \in R!Docs /\ e.doc.born \in R!Times
      /\ e.doc.ver \in 1 .. MaxVer /\ e.utc_date \in R!Days
  BY DEF R!QueuedSlot, R!Docs
<1>2. R!Day(0) \in Nat
  BY DaysPass
<1>3. R!Day(LastTime) \in Nat
  BY DaysPass, ReportingAssumption
<1>4. e.utc_date \in Nat
  BY <1>1, <1>2, <1>3 DEF R!Days
<1>5. e = [utc_date |-> e.utc_date, doc |-> e.doc]
  BY DEF R!QueuedSlot
<1> QED BY <1>1, <1>4, <1>5, SlotTyped, TimesTyped

-----------------------------------------------------------------------------
\* One entry per slot, in the order of their days, none of a later day than d
\* and none of a later version than v.
Fine(s, d, v) ==
    /\ \A i, j \in 1 .. Len(s) : R!SameSlot(s[i], s[j].utc_date, s[j].doc) => i = j
    /\ \A i, j \in 1 .. Len(s) : i <= j => s[i].utc_date <= s[j].utc_date
    /\ \A i \in 1 .. Len(s) : s[i].utc_date <= d /\ s[i].doc.ver <= v

\* r is s without some of its entries.
Thinned(r, s) ==
    \E g \in [1 .. Len(r) -> 1 .. Len(s)] :
        /\ \A a, b \in 1 .. Len(r) : a < b => g[a] < g[b]
        /\ \A a \in 1 .. Len(r) : r[a] = s[g[a]]

\* What a queue keeps of these when entries leave it.
LEMMA ThinnedIsFine ==
    ASSUME NEW s \in Seq(R!QueuedSlot), NEW r \in Seq(R!QueuedSlot),
           NEW d, NEW v, Fine(s, d, v), Thinned(r, s)
    PROVE  Fine(r, d, v)
<1>1. PICK g \in [1 .. Len(r) -> 1 .. Len(s)] :
        /\ \A a, b \in 1 .. Len(r) : a < b => g[a] < g[b]
        /\ \A a \in 1 .. Len(r) : r[a] = s[g[a]]
  BY DEF Thinned
<1>2. ASSUME NEW a \in 1 .. Len(r), NEW b \in 1 .. Len(r)
      PROVE  /\ g[a] \in 1 .. Len(s) /\ g[b] \in 1 .. Len(s)
             /\ g[a] = g[b] => a = b
             /\ a <= b => g[a] <= g[b]
  <2>1. a < b \/ b < a \/ a = b
    OBVIOUS
  <2>2. g[a] \in Int /\ g[b] \in Int
    OBVIOUS
  <2>3. a < b => g[a] < g[b]
    BY <1>1
  <2>4. b < a => g[b] < g[a]
    BY <1>1
  <2> QED BY <2>1, <2>2, <2>3, <2>4
<1>3. ASSUME NEW i \in 1 .. Len(r), NEW j \in 1 .. Len(r),
             R!SameSlot(r[i], r[j].utc_date, r[j].doc)
      PROVE  i = j
  <2>1. r[i] = s[g[i]] /\ r[j] = s[g[j]]
    BY <1>1
  <2>2. g[i] = g[j]
    BY <1>2, <1>3, <2>1 DEF Fine
  <2> QED BY <1>2, <2>2
<1>4. ASSUME NEW i \in 1 .. Len(r), NEW j \in 1 .. Len(r), i <= j
      PROVE  r[i].utc_date <= r[j].utc_date
  BY <1>1, <1>2, <1>4 DEF Fine
<1>5. ASSUME NEW i \in 1 .. Len(r)
      PROVE  r[i].utc_date <= d /\ r[i].doc.ver <= v
  BY <1>1, <1>2 DEF Fine
<1> QED BY <1>3, <1>4, <1>5 DEF Fine

\* Retain in these terms.
LEMMA RetainThins ==
    ASSUME NEW q \in Seq(R!QueuedSlot), NEW keep
    PROVE  LET r == R!Retain(q, keep)
           IN  /\ r \in Seq(R!QueuedSlot) /\ Len(r) \in 0 .. Len(q) /\ Thinned(r, q)
               /\ \A a \in 1 .. Len(r) : r[a] \in keep
               /\ \A j \in 1 .. Len(q) : q[j] \in keep => \E a \in 1 .. Len(r) : r[a] = q[j]
<1> DEFINE r == R!Retain(q, keep)
<1>1. r \in Seq(R!QueuedSlot) /\ Prefix(q, keep, Len(q), r)
  BY RetainFacts
<1>2. Len(r) \in 0 .. Len(q)
  BY <1>1 DEF Prefix
<1> HIDE DEF r
<1>3. Thinned(r, q)
  BY <1>1 DEF Prefix, Thinned
<1>4. \A a \in 1 .. Len(r) : r[a] \in keep
  BY <1>1 DEF Prefix
<1>5. \A j \in 1 .. Len(q) : q[j] \in keep => \E a \in 1 .. Len(r) : r[a] = q[j]
  BY <1>1, Zenon DEF Prefix
<1> QED BY <1>1, <1>2, <1>3, <1>4, <1>5 DEF r

\* A stretch of s is s thinned.
LEMMA StretchThins ==
    ASSUME NEW s \in Seq(R!QueuedSlot), NEW m \in 1 .. Len(s) + 1,
           NEW n \in 0 .. Len(s),
           m <= n + 1
    PROVE  LET r == SubSeq(s, m, n)
           IN  /\ r \in Seq(R!QueuedSlot) /\ Len(r) = n - m + 1
               /\ \A a \in 1 .. Len(r) : r[a] = s[a + m - 1]
               /\ Thinned(r, s)
<1> DEFINE r == SubSeq(s, m, n)
           g == [a \in 1 .. Len(r) |-> a + m - 1]
<1>1. r \in Seq(R!QueuedSlot) /\ Len(r) = n - m + 1
  OBVIOUS
<1>2. \A a \in 1 .. Len(r) : r[a] = s[a + m - 1]
  BY <1>1
<1> HIDE DEF r
<1>3. \A a \in 1 .. Len(r) : a + m - 1 \in 1 .. Len(s)
  BY <1>1
<1>4. g \in [1 .. Len(r) -> 1 .. Len(s)]
  BY <1>3
<1>5. \A a, b \in 1 .. Len(r) : a < b => g[a] < g[b]
  BY <1>1
<1>6. \A a \in 1 .. Len(r) : r[a] = s[g[a]]
  BY <1>2
<1>7. Thinned(r, s)
  <2> HIDE DEF g
  <2> QED BY <1>4, <1>5, <1>6, Zenon DEF Thinned
<1> QED BY <1>1, <1>2, <1>7 DEF r

\* The backlog is batch and queue, one behind the other.
LEMMA Joined ==
    ASSUME NEW b \in Seq(R!QueuedSlot), NEW q \in Seq(R!QueuedSlot)
    PROVE  /\ b \o q \in Seq(R!QueuedSlot) /\ Len(b \o q) = Len(b) + Len(q)
           /\ \A i \in 1 .. Len(b) : (b \o q)[i] = b[i]
           /\ \A i \in 1 .. Len(q) : (b \o q)[Len(b) + i] = q[i]
           /\ <<>> \o q = q
OBVIOUS

\* What has been resubmitted leaves at the front.
LEMMA FrontLeaves ==
    ASSUME NEW b \in Seq(R!QueuedSlot), NEW q \in Seq(R!QueuedSlot), b # <<>>
    PROVE  Tail(b) \o q \in Seq(R!QueuedSlot) /\ Thinned(Tail(b) \o q, b \o q)
<1>1. Tail(b) \o q = SubSeq(b \o q, 2, Len(b \o q))
  OBVIOUS
<1>2. /\ 2 \in 1 .. Len(b \o q) + 1 /\ Len(b \o q) \in 0 .. Len(b \o q)
      /\ 2 <= Len(b \o q) + 1
  OBVIOUS
<1> DEFINE s == b \o q
<1>3. s \in Seq(R!QueuedSlot)
  OBVIOUS
<1> HIDE DEF s
<1>4. /\ SubSeq(s, 2, Len(s)) \in Seq(R!QueuedSlot)
      /\ Thinned(SubSeq(s, 2, Len(s)), s)
  BY <1>2, <1>3, StretchThins DEF s
<1> QED BY <1>1, <1>4 DEF s

\* A failed drain puts its entry back and drops those behind it.
LEMMA RestIsDropped ==
    ASSUME NEW b \in Seq(R!QueuedSlot), NEW q \in Seq(R!QueuedSlot), b # <<>>
    PROVE  LET r == <<Head(b)>> \o q
           IN  /\ r \in Seq(R!QueuedSlot) /\ Len(r) = Len(q) + 1 /\ r[1] = Head(b)
               /\ Thinned(r, b \o q)
<1> DEFINE r == <<Head(b)>> \o q
           g == [a \in 1 .. Len(r) |-> IF a = 1 THEN 1 ELSE Len(b) + a - 1]
<1>1. /\ r \in Seq(R!QueuedSlot) /\ Len(r) = Len(q) + 1 /\ r[1] = Head(b)
      /\ \A a \in 2 .. Len(r) : r[a] = q[a - 1]
  OBVIOUS
<1> HIDE DEF r
<1>2. Len(b) \in Nat \ {0} /\ Len(q) \in Nat /\ Len(b \o q) = Len(b) + Len(q)
  OBVIOUS
<1>3. g \in [1 .. Len(r) -> 1 .. Len(b \o q)]
  BY <1>1, <1>2
<1>4. \A a, c \in 1 .. Len(r) : a < c => g[a] < g[c]
  BY <1>1, <1>2
<1>5. \A a \in 1 .. Len(r) : r[a] = (b \o q)[g[a]]
  <2> SUFFICES ASSUME NEW a \in 1 .. Len(r) PROVE r[a] = (b \o q)[g[a]]
    OBVIOUS
  <2>1. CASE a = 1
    <3>1. g[a] = 1 /\ 1 \in 1 .. Len(b) /\ (b \o q)[1] = b[1] /\ r[a] = b[1]
      BY <1>1, <1>2, <2>1, Joined
    <3> QED BY <3>1
  <2>2. CASE a # 1
    <3>1. a \in 2 .. Len(r) /\ a - 1 \in 1 .. Len(q)
      BY <1>1, <1>2, <2>2
    <3>2. g[a] = Len(b) + (a - 1)
      BY <1>2, <2>2
    <3>3. (b \o q)[Len(b) + (a - 1)] = q[a - 1]
      BY <3>1, Joined
    <3> QED BY <1>1, <3>1, <3>2, <3>3
  <2> QED BY <2>1, <2>2
<1>6. Thinned(r, b \o q)
  <2> HIDE DEF g
  <2> QED BY <1>3, <1>4, <1>5, Zenon DEF Thinned
<1> QED BY <1>1, <1>6 DEF r

-----------------------------------------------------------------------------
\* A full queue of one day would have more entries than the day has slots.
LEMMA DayFits ==
    ASSUME NEW s \in Seq(R!QueuedSlot), NEW d, NEW v, Fine(s, d, v), Len(s) > Cap
    PROVE  s[1].utc_date # d
<1> SUFFICES ASSUME s[1].utc_date = d PROVE FALSE
  OBVIOUS
<1>1. Len(s) \in Nat /\ Cap \in Nat /\ SlotsPerDay \in Nat /\ SlotsPerDay < Len(s)
  BY RoomForADay, ReportingAssumption
<1>2. \A i \in 1 .. Len(s) : s[i] \in R!QueuedSlot /\ s[i].utc_date \in Nat
                             /\ R!Slot(s[i].doc.born) \in R!Slots
  <2>1. \A i \in 1 .. Len(s) : s[i] \in R!QueuedSlot
    OBVIOUS
  <2> QED BY <2>1, EntriesTyped
<1>3. \A i \in 1 .. Len(s) : s[i].utc_date = d
  <2> SUFFICES ASSUME NEW i \in 1 .. Len(s) PROVE s[i].utc_date = d
    OBVIOUS
  <2>1. 1 \in 1 .. Len(s) /\ 1 <= i
    BY <1>1
  <2>2. s[1].utc_date <= s[i].utc_date /\ s[i].utc_date <= d
    BY <2>1 DEF Fine
  <2>3. s[1].utc_date \in Nat /\ s[i].utc_date \in Nat
    BY <1>2, <2>1
  <2> QED BY <2>2, <2>3
<1> DEFINE f == [i \in 1 .. Len(s) |-> R!Slot(s[i].doc.born)]
<1>4. f \in [1 .. Len(s) -> 0 .. SlotsPerDay - 1]
  BY <1>2 DEF R!Slots
<1>5. /\ IsFiniteSet(1 .. Len(s)) /\ Cardinality(1 .. Len(s)) = Len(s)
      /\ IsFiniteSet(0 .. SlotsPerDay - 1)
      /\ Cardinality(0 .. SlotsPerDay - 1) = SlotsPerDay
  <2>1. Len(s) >= 1 /\ SlotsPerDay >= 1
    BY <1>1, ReportingAssumption
  <2>2. /\ IsFiniteSet(1 .. Len(s))
        /\ Cardinality(1 .. Len(s)) = IF 1 > Len(s) THEN 0 ELSE Len(s) - 1 + 1
    BY <1>1, FS_Interval
  <2>3. /\ IsFiniteSet(0 .. SlotsPerDay - 1)
        /\ Cardinality(0 .. SlotsPerDay - 1)
             = IF 0 > SlotsPerDay - 1 THEN 0 ELSE SlotsPerDay - 1 - 0 + 1
    <3>1. 0 \in Int /\ SlotsPerDay - 1 \in Int
      BY <1>1
    <3> QED BY <3>1, FS_Interval
  <2> QED BY <1>1, <2>1, <2>2, <2>3
<1>6. \E i, j \in 1 .. Len(s) : i # j /\ f[i] = f[j]
  <2> HIDE DEF f
  <2>1. Cardinality(0 .. SlotsPerDay - 1) < Cardinality(1 .. Len(s))
    BY <1>1, <1>5
  <2> QED BY <1>4, <1>5, <2>1, FS_PigeonHole
<1>7. PICK i \in 1 .. Len(s), j \in 1 .. Len(s) : i # j /\ f[i] = f[j]
  BY <1>6
<1>8. R!SameSlot(s[i], s[j].utc_date, s[j].doc)
  BY <1>3, <1>7 DEF R!SameSlot
<1> QED BY <1>7, <1>8 DEF Fine

\* What push owes: one entry per slot remains, the new one is among them, and
\* of the day it is queued under only the entry it replaces is gone.
PushedOnto(q, date, doc, pushed) ==
    /\ pushed \in Seq(R!QueuedSlot) /\ Len(pushed) <= Cap
    /\ Fine(pushed, date, doc.ver)
    /\ \E a \in 1 .. Len(pushed) : pushed[a] = [utc_date |-> date, doc |-> doc]
    /\ \A j \in 1 .. Len(q) : \/ R!SameSlot(q[j], date, doc)
                              \/ \E a \in 1 .. Len(pushed) : pushed[a] = q[j]
                              \/ q[j].utc_date # date

\* PocRetryQueue::push pays it.
LEMMA PushFacts ==
    ASSUME NEW q \in Seq(R!QueuedSlot), Len(q) <= Cap, NEW date \in R!Days,
           NEW doc \in R!Docs, NEW v \in Nat, v <= doc.ver, Fine(q, date, v)
    PROVE  PushedOnto(q, date, doc, R!Push(q, date, doc))
<1> DEFINE new == [utc_date |-> date, doc |-> doc]
           keep == {e \in R!QueuedSlot : ~R!SameSlot(e, date, doc)}
           r == R!Retain(q, keep)
           s == Append(r, new)
           p == R!PopFront(s)
<1>1. new \in R!QueuedSlot /\ new.utc_date = date /\ new.doc = doc
  BY DEF R!QueuedSlot
<1>2. date \in Nat /\ doc.ver \in Nat
  BY <1>1, EntriesTyped
<1> HIDE DEF keep, new
<1>3. /\ r \in Seq(R!QueuedSlot) /\ Len(r) \in 0 .. Len(q) /\ Thinned(r, q)
      /\ \A a \in 1 .. Len(r) : r[a] \in keep
      /\ \A j \in 1 .. Len(q) : q[j] \in keep => \E a \in 1 .. Len(r) : r[a] = q[j]
  BY RetainThins
<1>4. Fine(r, date, v)
  BY <1>3, ThinnedIsFine
<1> HIDE DEF r
<1>5. /\ s \in Seq(R!QueuedSlot) /\ Len(s) = Len(r) + 1 /\ s[Len(s)] = new
      /\ \A a \in 1 .. Len(r) : s[a] = r[a]
  BY <1>1, <1>3
<1>6. /\ Len(r) \in Nat /\ Len(q) \in Nat /\ Cap \in Nat
      /\ Cap >= 1 /\ Len(s) <= Cap + 1
  BY <1>3, <1>5, RoomForADay, ReportingAssumption
<1> HIDE DEF s
<1>7. Fine(s, date, doc.ver)
  <2>1. \A a \in 1 .. Len(s) : a \in 1 .. Len(r) \/ a = Len(s)
    BY <1>5, <1>6
  <2>2. \A a \in 1 .. Len(r) :
           /\ s[a] = r[a] /\ ~R!SameSlot(r[a], date, doc) /\ r[a] \in R!QueuedSlot
           /\ r[a].utc_date <= date /\ r[a].doc.ver <= v /\ r[a].doc.ver \in Nat
    BY <1>3, <1>4, <1>5, EntriesTyped DEF keep, Fine
  <2>3. \A a \in 1 .. Len(r) : s[a].utc_date <= date /\ s[a].doc.ver <= doc.ver
    BY <1>2, <2>2
  <2>4. s[Len(s)].utc_date = date /\ s[Len(s)].doc = doc
    BY <1>1, <1>5
  <2>5. ASSUME NEW i \in 1 .. Len(s), NEW j \in 1 .. Len(s),
               R!SameSlot(s[i], s[j].utc_date, s[j].doc)
        PROVE  i = j
    <3>1. CASE i \in 1 .. Len(r) /\ j \in 1 .. Len(r)
      BY <1>4, <2>2, <2>5, <3>1 DEF Fine
    <3>2. CASE i \in 1 .. Len(r) /\ j = Len(s)
      BY <2>2, <2>4, <2>5, <3>2
    <3>3. CASE i = Len(s) /\ j \in 1 .. Len(r)
      BY <2>2, <2>4, <2>5, <3>3 DEF R!SameSlot
    <3> QED BY <2>1, <3>1, <3>2, <3>3
  <2>6. ASSUME NEW i \in 1 .. Len(s), NEW j \in 1 .. Len(s), i <= j
        PROVE  s[i].utc_date <= s[j].utc_date
    <3>1. CASE j \in 1 .. Len(r)
      <4>1. i \in 1 .. Len(r)
        BY <1>6, <2>6, <3>1
      <4> QED BY <1>4, <2>2, <2>6, <3>1, <4>1 DEF Fine
    <3>2. CASE j = Len(s)
      BY <1>2, <2>1, <2>3, <2>4, <3>2
    <3> QED BY <2>1, <3>1, <3>2
  <2>7. \A i \in 1 .. Len(s) : s[i].utc_date <= date /\ s[i].doc.ver <= doc.ver
    BY <1>2, <2>1, <2>3, <2>4
  <2> QED BY <2>5, <2>6, <2>7 DEF Fine
<1>8. \A j \in 1 .. Len(q) : R!SameSlot(q[j], date, doc)
                             \/ \E a \in 1 .. Len(s) : s[a] = q[j]
  <2> SUFFICES ASSUME NEW j \in 1 .. Len(q), ~R!SameSlot(q[j], date, doc)
               PROVE  \E a \in 1 .. Len(s) : s[a] = q[j]
    OBVIOUS
  <2>1. q[j] \in keep
    BY DEF keep
  <2>2. PICK a \in 1 .. Len(r) : r[a] = q[j]
    BY <1>3, <2>1
  <2>3. a \in 1 .. Len(s) /\ s[a] = q[j]
    BY <1>5, <1>6, <2>2
  <2> QED BY <2>3
<1>9. R!Push(q, date, doc) = p
  BY DEF R!Push, p, s, r, keep, new
<1>10. CASE Len(s) <= Cap
  <2>1. p = s
    BY <1>10, <1>5, <1>6 DEF R!PopFront
  <2>2. Len(s) \in 1 .. Len(s)
    BY <1>5, <1>6
  <2> HIDE DEF p
  <2>3. p \in Seq(R!QueuedSlot) /\ Len(p) <= Cap /\ Fine(p, date, doc.ver)
    BY <1>5, <1>7, <1>10, <2>1
  <2>4. \E a \in 1 .. Len(p) : p[a] = new
    BY <1>5, <2>1, <2>2
  <2>5. \A j \in 1 .. Len(q) : R!SameSlot(q[j], date, doc)
                               \/ \E a \in 1 .. Len(p) : p[a] = q[j]
    BY <1>8, <2>1
  <2> QED BY <1>9, <2>3, <2>4, <2>5 DEF PushedOnto, new
<1>11. CASE Len(s) > Cap
  <2>1. Len(s) = Cap + 1 /\ p = SubSeq(s, 2, Len(s))
    BY <1>5, <1>6, <1>11 DEF R!PopFront
  <2>2. /\ p \in Seq(R!QueuedSlot) /\ Len(p) = Len(s) - 2 + 1
        /\ \A a \in 1 .. Len(p) : p[a] = s[a + 2 - 1]
        /\ Thinned(p, s)
    <3>1. 2 \in 1 .. Len(s) + 1 /\ Len(s) \in 0 .. Len(s) /\ 2 <= Len(s) + 1
      BY <1>6, <2>1
    <3> QED BY <1>5, <2>1, <3>1, StretchThins
  <2>3. Fine(p, date, doc.ver)
    BY <1>5, <1>7, <2>2, ThinnedIsFine
  <2>4. s[1].utc_date # date
    BY <1>5, <1>7, <1>11, DayFits
  <2> HIDE DEF p
  <2>5. Len(p) = Cap
    BY <1>6, <2>1, <2>2
  <2>6. \A a \in 2 .. Len(s) : a - 1 \in 1 .. Len(p) /\ p[a - 1] = s[a]
    BY <1>6, <2>1, <2>2, <2>5
  <2>7. \E a \in 1 .. Len(p) : p[a] = new
    <3>1. Len(s) \in 2 .. Len(s)
      BY <1>6, <2>1
    <3> QED BY <1>5, <2>6, <3>1
  <2>8. ASSUME NEW j \in 1 .. Len(q)
        PROVE  \/ R!SameSlot(q[j], date, doc)
               \/ \E a \in 1 .. Len(p) : p[a] = q[j]
               \/ q[j].utc_date # date
    <3> SUFFICES ASSUME ~R!SameSlot(q[j], date, doc)
                 PROVE  \/ \E a \in 1 .. Len(p) : p[a] = q[j]
                        \/ q[j].utc_date # date
      OBVIOUS
    <3>1. PICK a \in 1 .. Len(s) : s[a] = q[j]
      BY <1>8
    <3>2. CASE a = 1
      BY <2>4, <3>1, <3>2
    <3>3. CASE a # 1
      <4>1. a \in 2 .. Len(s)
        BY <1>6, <2>1, <3>3
      <4> QED BY <2>6, <3>1, <4>1
    <3> QED BY <3>2, <3>3
  <2>9. Len(p) <= Cap
    BY <1>6, <2>5
  <2> QED BY <1>9, <2>2, <2>3, <2>7, <2>8, <2>9 DEF PushedOnto, new
<1> QED BY <1>5, <1>6, <1>10, <1>11

\* What take_batch owes: what it hands out and what it leaves are, one behind
\* the other, the entries of today.
TakenFrom(q, today, taken, left) ==
    /\ taken \in Seq(R!QueuedSlot) /\ Len(taken) <= BatchMax
    /\ left \in Seq(R!QueuedSlot) /\ Len(left) <= Len(q)
    /\ taken \o left \in Seq(R!QueuedSlot) /\ Thinned(taken \o left, q)
    /\ \A j \in 1 .. Len(q) : q[j].utc_date = today
          => \E a \in 1 .. Len(taken \o left) : (taken \o left)[a] = q[j]

\* PocRetryQueue::take_batch pays it.
LEMMA TakeFacts ==
    ASSUME NEW q \in Seq(R!QueuedSlot), NEW today
    PROVE  TakenFrom(q, today, R!Taken(q, today), R!Left(q, today))
<1> DEFINE keep == {e \in R!QueuedSlot : e.utc_date = today}
           s == R!OfDay(q, today)
           n == R!BatchSize(s)
           t == SubSeq(s, 1, n)
           l == SubSeq(s, n + 1, Len(s))
<1>1. /\ s \in Seq(R!QueuedSlot) /\ Len(s) \in 0 .. Len(q) /\ Thinned(s, q)
      /\ \A j \in 1 .. Len(q) : q[j] \in keep => \E a \in 1 .. Len(s) : s[a] = q[j]
  <2> DEFINE r == R!Retain(q, keep)
  <2>1. s = r
    BY DEF R!OfDay
  <2> HIDE DEF keep, s
  <2>2. /\ r \in Seq(R!QueuedSlot) /\ Len(r) \in 0 .. Len(q) /\ Thinned(r, q)
        /\ \A j \in 1 .. Len(q) : q[j] \in keep => \E a \in 1 .. Len(r) : r[a] = q[j]
    BY RetainThins
  <2> HIDE DEF r
  <2> QED BY <2>1, <2>2
<1>2. \A j \in 1 .. Len(q) : q[j].utc_date = today => q[j] \in keep
  OBVIOUS
<1> HIDE DEF s, keep
<1>3. /\ Len(s) \in Nat /\ Len(q) \in Nat /\ n \in 0 .. Len(s) /\ n <= BatchMax
  BY <1>1, ReportingAssumption DEF R!BatchSize
<1> HIDE DEF n
<1>4. /\ t \in Seq(R!QueuedSlot) /\ l \in Seq(R!QueuedSlot)
      /\ Len(t) = n /\ Len(l) = Len(s) - n /\ t \o l = s
  <2>1. /\ t \in Seq(R!QueuedSlot) /\ Len(t) = n
        /\ \A a \in 1 .. n : t[a] = s[a]
    <3>1. 1 \in 1 .. Len(s) + 1 /\ 1 <= n + 1
      BY <1>3
    <3>2. /\ t \in Seq(R!QueuedSlot) /\ Len(t) = n - 1 + 1
          /\ \A a \in 1 .. Len(t) : t[a] = s[a + 1 - 1]
      BY <1>1, <1>3, <3>1, StretchThins
    <3> HIDE DEF t
    <3> QED BY <1>3, <3>2
  <2>2. /\ l \in Seq(R!QueuedSlot) /\ Len(l) = Len(s) - n
        /\ \A a \in 1 .. Len(l) : l[a] = s[n + a]
    <3>1. n + 1 \in 1 .. Len(s) + 1 /\ Len(s) \in 0 .. Len(s) /\ n + 1 <= Len(s) + 1
      BY <1>3
    <3>2. /\ l \in Seq(R!QueuedSlot) /\ Len(l) = Len(s) - (n + 1) + 1
          /\ \A a \in 1 .. Len(l) : l[a] = s[a + (n + 1) - 1]
      BY <1>1, <1>3, <3>1, StretchThins
    <3> HIDE DEF l
    <3>3. \A a \in 1 .. Len(l) : a + (n + 1) - 1 = n + a
      BY <1>3
    <3> QED BY <1>3, <3>2, <3>3
  <2> HIDE DEF t, l
  <2>3. t \o l \in Seq(R!QueuedSlot) /\ Len(t \o l) = Len(s)
    <3>1. t \o l \in Seq(R!QueuedSlot) /\ Len(t \o l) = Len(t) + Len(l)
      BY <2>1, <2>2, Joined
    <3> QED BY <1>3, <2>1, <2>2, <3>1
  <2>4. ASSUME NEW a \in 1 .. Len(s) PROVE (t \o l)[a] = s[a]
    <3>1. CASE a \in 1 .. n
      BY <2>1, <2>2, <3>1, Joined
    <3>2. CASE a \notin 1 .. n
      <4>1. a - n \in 1 .. Len(l) /\ n + (a - n) = a
        BY <1>3, <2>2, <3>2
      <4> QED BY <2>1, <2>2, <4>1, Joined
    <3> QED BY <3>1, <3>2
  <2>5. t \o l = s
    <3> DEFINE u == t \o l
    <3>1. /\ u \in Seq(R!QueuedSlot) /\ Len(u) = Len(s)
          /\ \A a \in 1 .. Len(s) : u[a] = s[a]
      BY <2>3, <2>4
    <3> HIDE DEF u
    <3>2. u = s
      BY <1>1, <3>1, SeqEqual
    <3> QED BY <3>2 DEF u
  <2> QED BY <2>1, <2>2, <2>5
<1>5. R!Taken(q, today) = t /\ R!Left(q, today) = l
  BY DEF R!Taken, R!Left, s, n
<1>6. Len(t) <= BatchMax /\ Len(l) <= Len(q)
  <2> HIDE DEF t, l
  <2> QED BY <1>1, <1>3, <1>4
<1> HIDE DEF t, l
<1>7. \A j \in 1 .. Len(q) : q[j].utc_date = today => \E a \in 1 .. Len(s) : s[a] = q[j]
  BY <1>1, <1>2
<1>8. TakenFrom(q, today, t, l)
  BY <1>1, <1>4, <1>6, <1>7 DEF TakenFrom
<1> QED BY <1>5, <1>8

\* PocRetryQueue::requeue: the entry is first again.
LEMMA RequeueFacts ==
    ASSUME NEW b \in Seq(R!QueuedSlot), b # <<>>, NEW q \in Seq(R!QueuedSlot),
           NEW d, NEW v, Fine(b \o q, d, v)
    PROVE  LET p == R!Requeue(q, Head(b))
           IN  /\ p \in Seq(R!QueuedSlot) /\ Len(p) <= Cap /\ Fine(p, d, v)
               /\ \E a \in 1 .. Len(p) : p[a] = Head(b)
<1> DEFINE r == <<Head(b)>> \o q
           p == R!PopBack(r)
<1>1. /\ r \in Seq(R!QueuedSlot) /\ Len(r) = Len(q) + 1 /\ r[1] = Head(b)
      /\ Thinned(r, b \o q)
  BY RestIsDropped
<1>2. Fine(r, d, v)
  BY <1>1, Joined, ThinnedIsFine
<1>3. R!Requeue(q, Head(b)) = p
  BY DEF R!Requeue
<1> HIDE DEF r
<1>4. Len(r) \in Nat /\ Len(r) >= 1 /\ Cap \in Nat /\ Cap >= 1
  BY <1>1, RoomForADay, ReportingAssumption
<1>5. CASE Len(r) <= Cap
  <2>1. p = r /\ 1 \in 1 .. Len(r)
    BY <1>4, <1>5 DEF R!PopBack
  <2> HIDE DEF p
  <2> QED BY <1>1, <1>2, <1>3, <1>5, <2>1
<1>6. CASE Len(r) > Cap
  <2>1. p = SubSeq(r, 1, Cap)
    BY <1>4, <1>6 DEF R!PopBack
  <2>2. 1 \in 1 .. Len(r) + 1 /\ Cap \in 0 .. Len(r) /\ 1 <= Cap + 1
    BY <1>4, <1>6
  <2>3. /\ p \in Seq(R!QueuedSlot) /\ Len(p) = Cap - 1 + 1
        /\ \A a \in 1 .. Len(p) : p[a] = r[a + 1 - 1]
        /\ Thinned(p, r)
    BY <1>1, <2>1, <2>2, StretchThins
  <2>4. Fine(p, d, v)
    BY <1>1, <1>2, <2>3, ThinnedIsFine
  <2> HIDE DEF p
  <2>5. 1 \in 1 .. Len(p) /\ Len(p) <= Cap /\ p[1] = r[1]
    BY <1>4, <2>3
  <2> QED BY <1>1, <1>3, <2>3, <2>4, <2>5
<1> QED BY <1>4, <1>5, <1>6

-----------------------------------------------------------------------------
\* Between ticks nothing is out for resubmission; the backlog is in order, and
\* no document in it is newer than the one of the tick.
ReportInv ==
    /\ R!TypeOK
    /\ pc = "drain" <=> batch # <<>>
    /\ pc # "idle" => cur.ver = built
    /\ Fine(R!Backlog, R!Day(now), built)

\* What is in order today, with the versions so far, is so later.
LEMMA FineLater ==
    ASSUME NEW s \in Seq(R!QueuedSlot), NEW d \in Nat, NEW v \in Nat, Fine(s, d, v),
           NEW e \in Nat, d <= e, NEW w \in Nat, v <= w
    PROVE  Fine(s, e, w)
<1>1. ASSUME NEW i \in 1 .. Len(s) PROVE s[i].utc_date <= e /\ s[i].doc.ver <= w
  <2>1. s[i] \in R!QueuedSlot
    OBVIOUS
  <2>2. s[i].utc_date \in Nat /\ s[i].doc.ver \in Nat
    BY <2>1, EntriesTyped
  <2>3. s[i].utc_date <= d /\ s[i].doc.ver <= v
    BY DEF Fine
  <2> QED BY <2>2, <2>3
<1> QED BY <1>1 DEF Fine

\* The backlog begins empty.
LEMMA ReportBegins == R!Init => ReportInv
<1> SUFFICES ASSUME R!Init PROVE ReportInv
  OBVIOUS
<1>1. /\ 0 \in R!Times /\ R!Day(0) \in R!Days
      /\ MaxVer \in Nat \ {0} /\ Cap \in Nat /\ BatchMax \in Nat
  BY TimesTyped, ReportingAssumption, RoomForADay DEF R!Times
<1>2. R!Backlog = <<>> /\ Len(R!Backlog) = 0
  BY DEF R!Init, R!Backlog
<1>3. Fine(R!Backlog, R!Day(now), built)
  <2> DEFINE b == R!Backlog
  <2>1. 1 .. Len(b) = {}
    BY <1>2
  <2> HIDE DEF b
  <2>2. Fine(b, R!Day(now), built)
    BY <2>1, Zenon DEF Fine
  <2> QED BY <2>2 DEF b
<1>4. R!TypeOK
  <2>1. server \in R!Ledger /\ cur \in R!Docs
    BY <1>1 DEF R!Init, R!Ledger, R!Docs
  <2> QED BY <1>1, <2>1 DEF R!Init, R!TypeOK, R!Answers
<1> QED BY <1>3, <1>4 DEF R!Init, ReportInv

\* A PUT files a document under a slot of the day on which it arrives.
LEMMA PutTyped ==
    ASSUME R!TypeOK, NEW doc \in R!Docs, NEW answer, R!Put(doc, answer)
    PROVE  /\ server' \in R!Ledger /\ answer \in R!Answers
           /\ answer = "ok" => server'[R!Day(now)][R!Slot(doc.born)] = doc
<1>1. R!Day(now) \in R!Days /\ doc.born \in R!Times /\ R!Slot(doc.born) \in R!Slots
  BY TimesTyped, SlotTyped DEF R!TypeOK, R!Docs
<1>2. answer \in R!Answers
  BY DEF R!Put, R!Answers
<1>3. CASE server' = [server EXCEPT ![R!Day(now)][R!Slot(doc.born)] = doc]
  BY <1>1, <1>2, <1>3 DEF R!TypeOK, R!Ledger
<1>4. CASE answer # "ok" /\ UNCHANGED server
  BY <1>2, <1>4 DEF R!TypeOK
<1> QED BY <1>3, <1>4 DEF R!Put

\* The steps of a tick before it settles, and the surroundings.
LEMMA ReportQuiet ==
    ASSUME ReportInv,
           \/ R!TickStart \/ R!Submit \/ R!Resubmit \/ R!SubmitRecovered
           \/ R!ClockAdvances \/ R!ApiHeals \/ R!RegistrationChanges
    PROVE  ReportInv' /\ UNCHANGED <<batch, queue>>
<1>1. /\ R!TypeOK /\ now \in Nat /\ R!Day(now) \in Nat
      /\ built \in Nat /\ MaxVer \in Nat \ {0}
      /\ R!Backlog \in Seq(R!QueuedSlot)
  BY Joined, TimesTyped, ReportingAssumption DEF ReportInv, R!TypeOK, R!Backlog
<1>2. UNCHANGED <<batch, queue>>
  BY DEF R!TickStart, R!Submit, R!Resubmit, R!SubmitRecovered, R!ClockAdvances,
         R!ApiHeals, R!RegistrationChanges
<1>3. R!Backlog' = R!Backlog
  BY <1>2 DEF R!Backlog
<1>4. CASE R!TickStart
  <2>1. /\ built' \in 1 .. MaxVer /\ built <= built'
        /\ pc' # "idle" /\ pc' # "drain" /\ pc # "drain"
        /\ now \in R!Times
    BY <1>1, <1>4 DEF R!TickStart, R!TypeOK
  <2>2. cur' \in R!Docs /\ cur'.ver = built'
    BY <1>4, <2>1 DEF R!TickStart, R!Docs
  <2>3. R!TypeOK'
    BY <1>1, <1>4, <2>1, <2>2 DEF R!TickStart, R!TypeOK, R!Ledger
  <2>4. UNCHANGED now /\ built' \in Nat
    BY <1>4, <2>1 DEF R!TickStart
  <2>5. Fine(R!Backlog', R!Day(now'), built')
    BY <1>1, <1>3, <2>1, <2>4, FineLater DEF ReportInv
  <2>6. (pc = "drain" <=> batch # <<>>)'
    BY <1>2, <2>1 DEF ReportInv
  <2> QED BY <1>2, <2>2, <2>3, <2>4, <2>5, <2>6 DEF ReportInv, R!Day
<1>5. CASE R!Submit \/ R!Resubmit \/ R!SubmitRecovered
  <2>1. cur \in R!Docs
    BY <1>1 DEF R!TypeOK
  <2>2. /\ server' \in R!Ledger /\ res' \in R!Answers
        /\ pc' \in {"reput", "recovered", "settle"} /\ pc # "drain" /\ pc # "idle"
        /\ UNCHANGED <<now, api, registered, built, cur, batch, queue, cache>>
    <3>1. PICK answer \in R!Answers : R!Put(cur, answer) /\ res' = answer
      BY <1>5 DEF R!Submit, R!Resubmit, R!SubmitRecovered
    <3>2. server' \in R!Ledger
      BY <1>1, <2>1, <3>1, PutTyped
    <3> QED BY <1>5, <3>1, <3>2 DEF R!Submit, R!Resubmit, R!SubmitRecovered
  <2>3. R!TypeOK'
    BY <1>1, <2>2 DEF R!TypeOK, R!Ledger
  <2>4. Fine(R!Backlog', R!Day(now'), built')
    BY <1>3, <2>2 DEF ReportInv
  <2> QED BY <2>2, <2>3, <2>4 DEF ReportInv, R!Day
<1>6. CASE R!ClockAdvances
  <2>1. now' = now + 1 /\ now' \in R!Times
    BY <1>1, <1>6, ReportingAssumption DEF R!ClockAdvances, R!TypeOK, R!Times
  <2>2. UNCHANGED <<api, registered, pc, built, cur, res, batch, queue, server, cache>>
    BY <1>6 DEF R!ClockAdvances
  <2>3. R!Day(now) <= R!Day(now') /\ R!Day(now') \in Nat
    BY <1>1, <2>1, DaysPass
  <2>4. Fine(R!Backlog', R!Day(now'), built')
    BY <1>1, <1>3, <2>2, <2>3, FineLater DEF ReportInv
  <2>5. R!TypeOK'
    BY <1>1, <2>1, <2>2 DEF R!TypeOK, R!Ledger
  <2> QED BY <2>2, <2>4, <2>5 DEF ReportInv, R!Day
<1>7. CASE R!ApiHeals \/ R!RegistrationChanges
  <2>1. /\ UNCHANGED <<now, pc, built, cur, res, batch, queue, server, cache>>
        /\ api' \in {"flaky", "good"} /\ registered' \in BOOLEAN
    BY <1>1, <1>7 DEF R!ApiHeals, R!RegistrationChanges, R!TypeOK
  <2>2. R!TypeOK'
    BY <1>1, <2>1 DEF R!TypeOK, R!Ledger
  <2>3. Fine(R!Backlog', R!Day(now'), built')
    BY <1>3, <2>1 DEF ReportInv
  <2> QED BY <2>1, <2>2, <2>3 DEF ReportInv, R!Day
<1> QED BY <1>2, <1>4, <1>5, <1>6, <1>7

\* A tick that failed queues its document, and of the running day only the
\* entry it replaces goes; one that succeeded takes a batch of today's entries.
LEMMA ReportSettles ==
    ASSUME ReportInv, R!Settle
    PROVE  ReportInv' /\ R!LosesNothing
<1>1. /\ R!TypeOK /\ pc = "settle" /\ batch = <<>> /\ cur \in R!Docs /\ cur.ver = built
      /\ queue \in Seq(R!QueuedSlot) /\ Len(queue) <= Cap /\ built \in Nat
      /\ cur.born \in R!Times /\ now \in R!Times /\ R!Day(now) \in R!Days
      /\ R!Day(now) \in Nat /\ R!Slot(cur.born) \in R!Slots
  <2>1. pc = "settle" /\ R!TypeOK
    BY DEF ReportInv, R!Settle
  <2>2. batch = <<>> /\ cur.ver = built
    BY <2>1 DEF ReportInv
  <2>3. /\ cur \in R!Docs /\ queue \in Seq(R!QueuedSlot) /\ Len(queue) <= Cap
        /\ built \in Nat /\ now \in R!Times
    BY <2>1 DEF R!TypeOK
  <2>4. cur.born \in R!Times
    BY <2>3 DEF R!Docs
  <2> QED BY <2>1, <2>2, <2>3, <2>4, TimesTyped, SlotTyped
<1>2. R!Backlog = queue /\ Fine(queue, R!Day(now), built)
  BY <1>1, Joined DEF ReportInv, R!Backlog
<1>3. /\ UNCHANGED <<now, api, registered, built, cur, res, server>>
      /\ cache' \subseteq R!Days \X R!Slots
  BY <1>1 DEF R!Settle, R!TypeOK
<1>4. \A e : e \in R!Retained <=> \E j \in 1 .. Len(queue) : queue[j] = e
  <2>1. DOMAIN queue = 1 .. Len(queue)
    BY <1>1
  <2> QED BY <1>2, <2>1 DEF R!Retained, R!Range
<1>5. CASE /\ res # "ok" /\ queue' = R!Push(queue, R!Day(now), cur)
           /\ batch' = <<>> /\ pc' = "idle"
  <2> DEFINE new == [utc_date |-> R!Day(now), doc |-> cur]
             p == R!Push(queue, R!Day(now), cur)
  <2>1. built <= cur.ver
    BY <1>1
  <2>2. /\ p \in Seq(R!QueuedSlot) /\ Len(p) <= Cap /\ Fine(p, R!Day(now), cur.ver)
        /\ \E a \in 1 .. Len(p) : p[a] = new
        /\ \A j \in 1 .. Len(queue) :
              \/ R!SameSlot(queue[j], R!Day(now), cur)
              \/ \E a \in 1 .. Len(p) : p[a] = queue[j]
              \/ queue[j].utc_date # R!Day(now)
    <3>1. PushedOnto(queue, R!Day(now), cur, R!Push(queue, R!Day(now), cur))
      BY <1>1, <1>2, <2>1, PushFacts
    <3> QED BY <3>1 DEF PushedOnto
  <2> HIDE DEF p
  <2>3. queue' = p /\ R!Backlog' = p /\ DOMAIN p = 1 .. Len(p)
    BY <1>5, <2>2, Joined DEF p, R!Backlog
  <2>4. \A e : e \in R!Retained' <=> \E a \in 1 .. Len(p) : p[a] = e
    BY <2>3 DEF R!Retained, R!Range
  <2>5. R!TypeOK'
    BY <1>1, <1>3, <1>5, <2>2, <2>3, ReportingAssumption DEF R!TypeOK, R!Ledger
  <2>6. Fine(R!Backlog', R!Day(now'), built')
    BY <1>1, <1>3, <2>2, <2>3
  <2>7. ReportInv'
    BY <1>5, <2>5, <2>6 DEF ReportInv, R!Day
  <2>8. ASSUME NEW e \in R!Retained \ R!Retained' PROVE R!Discharged(e)
    <3>1. PICK j \in 1 .. Len(queue) : queue[j] = e
      BY <1>4
    <3>2. ~ \E a \in 1 .. Len(p) : p[a] = queue[j]
      BY <2>4, <2>8, <3>1
    <3>3. CASE e.utc_date # R!Day(now)
      BY <3>3 DEF R!Discharged
    <3>4. CASE R!SameSlot(e, R!Day(now), cur)
      <4>1. new \in R!Retained' /\ new.utc_date = R!Day(now) /\ new.doc = cur
        BY <2>2, <2>4
      <4>2. R!SameSlot(new, e.utc_date, e.doc)
        BY <3>4, <4>1 DEF R!SameSlot
      <4>3. e.doc.ver <= built /\ e \in R!QueuedSlot
        BY <1>1, <1>2, <3>1 DEF Fine
      <4>4. new.doc.ver >= e.doc.ver
        BY <1>1, <4>1, <4>3, EntriesTyped
      <4> HIDE DEF new
      <4> QED BY <4>1, <4>2, <4>4, Zenon DEF R!Discharged
    <3> QED BY <2>2, <3>1, <3>2, <3>3, <3>4
  <2> QED BY <2>7, <2>8 DEF R!LosesNothing
<1>6. CASE /\ res = "ok" /\ queue' = R!Left(queue, R!Day(now))
           /\ batch' = R!Taken(queue, R!Day(now))
           /\ pc' = IF batch' = <<>> THEN "idle" ELSE "drain"
  <2> DEFINE t == R!Taken(queue, R!Day(now))
             l == R!Left(queue, R!Day(now))
  <2> HIDE DEF t, l
  <2>1. /\ t \in Seq(R!QueuedSlot) /\ Len(t) <= BatchMax
        /\ l \in Seq(R!QueuedSlot) /\ Len(l) <= Len(queue)
        /\ t \o l \in Seq(R!QueuedSlot) /\ Thinned(t \o l, queue)
        /\ \A j \in 1 .. Len(queue) : queue[j].utc_date = R!Day(now)
              => \E a \in 1 .. Len(t \o l) : (t \o l)[a] = queue[j]
    <3>1. TakenFrom(queue, R!Day(now), R!Taken(queue, R!Day(now)),
                    R!Left(queue, R!Day(now)))
      BY <1>1, TakeFacts
    <3>2. TakenFrom(queue, R!Day(now), t, l)
      BY <3>1 DEF t, l
    <3> QED BY <3>2 DEF TakenFrom
  <2>2. /\ queue' = l /\ batch' = t /\ R!Backlog' = t \o l
        /\ DOMAIN (t \o l) = 1 .. Len(t \o l)
    BY <1>6, <2>1 DEF t, l, R!Backlog
  <2>3. Fine(t \o l, R!Day(now), built)
    BY <1>1, <1>2, <2>1, ThinnedIsFine
  <2>4. Len(l) <= Cap
    BY <1>1, <2>1, RoomForADay
  <2>5. R!TypeOK'
    BY <1>1, <1>3, <1>6, <2>1, <2>2, <2>4 DEF R!TypeOK, R!Ledger
  <2>6. Fine(R!Backlog', R!Day(now'), built')
    BY <1>3, <2>2, <2>3
  <2>7. ReportInv'
    BY <1>1, <1>3, <1>6, <2>5, <2>6 DEF ReportInv, R!Day
  <2>8. ASSUME NEW e \in R!Retained \ R!Retained' PROVE R!Discharged(e)
    <3>1. PICK j \in 1 .. Len(queue) : queue[j] = e
      BY <1>4
    <3>2. ~ \E a \in 1 .. Len(t \o l) : (t \o l)[a] = e
      BY <2>2, <2>8 DEF R!Retained, R!Range
    <3>3. e.utc_date # R!Day(now)
      BY <2>1, <3>1, <3>2
    <3> QED BY <3>3 DEF R!Discharged
  <2> QED BY <2>7, <2>8 DEF R!LosesNothing
<1> QED BY <1>5, <1>6 DEF R!Settle

\* A backlog entry is taken by the service, or put back in front.
LEMMA ReportDrains ==
    ASSUME ReportInv, R!DrainOne
    PROVE  ReportInv' /\ R!LosesNothing
<1>1. /\ R!TypeOK /\ pc = "drain" /\ batch \in Seq(R!QueuedSlot) /\ batch # <<>>
      /\ queue \in Seq(R!QueuedSlot) /\ Len(queue) <= Cap
      /\ Len(batch) <= BatchMax /\ cur.ver = built
  BY DEF ReportInv, R!DrainOne, R!TypeOK
<1>2. Fine(batch \o queue, R!Day(now), built)
  BY DEF ReportInv, R!Backlog
<1>3. Head(batch) \in R!QueuedSlot /\ Head(batch).doc \in R!Docs
  BY <1>1, EntriesTyped
<1>4. /\ UNCHANGED <<now, api, registered, built, cur, res, cache>>
      /\ pc' = IF batch' = <<>> THEN "idle" ELSE "drain"
  BY DEF R!DrainOne
<1>5. PICK answer \in R!Answers :
         /\ R!Put(Head(batch).doc, answer)
         /\ \/ answer = "ok" /\ batch' = Tail(batch) /\ queue' = queue
            \/ answer # "ok" /\ batch' = <<>> /\ queue' = R!Requeue(queue, Head(batch))
  BY DEF R!DrainOne
<1>6. /\ server' \in R!Ledger
      /\ answer = "ok"
           => server'[R!Day(now)][R!Slot(Head(batch).doc.born)] = Head(batch).doc
  BY <1>1, <1>3, <1>5, PutTyped
<1>7. ASSUME batch' \in Seq(R!QueuedSlot), Len(batch') <= BatchMax,
             queue' \in Seq(R!QueuedSlot), Len(queue') <= Cap,
             Fine(R!Backlog', R!Day(now), built)
      PROVE  ReportInv'
  <2>1. R!TypeOK'
    BY <1>1, <1>4, <1>6, <1>7 DEF R!TypeOK, R!Ledger
  <2>2. Fine(R!Backlog', R!Day(now'), built')
    BY <1>4, <1>7
  <2> QED BY <1>1, <1>4, <2>1, <2>2 DEF ReportInv, R!Day
<1>8. CASE answer = "ok" /\ batch' = Tail(batch) /\ queue' = queue
  <2>1. /\ Tail(batch) \in Seq(R!QueuedSlot) /\ Len(Tail(batch)) <= BatchMax
        /\ Tail(batch) \o queue \in Seq(R!QueuedSlot)
        /\ batch \o queue \in Seq(R!QueuedSlot)
        /\ Thinned(Tail(batch) \o queue, batch \o queue)
    <3>1. Tail(batch) \in Seq(R!QueuedSlot) /\ Len(Tail(batch)) <= BatchMax
      BY <1>1, ReportingAssumption
    <3> QED BY <1>1, <3>1, FrontLeaves, Joined
  <2>2. R!Backlog' = Tail(batch) \o queue
    BY <1>8 DEF R!Backlog
  <2>3. Fine(R!Backlog', R!Day(now), built)
    BY <1>2, <2>1, <2>2, ThinnedIsFine
  <2>4. ReportInv'
    BY <1>1, <1>7, <1>8, <2>1, <2>3
  <2>5. ASSUME NEW e \in R!Retained \ R!Retained' PROVE R!Discharged(e)
    <3>1. e = Head(batch)
      <4> DEFINE s == batch \o queue
                 r == Tail(batch) \o queue
      <4>1. /\ s \in Seq(R!QueuedSlot) /\ r \in Seq(R!QueuedSlot) /\ Len(s) \in Nat \ {0}
            /\ r = SubSeq(s, 2, Len(s)) /\ s[1] = Head(batch)
        BY <1>1
      <4>2. e \in R!Range(s) /\ e \notin R!Range(r)
        BY <2>2, <2>5 DEF R!Retained, R!Backlog
      <4> HIDE DEF s, r
      <4>3. PICK i \in 1 .. Len(s) : s[i] = e
        BY <4>1, <4>2 DEF R!Range
      <4>4. \A a \in 1 .. Len(r) : r[a] # e
        <5>1. DOMAIN r = 1 .. Len(r)
          BY <4>1
        <5> QED BY <4>2, <5>1, Zenon DEF R!Range
      <4>5. CASE i # 1
        <5>1. 2 \in 1 .. Len(s) + 1 /\ Len(s) \in 0 .. Len(s) /\ 2 <= Len(s) + 1
          BY <4>1
        <5>2. /\ Len(r) = Len(s) - 2 + 1
              /\ \A a \in 1 .. Len(r) : r[a] = s[a + 2 - 1]
          <6> DEFINE u == SubSeq(s, 2, Len(s))
          <6>1. s \in Seq(R!QueuedSlot) /\ r = u
            BY <4>1
          <6>2. /\ Len(u) = Len(s) - 2 + 1
                /\ \A a \in 1 .. Len(u) : u[a] = s[a + 2 - 1]
            BY <5>1, <6>1, StretchThins
          <6> HIDE DEF u
          <6> QED BY <6>1, <6>2
        <5>3. i - 1 \in 1 .. Len(r) /\ (i - 1) + 2 - 1 = i
          BY <4>1, <4>5, <5>2
        <5>4. r[i - 1] = s[i]
          BY <5>2, <5>3
        <5> QED BY <4>3, <4>4, <5>3, <5>4
      <4> QED BY <4>1, <4>3, <4>5
    <3> QED BY <1>6, <1>8, <3>1 DEF R!Discharged
  <2> QED BY <2>4, <2>5 DEF R!LosesNothing
<1>9. CASE answer # "ok" /\ batch' = <<>> /\ queue' = R!Requeue(queue, Head(batch))
  <2> DEFINE p == R!Requeue(queue, Head(batch))
  <2>1. /\ p \in Seq(R!QueuedSlot) /\ Len(p) <= Cap /\ Fine(p, R!Day(now), built)
        /\ \E a \in 1 .. Len(p) : p[a] = Head(batch)
    BY <1>1, <1>2, RequeueFacts
  <2> HIDE DEF p
  <2>2. queue' = p /\ R!Backlog' = p /\ DOMAIN p = 1 .. Len(p)
    BY <1>9, <2>1, Joined DEF p, R!Backlog
  <2>3. ReportInv'
    BY <1>7, <1>9, <2>1, <2>2, ReportingAssumption
  <2>4. R!DrainFailed
    BY <1>1, <2>1, <2>2 DEF R!DrainFailed, R!Range
  <2> QED BY <2>3, <2>4 DEF R!LosesNothing
<1> QED BY <1>5, <1>8, <1>9

\* The steps together.
LEMMA ReportNext ==
    ASSUME ReportInv, R!Next
    PROVE  ReportInv' /\ R!LosesNothing
<1>1. UNCHANGED <<batch, queue>> => R!LosesNothing
  BY DEF R!LosesNothing, R!Retained, R!Backlog
<1>2. CASE R!Settle
  BY <1>2, ReportSettles
<1>3. CASE R!DrainOne
  BY <1>3, ReportDrains
<1> QED BY <1>1, <1>2, <1>3, ReportQuiet DEF R!Next, R!Tick

\* Nor does a step of another part disturb it.
LEMMA ReportStutters ==
    ASSUME ReportInv, UNCHANGED ofReporting
    PROVE  ReportInv'
BY DEF ofReporting, ReportInv, R!TypeOK, R!Ledger, R!Backlog, R!Day

\* In the reporting task's part, its invariant holds throughout.
LEMMA Reporting == Tasks => [](part = "reporting" => ReportInv)
<1> DEFINE I == part = "reporting" => ReportInv
<1>1. TasksInit => I
  BY ReportBegins DEF TasksInit
<1>2. I /\ [TasksNext]_allVars => I'
  <2> SUFFICES ASSUME I, [TasksNext]_allVars, part' = "reporting"
               PROVE  ReportInv'
    OBVIOUS
  <2>1. part = "reporting" /\ (R!Next \/ UNCHANGED ofReporting)
    BY DEF TasksNext, OfLoop, OfFryVpn, OfReporting, allVars
  <2> QED BY <2>1, ReportNext, ReportStutters
<1> QED BY <1>1, <1>2, PTL DEF Tasks

(***************************************************************************)
(* However ticks, failures, midnight and a failed drain interleave, the    *)
(* backlog holds one entry per day and slot number.                        *)
(***************************************************************************)
THEOREM OneSlotOneEntry == Tasks => []OneEntryPerSlot
<1>1. (part = "reporting" => ReportInv) => OneEntryPerSlot
  <2> SUFFICES ASSUME part = "reporting", ReportInv PROVE R!OneEntryPerSlot
    BY DEF OneEntryPerSlot
  <2>1. R!Backlog \in Seq(R!QueuedSlot)
    BY Joined DEF ReportInv, R!TypeOK, R!Backlog
  <2>2. DOMAIN R!Backlog = 1 .. Len(R!Backlog)
    BY <2>1
  <2> QED BY <2>2, Zenon DEF ReportInv, Fine, R!OneEntryPerSlot
<1> QED BY <1>1, Reporting, PTL

(***************************************************************************)
(* An entry leaves the backlog only when the service took it, a document   *)
(* as new took its slot, its day is over, or the drain loop dropped it     *)
(* behind a failure; in particular no outage, however long, makes the      *)
(* queue evict an entry of the running day.                                *)
(***************************************************************************)
THEOREM NothingIsLost == Tasks => KeptUntilDischarged
<1>1. (part = "reporting" => ReportInv) /\ [TasksNext]_allVars
        => [part = "reporting" => R!LosesNothing]_allVars
  <2> SUFFICES ASSUME part = "reporting" => ReportInv, TasksNext, part = "reporting"
               PROVE  R!LosesNothing
    OBVIOUS
  <2>1. R!Next
    BY DEF TasksNext, OfLoop, OfFryVpn, OfReporting
  <2> QED BY <2>1, ReportNext
<1> QED BY <1>1, Reporting, PTL DEF Tasks, KeptUntilDischarged
=============================================================================
