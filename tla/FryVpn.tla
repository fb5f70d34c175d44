------------------------------- MODULE FryVpn -------------------------------
(***************************************************************************)
(* Fry dVPN: integrations/fryvpn.rs with port_conflict.rs.  frynode is     *)
(* spawned only behind a firewall rule, and not when the device's wallet   *)
(* is known to be short of the registration price.  A start that may not   *)
(* spawn parks: it succeeds and leaves a reason, and the health check has  *)
(* to notice when the reason is gone.  Two tasks call it at any time, the  *)
(* health loop and the reporting tick, and share the parks and the growing *)
(* backoff on which wallet and registry are read over the network.         *)
(***************************************************************************)
EXTENDS Integers

CONSTANTS MaxSkip,      \* WALLET_RECHECK_MAX_SKIP
          MaxChanges,   \* bound on what the world and the user do
          None

Checkers == {"loop", "reporter"}          \* the health loop, the reporting tick
Starters == {"loop", "other"}             \* the health loop; a toggle, the launch
Actors == Checkers \cup Starters

\* FundingState, and "none" when the device has no usable key
Fundings == {"none", "affordable", "underfunded", "unmeasurable", "registered",
             "unknown", "unpriced"}
Reading == [is : Fundings, measured : BOOLEAN, broke : BOOLEAN]
NoKey == [is |-> "none", measured |-> FALSE, broke |-> FALSE]

Places == {"rest", "start", "read", "gate",                     \* a start
           "asked",                                             \* a disable
           "rule", "listing", "ruleread", "await", "awaitread", \* a check
           "park", "parkread", "alive", "port", "probe", "notice", "box",
           "told"}                                              \* a restart

VARIABLES
    world,    \* firewall, wallet, registry box, what algod answers, the port
    slots,    \* what is parked: PARKED_FUNDING_REASON, AWAITING_.., PARKED_RULE_..
    watch,    \* WALLET_WATCH
    up,       \* the supervisor holds a live frynode
    at, got,  \* per actor, its place and what it has read
    enabled,
    changes,  \* what is left of MaxChanges
    unseen    \* verdicts for which a park has outlived its reason

vars == <<world, slots, watch, up, at, got, enabled, changes, unseen>>

NothingParked == [park |-> None, await |-> FALSE, rule |-> FALSE]
NewWatch == [address |-> FALSE, notice |-> FALSE, unknown |-> FALSE,
             skip |-> 0, reads |-> 0]

TypeOK ==
    /\ world \in [rule : BOOLEAN, wallet : {"empty", "short", "enough"},
                  registered : BOOLEAN, balance : BOOLEAN, registry : BOOLEAN,
                  port : {"free", "stray", "other"}]
    /\ slots \in [park : {None, "shortfall", "unreadable"}, await : BOOLEAN,
                  rule : BOOLEAN]
    /\ watch \in [address : BOOLEAN, notice : BOOLEAN, unknown : BOOLEAN,
                  skip : 0..MaxSkip, reads : 0..4]
    /\ up \in BOOLEAN /\ enabled \in BOOLEAN
    /\ at \in [Actors -> Places] /\ got \in [Actors -> Reading \cup {None}]
    /\ changes \in 0..MaxChanges

-----------------------------------------------------------------------------
\* Reading the wallet and the registry

\* The wallet is what it can pay: the registration, at least a heartbeat, or
\* nothing.  The prices are constants, the balance what can be spent of it.
affordable(w) == w.wallet = "enough"
heartbeat_shortfall(w) == w.wallet = "empty"

\* algod answers, with a balance that can be parsed
read_wallet_balance(w) == w.balance

registration_from_box_read(w) ==
    IF w.registered THEN "registered" ELSE "unregistered"

read_registration(w) ==
    IF ~w.registry THEN "unknown" ELSE registration_from_box_read(w)

\* device_identity_and_funding: the box is read only when the price is not met
Funding(w) ==
    LET box == read_registration(w)
        state == CASE read_wallet_balance(w) /\ affordable(w) -> "affordable"
                   [] box = "registered" -> "registered"
                   [] read_wallet_balance(w) ->
                        IF box = "unknown" THEN "unknown" ELSE "underfunded"
                   [] OTHER -> IF box = "unknown" THEN "unmeasurable" ELSE "unpriced"
    IN  [is |-> state, measured |-> read_wallet_balance(w),
         broke |-> heartbeat_shortfall(w)]

\* The credentials may not be had; they are asked for every time.
Readings == {Funding(world), NoKey}

\* what a reading leaves in WALLET_WATCH
Noted(w, r) ==
    IF r.is = "none" THEN w
    ELSE [w EXCEPT !.address = TRUE,
                   !.unknown = r.is \in {"unknown", "unmeasurable"},
                   !.notice = CASE r.is = "registered" /\ r.measured -> r.broke
                                [] r.is = "affordable" -> FALSE
                                [] OTHER -> @]

restart_backoff(w) == [w EXCEPT !.skip = 0, !.reads = 1]

read_due(w) == w.skip = 0

\* A deviation the runs must notice: the backoff grows without its cap.
CountedUncapped(w) ==
    IF w.skip > 0 THEN [w EXCEPT !.skip = @ - 1]
    ELSE [w EXCEPT !.skip = 2^w.reads - 1, !.reads = IF @ = 4 THEN 4 ELSE @ + 1]

\* what asking for a read does to the backoff, due or not
Counted(w) ==
    IF w.skip > 0 THEN [w EXCEPT !.skip = @ - 1]
    ELSE LET next == 2^w.reads - 1
         IN  [w EXCEPT !.skip = IF next > MaxSkip THEN MaxSkip ELSE next,
                       !.reads = IF @ = 4 THEN 4 ELSE @ + 1]

\* The rule of frynode, as the firewall lists it: firewall.rs
Admitted(w) == w.rule

\* Parked for the rule; the banner that offers to set it is asked for.
park_for_firewall_rule(s) == [s EXCEPT !.rule = TRUE]

\* PortState: who listens on the port of frynode's API, by netstat and tasklist
PortState(w, alive) ==
    CASE w.port = "other" -> "other"
      [] w.port = "stray" \/ alive -> "frynode"
      [] OTHER -> "free"

\* What the health loop is told of a status: "setup" waits for the user,
\* "unknown" for the network, and only "sick" counts towards a restart.
Restartable(status) == status = "sick"

-----------------------------------------------------------------------------
Init ==
    /\ world \in [rule : BOOLEAN, wallet : {"empty", "enough"},
                  registered : BOOLEAN, balance : {TRUE}, registry : {TRUE},
                  port : {"free", "stray"}]
    \* a frynode left over has run before, and a rule that let it run is there
    /\ world.port = "stray" => world.registered
    /\ world.registered => world.rule
    /\ slots = NothingParked /\ watch = NewWatch /\ up = FALSE
    /\ enabled = TRUE
    /\ at = [a \in Actors |-> IF a = "other" THEN "start" ELSE "rest"]
    /\ got = [a \in Actors |-> None]
    /\ changes = MaxChanges /\ unseen = 0

Goto(a, place) == at' = [at EXCEPT ![a] = place]
Read(a, r) == got' = [got EXCEPT ![a] = r]

-----------------------------------------------------------------------------
\* start_inner: measure, look at the rule, then spawn or park.

StartReads(a) ==
    /\ at[a] = "start"
    /\ \E r \in Readings : Read(a, r)
    /\ Goto(a, "read")
    /\ UNCHANGED <<world, slots, watch, up, enabled, changes, unseen>>

StartNotes(a) ==
    /\ at[a] = "read"
    /\ watch' = restart_backoff(Noted(watch, got[a]))
    /\ Goto(a, "gate")
    /\ UNCHANGED <<world, slots, up, got, enabled, changes, unseen>>

\* resolve_funded_identity: what holds a start back
Hold(f) ==
    CASE f = "underfunded" -> "shortfall"
      [] f = "unpriced" -> "unreadable"
      [] OTHER -> None

StartReturns(a) ==
    /\ at[a] = "gate"
    /\ Goto(a, "rest")
    /\ Read(a, None)
    /\ enabled' = (enabled \/ a = "other")
    /\ unseen' = 0
    /\ UNCHANGED <<world, watch, changes>>

\* The rule gates spawning only: a node that runs keeps running.
StartWithoutRule(a) ==
    /\ StartReturns(a)
    /\ ~Admitted(world)
    /\ slots' = IF up THEN slots ELSE park_for_firewall_rule(slots)
    /\ UNCHANGED up

StartAwaits(a) ==
    /\ StartReturns(a)
    /\ Admitted(world) /\ got[a].is = "unknown"
    /\ slots' = [slots EXCEPT !.await = @ \/ (~up /\ slots.park = None)]
    /\ UNCHANGED up

StartParks(a) ==
    /\ StartReturns(a)
    /\ Admitted(world) /\ Hold(got[a].is) # None
    /\ slots' = [slots EXCEPT !.park = Hold(got[a].is), !.await = FALSE]
    /\ UNCHANGED up

\* A process that cannot be created is an error; what was parked is gone.
StartSpawns(a) ==
    /\ StartReturns(a)
    /\ Admitted(world) /\ got[a].is # "unknown" /\ Hold(got[a].is) = None
    /\ slots' = [slots EXCEPT !.park = None, !.await = FALSE]
    /\ up' = TRUE

Start(a) ==
    \/ StartReads(a) \/ StartNotes(a)
    \/ StartWithoutRule(a) \/ StartAwaits(a) \/ StartParks(a) \/ StartSpawns(a)

-----------------------------------------------------------------------------
\* stop, stop_for_disable, and the restart of the health loop

Stopped == slots' = NothingParked /\ watch' = NewWatch /\ up' = FALSE

\* POST /shutdown: frynode takes itself off the chain if it can pay for it.
DisableAsks ==
    /\ at.other = "rest" /\ enabled /\ changes > 0
    /\ \/ /\ up /\ world.port = "free" /\ up' \in BOOLEAN
          /\ world' = [world EXCEPT !.registered = @ /\ world.wallet = "empty"]
       \/ UNCHANGED <<up, world>>
    /\ Goto("other", "asked")
    /\ changes' = changes - 1 /\ unseen' = 0
    /\ UNCHANGED <<slots, watch, got, enabled>>

DisableStops ==
    /\ at.other = "asked"
    /\ Stopped
    /\ enabled' = FALSE /\ unseen' = 0
    /\ Goto("other", "rest")
    /\ UNCHANGED <<world, got, changes>>

Enable ==
    /\ at.other = "rest" /\ ~enabled
    /\ Goto("other", "start")
    /\ UNCHANGED <<world, slots, watch, up, got, enabled, changes, unseen>>

\* The health loop's own pauses and limits: HealthLoop.
Restart ==
    /\ at.loop = "told"
    /\ Stopped
    /\ unseen' = 0
    /\ Goto("loop", "start")
    /\ UNCHANGED <<world, got, enabled, changes>>

NoRestart ==
    /\ at.loop = "told" /\ Goto("loop", "rest")
    /\ UNCHANGED <<world, slots, watch, up, got, enabled, changes, unseen>>

-----------------------------------------------------------------------------
\* health_check

Unmoved == UNCHANGED <<world, enabled, changes>>

\* The health loop's tick, or the reporting task's for all partners.
Check(c) ==
    /\ at[c] = "rest" /\ enabled
    /\ Goto(c, "rule")
    /\ UNCHANGED <<slots, watch, up, got, unseen>> /\ Unmoved

\* The wallet would let frynode start, and the rule is there.
Ready(w) == Admitted(w) /\ Funding(w).is \in {"affordable", "registered"}

\* A verdict that tells of a park without its reason, or none of them
Outlived(status, left) ==
    unseen' = IF left.park = None \/ ~Ready(world) THEN 0
              ELSE IF status \in {"setup", "unknown"} THEN unseen + 1 ELSE unseen

\* What the reporting tick is told goes into its document.
Told(c, status) ==
    Goto(c, IF c = "loop" /\ Restartable(status) THEN "told" ELSE "rest")

Report(c, status, left) ==
    /\ slots' = left
    /\ Told(c, status)
    /\ Read(c, None)
    /\ Outlived(status, left)
    /\ UNCHANGED up /\ Unmoved

GoOn(c, place) ==
    /\ Goto(c, place)
    /\ UNCHANGED <<slots, up, got, unseen>> /\ Unmoved

\* Asks whether a read is due: reads at the place, or reports as before.
OnBackoff(c, place, status) ==
    /\ watch' = Counted(watch)
    /\ IF read_due(watch) THEN GoOn(c, place) ELSE Report(c, status, slots)

RuleGate(c) ==
    /\ at[c] = "rule"
    /\ GoOn(c, IF slots.rule THEN "listing" ELSE "await") /\ UNCHANGED watch

\* A deviation the runs must notice: a park for the rule outlives its reason.
ListingForGood(c) == at[c] = "listing" /\ OnBackoff(c, "ruleread", "setup")

\* The rule as it is listed; meanwhile others have gone on.
Listing(c) ==
    /\ at[c] = "listing"
    /\ \/ /\ Admitted(world)
          /\ slots' = [slots EXCEPT !.rule = FALSE]
          /\ Goto(c, "await")
          /\ UNCHANGED <<watch, up, got, unseen>> /\ Unmoved
       \/ ~Admitted(world) /\ OnBackoff(c, "ruleread", "setup")

AwaitGate(c) ==
    /\ at[c] = "await"
    /\ \/ ~slots.await /\ GoOn(c, "park") /\ UNCHANGED watch
       \/ slots.await /\ OnBackoff(c, "awaitread", "unknown")

ParkGate(c) ==
    /\ at[c] = "park"
    /\ \/ slots.park = None /\ GoOn(c, "alive") /\ UNCHANGED watch
       \/ slots.park # None /\ OnBackoff(c, "parkread", "setup")

ReadPlaces == {"ruleread", "awaitread", "parkread"}

CheckReads(c) ==
    /\ at[c] \in ReadPlaces /\ got[c] = None
    /\ \E r \in Readings : Read(c, r)
    /\ UNCHANGED <<slots, watch, up, at, unseen>> /\ Unmoved

\* The reading is noted and acted on; meanwhile a stop may have come, or the
\* other checker's reading.
Reads(c, place) ==
    /\ at[c] = place /\ got[c] # None
    /\ watch' = Noted(watch, got[c])

\* What was waited for is there, or cannot be asked any more.
Cleared(c, place, left) ==
    /\ got[c].is \in {"none", "affordable", "registered"}
    /\ slots' = left
    /\ Goto(c, place) /\ Read(c, None)
    /\ UNCHANGED <<up, unseen>> /\ Unmoved

RuleRead(c) ==
    Reads(c, "ruleread") /\ Report(c, "setup", park_for_firewall_rule(slots))

AwaitRead(c) ==
    /\ Reads(c, "awaitread")
    /\ LET f == got[c].is IN
       \/ f \in {"unknown", "unmeasurable"} /\ Report(c, "unknown", slots)
       \/ Hold(f) # None
            /\ Report(c, "setup", [slots EXCEPT !.park = Hold(f), !.await = FALSE])
       \/ Cleared(c, "park", [slots EXCEPT !.await = FALSE])

ParkRead(c) ==
    /\ Reads(c, "parkread")
    /\ LET f == got[c].is IN
       \/ f = "unknown" /\ Report(c, "setup", slots)
       \/ f = "underfunded"
            /\ Report(c, "setup", [slots EXCEPT !.park = "shortfall"])
       \/ f \in {"unmeasurable", "unpriced"}
            /\ Report(c, "setup", [slots EXCEPT !.park = "unreadable"])
       \/ Cleared(c, "alive", [slots EXCEPT !.park = None])

\* Only the reporting tick gives a check up, 45 s after it has begun.  What the
\* check had still to do is not done; the wallet could not be read, then.
TimesOut ==
    /\ at["reporter"] \in ReadPlaces /\ changes > 0
    /\ Goto("reporter", "rest") /\ Read("reporter", None)
    /\ changes' = changes - 1 /\ unseen' = 0
    /\ UNCHANGED <<world, slots, watch, up, enabled>>

Alive(c) ==
    /\ at[c] = "alive"
    /\ GoOn(c, IF up THEN "probe" ELSE "port")
    /\ UNCHANGED watch

\* The port tells why frynode is not there.
PortFree(c) ==
    /\ at[c] = "port" /\ PortState(world, up) = "free"
    /\ Report(c, "sick", slots) /\ UNCHANGED watch

PortHeld(c) ==
    /\ at[c] = "port" /\ PortState(world, up) = "other"
    /\ Report(c, "setup", slots) /\ UNCHANGED watch

\* A frynode listens: the one left over from an earlier run, or, if one has
\* been started since, ours.  It is killed by its number.
ClearFrynode(c) ==
    /\ at[c] = "port" /\ PortState(world, up) = "frynode"
    /\ \/ world.port = "stray" /\ world' = [world EXCEPT !.port = "free"] /\ UNCHANGED up
       \/ world.port # "stray" /\ up' = FALSE /\ UNCHANGED world
    /\ Told(c, "sick") /\ Outlived("sick", slots)
    /\ UNCHANGED <<slots, watch, got, enabled, changes>>

listening == up /\ world.port = "free"

\* three probes, two seconds apart
Probe(c) ==
    /\ at[c] = "probe"
    /\ \/ ~listening /\ Report(c, "sick", slots) /\ UNCHANGED watch
       \/ /\ listening /\ world.registered
          /\ watch' = IF watch.address THEN Counted(watch) ELSE watch
          /\ IF watch.address /\ read_due(watch) THEN GoOn(c, "notice")
             ELSE Report(c, "healthy", slots)
       \/ /\ listening /\ ~world.registered /\ ~(watch.address /\ watch.unknown)
          /\ Report(c, "sick", slots) /\ UNCHANGED watch
       \/ /\ listening /\ ~world.registered /\ watch.address /\ watch.unknown
          /\ OnBackoff(c, "box", "unknown")

\* refresh_funding_notice
Notice(c) ==
    /\ at[c] = "notice"
    /\ watch' = IF read_wallet_balance(world) /\ watch.address
                THEN [watch EXCEPT !.notice = heartbeat_shortfall(world)] ELSE watch
    /\ Report(c, "healthy", slots)

Box(c) ==
    /\ at[c] = "box"
    /\ \/ ~world.registry /\ Report(c, "unknown", slots) /\ UNCHANGED watch
       \/ /\ world.registry
          /\ watch' = [watch EXCEPT !.unknown = FALSE]
          /\ Report(c, "sick", slots)

HealthCheck(c) ==
    \/ RuleGate(c) \/ Listing(c) \/ AwaitGate(c) \/ ParkGate(c)
    \/ CheckReads(c) \/ RuleRead(c) \/ AwaitRead(c) \/ ParkRead(c)
    \/ Alive(c) \/ PortFree(c) \/ PortHeld(c) \/ ClearFrynode(c)
    \/ Probe(c) \/ Notice(c) \/ Box(c)

-----------------------------------------------------------------------------
\* frynode and the world around it

NodeRegisters ==
    /\ up /\ world.port = "free" /\ affordable(world) /\ ~world.registered
    /\ world' = [world EXCEPT !.registered = TRUE]
    /\ unseen' = 0
    /\ UNCHANGED <<slots, watch, up, at, got, enabled, changes>>

NodeExits ==
    /\ up /\ changes > 0
    /\ up' = FALSE
    /\ changes' = changes - 1
    /\ UNCHANGED <<world, slots, watch, at, got, enabled, unseen>>

WorldChanges ==
    /\ changes > 0
    /\ \/ world' = [world EXCEPT !.rule = ~@]
       \/ \E m \in {"empty", "short", "enough"} : world' = [world EXCEPT !.wallet = m]
       \/ world' = [world EXCEPT !.balance = ~@]
       \/ world' = [world EXCEPT !.registry = ~@]
       \/ ~up /\ \E p \in {"free", "other"} : world' = [world EXCEPT !.port = p]
    /\ world' # world
    /\ changes' = changes - 1 /\ unseen' = 0
    /\ UNCHANGED <<slots, watch, up, at, got, enabled>>

Next ==
    \/ \E a \in Starters : Start(a)
    \/ DisableAsks \/ DisableStops \/ Enable
    \/ \E c \in Checkers : Check(c) \/ HealthCheck(c)
    \/ TimesOut \/ Restart \/ NoRestart
    \/ NodeRegisters \/ NodeExits \/ WorldChanges

LoopWorks ==
    Check("loop") \/ HealthCheck("loop") \/ Restart \/ NoRestart \/ Start("loop")

\* The loop ticks, its calls return within their timeouts, and a card that
\* stays sick is restarted again and again (HealthLoop.KeepsTrying).  Nothing
\* is asked of the other task or of a toggle: either may hang.
Fairness == WF_vars(LoopWorks) /\ SF_vars(Restart)

Spec == Init /\ [][Next]_vars
LiveSpec == Spec /\ Fairness

-----------------------------------------------------------------------------
(***************************************************************************)
(* However starts, stops and the checks of both tasks overlap, a funding   *)
(* park is not shown for long once the wallet could be read and would do:  *)
(* each task may have to count the backoff down twice, for the wait for    *)
(* the registry and for the park, and while one reads the other is told    *)
(* the old verdict, or parks on a reading from before (fryvpn.rs 602-655,  *)
(* 1397-1462).                                                             *)
(***************************************************************************)
FundedIsSeen == unseen <= 4 * (MaxSkip + 1)

(***************************************************************************)
(* What fryvpn.rs 602-605 says: a funded wallet is seen within one round.  *)
(* The read that is due may be the other task's, and a park that an        *)
(* overtaken check writes can stand beside a wait for the registry.        *)
(***************************************************************************)
FundedInOneRound == unseen <= MaxSkip + 1

(***************************************************************************)
(* A parked node comes up by itself: once the rule, the wallet and the     *)
(* port stay as they should be, an enabled frynode runs, whatever was      *)
(* parked before and without another click (fryvpn.rs 1430-1437).          *)
(***************************************************************************)
NodeComesUp ==
    <>[](enabled /\ Ready(world) /\ world.balance /\ world.registry
           /\ world.port # "other")
        => []<>up

(***************************************************************************)
(* A frynode that the supervisor holds is never cleared away as a          *)
(* leftover (fryvpn.rs 1477-1483).  Two steps of another task between the  *)
(* look at the process and the look at the port are enough to break this.  *)
(***************************************************************************)
OnlyLeftoversAreCleared == [][(\E c \in Checkers : ClearFrynode(c)) => ~up]_vars
=============================================================================
