----------------------------- MODULE RewardsPage -----------------------------
(***************************************************************************)
(* The estimate that the pages show: the caches that the reporting tick    *)
(* fills from the server (main.rs 1174-1228), the summary computed from    *)
(* them (commands/rewards.rs), and the two polls of the page               *)
(* (useRewards.ts).  Amounts are 1 and 2; the multiplier is the name of a  *)
(* stake tier.                                                             *)
(***************************************************************************)
EXTENDS Integers, FiniteSets

CONSTANTS
    PollCap,        \* NOT_READY_POLL_CAP
    MaxFetches,     \* bound on the fetches of the page under way at once
    MaxChanges,     \* bound on what the owner and the server change
    MaxLost,        \* bound on the calls that fail
    None

VARIABLES
    key,        \* the device has a miner key
    amount,     \* the server: the base reward
    staked,     \* the server: the device has a stake
    cached,     \* the caches of AppState
    shown,      \* the summary that the page shows, or None
    fetching,   \* summaries that are on their way to the page
    opened,     \* the page was opened
    polls,      \* polls since the not-ready effect was armed
    changes, lost

vars == <<key, amount, staked, cached, shown, fetching, opened, polls,
          changes, lost>>

Amounts == {1, 2}
Tiers == {"unregistered", "none", "staked"}
Summaries == [ready : BOOLEAN, amount : Amounts \cup {0}, multiplier : Tiers]

TypeOK ==
    /\ {key, staked, opened} \subseteq BOOLEAN /\ amount \in Amounts
    /\ cached \in [base : Amounts \cup {0}, config : Amounts \cup {None},
                   tiers : BOOLEAN, verified : {None, "none", "staked"}]
    /\ shown \in Summaries \cup {None}
    /\ fetching \subseteq Summaries /\ Cardinality(fetching) <= MaxFetches
    /\ polls \in 0..PollCap /\ changes \in 0..MaxChanges /\ lost \in 0..MaxLost

Init ==
    /\ key \in BOOLEAN /\ amount = 1 /\ staked \in BOOLEAN
    /\ cached = [base |-> 0, config |-> None, tiers |-> FALSE, verified |-> None]
    /\ shown = None /\ fetching = {} /\ opened = FALSE /\ polls = 0 /\ changes = 0 /\ lost = 0

-----------------------------------------------------------------------------
\* The tick of a registered device.  /versions/FEM may leave the reward, the
\* config or the tiers out; a call that fails keeps what is cached.

Versions ==
    /\ key
    /\ \E base \in {cached.base, amount}, config \in {cached.config, amount},
          tiers \in {cached.tiers, TRUE} :
          cached' = [cached EXCEPT !.base = base, !.config = config, !.tiers = tiers]
    /\ UNCHANGED <<key, amount, staked, shown, fetching, opened, polls, changes, lost>>

get_verified_status ==
    /\ key
    /\ cached' = [cached EXCEPT !.verified = IF staked THEN "staked" ELSE "none"]
    /\ UNCHANGED <<key, amount, staked, shown, fetching, opened, polls, changes, lost>>

-----------------------------------------------------------------------------
\* get_reward_summary

base_reward == IF cached.config # None THEN cached.config ELSE cached.base
config_ready == cached.config # None \/ cached.base > 0
stake_data_ready == cached.verified # None \/ ~key

stake_multiplier ==
    IF cached.tiers /\ cached.verified # None THEN cached.verified
    ELSE IF key THEN "none" ELSE "unregistered"

summary == [ready |-> config_ready /\ stake_data_ready,
            amount |-> base_reward, multiplier |-> stake_multiplier]

-----------------------------------------------------------------------------
\* The page

shouldPollAgain == shown # None /\ ~shown.ready /\ polls < PollCap
\* A deviation the runs must notice: a ready summary is not asked for again.
NeverRefresh == FALSE

shouldRefreshWhenReady == shown # None /\ shown.ready

Fetch == Cardinality(fetching \cup {summary}) <= MaxFetches /\ fetching' = fetching \cup {summary}

\* The first fetch of a page that is opened.
Open ==
    /\ ~opened /\ opened' = TRUE
    /\ Fetch
    /\ UNCHANGED <<key, amount, staked, cached, shown, polls, changes, lost>>

PollNotReady ==
    /\ shouldPollAgain /\ polls' = polls + 1 /\ Fetch
    /\ UNCHANGED <<key, amount, staked, cached, shown, opened, changes, lost>>

RefreshReady ==
    /\ shouldRefreshWhenReady /\ Fetch
    /\ UNCHANGED <<key, amount, staked, cached, shown, opened, polls, changes, lost>>

\* setRewards; the poll is armed anew when the readiness flips.
Arrives ==
    /\ \E s \in fetching :
          /\ shown' = s /\ fetching' = fetching \ {s}
          /\ polls' = IF shown # None /\ shown.ready = s.ready THEN polls ELSE 0
    /\ UNCHANGED <<key, amount, staked, cached, opened, changes, lost>>

\* The summary or the slots cannot be read: an error, and what was shown stays.
FetchFails ==
    /\ lost < MaxLost /\ lost' = lost + 1
    /\ \E s \in fetching : fetching' = fetching \ {s}
    /\ UNCHANGED <<key, amount, staked, cached, shown, opened, polls, changes>>

-----------------------------------------------------------------------------
Changes == changes < MaxChanges /\ changes' = changes + 1

\* The owner registers the device, or deregisters it (no cache is cleared).
OwnerRegisters ==
    /\ Changes /\ key' = ~key
    /\ UNCHANGED <<amount, staked, cached, shown, fetching, opened, polls, lost>>

ServerChanges ==
    /\ Changes
    /\ \/ amount' = 3 - amount /\ UNCHANGED staked
       \/ staked' = ~staked /\ UNCHANGED amount
    /\ UNCHANGED <<key, cached, shown, fetching, opened, polls, lost>>

Next ==
    \/ Versions \/ get_verified_status
    \/ Open \/ PollNotReady \/ RefreshReady \/ Arrives \/ FetchFails
    \/ OwnerRegisters \/ ServerChanges

Spec == Init /\ [][Next]_vars

\* The tick goes on, the timers of the page fire, and a call is answered; the
\* server sends its whole answer in the end (it may leave parts out before).
VersionsInFull == Versions /\ cached'.config = amount /\ cached'.tiers

Fairness ==
    /\ WF_vars(VersionsInFull) /\ WF_vars(get_verified_status)
    /\ WF_vars(PollNotReady) /\ WF_vars(RefreshReady) /\ WF_vars(Arrives)

LiveSpec == Spec /\ Fairness

-----------------------------------------------------------------------------
(***************************************************************************)
(* useRewards.ts 87-98: a ready summary is not frozen for the lifetime of  *)
(* the page.  Once nothing changes any more, a page that shows a ready     *)
(* summary shows that of the server's amount and of the device's stake.    *)
(***************************************************************************)
Truth == [ready |-> TRUE, amount |-> amount,
          multiplier |-> IF staked THEN "staked" ELSE "none"]
Estimates == shown # None /\ shown.ready
EstimateKeepsUp == <>[](key /\ Estimates => shown = Truth)

(***************************************************************************)
(* 67-68: an unregistered device's zero multiplier is the whole truth.     *)
(* Does not hold of a device that was deregistered: the verified status of *)
(* its old key stays cached, and is preferred.                             *)
(***************************************************************************)
UnregisteredEarnsNothing ==
    summary.ready /\ ~key => summary.multiplier = "unregistered"

(***************************************************************************)
(* A registered device is shown its estimate in the end.  Does not hold: a *)
(* first fetch that fails arms no poll, and a summary that is not ready is *)
(* polled PollCap times only (useRewards.ts 69-85).                        *)
(***************************************************************************)
EstimateIsShown == <>[](opened /\ key => Estimates)
=============================================================================
