---------------------------- MODULE ElevationGate ----------------------------
(***************************************************************************)
(* The one gate every UAC prompt passes (elevation_gate.rs): callers on    *)
(* their own threads, the gate mutex held across the prompt, the attempts  *)
(* spent per purpose, and the messages the cards show, behind a lock of    *)
(* their own.                                                              *)
(***************************************************************************)
EXTENDS Integers

CONSTANTS
    Caller,      \* threads that toggle, install, start or recover
    Purpose,     \* integrations and the other stable names
    Key,         \* attempt_key: the exact target
    MaxRearms,   \* bound on the retry gestures of a purpose
    Nobody       \* holder of a free gate

VARIABLES
    pc,          \* per caller: where it stands
    req,         \* per caller: the purpose and key of its request
    gate,        \* who holds the gate mutex
    attempted,   \* per purpose: the keys whose one attempt is spent
    blocked,     \* per purpose: what its card shows
    rearms,      \* history: retry gestures per purpose
    prompts,     \* history: UAC prompts raised per purpose and key
    declined     \* history: keys whose last prompt failed, not re-armed since

vars == <<pc, req, gate, attempted, blocked, rearms, prompts, declined>>

Request == [purpose : Purpose, key : Key]

\* "declined" stands for every failure of the elevated work.
Place == {"idle", "rearming", "waiting", "prompt", "succeeded", "declined"}

Init ==
    /\ pc = [c \in Caller |-> "idle"]
    /\ req \in [Caller -> Request]
    /\ gate = Nobody
    /\ attempted = [p \in Purpose |-> {}]
    /\ blocked = [p \in Purpose |-> FALSE]
    /\ rearms = [p \in Purpose |-> 0]
    /\ prompts = [p \in Purpose |-> [k \in Key |-> 0]]
    /\ declined = [p \in Purpose |-> {}]

Goto(c, place) == pc' = [pc EXCEPT ![c] = place]
Publish(p, shown) == blocked' = [blocked EXCEPT ![p] = shown]

-----------------------------------------------------------------------------
\* clear_blocked, the retry gesture: first the message of the card ...
ClearMessage(c, p) ==
    /\ pc[c] = "idle" /\ rearms[p] < MaxRearms
    /\ \E k \in Key : req' = [req EXCEPT ![c] = [purpose |-> p, key |-> k]]
    /\ Publish(p, FALSE)
    /\ Goto(c, "rearming")
    /\ UNCHANGED <<gate, attempted, rearms, prompts, declined>>

\* A deviation the runs must notice: one flat set of attempts.
RearmAll(c) ==
    LET p == req[c].purpose
    IN  /\ pc[c] = "rearming" /\ gate = Nobody
        /\ attempted' = [q \in Purpose |-> {}]
        /\ rearms' = [rearms EXCEPT ![p] = @ + 1]
        /\ declined' = [declined EXCEPT ![p] = {}]
        /\ Goto(c, "idle")
        /\ UNCHANGED <<req, gate, blocked, prompts>>

\* ... then, once nobody is prompting, its spent attempts.
Rearm(c) ==
    LET p == req[c].purpose
    IN  /\ pc[c] = "rearming" /\ gate = Nobody
        /\ attempted' = [attempted EXCEPT ![p] = {}]
        /\ rearms' = [rearms EXCEPT ![p] = @ + 1]
        /\ declined' = [declined EXCEPT ![p] = {}]
        /\ Goto(c, "idle")
        /\ UNCHANGED <<req, gate, blocked, prompts>>

\* run_elevated on a user's behalf waits for the gate.
Ask(c, p, k) ==
    /\ pc[c] = "idle"
    /\ req' = [req EXCEPT ![c] = [purpose |-> p, key |-> k]]
    /\ Goto(c, "waiting")
    /\ UNCHANGED <<gate, attempted, blocked, rearms, prompts, declined>>

\* On nobody's behalf it is refused before the gate, and the card says so.
Suppress(c, p, k) ==
    /\ pc[c] = "idle"
    /\ req' = [req EXCEPT ![c] = [purpose |-> p, key |-> k]]
    /\ Publish(p, TRUE)
    /\ UNCHANGED <<pc, gate, attempted, rearms, prompts, declined>>

Spent(c) == req[c].key \in attempted[req[c].purpose]

\* A spent attempt is refused, and the card goes on saying so.
Refuse(c) ==
    /\ pc[c] = "waiting" /\ gate = Nobody /\ Spent(c)
    /\ Publish(req[c].purpose, TRUE)
    /\ Goto(c, "idle")
    /\ UNCHANGED <<req, gate, attempted, rearms, prompts, declined>>

\* Spending the attempt and raising the prompt, the gate held across it.
Prompt(c) ==
    LET p == req[c].purpose
        k == req[c].key
    IN  /\ pc[c] = "waiting" /\ gate = Nobody /\ ~Spent(c)
        /\ gate' = c
        /\ attempted' = [attempted EXCEPT ![p] = @ \cup {k}]
        /\ prompts' = [prompts EXCEPT ![p][k] = @ + 1]
        /\ Goto(c, "prompt")
        /\ UNCHANGED <<req, blocked, rearms, declined>>

\* The human answers, or nobody does and the prompt is given up. The gate is
\* released before the message is written.
Answer(c) ==
    LET p == req[c].purpose
        k == req[c].key
    IN  /\ pc[c] = "prompt"
        /\ gate' = Nobody
        /\ \/ Goto(c, "succeeded") /\ declined' = [declined EXCEPT ![p] = @ \ {k}]
           \/ Goto(c, "declined") /\ declined' = [declined EXCEPT ![p] = @ \cup {k}]
        /\ UNCHANGED <<req, attempted, blocked, rearms, prompts>>

Report(c) ==
    /\ pc[c] \in {"succeeded", "declined"}
    /\ Publish(req[c].purpose, pc[c] = "declined")
    /\ Goto(c, "idle")
    /\ UNCHANGED <<req, gate, attempted, rearms, prompts, declined>>

Step(c) == Rearm(c) \/ Refuse(c) \/ Prompt(c) \/ Answer(c) \/ Report(c)

Next ==
    \E c \in Caller :
        \/ Step(c)
        \/ \E p \in Purpose : ClearMessage(c, p)
        \/ \E p \in Purpose, k \in Key : Ask(c, p, k) \/ Suppress(c, p, k)

Spec == Init /\ [][Next]_vars

-----------------------------------------------------------------------------
(* Properties.                                                             *)

\* Types of the gate's state; the gate is held for a prompt and nothing else.
TypeOK ==
    /\ pc \in [Caller -> Place] /\ req \in [Caller -> Request]
    /\ gate \in Caller \cup {Nobody} /\ (gate # Nobody => pc[gate] = "prompt")
    /\ attempted \in [Purpose -> SUBSET Key] /\ declined \in [Purpose -> SUBSET Key]
    /\ blocked \in [Purpose -> BOOLEAN]
    /\ rearms \in [Purpose -> Nat] /\ prompts \in [Purpose -> [Key -> Nat]]

\* Never two UAC prompts on screen, whoever raises them.
OneAtATime ==
    \A c, d \in Caller : pc[c] = "prompt" /\ pc[d] = "prompt" => c = d

\* No prompt comes back behind the user's back: a target was prompted for at
\* most once, plus once per retry gesture on its own card; and once more is
\* still owed only while its attempt is not spent.
PromptsAreAsked ==
    \A p \in Purpose, k \in Key :
        prompts[p][k] <= rearms[p] + IF k \in attempted[p] THEN 1 ELSE 0

\* A request that failed and may not be raised again shows on its card, as
\* soon as nobody is about to write there.
DeclineIsShown ==
    \A p \in Purpose :
        /\ declined[p] # {}
        /\ \A c \in Caller : req[c].purpose = p =>
              pc[c] \notin {"rearming", "succeeded", "declined"}
        => blocked[p]
=============================================================================
