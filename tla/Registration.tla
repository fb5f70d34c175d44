---------------------------- MODULE Registration ----------------------------
(***************************************************************************)
(* How a device gets, keeps and loses its binding to a miner key: the      *)
(* wizard's register_device, the hooks that complete a half-done           *)
(* registration, fetch a missing token or recover a rejected one, and      *)
(* deregister_device. Registering mints a device token every time and so   *)
(* invalidates the one before; REGISTRATION_IN_FLIGHT serialises the       *)
(* paths that register. deregister_device does not take it.                *)
(*                                                                         *)
(* The server is modelled from how the code treats its answers: it keeps   *)
(* the sequence of tokens it minted, and a token is its place in it. An    *)
(* install id is known by the key it was registered with.                  *)
(***************************************************************************)
EXTENDS Naturals, Sequences

CONSTANTS
    Key,            \* miner keys the user may enter
    Attempt,        \* register_device commands that may run at once
    None,
    MaxPresses,     \* bound on the registrations the user starts
    MaxFaults,      \* bound on the answers that bring no token
    MaxCrashes,     \* bound on restarts of the app
    MaxDeregisters  \* bound on deregistrations

Hook == {"complete", "migrate", "recover"}
Task == Attempt \cup Hook

ASSUME AttemptAssumption == Attempt \cap (Hook \cup {None}) = {}
ASSUME NoneAssumption == None \notin Key \cup Hook
ASSUME BoundsAssumption == {MaxPresses, MaxFaults, MaxCrashes, MaxDeregisters} \subseteq Nat

VARIABLES
    cfg,       \* the stored binding: miner_key, install_id, device_token, pending
    lock,      \* who holds REGISTRATION_IN_FLIGHT
    pc,        \* per task: "idle", "queued", "post" or "reply"
    arg,       \* per task: the key it registers
    snap,      \* per task: the configuration it read before its lock or its update
    reply,     \* per task: what its POST came back with
    dereg,     \* deregister_device: "idle", or "call" while the server is asked
    minted,    \* the server: for which key each token was minted
    known,     \* history: keys the server accepted or said it already holds
    told,      \* history: the key register_device last reported registered
    confirmed, \* history: the binding a register_device established last
    spent      \* what is used up of each bound

taskVars == <<lock, pc, arg, snap, reply>>
historyVars == <<known, told, confirmed>>
vars == <<cfg, taskVars, dereg, minted, historyVars, spent>>

NoToken == 0

Config ==
    [miner_key : Key \cup {None}, install_id : Key \cup {None},
     device_token : Nat, pending : BOOLEAN]

Unregistered ==
    [miner_key |-> None, install_id |-> None, device_token |-> NoToken, pending |-> FALSE]

Reply == [kind : {"none", "token", "no_token", "conflict", "failed"}, token : Nat]

NoReply == [kind |-> "none", token |-> NoToken]

Bound ==
    [press |-> MaxPresses, fault |-> MaxFaults, crash |-> MaxCrashes,
     deregister |-> MaxDeregisters]

Spend(kind) ==
    /\ spent[kind] < Bound[kind]
    /\ spent' = [spent EXCEPT ![kind] = @ + 1]

Init ==
    /\ cfg = Unregistered /\ lock = None
    /\ pc = [t \in Task |-> "idle"]
    /\ arg = [t \in Task |-> None] /\ snap = [t \in Task |-> Unregistered]
    /\ reply = [t \in Task |-> NoReply]
    /\ dereg = "idle" /\ minted = <<>>
    /\ known = {} /\ told = None /\ confirmed = None
    /\ spent = [kind \in DOMAIN Bound |-> 0]

HasToken == cfg.device_token # NoToken

\* Only the newest token of a key is valid.
Newest(k, i) ==
    /\ i \in DOMAIN minted /\ minted[i] = k
    /\ \A j \in DOMAIN minted : minted[j] = k => j <= i

Valid == Newest(cfg.miner_key, cfg.device_token)

\* A hardware PUT under the stored key is answered 401: a token that is not
\* the newest, or none at all although the server holds one.
Rejected ==
    /\ cfg.miner_key # None /\ ~Valid
    /\ HasToken \/ \E i \in DOMAIN minted : minted[i] = cfg.miner_key

Idle(t) ==
    /\ pc' = [pc EXCEPT ![t] = "idle"]
    /\ arg' = [arg EXCEPT ![t] = None]
    /\ snap' = [snap EXCEPT ![t] = Unregistered]
    /\ reply' = [reply EXCEPT ![t] = NoReply]

\* Leaving the function drops the guard.
Return(t) == Idle(t) /\ lock' = None

-----------------------------------------------------------------------------
(* Reaching the lock: what a caller read before it may be old by then.     *)

Queue(t, k) ==
    /\ pc[t] = "idle"
    /\ pc' = [pc EXCEPT ![t] = "queued"]
    /\ arg' = [arg EXCEPT ![t] = k]
    /\ snap' = [snap EXCEPT ![t] = cfg]
    /\ UNCHANGED <<cfg, lock, reply, dereg, minted, known, confirmed>>

RegisterPressed(a, k) == Spend("press") /\ Queue(a, k) /\ told' = None

\* The tick's gate; the startup hook asks the same under the lock.
CompletionDue ==
    /\ cfg.miner_key # None /\ cfg.install_id = None
    /\ Queue("complete", None) /\ UNCHANGED <<told, spent>>

\* attempt_device_token_migration, and the version-change hook likewise.
MigrationDue ==
    /\ cfg.miner_key # None /\ cfg.install_id # None /\ ~HasToken
    /\ Queue("migrate", cfg.miner_key) /\ UNCHANGED <<told, spent>>

\* A deviation: a device that holds no token is never recovered.
RecoveryDueOfToken ==
    HasToken /\ Rejected /\ Queue("recover", None) /\ UNCHANGED <<told, spent>>

\* The tick's 401 recovery, of a rejected token or of a stranded device. The
\* cooldown and the run of three only put it off.
RecoveryDue == Rejected /\ Queue("recover", None) /\ UNCHANGED <<told, spent>>

\* A deviation the runs must notice: the guard is not taken.
AcquireNothing(t) == lock' = lock

Acquire(t) == lock = None /\ lock' = t

EnterPost(t, k) ==
    /\ Acquire(t)
    /\ pc' = [pc EXCEPT ![t] = "post"]
    /\ arg' = [arg EXCEPT ![t] = k]
    /\ UNCHANGED <<reply, dereg, minted, historyVars, spent>>

\* Returning at once, the guard taken and dropped.
EnterReturn(t) ==
    /\ lock = None /\ Idle(t)
    /\ UNCHANGED <<lock, dereg, minted, known, confirmed, spent>>

-----------------------------------------------------------------------------
(* The four paths up to their POST.                                        *)

Entering(t) == pc[t] = "queued"

\* B9: the same binding is complete on this device already. The wallet, which
\* must be the same too, is not kept: registering again may be for another.
SameBinding(k) ==
    cfg.miner_key = k /\ cfg.install_id # None /\ HasToken

RegisterReuses(a) ==
    /\ Entering(a) /\ SameBinding(arg[a])
    /\ EnterReturn(a)
    /\ told' = arg[a] /\ UNCHANGED cfg

\* The key is stored before the server is asked; install id and token stay.
RegisterEnters(a) ==
    /\ Entering(a)
    /\ snap' = [snap EXCEPT ![a] = cfg]
    /\ cfg' = [cfg EXCEPT !.miner_key = arg[a]]
    /\ EnterPost(a, arg[a])

CompletionReturns ==
    /\ Entering("complete")
    /\ cfg.miner_key = None \/ cfg.install_id # None \/ (HasToken /\ ~cfg.pending)
    /\ EnterReturn("complete") /\ UNCHANGED <<cfg, told>>

\* A token is held already: the id it was minted under is adopted.
CompletionAdopts ==
    /\ Entering("complete")
    /\ cfg.miner_key # None /\ cfg.install_id = None /\ HasToken /\ cfg.pending
    /\ cfg' = [cfg EXCEPT !.install_id = cfg.miner_key, !.pending = FALSE]
    /\ EnterReturn("complete") /\ UNCHANGED told

\* The pending id is stored before the server may see it.
CompletionEnters ==
    /\ Entering("complete")
    /\ cfg.miner_key # None /\ cfg.install_id = None /\ ~HasToken
    /\ cfg' = [cfg EXCEPT !.pending = TRUE]
    /\ EnterPost("complete", cfg.miner_key) /\ UNCHANGED snap

\* Whoever comes second finds the token the first one stored. The key is the
\* one read before the lock.
MigrationReturns ==
    /\ Entering("migrate") /\ HasToken
    /\ EnterReturn("migrate") /\ UNCHANGED <<cfg, told>>

MigrationEnters ==
    /\ Entering("migrate") /\ ~HasToken
    /\ EnterPost("migrate", arg["migrate"]) /\ UNCHANGED <<cfg, snap>>

\* A deviation: the rejection is taken for one of the token stored now.
RecoveryDespiteChange == cfg.miner_key # None /\ cfg.install_id # None

\* A rejection says nothing of a token stored since.
RecoveryApplies ==
    /\ cfg.device_token = snap["recover"].device_token
    /\ cfg.miner_key # None /\ cfg.install_id # None

RecoveryReturns ==
    /\ Entering("recover") /\ ~RecoveryApplies
    /\ EnterReturn("recover") /\ UNCHANGED <<cfg, told>>

\* The dead token is dropped first.
RecoveryEnters ==
    /\ Entering("recover") /\ RecoveryApplies
    /\ cfg' = [cfg EXCEPT !.device_token = NoToken]
    /\ EnterPost("recover", cfg.miner_key) /\ UNCHANGED snap

Enter(t) ==
    \/ t \in Attempt /\ (RegisterReuses(t) \/ RegisterEnters(t))
    \/ t = "complete" /\ (CompletionReturns \/ CompletionAdopts \/ CompletionEnters)
    \/ t = "migrate" /\ (MigrationReturns \/ MigrationEnters)
    \/ t = "recover" /\ (RecoveryReturns \/ RecoveryEnters)

-----------------------------------------------------------------------------
(* The server, and what a path makes of its answer.                        *)

Answer(t, kind, token) ==
    /\ pc[t] = "post"
    /\ pc' = [pc EXCEPT ![t] = "reply"]
    /\ reply' = [reply EXCEPT ![t] = [kind |-> kind, token |-> token]]
    /\ UNCHANGED <<cfg, lock, arg, snap, dereg, told, confirmed>>

\* POST installations: the binding is upserted and a token minted.
Mint(t) ==
    /\ minted' = Append(minted, arg[t])
    /\ known' = known \cup {arg[t]}

ServerMints(t) == Answer(t, "token", Len(minted) + 1) /\ Mint(t) /\ UNCHANGED spent

\* The answer is lost.
ServerMintsLost(t) == Spend("fault") /\ Answer(t, "failed", NoToken) /\ Mint(t)

\* 409, or an answer without a token: the server holds this binding.
ServerKnows(t) ==
    /\ Spend("fault")
    /\ Answer(t, "conflict", NoToken) \/ Answer(t, "no_token", NoToken)
    /\ known' = known \cup {arg[t]} /\ UNCHANGED minted

\* An error, or no server.
ServerFails(t) ==
    Spend("fault") /\ Answer(t, "failed", NoToken) /\ UNCHANGED <<known, minted>>

Post(t) == ServerMints(t) \/ ServerMintsLost(t) \/ ServerKnows(t) \/ ServerFails(t)

Finishing(t) == pc[t] = "reply" /\ Return(t) /\ UNCHANGED <<dereg, minted, known, spent>>

RegisterSucceeds(a) ==
    /\ Finishing(a)
    /\ reply[a].kind \in {"token", "no_token"}
    /\ cfg' = [cfg EXCEPT !.install_id = arg[a], !.device_token = reply[a].token]
    /\ told' = arg[a] /\ confirmed' = cfg.miner_key

\* The snapshot comes back only if the key is still the one of this attempt.
RegisterFails(a) ==
    /\ Finishing(a) /\ reply[a].kind = "failed"
    /\ cfg' = IF cfg.miner_key = arg[a] THEN [snap[a] EXCEPT !.pending = cfg.pending] ELSE cfg
    /\ UNCHANGED <<told, confirmed>>

\* The server holds the binding, so the key stays.
RegisterConflicts(a) ==
    /\ Finishing(a) /\ reply[a].kind = "conflict"
    /\ confirmed' = None /\ UNCHANGED <<cfg, told>>

CompletionSucceeds ==
    /\ Finishing("complete")
    /\ reply["complete"].kind \in {"token", "no_token"}
    /\ cfg' = [cfg EXCEPT !.install_id = arg["complete"], !.pending = FALSE,
           !.device_token = IF reply["complete"].kind = "token" THEN reply["complete"].token ELSE @]
    /\ UNCHANGED <<told, confirmed>>

\* The two hooks that want nothing but the token.
TokenArrives(t) ==
    /\ t \in {"migrate", "recover"} /\ Finishing(t) /\ reply[t].kind = "token"
    /\ cfg' = [cfg EXCEPT !.device_token = reply[t].token]
    /\ UNCHANGED <<told, confirmed>>

HookFails(t) ==
    /\ Finishing(t)
    /\ reply[t].kind \in {"conflict", "failed"} \/ (reply[t].kind = "no_token" /\ t # "complete")
    /\ UNCHANGED <<cfg, told, confirmed>>

Finish(t) ==
    \/ t \in Attempt /\ (RegisterSucceeds(t) \/ RegisterFails(t) \/ RegisterConflicts(t))
    \/ t = "complete" /\ CompletionSucceeds
    \/ TokenArrives(t)
    \/ t \in Hook /\ HookFails(t)

-----------------------------------------------------------------------------
(* deregister_device, beside the lock. What is left of the id a retry      *)
(* would reuse stays.                                                      *)

Clear ==
    /\ cfg' = [Unregistered EXCEPT !.pending = cfg.pending]
    /\ dereg' = "idle" /\ confirmed' = None

DeregisterPressed ==
    /\ Spend("deregister") /\ dereg = "idle" /\ cfg.miner_key # None
    /\ IF cfg.install_id # None
       THEN dereg' = "call" /\ UNCHANGED <<cfg, confirmed>>
       ELSE Clear
    /\ UNCHANGED <<taskVars, minted, known, told>>

\* The server agreed, or the user forces the local cleanup.
DeregisterClears ==
    /\ dereg = "call" /\ Clear
    /\ UNCHANGED <<taskVars, minted, known, told, spent>>

DeregisterRefused ==
    /\ dereg = "call" /\ dereg' = "idle"
    /\ UNCHANGED <<cfg, taskVars, minted, historyVars, spent>>

-----------------------------------------------------------------------------
\* The app dies; what was in flight is lost, what was stored is loaded again.
Crash ==
    /\ Spend("crash")
    /\ lock' = None /\ dereg' = "idle"
    /\ pc' = [t \in Task |-> "idle"]
    /\ arg' = [t \in Task |-> None] /\ snap' = [t \in Task |-> Unregistered]
    /\ reply' = [t \in Task |-> NoReply]
    /\ told' = None
    /\ confirmed' = IF lock \in Attempt THEN None ELSE confirmed
    /\ UNCHANGED <<cfg, minted, known>>

HookDue == CompletionDue \/ MigrationDue \/ RecoveryDue

Next ==
    \/ \E a \in Attempt, k \in Key : RegisterPressed(a, k)
    \/ HookDue
    \/ \E t \in Task : Enter(t) \/ Post(t) \/ Finish(t)
    \/ DeregisterPressed \/ DeregisterClears \/ DeregisterRefused
    \/ Crash

Spec == Init /\ [][Next]_vars

-----------------------------------------------------------------------------
(* Properties.                                                             *)

\* Every variable holds a value of its kind; a token stored or on its way was
\* minted.
TypeOK ==
    /\ cfg \in Config /\ cfg.device_token <= Len(minted)
    /\ lock \in Task \cup {None}
    /\ pc \in [Task -> {"idle", "queued", "post", "reply"}]
    /\ arg \in [Task -> Key \cup {None}]
    /\ snap \in [Task -> Config]
    /\ reply \in [Task -> Reply]
    /\ \A t \in Task :
           /\ (reply[t].kind # "none") <=> (pc[t] = "reply")
           /\ (reply[t].kind = "token") <=> (reply[t].token # NoToken)
           /\ reply[t].token <= Len(minted)
    /\ dereg \in {"idle", "call"}
    /\ minted \in Seq(Key)
    /\ known \subseteq Key
    /\ told \in Key \cup {None} /\ confirmed \in Key \cup {None}
    /\ spent \in [DOMAIN Bound -> Nat]
    /\ \A kind \in DOMAIN Bound : spent[kind] <= Bound[kind]

Posting(t) == pc[t] \in {"post", "reply"}

\* B1: once a registration has succeeded, no attempt that fails, and no hook,
\* takes the binding away again; only the user's own commands do.
SuccessSticks ==
    (confirmed # None /\ \A a \in Attempt : ~Posting(a)) =>
        cfg.miner_key = confirmed /\ cfg.install_id # None

\* A concurrent caller never leaves the device with an older token than the
\* one it held: the paths that mint do not overtake each other.
NeverAnOlderToken ==
    [][HasToken /\ cfg'.device_token # NoToken
         => cfg'.device_token >= cfg.device_token]_vars

\* "Whichever runs second finds the token the first one stored", and a
\* rejection says nothing of a token stored since: no hook asks for a new
\* token of the key it looked at while the stored one is the newest.
FreshTokenNotRotated ==
    [][\A t \in Hook :
           /\ pc[t] = "queued" /\ pc'[t] = "post"
           /\ snap[t].miner_key = cfg.miner_key
           => ~Valid]_vars

\* Once the user has entered a key, the hooks finish the registration and
\* leave the device with reports the server accepts.
Settled == cfg.miner_key # None /\ cfg.install_id # None /\ ~Rejected

Completes == <>(cfg.miner_key # None) /\ <>[](cfg.miner_key # None) => <>[]Settled

\* The same as long as the user deregisters nothing: a token that arrives
\* after a deregistration can leave the next registration stuck.
CompletesUndisturbed == [](spent.deregister = 0) => Completes

\* deregister_device and a registration in flight, or a key read before the
\* lock: the stored token is one of the stored key.
OwnToken ==
    (HasToken /\ \A t \in Task : ~Posting(t)) => minted[cfg.device_token] = cfg.miner_key

\* The same whatever key the rejected report was for: a report sent under a
\* key that a registration only tried is no reason to renew a good token.
RejectionStillHolds ==
    [][pc["recover"] = "queued" /\ pc'["recover"] = "post" => ~Valid]_vars

\* B9: "the device is already registered" is said of a key the server has.
ToldIsTrue == told # None => told \in known

\* The tick runs on and the server answers when asked; the tick comes back to
\* a half-done or a rejected registration. A token nobody rejects is fetched
\* at a launch, which nothing promises. tokio's mutex is fair.
FairSpec ==
    /\ Spec
    /\ WF_vars(CompletionDue) /\ WF_vars(RecoveryDue)
    /\ \A t \in Task : SF_vars(Enter(t)) /\ WF_vars(Post(t)) /\ WF_vars(Finish(t))
=============================================================================
