-------------------------- MODULE IntegrationsPage --------------------------
(***************************************************************************)
(* The page of the integrations (useIntegrations.ts) over get_integrations *)
(* (commands/integration.rs 51-167): a card that needs Docker, whose       *)
(* toggle may install it, and the toggle of another card.  Answers and     *)
(* events reach the page in any order.                                     *)
(***************************************************************************)
EXTENDS Integers, Sequences, FiniteSets

CONSTANTS
    Attempts,       \* the calls of one fetch
    MaxFetches,     \* bound on the fetches under way at once
    MaxClicks,      \* bound on the toggles
    MaxLost,        \* bound on the calls that fail
    MaxHealth,      \* bound on the changes of health
    None

VARIABLES
    enabled, pending, health,   \* the backend: flag, PendingGuard, last_health
    docker,         \* the Docker preflight of the card: None, "working", "told"
    command,        \* per toggle: "idle", what it asks for, or how it ended
    events,         \* the health events under way
    progress,       \* the docker-progress event under way, or None
    stream,         \* the event stream lives
    card, error, banner,        \* the page
    fetches,        \* the fetches under way
    spent           \* what was used of the bounds

vars == <<enabled, pending, health, docker, command, events, progress, stream,
          card, error, banner, fetches, spent>>

backend == <<enabled, pending, health, docker>>
page == <<card, error, banner, fetches>>

Toggles == {"card", "other"}
Healths == {"Starting", "Healthy", "Unhealthy"}
Lifecycles == {"Disabled", "Installing", "Starting", "Running", "Unhealthy"}
Views == [enabled : BOOLEAN, lifecycle : Lifecycles]
Fetching == [resync : BOOLEAN, left : 1..Attempts, flag : BOOLEAN \cup {None},
             view : Views \cup {None}]
Bounds == [clicks |-> MaxClicks, lost |-> MaxLost, health |-> MaxHealth]
Spend(what) == spent[what] < Bounds[what] /\ spent' = [spent EXCEPT ![what] = @ + 1]

TypeOK ==
    /\ {enabled, pending, stream, banner} \subseteq BOOLEAN /\ health \in Healths
    /\ docker \in {None, "working", "told"}
    /\ command \in [Toggles -> {"idle", "on", "off", "ok", "failed"}]
    /\ events \in Seq(Healths) /\ Len(events) <= 2
    /\ progress \in {None, "stage", "ready"}
    /\ card \in Views /\ error \in {None, "toggle", "fetch"}
    /\ fetches \subseteq Fetching /\ Cardinality(fetches) <= MaxFetches
    /\ \A what \in DOMAIN Bounds : spent[what] \in 0..Bounds[what]

-----------------------------------------------------------------------------
\* deriveLifecycle, and the same of the backend
deriveLifecycle(on, h) ==
    IF ~on THEN "Disabled" ELSE IF h = "Healthy" THEN "Running" ELSE h

pending_view(on, installing, h) ==
    IF installing THEN [enabled |-> TRUE, lifecycle |-> "Installing"]
    ELSE [enabled |-> on, lifecycle |-> deriveLifecycle(on, h)]

Truth == pending_view(enabled, pending, health)

Init ==
    /\ enabled \in BOOLEAN /\ pending = FALSE /\ health = "Starting" /\ docker = None
    /\ command = [t \in Toggles |-> "idle"] /\ events = <<>> /\ progress = None
    /\ stream = TRUE /\ card = Truth /\ error = None /\ banner = FALSE
    /\ fetches = {} /\ spent = [what \in DOMAIN Bounds |-> 0]

-----------------------------------------------------------------------------
\* fetch

Begin(resync) ==
    /\ Cardinality(fetches) < MaxFetches
    /\ fetches' = fetches \cup
          {[resync |-> resync, left |-> Attempts, flag |-> None, view |-> None]}

\* get_integrations: the flag first, then the slow requirements of every
\* integration, then the health and the pending enables.
ReadFlags ==
    /\ \E f \in fetches :
          /\ f.flag = None
          /\ fetches' = (fetches \ {f}) \cup {[f EXCEPT !.flag = enabled]}
    /\ UNCHANGED <<backend, command, events, progress, stream, card, error, banner, spent>>

ReadHealth ==
    /\ \E f \in fetches :
          /\ f.flag # None /\ f.view = None
          /\ fetches' = (fetches \ {f}) \cup
                {[f EXCEPT !.view = pending_view(f.flag, pending, health)]}
    /\ UNCHANGED <<backend, command, events, progress, stream, card, error, banner, spent>>

shouldClearError(ok, preserve) == ok /\ ~preserve

FetchEnds ==
    /\ \E f \in fetches :
          /\ f.view # None
          /\ card' = f.view /\ fetches' = fetches \ {f}
          /\ error' = IF shouldClearError(TRUE, f.resync) THEN None ELSE error
    /\ UNCHANGED <<backend, command, events, progress, stream, banner, spent>>

\* A call that fails is tried again; the last one leaves the list as it was.
FetchFails ==
    /\ Spend("lost")
    /\ \E f \in fetches :
          \/ /\ f.left > 1 /\ UNCHANGED error
             /\ fetches' = (fetches \ {f}) \cup
                   {[f EXCEPT !.left = @ - 1, !.flag = None, !.view = None]}
          \/ f.left = 1 /\ error' = "fetch" /\ fetches' = fetches \ {f}
    /\ UNCHANGED <<backend, command, events, progress, stream, card, banner>>

\* A deviation the runs must notice: the page polls as long as events come.
PollWhileStreaming ==
    /\ stream
    /\ Begin(FALSE)
    /\ UNCHANGED <<backend, command, events, progress, stream, card, error, banner, spent>>

\* The fallback, every 30 s.
Poll ==
    /\ Begin(FALSE)
    /\ UNCHANGED <<backend, command, events, progress, stream, card, error, banner, spent>>

\* The health event carries the health only.
HealthEvent ==
    /\ events # <<>> /\ events' = Tail(events)
    /\ card' = [card EXCEPT !.lifecycle = deriveLifecycle(card.enabled, Head(events))]
    /\ UNCHANGED <<backend, command, progress, stream, error, banner, fetches, spent>>

ProgressEvent ==
    /\ progress # None /\ progress' = None
    /\ banner' = (progress = "stage")
    /\ UNCHANGED <<backend, command, events, stream, card, error, fetches, spent>>

\* runToggle: the optimistic flip, and the command.
Click(t) ==
    /\ command[t] = "idle" /\ Spend("clicks")
    /\ \/ /\ t = "card"
          /\ command' = [command EXCEPT ![t] = IF card.enabled THEN "off" ELSE "on"]
          /\ card' = [enabled |-> ~card.enabled,
                      lifecycle |-> IF card.enabled THEN "Disabled" ELSE "Installing"]
       \/ t = "other" /\ command' = [command EXCEPT ![t] = "on"] /\ UNCHANGED card
    /\ UNCHANGED <<backend, events, progress, stream, error, banner, fetches>>

inflightToggles(t) == {o \in Toggles \ {t} : command[o] # "idle"}

\* The answer: the error, and the end of the banner if no toggle is in flight;
\* then the list is fetched again.
Answered(t) ==
    /\ command[t] \in {"ok", "failed"}
    /\ command' = [command EXCEPT ![t] = "idle"]
    /\ error' = IF command[t] = "ok" THEN None ELSE "toggle"
    /\ banner' = (banner /\ inflightToggles(t) # {})
    /\ Begin(TRUE)
    /\ UNCHANGED <<backend, events, progress, stream, card, spent>>

-----------------------------------------------------------------------------
\* The backend (Toggle, DockerEngine, IntegrationLifecycle in short)

EnableBegins ==
    /\ command["card"] = "on" /\ ~pending
    /\ pending' = TRUE /\ docker' \in {None, "working"}
    /\ UNCHANGED <<enabled, health, command, events, progress, stream, page, spent>>

DockerTells ==
    /\ docker = "working" /\ progress = None
    /\ docker' = "told" /\ progress' = "stage"
    /\ UNCHANGED <<enabled, pending, health, command, events, stream, page, spent>>

\* A Docker that comes up says so; one that does not says nothing.
EnableEnds(ok) ==
    /\ pending /\ pending' = FALSE /\ docker # "working"
    /\ enabled' = ok /\ docker' = None
    /\ command' = [command EXCEPT !["card"] = IF ok THEN "ok" ELSE "failed"]
    /\ \/ ok /\ docker = "told" /\ progress = None /\ progress' = "ready"
       \/ ~(ok /\ docker = "told") /\ UNCHANGED progress
    /\ UNCHANGED <<health, events, stream, page, spent>>

DisableEnds(ok) ==
    /\ command["card"] = "off"
    /\ enabled' = (enabled /\ ~ok)
    /\ command' = [command EXCEPT !["card"] = IF ok THEN "ok" ELSE "failed"]
    /\ UNCHANGED <<pending, health, docker, events, progress, stream, page, spent>>

OtherEnds(ok) ==
    /\ command["other"] = "on"
    /\ command' = [command EXCEPT !["other"] = IF ok THEN "ok" ELSE "failed"]
    /\ UNCHANGED <<backend, events, progress, stream, page, spent>>

\* The health loop writes last_health, and sends the event if the stream lives.
HealthChanges ==
    /\ Spend("health") /\ enabled /\ Len(events) < 2
    /\ \E h \in Healths \ {health} : health' = h
    /\ events' = IF stream THEN Append(events, health') ELSE events
    /\ UNCHANGED <<enabled, pending, docker, command, progress, stream, page>>

StreamDies ==
    /\ stream /\ stream' = FALSE /\ events' = <<>>
    /\ UNCHANGED <<backend, command, progress, page, spent>>

Commands == EnableBegins \/ DockerTells
    \/ \E ok \in BOOLEAN : EnableEnds(ok) \/ DisableEnds(ok) \/ OtherEnds(ok)

Next ==
    \/ ReadFlags \/ ReadHealth \/ FetchEnds \/ FetchFails \/ Poll
    \/ HealthEvent \/ ProgressEvent \/ \E t \in Toggles : Click(t) \/ Answered(t)
    \/ Commands \/ HealthChanges \/ StreamDies

Spec == Init /\ [][Next]_vars

\* The timer fires, calls are answered, events are delivered.
Fairness ==
    /\ WF_vars(Poll) /\ WF_vars(ReadFlags) /\ WF_vars(ReadHealth) /\ WF_vars(FetchEnds)
    /\ WF_vars(HealthEvent) /\ WF_vars(ProgressEvent)
    /\ WF_vars(Commands) /\ SF_vars(\E t \in Toggles : Answered(t))

LiveSpec == Spec /\ Fairness

-----------------------------------------------------------------------------
(***************************************************************************)
(* 291-296: the page can never go permanently stale, whether or not the    *)
(* event stream dies.  When the clicks and the health have ended, what the *)
(* card shows is what the backend holds.                                   *)
(***************************************************************************)
CardCatchesUp == <>[](card = Truth)

(***************************************************************************)
(* 106-111: the error of a toggle outlives the fetch that follows it.      *)
(* Does not hold: a poll that was under way clears it at once.             *)
(***************************************************************************)
ErrorIsKept ==
    [][error = "toggle" /\ error' = None =>
         (\E t \in Toggles : command[t] = "ok") \/ ~\E f \in fetches : f.resync]_vars

(***************************************************************************)
(* 335-342 of commands/integration.rs: the poll reinforces the spinner of  *)
(* an enable.  Does not hold of an answer from before the click, nor of a  *)
(* flag that was read before the enable ended and a pending after it.      *)
(***************************************************************************)
SpinnerStays == pending => card.enabled
=============================================================================
