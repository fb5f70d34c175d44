---------------------------- MODULE PawnsConsent ----------------------------
(***************************************************************************)
(* The consent of the device owner to share bandwidth through Pawns.app:   *)
(* the switch and the dialog (hooks/useIntegrations.ts, consentDialog.ts,  *)
(* commands/consent.rs), the append-only consent log with its move to      *)
(* another storage root and its rotation, and the agent's container        *)
(* (integrations/pawns.rs).  Only the owner decides; restarts, exits,      *)
(* rotation, moves, torn writes and the clock must not decide for him.     *)
(***************************************************************************)
EXTENDS Integers, Sequences, SequencesExt

CONSTANTS MaxNow,     \* bound on the wall clock
          MaxEntries, \* bound on the lines of the log
          MaxTorn,    \* bound on the lines in it that were torn
          Retention   \* age at which a superseded line may be archived

\* A record, or what cannot be parsed: a torn line, or two in one.
Entry == [action : {"consent", "withdrawal"}, at : 0..MaxNow]
Torn == [action |-> "torn", at |-> 0]
Line == Entry \cup {Torn}
Nobody == [action |-> "none", at |-> 0]

VARIABLES
    now,      \* the wall clock, which may be set
    root,     \* the storage root: "default", or "custom" with a log of its own
    log,      \* the anchored log, where every decision is written
    ended,    \* its last line has its newline
    legacy,   \* the log under the custom root, written by older releases
    rotation, \* the place in rotate_consent_log_at, what it has read and keeps
    env,      \* PAWNS_USER_CONSENT=accepted
    engine,   \* Docker runs
    agent,    \* the container exists; it runs whenever Docker does
    enabled,
    start,    \* a start() past its consent gate, by the user or by a task
    ui,       \* what the page is doing
    decided   \* the owner's last recorded decision; "lost" if it was lost (history)

vars == <<now, root, log, ended, legacy, rotation, env, engine, agent,
          enabled, start, ui, decided>>
logs == <<log, ended, legacy, rotation>>
machine == <<env, engine, agent, enabled>>

Idle == [at |-> "idle", read |-> <<>>, keep |-> <<>>]

TypeOK ==
    /\ now \in 0..MaxNow /\ root \in {"default", "custom"}
    /\ log \in BoundedSeq(Line, MaxEntries) /\ legacy \in BoundedSeq(Entry, 1)
    /\ ended \in BOOLEAN /\ (log = <<>> => ended)
    /\ rotation.at \in {"idle", "due", "read", "archived"}
    /\ env \in BOOLEAN /\ engine \in BOOLEAN /\ agent \in BOOLEAN
    /\ enabled \in BOOLEAN /\ start \subseteq {"user", "task"}
    /\ ui \in {"idle", "dialog", "enabling", "starting", "disabling", "revoking"}
    /\ decided \in {"none", "consent", "withdrawal", "lost"}

-----------------------------------------------------------------------------
\* What a log says

\* Lines that are no records are skipped.
Readable(l) == {i \in DOMAIN l : l[i] # Torn}
IsNewest(l, i) == i \in Readable(l) /\ \A j \in Readable(l) : j <= i

last_consent_entry_in(l) ==
    IF Readable(l) = {} THEN Nobody ELSE l[CHOOSE i \in DOMAIN l : IsNewest(l, i)]

\* A deviation the runs must notice: the refusal of the anchored log is not
\* final.
NewestAcross(anchored, others) ==
    IF others.action = "none" THEN anchored
    ELSE IF anchored.action = "none" \/ others.at >= anchored.at THEN others
    ELSE anchored

\* The anchored log's refusal is final; otherwise the newest entry counts, and
\* of two of one time the later candidate's.
last_consent_entry_across(anchored, others) ==
    IF anchored.action = "withdrawal" \/ others.action = "none" THEN anchored
    ELSE IF anchored.action = "none" \/ others.at >= anchored.at THEN others
    ELSE anchored

consent_record ==
    last_consent_entry_across(last_consent_entry_in(log),
        IF root = "default" THEN Nobody ELSE last_consent_entry_in(legacy))

consent_active == consent_record.action = "consent"
user_consent == env \/ consent_active
sharing == agent /\ engine

\* A line reaches the disk whole, or without its newline, or in part, or not at
\* all.  What is written behind a line without newline becomes part of it, and
\* neither can be read any more: the owner's last decision is lost.
Append1(action) ==
    \/ UNCHANGED <<log, ended, decided>>
    \/ /\ ended
       /\ log' = Append(log, [action |-> action, at |-> now])
       /\ ended' \in BOOLEAN /\ decided' = action
    \/ /\ ended /\ Cardinality(DOMAIN log \ Readable(log)) < MaxTorn
       /\ log' = Append(log, Torn) /\ ended' = FALSE
       /\ UNCHANGED decided
    \/ /\ ~ended
       /\ log' = [log EXCEPT ![Len(log)] = Torn]
       /\ ended' \in BOOLEAN /\ decided' = "lost"

-----------------------------------------------------------------------------
Init ==
    /\ now = 0 /\ root \in {"default", "custom"}
    /\ log = <<>> /\ ended = TRUE /\ rotation = Idle
    /\ legacy \in {<<>>} \cup {<<[action |-> a, at |-> 0]>> :
                                  a \in {"consent", "withdrawal"}}
    /\ env = FALSE /\ engine = TRUE /\ agent = FALSE /\ enabled = FALSE
    /\ start = {} /\ ui = "idle"
    /\ decided = last_consent_entry_in(legacy).action

Ready == ui = "idle"
Room == Len(log) < MaxEntries

\* What the page learns, which asks for a consent when it learns nothing.
check_consent == {FALSE, consent_active}

\* toggle to on: without a consent the dialog opens instead
ToggleOn ==
    /\ Ready /\ ~enabled
    /\ \E consented \in check_consent : ui' = IF consented THEN "enabling" ELSE "dialog"
    /\ UNCHANGED <<now, root, logs, machine, start, decided>>

\* with the wording that was shown
grant_consent == Append1("consent")

confirmConsent ==
    /\ ui = "dialog" /\ Room
    /\ grant_consent
    /\ ui' = "enabling"
    /\ UNCHANGED <<now, root, legacy, rotation, machine, start>>

cancelConsent ==
    /\ ui = "dialog"
    /\ ui' = "idle"
    /\ UNCHANGED <<now, root, logs, machine, start, decided>>

\* toggle_integration asks once more and answers with the sentinel.
ToggleRefused ==
    /\ ui = "enabling"
    /\ ui' = IF user_consent THEN "idle" ELSE "dialog"
    /\ UNCHANGED <<now, root, logs, machine, start, decided>>

ToggleStarts ==
    /\ ui = "enabling" /\ user_consent
    /\ ui' = "starting"
    /\ start' = start \cup {"user"}
    /\ UNCHANGED <<now, root, logs, machine, decided>>

\* The health loop's restart takes the container away first and records
\* nothing; recovery and watcher start what is enabled.
TaskStarts ==
    /\ enabled /\ user_consent /\ "task" \notin start
    /\ agent' \in {agent} \cup (IF engine THEN {FALSE} ELSE {})
    /\ start' = start \cup {"task"}
    /\ UNCHANGED <<now, root, logs, env, engine, enabled, ui, decided>>

\* A consent that came from the environment is recorded.
record_start_consent ==
    IF env /\ ~consent_active /\ Room
          /\ last_consent_entry_in(log).action # "consent"
    THEN Append1("consent")
    ELSE UNCHANGED <<log, ended, decided>>

\* The rest of start(): the old container goes, a new one runs.
StartRuns(s) ==
    /\ s \in start
    /\ start' = start \ {s}
    /\ record_start_consent
    /\ agent' \in {agent} \cup (IF engine THEN {TRUE, FALSE} ELSE {})
    /\ enabled' = IF s = "user" THEN agent' /\ engine ELSE enabled
    /\ ui' = IF s = "user" THEN "idle" ELSE ui
    /\ UNCHANGED <<now, root, legacy, rotation, env, engine>>

StartFails(s) ==
    /\ s \in start
    /\ start' = start \ {s}
    /\ ui' = IF s = "user" THEN "idle" ELSE ui
    /\ UNCHANGED <<now, root, logs, machine, decided>>

ToggleOff ==
    /\ Ready /\ enabled
    /\ ui' = "disabling"
    /\ UNCHANGED <<now, root, logs, machine, start, decided>>

\* stop_inner(UserDisable): `rm -f` fails while Docker is down, which is only
\* logged; the withdrawal is recorded either way.
StopRecords ==
    /\ ui = "disabling" /\ Room
    /\ agent' = (agent /\ ~engine)
    /\ Append1("withdrawal")
    /\ enabled' = FALSE
    /\ ui' = "idle"
    /\ UNCHANGED <<now, root, legacy, rotation, env, engine, start>>

\* The command failed before stop(): the page withdraws by itself.
ToggleOffFails ==
    /\ ui = "disabling"
    /\ ui' = "revoking"
    /\ UNCHANGED <<now, root, logs, machine, start, decided>>

revoke_consent ==
    /\ ui = "revoking" /\ Room
    /\ Append1("withdrawal")
    /\ ui' = "idle"
    /\ UNCHANGED <<now, root, legacy, rotation, machine, start>>

-----------------------------------------------------------------------------
\* rotate_consent_log_at on the log of the current root: read, archive what is
\* old and superseded, then swap the file.

Current == IF root = "default" THEN log ELSE legacy
\* A deviation the runs must notice: the newest entry grows stale too.
NewestIsStaleToo(l, i) == l[i] # Torn /\ l[i].at < now - Retention

consent_entry_is_stale(l, i) ==
    l[i] # Torn /\ ~IsNewest(l, i) /\ l[i].at < now - Retention
Stale(l) == {i \in DOMAIN l : consent_entry_is_stale(l, i)}

\* The lines that are not stale, in their order: what the new file may hold.
Kept(l) ==
    LET kept == DOMAIN l \ Stale(l)
        Order(f) == /\ kept = {f[k] : k \in DOMAIN f}
                    /\ \A j, k \in DOMAIN f : j < k => f[j] < f[k]
    IN  {[k \in DOMAIN f |-> l[f[k]]] :
            f \in {g \in [1..Cardinality(kept) -> kept] : Order(g)}}

RotationReads ==
    /\ rotation.at = "due"
    /\ IF Stale(Current) = {}
       THEN rotation' = Idle
       ELSE rotation' \in [at : {"read"}, read : {Current}, keep : Kept(Current)]
    /\ UNCHANGED <<now, root, log, ended, legacy, machine, start, ui, decided>>

\* Where the archive cannot be written and flushed nothing may leave the log.
RotationArchives ==
    /\ rotation.at = "read"
    /\ rotation' \in {Idle, [rotation EXCEPT !.at = "archived"]}
    /\ UNCHANGED <<now, root, log, ended, legacy, machine, start, ui, decided>>

\* The file is replaced, or the swap fails.  What was appended to the log since
\* it was read is gone with it: nothing keeps the owner from deciding meanwhile.
RotationSwaps ==
    /\ rotation.at = "archived"
    /\ \/ UNCHANGED <<log, ended, legacy, decided>>
       \/ /\ root = "default"
          /\ log' = rotation.keep /\ ended' = TRUE
          /\ decided' = IF log = rotation.read THEN decided ELSE "lost"
          /\ UNCHANGED legacy
       \/ /\ root = "custom"
          /\ legacy' = rotation.keep
          /\ UNCHANGED <<log, ended, decided>>
    /\ rotation' = Idle
    /\ UNCHANGED <<now, root, machine, start, ui>>

-----------------------------------------------------------------------------
\* Around the app

\* stop_for_exit takes the container away and records nothing; a killed app
\* does neither.  The next launch fixes the storage root, rotates, and restores
\* what was enabled.
Relaunch ==
    /\ agent' \in {agent} \cup (IF engine /\ enabled THEN {FALSE} ELSE {})
    /\ env' \in BOOLEAN /\ root' \in {"default", "custom"}
    /\ rotation' = [Idle EXCEPT !.at = "due"]
    /\ start' = {} /\ ui' = "idle"
    /\ UNCHANGED <<now, log, ended, legacy, engine, enabled, decided>>

\* An engine that returns starts the container again (`unless-stopped`).
EngineTurns ==
    /\ engine' = ~engine
    /\ UNCHANGED <<now, root, logs, env, agent, enabled, start, ui, decided>>

ClockMoves ==
    /\ now' \in 0..MaxNow \ {now}
    /\ UNCHANGED <<root, logs, machine, start, ui, decided>>

Next ==
    \/ ToggleOn \/ confirmConsent \/ cancelConsent \/ ToggleRefused
    \/ ToggleStarts \/ TaskStarts
    \/ \E s \in {"user", "task"} : StartRuns(s) \/ StartFails(s)
    \/ ToggleOff \/ StopRecords \/ ToggleOffFails \/ revoke_consent
    \/ RotationReads \/ RotationArchives \/ RotationSwaps
    \/ Relaunch \/ EngineTurns \/ ClockMoves

Fairness == WF_vars(RotationReads \/ RotationArchives \/ RotationSwaps)
            /\ WF_vars(StopRecords) /\ WF_vars(revoke_consent)
            /\ \A s \in {"user", "task"} : WF_vars(StartRuns(s))

Spec == Init /\ [][Next]_vars /\ Fairness
-----------------------------------------------------------------------------
\* What FEM reads as a consent is the owner's last recorded decision: no
\* rotation, move of the storage root, set clock, torn line or exit brings a
\* withdrawn consent back (pawns.rs 182-255, 524-568), except in the two ways in
\* which the code loses a decision it had recorded: the swap of a rotation that
\* had read the log before, and the line it was written behind, or before,
\* without a newline in between.
ConsentIsTheOwners == consent_active => decided \in {"consent", "lost"}

\* A consent in force ends by the owner's own act, or by a launch with another
\* storage root, or by a line written under a clock that was set back behind the
\* record in force, or with a lost decision: restarts, exits and rotation never
\* withdraw it otherwise (pawns.rs 363-380, main.rs 236-247).
OnlyTheOwnerWithdraws ==
    [][consent_active /\ ~consent_active' =>
         \/ decided' \in {"withdrawal", "lost"} \/ root' # root
         \/ log' # log /\ now < consent_record.at]_vars

\* The rotation runs "before the UI can toggle anything" (main.rs 902-904), and a
\* half-written line must not withdraw a consent.  Does not hold: the rotation
\* is a task nobody waits for, and no append looks for a missing newline.
NoDecisionIsLost == decided # "lost"

\* The disclosure the owner agrees to: off means off.  Does not hold: `rm -f`
\* during an outage of Docker fails, and the engine brings the container back.
SharingEnds == (decided = "withdrawal" /\ ~env /\ ~enabled) ~>
                   (~sharing \/ decided = "consent" \/ env \/ enabled)
=============================================================================
