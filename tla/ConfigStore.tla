---------------------------- MODULE ConfigStore ----------------------------
(***************************************************************************)
(* config/store.rs: the configuration in memory, its primary file and the  *)
(* two copies, through updates, failed writes, crashes between the writes  *)
(* of one save, files lost or damaged from outside, and the load that      *)
(* falls through primary, backup and roaming copy.                         *)
(*                                                                         *)
(* A content is known by the update that made it and the miner key it      *)
(* holds, itself known by the update that entered it; 0 is none.           *)
(***************************************************************************)
EXTENDS Naturals, Sequences

CONSTANTS
    MaxUpdates,   \* bound on updates
    MaxLosses,    \* bound on files lost or damaged from outside
    MaxReadErrs,  \* bound on loads that cannot read a file that is there
    MaxWriteErrs, \* bound on writes that fail
    Absent, Corrupt

ASSUME BoundsAssumption == {MaxUpdates, MaxLosses, MaxReadErrs, MaxWriteErrs} \subseteq Nat

Content == [seq : 0..MaxUpdates, key : 0..MaxUpdates]
Default == [seq |-> 0, key |-> 0]

ASSUME FileAssumption == Absent \notin Content /\ Corrupt \notin Content /\ Absent # Corrupt

VARIABLES
    up,        \* whether the app runs
    mem,       \* the configuration in memory
    todo,      \* targets the save under way has yet to write, in order
    file,      \* what each target holds
    warned,    \* whether the last load left a warning for the UI
    acked,     \* history: the last update that returned Ok, or the older one a launch
               \* since fell back to
    behind,    \* history: copies whose last write failed
    damaged,   \* history: targets lost or damaged since they were written
    updates, losses, readErrs, writeErrs

vars == <<up, mem, todo, file, warned, acked, behind, damaged,
          updates, losses, readErrs, writeErrs>>

Target == {"primary", "backup", "roaming"}
Order == <<"primary", "backup", "roaming">>

Init ==
    /\ up = FALSE /\ mem = Default /\ todo = <<>>
    /\ file = [t \in Target |-> Absent]
    /\ warned = FALSE
    /\ acked = Default /\ behind = {} /\ damaged = {}
    /\ updates = 0 /\ losses = 0 /\ readErrs = 0 /\ writeErrs = 0

-----------------------------------------------------------------------------
(* Loading.                                                                *)

\* The places in Order whose file a load takes that cannot read some of them.
Loadable(f, unreadable) ==
    {i \in 1..3 : f[Order[i]] \in Content /\ Order[i] \notin unreadable}

\* A deviation: the last copy wins.
SourceLast(f, unreadable) ==
    LET is == Loadable(f, unreadable)
    IN  IF is = {} THEN 4 ELSE CHOOSE i \in is : \A j \in is : j <= i

Source(f, unreadable) ==
    LET is == Loadable(f, unreadable)
    IN  IF is = {} THEN 4 ELSE CHOOSE i \in is : \A j \in is : i <= j

Loaded(f, unreadable) ==
    IF Source(f, unreadable) = 4 THEN Default ELSE f[Order[Source(f, unreadable)]]

\* Corrupt files met on the way are set aside.
Quarantined(f, unreadable) ==
    {t \in Target \ unreadable :
        f[t] = Corrupt /\ \E i \in 1..3 : Order[i] = t /\ i < Source(f, unreadable)}

\* A deviation the runs must notice: only files still in place count.
WarnsIfAnyLeft(f, unreadable) ==
    \/ Source(f, unreadable) \in {2, 3}
    \/ /\ Source(f, unreadable) = 4
       /\ \E t \in Target \ Quarantined(f, unreadable) : f[t] # Absent

\* Recovered from a copy, or reset although something had been there.
Warns(f, unreadable) ==
    \/ Source(f, unreadable) \in {2, 3}
    \/ Source(f, unreadable) = 4 /\ \E t \in Target : f[t] # Absent

\* The primary is rebuilt from the copy a registration was recovered from.
Repersists(i, content) == i \in {2, 3} /\ content.key # 0

Start(unreadable) ==
    LET content == Loaded(file, unreadable)
    IN  /\ ~up /\ up' = TRUE
        /\ mem' = content
        /\ file' = [t \in Target |->
               IF t \in Quarantined(file, unreadable) THEN Absent ELSE file[t]]
        /\ warned' = Warns(file, unreadable)
        /\ todo' = IF Repersists(Source(file, unreadable), content) THEN Order ELSE <<>>
        /\ acked' = IF content.seq < acked.seq THEN content ELSE acked
        /\ UNCHANGED <<behind, damaged, updates, losses, writeErrs>>

Launch == Start({}) /\ UNCHANGED readErrs

\* A file that is there but cannot be read just now counts as missing.
LaunchUnread ==
    /\ readErrs < MaxReadErrs /\ readErrs' = readErrs + 1
    /\ \E t \in Target : file[t] # Absent /\ Start({t})

-----------------------------------------------------------------------------
(* Updating: the closure runs on the memory, then the targets are written. *)

\* A deviation: the key that was stored before decides.
TargetsOfOldKey(old, new) == IF old.key # 0 THEN Order ELSE <<"primary">>

\* Redundant copies only once a real registration exists.
Targets(old, new) == IF new.key # 0 THEN Order ELSE <<"primary">>

Update(key) ==
    /\ up /\ todo = <<>> /\ updates < MaxUpdates
    /\ updates' = updates + 1
    /\ mem' = [seq |-> updates + 1, key |-> key]
    /\ todo' = Targets(mem, mem')
    /\ UNCHANGED <<up, file, warned, acked, behind, damaged, losses, readErrs, writeErrs>>

Register == Update(updates + 1)
Deregister == mem.key # 0 /\ Update(0)
ChangeSetting == Update(mem.key)

\* An update is acknowledged as soon as its primary is written.
Acknowledge(t) == acked' = IF t = "primary" /\ mem.seq > acked.seq THEN mem ELSE acked

\* write_atomic: the temp is flushed, then renamed over the target.
Rename(t) ==
    /\ todo' = Tail(todo)
    /\ file' = [file EXCEPT ![t] = mem]
    /\ Acknowledge(t)
    /\ behind' = behind \ {t} /\ damaged' = damaged \ {t}
    /\ UNCHANGED <<up, mem, warned, writeErrs>>

Write ==
    /\ up /\ todo # <<>> /\ Rename(Head(todo))
    /\ UNCHANGED <<updates, losses, readErrs>>

\* A failed primary ends the save with an error; a failed copy is logged. The
\* memory keeps the change either way.
WriteFails ==
    /\ up /\ todo # <<>>
    /\ writeErrs < MaxWriteErrs /\ writeErrs' = writeErrs + 1
    /\ todo' = IF Head(todo) = "primary" THEN <<>> ELSE Tail(todo)
    /\ behind' = behind \cup
           (IF Head(todo) = "primary" THEN {Order[i] : i \in 2..Len(todo)} ELSE {Head(todo)})
    /\ UNCHANGED <<up, mem, file, warned, acked, damaged, updates, losses, readErrs>>

\* The process is killed; the targets not yet renamed keep what they held.
Crash ==
    /\ up
    /\ up' = FALSE /\ mem' = Default /\ todo' = <<>> /\ warned' = FALSE
    /\ behind' = behind \cup {todo[i] : i \in DOMAIN todo}
    /\ UNCHANGED <<file, acked, damaged, updates, losses, readErrs, writeErrs>>

\* A file is deleted or damaged from outside, or the whole Local profile is
\* wiped.
Lost ==
    /\ losses < MaxLosses /\ losses' = losses + 1
    /\ \E ts \in {{t} : t \in Target} \cup {{"primary", "backup"}}, left \in {Absent, Corrupt} :
           /\ file' = [t \in Target |-> IF t \in ts /\ file[t] # Absent THEN left ELSE file[t]]
           /\ damaged' = damaged \cup ts
    /\ UNCHANGED <<up, mem, todo, warned, acked, behind, updates, readErrs, writeErrs>>

Next ==
    \/ Launch \/ LaunchUnread
    \/ Register \/ Deregister \/ ChangeSetting
    \/ Write \/ WriteFails \/ Crash \/ Lost

Spec == Init /\ [][Next]_vars

-----------------------------------------------------------------------------
(* Properties.                                                             *)

\* What a save may have left to write.
Pending == {Order, <<"backup", "roaming">>, <<"roaming">>, <<"primary">>, <<>>}

\* Types; a target is only ever corrupt because something outside made it so.
TypeOK ==
    /\ up \in BOOLEAN /\ warned \in BOOLEAN
    /\ mem \in Content /\ acked \in Content
    /\ todo \in Pending
    /\ file \in [Target -> Content \cup {Absent, Corrupt}]
    /\ \A t \in Target : file[t] = Corrupt => t \in damaged
    /\ behind \subseteq Target /\ damaged \subseteq Target
    /\ updates \in 0..MaxUpdates /\ losses \in 0..MaxLosses
    /\ readErrs \in 0..MaxReadErrs /\ writeErrs \in 0..MaxWriteErrs

\* B7: a registration that is stored with its copies is loaded again whichever
\* one file, or whichever profile, is lost.
KeySurvivesLoss ==
    (up /\ todo = <<>> /\ mem.key # 0 /\ behind = {} /\ damaged = {} /\ acked = mem) =>
        \A ts \in {{t} : t \in Target} \cup {{"primary", "backup"}}, left \in {Absent, Corrupt} :
            Loaded([t \in Target |-> IF t \in ts THEN left ELSE file[t]], {}).key = mem.key

\* An update that returned Ok is loaded again after any crash, as long as
\* nothing outside damaged the primary and no launch failed to read it.
AckedSurvives ==
    ("primary" \notin damaged /\ readErrs = 0) => Loaded(file, {}).seq >= acked.seq

\* Falling back to something older than what was acknowledged is never silent
\* while a trace of the configuration is left.
NeverSilentlyOlder ==
    [][~up /\ up' /\ mem'.seq < acked.seq /\ (\E t \in Target : file[t] # Absent)
         => warned']_vars

\* A key the user deregistered does not come back.
DeregisteredStaysGone ==
    [][~up /\ up' /\ acked.key = 0 => mem'.key = 0]_vars
=============================================================================
