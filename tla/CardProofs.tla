---------------------------- MODULE CardProofs ----------------------------
(***************************************************************************)
(* Proofs about what stands behind the cards: the card commands (Toggle)   *)
(* and the gate their UAC prompts pass (ElevationGate), for any cards,     *)
(* callers, slots and numbers of presses, exits, failing saves and         *)
(* gestures.                                                               *)
(***************************************************************************)
EXTENDS MCCards, TLAPS

-----------------------------------------------------------------------------
\* The card commands: what the proof needs to know of types.

Places ==
    {"checked", "armed", "rearming", "installing", "starting", "stopping",
     "setting", "saving"}

Spents == [presses : Nat, faults : Nat, restarts : Nat]

KTyped ==
    /\ enabled \in [Id -> BOOLEAN]
    /\ intent \in [Id -> Intent] /\ saved \in [Id -> Intent]
    /\ call \in [Call -> {Idle} \cup Command]
    /\ pending \subseteq Id /\ spent \in Spents

\* The id, kind and early write of a command go with its place.
KindFits(c) ==
    /\ call[c].at \in {"checked", "armed", "rearming"} => call[c].kind = "on"
    /\ call[c].at = "stopping" => call[c].kind = "off"
    /\ call[c].at \in {"installing", "starting"} => call[c].kind # "off"
    /\ call[c].wrote # "nothing" =>
          Enabling(c) /\ call[c].id = "diiisco"

Kinds == \A c \in Call : Busy(c) => KindFits(c)

\* An enable that has passed its checks goes with every mark.
Marked ==
    \A i \in pending : \E c \in Of(i) :
        call[c].kind = "on" /\ call[c].at # "checked"

Alone == \A i \in Id \ entangled : \A c, d \in Of(i) : c = d

\* The flag of card i and an intent say the same, or the intent was kept.
Agree(i, said) == (enabled[i] <=> said = "on") \/ (i \in kept /\ said = "on")

\* What was on disk before the command's early write.
Prior(c) == IF call[c].wrote = "nothing" THEN saved[call[c].id] ELSE call[c].wrote

Going(c) ==
    /\ call[c].wrote # "nothing" => saved[call[c].id] = "on"
    /\ Enabling(c) => call[c].wrote # "nothing"
    /\ IF call[c].at = "saving"
       THEN enabled[call[c].id] <=> call[c].kind # "off"
       ELSE Agree(call[c].id, Prior(c))

CardFine(i) ==
    /\ Of(i) = {} => Agree(i, saved[i])
    /\ \A c \in Of(i) : Going(c)

\* While no save fails the disk has what the memory has.
Consistent ==
    spent.faults = 0 =>
        /\ intent = saved
        /\ \A i \in Id \ entangled : CardFine(i)

KInv == KTyped /\ Kinds /\ Marked /\ Alone /\ Consistent

\* What the types say of a slot.
LEMMA CallTyped ==
  ASSUME KTyped, NEW c \in Call
  PROVE  /\ Busy(c) => /\ call[c] \in Command
                             /\ call[c].at \in Places /\ call[c].id \in Id
                             /\ call[c].kind \in {"on", "off", "reinstall"}
                             /\ call[c].wrote \in Intent \cup {"nothing"}
         /\ ~Busy(c) => call[c] = Idle
BY DEF KTyped, Busy, Command, Places

\* A command is not the idle record.
LEMMA NotIdle ==
  ASSUME NEW r \in Command
  PROVE  r # Idle
BY DEF Command, Idle

\* A command goes on to another place.
LEMMA WentOn ==
  ASSUME KTyped, NEW c \in Call, Busy(c), NEW place \in Places,
         Goto(c, place)
  PROVE  /\ call' \in [Call -> {Idle} \cup Command]
         /\ \A d \in Call \ {c} : call'[d] = call[d]
         /\ call'[c] \in Command
         /\ call'[c].at = place /\ call'[c].id = call[c].id
         /\ call'[c].kind = call[c].kind /\ call'[c].wrote = call[c].wrote
<1> DEFINE r == [call[c] EXCEPT !.at = place]
<1>1. /\ r \in Command
      /\ r.at = place /\ r.id = call[c].id /\ r.kind = call[c].kind
      /\ r.wrote = call[c].wrote
  BY CallTyped DEF Command, Places
<1>2. call' = [call EXCEPT ![c] = r]
  BY DEF Goto, KTyped
<1> HIDE DEF r
<1> QED
  BY <1>1, <1>2 DEF KTyped

\* A slot becomes free.
LEMMA Ending ==
  ASSUME KTyped, NEW c \in Call, call' = [call EXCEPT ![c] = Idle]
  PROVE  /\ call' \in [Call -> {Idle} \cup Command]
         /\ \A d \in Call \ {c} : call'[d] = call[d]
         /\ call'[c] = Idle
BY DEF KTyped

\* What a step of command c on its card must show: nothing else is disturbed.
LEMMA OneCard ==
  ASSUME KInv, NEW c \in Call, Busy(c), NEW i, i = call[c].id,
         call' \in [Call -> {Idle} \cup Command],
         \A d \in Call \ {c} : call'[d] = call[d],
         \/ call'[c] = Idle
         \/ call'[c] \in Command /\ call'[c].id = i /\ KindFits(c)',
         enabled' \in [Id -> BOOLEAN],
         intent' \in [Id -> Intent], saved' \in [Id -> Intent],
         spent'.faults = 0 => \A j \in Id \ {i} :
             /\ enabled'[j] = enabled[j] /\ saved'[j] = saved[j]
             /\ j \in kept' <=> j \in kept,
         entangled' = entangled, spent' \in Spents,
         spent'.faults = 0 => spent.faults = 0 /\ intent' = saved',
         \/ pending' = pending \ {i}
         \/ /\ pending' \in {pending, pending \cup {i}}
            /\ call'[c] # Idle /\ call'[c].kind = "on"
            /\ call'[c].at # "checked"
         \/ pending' = pending /\ (call[c].kind # "on" \/ call[c].at = "checked"),
         spent'.faults = 0 /\ Going(c) =>
             IF call'[c] = Idle THEN Agree(i, saved[i])' ELSE Going(c)'
  PROVE  KInv'
<1>1. KTyped /\ i \in Id
  BY CallTyped DEF KInv
<1>2. KTyped'
  BY <1>1 DEF KTyped
<1>3. Kinds'
  BY DEF KInv, Kinds, KindFits, Busy, Enabling
<1>4. \A j \in Id \ {i} : Of(j)' = Of(j)
  BY NotIdle DEF Of, Busy
<1>5. Of(i)' \subseteq Of(i) /\ c \in Of(i)
  BY DEF Of, Busy
<1>6. Marked'
  <2> SUFFICES ASSUME NEW j \in pending'
               PROVE  \E d \in Of(j)' :
                         call'[d].kind = "on" /\ call'[d].at # "checked"
    BY DEF Marked
  <2>1. CASE j # i
    <3>1. j \in pending /\ j \in Id
      BY <1>1, <2>1 DEF KTyped
    <3>2. PICK d \in Of(j) : call[d].kind = "on" /\ call[d].at # "checked"
      BY <3>1 DEF KInv, Marked
    <3>3. d \in Call \ {c}
      BY <2>1, <3>2 DEF Of
    <3> QED
      BY <1>4, <2>1, <3>1, <3>2, <3>3
  <2>2. CASE j = i /\ call'[c] # Idle /\ call'[c].kind = "on"
             /\ call'[c].at # "checked"
    BY <2>2 DEF Of, Busy
  <2>3. CASE j = i /\ pending' = pending
             /\ (call[c].kind # "on" \/ call[c].at = "checked")
    <3>1. PICK d \in Of(i) : call[d].kind = "on" /\ call[d].at # "checked"
      BY <2>3 DEF KInv, Marked
    <3>2. d \in Call \ {c}
      BY <2>3, <3>1 DEF Of
    <3>3. d \in Of(i)'
      BY <3>1, <3>2 DEF Of, Busy
    <3> QED
      BY <2>3, <3>1, <3>2, <3>3
  <2> QED
    BY <2>1, <2>2, <2>3
<1>7. Alone'
  BY <1>4, <1>5 DEF KInv, Alone
<1>8. Consistent'
  <2> SUFFICES ASSUME spent'.faults = 0, NEW j \in Id \ entangled
               PROVE  CardFine(j)'
    BY DEF Consistent
  <2>1. CASE j # i
    <3>1. CardFine(j) /\ Of(j)' = Of(j)
      BY <1>4, <2>1 DEF KInv, Consistent
    <3>2. \A d \in Of(j) : call'[d] = call[d] /\ call[d].id = j
      BY <2>1 DEF Of
    <3>3. /\ enabled'[j] = enabled[j] /\ saved'[j] = saved[j]
          /\ j \in kept' <=> j \in kept
      BY <2>1
    <3>4. ASSUME NEW d \in Of(j)
          PROVE  Going(d)'
      BY <3>1, <3>2, <3>3 DEF CardFine, Going, Agree, Prior, Enabling, Busy
    <3>5. Of(j) = {} => Agree(j, saved[j])'
      BY <3>1, <3>3 DEF CardFine, Agree
    <3> QED
      BY <3>1, <3>4, <3>5 DEF CardFine
  <2>2. CASE j = i
    <3>1. Of(i) = {c} /\ Going(c)
      BY <1>1, <1>5, <2>2 DEF KInv, Alone, Consistent, CardFine
    <3>2. IF call'[c] = Idle THEN Agree(i, saved[i])' ELSE Going(c)'
      BY <3>1
    <3>3. CASE call'[c] = Idle
      <4>1. Of(i)' = {}
        BY <1>5, <3>1, <3>3 DEF Of, Busy
      <4> QED
        BY <2>2, <3>2, <3>3, <4>1 DEF CardFine
    <3>4. CASE call'[c] # Idle
      <4>1. Of(i)' = {c}
        BY <1>5, <3>1, <3>4 DEF Of, Busy
      <4> QED
        BY <2>2, <3>2, <3>4, <4>1 DEF CardFine
    <3> QED
      BY <3>3, <3>4
  <2> QED
    BY <2>1, <2>2
<1> QED
  BY <1>2, <1>3, <1>6, <1>7, <1>8 DEF KInv

\* What NoSave and Save leave, when one entry of the map is new.
LEMMA Saving ==
  ASSUME KInv, NEW i \in Id, NEW said \in Intent,
         Save([intent EXCEPT ![i] = said])
  PROVE  /\ intent' \in [Id -> Intent] /\ saved' \in [Id -> Intent]
         /\ spent' \in Spents
         /\ spent'.faults = 0 =>
               /\ spent.faults = 0 /\ intent' = saved' /\ saved'[i] = said
               /\ \A j \in Id \ {i} : saved'[j] = saved[j]
<1> DEFINE new == [intent EXCEPT ![i] = said]
<1>1. new \in [Id -> Intent] /\ new[i] = said
  BY DEF KInv, KTyped
<1>2. \A j \in Id \ {i} : new[j] = intent[j]
  BY DEF KInv, KTyped
<1>3. Save(new)
  OBVIOUS
<1> HIDE DEF new
<1>4. CASE SaveOk(new)
  BY <1>1, <1>2, <1>4 DEF SaveOk, KInv, KTyped, Consistent
<1>5. CASE SaveFails(new)
  <2>1. intent' = new /\ saved' = saved
    BY <1>5 DEF SaveFails
  <2>2. spent' \in Spents /\ spent'.faults # 0
    BY <1>5 DEF SaveFails, Spend, KInv, KTyped, Spents
  <2> QED
    BY <1>1, <2>1, <2>2 DEF KInv, KTyped
<1> QED
  BY <1>3, <1>4, <1>5 DEF Save

\* What a step without a save leaves.
LEMMA NotSaving ==
  ASSUME KInv, NoSave
  PROVE  /\ intent' \in [Id -> Intent] /\ saved' \in [Id -> Intent]
         /\ spent' \in Spents /\ saved' = saved
         /\ spent'.faults = 0 => spent.faults = 0 /\ intent' = saved'
BY DEF NoSave, KInv, KTyped, Consistent

\* Ends a command: its slot and its mark.
LEMMA Returning ==
  ASSUME KInv, NEW c \in Call, Busy(c), Return(c)
  PROVE  /\ call' \in [Call -> {Idle} \cup Command]
         /\ \A d \in Call \ {c} : call'[d] = call[d]
         /\ call'[c] = Idle
         /\ \/ pending' = pending \ {call[c].id}
            \/ pending' = pending /\ call[c].kind # "on"
<1>1. call' = [call EXCEPT ![c] = Idle]
  BY DEF Return
<1>2. /\ call' \in [Call -> {Idle} \cup Command]
      /\ \A d \in Call \ {c} : call'[d] = call[d]
      /\ call'[c] = Idle
  BY <1>1, Ending DEF KInv
<1> QED
  BY <1>2 DEF Return

\* What is known of a busy slot.
LEMMA Known ==
  ASSUME KInv, NEW c \in Call, Busy(c)
  PROVE  /\ call[c] \in Command /\ call[c].at \in Places /\ call[c].id \in Id
         /\ call[c].kind \in {"on", "off", "reinstall"}
         /\ call[c].wrote \in Intent \cup {"nothing"}
         /\ KindFits(c) /\ KTyped
         /\ enabled \in [Id -> BOOLEAN] /\ saved \in [Id -> Intent]
BY CallTyped DEF KInv, Kinds, KTyped

\* A command that goes on, or ends, without touching a flag or an intent.
LEMMA MovesOn ==
  ASSUME KInv, NEW c \in Call, Busy(c), NEW place \in Places, Goto(c, place),
         NoSave, UNCHANGED <<enabled, entangled, kept>>,
         \/ pending' = pending /\ call[c].at # "checked"
         \/ pending' = pending \cup {call[c].id} /\ call[c].kind = "on",
         place # "checked", place # "saving", call[c].at # "saving",
         place = "armed" => call[c].at = "checked",
         place = "rearming" => call[c].at = "armed",
         place = "stopping" => call[c].kind = "off",
         place \in {"installing", "starting"} =>
             call[c].kind # "off" /\ call[c].at \in {"installing", "starting"},
         place = "setting" => call[c].at \in {"installing", "starting", "stopping"}
  PROVE  KInv'
<1>1. call[c].id \in Id /\ KindFits(c) /\ KTyped
  BY Known
<1>2. /\ call' \in [Call -> {Idle} \cup Command]
      /\ \A d \in Call \ {c} : call'[d] = call[d]
      /\ call'[c] \in Command
      /\ call'[c].at = place /\ call'[c].id = call[c].id
      /\ call'[c].kind = call[c].kind /\ call'[c].wrote = call[c].wrote
  BY <1>1, WentOn
<1>3. call'[c] # Idle
  BY <1>2, NotIdle
<1>4. /\ intent' \in [Id -> Intent] /\ saved' \in [Id -> Intent]
      /\ spent' \in Spents /\ saved' = saved
      /\ spent'.faults = 0 => spent.faults = 0 /\ intent' = saved'
  BY NotSaving
<1>5. Enabling(c)' <=> Enabling(c)
  BY <1>1, <1>2, <1>3 DEF Enabling, Busy, KindFits, Places
<1>6. KindFits(c)'
  BY <1>1, <1>2, <1>5 DEF KindFits
<1>7. Going(c) => Going(c)'
  BY <1>2, <1>4, <1>5 DEF Going, Agree, Prior
<1>10. PICK i \in Id : i = call[c].id
  BY <1>1
<1>8. /\ enabled' \in [Id -> BOOLEAN] /\ entangled' = entangled
      /\ \A j \in Id \ {i} : /\ enabled'[j] = enabled[j] /\ saved'[j] = saved[j]
                             /\ j \in kept' <=> j \in kept
  BY <1>1, <1>4 DEF KTyped
<1>9. \/ /\ pending' \in {pending, pending \cup {i}}
         /\ call'[c] # Idle /\ call'[c].kind = "on"
         /\ call'[c].at # "checked"
      \/ pending' = pending /\ (call[c].kind # "on" \/ call[c].at = "checked")
  BY <1>2, <1>3, <1>10
<1>11. \/ call'[c] = Idle
       \/ call'[c] \in Command /\ call'[c].id = i /\ KindFits(c)'
  BY <1>2, <1>6, <1>10
<1>12. spent'.faults = 0 /\ Going(c) =>
         IF call'[c] = Idle THEN Agree(i, saved[i])' ELSE Going(c)'
  BY <1>3, <1>7
<1> HIDE DEF KInv, Busy, KindFits, Agree, Going, Enabling
<1>13. spent'.faults = 0 => \A j \in Id \ {i} :
          /\ enabled'[j] = enabled[j] /\ saved'[j] = saved[j]
          /\ j \in kept' <=> j \in kept
  BY <1>8
<1>14. spent'.faults = 0 => spent.faults = 0 /\ intent' = saved'
  BY <1>4
<1>15. \/ pending' = pending \ {i}
       \/ /\ pending' \in {pending, pending \cup {i}}
          /\ call'[c] # Idle /\ call'[c].kind = "on"
          /\ call'[c].at # "checked"
       \/ pending' = pending /\ (call[c].kind # "on" \/ call[c].at = "checked")
  BY <1>9
<1> QED
  BY <1>2, <1>4, <1>8, <1>10, <1>11, <1>12, <1>13, <1>14, <1>15, OneCard

\* A command ends: its card is consistent by itself.
LEMMA Ends ==
  ASSUME KInv, NEW c \in Call, Busy(c), NEW i \in Id, i = call[c].id,
         \/ Return(c)
         \/ /\ call' = [call EXCEPT ![c] = Idle] /\ pending' = pending
            /\ call[c].at = "checked",
         enabled' = enabled, entangled' = entangled,
         intent' \in [Id -> Intent], saved' \in [Id -> Intent], spent' \in Spents,
         spent'.faults = 0 =>
             /\ spent.faults = 0 /\ intent' = saved'
             /\ \A j \in Id \ {i} : saved'[j] = saved[j] /\ (j \in kept' <=> j \in kept),
         spent'.faults = 0 /\ Going(c) => Agree(i, saved[i])'
  PROVE  KInv'
<1>1. KTyped
  BY DEF KInv
<1>2. call' = [call EXCEPT ![c] = Idle]
  BY DEF Return
<1>3. /\ call' \in [Call -> {Idle} \cup Command]
      /\ \A d \in Call \ {c} : call'[d] = call[d]
      /\ call'[c] = Idle
  BY <1>1, <1>2, Ending
<1>4. \/ pending' = pending \ {i}
      \/ pending' = pending /\ (call[c].kind # "on" \/ call[c].at = "checked")
  BY DEF Return
<1>5. spent'.faults = 0 /\ Going(c) =>
         IF call'[c] = Idle THEN Agree(i, saved[i])' ELSE Going(c)'
  BY <1>3
<1>6. enabled' \in [Id -> BOOLEAN]
  BY <1>1 DEF KTyped
<1>7. spent'.faults = 0 => \A j \in Id \ {i} :
          /\ enabled'[j] = enabled[j] /\ saved'[j] = saved[j]
          /\ j \in kept' <=> j \in kept
  OBVIOUS
<1>8. spent'.faults = 0 => spent.faults = 0 /\ intent' = saved'
  OBVIOUS
<1> HIDE DEF KInv, Busy, KindFits, Agree, Going, Return
<1> QED
  BY <1>3, <1>4, <1>5, <1>6, <1>7, <1>8, OneCard

\* ... without a save, in a refusal or a failed stop.
LEMMA Refused ==
  ASSUME KInv, NEW c \in Call, Busy(c),
         PreChecksRefuse(c) \/ RequirementsRefuse(c) \/ StopFails(c)
  PROVE  KInv'
<1>1. call[c].id \in Id /\ KindFits(c)
  BY Known
<1>2. PICK i \in Id : i = call[c].id
  BY <1>1
<1>3. /\ intent' \in [Id -> Intent] /\ saved' \in [Id -> Intent]
      /\ spent' \in Spents /\ saved' = saved
      /\ spent'.faults = 0 => spent.faults = 0 /\ intent' = saved'
  BY NotSaving DEF PreChecksRefuse, RequirementsRefuse, StopFails
<1>4. /\ \/ Return(c)
         \/ /\ call' = [call EXCEPT ![c] = Idle] /\ pending' = pending
            /\ call[c].at = "checked"
      /\ enabled' = enabled /\ entangled' = entangled /\ kept' = kept
  BY DEF PreChecksRefuse, RequirementsRefuse, StopFails
<1>5. call[c].at \in {"checked", "armed", "stopping"}
  BY DEF PreChecksRefuse, RequirementsRefuse, StopFails
<1>6. Going(c) => Agree(i, saved[i])'
  BY <1>1, <1>2, <1>3, <1>4, <1>5 DEF Going, KindFits, Enabling, Prior, Agree
<1> HIDE DEF KInv, Busy, KindFits, Agree, Going, Return
<1> QED
  BY <1>2, <1>3, <1>4, <1>6, Ends

\* ... in a failed step, which undoes the early write of Diiisco.
LEMMA Failed ==
  ASSUME KInv, NEW c \in Call, Busy(c), StepFails(c)
  PROVE  KInv'
<1>1. call[c].id \in Id /\ KindFits(c) /\ call[c].wrote \in Intent \cup {"nothing"}
      /\ call[c].kind \in {"on", "off", "reinstall"}
  BY Known
<1>2. PICK i \in Id : i = call[c].id
  BY <1>1
<1>3. /\ call[c].at \in {"installing", "starting"} /\ Return(c)
      /\ enabled' = enabled /\ entangled' = entangled /\ kept' = kept
  BY DEF StepFails
<1>4. /\ intent' \in [Id -> Intent] /\ saved' \in [Id -> Intent]
      /\ spent' \in Spents
      /\ spent'.faults = 0 =>
            /\ spent.faults = 0 /\ intent' = saved'
            /\ \A j \in Id \ {i} : saved'[j] = saved[j]
            /\ Going(c) => Agree(i, saved[i])'
  <2>1. CASE Undoes(c)
    <3>1. Save(Restored(i, call[c].wrote))
      BY <1>2, <2>1 DEF StepFails
    <3>2. call[c].wrote \in Intent
      BY <1>1, <2>1 DEF Undoes
    <3>3. CASE intent[i] = "on"
      <4>1. Save([intent EXCEPT ![i] = call[c].wrote])
        BY <3>1, <3>3 DEF Restored
      <4>2. PICK said \in Intent : said = call[c].wrote
        BY <3>2
      <4>3. Save([intent EXCEPT ![i] = said])
        BY <4>1, <4>2
      <4>4. /\ intent' \in [Id -> Intent] /\ saved' \in [Id -> Intent]
            /\ spent' \in Spents
            /\ spent'.faults = 0 =>
                  /\ spent.faults = 0 /\ intent' = saved' /\ saved'[i] = said
                  /\ \A j \in Id \ {i} : saved'[j] = saved[j]
        BY <4>3, Saving
      <4>5. Going(c) => (enabled[i] <=> said = "on") \/ (i \in kept /\ said = "on")
        BY <1>2, <1>3, <2>1, <4>2 DEF Going, Prior, Agree, Undoes
      <4>6. spent'.faults = 0 /\ Going(c) => Agree(i, saved[i])'
        BY <1>3, <4>4, <4>5 DEF Agree
      <4> QED
        BY <4>4, <4>6
    <3>4. CASE intent[i] # "on"
      <4>1. PICK said \in Intent : said = intent[i]
        BY <1>2 DEF KInv, KTyped
      <4>2. intent = [intent EXCEPT ![i] = said]
        BY <4>1 DEF KInv, KTyped
      <4>3. Save([intent EXCEPT ![i] = said])
        BY <3>1, <3>4, <4>2 DEF Restored
      <4>4. /\ intent' \in [Id -> Intent] /\ saved' \in [Id -> Intent]
            /\ spent' \in Spents
            /\ spent'.faults = 0 =>
                  /\ spent.faults = 0 /\ intent' = saved'
                  /\ \A j \in Id \ {i} : saved'[j] = saved[j]
        BY <4>3, Saving
      <4>5. spent.faults = 0 => ~Going(c)
        BY <1>2, <2>1, <3>4 DEF Going, Undoes, KInv, Consistent
      <4> QED
        BY <4>4, <4>5
    <3> QED
      BY <3>3, <3>4
  <2>2. CASE ~Undoes(c)
    <3>1. NoSave
      BY <2>2 DEF StepFails
    <3>2. /\ intent' \in [Id -> Intent] /\ saved' \in [Id -> Intent]
          /\ spent' \in Spents /\ saved' = saved
          /\ spent'.faults = 0 => spent.faults = 0 /\ intent' = saved'
      BY <3>1, NotSaving
    <3>3. Going(c) => Agree(i, saved[i])'
      BY <1>1, <1>2, <1>3, <2>2, <3>2
         DEF Going, KindFits, Enabling, Prior, Agree, Undoes
    <3> QED
      BY <3>2, <3>3
  <2> QED
    BY <2>1, <2>2
<1> HIDE DEF KInv, Busy, KindFits, Agree, Going, Return
<1> QED
  BY <1>2, <1>3, <1>4, Ends

\* ... in a failure that keeps the intent of Diiisco.
LEMMA KeptOn ==
  ASSUME KInv, NEW c \in Call, Busy(c), StepKeepsIntent(c)
  PROVE  KInv'
<1>1. PICK i \in Id : i = call[c].id
  BY Known
<1>2. /\ Return(c) /\ enabled' = enabled /\ entangled' = entangled
      /\ kept' = kept \cup {i} /\ Save([intent EXCEPT ![i] = "on"])
  BY <1>1 DEF StepKeepsIntent
<1>3. /\ intent' \in [Id -> Intent] /\ saved' \in [Id -> Intent]
      /\ spent' \in Spents
      /\ spent'.faults = 0 =>
            /\ spent.faults = 0 /\ intent' = saved' /\ saved'[i] = "on"
            /\ \A j \in Id \ {i} : saved'[j] = saved[j]
  <2>1. "on" \in Intent
    BY DEF Intent
  <2> QED
    BY <1>2, <2>1, Saving
<1>4. spent'.faults = 0 => Agree(i, saved[i])'
  BY <1>2, <1>3 DEF Agree
<1>5. \A j \in Id \ {i} : j \in kept' <=> j \in kept
  BY <1>2
<1> HIDE DEF KInv, Busy, KindFits, Agree, Going, Return
<1> QED
  BY <1>1, <1>2, <1>3, <1>4, <1>5, Ends

\* ... in the save of what the card now is.
LEMMA Recorded ==
  ASSUME KInv, NEW c \in Call, Busy(c), call[c].at = "saving", Saved(c)
  PROVE  KInv'
<1>1. PICK i \in Id : i = call[c].id
  BY Known
<1>2. PICK said \in {"on", "off"} : said = IF call[c].kind = "off" THEN "off" ELSE "on"
  OBVIOUS
<1>3. Record(c) = [intent EXCEPT ![i] = said]
  BY <1>1, <1>2 DEF Record
<1>4. /\ Return(c) /\ enabled' = enabled /\ entangled' = entangled
      /\ kept' = kept \ {i} /\ Save([intent EXCEPT ![i] = said])
  BY <1>1, <1>3 DEF Saved, Save
<1>5. /\ intent' \in [Id -> Intent] /\ saved' \in [Id -> Intent]
      /\ spent' \in Spents
      /\ spent'.faults = 0 =>
            /\ spent.faults = 0 /\ intent' = saved' /\ saved'[i] = said
            /\ \A j \in Id \ {i} : saved'[j] = saved[j]
  <2>1. said \in Intent
    BY DEF Intent
  <2> QED
    BY <1>4, <2>1, Saving
<1>6. spent'.faults = 0 /\ Going(c) => Agree(i, saved[i])'
  BY <1>1, <1>2, <1>4, <1>5 DEF Agree, Going
<1>7. \A j \in Id \ {i} : j \in kept' <=> j \in kept
  BY <1>4
<1> HIDE DEF KInv, Busy, KindFits, Agree, Going, Return
<1> QED
  BY <1>1, <1>4, <1>5, <1>6, <1>7, Ends

\* The steps that only go on.
LEMMA Moves ==
  ASSUME KInv, NEW c \in Call, Busy(c),
         PreChecksPass(c) \/ RequirementsPass(c) \/ Installed(c) \/ Started(c) \/ Stopped(c)
  PROVE  KInv'
<1>1. KindFits(c)
  BY Known
<1>2. CASE PreChecksPass(c)
  <2>1. /\ call[c].at = "checked" /\ Goto(c, "armed") /\ NoSave
        /\ UNCHANGED <<enabled, entangled, kept>>
        /\ pending' = pending \cup {call[c].id} /\ call[c].kind = "on"
    BY <1>1, <1>2 DEF PreChecksPass, KindFits
  <2>2. "armed" \in Places
    BY DEF Places
  <2> HIDE DEF KInv, Busy
  <2> QED
    BY <2>1, <2>2, MovesOn
<1>5. CASE RequirementsPass(c)
  <2>1. /\ call[c].at = "armed" /\ Goto(c, "rearming") /\ NoSave
        /\ UNCHANGED <<enabled, entangled, kept>>
        /\ pending' = pending
    BY <1>5 DEF RequirementsPass
  <2>2. "rearming" \in Places
    BY DEF Places
  <2> HIDE DEF KInv, Busy
  <2> QED
    BY <2>1, <2>2, MovesOn
<1>3. CASE Installed(c)
  <2>1. /\ call[c].at = "installing" /\ Goto(c, "starting") /\ NoSave
        /\ UNCHANGED <<enabled, entangled, kept>>
        /\ pending' = pending /\ call[c].kind # "off"
    BY <1>1, <1>3 DEF Installed, KindFits
  <2>2. "starting" \in Places
    BY DEF Places
  <2> HIDE DEF KInv, Busy
  <2> QED
    BY <2>1, <2>2, MovesOn
<1>4. CASE Started(c) \/ Stopped(c)
  <2>1. /\ call[c].at \in {"starting", "stopping"} /\ Goto(c, "setting") /\ NoSave
        /\ UNCHANGED <<enabled, entangled, kept>> /\ pending' = pending
    BY <1>4 DEF Started, Stopped
  <2>2. "setting" \in Places
    BY DEF Places
  <2> HIDE DEF KInv, Busy
  <2> QED
    BY <2>1, <2>2, MovesOn
<1> QED
  BY <1>2, <1>3, <1>4, <1>5

\* The flag is set before the intent is saved.
LEMMA FlagSet ==
  ASSUME KInv, NEW c \in Call, Busy(c), SetEnabled(c)
  PROVE  KInv'
<1>1. /\ call[c].id \in Id /\ KindFits(c) /\ KTyped
      /\ call[c].kind \in {"on", "off", "reinstall"}
  BY Known
<1>2. PICK i \in Id : i = call[c].id
  BY <1>1
<1>3. PICK flag \in BOOLEAN : flag = (call[c].kind # "off")
  OBVIOUS
<1>4. /\ call[c].at = "setting" /\ Goto(c, "saving") /\ NoSave
      /\ enabled' = [enabled EXCEPT ![i] = flag]
      /\ entangled' = entangled /\ kept' = kept /\ pending' = pending
  BY <1>2, <1>3 DEF SetEnabled
<1>5. /\ enabled' \in [Id -> BOOLEAN] /\ enabled'[i] = flag
      /\ \A j \in Id \ {i} : enabled'[j] = enabled[j]
  <2>1. enabled \in [Id -> BOOLEAN]
    BY <1>1 DEF KTyped
  <2> QED
    BY <1>4, <2>1
<1>6. "saving" \in Places
  BY DEF Places
<1>7. /\ call' \in [Call -> {Idle} \cup Command]
      /\ \A d \in Call \ {c} : call'[d] = call[d]
      /\ call'[c] \in Command
      /\ call'[c].at = "saving" /\ call'[c].id = call[c].id
      /\ call'[c].kind = call[c].kind /\ call'[c].wrote = call[c].wrote
  BY <1>1, <1>4, <1>6, WentOn
<1>8. call'[c] # Idle
  BY <1>7, NotIdle
<1>9. /\ intent' \in [Id -> Intent] /\ saved' \in [Id -> Intent]
      /\ spent' \in Spents /\ saved' = saved
      /\ spent'.faults = 0 => spent.faults = 0 /\ intent' = saved'
  BY <1>4, NotSaving
<1>10. Enabling(c)' <=> Enabling(c)
  BY <1>4, <1>7, <1>8 DEF Enabling, Busy
<1>11. KindFits(c)'
  BY <1>1, <1>7, <1>10 DEF KindFits
<1>12. Going(c) => Going(c)'
  BY <1>2, <1>3, <1>5, <1>7, <1>9, <1>10 DEF Going
<1>13. \/ call'[c] = Idle
       \/ call'[c] \in Command /\ call'[c].id = i /\ KindFits(c)'
  BY <1>2, <1>7, <1>11
<1>14. spent'.faults = 0 /\ Going(c) =>
         IF call'[c] = Idle THEN Agree(i, saved[i])' ELSE Going(c)'
  BY <1>8, <1>12
<1>15. spent'.faults = 0 => \A j \in Id \ {i} :
          /\ enabled'[j] = enabled[j] /\ saved'[j] = saved[j]
          /\ j \in kept' <=> j \in kept
  BY <1>4, <1>5, <1>9
<1>16. spent'.faults = 0 => spent.faults = 0 /\ intent' = saved'
  BY <1>9
<1>17. \/ pending' = pending \ {i}
       \/ /\ pending' \in {pending, pending \cup {i}}
          /\ call'[c] # Idle /\ call'[c].kind = "on"
          /\ call'[c].at # "checked"
       \/ pending' = pending /\ (call[c].kind # "on" \/ call[c].at = "checked")
  BY <1>4, <1>7, <1>8
<1> HIDE DEF KInv, Busy, KindFits, Agree, Going, Enabling
<1> QED
  BY <1>2, <1>4, <1>5, <1>7, <1>9, <1>13, <1>14, <1>15, <1>16, <1>17, OneCard

\* An enable that passed its checks and the gate; Diiisco's writes its intent
\* early.
LEMMA Passed ==
  ASSUME KInv, NEW c \in Call, Busy(c), Rearmed(c)
  PROVE  KInv'
<1>1. /\ call[c] \in Command /\ call[c].id \in Id /\ KindFits(c) /\ KTyped
      /\ saved \in [Id -> Intent] /\ enabled \in [Id -> BOOLEAN]
  BY Known
<1>2. PICK i \in Id : i = call[c].id
  BY <1>1
<1>3. /\ call[c].at = "rearming" /\ PersistEarly(c) /\ call[c].kind = "on"
      /\ UNCHANGED <<enabled, pending, entangled, kept>>
  BY <1>1 DEF Rearmed, KindFits
<1>4. PICK wrote \in Intent \cup {"nothing"} :
         /\ Advance(c, wrote)
         /\ \/ i # "diiisco" /\ NoSave /\ wrote = "nothing"
            \/ /\ i = "diiisco" /\ SaveOk([intent EXCEPT ![i] = "on"])
               /\ wrote = intent[i]
            \/ /\ i = "diiisco" /\ SaveFails([intent EXCEPT ![i] = "on"])
               /\ wrote = "nothing"
  <2>1. intent[i] \in Intent \cup {"nothing"}
    BY <1>1 DEF KTyped
  <2> QED
    BY <1>2, <1>3, <2>1 DEF PersistEarly
<1>5. PICK place \in {"starting", "installing"} :
         place = IF deployed[call[c].id] THEN "starting" ELSE "installing"
  OBVIOUS
<1>6. call' = [call EXCEPT ![c].at = place, ![c].wrote = wrote]
  BY <1>4, <1>5 DEF Advance
<1> DEFINE r == [call[c] EXCEPT !.at = place, !.wrote = wrote]
<1>7. /\ r \in Command /\ r.at = place /\ r.id = call[c].id
      /\ r.kind = call[c].kind /\ r.wrote = wrote
  BY <1>1, <1>4, <1>5 DEF Command
<1>8. call' = [call EXCEPT ![c] = r]
  BY <1>1, <1>6 DEF KTyped
<1> HIDE DEF r
<1>9. /\ call' \in [Call -> {Idle} \cup Command]
      /\ \A d \in Call \ {c} : call'[d] = call[d]
      /\ call'[c] = r
  BY <1>1, <1>7, <1>8 DEF KTyped
<1>10. call'[c] # Idle
  BY <1>7, <1>9, NotIdle
<1>11. /\ intent' \in [Id -> Intent] /\ saved' \in [Id -> Intent]
       /\ spent' \in Spents
       /\ spent'.faults = 0 =>
             /\ spent.faults = 0 /\ intent' = saved'
             /\ i = "diiisco" => saved'[i] = "on" /\ wrote = saved[i]
             /\ i # "diiisco" => saved'[i] = saved[i] /\ wrote = "nothing"
             /\ \A j \in Id \ {i} : saved'[j] = saved[j]
  <2>1. CASE i # "diiisco"
    <3>1. NoSave /\ wrote = "nothing"
      BY <1>4, <2>1
    <3> QED
      BY <2>1, <3>1, NotSaving
  <2>2. CASE i = "diiisco"
    <3>1. "on" \in Intent /\ Save([intent EXCEPT ![i] = "on"])
      BY <1>4, <2>2 DEF Save, Intent
    <3>2. /\ intent' \in [Id -> Intent] /\ saved' \in [Id -> Intent]
          /\ spent' \in Spents
          /\ spent'.faults = 0 =>
                /\ spent.faults = 0 /\ intent' = saved' /\ saved'[i] = "on"
                /\ \A j \in Id \ {i} : saved'[j] = saved[j]
      BY <3>1, Saving
    <3>3. spent'.faults = 0 => wrote = saved[i]
      <4>1. CASE SaveFails([intent EXCEPT ![i] = "on"])
        BY <1>1, <4>1 DEF SaveFails, Spend, KTyped, Spents
      <4>2. CASE wrote = intent[i]
        BY <3>2, <4>2 DEF KInv, Consistent
      <4> QED
        BY <1>4, <2>2, <4>1, <4>2
    <3> QED
      BY <2>2, <3>2, <3>3
  <2> QED
    BY <2>1, <2>2
<1>12. KindFits(c)'
  <2>1. wrote # "nothing" => i = "diiisco"
    BY <1>4
  <2> QED
    BY <1>2, <1>3, <1>5, <1>7, <1>9, <1>10, <2>1 DEF KindFits, Enabling, Busy
<1>13. spent'.faults = 0 /\ Going(c) => Going(c)'
  <2> SUFFICES ASSUME spent'.faults = 0, Going(c) PROVE Going(c)'
    OBVIOUS
  <2>1. Agree(i, saved[i])
    BY <1>1, <1>2, <1>3 DEF Going, KindFits, Enabling, Prior
  <2>2. /\ call'[c].id = i /\ call'[c].at = place /\ call'[c].wrote = wrote
        /\ enabled' = enabled /\ kept' = kept
    BY <1>2, <1>3, <1>7, <1>9
  <2>3. "nothing" \notin Intent /\ saved[i] \in Intent
    BY <1>1 DEF Intent
  <2>4. Enabling(c)' => i = "diiisco"
    BY <2>2 DEF Enabling
  <2>5. CASE i = "diiisco"
    BY <1>5, <1>11, <2>1, <2>2, <2>3, <2>5 DEF Going, Agree, Prior
  <2>6. CASE i # "diiisco"
    BY <1>5, <1>11, <2>1, <2>2, <2>4, <2>6 DEF Going, Agree, Prior
  <2> QED
    BY <2>5, <2>6
<1>14. \/ call'[c] = Idle
       \/ call'[c] \in Command /\ call'[c].id = i /\ KindFits(c)'
  BY <1>2, <1>7, <1>9, <1>12
<1>15. spent'.faults = 0 /\ Going(c) =>
         IF call'[c] = Idle THEN Agree(i, saved[i])' ELSE Going(c)'
  BY <1>10, <1>13
<1>16. spent'.faults = 0 => \A j \in Id \ {i} :
          /\ enabled'[j] = enabled[j] /\ saved'[j] = saved[j]
          /\ j \in kept' <=> j \in kept
  BY <1>3, <1>11
<1>17. spent'.faults = 0 => spent.faults = 0 /\ intent' = saved'
  BY <1>11
<1>18. \/ pending' = pending \ {i}
       \/ /\ pending' \in {pending, pending \cup {i}}
          /\ call'[c] # Idle /\ call'[c].kind = "on"
          /\ call'[c].at # "checked"
       \/ pending' = pending /\ (call[c].kind # "on" \/ call[c].at = "checked")
  BY <1>3, <1>5, <1>7, <1>9, <1>10
<1>19. enabled' \in [Id -> BOOLEAN] /\ entangled' = entangled
  BY <1>1, <1>3
<1> HIDE DEF KInv, Busy, KindFits, Agree, Going, Enabling
<1> QED
  BY <1>2, <1>9, <1>11, <1>14, <1>15, <1>16, <1>17, <1>18, <1>19, OneCard

\* A new command on card i, whose slot was free.
LEMMA Pressing ==
  ASSUME KInv, NEW c \in Call, NEW i \in Id, NEW kind, NEW place,
         Press(c, i, kind, place),
         <<kind, place>> \in {<<"on", "checked">>, <<"off", "stopping">>,
                              <<"reinstall", "installing">>},
         UNCHANGED <<enabled, intent, saved, pending, kept>>
  PROVE  KInv'
<1> DEFINE r == [at |-> place, id |-> i, kind |-> kind, wrote |-> "nothing"]
<1>1. /\ r \in Command /\ r.at = place /\ r.id = i /\ r.kind = kind
      /\ r.wrote = "nothing"
  BY DEF Command
<1>2. call' = [call EXCEPT ![c] = r] /\ call[c] = Idle
  BY DEF Press, Busy
<1> HIDE DEF r
<1>3. KTyped
  BY DEF KInv
<1>4. /\ call' \in [Call -> {Idle} \cup Command]
      /\ \A d \in Call \ {c} : call'[d] = call[d]
      /\ call'[c] = r /\ r # Idle
  BY <1>1, <1>2, <1>3, NotIdle DEF KTyped
<1>5. spent' \in Spents /\ spent'.faults = spent.faults
  BY <1>3 DEF Press, Spend, KTyped, Spents
<1>6. entangled' = IF Of(i) # {} THEN entangled \cup {i} ELSE entangled
  BY DEF Press
<1>7. KTyped'
  BY <1>3, <1>4, <1>5 DEF KTyped
<1>8. ~Enabling(c)' /\ KindFits(c)'
  BY <1>1, <1>4 DEF Enabling, KindFits
<1>9. Kinds'
  <2>1. ASSUME NEW d \in Call \ {c}, Busy(d)' PROVE KindFits(d)'
    BY <1>4, <2>1 DEF KInv, Kinds, KindFits, Busy, Enabling
  <2> QED
    BY <1>8, <2>1 DEF Kinds
<1>10. \A j \in Id \ {i} : Of(j)' = Of(j)
  BY <1>1, <1>2, <1>4 DEF Of, Busy
<1>11. Of(i)' = Of(i) \cup {c} /\ \A j \in Id : c \notin Of(j)
  BY <1>1, <1>2, <1>4 DEF Of, Busy
<1>12. Marked'
  <2> SUFFICES ASSUME NEW j \in pending
               PROVE  \E d \in Of(j)' :
                         call'[d].kind = "on" /\ call'[d].at # "checked"
    BY DEF Marked
  <2>1. PICK d \in Of(j) : call[d].kind = "on" /\ call[d].at # "checked"
    BY DEF KInv, Marked
  <2>2. j \in Id /\ d \in Call \ {c}
    BY <1>3, <1>11, <2>1 DEF KTyped, Of
  <2> QED
    BY <1>4, <1>10, <1>11, <2>1, <2>2
<1>13. Alone'
  BY <1>6, <1>10, <1>11 DEF KInv, Alone
<1>14. Consistent'
  <2> SUFFICES ASSUME spent'.faults = 0
               PROVE  /\ intent' = saved'
                      /\ \A j \in Id \ entangled' : CardFine(j)'
    BY DEF Consistent
  <2>1. intent = saved /\ \A j \in Id \ entangled : CardFine(j)
    BY <1>5 DEF KInv, Consistent
  <2>2. ASSUME NEW j \in Id \ entangled' PROVE CardFine(j)'
    <3>1. CardFine(j)
      BY <1>6, <2>1
    <3>2. CASE j # i
      <4>1. \A d \in Of(j) : call'[d] = call[d]
        BY <1>4, <1>11 DEF Of
      <4>2. \A d \in Of(j) : Going(d)'
        BY <3>1, <4>1 DEF CardFine, Going, Agree, Prior, Enabling, Busy
      <4>3. Of(j) = {} => Agree(j, saved[j])'
        BY <3>1 DEF CardFine, Agree
      <4> QED
        BY <1>10, <3>2, <4>2, <4>3 DEF CardFine
    <3>3. CASE j = i
      <4>1. Of(i) = {}
        BY <1>6, <3>3
      <4>2. Agree(i, saved[i])
        BY <3>1, <3>3, <4>1 DEF CardFine
      <4>3. Going(c)'
        BY <1>1, <1>4, <1>8, <4>2 DEF Going, Agree, Prior
      <4> QED
        BY <1>11, <3>3, <4>1, <4>3 DEF CardFine
    <3> QED
      BY <3>2, <3>3
  <2> QED
    BY <2>1, <2>2
<1> QED
  BY <1>7, <1>9, <1>12, <1>13, <1>14 DEF KInv

\* What the invariant reads, unchanged.
LEMMA KAside ==
  ASSUME KInv, UNCHANGED <<enabled, intent, saved, pending, call, entangled, kept>>,
         spent' \in Spents, spent'.faults = spent.faults
  PROVE  KInv'
<1>1. KTyped'
  BY DEF KInv, KTyped
<1>2. Kinds' /\ Marked' /\ Alone'
  BY DEF KInv, Kinds, KindFits, Marked, Alone, Of, Busy, Enabling
<1>3. Consistent'
  BY DEF KInv, Consistent, CardFine, Going, Agree, Prior, Of, Busy, Enabling
<1> QED
  BY <1>1, <1>2, <1>3 DEF KInv

\* An exit: nothing is under way, and the flags are what the disk says.
LEMMA Restarting ==
  ASSUME KInv, Restart
  PROVE  KInv'
<1>1. /\ intent' = saved /\ saved' = saved /\ pending' = {} /\ entangled' = {}
      /\ kept' = {} /\ call' = [c \in Call |-> Idle]
      /\ enabled' = [j \in Id |-> saved[j] = "on"]
  BY DEF Restart
<1>2. spent' \in Spents
  BY DEF Restart, Spend, KInv, KTyped, Spents
<1>3. \A j \in Id : enabled'[j] = (saved[j] = "on")
  BY <1>1
<1>4. KTyped'
  <2>1. enabled' \in [Id -> BOOLEAN]
    BY <1>1
  <2> QED
    BY <1>1, <1>2, <2>1 DEF KInv, KTyped
<1>5. \A j : Of(j)' = {}
  BY <1>1 DEF Of, Busy
<1>6. Kinds' /\ Marked' /\ Alone'
  BY <1>1, <1>5 DEF Kinds, Marked, Alone, Busy
<1>7. Consistent'
  BY <1>1, <1>3, <1>5 DEF Consistent, CardFine, Agree
<1> QED
  BY <1>4, <1>6, <1>7 DEF KInv

\* Every step of the card commands keeps the invariant.
LEMMA KStep ==
  ASSUME KInv, [Next]_vars
  PROVE  KInv'
<1>1. ASSUME NEW c \in Call, NEW i \in Id,
             PressOn(c, i) \/ PressOff(c, i) \/ PressReinstall(c, i)
      PROVE  KInv'
  <2>1. CASE PressOn(c, i)
    <3>1. Press(c, i, "on", "checked") /\ UNCHANGED <<enabled, intent, saved, pending, kept>>
      BY <2>1 DEF PressOn
    <3> HIDE DEF KInv
    <3> QED
      BY <3>1, Pressing
  <2>2. CASE PressOff(c, i)
    <3>1. Press(c, i, "off", "stopping") /\ UNCHANGED <<enabled, intent, saved, pending, kept>>
      BY <2>2 DEF PressOff
    <3> QED
      BY <3>1, Pressing
  <2>3. CASE PressReinstall(c, i)
    <3>1. /\ Press(c, i, "reinstall", "installing")
          /\ UNCHANGED <<enabled, intent, saved, pending, kept>>
      BY <2>3 DEF PressReinstall
    <3> QED
      BY <3>1, Pressing
  <2> QED
    BY <1>1, <2>1, <2>2, <2>3
<1>2. ASSUME NEW c \in Call, NEW i \in Id, PressRefused(c, i)
      PROVE  KInv'
  <2>1. spent' \in Spents /\ spent'.faults = spent.faults
    BY <1>2 DEF PressRefused, Spend, KInv, KTyped, Spents
  <2> QED
    BY <1>2, <2>1, KAside DEF PressRefused
<1>3. ASSUME NEW c \in Call, Busy(c),
             PreChecksRefuse(c) \/ RequirementsRefuse(c) \/ StopFails(c)
      PROVE  KInv'
  BY <1>3, Refused
<1>4. ASSUME NEW c \in Call, Busy(c),
             \/ PreChecksPass(c) \/ RequirementsPass(c)
             \/ Installed(c) \/ Started(c) \/ Stopped(c)
      PROVE  KInv'
  BY <1>4, Moves
<1>5. ASSUME NEW c \in Call, Busy(c), Rearmed(c)
      PROVE  KInv'
  BY <1>5, Passed
<1>6. ASSUME NEW c \in Call, Busy(c), StepFails(c)
      PROVE  KInv'
  BY <1>6, Failed
<1>7. ASSUME NEW c \in Call, Busy(c), StepKeepsIntent(c)
      PROVE  KInv'
  BY <1>7, KeptOn
<1>8. ASSUME NEW c \in Call, Busy(c), SetEnabled(c)
      PROVE  KInv'
  BY <1>8, FlagSet
<1>9. ASSUME NEW c \in Call, Busy(c), Saved(c)
      PROVE  KInv'
  <2>1. call[c].at = "saving"
    BY <1>9 DEF Saved
  <2> QED
    BY <1>9, <2>1, Recorded
<1>10. CASE Restart
  BY <1>10, Restarting
<1>11. CASE UNCHANGED vars
  BY <1>11, KAside DEF vars, KInv, KTyped
<1> QED
  BY <1>1, <1>2, <1>3, <1>4, <1>5, <1>6, <1>7, <1>8, <1>9, <1>10, <1>11 DEF
     Next

\* The app starts with no command, mark or intent.
LEMMA KStart == Init => KInv
<1> SUFFICES ASSUME Init PROVE KInv
  OBVIOUS
<1>1. KTyped
  BY DEF Init, KTyped, Intent, Spents
<1>2. \A j : Of(j) = {}
  BY DEF Init, Of, Busy
<1>3. Kinds /\ Marked /\ Alone
  BY <1>2 DEF Init, Kinds, Marked, Alone, Busy
<1>4. Consistent
  BY <1>2 DEF Init, Consistent, CardFine, Agree
<1> QED
  BY <1>1, <1>3, <1>4 DEF KInv

\* The card commands keep the flags, the intents, the disk and the marks
\* consistent, card by card (commands/integration.rs 195-629).
THEOREM CardsHold == Cards => []KInv
<1>1. EitherInit => KInv
  BY KStart DEF EitherInit
<1>2. KInv /\ [EitherNext]_allVars => KInv'
  <2>1. [EitherNext]_allVars => [Next]_vars
    BY DEF EitherNext, OfCards, OfGate, allVars, ofGate
  <2> QED
    BY <2>1, KStep
<1> QED
  BY <1>1, <1>2, PTL DEF Cards

\* "any one of them leaking an entry would pin that card on Installing
\* forever" (integration.rs 388-394): a card is only marked while an enable
\* that has passed its checks is under way on it.
THEOREM NoMarkLeaks == Cards => []NoCardIsPinned
<1>1. KInv => NoCardIsPinned
  BY DEF KInv, Marked, NoCardIsPinned
<1> QED
  BY <1>1, CardsHold, PTL

\* Once a card's commands are over, the next launch restores what the registry
\* says now, or the intent that a Diiisco failure kept (integration.rs
\* 195-311, 547-629): however many presses, exits and other cards there are.
THEOREM LaunchesAgree == Cards => []LaunchAgrees
<1>1. KInv => LaunchAgrees
  BY DEF KInv, Consistent, CardFine, Agree, LaunchAgrees, Settled
<1> QED
  BY <1>1, CardsHold, PTL

\* From the early write of Diiisco's intent on (integration.rs 271-289), an exit
\* of the app at whatever step of the enable is followed by a launch that
\* enables the card.  The steps before it are not covered: ExitKeepsTheClick.
THEOREM IntentsAreKept == Cards => ExitKeepsTheIntent
<1>1. KInv /\ [Next]_vars =>
        [Restart => \A c \in Call :
           Enabling(c) /\ "diiisco" \notin entangled /\ spent.faults = 0
              => enabled'["diiisco"]]_vars
  <2> SUFFICES ASSUME KInv, Restart, NEW c \in Call, Enabling(c),
                      "diiisco" \notin entangled, spent.faults = 0
               PROVE  enabled'["diiisco"]
    OBVIOUS
  <2>1. Busy(c) /\ call[c].id = "diiisco"
    BY DEF Enabling
  <2>2. "diiisco" \in Id /\ c \in Of("diiisco")
    BY <2>1, Known DEF Of
  <2>3. Going(c)
    BY <2>2 DEF KInv, Consistent, CardFine
  <2>4. saved["diiisco"] = "on"
    BY <2>1, <2>3 DEF Going
  <2>5. enabled' = [j \in Id |-> saved[j] = "on"]
    BY DEF Restart
  <2> QED
    BY <2>2, <2>4, <2>5
<1>2. [EitherNext]_allVars => [Next]_vars
  BY DEF EitherNext, OfCards, OfGate, allVars, ofGate
<1> QED
  BY <1>1, <1>2, CardsHold, PTL DEF Cards, ExitKeepsTheIntent

-----------------------------------------------------------------------------
\* The gate.

USE DEF Gate!Goto, Gate!Publish

\* What a caller asks for is one target of one card.
LEMMA RequestsTyped ==
  ASSUME Gate!TypeOK, NEW c \in Caller
  PROVE  req[c].purpose \in Purpose /\ req[c].key \in Key
BY DEF Gate!TypeOK, Gate!Request

\* The gate's state has its types.
LEMMA TypesHold ==
  /\ Gate!Init => Gate!TypeOK
  /\ Gate!TypeOK /\ [Gate!Next]_(Gate!vars) => Gate!TypeOK'
<1> USE DEF Gate!TypeOK, Gate!Place
<1>1. Gate!Init => Gate!TypeOK
  BY DEF Gate!Init, Gate!Request
<1>2. Gate!TypeOK /\ [Gate!Next]_(Gate!vars) => Gate!TypeOK'
  <2> SUFFICES ASSUME Gate!TypeOK, [Gate!Next]_(Gate!vars) PROVE Gate!TypeOK'
    OBVIOUS
  <2>1. ASSUME NEW c \in Caller, NEW p \in Purpose, Gate!ClearMessage(c, p) PROVE Gate!TypeOK'
    BY <2>1 DEF Gate!ClearMessage, Gate!Request
  <2>2. ASSUME NEW c \in Caller, Gate!Rearm(c) PROVE Gate!TypeOK'
    <3> DEFINE p == req[c].purpose
    <3>1. p \in Purpose
      BY RequestsTyped
    <3> HIDE DEF p
    <3>2. /\ [attempted EXCEPT ![p] = {}] \in [Purpose -> SUBSET Key]
          /\ [declined EXCEPT ![p] = {}] \in [Purpose -> SUBSET Key]
          /\ [rearms EXCEPT ![p] = @ + 1] \in [Purpose -> Nat]
      BY <3>1
    <3> USE DEF p
    <3> QED
      BY <2>2, <3>2, Zenon DEF Gate!Rearm
  <2>3. ASSUME NEW c \in Caller, NEW p \in Purpose, NEW k \in Key,
               Gate!Ask(c, p, k) \/ Gate!Suppress(c, p, k)
        PROVE  Gate!TypeOK'
    <3>1. [purpose |-> p, key |-> k] \in Gate!Request
      BY DEF Gate!Request
    <3>2. [req EXCEPT ![c] = [purpose |-> p, key |-> k]] \in [Caller -> Gate!Request]
      BY <3>1
    <3>3. CASE Gate!Ask(c, p, k)
      BY <2>3, <3>2, <3>3 DEF Gate!Ask
    <3>4. CASE Gate!Suppress(c, p, k)
      BY <2>3, <3>2, <3>4 DEF Gate!Suppress
    <3> QED
      BY <2>3, <3>3, <3>4
  <2>4. ASSUME NEW c \in Caller, Gate!Refuse(c) \/ Gate!Report(c) PROVE Gate!TypeOK'
    <3>1. CASE Gate!Refuse(c)
      BY <3>1 DEF Gate!Refuse
    <3>2. CASE Gate!Report(c)
      BY <3>2 DEF Gate!Report
    <3> QED
      BY <2>4, <3>1, <3>2
  <2>5. ASSUME NEW c \in Caller, Gate!Prompt(c) PROVE Gate!TypeOK'
    <3> DEFINE p == req[c].purpose
    <3> DEFINE k == req[c].key
    <3>1. p \in Purpose /\ k \in Key
      BY RequestsTyped
    <3>2. prompts' = [prompts EXCEPT ![p][k] = @ + 1]
      BY <2>5 DEF Gate!Prompt
    <3> HIDE DEF p, k
    <3>3. prompts' \in [Purpose -> [Key -> Nat]]
      BY <3>1, <3>2
    <3> USE DEF p, k
    <3> QED
      BY <2>5, <3>1, <3>3 DEF Gate!Prompt
  <2>6. ASSUME NEW c \in Caller, Gate!Answer(c) PROVE Gate!TypeOK'
    <3> DEFINE p == req[c].purpose
    <3> DEFINE k == req[c].key
    <3>1. p \in Purpose /\ k \in Key
      BY RequestsTyped
    <3> HIDE DEF p, k
    <3>2. /\ [declined EXCEPT ![p] = @ \cup {k}] \in [Purpose -> SUBSET Key]
          /\ [declined EXCEPT ![p] = @ \ {k}] \in [Purpose -> SUBSET Key]
      BY <3>1
    <3> USE DEF p, k
    <3> QED
      BY <2>6, <3>2 DEF Gate!Answer
  <2>7. CASE UNCHANGED Gate!vars
    BY <2>7 DEF Gate!vars
  <2> QED
    BY <2>1, <2>2, <2>3, <2>4, <2>5, <2>6, <2>7 DEF Gate!Next, Gate!Step
<1> QED
  BY <1>1, <1>2

\* Whoever has a prompt on screen holds the gate.
PrompterHolds == \A c \in Caller : pc[c] = "prompt" => gate = c

\* The gate is taken free, and let go by its holder.
LEMMA OneHolds ==
  /\ Gate!Init => PrompterHolds
  /\ Gate!TypeOK /\ PrompterHolds /\ [Gate!Next]_(Gate!vars) => PrompterHolds'
<1> USE DEF Gate!TypeOK, PrompterHolds
<1>1. Gate!Init => PrompterHolds
  BY DEF Gate!Init
<1>2. Gate!TypeOK /\ PrompterHolds /\ [Gate!Next]_(Gate!vars) => PrompterHolds'
  <2> SUFFICES ASSUME Gate!TypeOK, PrompterHolds, [Gate!Next]_(Gate!vars) PROVE PrompterHolds'
    OBVIOUS
  <2>1. ASSUME NEW c \in Caller, NEW p \in Purpose, Gate!ClearMessage(c, p)
        PROVE  PrompterHolds'
    BY <2>1 DEF Gate!ClearMessage
  <2>2. ASSUME NEW c \in Caller, Gate!Rearm(c) PROVE PrompterHolds'
    BY <2>2 DEF Gate!Rearm
  <2>3. ASSUME NEW c \in Caller, NEW p \in Purpose, NEW k \in Key,
               Gate!Ask(c, p, k) \/ Gate!Suppress(c, p, k)
        PROVE  PrompterHolds'
    BY <2>3 DEF Gate!Ask, Gate!Suppress
  <2>4. ASSUME NEW c \in Caller, Gate!Refuse(c) \/ Gate!Report(c) PROVE PrompterHolds'
    BY <2>4 DEF Gate!Refuse, Gate!Report
  <2>5. ASSUME NEW c \in Caller, Gate!Prompt(c) PROVE PrompterHolds'
    BY <2>5, GateAssumption DEF Gate!Prompt
  <2>6. ASSUME NEW c \in Caller, Gate!Answer(c) PROVE PrompterHolds'
    BY <2>6 DEF Gate!Answer
  <2>7. CASE UNCHANGED Gate!vars
    BY <2>7 DEF Gate!vars
  <2> QED
    BY <2>1, <2>2, <2>3, <2>4, <2>5, <2>6, <2>7 DEF Gate!Next, Gate!Step
<1> QED
  BY <1>1, <1>2

\* A prompt spends its attempt, and only a gesture on the card gives it back.
LEMMA PaidFor ==
  /\ Gate!Init => Gate!PromptsAreAsked
  /\ Gate!TypeOK /\ Gate!PromptsAreAsked /\ [Gate!Next]_(Gate!vars)
        => Gate!PromptsAreAsked'
<1> USE DEF Gate!TypeOK, Gate!Request, Gate!PromptsAreAsked
<1>1. Gate!Init => Gate!PromptsAreAsked
  BY DEF Gate!Init
<1>2. Gate!TypeOK /\ Gate!PromptsAreAsked /\ [Gate!Next]_(Gate!vars) => Gate!PromptsAreAsked'
  <2> SUFFICES ASSUME Gate!TypeOK, Gate!PromptsAreAsked, [Gate!Next]_(Gate!vars),
                      NEW p \in Purpose, NEW k \in Key
               PROVE  (prompts[p][k] <= rearms[p] + IF k \in attempted[p] THEN 1 ELSE 0)'
    BY DEF Gate!PromptsAreAsked
  <2>0. prompts[p][k] \in Nat /\ rearms[p] \in Nat
    <3>1. prompts[p] \in [Key -> Nat]
      BY DEF Gate!TypeOK
    <3> QED
      BY <3>1
  <2>1. ASSUME NEW c \in Caller, Gate!Rearm(c)
        PROVE  (prompts[p][k] <= rearms[p] + IF k \in attempted[p] THEN 1 ELSE 0)'
    <3>1. CASE req[c].purpose = p
      <4>1. /\ attempted' = [attempted EXCEPT ![p] = {}]
            /\ rearms' = [rearms EXCEPT ![p] = @ + 1] /\ prompts' = prompts
        BY <2>1, <3>1 DEF Gate!Rearm
      <4>2. prompts[p][k] <= rearms[p] + IF k \in attempted[p] THEN 1 ELSE 0
        OBVIOUS
      <4>3. attempted'[p] = {} /\ rearms'[p] = rearms[p] + 1 /\ prompts' = prompts
        BY <4>1
      <4> QED
        BY <2>0, <4>2, <4>3
    <3>2. CASE req[c].purpose # p
      BY <2>1, <3>2 DEF Gate!Rearm
    <3> QED
      BY <3>1, <3>2
  <2>2. ASSUME NEW c \in Caller, Gate!Prompt(c)
        PROVE  (prompts[p][k] <= rearms[p] + IF k \in attempted[p] THEN 1 ELSE 0)'
    <3>1. CASE req[c].purpose = p /\ req[c].key = k
      BY <2>2, <3>1, RequestsTyped DEF Gate!Prompt, Gate!Spent
    <3>2. CASE req[c].purpose = p /\ req[c].key # k
      BY <2>2, <3>2 DEF Gate!Prompt
    <3>3. CASE req[c].purpose # p
      BY <2>2, <3>3 DEF Gate!Prompt
    <3> QED
      BY <3>1, <3>2, <3>3
  <2>3. CASE UNCHANGED <<attempted, rearms, prompts>>
    BY <2>3
  <2> QED
    BY <2>1, <2>2, <2>3 DEF Gate!Next, Gate!Step, Gate!ClearMessage, Gate!Ask,
       Gate!Suppress, Gate!Refuse, Gate!Answer,
       Gate!Report, Gate!vars
<1> QED
  BY <1>1, <1>2

GateInv == part = "gate" => Gate!TypeOK /\ PrompterHolds /\ Gate!PromptsAreAsked

\* The gate's state keeps its types, whoever has a prompt on screen holds the
\* gate, and every prompt was paid for (elevation_gate.rs 165-240).
THEOREM GateHolds == Cards => []GateInv
<1>1. EitherInit => GateInv
  BY TypesHold, OneHolds, PaidFor DEF EitherInit, GateInv
<1>2. GateInv /\ [EitherNext]_allVars => GateInv'
  <2> SUFFICES ASSUME GateInv, [EitherNext]_allVars, part' = "gate" PROVE GateInv'
    BY DEF GateInv
  <2>1. part = "gate" /\ [Gate!Next]_(Gate!vars)
    BY DEF EitherNext, OfCards, OfGate, allVars, ofGate, Gate!vars
  <2> QED
    BY <2>1, TypesHold, OneHolds, PaidFor DEF GateInv
<1> QED
  BY <1>1, <1>2, PTL DEF Cards

\* Two UAC prompts are never on screen at once (run_elevated keeps the gate
\* mutex across the closure that raises the prompt).
THEOREM PromptsAreSerialised == Cards => [](part = "gate" => Gate!OneAtATime)
<1>1. GateInv => (part = "gate" => Gate!OneAtATime)
  BY DEF GateInv, PrompterHolds, Gate!OneAtATime
<1> QED
  BY <1>1, GateHolds, PTL

\* Each target was prompted for at most once, plus once per retry gesture on
\* its own card (run_elevated spends the attempt, clear_blocked re-arms it).
THEOREM PromptsArePaidFor == Cards => []PromptsAreAsked
<1>1. GateInv => PromptsAreAsked
  BY DEF GateInv, PromptsAreAsked
<1> QED
  BY <1>1, GateHolds, PTL
=============================================================================
