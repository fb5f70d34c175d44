------------------------- MODULE RegistrationProofs -------------------------
(***************************************************************************)
(* Registration is type correct, and a binding that register_device has    *)
(* established stays (B1), for any number of attempts, keys, restarts and  *)
(* deregistrations. The argument: whoever is between its POST and its      *)
(* return holds the guard, so the snapshot an attempt would restore was    *)
(* taken when no other attempt was under way, and still names the binding  *)
(* confirmed last.                                                         *)
(***************************************************************************)
EXTENDS Registration, SequenceTheorems, TLAPS

\* Snapshots hold tokens that were minted.
SnapMinted == \A t \in Task : snap[t].device_token <= Len(minted)

\* Whoever registers, registers a key.
ArgGiven ==
    \A t \in Task :
        Posting(t) \/ (pc[t] = "queued" /\ t \in Attempt \cup {"migrate"}) => arg[t] \in Key

LockHeld == \A t \in Task : Posting(t) => lock = t

\* The binding confirmed last is what a failing attempt would put back.
BindingKept ==
    confirmed # None =>
        /\ cfg.install_id # None
        /\ (\A a \in Attempt : ~Posting(a)) => cfg.miner_key = confirmed
        /\ \A a \in Attempt : Posting(a) =>
               /\ cfg.miner_key = arg[a]
               /\ snap[a].miner_key = confirmed /\ snap[a].install_id # None

IInv == TypeOK /\ SnapMinted /\ ArgGiven /\ LockHeld /\ BindingKept

\* The invariant holds before the first step.
LEMMA InitInv == Init => IInv
<1> SUFFICES ASSUME Init PROVE IInv
  OBVIOUS
<1> USE NoneAssumption, AttemptAssumption, BoundsAssumption
<1>1. TypeOK
  BY DEF Init, TypeOK, Config, Unregistered, Reply, NoReply, NoToken, Bound
<1>2. SnapMinted /\ ArgGiven /\ LockHeld /\ BindingKept
  BY DEF Init, SnapMinted, ArgGiven, LockHeld, BindingKept, Posting,
     Unregistered, NoToken, Task
<1>. QED BY <1>1, <1>2 DEF IInv

(* Type correctness in three parts, each kept by every step.                *)
StoreTyped ==
    /\ cfg \in Config /\ cfg.device_token <= Len(minted)
    /\ snap \in [Task -> Config]
    /\ minted \in Seq(Key)

ReplyTyped ==
    /\ pc \in [Task -> {"idle", "queued", "post", "reply"}]
    /\ reply \in [Task -> Reply]
    /\ \A t \in Task :
           /\ (reply[t].kind # "none") <=> (pc[t] = "reply")
           /\ (reply[t].kind = "token") <=> (reply[t].token # NoToken)
           /\ reply[t].token <= Len(minted)

RestTyped ==
    /\ lock \in Task \cup {None}
    /\ arg \in [Task -> Key \cup {None}]
    /\ dereg \in {"idle", "call"}
    /\ known \subseteq Key
    /\ told \in Key \cup {None} /\ confirmed \in Key \cup {None}
    /\ spent \in [DOMAIN Bound -> Nat]
    /\ \A kind \in DOMAIN Bound : spent[kind] <= Bound[kind]

\* A step of Next is a step of one of these groups.
LEMMA Steps ==
    Next =>
        \/ (\E a \in Attempt, k \in Key : RegisterPressed(a, k))
        \/ HookDue
        \/ (\E a \in Attempt : RegisterReuses(a))
        \/ (\E a \in Attempt : RegisterEnters(a))
        \/ (CompletionReturns \/ MigrationReturns \/ RecoveryReturns)
        \/ CompletionAdopts
        \/ CompletionEnters
        \/ MigrationEnters
        \/ RecoveryEnters
        \/ (\E t \in Task : ServerMints(t) \/ ServerMintsLost(t))
        \/ (\E t \in Task : ServerKnows(t) \/ ServerFails(t))
        \/ (\E a \in Attempt : RegisterSucceeds(a))
        \/ (\E a \in Attempt : RegisterFails(a))
        \/ (\E a \in Attempt : RegisterConflicts(a))
        \/ CompletionSucceeds
        \/ (\E t \in Hook : TokenArrives(t))
        \/ (\E t \in Hook : HookFails(t))
        \/ DeregisterPressed
        \/ (DeregisterClears \/ DeregisterRefused)
        \/ Crash
<1>1. ASSUME NEW t \in Task, Enter(t)
      PROVE  \/ \E a \in Attempt : RegisterReuses(a)
             \/ \E a \in Attempt : RegisterEnters(a)
             \/ CompletionReturns \/ MigrationReturns \/ RecoveryReturns
             \/ CompletionAdopts
             \/ CompletionEnters
             \/ MigrationEnters
             \/ RecoveryEnters
  BY <1>1, Zenon DEF Enter
<1>2. ASSUME NEW t \in Task, Finish(t)
      PROVE  \/ \E a \in Attempt : RegisterSucceeds(a)
             \/ \E a \in Attempt : RegisterFails(a)
             \/ \E a \in Attempt : RegisterConflicts(a)
             \/ CompletionSucceeds
             \/ \E u \in Hook : TokenArrives(u)
             \/ \E u \in Hook : HookFails(u)
  <2>1. TokenArrives(t) => t \in Hook
    BY DEF TokenArrives, Hook
  <2>. QED BY <1>2, <2>1, Zenon DEF Finish
<1>. QED BY <1>1, <1>2, Zenon DEF Next, Post

\* What is stored or remembered keeps its kind; a token put there came out of a
\* reply, a snapshot or the configuration.
LEMMA NextStore == IInv /\ Next => StoreTyped' /\ SnapMinted'
<1> SUFFICES ASSUME IInv, Next PROVE StoreTyped' /\ SnapMinted'
  OBVIOUS
<1> USE NoneAssumption, AttemptAssumption, BoundsAssumption DEF IInv, TypeOK, Task, Hook,
      taskVars, historyVars
<1>1. CASE \E a \in Attempt, k \in Key : RegisterPressed(a, k)
  BY <1>1 DEF StoreTyped, Config, Unregistered, NoToken, Reply, SnapMinted,
     ArgGiven, Posting, RegisterPressed, Queue, Spend
<1>2. CASE HookDue
  BY <1>2 DEF StoreTyped, Config, Unregistered, NoToken, Reply, SnapMinted,
     ArgGiven, Posting, HookDue, CompletionDue, MigrationDue, RecoveryDue, Queue
<1>3. CASE \E a \in Attempt : RegisterReuses(a)
  BY <1>3 DEF StoreTyped, Config, Unregistered, NoToken, Reply, SnapMinted,
     ArgGiven, Posting, RegisterReuses, EnterReturn, Idle, Entering
<1>4. CASE \E a \in Attempt : RegisterEnters(a)
  <2> PICK a \in Attempt : RegisterEnters(a)
    BY <1>4
  <2>1. UNCHANGED minted /\ arg[a] \in Key
    BY DEF RegisterEnters, Entering, EnterPost, ArgGiven
  <2>2. snap' = [snap EXCEPT ![a] = cfg] /\ cfg' = [cfg EXCEPT !.miner_key = arg[a]]
    BY DEF RegisterEnters
  <2>. QED BY <2>1, <2>2 DEF StoreTyped, SnapMinted, Config
<1>5. CASE CompletionReturns \/ MigrationReturns \/ RecoveryReturns
  <2>1. CASE CompletionReturns
    BY <2>1 DEF StoreTyped, Config, Unregistered, NoToken, Reply, SnapMinted,
       ArgGiven, Posting, CompletionReturns, EnterReturn, Idle, Entering
  <2>2. CASE MigrationReturns
    BY <2>2 DEF StoreTyped, Config, Unregistered, NoToken, Reply, SnapMinted,
       ArgGiven, Posting, MigrationReturns, EnterReturn, Idle, Entering
  <2>3. CASE RecoveryReturns
    BY <2>3 DEF StoreTyped, Config, Unregistered, NoToken, Reply, SnapMinted,
       ArgGiven, Posting, RecoveryReturns, EnterReturn, Idle, Entering
  <2>. QED BY <1>5, <2>1, <2>2, <2>3
<1>6. CASE CompletionAdopts
  BY <1>6 DEF StoreTyped, Config, Unregistered, NoToken, Reply, SnapMinted,
     ArgGiven, Posting, CompletionAdopts, EnterReturn, Idle, Entering
<1>7. CASE CompletionEnters
  BY <1>7 DEF StoreTyped, Config, Unregistered, NoToken, Reply, SnapMinted,
     ArgGiven, Posting, CompletionEnters, EnterPost, Acquire, Entering
<1>8. CASE MigrationEnters
  BY <1>8 DEF StoreTyped, Config, Unregistered, NoToken, Reply, SnapMinted,
     ArgGiven, Posting, MigrationEnters, EnterPost, Acquire, Entering
<1>9. CASE RecoveryEnters
  BY <1>9 DEF StoreTyped, Config, Unregistered, NoToken, Reply, SnapMinted,
     ArgGiven, Posting, RecoveryEnters, RecoveryApplies, EnterPost, Acquire,
     Entering
<1>10. CASE \E t \in Task : ServerMints(t) \/ ServerMintsLost(t)
  <2> PICK t \in Task : ServerMints(t) \/ ServerMintsLost(t)
    BY <1>10
  <2>1. pc[t] = "post" /\ arg[t] \in Key /\ minted' = Append(minted, arg[t])
    BY DEF ServerMints, ServerMintsLost, Answer, Mint, ArgGiven, Posting
  <2>2. minted' \in Seq(Key) /\ Len(minted') = Len(minted) + 1 /\ Len(minted) \in Nat
    BY <2>1
  <2>3. UNCHANGED <<cfg, snap>>
    BY DEF ServerMints, ServerMintsLost, Answer
  <2>. QED BY <2>2, <2>3 DEF StoreTyped, SnapMinted, Config
<1>11. CASE \E t \in Task : ServerKnows(t) \/ ServerFails(t)
  BY <1>11 DEF StoreTyped, Config, Unregistered, NoToken, Reply, SnapMinted,
     ArgGiven, Posting, ServerKnows, ServerFails, Answer, Spend
<1>12. CASE \E a \in Attempt : RegisterSucceeds(a)
  <2> PICK a \in Attempt : RegisterSucceeds(a)
    BY <1>12
  <2>1. UNCHANGED minted /\ a \in Task /\ Len(minted) \in Nat
    BY DEF RegisterSucceeds, Finishing
  <2>2. reply[a].token \in Nat /\ reply[a].token <= Len(minted)
    BY <2>1 DEF Reply
  <2>3. snap[a] \in Config /\ snap[a].device_token <= Len(minted) /\ arg[a] \in Key \cup {None}
    BY <2>1 DEF SnapMinted
  <2>4. snap' = [snap EXCEPT ![a] = Unregistered]
    BY DEF RegisterSucceeds, Finishing, Return, Idle
  <2>5. cfg' \in Config /\ cfg'.device_token <= Len(minted)
    BY <2>2, <2>3 DEF RegisterSucceeds, Config
  <2>. QED BY <2>1, <2>4, <2>5 DEF StoreTyped, SnapMinted, Unregistered, Config, NoToken
<1>13. CASE \E a \in Attempt : RegisterFails(a)
  <2> PICK a \in Attempt : RegisterFails(a)
    BY <1>13
  <2>1. UNCHANGED minted /\ a \in Task /\ Len(minted) \in Nat
    BY DEF RegisterFails, Finishing
  <2>2. reply[a].token \in Nat /\ reply[a].token <= Len(minted)
    BY <2>1 DEF Reply
  <2>3. snap[a] \in Config /\ snap[a].device_token <= Len(minted) /\ arg[a] \in Key \cup {None}
    BY <2>1 DEF SnapMinted
  <2>4. snap' = [snap EXCEPT ![a] = Unregistered]
    BY DEF RegisterFails, Finishing, Return, Idle
  <2>5. cfg' \in Config /\ cfg'.device_token <= Len(minted)
    BY <2>2, <2>3 DEF RegisterFails, Config
  <2>. QED BY <2>1, <2>4, <2>5 DEF StoreTyped, SnapMinted, Unregistered, Config, NoToken
<1>14. CASE \E a \in Attempt : RegisterConflicts(a)
  BY <1>14 DEF StoreTyped, Config, Unregistered, NoToken, Reply, SnapMinted,
     ArgGiven, Posting, RegisterConflicts, Finishing, Return, Idle
<1>15. CASE CompletionSucceeds
  <2>1. UNCHANGED minted /\ "complete" \in Task /\ Len(minted) \in Nat
    BY <1>15 DEF CompletionSucceeds, Finishing
  <2>2. reply["complete"].token \in Nat /\ reply["complete"].token <= Len(minted)
    BY <2>1 DEF Reply
  <2>3. snap' = [snap EXCEPT !["complete"] = Unregistered]
    BY <1>15 DEF CompletionSucceeds, Finishing, Return, Idle
  <2>4. cfg' \in Config /\ cfg'.device_token <= Len(minted)
    BY <1>15, <2>2 DEF CompletionSucceeds, Config
  <2>. QED BY <2>1, <2>3, <2>4 DEF StoreTyped, SnapMinted, Unregistered, Config, NoToken
<1>16. CASE \E t \in Hook : TokenArrives(t)
  <2> PICK a \in Hook : TokenArrives(a)
    BY <1>16
  <2>1. UNCHANGED minted /\ a \in Task /\ Len(minted) \in Nat
    BY DEF TokenArrives, Finishing
  <2>2. reply[a].token \in Nat /\ reply[a].token <= Len(minted)
    BY <2>1 DEF Reply
  <2>3. snap[a] \in Config /\ snap[a].device_token <= Len(minted) /\ arg[a] \in Key \cup {None}
    BY <2>1 DEF SnapMinted
  <2>4. snap' = [snap EXCEPT ![a] = Unregistered]
    BY DEF TokenArrives, Finishing, Return, Idle
  <2>5. cfg' \in Config /\ cfg'.device_token <= Len(minted)
    BY <2>2, <2>3 DEF TokenArrives, Config
  <2>. QED BY <2>1, <2>4, <2>5 DEF StoreTyped, SnapMinted, Unregistered, Config, NoToken
<1>17. CASE \E t \in Hook : HookFails(t)
  BY <1>17 DEF StoreTyped, Config, Unregistered, NoToken, Reply, SnapMinted,
     ArgGiven, Posting, HookFails, Finishing, Return, Idle
<1>18. CASE DeregisterPressed
  <2>1. UNCHANGED <<minted, snap>>
    BY <1>18 DEF DeregisterPressed, Clear
  <2>2. cfg' = cfg \/ cfg' = [Unregistered EXCEPT !.pending = cfg.pending]
    BY <1>18 DEF DeregisterPressed, Clear
  <2>. QED BY <2>1, <2>2 DEF StoreTyped, SnapMinted, Config, Unregistered, NoToken
<1>19. CASE DeregisterClears \/ DeregisterRefused
  BY <1>19 DEF StoreTyped, Config, Unregistered, NoToken, Reply, SnapMinted,
     ArgGiven, Posting, DeregisterClears, DeregisterRefused, Clear
<1>20. CASE Crash
  BY <1>20 DEF StoreTyped, Config, Unregistered, NoToken, Reply, SnapMinted,
     ArgGiven, Posting, Crash, Spend
<1>. QED BY Steps, <1>1, <1>2, <1>3, <1>4, <1>5, <1>6, <1>7, <1>8, <1>9, <1>10,
             <1>11, <1>12, <1>13, <1>14, <1>15, <1>16, <1>17, <1>18, <1>19, <1>20

\* A reply is there while its task is at "reply", and its token was minted.
LEMMA NextReply == IInv /\ Next => ReplyTyped'
<1> SUFFICES ASSUME IInv, Next PROVE ReplyTyped'
  OBVIOUS
<1> USE NoneAssumption, AttemptAssumption, BoundsAssumption DEF IInv, TypeOK, Task, Hook,
      taskVars, historyVars
<1>1. CASE \E a \in Attempt, k \in Key : RegisterPressed(a, k)
  BY <1>1 DEF ReplyTyped, Reply, NoReply, NoToken, ArgGiven, Posting,
     RegisterPressed, Queue, Spend
<1>2. CASE HookDue
  BY <1>2 DEF ReplyTyped, Reply, NoReply, NoToken, ArgGiven, Posting, HookDue,
     CompletionDue, MigrationDue, RecoveryDue, Queue
<1>3. CASE \E a \in Attempt : RegisterReuses(a)
  BY <1>3 DEF ReplyTyped, Reply, NoReply, NoToken, ArgGiven, Posting,
     RegisterReuses, EnterReturn, Idle, Entering
<1>4. CASE \E a \in Attempt : RegisterEnters(a)
  BY <1>4 DEF ReplyTyped, Reply, NoReply, NoToken, ArgGiven, Posting,
     RegisterEnters, EnterPost, Acquire, Entering
<1>5. CASE CompletionReturns \/ MigrationReturns \/ RecoveryReturns
  <2>1. CASE CompletionReturns
    BY <2>1 DEF ReplyTyped, Reply, NoReply, NoToken, ArgGiven, Posting,
       CompletionReturns, EnterReturn, Idle, Entering
  <2>2. CASE MigrationReturns
    BY <2>2 DEF ReplyTyped, Reply, NoReply, NoToken, ArgGiven, Posting,
       MigrationReturns, EnterReturn, Idle, Entering
  <2>3. CASE RecoveryReturns
    BY <2>3 DEF ReplyTyped, Reply, NoReply, NoToken, ArgGiven, Posting,
       RecoveryReturns, EnterReturn, Idle, Entering
  <2>. QED BY <1>5, <2>1, <2>2, <2>3
<1>6. CASE CompletionAdopts
  BY <1>6 DEF ReplyTyped, Reply, NoReply, NoToken, ArgGiven, Posting,
     CompletionAdopts, EnterReturn, Idle, Entering
<1>7. CASE CompletionEnters
  BY <1>7 DEF ReplyTyped, Reply, NoReply, NoToken, ArgGiven, Posting,
     CompletionEnters, EnterPost, Acquire, Entering
<1>8. CASE MigrationEnters
  BY <1>8 DEF ReplyTyped, Reply, NoReply, NoToken, ArgGiven, Posting,
     MigrationEnters, EnterPost, Acquire, Entering
<1>9. CASE RecoveryEnters
  BY <1>9 DEF ReplyTyped, Reply, NoReply, NoToken, ArgGiven, Posting,
     RecoveryEnters, RecoveryApplies, EnterPost, Acquire, Entering
<1>10. CASE \E t \in Task : ServerMints(t) \/ ServerMintsLost(t)
  <2> PICK t \in Task : ServerMints(t) \/ ServerMintsLost(t)
    BY <1>10
  <2>1. pc[t] = "post" /\ arg[t] \in Key /\ minted' = Append(minted, arg[t])
    BY DEF ServerMints, ServerMintsLost, Answer, Mint, ArgGiven, Posting
  <2>2. minted' \in Seq(Key) /\ Len(minted') = Len(minted) + 1 /\ Len(minted) \in Nat
    BY <2>1
  <2>3. CASE ServerMints(t)
    BY <2>1, <2>2, <2>3 DEF ReplyTyped, Reply, NoToken, ServerMints, Answer
  <2>4. CASE ServerMintsLost(t)
    BY <2>1, <2>2, <2>4 DEF ReplyTyped, Reply, NoToken, ServerMintsLost, Answer
  <2>. QED BY <2>3, <2>4
<1>11. CASE \E t \in Task : ServerKnows(t) \/ ServerFails(t)
  <2> PICK t \in Task : ServerKnows(t) \/ ServerFails(t)
    BY <1>11
  <2>1. UNCHANGED minted /\ pc[t] = "post" /\ pc' = [pc EXCEPT ![t] = "reply"]
    BY DEF ServerKnows, ServerFails, Answer
  <2>2. \E kind \in {"failed", "conflict", "no_token"} :
           reply' = [reply EXCEPT ![t] = [kind |-> kind, token |-> NoToken]]
    BY DEF ServerKnows, ServerFails, Answer
  <2>. QED BY <2>1, <2>2 DEF ReplyTyped, Reply, NoToken
<1>12. CASE \E a \in Attempt : RegisterSucceeds(a)
  BY <1>12 DEF ReplyTyped, Reply, NoReply, NoToken, ArgGiven, Posting,
     RegisterSucceeds, Finishing, Return, Idle
<1>13. CASE \E a \in Attempt : RegisterFails(a)
  BY <1>13 DEF ReplyTyped, Reply, NoReply, NoToken, ArgGiven, Posting,
     RegisterFails, Finishing, Return, Idle
<1>14. CASE \E a \in Attempt : RegisterConflicts(a)
  BY <1>14 DEF ReplyTyped, Reply, NoReply, NoToken, ArgGiven, Posting,
     RegisterConflicts, Finishing, Return, Idle
<1>15. CASE CompletionSucceeds
  BY <1>15 DEF ReplyTyped, Reply, NoReply, NoToken, ArgGiven, Posting,
     CompletionSucceeds, Finishing, Return, Idle
<1>16. CASE \E t \in Hook : TokenArrives(t)
  BY <1>16 DEF ReplyTyped, Reply, NoReply, NoToken, ArgGiven, Posting,
     TokenArrives, Finishing, Return, Idle
<1>17. CASE \E t \in Hook : HookFails(t)
  BY <1>17 DEF ReplyTyped, Reply, NoReply, NoToken, ArgGiven, Posting,
     HookFails, Finishing, Return, Idle
<1>18. CASE DeregisterPressed
  BY <1>18 DEF ReplyTyped, Reply, NoReply, NoToken, ArgGiven, Posting,
     DeregisterPressed, Clear, Spend
<1>19. CASE DeregisterClears \/ DeregisterRefused
  BY <1>19 DEF ReplyTyped, Reply, NoReply, NoToken, ArgGiven, Posting,
     DeregisterClears, DeregisterRefused, Clear
<1>20. CASE Crash
  BY <1>20 DEF ReplyTyped, Reply, NoReply, NoToken, ArgGiven, Posting, Crash, Spend
<1>. QED BY Steps, <1>1, <1>2, <1>3, <1>4, <1>5, <1>6, <1>7, <1>8, <1>9, <1>10,
             <1>11, <1>12, <1>13, <1>14, <1>15, <1>16, <1>17, <1>18, <1>19, <1>20

\* What is spent stays within its bound.
LEMMA SpendTyped ==
    ASSUME TypeOK, NEW kind \in DOMAIN Bound, Spend(kind)
    PROVE  /\ spent' \in [DOMAIN Bound -> Nat]
           /\ \A k \in DOMAIN Bound : spent'[k] <= Bound[k]
<1>1. spent \in [DOMAIN Bound -> Nat] /\ spent[kind] \in Nat /\ Bound[kind] \in Nat
  BY BoundsAssumption DEF TypeOK, Bound
<1>2. spent' = [spent EXCEPT ![kind] = spent[kind] + 1] /\ spent[kind] < Bound[kind]
  BY DEF Spend
<1>. QED BY <1>1, <1>2 DEF TypeOK

\* The rest keeps its kind, and the bounds are kept.
LEMMA NextRest == IInv /\ Next => RestTyped'
<1> SUFFICES ASSUME IInv, Next PROVE RestTyped'
  OBVIOUS
<1> USE NoneAssumption, AttemptAssumption, BoundsAssumption DEF IInv, TypeOK, Task, Hook,
      taskVars, historyVars
<1>1. CASE \E a \in Attempt, k \in Key : RegisterPressed(a, k)
  BY <1>1 DEF RestTyped, Config, Unregistered, Bound, ArgGiven, Posting,
     RegisterPressed, Queue, Spend
<1>2. CASE HookDue
  BY <1>2 DEF RestTyped, Config, Unregistered, Bound, ArgGiven, Posting,
     HookDue, CompletionDue, MigrationDue, RecoveryDue, Queue
<1>3. CASE \E a \in Attempt : RegisterReuses(a)
  BY <1>3 DEF RestTyped, Config, Unregistered, Bound, ArgGiven, Posting,
     RegisterReuses, EnterReturn, Idle, Entering
<1>4. CASE \E a \in Attempt : RegisterEnters(a)
  BY <1>4 DEF RestTyped, Config, Unregistered, Bound, ArgGiven, Posting,
     RegisterEnters, EnterPost, Acquire, Entering
<1>5. CASE CompletionReturns \/ MigrationReturns \/ RecoveryReturns
  BY <1>5 DEF RestTyped, Config, Unregistered, Bound, ArgGiven, Posting,
     CompletionReturns, MigrationReturns, RecoveryReturns, EnterReturn, Idle,
     Entering
<1>6. CASE CompletionAdopts
  BY <1>6 DEF RestTyped, Config, Unregistered, Bound, ArgGiven, Posting,
     CompletionAdopts, EnterReturn, Idle, Entering
<1>7. CASE CompletionEnters
  BY <1>7 DEF RestTyped, Config, Unregistered, Bound, ArgGiven, Posting,
     CompletionEnters, EnterPost, Acquire, Entering
<1>8. CASE MigrationEnters
  BY <1>8 DEF RestTyped, Config, Unregistered, Bound, ArgGiven, Posting,
     MigrationEnters, EnterPost, Acquire, Entering
<1>9. CASE RecoveryEnters
  BY <1>9 DEF RestTyped, Config, Unregistered, Bound, ArgGiven, Posting,
     RecoveryEnters, RecoveryApplies, EnterPost, Acquire, Entering
<1>10. CASE \E t \in Task : ServerMints(t) \/ ServerMintsLost(t)
  <2> PICK t \in Task : ServerMints(t) \/ ServerMintsLost(t)
    BY <1>10
  <2>1. known' \subseteq Key
    BY DEF ServerMints, ServerMintsLost, Answer, Mint, ArgGiven, Posting
  <2>2. UNCHANGED spent \/ Spend("fault")
    BY DEF ServerMints, ServerMintsLost
  <2>3. spent' \in [DOMAIN Bound -> Nat] /\ \A kind \in DOMAIN Bound : spent'[kind] <= Bound[kind]
    <3>1. "fault" \in DOMAIN Bound
      BY DEF Bound
    <3>. QED BY <2>2, <3>1, SpendTyped
  <2>. QED BY <2>1, <2>3 DEF RestTyped, ServerMints, ServerMintsLost, Answer
<1>11. CASE \E t \in Task : ServerKnows(t) \/ ServerFails(t)
  <2> PICK t \in Task : ServerKnows(t) \/ ServerFails(t)
    BY <1>11
  <2>1. known' \subseteq Key
    BY DEF ServerKnows, ServerFails, Answer, Mint, ArgGiven, Posting
  <2>2. UNCHANGED spent \/ Spend("fault")
    BY DEF ServerKnows, ServerFails
  <2>3. spent' \in [DOMAIN Bound -> Nat] /\ \A kind \in DOMAIN Bound : spent'[kind] <= Bound[kind]
    <3>1. "fault" \in DOMAIN Bound
      BY DEF Bound
    <3>. QED BY <2>2, <3>1, SpendTyped
  <2>. QED BY <2>1, <2>3 DEF RestTyped, ServerKnows, ServerFails, Answer
<1>12. CASE \E a \in Attempt : RegisterSucceeds(a)
  BY <1>12 DEF RestTyped, Config, Unregistered, Bound, ArgGiven, Posting,
     RegisterSucceeds, Finishing, Return, Idle
<1>13. CASE \E a \in Attempt : RegisterFails(a)
  BY <1>13 DEF RestTyped, Config, Unregistered, Bound, ArgGiven, Posting,
     RegisterFails, Finishing, Return, Idle
<1>14. CASE \E a \in Attempt : RegisterConflicts(a)
  BY <1>14 DEF RestTyped, Config, Unregistered, Bound, ArgGiven, Posting,
     RegisterConflicts, Finishing, Return, Idle
<1>15. CASE CompletionSucceeds
  BY <1>15 DEF RestTyped, Config, Unregistered, Bound, ArgGiven, Posting,
     CompletionSucceeds, Finishing, Return, Idle
<1>16. CASE \E t \in Hook : TokenArrives(t)
  BY <1>16 DEF RestTyped, Config, Unregistered, Bound, ArgGiven, Posting,
     TokenArrives, Finishing, Return, Idle
<1>17. CASE \E t \in Hook : HookFails(t)
  BY <1>17 DEF RestTyped, Config, Unregistered, Bound, ArgGiven, Posting,
     HookFails, Finishing, Return, Idle
<1>18. CASE DeregisterPressed
  BY <1>18 DEF RestTyped, Config, Unregistered, Bound, ArgGiven, Posting,
     DeregisterPressed, Clear, Spend
<1>19. CASE DeregisterClears \/ DeregisterRefused
  BY <1>19 DEF RestTyped, Config, Unregistered, Bound, ArgGiven, Posting,
     DeregisterClears, DeregisterRefused, Clear
<1>20. CASE Crash
  BY <1>20 DEF RestTyped, Config, Unregistered, Bound, ArgGiven, Posting,
     Crash, Spend
<1>. QED BY Steps, <1>1, <1>2, <1>3, <1>4, <1>5, <1>6, <1>7, <1>8, <1>9, <1>10,
             <1>11, <1>12, <1>13, <1>14, <1>15, <1>16, <1>17, <1>18, <1>19, <1>20

\* The guard stays with the one that registers.
LEMMA NextGuard == IInv /\ Next => ArgGiven' /\ LockHeld'
<1> SUFFICES ASSUME IInv, Next PROVE ArgGiven' /\ LockHeld'
  OBVIOUS
<1> USE NoneAssumption, AttemptAssumption, BoundsAssumption DEF IInv, TypeOK, Task, Hook,
      taskVars, historyVars
<1>1. CASE \E a \in Attempt, k \in Key : RegisterPressed(a, k)
  BY <1>1 DEF Config, ArgGiven, LockHeld, Posting, RegisterPressed, Queue, Spend
<1>2. CASE HookDue
  BY <1>2 DEF Config, ArgGiven, LockHeld, Posting, HookDue, CompletionDue,
     MigrationDue, RecoveryDue, Queue
<1>3. CASE \E a \in Attempt : RegisterReuses(a)
  BY <1>3 DEF Config, ArgGiven, LockHeld, Posting, RegisterReuses, EnterReturn,
     Idle, Entering
<1>4. CASE \E a \in Attempt : RegisterEnters(a)
  BY <1>4 DEF Config, ArgGiven, LockHeld, Posting, RegisterEnters, EnterPost,
     Acquire, Entering
<1>5. CASE CompletionReturns \/ MigrationReturns \/ RecoveryReturns
  BY <1>5 DEF Config, ArgGiven, LockHeld, Posting, CompletionReturns,
     MigrationReturns, RecoveryReturns, EnterReturn, Idle, Entering
<1>6. CASE CompletionAdopts
  BY <1>6 DEF Config, ArgGiven, LockHeld, Posting, CompletionAdopts,
     EnterReturn, Idle, Entering
<1>7. CASE CompletionEnters
  BY <1>7 DEF Config, ArgGiven, LockHeld, Posting, CompletionEnters, EnterPost,
     Acquire, Entering
<1>8. CASE MigrationEnters
  BY <1>8 DEF Config, ArgGiven, LockHeld, Posting, MigrationEnters, EnterPost,
     Acquire, Entering
<1>9. CASE RecoveryEnters
  BY <1>9 DEF Config, ArgGiven, LockHeld, Posting, RecoveryEnters,
     RecoveryApplies, EnterPost, Acquire, Entering
<1>10. CASE \E t \in Task : ServerMints(t) \/ ServerMintsLost(t)
  BY <1>10 DEF Config, ArgGiven, LockHeld, Posting, ServerMints,
     ServerMintsLost, Answer, Mint, Spend
<1>11. CASE \E t \in Task : ServerKnows(t) \/ ServerFails(t)
  BY <1>11 DEF Config, ArgGiven, LockHeld, Posting, ServerKnows, ServerFails,
     Answer, Spend
<1>12. CASE \E a \in Attempt : RegisterSucceeds(a)
  BY <1>12 DEF Config, ArgGiven, LockHeld, Posting, RegisterSucceeds,
     Finishing, Return, Idle
<1>13. CASE \E a \in Attempt : RegisterFails(a)
  BY <1>13 DEF Config, ArgGiven, LockHeld, Posting, RegisterFails, Finishing,
     Return, Idle
<1>14. CASE \E a \in Attempt : RegisterConflicts(a)
  BY <1>14 DEF Config, ArgGiven, LockHeld, Posting, RegisterConflicts,
     Finishing, Return, Idle
<1>15. CASE CompletionSucceeds
  BY <1>15 DEF Config, ArgGiven, LockHeld, Posting, CompletionSucceeds,
     Finishing, Return, Idle
<1>16. CASE \E t \in Hook : TokenArrives(t)
  BY <1>16 DEF Config, ArgGiven, LockHeld, Posting, TokenArrives, Finishing,
     Return, Idle
<1>17. CASE \E t \in Hook : HookFails(t)
  BY <1>17 DEF Config, ArgGiven, LockHeld, Posting, HookFails, Finishing,
     Return, Idle
<1>18. CASE DeregisterPressed
  BY <1>18 DEF Config, ArgGiven, LockHeld, Posting, DeregisterPressed, Clear, Spend
<1>19. CASE DeregisterClears \/ DeregisterRefused
  BY <1>19 DEF Config, ArgGiven, LockHeld, Posting, DeregisterClears,
     DeregisterRefused, Clear
<1>20. CASE Crash
  BY <1>20 DEF Config, ArgGiven, LockHeld, Posting, Crash, Spend
<1>. QED BY Steps, <1>1, <1>2, <1>3, <1>4, <1>5, <1>6, <1>7, <1>8, <1>9, <1>10,
             <1>11, <1>12, <1>13, <1>14, <1>15, <1>16, <1>17, <1>18, <1>19, <1>20

\* The confirmed binding stays.
LEMMA NextKeeps == IInv /\ Next => BindingKept'
<1> SUFFICES ASSUME IInv, Next PROVE BindingKept'
  OBVIOUS
<1> USE NoneAssumption, AttemptAssumption, BoundsAssumption DEF IInv, TypeOK, Task, Hook,
      taskVars, historyVars
<1>1. CASE \E a \in Attempt, k \in Key : RegisterPressed(a, k)
  BY <1>1 DEF Config, BindingKept, ArgGiven, LockHeld, Posting,
     RegisterPressed, Queue, Spend
<1>2. CASE HookDue
  BY <1>2 DEF Config, BindingKept, ArgGiven, LockHeld, Posting, HookDue,
     CompletionDue, MigrationDue, RecoveryDue, Queue
<1>3. CASE \E a \in Attempt : RegisterReuses(a)
  BY <1>3 DEF Config, BindingKept, ArgGiven, LockHeld, Posting, RegisterReuses,
     EnterReturn, Idle, Entering
<1>4. CASE \E a \in Attempt : RegisterEnters(a)
  BY <1>4 DEF Config, BindingKept, ArgGiven, LockHeld, Posting, RegisterEnters,
     EnterPost, Acquire, Entering
<1>5. CASE CompletionReturns \/ MigrationReturns \/ RecoveryReturns
  BY <1>5 DEF Config, BindingKept, ArgGiven, LockHeld, Posting,
     CompletionReturns, MigrationReturns, RecoveryReturns, EnterReturn, Idle,
     Entering
<1>6. CASE CompletionAdopts
  BY <1>6 DEF Config, BindingKept, ArgGiven, LockHeld, Posting,
     CompletionAdopts, EnterReturn, Idle, Entering
<1>7. CASE CompletionEnters
  BY <1>7 DEF Config, BindingKept, ArgGiven, LockHeld, Posting,
     CompletionEnters, EnterPost, Acquire, Entering
<1>8. CASE MigrationEnters
  BY <1>8 DEF Config, BindingKept, ArgGiven, LockHeld, Posting,
     MigrationEnters, EnterPost, Acquire, Entering
<1>9. CASE RecoveryEnters
  BY <1>9 DEF Config, BindingKept, ArgGiven, LockHeld, Posting, RecoveryEnters,
     RecoveryApplies, EnterPost, Acquire, Entering
<1>10. CASE \E t \in Task : ServerMints(t) \/ ServerMintsLost(t)
  BY <1>10 DEF Config, BindingKept, ArgGiven, LockHeld, Posting, ServerMints,
     ServerMintsLost, Answer, Mint, Spend
<1>11. CASE \E t \in Task : ServerKnows(t) \/ ServerFails(t)
  BY <1>11 DEF Config, BindingKept, ArgGiven, LockHeld, Posting, ServerKnows,
     ServerFails, Answer, Spend
<1>12. CASE \E a \in Attempt : RegisterSucceeds(a)
  BY <1>12 DEF Config, BindingKept, ArgGiven, LockHeld, Posting,
     RegisterSucceeds, Finishing, Return, Idle
<1>13. CASE \E a \in Attempt : RegisterFails(a)
  BY <1>13 DEF Config, BindingKept, ArgGiven, LockHeld, Posting, RegisterFails,
     Finishing, Return, Idle
<1>14. CASE \E a \in Attempt : RegisterConflicts(a)
  BY <1>14 DEF Config, BindingKept, ArgGiven, LockHeld, Posting,
     RegisterConflicts, Finishing, Return, Idle
<1>15. CASE CompletionSucceeds
  BY <1>15 DEF Config, BindingKept, ArgGiven, LockHeld, Posting,
     CompletionSucceeds, Finishing, Return, Idle
<1>16. CASE \E t \in Hook : TokenArrives(t)
  BY <1>16 DEF Config, BindingKept, ArgGiven, LockHeld, Posting, TokenArrives,
     Finishing, Return, Idle
<1>17. CASE \E t \in Hook : HookFails(t)
  BY <1>17 DEF Config, BindingKept, ArgGiven, LockHeld, Posting, HookFails,
     Finishing, Return, Idle
<1>18. CASE DeregisterPressed
  BY <1>18 DEF Config, BindingKept, ArgGiven, LockHeld, Posting,
     DeregisterPressed, Clear, Spend
<1>19. CASE DeregisterClears \/ DeregisterRefused
  BY <1>19 DEF Config, BindingKept, ArgGiven, LockHeld, Posting,
     DeregisterClears, DeregisterRefused, Clear
<1>20. CASE Crash
  BY <1>20 DEF Config, BindingKept, ArgGiven, LockHeld, Posting, Crash, Spend
<1>. QED BY Steps, <1>1, <1>2, <1>3, <1>4, <1>5, <1>6, <1>7, <1>8, <1>9, <1>10,
             <1>11, <1>12, <1>13, <1>14, <1>15, <1>16, <1>17, <1>18, <1>19, <1>20

\* A step that changes nothing keeps the invariant.
LEMMA StutterInv == IInv /\ UNCHANGED vars => IInv'
BY DEF IInv, TypeOK, SnapMinted, ArgGiven, LockHeld, BindingKept, Posting, vars,
       taskVars, historyVars, Bound, Reply

\* The invariant of every reachable state.
LEMMA Invariance == Spec => []IInv
<1>1. IInv /\ Next => TypeOK'
  BY NextStore, NextReply, NextRest DEF TypeOK, StoreTyped, ReplyTyped, RestTyped
<1>2. IInv /\ [Next]_vars => IInv'
  BY <1>1, NextStore, NextGuard, NextKeeps, StutterInv DEF IInv
<1>. QED BY InitInv, <1>2, PTL DEF Spec

\* Every stored key, id, token and flag keeps its kind, and every token stored
\* or under way is one the server minted.
THEOREM TypeCorrect == Spec => []TypeOK
<1>1. IInv => TypeOK
  BY DEF IInv
<1>. QED BY Invariance, <1>1, PTL

\* B1: what register_device has established no failing attempt and no hook
\* takes away.
THEOREM BindingSticks == Spec => []SuccessSticks
<1>1. IInv => SuccessSticks
  BY DEF IInv, BindingKept, SuccessSticks
<1>. QED BY Invariance, <1>1, PTL

-----------------------------------------------------------------------------
(* Tokens.                                                                 *)

\* While an attempt is under way the stored token is the one it would restore,
\* unless the user deregistered meanwhile.
TokenKept ==
    \A a \in Attempt : Posting(a) => cfg.device_token \in {NoToken, snap[a].device_token}

\* A token under way is no older than the stored one.
ReplyNewer ==
    \A t \in Task : reply[t].kind = "token" => reply[t].token >= cfg.device_token

\* What the recovery read before its lock was rejected, and stays so.
StillRejected ==
    pc["recover"] = "queued" =>
        ~Newest(snap["recover"].miner_key, snap["recover"].device_token)

Tokens == TokenKept /\ ReplyNewer /\ StillRejected

\* No token is stored or under way at first.
LEMMA InitTokens == Init => Tokens
BY DEF Init, Tokens, TokenKept, ReplyNewer, StillRejected, Posting, NoReply, Task, Hook

\* A newly minted token is newer than all others, and makes none of those valid.
LEMMA MintTokens ==
    ASSUME IInv, Tokens, NEW t \in Task, ServerMints(t) \/ ServerMintsLost(t)
    PROVE  Tokens'
<1> USE DEF IInv, TypeOK, Tokens
<1>1. /\ minted \in Seq(Key) /\ minted' = Append(minted, arg[t]) /\ arg[t] \in Key
      /\ UNCHANGED <<cfg, snap>> /\ pc[t] = "post" /\ pc' = [pc EXCEPT ![t] = "reply"]
      /\ \/ reply' = [reply EXCEPT ![t] = [kind |-> "token", token |-> Len(minted) + 1]]
         \/ reply' = [reply EXCEPT ![t] = [kind |-> "failed", token |-> NoToken]]
  BY DEF ServerMints, ServerMintsLost, Answer, Mint, ArgGiven, Posting
<1>2. /\ Len(minted) \in Nat /\ DOMAIN minted = 1..Len(minted)
      /\ Len(minted') = Len(minted) + 1 /\ DOMAIN minted' = 1..(Len(minted) + 1)
      /\ \A i \in DOMAIN minted : minted'[i] = minted[i]
  BY <1>1
<1>3. TokenKept'
  BY <1>1 DEF TokenKept, Posting
<1>4. ReplyNewer'
  <2> SUFFICES ASSUME NEW u \in Task, reply'[u].kind = "token"
               PROVE  reply'[u].token >= cfg.device_token
    BY <1>1 DEF ReplyNewer
  <2>1. CASE u = t
    BY <1>1, <1>2, <2>1 DEF Config
  <2>2. CASE u # t
    <3>1. reply'[u] = reply[u]
      BY <1>1, <2>2
    <3>. QED BY <3>1 DEF ReplyNewer
  <2>. QED BY <2>1, <2>2
<1>5. StillRejected'
  <2> SUFFICES ASSUME pc'["recover"] = "queued"
               PROVE  ~Newest(snap["recover"].miner_key, snap["recover"].device_token)'
    BY <1>1 DEF StillRejected
  <2> DEFINE k == snap["recover"].miner_key
             i == snap["recover"].device_token
  <2>1. pc["recover"] = "queued" /\ i \in Nat /\ i <= Len(minted)
    BY <1>1 DEF Task, Hook, SnapMinted, Config
  <2>2. ~Newest(k, i)
    BY <2>1 DEF StillRejected
  <2>3. snap' = snap
    BY <1>1
  <2>4. CASE i = 0
    BY <1>2, <2>3, <2>4 DEF Newest
  <2>5. CASE i # 0
    <3>1. i \in DOMAIN minted /\ minted'[i] = minted[i]
      BY <1>2, <2>1, <2>5
    <3>. HIDE DEF k, i
    <3>2. minted'[i] = k => \E j \in DOMAIN minted : minted[j] = k /\ ~(j <= i)
      BY <2>2, <3>1 DEF Newest
    <3>3. minted'[i] = k => \E j \in DOMAIN minted' : minted'[j] = k /\ ~(j <= i)
      BY <1>2, <3>2
    <3>. QED BY <2>3, <3>3 DEF Newest, k, i
  <2>. QED BY <2>4, <2>5
<1>. QED BY <1>3, <1>4, <1>5

\* Only the holder of the guard stores a token, and a deregistration drops it.
LEMMA NextTokens == IInv /\ Tokens /\ Next => Tokens'
<1> SUFFICES ASSUME IInv, Tokens, Next PROVE Tokens'
  OBVIOUS
<1> USE NoneAssumption, AttemptAssumption DEF IInv, TypeOK, Task, Hook,
      taskVars, historyVars
<1>1. CASE \E a \in Attempt, k \in Key : RegisterPressed(a, k)
  BY <1>1 DEF Tokens, TokenKept, ReplyNewer, StillRejected, Config,
     Unregistered, NoToken, Reply, NoReply, LockHeld, SnapMinted, Posting,
     Newest, RegisterPressed, Queue, Spend
<1>2. CASE HookDue
  BY <1>2 DEF Tokens, TokenKept, ReplyNewer, StillRejected, Config,
     Unregistered, NoToken, Reply, NoReply, LockHeld, SnapMinted, Posting,
     Newest, HookDue, CompletionDue, MigrationDue, RecoveryDue, Queue,
     Rejected, Valid
<1>3. CASE \E a \in Attempt : RegisterReuses(a)
  BY <1>3 DEF Tokens, TokenKept, ReplyNewer, StillRejected, Config,
     Unregistered, NoToken, Reply, NoReply, LockHeld, SnapMinted, Posting,
     Newest, RegisterReuses, EnterReturn, Idle, Entering
<1>4. CASE \E a \in Attempt : RegisterEnters(a)
  BY <1>4 DEF Tokens, TokenKept, ReplyNewer, StillRejected, Config,
     Unregistered, NoToken, Reply, NoReply, LockHeld, SnapMinted, Posting,
     Newest, RegisterEnters, EnterPost, Acquire, Entering
<1>5. CASE CompletionReturns \/ MigrationReturns \/ RecoveryReturns
  BY <1>5 DEF Tokens, TokenKept, ReplyNewer, StillRejected, Config,
     Unregistered, NoToken, Reply, NoReply, LockHeld, SnapMinted, Posting,
     Newest, CompletionReturns, MigrationReturns, RecoveryReturns,
     EnterReturn, Idle, Entering
<1>6. CASE CompletionAdopts
  BY <1>6 DEF Tokens, TokenKept, ReplyNewer, StillRejected, Config,
     Unregistered, NoToken, Reply, NoReply, LockHeld, SnapMinted, Posting,
     Newest, CompletionAdopts, EnterReturn, Idle, Entering
<1>7. CASE CompletionEnters
  BY <1>7 DEF Tokens, TokenKept, ReplyNewer, StillRejected, Config,
     Unregistered, NoToken, Reply, NoReply, LockHeld, SnapMinted, Posting,
     Newest, CompletionEnters, EnterPost, Acquire, Entering
<1>8. CASE MigrationEnters
  BY <1>8 DEF Tokens, TokenKept, ReplyNewer, StillRejected, Config,
     Unregistered, NoToken, Reply, NoReply, LockHeld, SnapMinted, Posting,
     Newest, MigrationEnters, EnterPost, Acquire, Entering
<1>9. CASE RecoveryEnters
  BY <1>9 DEF Tokens, TokenKept, ReplyNewer, StillRejected, Config,
     Unregistered, NoToken, Reply, NoReply, LockHeld, SnapMinted, Posting,
     Newest, RecoveryEnters, EnterPost, Acquire, Entering
<1>11. CASE \E t \in Task : ServerKnows(t) \/ ServerFails(t)
  <2> PICK t \in Task : ServerKnows(t) \/ ServerFails(t)
    BY <1>11
  <2>1. PICK kind \in {"failed", "conflict", "no_token"} :
            /\ reply' = [reply EXCEPT ![t] = [kind |-> kind, token |-> NoToken]]
            /\ pc[t] = "post" /\ pc' = [pc EXCEPT ![t] = "reply"]
            /\ UNCHANGED <<cfg, snap, minted>>
    BY DEF ServerKnows, ServerFails, Answer
  <2>2. ReplyNewer'
    BY <2>1 DEF Tokens, ReplyNewer
  <2>. QED BY <2>1, <2>2 DEF Tokens, TokenKept, StillRejected, Posting, Newest
<1>12. CASE \E a \in Attempt : RegisterSucceeds(a)
  BY <1>12 DEF Tokens, TokenKept, ReplyNewer, StillRejected, Config,
     Unregistered, NoToken, Reply, NoReply, LockHeld, SnapMinted, Posting,
     Newest, RegisterSucceeds, Finishing, Return, Idle
<1>13. CASE \E a \in Attempt : RegisterFails(a)
  BY <1>13 DEF Tokens, TokenKept, ReplyNewer, StillRejected, Config,
     Unregistered, NoToken, Reply, NoReply, LockHeld, SnapMinted, Posting,
     Newest, RegisterFails, Finishing, Return, Idle
<1>14. CASE \E a \in Attempt : RegisterConflicts(a)
  BY <1>14 DEF Tokens, TokenKept, ReplyNewer, StillRejected, Config,
     Unregistered, NoToken, Reply, NoReply, LockHeld, SnapMinted, Posting,
     Newest, RegisterConflicts, Finishing, Return, Idle
<1>15. CASE CompletionSucceeds
  BY <1>15 DEF Tokens, TokenKept, ReplyNewer, StillRejected, Config,
     Unregistered, NoToken, Reply, NoReply, LockHeld, SnapMinted, Posting,
     Newest, CompletionSucceeds, Finishing, Return, Idle
<1>16. CASE \E t \in Hook : TokenArrives(t)
  BY <1>16 DEF Tokens, TokenKept, ReplyNewer, StillRejected, Config,
     Unregistered, NoToken, Reply, NoReply, LockHeld, SnapMinted, Posting,
     Newest, TokenArrives, Finishing, Return, Idle
<1>17. CASE \E t \in Hook : HookFails(t)
  BY <1>17 DEF Tokens, TokenKept, ReplyNewer, StillRejected, Config,
     Unregistered, NoToken, Reply, NoReply, LockHeld, SnapMinted, Posting,
     Newest, HookFails, Finishing, Return, Idle
<1>18. CASE DeregisterPressed \/ DeregisterClears
  <2>1. UNCHANGED <<pc, snap, reply, minted>>
    BY <1>18 DEF DeregisterPressed, DeregisterClears
  <2>2. cfg' = cfg \/ cfg'.device_token = NoToken
    BY <1>18 DEF DeregisterPressed, DeregisterClears, Clear, Unregistered
  <2>. QED BY <2>1, <2>2
       DEF Tokens, TokenKept, ReplyNewer, StillRejected, Posting, Newest, NoToken, Reply
<1>19. CASE DeregisterRefused
  BY <1>19 DEF Tokens, TokenKept, ReplyNewer, StillRejected, Posting, Newest,
     DeregisterRefused
<1>20. CASE Crash
  BY <1>20 DEF Tokens, TokenKept, ReplyNewer, StillRejected, Config,
     Unregistered, NoToken, Reply, NoReply, LockHeld, SnapMinted, Posting,
     Newest, Crash, Spend
<1>. QED BY Steps, MintTokens, <1>1, <1>2, <1>3, <1>4, <1>5, <1>6, <1>7, <1>8, <1>9,
             <1>11, <1>12, <1>13, <1>14, <1>15, <1>16, <1>17, <1>18, <1>19, <1>20

\* What is said of the tokens holds throughout.
LEMMA TokensInvariance == Spec => []Tokens
<1>1. UNCHANGED vars /\ Tokens => Tokens'
  BY DEF Tokens, TokenKept, ReplyNewer, StillRejected, Posting, Newest, vars, taskVars,
     historyVars
<1>. QED BY Invariance, InitTokens, NextTokens, <1>1, PTL DEF Spec

\* Whoever mints stores its token before anybody else mints: the device never
\* goes back to an older one.
THEOREM TokensOnlyRenewed == Spec => NeverAnOlderToken
<1> DEFINE Newer == HasToken /\ cfg'.device_token # NoToken
                      => cfg'.device_token >= cfg.device_token
<1>1. ASSUME IInv, Tokens, Next PROVE Newer
  <2> USE <1>1 DEF IInv, TypeOK, Tokens
  <2>1. CASE UNCHANGED cfg.device_token \/ cfg'.device_token = NoToken
    BY <2>1 DEF Config
  <2>2. CASE \E a \in Attempt : RegisterSucceeds(a)
    BY <2>2 DEF RegisterSucceeds, Finishing, ReplyNewer, Reply, Task, Config
  <2>3. CASE \E a \in Attempt : RegisterFails(a)
    <3> PICK a \in Attempt : RegisterFails(a)
      BY <2>3
    <3>1. Posting(a) /\ a \in Task
      BY DEF RegisterFails, Finishing, Posting, Task
    <3>2. cfg' = cfg \/ cfg'.device_token = snap[a].device_token
      BY <3>1 DEF RegisterFails, Config
    <3>. QED BY <3>1, <3>2 DEF TokenKept, HasToken, Config
  <2>4. CASE CompletionSucceeds
    BY <2>4 DEF CompletionSucceeds, Finishing, ReplyNewer, Reply, Task, Hook, Config
  <2>5. CASE \E t \in Hook : TokenArrives(t)
    BY <2>5 DEF TokenArrives, Finishing, ReplyNewer, Reply, Task, Hook, Config
  <2>6. CASE RecoveryEnters \/ DeregisterPressed \/ DeregisterClears
    BY <2>6, <2>1 DEF RecoveryEnters, DeregisterPressed, DeregisterClears, Clear,
       Unregistered, Config
  <2>7. CASE \/ \E a \in Attempt : RegisterEnters(a)
             \/ CompletionAdopts \/ CompletionEnters
    BY <2>7, <2>1 DEF RegisterEnters, CompletionAdopts, CompletionEnters, Config
  <2>8. CASE \/ \E a \in Attempt, k \in Key : RegisterPressed(a, k)
             \/ HookDue
             \/ \E a \in Attempt : RegisterReuses(a)
             \/ CompletionReturns \/ MigrationReturns \/ RecoveryReturns \/ MigrationEnters
             \/ \E t \in Task : ServerMints(t) \/ ServerMintsLost(t)
             \/ \E t \in Task : ServerKnows(t) \/ ServerFails(t)
             \/ \E a \in Attempt : RegisterConflicts(a)
             \/ \E t \in Hook : HookFails(t)
             \/ DeregisterRefused \/ Crash
    BY <2>8, <2>1 DEF RegisterPressed, HookDue, CompletionDue, MigrationDue, RecoveryDue,
       Queue, RegisterReuses, CompletionReturns, MigrationReturns, RecoveryReturns,
       MigrationEnters, ServerMints, ServerMintsLost, ServerKnows, ServerFails, Answer,
       RegisterConflicts, HookFails, DeregisterRefused, Crash
  <2>. HIDE DEF Newer
  <2>. QED BY Steps, <2>2, <2>3, <2>4, <2>5, <2>6, <2>7, <2>8
<1>2. IInv /\ Tokens /\ [Next]_vars => [Newer]_vars
  BY <1>1
<1>. QED BY Invariance, TokensInvariance, <1>2, PTL DEF Spec, NeverAnOlderToken

\* No hook asks for a new token of the key it looked at while the stored one is
\* the newest: the migration looks again under the guard, and the recovery only
\* goes on if the token it saw rejected is still the stored one.
THEOREM FreshTokensStay == Spec => FreshTokenNotRotated
<1> DEFINE Fresh == \A t \in Hook :
               /\ pc[t] = "queued" /\ pc'[t] = "post"
               /\ snap[t].miner_key = cfg.miner_key
               => ~Valid
<1>1. ASSUME IInv, Tokens, Next PROVE Fresh
  <2> SUFFICES ASSUME NEW t \in Hook, pc[t] = "queued", pc'[t] = "post",
                      snap[t].miner_key = cfg.miner_key
               PROVE  ~Valid
    OBVIOUS
  <2> USE <1>1 DEF IInv, TypeOK, Tokens, Task, Hook
  <2>1. CompletionEnters \/ MigrationEnters \/ (t = "recover" /\ RecoveryEnters)
    <3>1. /\ pc \in [Task -> {"idle", "queued", "post", "reply"}]
          /\ ~\E u \in Task : pc' = [pc EXCEPT ![u] = "reply"] /\ pc[u] = "post"
          /\ ~\E u \in Task : pc' = [pc EXCEPT ![u] = "queued"]
          /\ ~\E u \in Task : pc' = [pc EXCEPT ![u] = "idle"]
          /\ pc' # pc /\ pc' # [u \in Task |-> "idle"]
          /\ \A a \in Attempt : pc' # [pc EXCEPT ![a] = "post"]
      BY AttemptAssumption
    <3>. QED BY Steps, <3>1
         DEF RegisterPressed, HookDue, CompletionDue, MigrationDue, RecoveryDue, Queue,
         RegisterReuses, RegisterEnters, EnterPost, CompletionReturns, MigrationReturns,
         RecoveryReturns, CompletionAdopts, EnterReturn, Idle, RecoveryEnters,
         ServerMints, ServerMintsLost, ServerKnows, ServerFails, Answer,
         RegisterSucceeds, RegisterFails, RegisterConflicts, CompletionSucceeds,
         TokenArrives, HookFails, Finishing, Return, DeregisterPressed,
         DeregisterClears, DeregisterRefused, Clear, Crash, taskVars
  <2>2. CASE CompletionEnters \/ MigrationEnters
    <3>1. cfg.device_token = 0
      BY <2>2 DEF CompletionEnters, MigrationEnters, HasToken, NoToken
    <3>. QED BY <3>1 DEF Valid, Newest
  <2>3. CASE t = "recover" /\ RecoveryEnters
    BY <2>3 DEF RecoveryEnters, RecoveryApplies, StillRejected, Valid
  <2>. QED BY <2>1, <2>2, <2>3
<1>2. IInv /\ Tokens /\ [Next]_vars => [Fresh]_vars
  BY <1>1
<1>. QED BY Invariance, TokensInvariance, <1>2, PTL DEF Spec, FreshTokenNotRotated
=============================================================================
