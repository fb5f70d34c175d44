------------------------- MODULE ConfigStoreProofs -------------------------
(***************************************************************************)
(* Proofs about ConfigStore, for any number of updates, losses and failed  *)
(* writes: files are only ever whole contents unless something outside     *)
(* damages them, and what an update acknowledged is loaded again.          *)
(***************************************************************************)
EXTENDS ConfigStore, TLAPS

USE BoundsAssumption, FileAssumption

\* A load takes whole contents, and the primary's when it can read it.
LEMMA LoadFacts ==
    ASSUME NEW f \in [Target -> Content \cup {Absent, Corrupt}], NEW u
    PROVE  /\ Loaded(f, u) \in Content
           /\ f["primary"] \in Content /\ "primary" \notin u
                 => Loaded(f, u) = f["primary"]
           /\ Loadable(f, u) # {} => Source(f, u) \in Loadable(f, u)
<1>1. Order \in Seq(Target) /\ Order[1] = "primary" /\ \A i \in 1..3 : Order[i] \in Target
  BY DEF Order, Target
<1>2. Loadable(f, u) \subseteq 1..3
  BY DEF Loadable
<1>3. Loadable(f, u) # {} => Source(f, u) \in Loadable(f, u)
  <2> SUFFICES ASSUME Loadable(f, u) # {}
               PROVE  \E i \in Loadable(f, u) : \A j \in Loadable(f, u) : i <= j
    BY DEF Source
  <2>1. CASE 1 \in Loadable(f, u)
    BY <1>2, <2>1
  <2>2. CASE 1 \notin Loadable(f, u) /\ 2 \in Loadable(f, u)
    BY <1>2, <2>2
  <2>3. CASE 1 \notin Loadable(f, u) /\ 2 \notin Loadable(f, u)
    BY <1>2, <2>3
  <2>. QED BY <2>1, <2>2, <2>3
<1>4. Loaded(f, u) \in Content
  <2>1. CASE Loadable(f, u) = {}
    <3>1. Source(f, u) = 4
      BY <2>1 DEF Source
    <3>. QED BY <3>1 DEF Loaded, Default, Content
  <2>2. CASE Loadable(f, u) # {}
    BY <1>2, <1>3, <2>2 DEF Loaded, Loadable
  <2>. QED BY <2>1, <2>2
<1>5. ASSUME f["primary"] \in Content, "primary" \notin u
      PROVE  Source(f, u) = 1
  <2>1. 1 \in Loadable(f, u)
    BY <1>1, <1>5 DEF Loadable
  <2>2. \A i \in Loadable(f, u) : (\A j \in Loadable(f, u) : i <= j) => i = 1
    BY <1>2, <2>1
  <2>3. \A j \in Loadable(f, u) : 1 <= j
    BY <1>2
  <2>. QED BY <2>1, <2>2, <2>3 DEF Source
<1>. QED BY <1>1, <1>3, <1>4, <1>5 DEF Loaded

\* Without a failed read, the primary holds at least what was acknowledged, as
\* long as nothing outside damaged it; and so does the memory.
PrimaryCovers ==
    /\ acked.seq <= updates
    /\ up => mem.seq >= acked.seq /\ mem.seq <= updates
    /\ readErrs = 0 /\ "primary" \notin damaged =>
           \/ file["primary"] = Absent /\ acked.seq = 0
           \/ file["primary"] \in Content /\ file["primary"].seq >= acked.seq

Written ==
    \A t \in Target : file[t] \in Content => file[t].seq <= updates

IInv == TypeOK /\ PrimaryCovers /\ Written

\* The invariant holds before the first step.
LEMMA InitInv == Init => IInv
<1> SUFFICES ASSUME Init PROVE IInv
  OBVIOUS
<1>1. Default \in Content
  BY DEF Default, Content
<1>2. /\ {0} \subseteq 0..MaxUpdates /\ {0} \subseteq 0..MaxLosses
      /\ {0} \subseteq 0..MaxReadErrs /\ {0} \subseteq 0..MaxWriteErrs
  OBVIOUS
<1>3. todo \in Pending /\ file \in [Target -> Content \cup {Absent, Corrupt}]
  BY DEF Init, Pending
<1>4. \A t \in Target : file[t] # Corrupt
  BY DEF Init
<1>5. TypeOK
  BY <1>1, <1>2, <1>3, <1>4 DEF Init, TypeOK
<1>. QED BY <1>5 DEF Init, IInv, PrimaryCovers, Written, Default, Target, Content

\* What a load takes was written.
LEMMA LoadedWritten ==
    ASSUME TypeOK, Written, NEW u
    PROVE  Loaded(file, u).seq <= updates
<1>1. CASE Source(file, u) = 4
  BY <1>1 DEF Loaded, Default, TypeOK
<1>2. CASE Source(file, u) # 4
  <2>1. Loadable(file, u) # {}
    BY <1>2 DEF Source
  <2>2. Source(file, u) \in Loadable(file, u)
    BY <1>2, LoadFacts, <2>1 DEF TypeOK
  <2>3. Order[Source(file, u)] \in Target /\ file[Order[Source(file, u)]] \in Content
    BY <2>2 DEF Loadable, Order, Target
  <2>. QED BY <1>2, <2>3 DEF Loaded, Written
<1>. QED BY <1>1, <1>2

\* A launch, whatever it cannot read.
LEMMA StartInv ==
    ASSUME IInv, NEW u \in SUBSET Target, Start(u),
           \/ u = {} /\ readErrs' = readErrs
           \/ readErrs < MaxReadErrs /\ readErrs' = readErrs + 1
    PROVE  IInv'
<1> USE DEF IInv
<1>1. /\ mem' = Loaded(file, u) /\ mem' \in Content /\ mem'.seq <= updates
      /\ acked' = IF mem'.seq < acked.seq THEN mem' ELSE acked
      /\ file["primary"] \in Content /\ "primary" \notin u => mem' = file["primary"]
  BY LoadFacts, LoadedWritten DEF Start, TypeOK
<1>2. /\ file' \in [Target -> Content \cup {Absent, Corrupt}]
      /\ \A t \in Target : file'[t] = file[t] \/ (file[t] = Corrupt /\ file'[t] = Absent)
  BY DEF Start, Quarantined, TypeOK
<1>3. todo' \in Pending
  BY DEF Start, Pending
<1>4. UNCHANGED <<behind, damaged, updates, losses, writeErrs>> /\ up' \in BOOLEAN
  BY DEF Start
<1>5. warned' \in BOOLEAN
  BY DEF Start, Warns
<1>6. acked' \in Content /\ acked'.seq <= updates /\ mem'.seq >= acked'.seq
  BY <1>1 DEF TypeOK, PrimaryCovers, Content
<1>7. TypeOK'
  BY <1>1, <1>2, <1>3, <1>4, <1>5, <1>6 DEF TypeOK
<1>8. Written'
  BY <1>2, <1>4 DEF Written
<1>9. PrimaryCovers'
  <2>2. ASSUME readErrs' = 0, "primary" \notin damaged'
        PROVE  \/ file'["primary"] = Absent /\ acked'.seq = 0
               \/ file'["primary"] \in Content /\ file'["primary"].seq >= acked'.seq
    <3>1. u = {} /\ readErrs = 0 /\ "primary" \notin damaged
      BY <1>4, <2>2 DEF TypeOK
    <3>2. CASE file["primary"] = Absent /\ acked.seq = 0
      BY <1>1, <1>2, <1>6, <3>2 DEF Target, Content
    <3>3. CASE file["primary"] \in Content /\ file["primary"].seq >= acked.seq
      BY <1>1, <1>2, <3>1, <3>3 DEF Target, Content, TypeOK
    <3>. QED BY <3>1, <3>2, <3>3 DEF PrimaryCovers
  <2>. QED BY <1>1, <1>4, <1>6, <2>2 DEF PrimaryCovers
<1>. QED BY <1>7, <1>8, <1>9

\* An update takes the next number, in memory.
LEMMA UpdateInv ==
    ASSUME IInv, NEW key \in 0..MaxUpdates, Update(key)
    PROVE  IInv'
<1> USE DEF IInv
<1>1. mem' \in Content /\ mem'.seq = updates + 1
  BY DEF Update, Content, TypeOK
<1>2. todo' \in Pending
  BY DEF Update, Targets, Pending
<1>3. TypeOK'
  <2>1. updates' \in 0..MaxUpdates
    BY DEF Update, TypeOK
  <2>2. UNCHANGED <<up, file, warned, acked, behind, damaged, losses, readErrs, writeErrs>>
    BY DEF Update
  <2>. QED BY <1>1, <1>2, <2>1, <2>2 DEF TypeOK
<1>4. /\ UNCHANGED <<up, file, acked, damaged, readErrs>>
      /\ updates' = updates + 1 /\ updates \in Nat
      /\ acked.seq \in Nat /\ \A t \in Target : file[t] \in Content => file[t].seq \in Nat
  BY DEF Update, TypeOK, Content
<1>5. Written'
  BY <1>4 DEF Written
<1>6. PrimaryCovers'
  BY <1>1, <1>4 DEF PrimaryCovers
<1>. QED BY <1>3, <1>5, <1>6

\* What a save has left to write, target by target.
LEMMA TodoFacts ==
    ASSUME todo \in Pending
    PROVE  /\ todo # <<>> => Head(todo) \in Target /\ Tail(todo) \in Pending
           /\ \A i \in DOMAIN todo : todo[i] \in Target
           /\ \A i \in 2..Len(todo) : Order[i] \in Target
<1>2. CASE todo = Order
  BY <1>2 DEF Order, Pending, Target
<1>3. CASE todo = <<"backup", "roaming">>
  BY <1>3 DEF Order, Pending, Target
<1>4. CASE todo = <<"roaming">>
  <2>1. Tail(todo) = <<>> /\ Head(todo) = "roaming"
    BY <1>4
  <2>. QED BY <1>4, <2>1 DEF Order, Pending, Target
<1>5. CASE todo = <<"primary">>
  <2>1. Tail(todo) = <<>> /\ Head(todo) = "primary"
    BY <1>5
  <2>. QED BY <1>5, <2>1 DEF Order, Pending, Target
<1>6. CASE todo = <<>>
  BY <1>6
<1>7. \/ todo = Order \/ todo = <<"backup", "roaming">> \/ todo = <<"roaming">>
      \/ todo = <<"primary">> \/ todo = <<>>
  BY DEF Pending
<1>. QED BY <1>2, <1>3, <1>4, <1>5, <1>6, <1>7

\* A rename publishes the whole content.
LEMMA WriteInv == ASSUME IInv, Write PROVE IInv'
<1> USE DEF IInv
<1>1. Head(todo) \in Target /\ Tail(todo) \in Pending
  BY TodoFacts DEF Write, TypeOK
<1>2. /\ file' = [file EXCEPT ![Head(todo)] = mem] /\ mem \in Content
      /\ damaged' = damaged \ {Head(todo)}
      /\ UNCHANGED <<up, mem, warned, updates, losses, readErrs, writeErrs>> /\ up
  BY DEF Write, Rename, TypeOK
<1>3. acked' = IF Head(todo) = "primary" /\ mem.seq > acked.seq THEN mem ELSE acked
  BY DEF Write, Rename, Acknowledge
<1>4. TypeOK'
  BY <1>1, <1>2, <1>3 DEF Write, Rename, TypeOK
<1>5. Written'
  BY <1>1, <1>2 DEF TypeOK, PrimaryCovers, Written
<1>6. PrimaryCovers'
  BY <1>1, <1>2, <1>3 DEF TypeOK, PrimaryCovers, Content
<1>. QED BY <1>4, <1>5, <1>6

\* A failed write, a crash or a loss leaves every other file as it was.
LEMMA DisturbanceInv == ASSUME IInv, WriteFails \/ Crash \/ Lost PROVE IInv'
<1> USE DEF IInv
<1>1. CASE WriteFails
  <2>1. Head(todo) \in Target /\ Tail(todo) \in Pending /\ behind' \subseteq Target
    BY <1>1, TodoFacts DEF WriteFails, TypeOK
  <2>2. todo' \in Pending
    <3>1. <<>> \in Pending
      BY DEF Pending
    <3>. QED BY <1>1, <2>1, <3>1 DEF WriteFails
  <2>3. /\ UNCHANGED <<up, mem, file, warned, acked, damaged, updates, losses, readErrs>>
        /\ writeErrs < MaxWriteErrs /\ writeErrs' = writeErrs + 1
    BY <1>1 DEF WriteFails
  <2>4. TypeOK'
    BY <2>1, <2>2, <2>3 DEF TypeOK
  <2>. QED BY <2>3, <2>4 DEF PrimaryCovers, Written
<1>2. CASE Crash
  <2>1. mem' \in Content /\ todo' \in Pending /\ behind' \subseteq Target
    BY <1>2, TodoFacts DEF Crash, TypeOK, Default, Content, Pending
  <2>2. TypeOK'
    BY <1>2, <2>1 DEF Crash, TypeOK
  <2>. QED BY <1>2, <2>2 DEF Crash, PrimaryCovers, Written
<1>3. CASE Lost
  <2>1. PICK ts \in {{t} : t \in Target} \cup {{"primary", "backup"}}, left \in {Absent, Corrupt} :
            /\ file' = [t \in Target |-> IF t \in ts /\ file[t] # Absent THEN left ELSE file[t]]
            /\ damaged' = damaged \cup ts
    BY <1>3 DEF Lost
  <2>2. ts \subseteq Target
    BY DEF Target
  <2>3. TypeOK'
    BY <1>3, <2>1, <2>2 DEF Lost, TypeOK
  <2>. QED BY <1>3, <2>1, <2>3 DEF Lost, TypeOK, PrimaryCovers, Written, Target
<1>. QED BY <1>1, <1>2, <1>3

\* A step that changes nothing keeps the invariant.
LEMMA StutterInv == IInv /\ UNCHANGED vars => IInv'
BY DEF IInv, TypeOK, PrimaryCovers, Written, vars

\* Every update is one for some key.
LEMMA UpdateKeys ==
    ASSUME TypeOK, Register \/ Deregister \/ ChangeSetting
    PROVE  \E key \in 0..MaxUpdates : Update(key)
<1>1. Register => updates + 1 \in 0..MaxUpdates
  BY DEF Register, Update, TypeOK
<1>2. 0 \in 0..MaxUpdates /\ mem.key \in 0..MaxUpdates
  BY DEF TypeOK, Content
<1>. QED BY <1>1, <1>2 DEF Register, Deregister, ChangeSetting

\* The invariant of every reachable state.
LEMMA Invariance == Spec => []IInv
<1>1. ASSUME IInv, Next PROVE IInv'
  <2>1. CASE Launch \/ LaunchUnread
    BY <1>1, <2>1, StartInv DEF Launch, LaunchUnread
  <2>2. CASE Register \/ Deregister \/ ChangeSetting
    BY <1>1, <2>2, UpdateKeys, UpdateInv DEF IInv
  <2>3. CASE Write \/ WriteFails \/ Crash \/ Lost
    BY <1>1, <2>3, WriteInv, DisturbanceInv
  <2>. QED BY <1>1, <2>1, <2>2, <2>3 DEF Next
<1>. QED BY InitInv, <1>1, StutterInv, PTL DEF Spec

\* Types are kept, and no file is ever torn: a target is corrupt only when
\* something outside damaged it.
THEOREM TypeCorrect == Spec => []TypeOK
<1>1. IInv => TypeOK
  BY DEF IInv
<1>. QED BY Invariance, <1>1, PTL

\* What an update acknowledged is loaded again after any crash.
THEOREM AcknowledgedSurvives == Spec => []AckedSurvives
<1>1. IInv => AckedSurvives
  <2> SUFFICES ASSUME IInv, "primary" \notin damaged, readErrs = 0
               PROVE  Loaded(file, {}).seq >= acked.seq
    BY DEF AckedSurvives
  <2>1. CASE file["primary"] \in Content /\ file["primary"].seq >= acked.seq
    BY <2>1, LoadFacts DEF IInv, TypeOK
  <2>2. CASE acked.seq = 0
    <3>1. Loaded(file, {}) \in Content
      BY LoadFacts DEF IInv, TypeOK
    <3>. QED BY <2>2, <3>1 DEF Content
  <2>. QED BY <2>1, <2>2 DEF IInv, PrimaryCovers
<1>. QED BY Invariance, <1>1, PTL
-----------------------------------------------------------------------------
(* The copies.                                                             *)

InQueue(q, t) == \E i \in DOMAIN q : q[i] = t
Holds(t, key) == file[t] \in Content /\ file[t].key = key
Copies == {"backup", "roaming"}

\* What a primary holds is at least what was acknowledged, whatever failed.
PrimaryNewest == file["primary"] \in Content => file["primary"].seq >= acked.seq

\* A save writes the copies only of a registration, and after the primary.
TodoShape ==
    /\ ~up => todo = <<>>
    /\ todo \in {Order, <<"backup", "roaming">>, <<"roaming">>} => mem.key # 0
    /\ todo = <<"primary">> => mem.key = 0
    /\ todo \in {<<"backup", "roaming">>, <<"roaming">>} =>
           file["primary"] = mem \/ "primary" \in damaged

\* A copy holds the key of a registered primary, unless it is about to be
\* written, or its last write failed, or something outside damaged it.
CopiesAgree ==
    file["primary"] \in Content /\ file["primary"].key # 0 =>
        \A t \in Copies :
            InQueue(todo, t) \/ t \in behind \cup damaged \/ Holds(t, file["primary"].key)

\* The primary holds the acknowledged key in memory, unless likewise; a primary
\* that could not be rebuilt has left both copies behind.
PrimaryAgrees ==
    up /\ mem.key # 0 /\ acked = mem /\ ~InQueue(todo, "primary") =>
        Holds("primary", mem.key) \/ "primary" \in damaged \/ Copies \subseteq behind

\* What is damaged holds no content until it is written again.
DamagedGone == \A t \in damaged : file[t] \notin Content

CopyInv == DamagedGone /\ PrimaryNewest /\ TodoShape /\ CopiesAgree /\ PrimaryAgrees

\* What a save has left to write after one target, and which targets those are.
LEMMA QueueFacts ==
    /\ \A t \in Target : InQueue(Order, t)
    /\ \A t \in Target : InQueue(<<"backup", "roaming">>, t) <=> t \in Copies
    /\ \A t \in Target : InQueue(<<"roaming">>, t) <=> t = "roaming"
    /\ \A t \in Target : InQueue(<<"primary">>, t) <=> t = "primary"
    /\ \A t \in Target : ~InQueue(<<>>, t)
    /\ Head(Order) = "primary" /\ Tail(Order) = <<"backup", "roaming">>
    /\ Head(<<"backup", "roaming">>) = "backup"
    /\ Tail(<<"backup", "roaming">>) = <<"roaming">>
    /\ Head(<<"roaming">>) = "roaming" /\ Tail(<<"roaming">>) = <<>>
    /\ Head(<<"primary">>) = "primary" /\ Tail(<<"primary">>) = <<>>
    /\ {Order[i] : i \in 2..Len(Order)} = Copies
    /\ Order # <<>> /\ <<"roaming">> # <<>> /\ <<"primary">> # <<>>
    /\ <<"backup", "roaming">> # <<>>
    /\ Order # <<"primary">> /\ Order # <<"roaming">> /\ <<"primary">> # <<"roaming">>
    /\ Order # <<"backup", "roaming">> /\ <<"backup", "roaming">> # <<"primary">>
    /\ <<"backup", "roaming">> # <<"roaming">>
<1> USE DEF Order, Target, Copies
<1>1. \A t \in Target : InQueue(Order, t)
  <2>1. 1 \in DOMAIN Order /\ 2 \in DOMAIN Order /\ 3 \in DOMAIN Order
    OBVIOUS
  <2>. QED BY <2>1 DEF InQueue
<1>2. \A t \in Target : InQueue(<<"backup", "roaming">>, t) <=> t \in Copies
  <2>1. DOMAIN <<"backup", "roaming">> = {1, 2}
    OBVIOUS
  <2>. QED BY <2>1 DEF InQueue
<1>3. \A t \in Target : /\ InQueue(<<"roaming">>, t) <=> t = "roaming"
                        /\ InQueue(<<"primary">>, t) <=> t = "primary"
                        /\ ~InQueue(<<>>, t)
  BY DEF InQueue
<1>4. {Order[i] : i \in 2..Len(Order)} = Copies
  <2>1. 2..Len(Order) = {2, 3}
    OBVIOUS
  <2>. QED BY <2>1
<1>5. /\ Head(Order) = "primary" /\ Tail(Order) = <<"backup", "roaming">>
      /\ Head(<<"backup", "roaming">>) = "backup"
      /\ Tail(<<"backup", "roaming">>) = <<"roaming">>
  OBVIOUS
<1>6. /\ Head(<<"roaming">>) = "roaming" /\ Tail(<<"roaming">>) = <<>>
      /\ Head(<<"primary">>) = "primary" /\ Tail(<<"primary">>) = <<>>
  OBVIOUS
<1>. QED BY <1>1, <1>2, <1>3, <1>4, <1>5, <1>6

\* Before the first launch there is nothing to agree on.
LEMMA InitCopies == Init => CopyInv
BY DEF Init, CopyInv, DamagedGone, PrimaryNewest, TodoShape, CopiesAgree, PrimaryAgrees, Target, Order

\* Where a load comes from decides what is rewritten.
LEMMA StartFacts ==
    ASSUME IInv, CopyInv, NEW u \in SUBSET Target, Start(u)
    PROVE  /\ todo = <<>> /\ mem' = Loaded(file, u)
           /\ \/ Source(file, u) = 1 /\ mem' = file["primary"] /\ todo' = <<>>
                 /\ file["primary"] \in Content
              \/ Source(file, u) \in {2, 3}
                 /\ todo' = IF mem'.key # 0 THEN Order ELSE <<>>
              \/ Source(file, u) = 4 /\ mem' = Default /\ todo' = <<>>
<1>1. todo = <<>> /\ mem' = Loaded(file, u)
  BY DEF Start, CopyInv, TodoShape
<1>2. \/ Source(file, u) \in 1..3 /\ file[Order[Source(file, u)]] \in Content
      \/ Source(file, u) = 4
  <2>1. CASE Loadable(file, u) = {}
    BY <2>1 DEF Source
  <2>2. CASE Loadable(file, u) # {}
    BY <2>2, LoadFacts DEF IInv, TypeOK, Loadable
  <2>. QED BY <2>1, <2>2
<1>3. CASE Source(file, u) = 4
  BY <1>1, <1>3 DEF Start, Loaded, Repersists
<1>4. CASE Source(file, u) = 1
  BY <1>1, <1>2, <1>4 DEF Start, Loaded, Repersists, Order
<1>5. CASE Source(file, u) \in {2, 3}
  BY <1>1, <1>5 DEF Start, Repersists
<1>. QED BY <1>1, <1>2, <1>3, <1>4, <1>5

\* A launch: a copy that is loaded is written to all targets.
LEMMA StartCopies ==
    ASSUME IInv, CopyInv, NEW u \in SUBSET Target, Start(u)
    PROVE  CopyInv'
<1> USE DEF IInv, CopyInv
<1>1. /\ \A t \in Target : file'[t] = file[t] \/ (file[t] = Corrupt /\ file'[t] = Absent)
      /\ UNCHANGED <<behind, damaged>> /\ up'
      /\ acked' = IF mem'.seq < acked.seq THEN mem' ELSE acked
      /\ mem' \in Content /\ acked \in Content
  BY LoadFacts DEF Start, Quarantined, TypeOK
<1>2. /\ \A t \in Target : file'[t] \in Content => file'[t] = file[t]
      /\ \A t \in Target : file[t] \in Content => file'[t] = file[t]
  BY <1>1
<1>3. PrimaryNewest'
  BY <1>1, <1>2 DEF PrimaryNewest, Content, Target
<1>4. TodoShape'
  BY <1>1, StartFacts, QueueFacts DEF TodoShape, Default
<1>5. CopiesAgree'
  <2>1. \A t \in Copies : t \in Target /\ "primary" \in Target /\ ~InQueue(todo, t)
    BY StartFacts, QueueFacts DEF Copies, Target
  <2>. QED BY <1>1, <1>2, <2>1 DEF CopiesAgree, Holds
<1>6. PrimaryAgrees'
  <2> SUFFICES ASSUME mem'.key # 0, ~InQueue(todo', "primary")
               PROVE  Holds("primary", mem.key)'
    BY DEF PrimaryAgrees
  <2>1. mem' = file["primary"] /\ file["primary"] \in Content
    BY StartFacts, QueueFacts DEF Default, Target
  <2>. QED BY <1>2, <2>1 DEF Holds, Target
<1>7. DamagedGone'
  BY <1>1, <1>2 DEF DamagedGone, TypeOK
<1>. QED BY <1>3, <1>4, <1>5, <1>6, <1>7

\* An update of a registration is about to be written to all targets.
LEMMA UpdateCopies ==
    ASSUME IInv, CopyInv, NEW key \in 0..MaxUpdates, Update(key)
    PROVE  CopyInv'
<1> USE DEF IInv, CopyInv
<1>1. /\ UNCHANGED <<up, file, acked, behind, damaged>> /\ up /\ todo = <<>>
      /\ mem' = [seq |-> updates + 1, key |-> key]
      /\ todo' = IF key # 0 THEN Order ELSE <<"primary">>
  BY DEF Update, Targets
<1>2. acked.seq # updates + 1 /\ acked \in Content
  BY DEF TypeOK, PrimaryCovers, Content
<1>3. \A t \in Copies : ~InQueue(todo, t)
  BY <1>1, QueueFacts DEF Copies, Target
<1>4. DamagedGone' /\ PrimaryNewest' /\ CopiesAgree'
  BY <1>1, <1>3 DEF DamagedGone, PrimaryNewest, CopiesAgree, Holds
<1>5. TodoShape'
  BY <1>1, QueueFacts DEF TodoShape
<1>6. PrimaryAgrees'
  BY <1>1, <1>2 DEF PrimaryAgrees
<1>. QED BY <1>4, <1>5, <1>6

\* The primary is written first, then the copies, all from one memory.
LEMMA WriteCopies == ASSUME IInv, CopyInv, Write PROVE CopyInv'
<1> USE DEF IInv, CopyInv
<1>1. /\ up /\ UNCHANGED <<up, mem>> /\ todo # <<>> /\ todo' = Tail(todo)
      /\ file' = [file EXCEPT ![Head(todo)] = mem]
      /\ behind' = behind \ {Head(todo)} /\ damaged' = damaged \ {Head(todo)}
      /\ acked' = IF Head(todo) = "primary" /\ mem.seq > acked.seq THEN mem ELSE acked
      /\ mem \in Content /\ acked \in Content /\ mem.seq >= acked.seq
      /\ file \in [Target -> Content \cup {Absent, Corrupt}]
  BY DEF Write, Rename, Acknowledge, TypeOK, PrimaryCovers
<1>4. DamagedGone'
  BY <1>1 DEF DamagedGone, TypeOK
<1>2. CASE todo \in {Order, <<"primary">>}
  <2>1. Head(todo) = "primary" /\ file'["primary"] = mem
        /\ \A t \in Copies : file'[t] = file[t] /\ t \in Target
    BY <1>1, <1>2, QueueFacts DEF Target, Copies
  <2>2. todo = Order => todo' = <<"backup", "roaming">> /\ \A t \in Copies : InQueue(todo', t)
    BY <1>1, QueueFacts DEF Target, Copies
  <2>3. todo = <<"primary">> => todo' = <<>> /\ mem.key = 0
    BY <1>1, QueueFacts DEF TodoShape
  <2>4. PrimaryNewest'
    BY <1>1, <2>1 DEF PrimaryNewest, Content
  <2>5. TodoShape'
    BY <1>1, <1>2, <2>1, <2>2, <2>3, QueueFacts DEF TodoShape
  <2>6. CopiesAgree'
    BY <1>1, <1>2, <2>1, <2>2, <2>3 DEF CopiesAgree
  <2>7. PrimaryAgrees'
    BY <1>1, <2>1 DEF PrimaryAgrees, Holds
  <2>. QED BY <1>4, <2>4, <2>5, <2>6, <2>7
<1>3. CASE todo \in {<<"backup", "roaming">>, <<"roaming">>}
  <2>1. PICK c \in Copies :
            /\ Head(todo) = c /\ file' = [file EXCEPT ![c] = mem] /\ c # "primary"
            /\ \A t \in Target : InQueue(todo, t) <=> InQueue(todo', t) \/ t = c
            /\ todo' \in {<<"roaming">>, <<>>}
            /\ acked' = acked /\ behind' = behind \ {c} /\ damaged' = damaged \ {c}
    BY <1>1, <1>3, QueueFacts DEF Target, Copies
  <2>2. /\ file'["primary"] = file["primary"] /\ file'[c] = mem
        /\ \A t \in Target : t # c => file'[t] = file[t]
        /\ "primary" \in Target /\ Copies \subseteq Target
    BY <1>1, <2>1 DEF Target, Copies
  <2>3. mem.key # 0 /\ (file["primary"] = mem \/ "primary" \in damaged)
    BY <1>3 DEF TodoShape
  <2>4. PrimaryNewest'
    BY <2>1, <2>2 DEF PrimaryNewest
  <2>5. TodoShape'
    BY <1>1, <2>1, <2>2, <2>3, QueueFacts DEF TodoShape
  <2>6. CopiesAgree'
    <3> SUFFICES ASSUME file["primary"] \in Content, file["primary"].key # 0, NEW t \in Copies
                 PROVE  \/ InQueue(todo', t) \/ t \in behind' \cup damaged'
                        \/ file'[t] \in Content /\ file'[t].key = file["primary"].key
      BY <2>2 DEF CopiesAgree, Holds
    <3>1. CASE t = c
      <4>1. file["primary"] = mem
        BY <2>3 DEF TypeOK, DamagedGone
      <4>. QED BY <3>1, <4>1, <2>2, <1>1
    <3>2. CASE t # c
      BY <3>2, <2>1, <2>2 DEF CopiesAgree, Holds
    <3>. QED BY <3>1, <3>2
  <2>7. PrimaryAgrees'
    BY <1>1, <2>1, <2>2, <2>3 DEF PrimaryAgrees, Holds
  <2>. QED BY <1>4, <2>4, <2>5, <2>6, <2>7
<1>. QED BY <1>1, <1>2, <1>3 DEF TypeOK, Pending

\* A failed primary leaves both copies behind, a crash what it had not written.
LEMMA DisturbanceCopies == ASSUME IInv, CopyInv, WriteFails \/ Crash \/ Lost PROVE CopyInv'
<1> USE DEF IInv, CopyInv
<1>1. CASE WriteFails
  <2>1. /\ UNCHANGED <<up, mem, file, acked, damaged>> /\ up /\ todo # <<>>
        /\ todo' = IF Head(todo) = "primary" THEN <<>> ELSE Tail(todo)
        /\ behind' = behind \cup
             (IF Head(todo) = "primary" THEN {Order[i] : i \in 2..Len(todo)} ELSE {Head(todo)})
    BY <1>1 DEF WriteFails
  <2>2. DamagedGone' /\ PrimaryNewest'
    BY <2>1 DEF DamagedGone, PrimaryNewest
  <2>3. CASE todo = Order
    <3>1. todo' = <<>> /\ behind' = behind \cup Copies
      BY <2>1, <2>3, QueueFacts
    <3>. QED BY <2>1, <2>2, <3>1, QueueFacts DEF TodoShape, CopiesAgree, PrimaryAgrees
  <2>4. CASE todo = <<"primary">>
    <3>1. todo' = <<>> /\ behind \subseteq behind'
          /\ \A t \in Copies : ~InQueue(todo, t)
      BY <2>1, <2>4, QueueFacts DEF Copies, Target
    <3>2. mem.key = 0
      BY <2>4 DEF TodoShape
    <3>. QED BY <2>1, <2>2, <3>1, <3>2, QueueFacts
         DEF TodoShape, CopiesAgree, PrimaryAgrees, Holds
  <2>5. CASE todo \in {<<"backup", "roaming">>, <<"roaming">>}
    <3>1. PICK c \in Copies :
              /\ \A t \in Target : InQueue(todo, t) <=> InQueue(todo', t) \/ t = c
              /\ todo' \in {<<"roaming">>, <<>>} /\ behind' = behind \cup {c}
              /\ c # "primary" /\ "primary" \in Target /\ Copies \subseteq Target
      BY <2>1, <2>5, QueueFacts DEF Copies, Target
    <3>2. mem.key # 0 /\ (file["primary"] = mem \/ "primary" \in damaged)
      BY <2>5 DEF TodoShape
    <3>3. TodoShape'
      BY <2>1, <3>1, <3>2, QueueFacts DEF TodoShape
    <3>4. CopiesAgree'
      BY <2>1, <3>1 DEF CopiesAgree, Holds
    <3>5. PrimaryAgrees'
      BY <2>1, <3>1 DEF PrimaryAgrees, Holds
    <3>. QED BY <2>2, <3>3, <3>4, <3>5
  <2>. QED BY <2>1, <2>3, <2>4, <2>5 DEF TypeOK, Pending
<1>2. CASE Crash
  <2>1. /\ UNCHANGED <<file, acked, damaged>> /\ ~up' /\ todo' = <<>>
        /\ behind' = behind \cup {todo[i] : i \in DOMAIN todo}
    BY <1>2 DEF Crash
  <2>2. \A t \in Copies : InQueue(todo, t) => t \in behind'
    BY <2>1 DEF InQueue
  <2>. QED BY <2>1, <2>2, QueueFacts
       DEF DamagedGone, PrimaryNewest, TodoShape, CopiesAgree, PrimaryAgrees, Holds
<1>3. CASE Lost
  <2>1. PICK ts \in {{t} : t \in Target} \cup {{"primary", "backup"}}, left \in {Absent, Corrupt} :
            /\ file' = [t \in Target |-> IF t \in ts /\ file[t] # Absent THEN left ELSE file[t]]
            /\ damaged' = damaged \cup ts
    BY <1>3 DEF Lost
  <2>2. /\ UNCHANGED <<up, mem, todo, acked, behind>> /\ ts \subseteq Target
        /\ Copies \subseteq Target /\ "primary" \in Target
    BY <1>3 DEF Lost, Target, Copies
  <2>3. /\ \A t \in ts : file'[t] \notin Content /\ t \in damaged'
        /\ \A t \in Target \ ts : file'[t] = file[t]
    BY <2>1, <2>2
  <2>4. DamagedGone' /\ PrimaryNewest' /\ PrimaryAgrees'
    BY <2>1, <2>2, <2>3 DEF TypeOK, DamagedGone, PrimaryNewest, PrimaryAgrees, Holds
  <2>6. TodoShape'
    BY <2>1, <2>2, <2>3 DEF TodoShape
  <2>5. CopiesAgree'
    BY <2>1, <2>2, <2>3 DEF CopiesAgree, Holds
  <2>. QED BY <2>4, <2>5, <2>6
<1>. QED BY <1>1, <1>2, <1>3

\* Nor does such a step disturb what is said of the copies.
LEMMA StutterCopies == CopyInv /\ UNCHANGED vars => CopyInv'
BY DEF CopyInv, DamagedGone, PrimaryNewest, TodoShape, CopiesAgree, PrimaryAgrees, Holds, vars

\* What is said of the copies holds throughout.
LEMMA CopiesInvariance == Spec => []CopyInv
<1>1. ASSUME IInv, CopyInv, Next PROVE CopyInv'
  <2>1. CASE Launch \/ LaunchUnread
    BY <1>1, <2>1, StartCopies DEF Launch, LaunchUnread
  <2>2. CASE Register \/ Deregister \/ ChangeSetting
    BY <1>1, <2>2, UpdateKeys, UpdateCopies DEF IInv
  <2>3. CASE Write \/ WriteFails \/ Crash \/ Lost
    BY <1>1, <2>3, WriteCopies, DisturbanceCopies
  <2>. QED BY <1>1, <2>1, <2>2, <2>3 DEF Next
<1>. QED BY Invariance, InitCopies, <1>1, StutterCopies, PTL DEF Spec

\* B7: whichever file or profile is lost, a stored registration is loaded again,
\* unless the save of a target failed or something outside had damaged one.
THEOREM RegistrationSurvivesLoss == Spec => []KeySurvivesLoss
<1>1. IInv /\ CopyInv => KeySurvivesLoss
  <2> SUFFICES ASSUME IInv, CopyInv, up, todo = <<>>, mem.key # 0, behind = {}, damaged = {},
                      acked = mem,
                      NEW ts \in {{t} : t \in Target} \cup {{"primary", "backup"}},
                      NEW left \in {Absent, Corrupt}
               PROVE  Loaded([t \in Target |-> IF t \in ts THEN left ELSE file[t]], {}).key
                        = mem.key
    BY DEF KeySurvivesLoss
  <2> DEFINE f == [t \in Target |-> IF t \in ts THEN left ELSE file[t]]
  <2>1. Holds("primary", mem.key)
    BY QueueFacts DEF CopyInv, PrimaryAgrees, Target, Copies
  <2>2. \A t \in Target : Holds(t, mem.key)
    BY <2>1, QueueFacts DEF CopyInv, CopiesAgree, Holds, Target, Copies
  <2>3. f \in [Target -> Content \cup {Absent, Corrupt}]
    BY DEF IInv, TypeOK
  <2>4. \E t \in Target : t \notin ts
    BY DEF Target
  <2>5. Loadable(f, {}) # {}
    <3>1. PICK t \in Target : t \notin ts
      BY <2>4
    <3>2. PICK i \in 1..3 : Order[i] = t
      BY DEF Target, Order
    <3>3. f[t] \in Content
      BY <2>2, <3>1 DEF Holds
    <3>. QED BY <3>2, <3>3 DEF Loadable
  <2>6. Source(f, {}) \in Loadable(f, {})
    BY <2>3, <2>5, LoadFacts
  <2>7. Order[Source(f, {})] \in Target \ ts /\ Source(f, {}) # 4
    BY <2>6 DEF Loadable, Order, Target, f
  <2>8. f[Order[Source(f, {})]] = file[Order[Source(f, {})]]
    BY <2>7
  <2>. QED BY <2>2, <2>7, <2>8 DEF Loaded, Holds
<1>. QED BY Invariance, CopiesInvariance, <1>1, PTL

\* A load that falls back to something older than what was acknowledged warns,
\* as long as any target holds anything at all.
THEOREM FallbackWarns == Spec => NeverSilentlyOlder
<1> DEFINE Warned == ~up /\ up' /\ mem'.seq < acked.seq /\ (\E t \in Target : file[t] # Absent)
                       => warned'
<1>1. ASSUME IInv, CopyInv, Next PROVE Warned
  <2> SUFFICES ASSUME ~up, up', mem'.seq < acked.seq, \E t \in Target : file[t] # Absent
               PROVE  warned'
    OBVIOUS
  <2>1. PICK u \in SUBSET Target : Start(u)
    BY <1>1 DEF Next, Launch, LaunchUnread, Register, Deregister, ChangeSetting, Update,
       Write, Rename, WriteFails, Crash, Lost
  <2>2. Source(file, u) # 1
    <3> SUFFICES ASSUME Source(file, u) = 1 PROVE FALSE
      OBVIOUS
    <3>1. mem' = file["primary"] /\ file["primary"] \in Content
      BY <1>1, <2>1, StartFacts
    <3>2. mem'.seq >= acked.seq
      BY <1>1, <3>1 DEF CopyInv, PrimaryNewest
    <3>3. mem'.seq \in Nat /\ acked.seq \in Nat
      BY <1>1, <3>1 DEF IInv, TypeOK, Content
    <3>. QED BY <3>2, <3>3
  <2>. QED BY <1>1, <2>1, <2>2, StartFacts DEF Start, Warns
<1>2. UNCHANGED vars => Warned
  BY DEF vars
<1>3. IInv /\ CopyInv /\ [Next]_vars => [Warned]_vars
  BY <1>1, <1>2
<1>. QED BY Invariance, CopiesInvariance, <1>3, PTL DEF Spec, NeverSilentlyOlder
=============================================================================
