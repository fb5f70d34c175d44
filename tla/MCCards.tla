------------------------------ MODULE MCCards ------------------------------
(***************************************************************************)
(* What stands behind the cards, for TLC: the card commands (Toggle) and   *)
(* the gate that their UAC prompts pass (ElevationGate).  A command waits  *)
(* for the gate inside one of its slow steps, and neither reads the        *)
(* other's state, so a behaviour is that of one of them, picked at first.  *)
(***************************************************************************)
EXTENDS Toggle, TLC

CONSTANTS Caller, Purpose, Key, MaxRearms, Nobody, None    \* ElevationGate

ASSUME GateAssumption == MaxRearms \in Nat /\ Nobody \notin Caller

\* The variables of the gate; None in the part of the card commands.
VARIABLES part, pc, req, gate, attempted, blocked, rearms, prompts, declined

Gate == INSTANCE ElevationGate

ofGate == <<pc, req, gate, attempted, blocked, rearms, prompts, declined>>
allVars == <<part, vars, ofGate>>

NoGate ==
    /\ pc = None /\ req = None /\ gate = None /\ attempted = None
    /\ blocked = None /\ rearms = None /\ prompts = None /\ declined = None

EitherInit ==
    /\ Init /\ part \in {"cards", "gate"}
    /\ IF part = "gate" THEN Gate!Init ELSE NoGate

OfCards(step) == part = "cards" /\ step /\ UNCHANGED <<part, ofGate>>
OfGate(step) == part = "gate" /\ step /\ UNCHANGED <<part, vars>>

EitherNext == OfCards(Next) \/ OfGate(Gate!Next)

Cards == EitherInit /\ [][EitherNext]_allVars

\* The slots of commands are alike, and so are the gate's callers, cards and
\* targets.
Symmetry ==
    Permutations(Call) \cup Permutations(Caller) \cup Permutations(Purpose)
        \cup Permutations(Key)

-----------------------------------------------------------------------------
\* No prompt comes back behind the user's back: a target was prompted for at
\* most once, plus once per retry gesture on its own card (elevation_gate.rs
\* 165-240).
PromptsAreAsked == part = "gate" => Gate!PromptsAreAsked
=============================================================================
