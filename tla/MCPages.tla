------------------------------- MODULE MCPages -------------------------------
(***************************************************************************)
(* The pages and what stands behind them, for TLC: the integrations, the   *)
(* estimate of the rewards, the reporting status.  Each has its own state  *)
(* and its own hook, so a behaviour is that of one page, picked at first.  *)
(***************************************************************************)
EXTENDS IntegrationsPage

CONSTANTS PollCap, MaxChanges, MaxAnswers,              \* RewardsPage
          MaxTaken, MaxLeaseCalls, MaxTicks, MaxRuns    \* ReportingPage

\* The variables of all of them; those that a part does not have stay None.
VARIABLES part,
    key, amount, staked, cached, shown, fetching, opened, polls, changes, lost,
    install, holder, status, step, reported, wire, answer, told

W == INSTANCE RewardsPage WITH MaxLost <- MaxAnswers
R == INSTANCE ReportingPage WITH MaxLost <- MaxLeaseCalls, page <- told

ofIntegrations == <<enabled, pending, health, docker, command, events, progress,
                    stream, card, error, banner, fetches>>
ofRewards == <<key, amount, staked, cached, shown, fetching, opened, polls,
               changes, lost>>
ofReporting == <<install, holder, status, step, reported, wire, answer, told>>

allVars == <<part, ofIntegrations, ofRewards, ofReporting, spent>>

Parts == {"integrations", "rewards", "reporting"}

EitherInit ==
    /\ part \in Parts
    /\ IF part = "integrations" THEN Init
       ELSE /\ enabled = None /\ pending = None /\ health = None /\ docker = None
            /\ command = None /\ events = None /\ progress = None /\ stream = None
            /\ card = None /\ error = None /\ banner = None /\ fetches = None
    /\ IF part = "rewards" THEN W!Init
       ELSE /\ key = None /\ amount = None /\ staked = None /\ cached = None
            /\ shown = None /\ fetching = None /\ opened = None /\ polls = None
            /\ changes = None /\ lost = None
    /\ IF part = "reporting" THEN R!Init
       ELSE /\ install = None /\ holder = None /\ status = None /\ step = None
            /\ reported = None /\ wire = None /\ answer = None /\ told = None
    /\ part = "rewards" => spent = None

OfIntegrations(action) ==
    part = "integrations" /\ action /\ UNCHANGED <<part, ofRewards, ofReporting>>
OfRewards(action) ==
    part = "rewards" /\ action /\ UNCHANGED <<part, ofIntegrations, ofReporting, spent>>
OfReporting(action) ==
    part = "reporting" /\ action /\ UNCHANGED <<part, ofIntegrations, ofRewards>>

EitherNext == OfIntegrations(Next) \/ OfRewards(W!Next) \/ OfReporting(R!Next)

\* The fairness of each, which the module of the page states.
FairIntegrations ==
    /\ WF_allVars(OfIntegrations(Poll)) /\ WF_allVars(OfIntegrations(ReadFlags))
    /\ WF_allVars(OfIntegrations(ReadHealth)) /\ WF_allVars(OfIntegrations(FetchEnds))
    /\ WF_allVars(OfIntegrations(HealthEvent)) /\ WF_allVars(OfIntegrations(ProgressEvent))
    /\ WF_allVars(OfIntegrations(Commands))
    /\ SF_allVars(OfIntegrations(\E t \in Toggles : Answered(t)))
FairRewards ==
    /\ WF_allVars(OfRewards(W!VersionsInFull))
    /\ WF_allVars(OfRewards(W!get_verified_status))
    /\ WF_allVars(OfRewards(W!PollNotReady)) /\ WF_allVars(OfRewards(W!RefreshReady))
    /\ WF_allVars(OfRewards(W!Arrives))
FairReporting ==
    /\ WF_allVars(OfReporting(R!Tick)) /\ WF_allVars(OfReporting(R!Hook))
    /\ WF_allVars(OfReporting(R!Answered)) /\ WF_allVars(OfReporting(R!Event))

Pages ==
    /\ EitherInit /\ [][EitherNext]_allVars
    /\ FairIntegrations /\ FairRewards /\ FairReporting

-----------------------------------------------------------------------------
\* The card ends up as what the backend holds, whether or not events come
\* (useIntegrations.ts 291-296).
CardIsTruthful == <>[](part = "integrations" => card = Truth)

\* A ready estimate is not frozen for the lifetime of the page
\* (useRewards.ts 87-98).
EstimateKeepsUp ==
    <>[](part = "rewards" => (key /\ W!Estimates => shown = W!Truth))

\* A free lease is taken (main.rs 1114-1168), and the page ends up with the
\* outcome of the ticks (useReporting.ts 6-7).
PageIsTruthful ==
    <>[](part = "reporting" => (install => holder # None /\ told = R!Outcomes))
=============================================================================
