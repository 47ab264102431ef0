----------------------------- MODULE MCProviders -----------------------------
(***************************************************************************)
(* Instances of the providers' modules.  The parts share no state, so that  *)
(* a behaviour is about one of them, `part`, and leaves the others as they  *)
(* began.                                                                   *)
(***************************************************************************)
EXTENDS ProviderAccount, SpotifyPlayback, GmailSync, FixtureDiff, MatchHistory,
        RequestBudget, FootballPoll, GithubIntake, WeatherIntake

CONSTANT Parts  \* the parts that the run is about

VARIABLE part

-----------------------------------------------------------------------------
\* Every type of football event, in four versions, before and after the break and at
\* its boundary minute, for either side.
Arriving(type, version, minute, side) ==
    [info |-> [type |-> type, version |-> version, minute |-> minute,
               side |-> side, home |-> version, away |-> 0],
     id |-> version]

SomeMinutes == {0, 44, 45, 90}

SmallObservations ==
    {Arriving(t, v, n, "none") :
        t \in EventTypes \ {"other"}, v \in 1 .. 4, n \in SomeMinutes}
    \cup {Arriving("goal", v, n, s) :
        v \in 1 .. 4, n \in SomeMinutes, s \in {"home", "away"}}

\* A match in the afternoon, not on a poll's time, and one that is played at midnight.
SmallKickoffs == [m \in Match |-> IF m = "m1" THEN InHours(15) + 7 ELSE InHours(23)]

-----------------------------------------------------------------------------
providerVars == <<part, accountVars, playbackVars, mailVars, fixtureVars, row, budgetVars,
                  pollVars, githubVars, weatherVars>>

\* The parts that a behaviour is not about begin in one state.
ProvidersInit ==
    /\ part \in Parts
    /\ AccountInit /\ (part # "account" => kind = "spotify")
    /\ PlaybackInit /\ GmailInit
    /\ FixtureInit /\ (part # "fixture" => ~ baseline)
    /\ HistoryInit /\ BudgetInit
    /\ FootballPollInit /\ (part # "football" => late = [m \in Match |-> Min(Lateness)])
    /\ GithubInit
    /\ WeatherInit /\ (part # "weather" => \A l \in Location : forecast[l].value = Min(Reading))

AccountPart ==
    /\ part = "account"
    /\ AccountNext
    /\ UNCHANGED <<part, playbackVars, mailVars, fixtureVars, row, budgetVars, pollVars,
                   githubVars, weatherVars>>

PlaybackPart ==
    /\ part = "playback"
    /\ PlaybackNext
    /\ UNCHANGED <<part, accountVars, mailVars, fixtureVars, row, budgetVars, pollVars,
                   githubVars, weatherVars>>

BesideMail == UNCHANGED <<part, accountVars, playbackVars, fixtureVars, row, budgetVars,
                          pollVars, githubVars, weatherVars>>
MailPart == part = "mail" /\ GmailNext /\ BesideMail

FixturePart ==
    /\ part = "fixture"
    /\ FixtureNext
    /\ UNCHANGED <<part, accountVars, playbackVars, mailVars, row, budgetVars, pollVars,
                   githubVars, weatherVars>>

HistoryPart ==
    /\ part = "history"
    /\ HistoryNext
    /\ UNCHANGED <<part, accountVars, playbackVars, mailVars, fixtureVars, budgetVars, pollVars,
                   githubVars, weatherVars>>

BudgetPart ==
    /\ part = "budget"
    /\ BudgetNext
    /\ UNCHANGED <<part, accountVars, playbackVars, mailVars, fixtureVars, row, pollVars,
                   githubVars, weatherVars>>

BesideFootball == UNCHANGED <<part, accountVars, playbackVars, mailVars, fixtureVars, row,
                              budgetVars, githubVars, weatherVars>>
FootballPart == part = "football" /\ FootballPollNext /\ BesideFootball

BesideGithub == UNCHANGED <<part, accountVars, playbackVars, mailVars, fixtureVars, row,
                            budgetVars, pollVars, weatherVars>>
GithubPart == part = "github" /\ GithubNext /\ BesideGithub

WeatherPart ==
    /\ part = "weather"
    /\ WeatherNext
    /\ UNCHANGED <<part, accountVars, playbackVars, mailVars, fixtureVars, row, budgetVars,
                   pollVars, githubVars>>

ProvidersNext ==
    \/ AccountPart \/ PlaybackPart \/ MailPart \/ FixturePart \/ HistoryPart
    \/ BudgetPart \/ FootballPart \/ GithubPart \/ WeatherPart

ProvidersSpec == ProvidersInit /\ [][ProvidersNext]_providerVars

\* The scheduler goes on polling, and a poll that was begun is answered.
FairProvidersSpec ==
    /\ ProvidersSpec
    /\ WF_providerVars(part = "mail" /\ SyncStep /\ BesideMail)
    /\ WF_providerVars(part = "football" /\ FootballPollStep /\ BesideFootball)
    /\ WF_providerVars(part = "github" /\ Reconcile /\ BesideGithub)

-----------------------------------------------------------------------------
\* The rows, checkpoints and steps of every part have their types.
ProvidersTypeOK ==
    /\ AccountTypeOK /\ PlaybackTypeOK /\ GmailTypeOK /\ FixtureTypeOK /\ RowTypeOK
    /\ BudgetTypeOK /\ FootballPollTypeOK /\ GithubTypeOK /\ WeatherTypeOK
=============================================================================
