---------------------------- MODULE WeatherIntake ----------------------------
(***************************************************************************)
(* Weather: the selected location (weather/locations.py), the poll that     *)
(* compares a forecast with the location's baseline (weather/source.py) and *)
(* the transaction that stores event, baseline and current conditions       *)
(* (weather/storage.py).                                                    *)
(*                                                                          *)
(* The forecast is external: a reading and the time it is for, which        *)
(* advances with every new reading.  A reading stands for the seven fields  *)
(* that are compared: each counts as changed from its own threshold on.     *)
(* The user selects locations at any time, also while a poll or the         *)
(* resolution of the configured location is waiting for the network.        *)
(***************************************************************************)
EXTENDS Naturals, Sequences, SequencesExt

CONSTANTS Location,
          Configured,     \* the location of the settings
          NoLocation,
          RecentLimit,    \* locations that are kept (5)
          Threshold,      \* the smallest difference that is meaningful
          Reading,        \* readings of a forecast: numbers
          MaxForecasts,   \* bound: forecasts of two locations
          NoReading

ASSUME WeatherAssumption ==
    /\ Configured \in Location
    /\ NoLocation \notin Location
    /\ RecentLimit \in Nat \ {0}
    /\ Threshold \in Nat \ {0}
    /\ Reading \subseteq Nat
    /\ MaxForecasts \in Nat
    /\ NoReading \notin [value : Reading, at : Nat]

VARIABLES forecast,   \* what the API says of each location
          selection,  \* the selected location
          places,     \* the recent locations, last used first
          resolving,  \* bootstrap_configured_location waits for the geocoder
          baselines,  \* the checkpoints event_baseline:<location>
          currents,   \* the checkpoints current:<location>
          observed,   \* the checkpoint has_observation
          weatherKeys,\* dedupe keys of the stored events
          shown,      \* what the timeline says of each location, or began with
          sample      \* the poll under way

weatherVars == <<forecast, selection, places, resolving, baselines, currents, observed,
                 weatherKeys, shown, sample>>

NoSample == [pc |-> "idle", loc |-> NoLocation, now |-> NoReading, base |-> NoReading,
             event |-> FALSE]

WeatherInit ==
    /\ forecast \in [Location -> [value : Reading, at : {1}]]
    /\ selection = NoLocation
    /\ places = <<>>
    /\ resolving = FALSE
    /\ baselines = [l \in Location |-> NoReading]
    /\ currents = [l \in Location |-> NoReading]
    /\ observed = FALSE
    /\ weatherKeys = {}
    /\ shown = [l \in Location |-> NoReading]
    /\ sample = NoSample

-----------------------------------------------------------------------------
ForecastChanges ==
    /\ \E l \in Location, v \in Reading :
          /\ \A k \in Location \ {l} : forecast[l].at + forecast[k].at < MaxForecasts
          /\ forecast' = [forecast EXCEPT ![l] = [value |-> v, at |-> @.at + 1]]
    /\ UNCHANGED <<selection, places, resolving, baselines, currents, observed, weatherKeys,
                   shown, sample>>

-----------------------------------------------------------------------------
(* Locations                                                                *)

\* Mutant of Select: the list of recent locations is not cut.
SelectMutant(l) ==
    /\ selection' = l
    /\ places' = <<l>> \o RemoveFirst(places, l)
\* select_weather_location: the location becomes the newest of the recent ones, and the
\* oldest beyond the limit are dropped.
Select(l) ==
    LET all == <<l>> \o RemoveFirst(places, l)
    IN /\ selection' = l
       /\ places' = SubSeq(all, 1, IF Len(all) < RecentLimit THEN Len(all) ELSE RecentLimit)

UserSelects ==
    /\ \E l \in Location : l # selection /\ Select(l)
    /\ UNCHANGED <<forecast, resolving, baselines, currents, observed, weatherKeys, shown, sample>>

\* bootstrap_configured_location, under its lock: nothing is selected, so the configured
\* coordinates are resolved ...
BootstrapBegins ==
    /\ ~ resolving
    /\ selection = NoLocation
    /\ resolving' = TRUE
    /\ UNCHANGED <<forecast, selection, places, baselines, currents, observed, weatherKeys,
                   shown, sample>>

\* ... and selected, or the geocoder fails.
BootstrapEnds ==
    /\ resolving
    /\ resolving' = FALSE
    /\ Select(Configured) \/ UNCHANGED <<selection, places>>
    /\ UNCHANGED <<forecast, baselines, currents, observed, weatherKeys, shown, sample>>

-----------------------------------------------------------------------------
(* WeatherPollSource.observe                                                *)

\* meaningful_change_reasons
Meaningful(base, now) ==
    \/ base = NoReading
    \/ base.value >= now.value + Threshold
    \/ now.value >= base.value + Threshold

\* weather_location_for_poll: without a location the poll finds nothing.
ReadLocation ==
    /\ sample.pc = "idle"
    /\ selection # NoLocation
    /\ sample' = [NoSample EXCEPT !.pc = "fetch", !.loc = selection]
    /\ UNCHANGED <<forecast, selection, places, resolving, baselines, currents, observed,
                   weatherKeys, shown>>

FetchForecast ==
    /\ sample.pc = "fetch"
    /\ sample' = [sample EXCEPT !.pc = "compare", !.now = forecast[sample.loc]]
    /\ UNCHANGED <<forecast, selection, places, resolving, baselines, currents, observed,
                   weatherKeys, shown>>

\* The first reading of a location is an event only if it is the first of all.
CompareReading ==
    /\ sample.pc = "compare"
    /\ LET base == baselines[sample.loc]
       IN sample' = [sample EXCEPT !.pc = "check", !.base = base,
                        !.event = /\ Meaningful(base, sample.now)
                                  /\ ~ (base = NoReading /\ observed)]
    /\ UNCHANGED <<forecast, selection, places, resolving, baselines, currents, observed,
                   weatherKeys, shown>>

-----------------------------------------------------------------------------
(* persist_weather_observation                                              *)

\* The reading of a location that is no longer selected is dropped.  The selection is
\* read without a lock, and may change before the commit.
CheckSelection ==
    /\ sample.pc = "check"
    /\ sample' = IF selection = sample.loc THEN [sample EXCEPT !.pc = "commit"] ELSE NoSample
    /\ UNCHANGED <<forecast, selection, places, resolving, baselines, currents, observed,
                   weatherKeys, shown>>

\* _dedupe_key: the location, the time of the baseline (0: initial) and the reading.
KeyOf(s) == <<s.loc, IF s.base = NoReading THEN 0 ELSE s.base.at, s.now.value>>

\* Mutant of BaselineAfter: every reading becomes the baseline.
BaselineAfterMutant(s) == s.now
\* An event moves the baseline, and a location that has none starts one quietly.
BaselineAfter(s) ==
    IF s.event \/ baselines[s.loc] = NoReading THEN s.now ELSE baselines[s.loc]

CommitReading ==
    /\ sample.pc = "commit"
    /\ LET l == sample.loc
           started == ~ sample.event /\ baselines[l] = NoReading
           stored == sample.event /\ KeyOf(sample) \notin weatherKeys
       IN /\ baselines' = [baselines EXCEPT ![l] = BaselineAfter(sample)]
          /\ currents' = [currents EXCEPT ![l] = sample.now]
          /\ weatherKeys' = IF sample.event THEN weatherKeys \cup {KeyOf(sample)} ELSE weatherKeys
          /\ shown' = IF started \/ stored THEN [shown EXCEPT ![l] = sample.now] ELSE shown
    /\ observed' = TRUE
    /\ sample' = NoSample
    /\ UNCHANGED <<forecast, selection, places, resolving>>

\* The API fails, the poll times out, the transaction is rolled back or the process ends.
PollIsLost ==
    /\ sample.pc # "idle"
    /\ sample' = NoSample
    /\ UNCHANGED <<forecast, selection, places, resolving, baselines, currents, observed,
                   weatherKeys, shown>>

WeatherNext ==
    \/ ForecastChanges \/ UserSelects \/ BootstrapBegins \/ BootstrapEnds
    \/ ReadLocation \/ FetchForecast \/ CompareReading \/ CheckSelection \/ CommitReading
    \/ PollIsLost

WeatherSpec == WeatherInit /\ [][WeatherNext]_weatherVars

-----------------------------------------------------------------------------
WeatherTypeOK ==
    /\ selection \in Location \cup {NoLocation}
    /\ selection # NoLocation => places # <<>> /\ Head(places) = selection
    /\ Len(places) <= RecentLimit
    /\ observed \in BOOLEAN
    /\ sample.pc \in {"idle", "fetch", "compare", "check", "commit"}

\* However a reading drifts, in small steps or back and forth, and whatever polls are
\* lost or overtaken by another selection: the conditions stored for a location never
\* differ meaningfully from what the timeline last showed of it (event_baseline).
ChangesAreShown ==
    \A l \in Location : currents[l] # NoReading =>
        shown[l] # NoReading /\ ~ Meaningful(shown[l], currents[l])
=============================================================================
