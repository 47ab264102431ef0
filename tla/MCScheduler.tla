----------------------------- MODULE MCScheduler -----------------------------
(***************************************************************************)
(* Two sources that share two permits; the weather is also polled    *)
(* on request.                                                              *)
(***************************************************************************)
EXTENDS PollScheduler

CONSTANTS weather, gmail, q1

AllWeather == [q \in Request |-> weather]
=============================================================================
