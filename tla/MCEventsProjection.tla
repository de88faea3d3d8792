------------------------- MODULE MCEventsProjection -------------------------
(* The events projection on two movies, with two workers for their range.   *)
EXTENDS EventsProjection
=============================================================================
