--------------------------- MODULE MCDBProjection ---------------------------
(* The database projection on two movies, with two workers for their range. *)
EXTENDS DBProjection

\* A table made for the INSERT.
FittingColumns == InsertColumns \cup {"lastmodifiedby", "lastmodifieddatetime"}
FittingRequired == InsertColumns
=============================================================================
