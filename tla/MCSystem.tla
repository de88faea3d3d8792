------------------------------ MODULE MCSystem ------------------------------
(* One movie from its registration to the list, at two nodes.               *)
EXTENDS System

\* A table made for the INSERT and for the columns the row mapping reads.
FittingColumns == RowColumns
FittingRequired == {"movieid", "title", "releaseyear", "rating", "genre",
                    "createdby", "creationdatetime", "smstatus"}
=============================================================================
