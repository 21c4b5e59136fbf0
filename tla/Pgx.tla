-------------------------------- MODULE Pgx --------------------------------
(***************************************************************************)
(* How internal/store gets the rows of a query from pgx, version 5.        *)
(* pgx.CollectRows calls its function once for each row.  RowToAddrOf[T]   *)
(* and RowTo[T] scan a row of ONE column into a T, and return an error for *)
(* a row of several (RowToAddrOfStructByPos[T] would scan those).  The     *)
(* store hands RowToAddrOf rows of eight to fifteen columns.               *)
(***************************************************************************)

\* CollectRows with RowToAddrOf fails on the first row and returns no value;
\* without a row it returns an empty slice.  What the statement has changed
\* stays changed.
CollectFails(rows) == rows # {}
=============================================================================
