--------------------------- MODULE MCSqliteStore ---------------------------
(***************************************************************************)
(* SqliteStore and its queries for TLC.  The batches hold a record that    *)
(* repeats within a segment or across segments, and one that does not      *)
(* decode.  Each filter field selects one of the two records somewhere;    *)
(* the time bounds fall on, between and beside the times of the records.   *)
(***************************************************************************)
EXTENDS SqliteQuery

CONSTANTS r1, r2, bad

MCBatch == {<<r1>>, <<r1, r2>>, <<r2, r2>>, <<r2, bad>>}

MCMeta ==
  [r \in {r1, r2, bad} |->
     [namespace |-> "app", schema |-> IF r = r1 THEN "note" ELSE "mail",
      author |-> IF r = r2 THEN "ann" ELSE "bob",
      time |-> IF r = r1 THEN 1 ELSE 3]]

Everything ==
  [namespace |-> "", schema |-> "", author |-> "", from |-> 0, to |-> 0, limit |-> 0]

MCFilters ==
  {Everything,
   [Everything EXCEPT !.limit = 1],
   [Everything EXCEPT !.namespace = "app", !.schema = "mail"],
   [Everything EXCEPT !.author = "bob"],
   [Everything EXCEPT !.from = 2],
   [Everything EXCEPT !.from = 1, !.to = 3, !.limit = 2],
   [Everything EXCEPT !.to = 1]}
=============================================================================
