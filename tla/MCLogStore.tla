---------------------------- MODULE MCLogStore -----------------------------
(***************************************************************************)
(* LogStore for TLC: two records, one to a segment, so that two handles    *)
(* can offer different segments under the same number.                     *)
(***************************************************************************)
EXTENDS LogStore

CONSTANTS r1, r2

MCBatch == {<<r1>>, <<r2>>}
=============================================================================
