------------------------------ MODULE MCLedger ------------------------------
(***************************************************************************)
(* Ledger for TLC: a short and a long signed record, an unsigned one and   *)
(* one that does not decode; each backend with and without its options.    *)
(* Others write the unsigned one, which a ledger without the signature     *)
(* policy, the one with the record index among them, writes too.           *)
(***************************************************************************)
EXTENDS Ledger

CONSTANTS r1, r2, u, bad

MCRecordLen == [r \in Record |-> IF r = r2 THEN 3 ELSE 1]

MCForeign == {<<u>>, <<bad>>}

MCOptions ==
  {[kind |-> "LOG", indexed |-> FALSE, merkle |-> TRUE, signed |-> TRUE],
   [kind |-> "LOG", indexed |-> FALSE, merkle |-> FALSE, signed |-> FALSE],
   [kind |-> "SQLITE", indexed |-> FALSE, merkle |-> FALSE, signed |-> TRUE],
   [kind |-> "SQLITE", indexed |-> TRUE, merkle |-> TRUE, signed |-> FALSE]}
=============================================================================
