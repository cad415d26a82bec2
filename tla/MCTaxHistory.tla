---------------------------- MODULE MCTaxHistory ----------------------------
(***************************************************************************)
(* Alice buys 2 TRI for 12 dollars each, sends 1 TRI to Bob, for which no  *)
(* price is known, and sells 1 TRI for 36 dollars.                         *)
(***************************************************************************)
EXTENDS TaxHistory

MCEmitted == <<
    [event |-> "Transfer", from |-> "zero", to |-> "alice"],
    [event |-> "Bought", user |-> "alice", amount |-> 2, usd |-> 12],
    [event |-> "Transfer", from |-> "alice", to |-> "bob"],
    [event |-> "Sold", user |-> "alice", amount |-> 1, usd |-> 36] >>
MCDayOf == <<1, 1, 1, 1>>
MCRateOn == <<{10}>>
=============================================================================
