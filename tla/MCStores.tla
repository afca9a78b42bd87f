------------------------------ MODULE MCStores ------------------------------
(* Two services, whose clocks differ, that notify of two traces, and what  *)
(* an old version left of one of them and of a third.                      *)
EXTENDS Stores

Event(base, time, error) == [base_id |-> base, timestamp |-> time, error |-> error]

MCServices == {"s1", "s2"}
MCSent == [s \in MCServices |->
  IF s = "s1"
    THEN <<Event("A", 4, FALSE), Event("A", 6, TRUE)>>
    ELSE <<Event("A", 3, TRUE), Event("B", 5, FALSE), Event("B", 7, TRUE)>>]
MCLegacy == {Event("A", 1, FALSE), Event("A", 2, FALSE), Event("C", 0, FALSE)}
=============================================================================
