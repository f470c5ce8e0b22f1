---------------------------- MODULE MCNavigation ----------------------------
(***************************************************************************)
(* The calendar of the TLC run of Navigation: two days are one month.      *)
(***************************************************************************)
EXTENDS Navigation

TwoDayMonths == [d \in Day |-> (d + 1) \div 2]
=============================================================================
