-------------------------- MODULE MCEntryService --------------------------
(* The days of the TLC runs of EntryService. *)
EXTENDS EntryService

\* Two instants make a day
TwoADay == [t \in Instant |-> t \div 2]
=============================================================================
