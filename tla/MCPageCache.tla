---------------------------- MODULE MCPageCache ----------------------------
(***************************************************************************)
(* The pages and the queries of the TLC runs of PageCache.  Pages do not   *)
(* act on one another, so a run looks at one or two of them.               *)
(***************************************************************************)
EXTENDS PageCache

CONSTANT tag

FeedPage == {Feed}
FirstEntryPage == {OfEntry(1)}
=============================================================================
