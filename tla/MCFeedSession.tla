--------------------------- MODULE MCFeedSession ----------------------------
(* Checks FeedSession; without symmetry, which liveness does not allow.      *)
EXTENDS FeedSession
=============================================================================
