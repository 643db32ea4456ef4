----------------------------- MODULE MCBookFeed -----------------------------
(* Checks BookFeed on its own.                                             *)
EXTENDS BookFeed
=============================================================================
