------------------------------- MODULE MCFeed -------------------------------
(* Small instances of Feed. *)
EXTENDS FeedProperties, TLC
CONSTANTS loop, canceller, server, c1

OneProcess == loop :> server @@ canceller :> server
=============================================================================
