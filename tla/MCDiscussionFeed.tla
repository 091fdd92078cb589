--------------------------- MODULE MCDiscussionFeed ---------------------------
(* Instances of DiscussionFeed for TLC. *)
EXTENDS DiscussionFeed
=============================================================================
