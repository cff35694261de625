---------------------------- MODULE MCBoundedQueue ----------------------------
(* Three senders and a queue of two, so that sends, a receive and a drop meet. *)
EXTENDS BoundedQueue
=============================================================================
