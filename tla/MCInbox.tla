------------------------------ MODULE MCInbox ------------------------------
(* The poller and a handler's pass over an account with two items.           *)
EXTENDS Inbox

CONSTANTS a1, c1, c2, poller, asked

=============================================================================
