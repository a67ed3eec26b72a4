--------------------------- MODULE MCPublishQueue ---------------------------
(* Small instances of PublishQueue: one post fanned out to two accounts,   *)
(* and two posts queued for one account.                                   *)
EXTENDS PublishQueueInv, TLC

CONSTANTS p1, p2, l1, l2, a1, a2

OnePost   == [l \in Leg |-> p1]
TwoAccounts == (l1 :> a1) @@ (l2 :> a2)
TwoPosts  == (l1 :> p1) @@ (l2 :> p2)
OneAccount == [l \in Leg |-> a1]

\* store calls made while a leg is leased, or before the post is claimed
LeasedStoreCall == {"queued", "check", "call", "record", "settle", "sweep", "drain", "asleep"}

AnyStoreCall == {"queued", "load", "fanout", "check", "call", "record", "settle", "verdict",
                 "boot-reap", "boot-reap-posts", "boot-list", "boot-repair",
                 "asleep", "reap-posts", "sweep", "drain"}
=============================================================================
