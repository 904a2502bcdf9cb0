--------------------------- MODULE MCGhostRuntime ---------------------------
(* Two nodes, the sudo key's holder and another user, and calls of every    *)
(* kind; Bob can empty his account and Alice can fund it again.             *)
EXTENDS GhostRuntime, TLC

MCUsers == {"Alice", "Bob"}

MCSet(v) == [call |-> "do_something", something |-> v]

MCRequests ==
    {[sender |-> "Bob",   call |-> MCSet(1)],
     [sender |-> "Bob",   call |-> [call |-> "cause_error"]],
     [sender |-> "Bob",   call |-> [call |-> "transfer_allow_death", dest |-> "Alice", value |-> 2]],
     [sender |-> "Alice", call |-> [call |-> "transfer_keep_alive", dest |-> "Bob", value |-> 2]],
     [sender |-> "Alice", call |-> [call |-> "sudo", inner |-> MCSet(0)]],
     [sender |-> "Bob",   call |-> [call |-> "sudo", inner |-> MCSet(0)]]}

MCSymmetry == Permutations(Nodes)
=============================================================================
