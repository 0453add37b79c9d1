--------------------------- MODULE MCRootProtocol ---------------------------
(* RootProtocol for TLC: two requests for one rotation, and one that follows. *)
EXTENDS RootProtocol
MCRotation ==
    {[id |-> "a", from |-> 1, to |-> 2], [id |-> "b", from |-> 1, to |-> 2],
     [id |-> "c", from |-> 2, to |-> 3]}
=============================================================================
