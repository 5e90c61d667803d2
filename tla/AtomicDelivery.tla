--------------------------- MODULE AtomicDelivery ---------------------------
(***************************************************************************)
(* What delivery promises: the operator's repository holds none of the     *)
(* patch until the run is certified COMPLETE, and all of it from that      *)
(* moment on.                                                              *)
(***************************************************************************)
CONSTANT Patched   \* the files the patch changes

VARIABLES
    tree,      \* the files that hold the patch
    delivered  \* the run is certified COMPLETE and applied

Init == tree = {} /\ delivered = FALSE

Deliver ==
    /\ ~delivered
    /\ tree' = Patched
    /\ delivered' = TRUE

Spec == Init /\ [][Deliver]_<<tree, delivered>>
=============================================================================
