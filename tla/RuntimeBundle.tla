---------------------------- MODULE RuntimeBundle ----------------------------
(***************************************************************************)
(* What the installation of the clone runtime promises, without files and  *)
(* journals: the runtime is one build as a whole, or none.  While it is    *)
(* being changed no worker may start; a change puts a new build in place,  *)
(* at one instant, or leaves - or brings back - the one that was there.    *)
(***************************************************************************)
CONSTANTS Builds, NoBuild

VARIABLES installed,   \* the build that is in place
          previous,    \* the build that was in place before the change
          usable       \* a worker may start from it

vars == <<installed, previous, usable>>

Init == installed = NoBuild /\ previous = NoBuild /\ usable = TRUE

Begin == usable /\ usable' = FALSE /\ UNCHANGED <<installed, previous>>

Commit == ~usable /\ installed' \in Builds /\ UNCHANGED <<previous, usable>>

Revert == ~usable /\ installed' = previous /\ UNCHANGED <<previous, usable>>

End == ~usable /\ usable' = TRUE /\ previous' = installed /\ UNCHANGED installed

Next == Begin \/ Commit \/ Revert \/ End

Spec == Init /\ [][Next]_vars
==============================================================================
