-------------------------- MODULE RequestTransitions --------------------------
(***************************************************************************)
(* The permitted-transition table of a request's status.  transitionRequest *)
(* is the only writer of the status column; it throws, and so rolls its     *)
(* caller's transaction back, on a change the table does not permit.        *)
(***************************************************************************)

RequestStatuses ==
    {"none", "searching", "offering", "matched", "fulfilled", "partially_fulfilled",
     "cancelled", "expired", "no_match", "disputed", "moderated"}

REQUEST_TRANSITIONS ==
    [none |-> {"searching"},
     searching |-> {"offering", "cancelled", "expired", "no_match", "moderated"},
     offering |-> {"searching", "matched", "cancelled", "expired", "moderated"},
     matched |-> {"fulfilled", "partially_fulfilled", "searching", "cancelled",
                  "moderated"},
     fulfilled |-> {},
     partially_fulfilled |-> {"searching", "fulfilled", "cancelled", "moderated"},
     cancelled |-> {"searching"},
     expired |-> {"searching"},
     no_match |-> {"searching"},
     disputed |-> {},
     moderated |-> {}]

CanTransition(from, to) == to \in REQUEST_TRANSITIONS[from]

=============================================================================
