------------------------- MODULE MCAccountDeletion -------------------------
(***************************************************************************)
(* One request, one helper; either account, or both, may be deleted.        *)
(***************************************************************************)
EXTENDS AccountDeletion

CONSTANTS asker, helper, r1, bread

MCRequester == [r \in Requests |-> asker]
MCOwner == [i \in Items |-> helper]
OneUnit == [r \in Requests |-> 1]
AllNear == [u \in Users |-> 1]
=============================================================================
