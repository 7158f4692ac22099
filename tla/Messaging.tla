------------------------------ MODULE Messaging ------------------------------
(***************************************************************************)
(* Conversations (Chat) and the notifications, pushes and sockets that      *)
(* reach people outside of them (Delivery).  They share no state.           *)
(***************************************************************************)
EXTENDS Chat, Delivery

MessagingSpec == Spec /\ DeliverySpec

\* Type invariant of chat and delivery.
MessagingTypeOK == ChatTypeOK /\ DeliveryTypeOK
=============================================================================
