---------------------------- MODULE MCMessaging -----------------------------
(***************************************************************************)
(* Chat and Delivery for TLC.  `topic' divides the work: the retries of one *)
(* text against the peer's message and the polls; the end of a conversation *)
(* against a text being sent; the notifications of texts over two minutes;  *)
(* two jobs with one key and the devices' push tokens; one device that      *)
(* loses its connection; two devices whose sessions are revoked.            *)
(***************************************************************************)
EXTENDS Messaging
CONSTANTS p, q, t1, t2, t3, d1, d2, n1, n2, key1
VARIABLE topic

MCAuthor == [t \in Texts |-> IF t = t2 THEN q ELSE p]
MCKeyOf == [n \in Notes |-> key1]

Retrying ==
    /\ topic = "retries"
    /\ \/ Send(t1) \/ GivesUp(t1) \/ \E k \in Tries : Handle(t1, k) \/ Crash(t1, k)
       \/ (typed[t2] = 0 /\ Send(t2)) \/ Handle(t2, 1)
       \/ \E u \in People : RefetchMessages(u)
Closing ==
    /\ topic = "closing"
    /\ \/ (typed[t1] = 0 /\ Send(t1)) \/ Handle(t1, 1) \/ Crash(t1, 1)
       \/ RefetchMessages(q) \/ MarkRead(q)
       \/ RefetchMatch(p) \/ RefetchConversation(p) \/ LoseFrames(p)
       \/ \E unsafe \in BOOLEAN : CloseMatch(p, unsafe)
       \/ GraceEnds \/ ExpireConversation \/ RetentionEnds \/ PurgeMessages
Notifying ==
    /\ topic = "notices"
    /\ \/ (typed[t1] = 0 /\ Send(t1)) \/ (typed[t3] = 0 /\ Send(t3))
       \/ \E t \in {t1, t3} : Handle(t, 1)
       \/ \E u \in People : RefetchMessages(u)
       \/ \E n \in notices : Deliver(n)
       \/ MinutePasses
Conversing == (Retrying \/ Closing \/ Notifying) /\ UNCHANGED deliveryVars

Working ==
    /\ topic = "jobs"
    /\ \/ \E n \in Notes : Enqueue(n) \/ Work(n) \/ WorkerDies(n) \/ JobFails(n)
       \/ Mute \/ Suspend \/ RegisterToken(d1) \/ App(d1)
Reconnecting ==
    /\ topic = "reconnect"
    /\ \/ Enqueue(n1) \/ Work(n1) \/ App(d1) \/ Drop(d1) \/ SignIn(d1) \/ Suspend
Revoking ==
    /\ topic = "sessions"
    /\ \/ \E d \in Devices : App(d) \/ Drop(d) \/ SignIn(d)
       \/ \E d, by \in Devices : RevokeSession(d, by)
       \/ Suspend
Delivering == (Working \/ Reconnecting \/ Revoking) /\ UNCHANGED vars

MCInit ==
    /\ topic \in {"retries", "closing", "notices", "jobs", "reconnect", "sessions"}
    /\ Init
    /\ DeliveryInit(CASE topic \in {"jobs", "reconnect"} -> {d1}
                      [] topic = "sessions" -> {d1, d2}
                      [] OTHER -> {})
MCNext == (Conversing \/ Delivering) /\ UNCHANGED topic
MCSpec == MCInit /\ [][MCNext]_<<vars, deliveryVars, topic>> /\ Fairness /\ DeliveryFairness

=============================================================================
