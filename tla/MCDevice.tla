------------------------------ MODULE MCDevice ------------------------------
(***************************************************************************)
(* What one phone does on its own, for TLC: Device (accounts, storage and   *)
(* the queue of inventory adds), Screens (the stack of screens) and Helping *)
(* (availability and position).  They share no state, so `concern' gives    *)
(* each question its steps: the queue of one account; a queue a second      *)
(* account may inherit; joined events; push tokens; screens about one       *)
(* request and one offer; the offers' own screens; helping.                  *)
(***************************************************************************)
EXTENDS Phone
CONSTANTS a, b, e, o1, o2, f1, f2, mine, p1
VARIABLE concern

Concerns == {"queue", "inherit", "joined", "push", "screens", "offers", "helping"}
mcDeviceVars == <<deviceVars, screenVars, helpingVars, concern>>

\* The op the server refuses is the one typed first.
Queueing == concern = "queue" /\ (Adding \/ Flushing) /\ (author'[o1] # None => author'[o2] # None)
\* One op of the first account, which may still be queued when another signs in.
Inheriting ==
    /\ concern = "inherit" /\ (Accounting \/ Adding \/ Flushing)
    /\ author'[o2] = None /\ as'["add"] = None /\ ~SessionEnds
JoinedEvents == concern = "joined" /\ (Accounting \/ Joining)
Pushing == concern = "push" /\ (Accounting \/ Notifying)
\* One offer among the other screens; or two offers, without the screens of a request.
Navigating == concern = "screens" /\ ScreensNext /\ offer'[f2] = "none"
Offering ==
    /\ concern = "offers" /\ ScreensNext
    /\ \A i \in 1..Len(stack') : stack'[i].kind # "request"
    /\ restarts' = 0

MCInit ==
    /\ concern \in Concerns
    /\ DeviceInit(IF concern = "queue" THEN a ELSE None) /\ ScreensInit /\ HelpingInit
    /\ concern = "screens" \/ request = "closed"
MCNext ==
    /\ UNCHANGED concern
    /\ \/ (Queueing \/ Inheriting \/ JoinedEvents \/ Pushing) /\ UNCHANGED <<screenVars, helpingVars>>
       \/ (Navigating \/ Offering) /\ UNCHANGED <<deviceVars, helpingVars>>
       \/ concern = "helping" /\ HelpingNext /\ UNCHANGED <<deviceVars, screenVars>>
MCSpec == MCInit /\ [][MCNext]_mcDeviceVars /\ DeviceFairness /\ ScreensFairness /\ HelpingFairness

\* Nothing of the phone hangs: queued work leaves, a match is celebrated, a position goes
\* and helping ends with a long absence.
PhoneSettles == QueueDrains /\ MatchedIsCelebrated /\ PositionGoes /\ LongAbsenceEndsHelp
=============================================================================
