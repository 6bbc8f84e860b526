---------------------------- MODULE LiveChannel ----------------------------
(***************************************************************************)
(* What the live listener promises to the coordinator, without threads,    *)
(* queues or timers.  `active` is LiveListener.active, the one thing the   *)
(* coordinator reads; `link` is where the listener is:                     *)
(*   "down"  no connection attempt has its executor thread running         *)
(*   "open"  one attempt owns the connection                               *)
(*   "shut"  async_stop() has been called, for good                        *)
(* While not shut, `active` is raised only during an attempt and is gone   *)
(* before the next attempt can begin, so the poll and the post-press       *)
(* follow stand down only for a connection that was really subscribed.     *)
(* LiveListener implements this specification.                             *)
(***************************************************************************)

VARIABLES
    link,    \* "down", "open" or "shut"
    active   \* LiveListener.active

channelVars == <<link, active>>

ChannelTypeOK ==
    /\ link \in {"down", "open", "shut"}
    /\ active \in BOOLEAN

ChannelInit ==
    /\ link = "down"
    /\ active = FALSE

\* An attempt has a certificate and is given its executor thread.
Open ==
    /\ link = "down"
    /\ link' = "open"
    /\ UNCHANGED active

\* The attempt's subscriptions are confirmed and the loop has been told.
Announce ==
    /\ link = "open"
    /\ active' = TRUE
    /\ UNCHANGED link

\* The attempt has ended, for whatever reason.
Close ==
    /\ link = "open"
    /\ link' = "down"
    /\ active' = FALSE

\* async_stop().
Shut ==
    /\ link' = "shut"
    /\ active' = FALSE

\* After async_stop() the thread, which cannot be cancelled, may still report
\* its subscription, and the cancelled supervisor may still clear the flag.
Late ==
    /\ link = "shut"
    /\ active' \in BOOLEAN
    /\ UNCHANGED link

ChannelNext == Open \/ Announce \/ Close \/ Shut \/ Late

ChannelSpec == ChannelInit /\ [][ChannelNext]_channelVars

=============================================================================
