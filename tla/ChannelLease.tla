---------------------------- MODULE ChannelLease ----------------------------
(***************************************************************************)
(* What the pool of real-time recognition channels promises to the worker  *)
(* threads (src/src/vr/vr.cc, VRServer::stt of the pool build): a worker   *)
(* decodes on a channel it alone holds, and it gives the channel back.     *)
(***************************************************************************)
CONSTANTS Workers,    \* the threads that serve vr_realtime
          Channels,   \* the RealtimeSTT objects
          NoChannel   \* what a worker without a channel holds

VARIABLE lease        \* lease[w]: the channel worker w decodes on

Init == lease = [w \in Workers |-> NoChannel]

Take(w, c) ==
  /\ lease[w] = NoChannel
  /\ \A v \in Workers : lease[v] # c
  /\ lease' = [lease EXCEPT ![w] = c]

Return(w) ==
  /\ lease[w] # NoChannel
  /\ lease' = [lease EXCEPT ![w] = NoChannel]

Next == \E w \in Workers : Return(w) \/ \E c \in Channels : Take(w, c)

Safety == Init /\ [][Next]_lease

Spec == Safety /\ \A w \in Workers : WF_lease(Return(w))
=============================================================================
