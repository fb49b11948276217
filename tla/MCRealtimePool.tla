--------------------------- MODULE MCRealtimePool ---------------------------
(* RealtimePool for TLC. *)
EXTENDS RealtimePool

\* Up to ten channels, std::map orders std::to_string(i) as the numbers.
MapOrder == [c \in Channels |-> c]
=============================================================================
