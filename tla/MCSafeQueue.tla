----------------------------- MODULE MCSafeQueue -----------------------------
(* Two pushing threads and the main thread.                                 *)
EXTENDS SafeQueue
CONSTANTS p1, p2, c1
OneConsumer == {c1}
TwoProducers == {p1, p2}
Front == {"front"}
Back == {"back"}
==============================================================================
