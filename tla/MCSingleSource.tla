--------------------------- MODULE MCSingleSource ---------------------------
(***************************************************************************)
(* A consumer with one source of news: either a stream, with callbacks that  *)
(* await (the configuration's constants), or the minute poll.                *)
(***************************************************************************)
EXTENDS OrderTracking, TLC

VARIABLE source   \* "poll" or "stream"

Polled == INSTANCE OrderTracking WITH
  Sources <- {"lingering"}, CallbackSuspends <- FALSE

MCInit == Init /\ source \in {"poll", "stream"}
MCNext ==
  \/ source = "stream" /\ Next /\ UNCHANGED source
  \/ source = "poll" /\ Polled!Next /\ UNCHANGED source
MCSpec == MCInit /\ [][MCNext]_<<vars, source>>

\* NothingForgotten, of a consumer the stream tells everything.
StreamForgetsNothing == source = "stream" => NothingForgotten

\* Orders and symbols are interchangeable.
MCSymmetry == Permutations(OrderIds) \cup Permutations(Symbols)
=============================================================================
