-------------------------- MODULE BroadcastChannel --------------------------
(***************************************************************************)
(* tokio::sync::broadcast, as the streams use it: senders never wait, each *)
(* receiver has its own position, and one that falls more than `capacity`  *)
(* messages behind loses the oldest and is told so.  A channel is the      *)
(* sequence of everything sent; `pos` is how much of it a receiver has had.*)
(***************************************************************************)
EXTENDS Integers, Sequences

\* The receiver has something to receive, a message or the notice of a loss.
HasNews(sent, pos) == pos < Len(sent)

\* The message after pos has been overwritten.
HasLagged(sent, pos, capacity) == pos < Len(sent) - capacity

\* Where a receiver that lagged goes on: at the oldest message still kept.
CaughtUp(sent, capacity) == Len(sent) - capacity
=============================================================================
