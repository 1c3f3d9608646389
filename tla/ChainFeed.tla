------------------------------ MODULE ChainFeed ------------------------------
(***************************************************************************)
(* crates/phantom-chain/src/stream.rs and events.rs: BlockStreamer polls   *)
(* the head of a chain and broadcasts it; EventSubscription receives the   *)
(* blocks and fetches the logs of each one.                                *)
(*                                                                         *)
(* The node may be ahead, behind, reorganised or out of order from one     *)
(* request to the next.  Time is not measured: a sleep just ends.          *)
(***************************************************************************)
EXTENDS BroadcastChannel, FiniteSets

CONSTANTS
    MaxHead,        \* bound: the chain stops growing here
    MaxReorgs,      \* bound: how often the head of the chain falls back
    MaxFailures,    \* bound: requests that fail before the node works for good
    BlockCapacity,  \* the capacity of the block channel
    None            \* no block has been announced yet

Heights == 0 .. MaxHead

ASSUME FeedAssumption ==
    /\ MaxHead \in Nat /\ MaxReorgs \in Nat /\ MaxFailures \in Nat
    /\ BlockCapacity \in Nat \ {0} /\ None \notin Heights

VARIABLES
    head,       \* the chain: the number of its latest block
    reorgs,     \* how often it fell back
    feedFailures,   \* how many requests failed
    streamer,   \* where the streaming task is
    lastBlock,  \* last_block
    number,     \* the number it was given last
    sent,       \* the block channel: all notifications that were sent
    stopping,   \* "streamer" and "events" are told to stop; "gone": the
                \* BlockStreamer is dropped
    events,     \* where the subscription task is
    had,        \* the subscription's position in the block channel
    block,      \* the block whose logs it is fetching
    fetched,    \* blocks whose logs it has broadcast
    missed      \* blocks whose logs it failed to fetch

feedVars == <<head, reorgs, feedFailures, streamer, lastBlock, number, sent, stopping,
              events, had, block, fetched, missed>>
streamState == <<streamer, lastBlock, number, sent>>
eventState  == <<events, had, block, fetched, missed>>

FeedInit ==
    /\ head = 0 /\ reorgs = 0 /\ feedFailures = 0
    /\ streamer = "poll" /\ lastBlock = None /\ number = 0
    /\ sent = << >>
    /\ stopping = {}
    /\ events = "select" /\ had = 0 /\ block = 0
    /\ fetched = {} /\ missed = {}

\* The node fails a request.
Fails ==
    /\ feedFailures < MaxFailures
    /\ feedFailures' = feedFailures + 1

-----------------------------------------------------------------------------
(* The chain and the operator                                              *)

Grow ==
    /\ head < MaxHead
    /\ head' = head + 1
    /\ UNCHANGED <<reorgs, feedFailures, streamState, stopping, eventState>>

\* A reorganisation, or a node behind the one asked before.
FallBack ==
    /\ head > 0 /\ reorgs < MaxReorgs
    /\ head' = head - 1
    /\ reorgs' = reorgs + 1
    /\ UNCHANGED <<feedFailures, streamState, stopping, eventState>>

\* stop, of the streamer or of the subscription.  To its task the drop of a
\* subscription is the same: changed() returns.
Stop(who) ==
    /\ who \notin stopping
    /\ who = "streamer" => "gone" \notin stopping
    /\ stopping' = stopping \union {who}
    /\ UNCHANGED <<head, reorgs, feedFailures, streamState, eventState>>

\* The BlockStreamer is dropped, its half of the watch channel and its sender of
\* blocks with it; its task goes on with a sender of its own.
DropStreamer ==
    /\ "gone" \notin stopping
    /\ stopping' = stopping \union {"gone"}
    /\ UNCHANGED <<head, reorgs, feedFailures, streamState, eventState>>

-----------------------------------------------------------------------------
(* BlockStreamer::start and poll_latest_block                              *)

\* The head of the loop reads the signal; while the task sleeps, changed() returns
\* for the signal and for a dropped streamer.  While a request is awaited nobody
\* looks.
StreamerStops ==
    /\ \/ streamer = "poll" /\ "streamer" \in stopping
       \/ streamer = "sleep" /\ stopping \intersect {"streamer", "gone"} # {}
    /\ streamer' = "stopped"
    /\ UNCHANGED <<head, reorgs, feedFailures, lastBlock, number, sent, stopping, eventState>>

\* No signal at the head of the loop: ask for the block number.
PollBegins ==
    /\ streamer = "poll" /\ "streamer" \notin stopping
    /\ streamer' = "number"
    /\ UNCHANGED <<head, reorgs, feedFailures, lastBlock, number, sent, stopping, eventState>>

\* Faulty: only the same number again is old news.
IsNew_Differs(n) == lastBlock = None \/ n # lastBlock

IsNew(n) == lastBlock = None \/ n > lastBlock

\* get_block_number answers; nothing more happens unless the block is new.
PollNumber ==
    /\ streamer = "number"
    /\ number' = head
    /\ streamer' = IF IsNew(head) THEN "header" ELSE "sleep"
    /\ UNCHANGED <<head, reorgs, feedFailures, lastBlock, sent, stopping, eventState>>

\* get_block_by_number answers with the header: the block is announced to the
\* subscribers there are.
PollHeader ==
    /\ streamer = "header" /\ number <= head
    /\ sent' = IF events # "stopped" THEN Append(sent, number) ELSE sent
    /\ lastBlock' = number
    /\ streamer' = "sleep"
    /\ UNCHANGED <<head, reorgs, feedFailures, number, stopping, eventState>>

\* Either request fails, or the block is gone: the task backs off.
PollFails ==
    /\ \/ streamer \in {"number", "header"} /\ Fails
       \/ streamer = "header" /\ number > head /\ UNCHANGED feedFailures
    /\ streamer' = "sleep"
    /\ UNCHANGED <<head, reorgs, lastBlock, number, sent, stopping, eventState>>

\* The poll interval or the backoff is over.
Wake ==
    /\ streamer = "sleep"
    /\ streamer' = "poll"
    /\ UNCHANGED <<head, reorgs, feedFailures, lastBlock, number, sent, stopping, eventState>>

-----------------------------------------------------------------------------
(* EventSubscription::start and fetch_and_broadcast_logs                   *)

ReceiveBlock ==
    /\ events = "select"
    /\ HasNews(sent, had) /\ ~HasLagged(sent, had, BlockCapacity)
    /\ block' = sent[had + 1]
    /\ had' = had + 1
    /\ events' = "fetch"
    /\ UNCHANGED <<head, reorgs, feedFailures, streamState, stopping, fetched, missed>>

\* Faulty: the receiver is moved past everything that was sent.
ReceiveLag_All ==
    /\ events = "select" /\ HasLagged(sent, had, BlockCapacity)
    /\ had' = Len(sent)
    /\ UNCHANGED <<head, reorgs, feedFailures, streamState, stopping, events, block, fetched, missed>>

\* The subscription learns that it was too slow, and goes on.
ReceiveLag ==
    /\ events = "select" /\ HasLagged(sent, had, BlockCapacity)
    /\ had' = CaughtUp(sent, BlockCapacity)
    /\ UNCHANGED <<head, reorgs, feedFailures, streamState, stopping, events, block, fetched, missed>>

FetchLogs ==
    /\ events = "fetch"
    /\ fetched' = fetched \union {block}
    /\ events' = "select"
    /\ UNCHANGED <<head, reorgs, feedFailures, streamState, stopping, had, block, missed>>

\* get_logs fails: the block is not asked for again.
FetchFails ==
    /\ events = "fetch" /\ Fails
    /\ missed' = missed \union {block}
    /\ events' = "select"
    /\ UNCHANGED <<head, reorgs, streamState, stopping, had, block, fetched>>

\* Nothing is left to receive, and nobody is left to send.
Closed == ~HasNews(sent, had) /\ streamer = "stopped" /\ "gone" \in stopping

\* Faulty: a closed channel is logged like a lag, and the loop goes on.
StreamClosed_GoesOn ==
    /\ events = "select" /\ Closed
    /\ UNCHANGED feedVars

\* The block stream is closed: the subscription ends with it.
StreamClosed ==
    /\ events = "select" /\ Closed
    /\ events' = "stopped"
    /\ UNCHANGED <<head, reorgs, feedFailures, streamState, stopping, had, block, fetched, missed>>

EventsStop ==
    /\ events = "select" /\ "events" \in stopping
    /\ events' = "stopped"
    /\ UNCHANGED <<head, reorgs, feedFailures, streamState, stopping, had, block, fetched, missed>>

-----------------------------------------------------------------------------
StreamerStep == StreamerStops \/ PollBegins \/ PollNumber \/ PollHeader \/ PollFails \/ Wake
EventsStep == ReceiveBlock \/ ReceiveLag \/ StreamClosed \/ FetchLogs \/ FetchFails

FeedNext ==
    \/ Grow \/ FallBack \/ DropStreamer
    \/ \E who \in {"streamer", "events"} : Stop(who)
    \/ StreamerStep \/ EventsStep \/ EventsStop

\* What the tasks do without an answer of the node.
StreamerGoesOn == PollBegins \/ Wake
EventsGoOn     == ReceiveBlock \/ ReceiveLag \/ StreamClosed

\* The runtime runs both tasks and the chain grows.  select! picks a ready branch
\* at random, so it notices a stop eventually even when blocks keep coming.  The
\* node owes no answer: no request has a timeout.
FeedFairness ==
    /\ WF_feedVars(StreamerGoesOn) /\ WF_feedVars(Grow)
    /\ SF_feedVars(StreamerStops)
    /\ WF_feedVars(EventsGoOn) /\ SF_feedVars(EventsStop)

FeedSpec == FeedInit /\ [][FeedNext]_feedVars /\ FeedFairness

-----------------------------------------------------------------------------
(* Properties                                                              *)

\* Blocks are announced in rising order, each number once, although the head
\* the node reports may fall back between the two requests of a poll or from
\* one poll to the next (stream.rs:171-235).
AnnouncedForward == \A i \in 1 .. Len(sent) - 1 : sent[i] < sent[i + 1]

\* The task waits for an answer of the node for ever.
StreamerHangs == <>[](streamer \in {"number", "header"})
EventsHang    == <>[](events = "fetch")

\* Once the chain is at its last block that block is announced and its logs are
\* fetched, however far the subscription lagged before, unless somebody stops
\* one of the two, the one get_logs for it fails, or a request is never answered
\* (stream.rs:107-162, events.rs:122-180).
LastBlockArrives ==
    \/ head = MaxHead ~> MaxHead \in fetched \union missed \/ stopping # {}
    \/ StreamerHangs \/ EventsHang

\* A task that is told to stop, or whose streamer or subscription is dropped,
\* stops, and a subscription ends with its block stream, however far it lags; only
\* a request that is never answered keeps a task, since none has a timeout
\* (stream.rs:119-159, events.rs:130-177).
StopIsHeard ==
    /\ (stopping \intersect {"streamer", "gone"} # {} ~> streamer = "stopped") \/ StreamerHangs
    /\ ("events" \in stopping ~> events = "stopped") \/ EventsHang
    /\ ("gone" \in stopping ~> events = "stopped") \/ StreamerHangs \/ EventsHang
=============================================================================
