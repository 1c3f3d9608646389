----------------------------- MODULE DutchOrder -----------------------------
(***************************************************************************)
(* A Dutch auction order from its encoding to the amount it requires now:  *)
(* decode_dutch_order and validate_order of                                *)
(* crates/phantom-discovery/src/monitor.rs and DutchAuctionOrder of        *)
(* crates/phantom-common/src/types/order.rs.                               *)
(*                                                                         *)
(* An order has the times decayStart, decayEnd and deadline, the amount of *)
(* its input and the start and end amounts of its outputs.                 *)
(***************************************************************************)
EXTENDS Integers, Sequences

CONSTANT LastTimestamp   \* the latest second chrono can represent

ASSUME DutchAssumption == LastTimestamp \in Nat

\* timestamp_to_datetime: a later second becomes the epoch.
TimestampToDatetime(seconds) == IF seconds > LastTimestamp THEN 0 ELSE seconds

\* decode_dutch_order of an encoding that decodes.
Decode(raw) ==
    [raw EXCEPT !.decayStart = TimestampToDatetime(@),
                !.decayEnd   = TimestampToDatetime(@),
                !.deadline   = TimestampToDatetime(@)]

Expired(order, now) == now > order.deadline

\* Faulty: the amounts of the outputs are not compared.
Valid_AnyDecay(order, now) ==
    /\ ~Expired(order, now)
    /\ order.decayEnd >= order.decayStart
    /\ order.outputs # << >>

\* validate_order
Valid(order, now) ==
    /\ ~Expired(order, now)
    /\ order.decayEnd >= order.decayStart
    /\ order.outputs # << >>
    /\ \A i \in DOMAIN order.outputs : order.outputs[i].start >= order.outputs[i].end

Monus(a, b) == IF a > b THEN a - b ELSE 0

\* current_output_amount of an output the order has.  With both decay times
\* equal one of the two first cases applies.
CurrentOutput(order, i, now) ==
    LET output   == order.outputs[i]
        duration == order.decayEnd - order.decayStart
        elapsed  == now - order.decayStart
        decayed  == (Monus(output.start, output.end) * elapsed) \div duration
    IN  IF now <= order.decayStart THEN output.start
        ELSE IF now >= order.decayEnd THEN output.end
        ELSE Monus(output.start, decayed)
=============================================================================
