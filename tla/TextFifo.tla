-------------------------------- MODULE TextFifo --------------------------------
(******************************************************************************)
(* What AyameSignaling takes the writing half to be: texts go in at one end   *)
(* and come out on the websocket at the other, in order, each once, until the *)
(* channel is broken; from then on nothing is promised.                       *)
(******************************************************************************)
EXTENDS Naturals, Sequences

CONSTANT Texts

VARIABLES
    in,     \* the texts put in so far
    out,    \* the texts that came out so far
    broken

Init == in = <<>> /\ out = <<>> /\ broken = FALSE

Put == \E m \in Texts : in' = Append(in, m) /\ UNCHANGED <<out, broken>>

Get ==
    /\ Len(out) < Len(in)
    /\ out' = Append(out, in[Len(out) + 1])
    /\ UNCHANGED <<in, broken>>

Break == broken' /\ UNCHANGED <<in, out>>

Anything == broken /\ broken'

Next == (~broken /\ (Put \/ Get \/ Break)) \/ Anything

Spec == Init /\ [][Next]_<<in, out, broken>>
================================================================================
