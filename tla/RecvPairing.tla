------------------------------ MODULE RecvPairing ------------------------------
(******************************************************************************)
(* What the two queues of an AyameStream promise: receives are registered and *)
(* frames arrive in any interleaving, and the i-th receive has been given the *)
(* i-th frame as soon as both are there, and nothing else.  It says nothing   *)
(* of queues, threads or channels.                                            *)
(******************************************************************************)
EXTENDS Naturals, Sequences

CONSTANTS Recvs, Frames

VARIABLES
    reg,   \* the receives registered, in order
    rcvd,  \* the frames that arrived, in order
    got    \* what was given to the receives: <<receive, frame>> pairs, in order

Pairs(r, f) ==
    [i \in 1..(IF Len(r) <= Len(f) THEN Len(r) ELSE Len(f)) |-> <<r[i], f[i]>>]

Init == reg = <<>> /\ rcvd = <<>> /\ got = <<>>

Register ==
    \E r \in Recvs :
        /\ reg' = Append(reg, r)
        /\ rcvd' = rcvd
        /\ got' = Pairs(reg', rcvd)

Arrive ==
    \E f \in Frames :
        /\ rcvd' = Append(rcvd, f)
        /\ reg' = reg
        /\ got' = Pairs(reg, rcvd')

Next == Register \/ Arrive

Spec == Init /\ [][Next]_<<reg, rcvd, got>>
================================================================================
