---------------------------- MODULE BoundedFifo ----------------------------
(***************************************************************************)
(* What a circular queue promises its two users: the bytes come out in the *)
(* order they went in, none is lost or repeated, and at most Capacity      *)
(* bytes wait at any time.                                                 *)
(***************************************************************************)
EXTENDS Naturals, Sequences

CONSTANTS
    Byte,      \* the values a slot can hold
    Capacity   \* how many bytes can wait

VARIABLES
    pushed,    \* every byte accepted so far, in order
    popped     \* every byte handed out so far, in order

vars == <<pushed, popped>>

Init == pushed = << >> /\ popped = << >>

Push(b) ==
    /\ Len(pushed) - Len(popped) < Capacity
    /\ pushed' = Append(pushed, b)
    /\ UNCHANGED popped

Pop ==
    /\ Len(popped) < Len(pushed)
    /\ popped' = Append(popped, pushed[Len(popped) + 1])
    /\ UNCHANGED pushed

Next == Pop \/ \E b \in Byte : Push(b)

Spec == Init /\ [][Next]_vars
=============================================================================
