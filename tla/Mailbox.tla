------------------------------ MODULE Mailbox ------------------------------
(***************************************************************************)
(* What a header queue promises to the two threads at its ends: a FIFO     *)
(* channel that holds at most Capacity messages, in which every message    *)
(* put is taken once, whole, and in the order of the puts.                 *)
(***************************************************************************)
EXTENDS Naturals, Sequences

CONSTANTS Message,   \* the messages
          Capacity   \* how many the channel holds

VARIABLES box,    \* the messages put and not yet taken
          taken   \* all the messages taken, in order

Init == /\ box = << >>
        /\ taken = << >>

Put == /\ Len(box) < Capacity
       /\ \E m \in Message : box' = Append(box, m)
       /\ UNCHANGED taken

Take == /\ box # << >>
        /\ taken' = Append(taken, Head(box))
        /\ box' = Tail(box)

Next == Put \/ Take

Spec == Init /\ [][Next]_<<box, taken>>
============================================================================
