---------------------------- MODULE StreamService ----------------------------
(***************************************************************************)
(* What the interface promises the client of a load, whichever mode it is  *)
(* in: the bytes answered "received" go to the SPI layer in the order they *)
(* were sent in and each of them at most once, no more of them wait than a *)
(* ring holds, and none is left out as long as no transfer failed.  A byte *)
(* is its ordinal in the client's stream.                                  *)
(***************************************************************************)
EXTENDS Integers, Sequences, SequencesExt

CONSTANT Capacity

VARIABLES accepted, sent, failed

Increasing(s) == \A i \in 1..Len(s) - 1 : s[i] < s[i + 1]

Promise ==
    /\ Increasing(accepted) /\ Increasing(sent)
    /\ ToSet(sent) \subseteq ToSet(accepted)
    /\ ~failed => IsPrefix(sent, accepted) /\ Len(accepted) - Len(sent) <= Capacity

Init == accepted = <<>> /\ sent = <<>> /\ ~failed

(* A load is accepted, bytes are sent on, or both at once; a transfer may  *)
(* fail while they are.                                                    *)
Step ==
    /\ IsPrefix(accepted, accepted') /\ IsPrefix(sent, sent')
    /\ failed => failed'
    /\ Promise'

Spec == Init /\ [][Step]_<<accepted, sent, failed>>

==============================================================================
