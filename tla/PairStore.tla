------------------------------ MODULE PairStore ------------------------------
(***************************************************************************)
(* What the file of authentication data owes the content control: the      *)
(* newest pairs, newest first, none of them twice, at most Capacity.  A    *)
(* pair goes when a newer one needs its place, or when the storing of a    *)
(* newer one is cut off: then what is left is the front of what would have *)
(* been stored.                                                            *)
(***************************************************************************)
EXTENDS Naturals, Sequences, SequencesExt

CONSTANTS Pair, Capacity

VARIABLES pairs,   \* what can be read from the file
          cuts     \* how often the storing was cut off

Init == pairs = <<>> /\ cuts = 0

\* The pairs once p is stored: p first, the oldest one gone when there is no room.
With(p) == LET all == <<p>> \o pairs
           IN  SubSeq(all, 1, IF Len(all) > Capacity THEN Capacity ELSE Len(all))

Store(p) == pairs' = With(p) /\ UNCHANGED cuts

CutOff(p) == IsPrefix(pairs', With(p)) /\ cuts' = cuts + 1

Next == \E p \in Pair \ ToSet(pairs) : Store(p) \/ CutOff(p)

Spec == Init /\ [][Next]_<<pairs, cuts>>
=============================================================================
