----------------------------- MODULE LossyFifo -----------------------------
(***************************************************************************)
(* What a playback output owes the container thread: the chunks it accepts *)
(* reach the decoder in the order in which they were accepted, none of     *)
(* them twice.  Chunks may be lost (a seek, a flush, the end of playback,  *)
(* a failing device), but never reordered.  A chunk is known by its        *)
(* number: the n-th chunk accepted has number n.                           *)
(***************************************************************************)
EXTENDS Integers, Sequences

VARIABLES accepted,   \* how many chunks were accepted so far
          pending,    \* numbers of the chunks accepted and not yet disposed of
          delivered   \* numbers of the chunks the decoder got (part of)

fifoVars == <<accepted, pending, delivered>>

\* q without its i-th element
Without(q, i) == [j \in 1 .. Len(q) - 1 |-> IF j < i THEN q[j] ELSE q[j + 1]]

Init == accepted = 0 /\ pending = <<>> /\ delivered = <<>>

Accept ==
  /\ accepted' = accepted + 1
  /\ pending' = Append(pending, accepted + 1)
  /\ UNCHANGED delivered

Deliver ==
  /\ pending # <<>>
  /\ delivered' = Append(delivered, pending[1])
  /\ pending' = Without(pending, 1)
  /\ UNCHANGED accepted

Lose ==
  /\ \E i \in DOMAIN pending : pending' = Without(pending, i)
  /\ UNCHANGED <<accepted, delivered>>

Next == Accept \/ Deliver \/ Lose

Spec == Init /\ [][Next]_fifoVars
=============================================================================
