---------------------------- MODULE MCAllocation ----------------------------
(***************************************************************************)
(* The allocation of slots on two kinds of box, side by side: one slot,    *)
(* whose module may be for one service or for two, with two tuners; and    *)
(* two slots on one tuner, with a module each for one service, of which    *)
(* the first cannot decrypt service 2.  `boxes' is chosen once.            *)
(***************************************************************************)
EXTENDS MCCIAllocation

VARIABLE boxes

all == <<vars, boxes>>

Two == INSTANCE CIAllocation WITH
  Slots <- {0, 1}, Sources <- {0}, MaxMulti <- 1, CamMatches <- ({0, 1} \X Sids) \ {<<0, 2>>},
  Blacklist <- {}, Multi <- {FALSE}, CheckLive <- {}

MCInit == \/ boxes = "one" /\ Init
          \/ boxes = "two" /\ Two!Init

MCNext == /\ UNCHANGED boxes
          /\ \/ boxes = "one" /\ Next
             \/ boxes = "two" /\ Two!Next

MCSpec == MCInit /\ [][MCNext]_all

\* The properties are those of CIAllocation: they speak of the slots there are.
=============================================================================
