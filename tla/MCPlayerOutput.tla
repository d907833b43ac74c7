---- MODULE MCPlayerOutput ----
EXTENDS PlayerOutput
MC_Outputs == {[box |-> "mipsel", buffered |-> FALSE], [box |-> "mipsel", buffered |-> TRUE], [box |-> "sh4", buffered |-> FALSE]}
====
