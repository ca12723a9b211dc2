-------------------------- MODULE MCReceiverWorker ---------------------------
(***************************************************************************)
(* Finite instances of ReceiverWorker.  A GGA with and without fix, a void *)
(* RMC and a blank line are the lines whose orders matter to _apply.       *)
(***************************************************************************)
EXTENDS ReceiverWorker

MCPosition == {1}

ALine(type, pos) == [type |-> type, ok |-> TRUE, pos |-> pos,
                     sats |-> None, hdop |-> None, speed |-> None]

MCLines == {ALine("GGA", 1), ALine("GGA", None), ALine("RMC", None)}

MCFileLines == <<ALine("GGA", 1), ALine("blank", None), ALine("other", None)>>
=============================================================================
