-------------------------- MODULE MCReceivedMessages --------------------------
(* Two neighbours in one partition and a message of another; the end of the first *)
(* partition was reached where its second message has come later.               *)
EXTENDS ReceivedMessages

Received == {[partition |-> 0, offset |-> 0], [partition |-> 0, offset |-> 1],
             [partition |-> 1, offset |-> 0]}
EndReached == {[partition |-> 0, offset |-> 1]}

===============================================================================
