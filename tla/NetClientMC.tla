----------------------------- MODULE NetClientMC -----------------------------
(* Values for model-checking NetClient on its own: messages of one, two and  *)
(* two bytes, so that a frame can end inside a message, at its end, or hold  *)
(* several; a malformed message can be recognised by its first byte, so that *)
(* it can be thrown away before the rest of it has arrived.                  *)
EXTENDS NetClient

MsgEndFew == [k \in 0..MaxMsgs |-> 2 * k - (k + 2) \div 3]
BadAtFew == [k \in Malformed |-> MsgEnd[k - 1] + 1]
=============================================================================
