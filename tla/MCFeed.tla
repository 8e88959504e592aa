-------------------------------- MODULE MCFeed --------------------------------
(* One ticker on the list, the other to be discovered.                       *)
EXTENDS Feed

CONSTANTS t1, t2
FirstTickers == <<t1>>

===============================================================================
