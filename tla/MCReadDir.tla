----------------------------- MODULE MCReadDir -----------------------------
(* Model values for ReadDir: an empty directory would end at once, so one  *)
(* directory fits a batch and the other does not.  With Attrs come what it *)
(* assumes of the attribute lists that READDIR answers with.               *)
EXTENDS ReadDir, Attrs, TLC

CONSTANTS d1, d2

MCSize == d1 :> 1 @@ d2 :> 3

============================================================================
