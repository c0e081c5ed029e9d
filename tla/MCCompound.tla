----------------------------- MODULE MCCompound -----------------------------
(* Compound on a small instance. *)
EXTENDS Compound

CONSTANTS root, file

\* One error for each way the handlers treat errors differently: one that is not
\* fatal, one that PUTFH, OPEN, RENAME and LINK replace, one that READ and READDIR
\* do not take for an error, one that discards the worker and has a status that does
\* not end the compound, and one that discards the worker and ends the compound.
MCErrors == {"ErrNotExist", "EOPNOTSUPP", "EOF", "ErrInvalidHandle", "other"}
=============================================================================
