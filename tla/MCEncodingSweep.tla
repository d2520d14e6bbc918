-------------------------- MODULE MCEncodingSweep ---------------------------
(***************************************************************************)
(* Windows of 96 integers around the ends of the 12-, 13-, 20- and 21-bit  *)
(* fields, of the 32-bit word and around zero.                             *)
(***************************************************************************)
EXTENDS EncodingSweep

MCWindows ==
  {c - 48 : c \in {0, 2048, -2048, 4096, -4096, 524288, -524288, 1048576,
                   -1048576, 305419896, -305419896, 2147483600, -2147483600}}
=============================================================================
