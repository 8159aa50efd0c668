--------------------------- MODULE MCResponseBuffer ---------------------------
(***************************************************************************)
(* Model of ResponseBuffer: chunks of 0, 1, 511 and 512 bytes (a 512-byte *)
(* chunk exactly fills the room a first chunk leaves), up to four chunks. *)
(***************************************************************************)
EXTENDS ResponseBuffer

MCChunkSizes == {0, 1, 511, 512}

=============================================================================
