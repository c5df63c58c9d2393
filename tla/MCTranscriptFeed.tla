--------------------------- MODULE MCTranscriptFeed ---------------------------
(* An instance of TranscriptFeed for TLC. *)
EXTENDS TranscriptFeed
=============================================================================
