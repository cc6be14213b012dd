--------------------------- MODULE MCOpenAiProxy ---------------------------
(* A small instance of OpenAiProxy for TLC.                                 *)
EXTENDS OpenAiProxy
=============================================================================
