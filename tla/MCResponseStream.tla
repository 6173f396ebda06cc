--------------------------- MODULE MCResponseStream ---------------------------
(* An instance of ResponseStream with the commands that write improperly.  *)
EXTENDS ResponseStream, Responses

OtherNames == DOMAIN OtherResponses
=============================================================================
