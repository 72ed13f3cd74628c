--------------------------- MODULE MCResponseCache ---------------------------
(* Instance of ResponseCache; requests are interchangeable. *)
EXTENDS ResponseCache, TLC

InterchangeableRequests == Permutations(Requests)
=============================================================================
