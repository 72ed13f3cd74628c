---------------------------- MODULE MCChatEngine ----------------------------
(* Instance of ChatEngine; ids are interchangeable in its safety runs. *)
EXTENDS ChatEngine, TLC

InterchangeableIds == Permutations(Ids)
=============================================================================
