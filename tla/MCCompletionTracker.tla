------------------------ MODULE MCCompletionTracker ------------------------
(* Two partitions, three offsets with a gap between them: every order of   *)
(* tracking and completing them, refused calls included.                   *)
EXTENDS CompletionTracker

MCOffsets == {0, 5, 9}
=============================================================================
