--------------------------- MODULE MC_WatchStream ---------------------------
(* TLC instances of WatchStream. *)
EXTENDS WatchStream

(* From the beginning of the changelog, or without a token. *)
SomeOrNone == {0, NoId}
=============================================================================
