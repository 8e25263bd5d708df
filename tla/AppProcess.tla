------------------------------ MODULE AppProcess ------------------------------
(***************************************************************************)
(* The operating-system process that runs the library inside an Android    *)
(* application.  A panic in any goroutine ends it, and the system may kill *)
(* it at any time; both lose its memory and keep what is on disk.  Every   *)
(* module of the app extends this one.                                     *)
(***************************************************************************)

VARIABLE crashed  \* "no", or the part of the code whose panic ended the process

Places == {"scan", "finish", "parse", "dial"}

Alive == crashed = "no"

Panic(place) == crashed' = place
=============================================================================
