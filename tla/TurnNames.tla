----------------------------- MODULE TurnNames -----------------------------
(***************************************************************************)
(* The names the runtime and its adapter share.  A turn is named after the *)
(* request that started it: Turns is both the set of requests the host     *)
(* makes and the set of backend turn IDs.  The one interaction a turn may  *)
(* request of the host is named after the turn as well.                    *)
(***************************************************************************)
CONSTANTS Turns,  \* requests, and the turns they become
          None    \* Go's empty turn ID, and the nil interaction

ASSUME NoneAssumption == None \notin Turns

MaybeTurn == Turns \cup {None}
=============================================================================
