-------------------------------- MODULE Call --------------------------------
(***************************************************************************)
(* What device_kernel::call promises (core.hpp): the wallet handles the    *)
(* message once, and the call returns the wallet's answer to it, or throws *)
(* -- at any point, so that a call that throws may have had its effect.    *)
(***************************************************************************)
CONSTANTS Requests, Replies, NoMessage, Thrown

VARIABLES
  calling,  (* The message of the running call, NoMessage between calls.   *)
  served,   (* What the wallet took for the message, and its answer.       *)
  result    (* What the last call returned: a message, Thrown, NoMessage.  *)

vars == <<calling, served, result>>

Init == calling = NoMessage /\ served = NoMessage /\ result = NoMessage

Invoke ==
  /\ calling = NoMessage
  /\ calling' \in Requests
  /\ result' = NoMessage
  /\ UNCHANGED served

Serve ==
  /\ calling # NoMessage
  /\ served = NoMessage
  /\ \E r \in Replies : served' = [request |-> calling, reply |-> r]
  /\ UNCHANGED <<calling, result>>

Return ==
  /\ served # NoMessage
  /\ result' = served.reply
  /\ calling' = NoMessage
  /\ served' = NoMessage

\* A call may throw before it has sent anything, too.
Throw ==
  /\ result' = Thrown
  /\ calling' = NoMessage
  /\ served' = NoMessage

Next == Invoke \/ Serve \/ Return \/ Throw

Spec == Init /\ [][Next]_vars
=============================================================================
