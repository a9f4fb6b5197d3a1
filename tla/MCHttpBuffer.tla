---------------------------- MODULE MCHttpBuffer ----------------------------
(* What TLC checks of HttpBuffer and the specification itself does not state *)
EXTENDS HttpBuffer

(* client.c:295: "if buffer was malloc'd, attempt to join until success or *)
(* memory error": an add to the client's own buffer ends with success or   *)
(* because memory was refused.                                             *)
JoinedUnlessNoMemory ==
    malloc /\ pc = "done" /\ result = "EOMEM" => call.refused
============================================================================
