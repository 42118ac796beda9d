-------------------------- MODULE MCSecureChannel --------------------------
(* The viewer's threads: the user interface presses, the ping loop sends and,   *)
(* like the host's event loop, may go on after a failed send.                 *)
EXTENDS SecureChannel, TLC
=============================================================================
