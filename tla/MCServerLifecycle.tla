-------------------------- MODULE MCServerLifecycle --------------------------
(* A small instance of ServerLifecycle for TLC. *)
EXTENDS ServerLifecycle, TLC

CONSTANTS c1, c2, c3

\* One caller starts the server, two stop it; or two start it, one stops it.
ThreeCallers ==
  c1 :> {"Start", "Run"} @@ c2 :> {"Shutdown", "Start"} @@ c3 :> {"Stop"}
=============================================================================
