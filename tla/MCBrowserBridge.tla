-------------------------- MODULE MCBrowserBridge --------------------------
(* A small instance of BrowserBridge for TLC: two CLIs whose requests have   *)
(* the same JSON-RPC id.                                                     *)
EXTENDS BrowserBridge, TLC

CONSTANTS c1, c2, k1, k2

TwoCalls == {c1, c2}
TwoClients == {k1, k2}
Each == c1 :> k1 @@ c2 :> k2
OneId == {1}
SameId == c1 :> 1 @@ c2 :> 1
=============================================================================
