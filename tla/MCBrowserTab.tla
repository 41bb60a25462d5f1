---------------------------- MODULE MCBrowserTab ----------------------------
(* Instances of BrowserTab for TLC. *)
EXTENDS BrowserTab
=============================================================================
