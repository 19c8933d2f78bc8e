---------------------------- MODULE MCBoundedRead ----------------------------
(* Small instances of BoundedRead for TLC. *)
EXTENDS BoundedRead

Calls == {"open", "stat", "read", "utf8", "close"}
=============================================================================
