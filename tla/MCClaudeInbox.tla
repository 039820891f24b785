---------------------------- MODULE MCClaudeInbox ----------------------------
(* Instances of ClaudeInbox for TLC: Inbox.cfg gives the constants. *)
EXTENDS ClaudeInbox
==============================================================================
