--------------------------- MODULE MCTerminalSend ----------------------------
(* Instances of TerminalSend for TLC: Terminal.cfg gives the constants. *)
EXTENDS TerminalSend
==============================================================================
