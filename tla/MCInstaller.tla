------------------------------ MODULE MCInstaller -----------------------------
(* Installer with the installations and files that take every branch.        *)
EXTENDS Installer

MCContents == {Absent, {"x"}, {"y", Ours}, {Bad}}
MCWants == {{"codex", "claude", "apply"}, {"codex"}, {"claude", "apply"}}
===============================================================================
