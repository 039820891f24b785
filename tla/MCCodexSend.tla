----------------------------- MODULE MCCodexSend -----------------------------
(* Instances of CodexSend for TLC: Codex.cfg gives the constants. *)
EXTENDS CodexSend

\* Three endpoints are enough to drop one: the last launch has one task only.
Endpoints == {host \in Host : host.pipe < MaxLaunches \/ host.task = CHOOSE t \in Task : TRUE}
FewNext == Next /\ \A p \in Publisher : draft'[p] # NoDraft => draft'[p].host \in Endpoints
FewSpec == Init /\ [][FewNext]_vars /\ Fairness
==============================================================================
