------------------------------ MODULE MCHistory -------------------------------
(***************************************************************************)
(* What is read of the state directory over several steps, for TLC: pages  *)
(* and catalogs (History), the list of bridge_status (SenderLedger) and    *)
(* the owner of a lock (LockOwner).  The three share no state, so each     *)
(* behaviour is one of a single reader: `part` says which, and the others  *)
(* stay as they began.                                                     *)
(***************************************************************************)
EXTENDS History, SenderLedger, LockOwner, TLC

VARIABLE part

\* History with two sessions, of which pages show the first.
MCHolds == [p \in Projects |-> {[session |-> "a", activity |-> 2]}]
MCRoutes == [kind \in {"pages", "catalog"} |-> IF kind = "pages" THEN {"a", "b", "other"} ELSE {"b", "old", "hosted"}]
MCMaxMessages == [kind \in {"pages", "catalog"} |-> IF kind = "pages" THEN 3 ELSE 2]

MCPlatforms == {"win32", "darwin", "linux"}
Servers == Permutations(Server)

ReadersInit ==
    /\ part \in {"history", "list", "owner"}
    /\ Init /\ SenderInit /\ OwnerInit
    /\ part = "owner" \/ platform = "linux"
    /\ part = "history" \/ (present /\ req.kind = "pages" /\ tree.top # None)

ReadersNext ==
    /\ UNCHANGED part
    /\ \/ part = "history" /\ Next /\ UNCHANGED <<senderVars, ownerVars>>
       \/ part = "list" /\ SenderNext /\ UNCHANGED <<vars, ownerVars>>
       \/ part = "owner" /\ OwnerNext /\ UNCHANGED <<vars, senderVars>>

ReadersSpec == ReadersInit /\ [][ReadersNext]_<<part, vars, senderVars, ownerVars>>
==============================================================================
