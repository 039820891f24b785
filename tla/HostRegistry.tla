----------------------------- MODULE HostRegistry -----------------------------
(***************************************************************************)
(* The registry of Codex Desktop endpoints, lib/codex-host.mjs: which pipe  *)
(* and which task a sender may use.  The bridge servers of Codex tasks      *)
(* publish into it under the state lock (StateLock); senders read it with   *)
(* no lock, against a file that is replaced meanwhile.  A record outlives   *)
(* the Desktop it names, and a server the Desktop that started it.          *)
(***************************************************************************)
EXTENDS Naturals, Sequences, SequencesExt

CONSTANTS
    Publisher,      \* the bridge servers of Codex Desktop tasks
    Task,           \* the tasks
    MaxHosts,       \* how many records the registry keeps (MAX_HOSTS)
    MaxLaunches,    \* how often Codex Desktop is started (a bound on runs)
    MaxPublished,   \* how often the registry is replaced (a bound on runs)
    NoDraft         \* a publisher that is not at work

ASSUME BoundsAssumption ==
    MaxHosts \in Nat \ {0} /\ MaxLaunches \in Nat /\ MaxPublished \in Nat

\* A launch has a pipe of its own, so its number stands for the pipe.
Host == [pipe : 1..MaxLaunches, task : Task]
Hosts == BoundedSeq(Host, MaxHosts)
Draft == [host : Host, prior : Hosts]

ASSUME NoDraftAssumption == NoDraft \notin Draft

VARIABLES
    launched,   \* how often Desktop was started
    running,    \* the launches that still run
    draft,      \* draft[p]: what p has read under the lock and adds to it
    registry,   \* the records in the file, latest first
    published   \* all records in the order they were published; its length
                \* tells one file from the file that replaces it

registryVars == <<launched, running, draft, registry, published>>

RegistryTypeOK ==
    /\ launched \in 0..MaxLaunches
    /\ running \subseteq 1..launched
    /\ draft \in [Publisher -> Draft \cup {NoDraft}]
    /\ registry \in Hosts
    /\ published \in Seq(Host) /\ Len(published) <= MaxPublished

RegistryInit ==
    /\ launched = 0 /\ running = {}
    /\ draft = [p \in Publisher |-> NoDraft]
    /\ registry = <<>>
    /\ published = <<>>

------------------------------------------------------------------------------
Launch ==
    /\ launched < MaxLaunches
    /\ launched' = launched + 1
    /\ running' = running \cup {launched'}
    /\ UNCHANGED <<draft, registry, published>>

Quit ==
    /\ \E l \in running : running' = running \ {l}
    /\ UNCHANGED <<launched, draft, registry, published>>

\* Mutant of PublishBegin: the registry is read before the lock is taken.
PublishBeginUnlocked(p) ==
    /\ draft[p] = NoDraft
    /\ \E l \in 1..launched, t \in Task :
          draft' = [draft EXCEPT ![p] = [host |-> [pipe |-> l, task |-> t], prior |-> registry]]
    /\ UNCHANGED <<launched, running, registry, published>>

\* publishCodexHost takes the lock and reads the records there are.
PublishBegin(p) ==
    /\ \A q \in Publisher : draft[q] = NoDraft
    /\ \E l \in 1..launched, t \in Task :
          draft' = [draft EXCEPT ![p] = [host |-> [pipe |-> l, task |-> t], prior |-> registry]]
    /\ UNCHANGED <<launched, running, registry, published>>

\* A registry has a record once (RegistryIsRecent), so the filter drops one at most.
Without(records, host) ==
    IF host \in ToSet(records)
    THEN RemoveAt(records, CHOOSE i \in DOMAIN records : records[i] = host)
    ELSE records

\* The new record first, the others behind it, without its own former one; the
\* oldest are dropped to keep the number and the size of the records in bounds.
Candidates(d) == <<d.host>> \o Without(d.prior, d.host)
Cuts(candidates) ==
    {SubSeq(candidates, 1, n) : n \in 1..(IF Len(candidates) < MaxHosts THEN Len(candidates) ELSE MaxHosts)}

\* The file is replaced and the lock released.
PublishReplace(p) ==
    /\ draft[p] # NoDraft /\ Len(published) < MaxPublished
    /\ registry' \in Cuts(Candidates(draft[p]))
    /\ published' = Append(published, draft[p].host)
    /\ draft' = [draft EXCEPT ![p] = NoDraft]
    /\ UNCHANGED <<launched, running>>

\* The file cannot be written, or is not replaced in time; or the server ends.
PublishFails(p) ==
    /\ draft[p] # NoDraft
    /\ draft' = [draft EXCEPT ![p] = NoDraft]
    /\ UNCHANGED <<launched, running, registry, published>>

RegistryNext ==
    \/ Launch \/ Quit
    \/ \E p \in Publisher : PublishBegin(p) \/ PublishReplace(p) \/ PublishFails(p)

------------------------------------------------------------------------------
\* When a record was published last; 0 if never.
LastPublished(host) == Max({i \in DOMAIN published : published[i] = host} \cup {0})

\* The registry holds the records published last, each once and latest first,
\* whatever servers publish at the same time, fail or give up: a Desktop that was
\* registered is forgotten only for records that are newer than its own.
RegistryIsRecent ==
    /\ \A i, j \in DOMAIN registry : i < j => LastPublished(registry[i]) > LastPublished(registry[j])
    /\ published # <<>> => registry # <<>> /\ Head(registry) = Last(published)
    /\ \A host \in ToSet(published) \ ToSet(registry) :
          LastPublished(host) < LastPublished(Last(registry))

==============================================================================
