------------------------------- MODULE History --------------------------------
(***************************************************************************)
(* What the conversation panel reads: pages of the messages one Codex task *)
(* exchanged with a Claude session (lib/bridge-history.mjs) and the list   *)
(* of the Claude sessions with what they last did (lib/claude-history.mjs).*)
(*                                                                         *)
(* Nothing of it is locked.  While a request goes from file to file, sends *)
(* replace the ledgers, new messages come in between two pages (with any   *)
(* time: a clock may be set), and directories are removed, made, and       *)
(* replaced by others, never by the one that was there before.  Sessions   *)
(* and tasks write only ledgers of their own (recordMessage).              *)
(***************************************************************************)
EXTENDS Naturals, Sequences, FiniteSets, SequencesExt

CONSTANTS
    Sessions,    \* the Claude sessions
    Selected,    \* the one whose pages are read
    Projects,    \* the project directories below ~/.claude/projects
    Limit,       \* messages of a page
    MaxLedgers,  \* ledgers of a scan (1024)
    Ids,         \* ids of the messages of a page
    Times,       \* values of createdAt and of the last activity
    Routes,      \* the routes of the messages that are sent, by what is asked for
    Live,        \* the sessions in Claude's registry
    Holds,       \* the metadata in the project directories at first
    MaxMessages, \* messages in the state directory, by what is asked for (a bound on runs)
    MaxReplaced  \* replaced directories (a bound on runs)

\* A message goes to or comes from a session, or names a host ("hosted"), or goes to
\* another task ("other"), or is of an older version, without a route ("old").
ASSUME SessionsAssumption ==
    /\ Selected \in Sessions /\ IsFiniteSet(Sessions) /\ Sessions \cap {"owner", "none", "hosted", "other", "old"} = {}
    /\ Routes \in [{"pages", "catalog"} -> SUBSET (Sessions \cup {"hosted", "other", "old"})]
ASSUME BoundsAssumption == /\ {Limit, MaxLedgers} \subseteq Nat \ {0} /\ Times \subseteq Nat \ {0} /\ Ids \subseteq Nat
                           /\ MaxMessages \in [{"pages", "catalog"} -> Nat]
ASSUME HoldsAssumption == Live \subseteq Sessions
                          /\ Holds \in [Projects -> SUBSET [session : Sessions, activity : Times]]

VARIABLES
    root,       \* which directory is the state directory, or was the last one
    present,    \* it is there
    ledger,     \* the ledgers in it: of the task ("owner") and of each session
    tree,       \* which directories hold Claude's projects, if any, with their contents
    req,        \* the request being answered
    walk        \* what its caller wants to know (not part of the system)

vars == <<root, present, ledger, tree, req, walk>>

Ledgers == {"owner"} \cup Sessions
None == 0

\* Pages are made of the ledgers of the task and of one session.
Scanned == {"owner"} \cup (IF req.kind = "pages" THEN {Selected} ELSE Sessions)

Idle == [kind |-> "pages", pc |-> "ask", root |-> 0, left |-> {}, file |-> "none", fresh |-> FALSE, text |-> {},
         records |-> {}, warned |-> FALSE, cursor |-> <<>>,
         top |-> 0, unread |-> Projects, opened |-> [p \in Projects |-> None], project |-> None,
         values |-> {}, live |-> {}, merged |-> {}, result |-> <<>>]

Init ==
    /\ root = 1 /\ present \in BOOLEAN
    /\ ledger = [l \in Ledgers |-> {}]
    /\ req \in {[Idle EXCEPT !.kind = k] : k \in {"pages", "catalog"}}
    /\ \E top \in {None, 1} : tree = [top |-> top, dir |-> [p \in Projects |-> 1], holds |-> Holds]
    /\ walk = [existed |-> {}, shown |-> <<>>, clean |-> TRUE, current |-> <<>>]

------------------------------------------------------------------------------
(* What happens meanwhile, until the answer is complete.  (In which order   *)
(* ids come matters to pages only.)                                         *)

Sent == UNION {ledger[l] : l \in Ledgers}

\* The file that the request looked at is replaced by another one.
Replaced(l) == IF req.file = l THEN [req EXCEPT !.fresh = FALSE] ELSE req

\* recordMessage: the ledger has a message more, under its route and id.
Send(l) ==
    /\ req.pc # "done" /\ l \in Scanned /\ present
    /\ Cardinality(Sent) < MaxMessages[req.kind] \div root
    /\ \E id \in IF req.kind = "pages" THEN Ids ELSE {Cardinality(Sent) + 1},
          at \in Times, route \in Routes[req.kind] :
          /\ IF l = "owner" THEN route # "other" ELSE route \in {l, "hosted", "other", "old"}
          /\ \A m \in ledger[l] : m.id # id \/ m.route # route
          /\ ledger' = [ledger EXCEPT ![l] = @ \cup {[of |-> l, id |-> id, at |-> at, route |-> route, root |-> root]}]
    /\ req' = Replaced(l)
    /\ UNCHANGED <<root, present, tree, walk>>

\* finishMessage and other updates: the same messages in a new file.
Rewrite(l) ==
    /\ req.fresh /\ req' = Replaced(l)
    /\ UNCHANGED <<root, present, ledger, tree, walk>>

Replacements == FoldFunction(LAMBDA d, n : d - 1 + n, root - 1 + Max({tree.top, 1}) - 1, tree.dir)
Replacing == req.pc # "done" /\ Replacements < MaxReplaced

\* The state directory is removed, and another one may be in its place.
ReplaceRoot ==
    /\ Replacing /\ present
    /\ root' = root + 1 /\ present' \in BOOLEAN
    /\ ledger' = [l \in Ledgers |-> {}]
    /\ UNCHANGED <<tree, req, walk>>

\* The first message, or the first after a removal, makes the directory.
MakeRoot ==
    /\ req.pc # "done" /\ ~present /\ present' = TRUE
    /\ UNCHANGED <<root, ledger, tree, req, walk>>

\* Another directory takes the place of a project's, or of the one above them.
ReplaceProject ==
    /\ req.kind = "catalog" /\ Replacing
    /\ \E p \in Projects : tree' = [tree EXCEPT !.dir[p] = @ + 1, !.holds[p] = {}]
    /\ UNCHANGED <<root, present, ledger, req, walk>>

ReplaceTree ==
    /\ req.kind = "catalog" /\ Replacing
    /\ tree' = [tree EXCEPT !.top = @ + 1, !.holds = [p \in Projects |-> {}]]
    /\ UNCHANGED <<root, present, ledger, req, walk>>

------------------------------------------------------------------------------
(* scanBridgeExchange *)

At(pc) == req.pc = pc
Go(r) == req' = r /\ UNCHANGED <<root, present, ledger, tree>>
To(pc, r) == [r EXCEPT !.pc = pc]
Warned(r) == [r EXCEPT !.warned = TRUE]

\* The state directory is another one, or cannot be read: nothing is returned.
Nothing == Warned([To("scanned", req) EXCEPT !.records = {}, !.left = {}, !.file = "none", !.fresh = FALSE, !.text = {}])
\* Mutant of RootChanged: the directory is only looked up by its name.
RootUnchecked == FALSE

RootChanged == ~present \/ root # req.root
Onward == [To("stat", req) EXCEPT !.file = "none", !.fresh = FALSE, !.text = {}]
Skipped == Warned(Onward)

\* directorySnapshot: a state directory that is not there has no messages.
Begin ==
    /\ At("begin")
    /\ IF present THEN Go([To("list", req) EXCEPT !.root = root]) \/ Go(Nothing)
       ELSE Go(To("scanned", req))
    /\ UNCHANGED walk

Relevant == {l \in Scanned : ledger[l] # {}}

\* The task's own ledger is not among those that are left out if there are too many.
List ==
    /\ At("list")
    /\ \/ Go(Nothing)
       \/ /\ ~RootChanged
          /\ \E kept \in SUBSET Relevant :
                /\ \/ kept = Relevant /\ Cardinality(kept) <= MaxLedgers
                   \/ kept # Relevant /\ Cardinality(kept) = MaxLedgers
                /\ "owner" \in Relevant => "owner" \in kept
                /\ LET r == [To("stat", req) EXCEPT !.left = kept] IN
                   Go(IF kept # Relevant THEN Warned(r) ELSE r)
    /\ UNCHANGED walk

\* safeLedger: the file is looked at, read, and looked at again; one that is too
\* long, cannot be read or was replaced in between is skipped.  The task's own is
\* the first, the others come in the order of their names, which are hashes.
Stat ==
    /\ At("stat")
    /\ \E l \in req.left :
          /\ "owner" \in req.left => l = "owner"
          /\ IF RootChanged THEN Go(Nothing)
             ELSE \/ Go(Warned([req EXCEPT !.left = @ \ {l}]))
                  \/ /\ ledger[l] # {}
                     /\ Go([To("read", req) EXCEPT !.left = @ \ {l}, !.file = l, !.fresh = TRUE])
    /\ UNCHANGED walk

Read ==
    /\ At("read")
    /\ Go(CASE RootChanged -> Nothing
            [] ~RootChanged /\ ~req.fresh -> Skipped
            [] OTHER -> [To("check", req) EXCEPT !.text = ledger[req.file]])
    /\ UNCHANGED walk

\* selectedRoute: between the task and, for a page, its session, and in the ledger of
\* the one that sent it.
Belongs(m) == /\ m.route \in IF req.kind = "pages" THEN {Selected} ELSE Sessions
              /\ m.of \in {"owner", m.route}

Check ==
    /\ At("check")
    /\ Go(CASE RootChanged -> Nothing
            [] ~RootChanged /\ ~req.fresh -> Skipped
            [] OTHER -> LET r == [Onward EXCEPT !.records = @ \cup {m \in req.text : Belongs(m)}] IN
                        IF /\ req.file = "owner" \/ req.kind = "pages"
                           /\ \E m \in req.text : m.route = "old"
                        THEN Warned(r) ELSE r)
    /\ UNCHANGED walk

EndScan ==
    /\ At("stat") /\ req.left = {}
    /\ Go(IF RootChanged THEN Nothing ELSE To("scanned", req))
    /\ UNCHANGED walk

------------------------------------------------------------------------------
(* getBridgeConversation: one page after the other, from the newest *)

\* A message's place among the others: its time, then its direction and id.
Key(m) == <<m.at, IF m.of = "owner" THEN 0 ELSE 1, m.id>>
Precedes(a, b) ==
    \/ a[1] < b[1]
    \/ a[1] = b[1] /\ a[2] < b[2]
    \/ a[1] = b[1] /\ a[2] = b[2] /\ a[3] < b[3]

\* The messages that the task and a session exchanged.
Between(s) == {m \in ledger["owner"] \cup ledger[s] : m.route = s}

AskPage ==
    /\ At("ask") /\ req.kind = "pages"
    /\ Go(To("begin", req))
    /\ walk' = IF req.cursor # <<>> THEN walk ELSE [walk EXCEPT !.existed = Between(Selected)]

\* Mutant of Eligible: the cursor is only the time.
EligibleByTime == {m \in req.records : req.cursor = <<>> \/ m.at < req.cursor[1]}

Eligible == {m \in req.records : req.cursor = <<>> \/ Precedes(Key(m), req.cursor)}

\* Messages from the newest to the oldest.
NewestFirst(messages) ==
    LET n == Cardinality(messages) IN
    CHOOSE s \in [1..n -> messages] : \A i, j \in 1..n : i < j => Precedes(Key(s[j]), Key(s[i]))

\* As many of the newest as there is room for, but always one.
Page ==
    /\ At("scanned") /\ req.kind = "pages"
    /\ LET sorted == NewestFirst(Eligible) IN
       \E n \in 0..Limit :
          /\ n <= Len(sorted) /\ (n = 0 => sorted = <<>>)
          /\ LET r == [req EXCEPT !.records = {}, !.warned = FALSE] IN
             Go(IF n < Len(sorted) THEN [To("ask", r) EXCEPT !.cursor = Key(sorted[n])] ELSE To("done", r))
          /\ walk' = [walk EXCEPT !.shown = @ \o SubSeq(sorted, 1, n),
                                  !.clean = @ /\ ~req.warned]

------------------------------------------------------------------------------
(* listClaudeConversations *)

TreeChanged == req.top # None /\ tree.top # req.top

\* The directory above the projects is looked up; if it is not there, or cannot be
\* read, nothing is known of them.
AskCatalog ==
    /\ At("ask") /\ req.kind = "catalog"
    /\ LET r == To("projects", req)
           none == [r EXCEPT !.unread = {}] IN
       IF tree.top = None THEN Go(none) ELSE Go([r EXCEPT !.top = tree.top]) \/ Go(Warned(none))
    /\ walk' = [walk EXCEPT !.existed = UNION {Between(s) : s \in Sessions}]

\* directoryIdentity, then historyMetadata of each file and verifyDirectory: what
\* was read is kept if the directory is still the one that was opened.
OpenProject(p) ==
    /\ At("projects") /\ p \in req.unread
    /\ LET r == [req EXCEPT !.unread = @ \ {p}] IN
       \/ ~TreeChanged /\ Go([To("project", r) EXCEPT !.opened[p] = tree.dir[p], !.project = p])
       \/ Go(Warned(r))
    /\ UNCHANGED walk

\* There are too many projects, or they cannot be listed any further.
LeaveProjects ==
    /\ At("projects") /\ req.unread # {}
    /\ Go(Warned([req EXCEPT !.unread = {}]))
    /\ UNCHANGED walk

SameProject(p) == ~TreeChanged /\ tree.dir[p] = req.opened[p]

\* Once the budget is used up, the other projects are left out and nothing is said.
ReadProject ==
    /\ At("project")
    /\ \E unread \in {req.unread, {}} :
          LET p == req.project
              back == [To("projects", req) EXCEPT !.unread = unread] IN
          \/ Go(Warned([back EXCEPT !.opened[p] = None]))
          \/ /\ SameProject(p)
             /\ \E read \in SUBSET tree.holds[p] :
                   LET r == [back EXCEPT !.values = @ \cup {[project |-> p, dir |-> <<tree.top, tree.dir[p]>>, of |-> v] : v \in read}] IN
                   Go(IF read # tree.holds[p] THEN Warned(r) ELSE r)
    /\ UNCHANGED walk

\* discoverClaudeSessions passes over a session whose record it cannot read.
Discover ==
    /\ At("projects") /\ req.unread = {}
    /\ \E found \in SUBSET Live :
          LET r == [To("begin", req) EXCEPT !.live = found] IN Go(r) \/ Go(Warned(r))
    /\ UNCHANGED walk

\* What was read is used only if its directory is still in place after the scan.
CheckTree ==
    /\ At("scanned") /\ req.kind = "catalog"
    /\ Go(IF TreeChanged THEN Warned(To("join", req)) ELSE To("merge", req))
    /\ walk' = [walk EXCEPT !.current = [p \in Projects |-> <<tree.top, tree.dir[p]>>]]

\* Mutant of Merge: the directory is not looked at again.
MergeUnchecked(p) ==
    /\ At("merge") /\ req.opened[p] # None
    /\ Go([req EXCEPT !.opened[p] = None, !.merged = @ \cup {v \in req.values : v.project = p}])
    /\ UNCHANGED walk

Merge(p) ==
    /\ At("merge") /\ req.opened[p] # None
    /\ LET r == [req EXCEPT !.opened[p] = None] IN
       Go(IF SameProject(p) THEN [r EXCEPT !.merged = @ \cup {v \in req.values : v.project = p}] ELSE Warned(r))
    /\ UNCHANGED walk

CheckTreeAgain ==
    /\ At("merge") /\ \A p \in Projects : req.opened[p] = None
    /\ Go(IF TreeChanged THEN Warned([To("join", req) EXCEPT !.merged = {}]) ELSE To("join", req))
    /\ UNCHANGED walk

\* Live sessions, those with metadata and those that exchanged messages, each
\* with its latest activity and its latest contact.
Join ==
    /\ At("join")
    /\ LET activity(s) == {v.of.activity : v \in {v \in req.merged : v.of.session = s}}
           contact(s) == {m.at : m \in {m \in req.records : m.route = s}}
           listed == {s \in Sessions : s \in req.live \/ activity(s) \cup contact(s) # {}} IN
       Go([To("done", req) EXCEPT !.result = [s \in listed |->
              [live |-> s \in req.live, activity |-> Max(activity(s) \cup {None}),
               contact |-> Max(contact(s) \cup {None})]]])
    /\ walk' = [walk EXCEPT !.clean = ~req.warned]

------------------------------------------------------------------------------
Answer ==
    \/ Begin \/ List \/ Stat \/ Read \/ Check \/ EndScan
    \/ AskPage \/ Page
    \/ AskCatalog \/ (\E p \in Projects : OpenProject(p)) \/ LeaveProjects \/ ReadProject \/ Discover
    \/ CheckTree \/ (\E p \in Projects : Merge(p)) \/ CheckTreeAgain \/ Join

Next ==
    \/ \E l \in Ledgers : Send(l) \/ Rewrite(l)
    \/ ReplaceRoot \/ MakeRoot \/ ReplaceProject \/ ReplaceTree
    \/ Answer

Spec == Init /\ [][Next]_vars

------------------------------------------------------------------------------
\* Whatever is saved between two pages, a walk over the pages goes from newer to
\* older messages of the pair, each from the ledger of its sender, and shows none
\* twice; and a walk that came to its end without a warning has shown every message
\* that existed when it began and still exists.  (If the state directory is removed
\* or replaced between two pages nothing is said, and the messages in it are gone.)
\* (getBridgeConversation, scanBridgeExchange.)
WalkIsExact ==
    /\ \A i \in DOMAIN walk.shown :
          /\ walk.shown[i].route = Selected /\ walk.shown[i].of \in {"owner", Selected}
          /\ \A j \in 1..i - 1 : Precedes(Key(walk.shown[i]), Key(walk.shown[j]))
    /\ req.kind = "pages" /\ At("done") /\ walk.clean =>
          walk.existed \cap Between(Selected) \subseteq Range(walk.shown)

\* No record of one answer is from a directory that was replaced before the scan
\* began to be answered, or from two of them (assertDirectory, rootChanged).
OneRoot == \A m \in req.records : m.root = req.root

\* The catalog uses metadata only of directories that were still in place when
\* the whole scan was over; without a warning it lacks no session that the task had
\* exchanged a message with when it was asked, if that message still exists, and
\* dates the last contact no earlier (listClaudeConversations).
CatalogIsTrue ==
    /\ \A v \in req.merged : v.dir = walk.current[v.project]
    /\ req.kind = "catalog" /\ At("done") /\ walk.clean =>
          \A s \in Sessions : \A m \in walk.existed \cap Between(s) :
             s \in DOMAIN req.result /\ req.result[s].contact >= m.at

==============================================================================
