# Verification of the Codex–Claude desktop bridge

TLA+ models of the bridge in `src/`, checked with TLC on small instances, and
theorems about them that TLAPS proves for every size. Paths below are relative
to `src/`.

Contents: [the system](#the-system) · [modules](#modules) ·
[correspondence](#correspondence-with-the-code) · [runs](#runs-and-bounds) ·
[disagreements](#disagreements-with-the-repository) · [proofs](#proofs) ·
[not modelled](#not-modelled) · [plan](#plan)

## The system

The bridge lets a Codex task and a Claude Code session send each other visible
messages. Each application starts its own MCP server process
(`scripts/mcp.mjs`); the servers share nothing but files in a state directory
and know nothing of each other. They may be killed at any time.

```
 panel (ui/bridge.html)      Codex / Claude
          \                     /            one MCP server per client:
           +--- stdio, JSON-RPC             scripts/mcp.mjs
                      |
        lib/desktop-service.mjs <----- lib/manual-service.mjs
             |            |                   |
     lib/store.mjs     transports        lib/store.mjs (lock)
   (delivery ledger)      |              manual ledger
             |            +-- claude-desktop.mjs   Claude inbox socket
        files, lock       +-- codex-desktop.mjs    Codex Desktop pipe
                          +-- codex-daemon.mjs     Codex daemon, `codex queue`
                          +-- codex-ssh.mjs        remote app server
```

| Component | State | Operations | Hard parts | Correct if |
|---|---|---|---|---|
| State lock and state file (`lib/store.mjs`) | `state.lock`, `state.lock.recovery`, `state.json`, cached start times | `withLock`, `update`, `lockOwnerAlive` | several processes and file operations that interleave; owners that die; two processes that recover the same stale lock; sharing violations; a deadline | one process at a time is inside; only stale locks are removed; acknowledged updates stay; a waiting process ends; no live owner is judged dead, also after its process id was used before |
| Delivery ledger and sends (`recordMessage`, `finishMessage`, `executeBridgeTool`) | a record per message id | make the ledger; send; repeat an id; `bridge_status` | crash between record, write and outcome; repeats at other servers; two servers that make the ledger; saves that fail; unknown outcomes | at most one write per id; failures and successes are true and final; a list lacks nothing |
| Manual sends (`lib/manual-service.mjs`) | a manual record per id, beside the delivery record | `manualSend`, `retryManualNotice` | two ledgers without a common lock; notice after send; retries; catch blocks that save | one write, at most one notice that may have arrived; no notice without a send, unless manual and automatic calls use an id at the same time |
| MCP server (`scripts/mcp.mjs`) | table of outstanding requests, promise chain | requests, pings, cancellations, end of input, signals | cancellation while queued or running; ids used again; shutdown with work left | one reply each, none after a cancellation; no id stays taken; input that ends is worked off |
| Codex terminal (`lib/codex-daemon.mjs`) | a connection per call, requests in flight | start a turn, steer a turn, queue | the thread changes between read and write; late answers; second attempt | no double delivery; truthful outcome; always an outcome |
| Claude inbox (`lib/claude-desktop.mjs`) | one socket per send, session registry files | resolve, verify, write | order of connect, finish, end, close, abort, timeout; conversation switched behind the socket | only the right session is written to; an error before the write is a failure, after it unknown |
| Codex Desktop pipe (`lib/codex-desktop.mjs`) | one socket per request | list, send | the same; answers that arrive after the timeout | the same |
| Codex SSH (`lib/codex-ssh.mjs`) | one child per call | list, send | target busy between read and start | the same |
| WebSocket framing (`lib/ws-jsonrpc.mjs`) | buffered bytes, fragments | push a chunk | arbitrary chunks, control frames in between, size limits | messages as they were framed; chunking matters at two limits only |
| Host registry (`lib/codex-host.mjs`) | one file of endpoints | publish, read | concurrent publishers, caps | the newest endpoint first, no other lost |
| Histories (`lib/bridge-history.mjs`, `lib/claude-history.mjs`) | none; cursors at the client | read a page, list the sessions | messages saved and directories replaced in between, without a lock | no message repeated, none skipped without a warning |
| Panel (`ui/bridge.html`) | drafts, pending sends, caches | send, retry, poll, select | late answers | a click is one message id; nothing is shown for the wrong conversation |
| Installer (`scripts/install.mjs`) | files in the home directory | prepare, install, undo | failure half-way, also of the undoing; other programs that write | what was installed is kept, others' settings too |

The helpers (`codex-binary`, `codex-peer`, `codex-settings`, `local-socket`,
`claude-process`), manifests and packaging keep no state. `compatibility/native`
is a generated copy of `lib`, `scripts` and `ui`; what is said of the originals
holds for it.

## Modules

| Module | Models | Relation |
|---|---|---|
| `AtomicUpdates` | what a user of the state file may rely on | abstract |
| `StateLock` | `withLock`, `update` of `lib/store.mjs` | implements `AtomicUpdates` |
| `LockOwner` | `lockOwner`, `lockOwnerAlive` and the probes of process ids and start times | what `StateLock!Verdicts` takes for granted |
| `OneDelivery` | what the bridge promises about a message id | abstract |
| `Delivery` | `recordMessage`, `finishMessage`, the send path of `executeBridgeTool` | implements `OneDelivery`; a ledger operation is one step of `AtomicUpdates` |
| `SenderLedger` | `senderLedger`, `createSession`, `getMessages`: the ledger's making, and `bridge_status` | beside `Delivery`, for fresh ids |
| `ManualSend` | `lib/manual-service.mjs` | extends `Delivery`: the steps of the inner send are `Delivery`'s own |
| `McpServer` | `runMcpServer` of `scripts/mcp.mjs` | – |
| `TerminalSend` | `resolveTerminalTarget`, the terminal route of `lib/codex-daemon.mjs` and its fallback | implements `OneDelivery` |
| `ClaudeInbox` | `resolveClaudeSession`, `resolveClaudeCaller`, `sendToClaude` of `lib/claude-desktop.mjs` | implements `OneDelivery` |
| `HostRegistry` | `lib/codex-host.mjs` | publishers hold the lock that `StateLock` models |
| `CodexSend` | the local and the remote route to a Codex task: `hostFor`, `lib/codex-desktop.mjs`, `lib/codex-ssh.mjs` | extends `HostRegistry`; implements `OneDelivery` |
| `Framing` | the four receivers of bytes: `lib/ws-jsonrpc.mjs`, and those in `codex-ssh`, `codex-desktop`, `mcp` | checked against what was sent |
| `History` | `lib/bridge-history.mjs`, `lib/claude-history.mjs` | checked against what was there |
| `Installer` | `scripts/install.mjs` | edits under the lock that `StateLock` models |
| `StateLockProofs`, `LedgerProofs`, `IntakeProofs`, `TerminalSendProofs`, `ClaudeInboxProofs`, `CodexSendProofs`, `HistoryProofs`, `InstallerProofs` | – | theorems about the module of that name; `StateLockProofs` also about `LockOwner`, `CodexSendProofs` also about `HostRegistry`, `LedgerProofs` about the two ledgers, `Delivery` and `ManualSend`, and `IntakeProofs` about what comes in, `McpServer` and `Framing` |
| `MC...` | – | symmetry, starting points and inputs for TLC |

The layers fit as follows. `StateLock` shows, at the level of file operations,
that an update happens at once or not at all, that it may report an error in
either case, and that acknowledged updates are kept. `Delivery`, `ManualSend`,
`HostRegistry` and `Installer` take exactly this as the meaning of what is done
under the lock: every save has an outcome "saved", "saved but an error was
reported" and "not saved". `Delivery` in turn assumes of a transport that it
fails before the write, or writes and then ends with a success, a certain
refusal or an unknown outcome. Each of the four routes is shown to do so, as
`OneDelivery` again: `TerminalSend` for the one that tries twice, `ClaudeInbox`
for the one whose receiver confirms nothing, `CodexSend` for the local pipe and
the remote host. `Framing` is below the routes: they take a message as arrived
or not, and `Framing` shows that this depends on its frames alone, but for two
limits.

Definitions whose comment says *mutant* are wrong versions of the next
definition. They are used by no specification; they are there to show that each
property can fail.

## Correspondence with the code

`PROJECT.json` maps each definition to its lines. The main choices:

**StateLock.** A step is one file operation or one liveness probe of a process
id, and what follows it up to the next. Per process: `pc`, the content last
read (`seen`), and the result of the call. Files: the lock, the recovery guard,
the state. A lock's content is its owner, or `Legacy` for the format of older
versions that names no process. `Expire` is the deadline, `Contention` a sharing
violation (`EPERM`, `EACCES`, `EBUSY`, Windows only), `FileError` any other
error, `Exit` the end of the process at any step. The random token of a lock is
its owner: one process holds at most one lock at a time, and no pid is used
twice. The state is the set of updates it contains. A probe of a live owner says
"alive", one of a dead owner either (`Verdicts`): `LockOwner` shows why.

**LockOwner.** The processes of one id follow one another; a lock names one of
them by its place in the order (`life`). Another process judges the lock:
`ReadLock`, `ProbeId` (`process.kill(pid, 0)`), on Windows `ProbeAge` and the
cached start of the id, `Ask` and `ReadStart` (PowerShell, `ps`). `Compare` holds the
three rules: Windows within five seconds, macOS the same second, macOS without a
recorded start by the time of the lock. Time is a number that all read.

**Delivery.** A *server* is a call-at-a-time process; more servers stand for
concurrent calls. `phase` is the place in `executeBridgeTool`. A *text* is what
`recordMessage` compares: direction, text, route and origin. `interruptedSend`
(dead sender, or a record older than a minute) depends on clock and process
table and is a free choice of every repeat. Transport state is history:
`writes`, `wire` (the text written), `refused`, `delivered`; `told` is the set
of answers given to callers.

**SenderLedger.** The ledger is the sequence of its records, or `NoLedger`.
`OpenLedger` is the look without the lock, `CreateLedger` the one under it.
`earlier` is history: what had been answered, and who had exited, when a list was
asked for. Submitted and failed are one status, "settled".

**ManualSend.** `place` is the position in `manualSend` or
`retryManualNotice`; `seen` is the delivery record as `originalMessage` last
read it, which may be stale when it is used. The inner call runs by
`Delivery`'s actions on the same variables. `notices[k]` counts the notices
that the owner's chat took or may have taken: a certain rejection takes it
back. `mixed` is history: the ids that manual and automatic calls used at the
same time, about which less holds (`ManualRecordIsTrue`, `NoticeIsTrue`, and below).

**McpServer.** A request is the number of its line. `requests`, `queue`,
`running` are the map of outstanding requests, the promise chain and the
handler that waits; code between two awaits is one step. Methods are three:
`initialize`; those answered in one go (`now`); those with an await (`slow`).
Lines that carry no request (unparsable, malformed) get an error with id null
and change nothing; they are left out.

**TerminalSend.** The thread (status, number of the latest turn) belongs to
the daemon and to people who start and end turns. A send has one request in
flight; the daemon answers from the state it is in *then*. The first
connection (`probing`) only reads the thread's status and chooses the route:
leave it to Codex Desktop, decline, queue it, or send it to the daemon. The
message is recorded after that (`Record`), and the second connection reads
again. `Unreachable` is a `DaemonUnavailableError`, `Lost` every other end of a
connection: the code treats them differently only before the record. After a
lost connection a written request may still be taken (`TakeLate`). A busy
thread may take a new turn or refuse it, since the code relies on neither.

**ClaudeInbox.** One call; the Claude processes are the environment. A process is
a number (its start time), and its token is that number too. Record and key file
are written and left behind independently; process ids are used again. Every file
read and the probe of the process is a step of the resolution, which runs before
the message is recorded, again in the `connect` callback (`peer` set), or once to
identify the caller (`caller`), whose conversation is then what the record of the
bridge's parent says. In the callback no timer or cancellation comes in between,
as the code is synchronous, but other processes go on. `Flush` is the operating
system taking the bytes, after which the receiver may read them (`Take`) at any
time, also after the send was given up; `Finish` and `End` are the callbacks.
`Break` stands for timer, cancellation, error and close, which all go to
`finish(error)`. `late` is history: a conversation change after the last check. A
change of conversation and of the process's record is one step (`Switch`): that
Claude leaves no stale record of a process that runs is assumed of it, as the
bridge can only go by the record.

**HostRegistry, CodexSend.** A launch of Codex Desktop is a number and has a pipe
of its own; servers may publish it after it quit. `registry` is the file;
`published` is history and doubles as the identity of the file, which the reader
compares before and after (`Stat`, `Open`, `Verify`). A send picks its route in
`Resolve`, asks the registered endpoints one by one (`Search`), records the
message, and makes its requests: each local one on its own connection (`wire`),
the remote ones on one. `Judge` is the application taking or refusing the message
that was written, also after the sender gave up, and whatever it concluded: what
is written stays with the application (`End`). `Incoming` is what may arrive for
it, the remote host's own requests included.

**Framing.** Bytes are numbers; limits are small. The peer writes its answer to
the upgrade (`Heads`) and then frames, wrong ones included (`Say`). A chunk is any
piece of what was written and has not come (`Chunk`); each turn of a receiver's
loop over what it holds is a step (`Work`), and no chunk comes before the last is
worked off, as the data handlers run to their end. `state` is what a receiver
holds, the unfinished message, and what it handed on. `said` is history: for each
frame, what a reader of frames who sees no bytes has understood so far. An answer
to the upgrade may be longer than its limit, and a chunk may bring the remote
receiver over its own (`overrun`, `lib/codex-ssh.mjs:99`). Masks are
taken off with `ByteXor`, a constant operator of which only two laws are assumed
(`XorAssumption`). Frames of 16 MiB stand for all longer ones: the limits are 8
and 2 MiB. Text is not decoded, and the end of the input is `McpServer`'s.

**History.** A scan is a request that goes from ledger to ledger with one step
per file operation or directory check, in any order, as the code sorts them by a
hash; the task's own comes first. `Selected` is the session whose pages are read.
`walk` is history: a caller that asks for
page after page and remembers what it got. Times may be equal and need not rise,
as a clock may be set. The state directory may be missing at first, and is
removed, made and replaced at any time, never by the one that was there before;
it is looked at where `scanBridgeExchange` does (`Begin`). Sessions write their own
ledgers, the task its own (`recordMessage`), and a ledger holds messages to others,
by hosted routes and of older versions too. The catalog has project directories,
which may be missing or replaced in the same way; it stops reading them when its
budget is used up, without a warning, as the code does.

**Installer.** `destination` is the plugin directory; `pc` is the place in
`prepareInstallation` and what follows. Any step may fail, the removal of the staging
directory included (`uncleaned`), and any may be the last (`crashed`). An entry that
exists is left alone or, in the catalog, written anew. What Claude's installer is
asked to do is one step. A file is the set of what it holds; "bad" stands for all that
the installer refuses. Other programs write the files between any two steps. The
lock of an installer that dies is free again, which is the recovery of
`StateLock`.

## Runs and bounds

| Run | Instance | Shows |
|---|---|---|
| `lock` | 2 running processes with 2 calls and 1, a third that left a lock, a guard, or both; fairness | mutual exclusion, locks removed only when stale, interrupted recoveries stay, acknowledged updates kept, refinement of `AtomicUpdates`, every call returns |
| `lock_probe_race` | 4 processes, one died with the lock; an owner may end during a probe | violation, see below |
| `delivery` | 3 servers, 2 calls each, 1 id, 2 texts | at most one write, recorded before written, true and final outcomes, refinement of `OneDelivery` |
| `manual` | the same, a manual and an automatic text, any overlap | one write and one notice, retry only when safe, records that are true and do not turn |
| `manual_relabels` | the same | violation, see below |
| `mcp` | 5 lines, 2 ids, fairness | one reply each and none after a cancellation, exact table, every request settles |
| `terminal_sends` | 2 sends, 3 turns, fairness | attempts only of untaken messages, refinement of `OneDelivery`, every send ends |
| `inbox` | 2 process ids, 3 processes, 2 conversations, fairness | only the resolved process is written to, another conversation only by a later change, the caller is the parent, refinement of `OneDelivery`, every call ends |
| `codex` | 2 servers publish 3 endpoints of 2 launches into 2 places, up to 3 times, during a send; fairness | the registry keeps the latest, refinement of `OneDelivery`, every send ends |
| `framing` | 4 receivers, 5 answers to the upgrade, 3 frames of 17 kinds, every way to cut them into chunks of 8 | what is reported are the frames' messages, failures are the peer's, but for the two limits; no receiver holds more than its limits |
| `history`, pages and catalogs | pages of 2 over 3 messages of 2 ids, to 2 sessions and another task, or a catalog over 2; 1 replaced directory | a walk is ordered and, without a warning, has all that is still there; one directory per answer; a catalog likewise |
| `history`, lists | 2 servers, 2 calls each, lists of 2 | a list lacks nothing that was answered before, although both make the ledger; nothing is being sent by the dead |
| `history`, owners | 2 processes of one id, 3 platforms, 4 units of time | no live owner is judged dead; a dead one is found unless nothing tells it from its successor |
| `installer` | 2 installers that want 3 combinations, 4 contents of the files, 1 foreign write | the installed plugin is kept, an edit keeps and saves what others wrote |

The run `history` is of all that is read of the state directory over several
steps. Its three readers, `History`, `SenderLedger` and `LockOwner`, share no state,
so `MCHistory` lets each behaviour be one of a single reader (`part`).

Why these bounds are enough to be interesting. Recovery of a lock needs a dead
owner, a process that recovers, and one that comes in between; the probe race
needs a fourth. With one message id and three servers a first send, a repeat that
finds it unfinished and a repeat that conflicts can overlap; ids do not interact,
since a record depends on its own key only. Two calls per server give
repeat-after-failure and a retried notice. Five lines allow a request, its
cancellation, a second use of its id, and a request behind them. Three turns allow
a steer that comes too late followed by a new turn by somebody else and one by the
other send. Three processes allow a restart under the same process id and a second
process that claims the session. Three endpoints for two places make the registry
forget one. Three frames are a fragmented message with a control frame inside; the
kinds include all three length forms, masks, reserved bits, over-long and unknown
frames; the answers to the upgrade are good, refused, endless, and longer than
either receiver's limit. Three messages are two pages, with one that arrives in
between; two ids let one id be used by two routes. Two processes of one id are an owner and a successor that may end, or a process of which the start was read and the owner after it;
a reading that is cached for two units of time outlives either. Two installers, of which either may die,
are a replacement that meets another and one that follows a dead one.

`CHECK_DEADLOCK FALSE` is set wherever calls are bounded or all processes may
exit: such a system rightly stops.

### Fairness

- `StateLock!Fairness`: weak fairness of each process's steps and of its
  deadline (a process that runs reaches its next file operation, and time
  passes); strong fairness of `ReprobeDead`, because the code goes around the
  recovery path with `continue` and looks at the deadline only where it waits:
  a process whose probes always failed to see a dead owner would go around for
  ever. A probe of a dead process answers "dead" unless its id was reused.
  Nobody is forced to make a call, and `Exit` is never forced.
- `McpServer!FairSpec`: weak fairness of the server's steps. Promises run, and
  the executor ends, as each transport and the state lock have a deadline. The
  client owes nothing.
- `TerminalSend!FairSpec`: weak fairness of what Node runs and of the timeouts
  while a connection is opened or a request is open (`openDaemon`, `request`,
  `execFile`). The daemon owes no answer.
- `ClaudeInbox!FairSpec`: weak fairness of synchronous code and of the ten-second
  timer. The inbox, the socket and the Claude processes owe nothing.
- `CodexSend!Fairness`: weak fairness of the process's own steps and of the timer
  that every request has. Desktop, the remote host and the publishers owe nothing.

## Disagreements with the repository

`lock_probe_race` – *code.* The recovery guard serialises those who recover,
but not an owner. Reading the lock, probing its owner and unlinking it
(`lib/store.mjs:224-225`) are three steps: if the owner releases and ends between
the read and the probe, and another process creates the lock, the probe says
"dead" and the new owner's lock is removed. Two processes can then be inside.
`test/store-locks.test.mjs:515` says that recovery "rereads ownership and never
removes a live replacement lock", and `test/store-locks.test.mjs:46` that
"simultaneous crash recovery never unlinks a replacement lock". The run
`lock` and the theorems below hold where no owner ends between another
process's read and probe (`ExitsDuringProbe = FALSE`).

`manual_relabels` – *code.* `manualSend` checks an existing record's origin
once, at the start. If an automatic send of the same id is recorded after that,
the inner send is refused, but the catch block (`lib/manual-service.mjs:261`)
takes any submitted record under the id for its own success. The manual record
and the answer then say "submitted" of a text that was never sent, and a
concurrent repeat may even post the notice.
`test/manual.test.mjs:207` says that manual and automatic messages "cannot
relabel or reuse one another sending origin". Where the calls of an id do not
overlap they cannot: `ManualRecordIsTrue` of run `manual` speaks of the ids that
are not in `mixed`, and so does `NoticeIsTrue` of what a notice says was sent.

One observation that contradicts nothing: a manual record can go from
"submitted" back to "uncertain", when a repeat saw the saved outcome before the
sender, whose own save reported an error. `ManualOutcomeIsFinal` states what
does hold.

## Proofs

`tlapm` checks every leaf of the eight `...Proofs` modules, for any set of
processes, servers, sends, keys, texts, publishers, installations, sessions and directories
and any number of calls, turns, lines, frames, chunks, launches, starts, messages
and pages. Each invariant below was
checked by TLC on the instance of its run before it was proved.

**StateLock.** `TypeCorrect` needs no assumption. All others assume
`OwnersSurviveProbes` (`ExitsDuringProbe = FALSE`), without which TLC refutes
them. The inductive invariant `LockInv` (theorem `LockInvariant`) says who may
hold what: a process at a step inside owns the lock file; the process that
recovers owns the guard; one that has judged the lock stale in the guard's
protection still sees that same lock, and its owner is dead. Mutual exclusion
alone is not inductive: a step that unlinks preserves it only because of what
the process learned several steps before. From it follow `Exclusion`,
`RemovedRightly` (only locks of dead owners are removed by others),
`InterruptedStays`; with `UpdateInv` (what a process read inside is still the
state) follow `NothingIsLost` and `Refinement` (every step is a step of
`AtomicUpdates` or a stutter).

**LockOwner.** `OwnerInvariant`: the processes of one id do not overlap
(`ProcessesFollow`); a record says rightly who made it and when (`RightRecord`); a
cached start is of a process that had the id within the last second, and of the
present one if that had started before (`CacheIsRight`); and what each step of a
probe knows (`ProbeIsRight`). That a live owner is spared on Windows rests on the
age of the lock: an owner that began before the cached reading was asked for is
the one that was read. `LiveOwners` and `DeadOwners` follow. Assumed are
`OwnerAssumption` (Node.js notes its own start within the tolerance) and, by the
model, that the clock does not go back.

**Delivery.** `DeliveryInv` says that a server past `recordMessage` owns the
one open record of its key, and its phase tells what the transport was given.
It gives `AtMostOnce`, `WriteAhead`, `FailuresAreTrue`, `SuccessesAreTrue`;
`FinalOutcome` and `Refinement` follow from it step by step. The only
assumptions are that the marks for "no record" and "no text" are not values.

**TerminalSend.** `AttemptsAreUntaken` is not inductive: that nobody took a
message which is sent a second time rests on the reply to the first attempt.
`SendInv` adds what a reply proves while nobody has looked at it
(`RepliesAreTrue`: "gone" and "refused" mean that nothing was taken), that the
first connection never writes, and that after the end only a message whose fate
was left open may still be taken. From it follow `Untaken` and `Refinement`: the
record is the acceptance of the text, the daemon or the queue taking the message
is the handing over, and each outcome is a true answer or a refusal. The only
assumption is that the mark for "no record" is not a send.

**ManualSend.** The steps of the inner send are `Delivery`'s, so `DeliveryInv`
is kept by lemma. `ManualInv` says what each `place` of a call implies about the
two ledgers and the chat (`SendAt`, `NoticeAt`) and what each manual record
implies (`SendOf`, `NoticeOf`). Its heart is ownership (`OneHolder`): of the
calls under an id one at most is past the reservation with the right to send, and
one at most holds the notice; `SeenIsTrue` is what survives of a delivery record
that was read and may be stale when it is used. From it follow
`OneWriteOneNotice`, `NoticesAreTrue`, `ManualRecordsAreTrue` and, step by step,
`ManualOutcomes`. The ids in `mixed` are exempt exactly where the property says
so. The proof shows one branch of the model to be dead: as a manual ledger is
never lost, no call finds a manual message in the delivery ledger without its
manual record, a case for which the code has a branch all the same.

**McpServer.** `ServerInv`: jobs keep the order of their lines, and what runs is
before what waits; the map of requests and the promise chain agree in both
directions while the connection lives; a line that was answered is neither
waiting nor running nor aborted. Neither `OneReplyEach` nor
`OutstandingIsPending` is inductive without the order: it is what keeps the job
that is released from taking the id of a later one away.

**Framing.** `FramesAreReported` and `HeldIsBounded` speak of a receiver that
waits. Between two turns it may hold any number of frames, so neither is
inductive. `FramingInv` ties the three views together at every step. `SaidIsMeant`:
the history is the meaning of the frames, its places rise, and nothing is said
after a wrong frame. `StreamIsFrames`: the stream is the head and the frames' bytes,
each at its place. `ReceiverIsRight`: an open receiver tracks some frame
(`Tracks(c)`: it has reported all before the c-th and holds exactly the stream from
there on), one that is not open holds all that came (`Opens`), and one that failed
did so at the head (`Refused`), at the first wrong frame (`FailedAt(c)`), or was
overrun by a chunk. The
heart is what one turn does with a stream that begins with a frame's bytes
(`OneTurnIsRight`, from a lemma for each of the four receivers): it waits and holds
no more than the limit, or fails because the frame is wrong, or drops exactly the
frame's bytes and reports its meaning. Under it are the inverses that the code relies
on: the header is read as it was written, in each of its three lengths
(`HeaderIsRead`, by division with remainder), and a mask that is put on twice is off
(`DataAreRead`). So a frame is given its meaning by its bytes alone, however many
chunks they came in; theorems `FramingReportsFrames`, `FramingHoldsLittle`.

**ClaudeInbox.** That the token goes to the right process, although the id may
have been given to another one between any two reads, rests on lives that are
never given twice (`LivesAreUnique`) and on `Connection`: if the resolved process
still runs when the identity is probed again, it ran when the connection was
made, so the peer is that process. `RecordsAreTrue` (a record written by the
process that runs names its conversation) and `Written` (who runs under the life
of the peer has the chosen conversation, or changed it after the last check) give
the second half of `RightSession`. `Refinement` takes the first byte that may
have left the bridge as the handing over: after it no outcome is "failed".

**HostRegistry, CodexSend.** `LockIsExclusive` (who publishes has the registry as
it is) is what makes a read, an edit and a rename one update. That the registry
is recent follows from an invariant over the history of publications: every
record has a last one, the registry is in their order (`LatestFirst`), its head is
the latest of all, and what it forgot is older than what it has
(`ForgottenAreOlder`). `SendInv` says that a request has a record to be made of and
what an answer proves about the message (`VerdictIsKept`): the application may take
what was written at any time, also after the send has ended, so a send may end
"failed" only where nothing was written or all of it was refused. `Refinement` says
that whatever was reported as failed was not taken and never will be.

**History.** `HistoryInv` is the conjunction of what each part of a scan rests on.
`RecordsAreRight`: what was read of a directory is still in its ledgers as long as
that directory is in place, since a ledger only grows; a removed one never comes
back, so the number of the directory decides (`OneDirectory`). `NothingIsMissed`:
without a warning, a message that existed
when the caller began and still exists is among what was read or in a file still to
be read, at each step of the scan; a directory that was removed takes its messages
with it. `WalkIsRight`: the cursor is the oldest message shown, and what existed at
the start was shown or is older than the cursor; that messages come in between two
pages, with any time, does not disturb it, because a page takes only what is older.
With it `WalksAreExact` says that a walk repeats nothing, keeps the
order, shows each message from the ledger of its sender and, without a warning,
lacks nothing that still exists. `CatalogIsRight` and `CatalogIsComplete` give
`CatalogsAreTrue`: what is used of a project directory was read there while the
directory that stands in its place after the scan already did. The page is sorted
by a choice (`NewestFirst`), so the proof has to show that a finite set of messages
has a sorted sequence, and that the order is total on what one scan reads. That is
an induction over the subsets of a finite set. The library's induction theorems
take a predicate and cannot be used, so `SubsetsOfFinite` states it of a *set* of
subsets, from the well-foundedness of the strict subset. Assumed are the kinds of
the constants (`SessionsAssumption`, `BoundsAssumption`, `HoldsAssumption`): the
selected session is one of a finite set of sessions, whose names are not the marks,
and a page has room for one message at least.

**Installer.** `DirectoryInv`: the plugin's place is empty only while the
installation that moved the old one away is between two of its steps, was killed
there, or failed to take it back (`Vacating`); a staging directory belongs to an
installation that has not ended, was killed, or failed in removing it. Two
installations that meet are covered, though nothing keeps them apart. `EditInv`:
who edits a file holds its lock and no other, has not read a file it refuses, has
saved it, and after its comparison knows it as it is until another program writes.
`PluginStays` and `CarefulEdits` follow. The assumption `InstallersAssumption`
says that an installation's name is not one of the marks.

The type invariants of all modules with proofs are proved (`TypeCorrect` and its
like, or as a part of the inductive invariant); of the runs only `manual` repeats
one. The constants' assumptions are the ones of the modules: marks
that are not values, limits that are natural numbers.

Every safety and action property that a passing run checks is stated by a theorem,
except those of `SenderLedger`. Only model-checked beside them is liveness:
`EveryCallReturns`, `EveryRequestSettles`, the `EverySendEnds` of three modules.
Liveness under fairness, `ENABLED`, and what a recursive definition computes for
every input are out of the prover's reach.

## Not modelled

- *The panel's view* (`ui/bridge.html`): its timers, its drafts and what it
  shows. What it calls (sends, retried notices, histories) is modelled at the
  server. Answers that arrive for another conversation than the one selected are
  the one hazard without a property.
- *Reads without state*: the listings of tasks and sessions, `bridge_doctor`,
  the connectivity probe, `readDaemonVersions`, the settings. Their results are
  inputs of the models that use them.
- The working directory that `createSession` compares: `senderLedger` always gives
  the same one.
- *The helpers, manifests, packaging, documents and the test runner.*
- `compatibility/native` is an identical, generated copy of `lib`, `scripts` and
  `ui`. What is said of the originals holds for it; nothing is mapped to it twice.

Left out of modules that exist: text, schemas and the exact limits on sizes, as a
request that violates them is one that is refused; the encoders of the bridge's
own frames. `History` does not show the notices of manual records, nor the
"uncertain" that a page shows of a send older than a minute. `Framing` assumes
(`HeadsAssumption`) that an answer to the upgrade has its blank line at its end or
nowhere, and takes frames of 16 MiB for all longer ones. Where chunks matter its
property says so: a head longer than the limit (`lib/ws-jsonrpc.mjs:74-78`), and
what a chunk brings the remote receiver beside an unfinished message
(`lib/codex-ssh.mjs:99`). It does not contain the unfinished line that a receiver
holds when its input ends. In `Installer` another program may write between the
last comparison of a file and its replacement, as in the code: `EditsAreCareful`
does not speak of what is lost then (`asCompared`), except for new files, which
are linked and never lost. What the installer publishes to the host registry is
`HostRegistry`'s.

## Plan

Done: `AtomicUpdates` and `StateLock`; `OneDelivery` and `Delivery`;
`ManualSend`; `McpServer`; `TerminalSend`; `ClaudeInbox`; `HostRegistry` and
`CodexSend`; `Framing`; `History`; `Installer`; `LockOwner`, all with proofs of every safety
property that their runs check; `SenderLedger`, checked.

Next, in this order:

1. `Panel`: two conversations, one server, answers in any order; composed with
   the promise of `OneDelivery`.
2. The proofs of `SenderLedger`.
