# A verification development for agent-debugger

agent-debugger is a CLI (Rust) that drives debuggers on behalf of an agent.
Every invocation is a short process. The debug session itself lives in a bridge
daemon, one per session, written in the language of the debugger it drives
(Python over DAP, Node and browser over CDP, Java over JDI). The CLI processes
and the bridges share nothing but a directory per session, a few lock files and
a loopback port.

The modules here are translated from the code; `docs/` is used only for what
the program is supposed to do. Each definition's source lines are in
`PROJECT.json` ("map").

## 1. Inventory

### Components, their state and their operations

| Component | Source | State | Operations |
|---|---|---|---|
| Endpoint reservation | `src/session/locks.rs`, `spawn_lifecycle.rs` | one record file per language/host/port, quarantine files | claim, judge a stale record, quarantine, restore, re-verify, release |
| Session start | `spawn_lifecycle.rs`, `locks.rs` | startup lock per name, session directory, `owner.json`, `session.json`, `error.json` | lock, check, clear, create, spawn, poll, first request, settle, reap, clean up |
| Session close | `close_status.rs`, `attach.rs`, `client.rs` | the same files | gate, read, request, probe, poll for death, delete |
| Breakpoint persistence | `session/breaks.rs` | `stops.json`, `breaks.lock` | locked read, edit, replace by rename |
| Command forwarding, status, doctor, output | `forward.rs`, `attach.rs`, `doctor.rs`, `fmt.rs`, ... | none | one framed request per connection; reads of other sessions' files and ports |
| Identity, redaction, diagnosis | `identity.rs`, `attach.rs`, `spawn_lifecycle.rs` | none of its own: it writes identities into sidecars and errors | redact, cap, seed, echo, look a listener up, diagnose |
| Adapter provisioning | `bridge.rs` | one cache directory and one kernel lock per adapter | look, lock, compare, write, run a tool |
| Python bridge: breakpoint intent | `pybridge.py` | intent, records per child, what each adapter session has | add, remove, clear (global and per target), capture plants |
| Python bridge: stops and waits | `pybridge.py` | event queues, parks, park clock, suspects, slots | pump, park, continue, step, wait, capture, idle pump |
| Python bridge: request pool | `pybridge.py` | handler count, closing flag | accept, overload, close, teardown |
| Python bridge: child admission | `pybridge.py` | roster, staged attaches, retired connections | stage, claim, handshake, commit, exit |
| Node bridge | `nodebridge.js`, `cdp_conn.js` | workers, pauses, pending replies | the same, as promises on one event loop |
| Browser bridge | `browserbridge.js` | one page target | the same, and reload |
| Java bridge | `bridge/java/src` | VM events, shadow breakpoints, session lock | the same, with JDI threads |
| Framing | `dap.rs`, `framing.js` | decode buffer | feed, next frame |

### How they interact

- CLI and CLI: only through files. Nobody holds a handle on a session; a
  directory is found by its path and a bridge by the port that
  `session.json` names, at the moment of the look.
- CLI and bridge: one request and one response on a fresh TCP connection, with
  a deadline. The bridge looks at `owner.json` now and then and ends when it is
  no longer the owner of its directory.
- In the Python bridge a handler thread per connection, and the accept loop
  between connections, share the session under `_gate` and each adapter
  connection under its `mu`. A request to the adapter is made with the gate
  held; waiting for stops is not.
- CLI and tools: a start runs `javac`, `npm`, `venv` and `pip` under the
  adapter's lock and kills them at their limit; they write the shared cache
  piece by piece, and outlive a start that is killed.
- Bridge and adapter: requests and responses with events between them. What a
  request reads while it awaits its response is stashed for the next pump.

### What is hard here

Two reclaimers of one stale lock; files deleted by path after they were judged
by content; a process killed between two steps; a request that timed out but
was obeyed; a port that now belongs to another bridge; stops consumed by a
thread that does not wait for them; stops of before a resume that arrive after
it; a deadline that races a stop; a batch confirmed in part; a close that must
get through a full pool; a cache that two versions of the binary fill in turn;
one port that three probes judge by different rules. `PROJECT.json` ("hazards")
lists each at its line with the properties that watch it. The one hazard
without a property (a child attach staged as a drain ends, `pybridge.py:2753`)
belongs to a part that is not modelled.

### What makes the components correct

One starter and one bridge per endpoint; one bridge per name; a failed start
leaves nothing; a confirmed close is a dead bridge; nobody deletes a live
session; adapter sessions have the breakpoints that the bridge records and
`stops.json` persists; no halt of the debuggee is forgotten, no running target
is taken for halted; a wait is answered by a newer park of the right target,
and a timeout means that there was none; a bridge's files are those of its
binary and two tools never fill one directory at once; nothing secret is
persisted and no verdict is given that nothing observed supports; every start,
close, claim and held slot comes to its end.

## 2. The modules

Each module that TLC runs has an `MC` module that extends it and adds what its
instances need: symmetry sets, and the sets of connections of ServePool.
Symmetry is used in runs of safety properties only.

| Layer | Modules |
|---|---|
| CLI processes and files | EndpointLock, SessionLifecycle, Provisioning |
| A bridge from inside | BreakIntent (with the persisting CLI), StopPump, ServePool (with the closing CLI) |
| What a bridge's server promises | Service, implemented by ServePool |
| Decisions without waiting | Wire, Identity, StartReport, Roster, composed by Decisions |

The modules share one convention. Much of this code is best effort by design:
it states where it accepts a race. A history variable **`holes`** records by
name which of these cracks has opened, at the step that opens it. A property
that holds only up to a crack says so in its first line, so the model says
*exactly* through which cracks the system can fail. That a crack is reachable
is part of the model: its behaviours are explored like any other.

### EndpointLock: the reservation of an endpoint

One file-system call is one step of one CLI process. The file system is
modelled with inodes, since the protocol lives on the difference between a path
and a file: rename takes an inode away while its creator still writes to it.
`Claim` and `WriteRecord` are `create_new` and the write; `ReadRecord`,
`Judge`, `Verify`, `Detach`, `Reconcile`, `Refetch`, `Restore`, `Fill` and
`Reclaim` are `reclaim_stale_lock` and the quarantine; `Scan` and `StillHolds` are the
ownership gate; `CheckMine` and `Unlink` the release. `Crash` kills a process
at any step; `GrowOld` ages the record across the two bounds of the code.

Cracks: `detached` (a rename has moved a running process's record), `orphan` (a
CLI killed between its bridge's attach and the bridge's first publication).

### SessionLifecycle: start and close

Starters run `spawn_in`, closers run `close_in`, bridges live in between; a
starter spawns at most one bridge and stands for it. The steps follow the code
call by call: `Acquire` ... `ReleaseLock` for a start, `CloseGate` ... `Delete`
for a close, `ClaimDir`, `Publish`, `ReportError`, `Republish`, `Abandon`,
`Teardown`, `BridgeDies` for a bridge. Ports are handed out by the system and
reused.

Cracks: `stolen` (the startup lock of a running starter was stolen), `orphan` (a
starter was killed before its bridge published), `unclosed`, `lost` (a close
deleted the directory of a session it had not read), `reused` (a port named by
a file was given to another bridge).

Abstraction: the startup lock is taken, stolen and released in one step each,
since the file protocol below it is EndpointLock's subject. Stealing needs a
lock of 300 s; with `LongStarts = FALSE` a running starter's lock does not get
that old, which holds for every start whose timeout is below that bound.

### BreakIntent: breakpoints in three places

The bridge's intent and its per-child records, the breakpoints each adapter
session has, and `stops.json`. A request is one actor from the CLI through its
handler thread to the persisting CLI. A section under `_gate` is a step; the
adapter may refuse each file's request or obey one that then times out.
Children are claimed, armed from a snapshot and committed by the drain.

Cracks: `late` (obeyed, but reported failed), `behind` (a child's request
failed, which only warns), `raced` (the intent changed while a child was being
armed), `shared` (one key is both inherited and a target's own, and one removal
takes both: `Shared`, `CopiesLost`), `stale` (a list was sent that had changed
since it was read), `misrouted` (a request went to another target's connection),
`crossed` (persisted in another order than applied), `unpersisted` (a reported
failure to persist).

### StopPump: stops, waits and resumes in the Python bridge

The adapter halts targets and reports it (`Halt`, `CoStop`, `Exit`, external).
`Submit` and `Accept` are `dispatch`; `Look` and `Baseline` the entry of `wait`
and `capture`; `IssueResume` and `BeginResume` the two gate sections of
`continue` and `step`, between which anything may happen. `Pop` reads a message
under the connection's lock, `DispatchPumped` handles it under the gate: parks,
co-stops, suspects, the `continued` barrier, exits. `Handoff`, `IdleTick`,
`Deadline`, `CloseSuspectEpisodes`, `LastLook` and `LostAll` are the loop of
`pump`. `Serve`, `CaptureResume` and `Release` are the answers and the
`finally`. `IdlePump` is the accept loop, which pumps while no slot was held at
its last look. `LiveRead` stands for the reads that other handlers make of a
target, which stash its events.

Cracks: `gap` (parked between the look and the baseline of a wait), `late` (a
resume obeyed but reported failed), `swallowed` (a stop lost between the resume
and its bookkeeping), `overtaken` (messages of one connection dispatched out of
order), `uncommitted` (a park whose stack could not be read, before the clock),
`unprobed`, `stranded` (an episode ended with stops held or about to be),
`vanished` (the parked target exited before the answer), `foreign` (a capture
resumed a target whose slot it does not hold).

Abstractions: all threads of a target halt together and which one reports is
left out, so a suspect is its halt's number and a probe finds the target halted
or not; `_probe_all_suspects`, whose main branch runs outside the gate, is one
step; reads of several messages in one loop are several steps; a park sets its
flag and its clock under one gate section. The death of a connection under a
parked target and `drain_pending` are left out.

### Service and ServePool: who serves, and how it ends

`Service` is what a client may count on, whatever serves it: a session is
serving, then closing, then stopped; requests begin only while it serves; the
first close ends that and nobody takes the charge over; a closing session
stops. `ServiceSafety` is that without the promise to stop, `ServiceSpec` with it.
`ServePool` is the Python bridge's implementation, and `ServesAsPromised` the
refinement, with `phase` read off `alive` and `closing` and `running` off the
handlers' stages. Closing is the flag, not the acknowledgement.

`LoopTop`, `IdlePump`, `AcceptNone`, `Accept`, `LostCleanup`, `Return` and
`Exit` are `serve` and the end of `main`; `Read`, `Dispatch`, `Finish`,
`Release` a handler; `ReadOverload` the same for a connection that the loop
serves itself when the pool is full; `Claim`, `Acknowledge`, `Disconnect`,
`Reap` the close, in whichever thread it came. `CloseRequest` ... `PollEnds` is
the CLI's `close_in` against it, with its probe of the port, its polls and the
deletion of the directory. A stage takes as long as it likes, so that a blocking
command in the pool, a slow idle pump and a silent client in the overload path
are all in it.

Every connect takes a place in the listen backlog (`Backlog`, five in the code)
until the loop accepts it, be its client long gone: a close's request, its probe
and each of its polls (`PollConnects`, whose connections are `Knock`). Against a
full backlog a connect times out. The request and the probe conclude nothing
from that; a poll takes it for the bridge's death (`PollFails`), and the close
that goes by it ends as `mistaken` when the port still listens.

### Provisioning: the adapters' cache

Starts of two versions of the binary, for any adapter, share one cache. An
`ensure_*` call is a probe without a lock, the locks in the order of `LocksOf`,
one comparison of the directory (`PlanOf`), and a list of checks of paths, atomic
writes and tool runs. `Probe`, `Acquire`, `GiveUp`, `Files`, `WriteFails`,
`StartTool`, `ToolSucceeds`, `ToolFails`, `Return` are a start's steps; `Crash`
kills it anywhere, which frees its kernel locks and leaves its tool running;
`ToolWrites` and `OrphanEnds` are the tool, which is external. Symbolic links
are planted before the starts only. `cut` is this module's history of cracks:
the adapters that a start left (killed, or failed) with a tool still to run.

### Decisions: what the CLI makes of what it finds

Four modules of pure operators, translated function by function:

- **Wire**: how an answer's bytes are checked and decoded after each read
  (`dap.rs`, the loops of `client.rs` and of the probe). The reference
  definition next to it (`Meaning`, `Nature`) judges all that the peer sends
  at once.
- **Identity**: redaction of command lines (`redact_argv`) and of causes
  (`sanitize_cause`), the caps, the seeds, and what is echoed of a stored
  identity. A word is a record of what redaction can tell apart. The two readers
  differ for a word that is `padded`: `redact_argv` splits a word at its first
  `=` and at a colon only without one, so the end of a base64 value hides the
  colon before it (`--token:YWJj==`); `sanitize_cause` masks at the colon.
- **StartReport**: the listener lookup in `/proc`, the diagnosis from a look
  before and one after, the routing of a bridge's own account of its failure,
  and the wait loop as a schedule of looks.
- **Roster**: hosts and their normal form; the gates of a start, the status
  row, the outcomes of a close and the target of a forwarded command, each from
  what a session's files say and what is at its port. A file may be unreadable,
  or whole without its port or its marker of schema 2. What is at the port may
  be a bridge whose loop is held past the deadlines of a close; what a close
  makes of that, or of a mute process, is open, since its own polls may fill the
  backlog (`CloseOutcomes` is a set).

`Decisions` composes them into a component that is asked one question at a
time. A question carries the truth with what the program can see of it (`Files`
of a world, the lookup's view, the cuts of an answer); the program's operators
get the latter, the properties compare with the former.

## 3. Runs

| Run | Bounds | Shows |
|---|---|---|
| `endpoint_three` | 3 processes, 2 rename attempts, fairness | types, one starter, one bridge, releases spare others, every judged claim resolves |
| `session_name` | 3 starters, 1 closer, 1 name, 3 ports | types, failed starts leave nothing, one bridge per name, answers come from the own bridge, confirmed closes |
| `session_steps` | 2 starters, 1 closer, 1 name, 2 ports, fairness | starts spare live sessions; abandoned bridges, starts and closes end |
| `breaks_files` | 2 requests, 1 child, breaks in two files | adapter, intent and `stops.json` agree |
| `breaks_slots` | 2 requests, 1 child, two conditions on a line, fairness | types, conflicts refused, slots freed |
| `breaks_leak` | 1 key, 1 capture, 1 child | violation: a capture's break stays planted |
| `pump_rivals` | at most 2 of {requests, children} beside main and the accept loop, 1 halt per target | no halt lost, parks real, fresh answers, honest timeouts, only the holder resumes |
| `pump_alone` | 1 request, 2 halts, fairness | a halt gets published, over two generations of stops |
| `serve_pool` | 2 commands or killed closes, 1 close with its probe and a poll's connection, a pool of 1, a backlog of 2, fairness | the pool is exact; `Service` is implemented; a close ends the bridge past a full pool; no live bridge loses its directory but to a poll that a full backlog turned away, and then it ends by itself |
| `serve_teardown` | the same | violation: the process ends before the teardown has |
| `provisioning_all` | 3 starts, 2 versions, 1 fault, 2 Java units, 1 shared file, fairness | types; files as embedded, outputs work, tools alone, no start waits forever |
| `decisions` | below | answers are read alike however cut; nothing secret shows; no rival passes the gates; start, status, close and forwarding agree; diagnoses rest on what was seen (each up to the exceptions it names) |

Why the bounds are enough to be of interest:

- The endpoint protocol needs two processes to collide on a stale record, a
  third to claim the path meanwhile, and a dead one whose record is stale; the
  unqualified claim falls with them.
- A name's races are between a start and its successor with a close in between;
  three starters allow a leftover bridge, a running start and a thief.
- Two breaks of one file and one of another make a batch that is confirmed in
  part; two conditions on one line make a conflict.
- `pump_rivals` has about 3.6 million states. A resume race needs a stop of before and one of after the resume. With one
  halt per target in `pump_rivals` the session's first park (halt 0) and the
  next one are those two; `pump_alone` goes one further. Rival requests and
  children do not occur all together (`MaxLoad`): a child adds a second
  connection and a second clock, a second request adds a rival, and each is
  explored with everything else at full strength.

- `serve_pool` has a pool of one, so that one blocking command (or one close)
  fills it and everything else takes the overload path. Each of the two other
  clients may carry a command, no whole frame, or the close of a process that is
  killed meanwhile, so that closes win and lose; two of the five connections
  fill the backlog of two, in front of the request, the probe or a poll, and the
  close alone can fill it by its request and its poll. It has about 490,000
  states.
- `provisioning_all` needs three starts for one to leave a partial state, one to
  repair it and one to come between; two versions make files of both; the
  adapters that share a directory or a lock (node and browser) start side by
  side, the others among themselves. One fault is one link, kill, failed write
  or failed tool per behaviour. It has about 950,000 states.
- `decisions` has about 810,000 states: answers of up to 8 bytes with headers of
  up to 5 and every set of cuts, where the code's bounds (8 KiB of header, 64
  MiB of frame) are 4 and 7, so that each is met from below, exactly and from
  above; command lines of up to 4 words, which fit a secret flag, another, its
  value and one more, each bare, valued, nested or padded; caps of 2 elements and 5 characters with a cut of 3 and a
  mark of 2, where a cut can be made up for by its mark, and the 28 passes that
  `EnoughPasses` asks for at three strings; three rounds of the
  wait loop; every combination of language, host form, schema version,
  publication, listener and damaged file of one neighbour, and every outcome
  that a close of it may have.

Deadlock is not checked where the modelled processes all may end
(`CHECK_DEADLOCK FALSE`): each makes one request.

### Fairness, and why the code justifies it

- EndpointLock: each process's steps. No call waits without a timeout.
- SessionLifecycle: a starter's and a closer's steps; strongly for the
  deadline of the wait loops, which is tested in each round although the polls
  may be enabled in between; a bridge looks at `owner.json` between events and
  ends once it has decided to. Nothing is assumed of kills and bridge deaths.
- BreakIntent: handlers and persisting processes are scheduled; waits have
  deadlines. That a client gives up, a child exits or a park comes is not
  assumed.
- ServePool: the accept loop goes round, and a handler takes the next step that
  does not wait for a command to end: reads, the idle pump and the disconnect
  have limits in the code. Nothing is assumed of a blocking command (up to an
  hour), of the CLI's close, or of clients.
- Provisioning: a live start is scheduled and its tools end (they have time
  limits). Neither the 200 s limit on the wait for a lock nor any fault is
  assumed: `StartsSettle` holds without them.
- Decisions is judged by invariants; no fairness is needed.
- StopPump: handlers are scheduled, a popped message is dispatched, and the
  accept loop goes round again and again and reads before it leaves (strong,
  since a request may hold the slot in between). Nothing is assumed of the
  adapter or of the arrival of requests.

## 4. Where the code differs from what it says

Two are runs that reach the violation:

- `breaks_leak`: a scope opened in a scope serves the wrong connection, so a
  capture's ephemeral break stays planted (`pybridge.py:4488`).
- `serve_teardown`: the winner of the close tears down in a daemon thread, and
  the accept loop, which looks at the closing flag every tenth of a second,
  returns and ends the process meanwhile (`pybridge.py:6019`).

The modules state further ones, with a comment that says what they claim and
why. TLC refutes them on instances as small as those above (put the name in the
place of the properties of the configuration that is named); they stay
definitions without a run of their own:

| Definition | Configuration | What happens |
|---|---|---|
| `ExactlyOneStarter` | `EndpointLock_three` | the rename that quarantines a stale record takes whatever is at the path by then (`locks.rs:562`, against `locks.rs:484` and `557`) |
| `CloseSparesLiveSessions` | `SessionLifecycle_steps` | a close that read one session deletes the next one of the name (`close_status.rs:133`, against 215) |
| `CloseEndsItsOwnName` | `SessionLifecycle_steps` with 2 names | a close request reaches the bridge that has the port by then (`close_status.rs:193`) |
| `LiveStarterKeepsItsLock` | `SessionLifecycle_name`, `LongStarts = TRUE` | a start of more than 300 s loses its lock |
| `NoSilentDivergence` | `BreakIntent_files` | `breaks.lock` orders the writes, not the responses (`breaks.rs:306`, against `protocol.md:133`) |
| `CapturesExcludeMutations` | `BreakIntent_files` | a mutation accepted before a capture runs under it (`pybridge.py:5574`) |
| `InheritanceIsComplete` | `BreakIntent_files` | a child armed from an old snapshot is not brought up to date (`pybridge.py:2783`) |
| `ScopedRemovalSparesIntent` | `BreakIntent_files` with 3 requests | `pybridge.py:5196` |
| `ChildrenInheritIntent` without the crack `shared` | `BreakIntent_files` with 3 requests | a `clear` that main refuses for a file drops a child's own breaks there, and with them the child's copy of the same break, which main keeps (`pybridge.py:5358`, against 5355-5357) |
| `StopsSurviveTheResume` | `StopPump_alone` | a stop between the resume and its bookkeeping is dropped as older (`pybridge.py:3988`, against `protocol.md:63`) |
| `ParksHaveAnEpoch` | `StopPump_rivals` | a park whose stack request fails never reaches `_commit_park_clock` (`pybridge.py:3573`, against `protocol.md:65`) |
| `ClassesConverge` | `Provisioning_all` | a start killed between the sources and the end of `javac` leaves current sources with old classes, and the next start compares sources only (`bridge.rs:345`) |
| `NoSpellingEscapes` | `Decisions_all` | host `0` is neither loopback nor unspecified for the CLI and reaches 127.0.0.1 on Linux (`paths.rs:290`, against 273-275) |
| `NoValueEscapes` | `Decisions_all` | an argument that has a `=` after its secret name's colon, `--token:YWJj==`, keeps its value (`identity.rs:101`, against 77-78) |
| `UnsupportedIsCloseOnly` | `Decisions_all` | a session.json without the marker beside marked files of the CLI: status says unsupported (`close_status.rs:288`), and commands are forwarded (`sidecar.rs:62`, against 59-61) |
| `AccountsAreKept` | `Decisions_all` | error.json comes after the look for it and before the look for the exit, and its runtime account is replaced by a diagnosis (`spawn_lifecycle.rs:636`, against `schema-v2-cleanup.md:27`) |
| `LiveBridgesKeepTheirDirectory` | `ServePool_all` | while the accept loop is held up, what a close leaves in the backlog fills it, and a poll that is turned away reads as the bridge's death (`close_status.rs:229`, against 212-217) |
| `UncertaintyDeletesNothing` | `Decisions_all` | the same for every state of a session's files: a bridge whose backlog is full, or whose loop is held while the polls fill it, is taken for dead (`close_status.rs:229`, against 212-217) |
| `HighConfidenceIsEarned` | `Decisions_all` | a listener whose owner's descriptors are another user's, or in the only unreadable table, counts as absent (`attach.rs:55`, against 61-64) |

## 5. Proofs

Checked by TLAPS for every value of the constants: any number of processes,
names, files, breaks, requests, any pool and frame size. The only assumptions
are the modules' `ASSUME`s: identities are distinct, bounds are naturals, a
build's output units and a package's shared files are finitely many, and the
passes of the size cap are enough for the strings of an identity (`EnoughPasses`).
With the code's 4096 passes of 64 characters less a mark of 18, on fields of at
most 512 characters and their mark, that is true of some 300 strings; an
identity has three roles, each with a handful of fields and a command line of at
most 33 words.

| Module | Theorems |
|---|---|
| EndpointLockProofs | `TypeCorrect`, `OneStarter`, `OneBridge`, `ReleaseIsSafe`, `BoundedCalls`, `NeverAWait` |
| SessionLifecycleProofs | `TypeCorrect`, `FailedStart`, `ConfirmedClose`, `SoleBridge`, `OwnBridgeAnswers`, `StartsSpareSessions`, `OwnershipIsLostForGood`, `CommandsNeverGoBack` |
| ServePoolProofs | `PoolCountExact`, `RemovalSafe`, `ServesSafely`, `LoopAlwaysGoesOn`, `NoRoundInVain` |
| ProvisioningProofs | `ProvisioningTyped`, `ToolsNeverMeet`, `ReturnsWithItsFiles`, `ReturnsWithItsOutputs`, `NoCircularWait`, `NoStepIsLost` |
| BreakIntentProofs | `IntentTyped`, `AdaptersMatchRecords`, `ChildrenKeepIntent`, `NoUpdateIsLost`, `NoSlotLeaks`, `NoSectionRepeats` |
| StopPumpProofs | `PumpTyped`, `TimeoutsAreHonest`, `FreshAnswers`, `HoldersResume` |
| StopOrderProofs | `StopsAreKept`, `ParksStayReal` |
| DecisionsProofs | `AnswersReadAlike`, `DiagnosesRestOnObservations`, `RivalsAreStopped`, `OneDirectoryOneJudgment`, `OneRule`, `SecretsStayHidden` |

**EndpointLockProofs.** The properties are not inductive: that two processes
are not past the gate says nothing of what the path holds. The invariant `Inv`
adds `OwnsPath` (while no running process's record was detached, the path holds
the claim of each process between its claim and its release), `BodyOwned` (a
claim never holds another process's bytes), `QuarantineHeld` and `BridgeAlone`
(from the scan on, no other process has a bridge). `OwnsPath` gives one starter,
since two of them would own one path; with `BodyOwned` it gives the release,
and with `BridgeAlone` one bridge.

**SessionLifecycleProofs.** `Typed` adds to the types that whoever has started
has a name. `StartInv` says that a bridge writes only under its own name, that
nothing of it is anywhere before its spawn, that it is dead when the clean-up
begins and that nothing remains when its starter releases the lock: the failed
start follows. For the close, `PortInv` says that bridges that have bound ports
have different ones, `AckInv` that the acknowledging bridge has the port the
closer read and is dead from the last check on, and `ReuseInv` that without a
reused port that bridge is of the closed name. `SoleInv` holds while no crack is
open: `Exclusive` (a start at work has its name's lock, past its check no other
bridge of the name is at work, and no two bridges of a name are) and `Visible` (a
bridge at work can be seen: by the start that stands for it or by a session
file, which a serving bridge's directory has). One bridge per name, the answer
of the own bridge and the two deletions of a start follow, the last as an action
property.

**ServePoolProofs.** `PoolExact` ties the counter to the set of handlers that
hold a slot, and that set is finite though the clients are not; `ClosingFirst`
says that everything on the way to the end of the process comes after the
closing flag. A probe that speaks and still meets the end of its connection has
met a closing bridge (`ProbesSpeak`, `EofIsTheEnd`, `NotYetMade`), so the close
that goes by it removes no live bridge's directory; one that was acknowledged has
asked a closing bridge (`AcksAreOfClosing`), so it may go by any failed poll. What
is left is the poll of a close that was not acknowledged: it is right about a
port that no longer listens, and `RemovalFollowsClosing` excepts the one that a
full backlog turned away, by name. `ServesSafely` takes the
refinement of `Service` step by step: each of the server's steps begins or ends a
request, closes, stops, or leaves `phase`, `running` and `charge` alone; both of
the facts it needs (nothing begins once closing; the process ends closing) come
from the same invariant.

**ProvisioningProofs.** `LocksHeld` says who holds which lock in which stage,
`PlansCovered` that a plan touches only what the locks of its call cover, and
`JobsCovered` the same of a running tool: two live tools in one directory would
hold one lock. For the returns, `FilesPlanned`, `OutputsPlanned` and
`ClassesPlanned` say that whatever is not yet as it should be is still to come
in the plan; `JavaInOrder` that the Java call looks, writes and compiles in this
order, so that the classes are those of the sources but between its first write
and its compiler's end (`ClassesOfSources`); `MarkerMeansWs` that what `ws` is
judged by is there without the rest only while npm runs or after it was cut off.

**BreakIntentProofs.** `BreaksInv` says, while nothing has drifted, that each
reachable adapter session has at least what is recorded for it and at most the
breaks of captures besides, that a live child's copies are the intent, and that
a child under way is armed from a snapshot that is the intent still. `FileInv`
says that whoever is between the read and the write holds `breaks.lock`, that
what it has read is what the file holds, and, until two updates cross, that the
file has exactly the intent without what is on its way in and with what is on
its way out. `Effect` and `Ends` sum up what a mutation may do to the intent and
how it may answer, so that the mutations share one argument about the file. A
first attempt at `ChildrenKeepIntent` failed on a partly refused clear, which
section 4 describes.

**StopPumpProofs.** The types are inductive only with `ExitsAreReal` (no exit of a
living target is on its way) and `Asked` (a request holds its target's slot from
its acceptance to its release, and has no answer before). What a step may do to
the park clock is one of four things, `Clocked`: let it rest, publish a park, park
without publishing, or take a target off the records. From these `LastIsLatest`
(the clock is the last park's), `Waits` (a park of the target that an explicit
request waits for is newer than its baseline) and `Serves` (so is what it is about
to answer with) are kept for every request that does not move (`Steady`), and
shown for the one that does. A timeout is honest because at the last look
`Waits` would have the park taken.

**StopOrderProofs.** Neither property says where a message may come from next, so
the invariant follows each target's messages from the connection through the
stash to a pumper's hand. `OneHand` says that, unless one message has overtaken
another, only one pumper has a message of a target in hand, and `Numbered` that
no halt's number is used early. For a target that runs, `Quiet`: no stop is
on its connection, one in the stash means that its resume is being booked (which
will drop it), one in a hand that it will be held or ignored; so nothing parks it.
For a halted target, `Ordered`: no `continued` comes after the stop of its last
halt, and none is on its way once that stop is in a hand or held; so the barrier
never clears the stop that matters, and `Traced` says where that stop is. Lists
are reasoned about by `Has` and `InOrder` with one lemma each for sending,
popping, joining and dropping stops; a step leaves all targets but one `Unmoved`
or ends an episode (`Settled`). The cracks in the hypotheses are used where they
open: `late` in a resume taken for failed, `swallowed` in the bookkeeping,
`unprobed` in a probe, `stranded` at the end of an episode, `overtaken` in `OneHand`.

**DecisionsProofs.** The questions are asked one at a time, so each theorem is
an analysis of the operators. For `AnswersReadAlike` the first look that says
more than "more" exists by the well-foundedness of the naturals (`Least`), and
`Looks` says that such a look says what the whole answer means. The three others
go case by case through what a directory's files can say, through the wait
loop's schedule, and through the spellings of a host.

`SecretsStayHidden` is about definitions by recursion: the readers of words, the
size, the passes of the cap. `Recursion` says that such a function exists,
`Positions` that what goes from each position to the next holds at all of them;
both are stated for a step given as a function, so that they can be cited.
Every reader is brought into one form (`ReadThrough`): a command line is shown
word by word, each depending on itself and on whether the word before it armed
the reader. In this form it is plain that no word shown in a cause holds a secret,
and in an argument list none but a padded one (a flag is never swallowed, so a
bare secret flag always arms), that a second reading arms where the first did and
changes nothing (`ShownTwice`, `ArmedAlike`), and that the two readers agree on
every word but a padded one with a secret name, which the reader of causes masks
and that of arguments leaves as it is (`OneRule` says both). For the cap, `Effort` is what is left to do: a string that may stay
longer than its mark is worth its length and two passes, one that may not, one
pass, one of a character, nothing. Each pass over an identity that does not fit
takes a `Gain` off it (`PassGains`): so the comment of `cap_identity` is right
that the bound on the passes is a backstop and not what ends them, and
`EnoughPasses` says for how many strings.

**What liveness rests on.** That something must happen is TLC's part, because the
prover knows neither fairness nor ENABLED. The argument about the code is
mostly in two facts that are safety, and these are proved, so that they hold for
every number of processes and not only for the two or three of a run: who works
can always take a step or waits for one that can, and each of its own steps
brings it nearer to its end while nobody takes it back.

| Property of a run | Rests on |
|---|---|
| `ClaimResolves` | `BoundedCalls`, `NeverAWait`: a claim has at most 12 + 2 `MaxTries` steps before it (18 with the code's three tries), whatever its rivals do. The count is a call per label and two for each rename that may still be tried; it needs `TriesBounded` of the invariant. Every label of a process that runs has a step with no guard that could keep it waiting. |
| `StartsEnd`, `ClosesEnd` | `CommandsNeverGoBack`: stages are counted down by a command's own steps only. The one loop is the wait for the bridge, which `Deadline` ends (hence the strong fairness of it: it is possible once a round) and a dead child ends too. |
| `AbandonedBridgeEnds` | `OwnershipIsLostForGood`: once `Abandon` is possible it stays so while the bridge serves. A token comes into owner.json by its own bridge's claim only, before it serves; and a directory made again has no owner, for which the proof needs that every owner.json is in a directory (`OwnersHaveDirs`). |
| `ClosesAreServed` | `LoopAlwaysGoesOn`, from `LoopInv`: at most one connection is served out of the pool, only while the loop is in `overload`, and it runs no command but `close`. `NoRoundInVain`: rounds and handlers use up connections, of which no step gives any back. |
| `SlotsAreFreed` | `NoSlotLeaks`: slots and captures under way are the same thing; `NoSectionRepeats`: and a capture under way has a few sections before it, with or without its client. |
| `StartsSettle` | `NoCircularWait`: the node lock comes before the browser lock, so a start waits for one that works or for one that waits for one. `NoStepIsLost`: calls, stages, locks held, items to do and outputs to write are used up in this order. `GetsOn` spells out the guards of `Step`. |

The definitions these theorems are about are in the proofs' modules. TLC has
confirmed each of them on the instances of section 3 before it was proved.

Only model-checked:

- Liveness under fairness itself (the properties of the table,
  `StopsArePublished`), and with it the fairness half of `ServesAsPromised`.

Every invariant and action property of a passing run is a theorem. No module
declares a RECURSIVE operator: recursion is written as functions, and what they
compute for every input is shown by first-order induction on their positions
(`Positions` here, a least counterexample in `WithoutStopsTyped` for the filter
of the stop pump).

## 6. Not modelled

- The Node, browser and Java bridges. Of their hazards the ones that matter most
  are the Node bridge's: a pause of before a resume and one of after it that
  arrive together (`nodebridge.js:2884`), and a failed resume that has to restore
  the park it dropped (`nodebridge.js:3823`).
- The staging of children in the Python bridge (`TargetRegistry`, the single
  drainer, its budgets); their claim and commit are in BreakIntent.
- The bridges' own decoders of frames (the CLI's is Wire), and the payloads of
  read-only commands: evaluation, change tracking and snapshots are data that no
  property tells apart.
- Argument parsing, formatting, `doctor`, install scripts: no state that another
  component could see.
- Time: deadlines are events that may come at any moment they could, and
  durations are compared only where two of them decide an outcome.
- In Provisioning, links planted while a start runs (the code's checks are one
  look before each use, which no order of looks could make atomic).

## 7. Plan

Done: EndpointLock, SessionLifecycle, BreakIntent, StopPump, Provisioning,
ServePool with Service, Decisions with its four parts, each with its proofs.

To come:

1. **ChildAdmission**: staging, the single drainer, budgets, exit during a
   handshake; whether a staged child is admitted.
2. **The wait models of Node and Java**, and an abstract specification of a
   wait (baseline, park, answer or timeout) that StopPump and they implement.
3. Browser reload.
