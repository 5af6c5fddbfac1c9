# Verification of the harness driver

TLA+ modules that model the driver of this repository, the TLC runs that check
them on small instances, and proofs of what TLAPS proves for every instance.
Paths are relative to `src/`.

## The system

A Go program drives agent harnesses (Claude Code, Pi, OpenCode) that run as
child processes. From the top down:

| part | state it keeps | operations | talks to |
|---|---|---|---|
| workflow runner, `workflow/runner.go` | runs by ID; of each its folded state, open sessions, steps in flight, contexts; slots shared by all runs; closed | Start, Resume, ResumeAll, Cancel, Shutdown, Wait, State, Runs, Subscribe; a loop per run, a goroutine per step | the log store, harness sessions, subscribers |
| run log and state, `workflow/event.go`, `state.go` | a log of numbered events, its fold | Apply, Fold | runner, clients |
| workflow definition, `workflow/workflow.go` | steps, sessions, dependencies | Load, Validate, Ancestors, Prompt | runner |
| event feed, `workflow/broadcast.go` | a queue per subscriber | push, close, deliver | runner, SSE |
| run log store, `workflow/filestore` | one file of lines per run | Append (with the repair of a torn line), Events, Runs | runner |
| event stream, `workflow/sse` | the client's cursor | Stream | runner, HTTP client |
| harness session, `harness/session.go`, `exchange.go` | the open exchange, the journal cursor, a cancellation in flight, closed, exited | Send, cancel, route, record, Close | an adapter's Connection, the record store |
| event queue, `harness/queue.go` | pending events | Push, Close, pump | exchanges, stdio client |
| record store, `harness/filestore` | one file of lines per session | Put, Records | sessions |
| stdio client and process, `harness/stdio` | calls in flight, answers in progress, the process and its pipes | Call, Send, Notify, dispatch, shutdown, Close | the harness process |
| MCP bridge, `mcpbridge` | the response schema and its tool, listings, waiting requests of a tunnel | SetSchema, WaitListed, Deliver, Close | adapters, go-sdk |
| adapters, `claude`, `pi`, `opencode` | the context of the current run's tool calls, the schema | Prompt, Cancel, answer, Close | stdio client, bridge |
| cache, catalogue, model client, clutch | files or nothing | pure input and output, wiring | all of the above |

The hard parts are these. Goroutines of one run (its loop and its steps), of
other runs and of callers meet under two kinds of lock, and much of what they
decide is decided in one hold of a lock and done in the next. A Shutdown or a
Cancel may come at any point, and ends contexts rather than goroutines. The
process may crash between any two appends, and a new one resumes the log and
the sessions' records. An append may fail with its line written. Exchanges end
in usage limits that pause a run until a time. Slots are shared by all runs and
a slot that is freed must wake whoever waits for one.

What makes the parts correct:

- runner: a log keeps the order of the workflow and of each step, and what it
  decided stays; the state in memory is the log's; no session carries two
  exchanges; the limit holds; work is done once; a run ends as its steps did;
  nothing of a run goes on when it has ended; every run the runner has leaves
  it; a Cancel that returned nil ends the log.
- store: an event reported written is read back after a crash, and none twice.
- feed: a subscriber gets every logged event above its cursor once, in order,
  and then the end of the stream.
- session: a cancellation reaches its own exchange only; a record is stored
  before its exchange ends; no entry is claimed twice; an exchange ends once.
- record store: a record put is read back.
- stdio: each call gets exactly one response, the harness's when it answered.
- bridge: a response is accepted for the current schema alone; no prompt is sent
  over a stale list of tools.
- adapters: an exchange gets one turn, whole; a failure is blamed on a usage
  limit of its own turn; a session that failed to open or is closed leaves
  nothing behind.
- workflow: a workflow whose steps wait on each other never begins, and a prompt
  finds the results it reads.
- cache: the files a harness is given are whole.

`PROJECT.json` lists the hazards behind these, each at its line.

## The modules

| module | what it is |
|---|---|
| `RunLog` | the events of a run's log and Apply, as operators on folded states |
| `RunLifecycle` | the abstract specification: the moves a log may show its readers |
| `Workflow` | what Validate takes and refuses, with its search for a cycle, and Ancestors |
| `Runner` | extends `Workflow`; the runner: its loop, its step goroutines, its callers, crash and restart |
| `RunnerProperties` | what is checked of `Runner`, and `RunLifecycle` instantiated over its logs |
| `MCRunner` | workflows for TLC and the symmetry of the callers |
| `RunnerProofs`, `RunnerLifecycleProofs`, `RunnerOnceProofs`, `WorkflowProofs` | the proofs about the runner and about Validate's search |
| `Session` | a harness session over an external harness, Pi's journal and the record store, closed or crashed and opened again |
| `SessionProperties`, `MCSession` | what is checked of `Session`, and its instances |
| `SessionProofs` | the proofs about a session |
| `EventLog` | the abstract specification: what a store promises of one run's log |
| `RunFile` | the file of a run: Append in its steps, what a failure or a crash leaves, the repair |
| `Queues` | the queue between a producer of events and a slow consumer, with its goroutine |
| `Feed` | composes `RunFile` and `Queues`: a run that is logged and published, and clients that follow it over HTTP |
| `FeedProperties`, `FeedProofs`, `MCFeed` | what is checked and proved of `Feed`, `RunFile` and `Queues`, and the instances |
| `Codecs` | what the three adapters make of a line their harness writes, as functions of the codec's state |
| `StdioClient` | extends `Codecs`; the client's calls, the goroutine read, the answers in progress, the process |
| `Bridge` | extends `StdioClient`; the MCP server, its tunnel and endpoint, Pi's dialogs |
| `Cache` | the entry of the cache that Open fills while another process does |
| `Adapter` | composes `Bridge` and `Cache`: Open, Prompt, Cancel and Close of each adapter, and its harness |
| `AdapterProperties`, `AdapterProofs`, `AdapterTurnProofs`, `MCAdapter` | what is checked and proved of `Adapter`, and its instance |

### How `Runner` corresponds to the code

A log is represented by its fold. The store hands a log back only to have it
folded, and tells a stale writer by the number of the last event alone; `disk`
is the fold of the stored log and keeps that number as `seq`, so an append is
taken when the number follows, exactly as in the store, even by a writer whose
state differs. `mem` is `run.state`.

Each goroutine has a program counter: `loop[r]` for the loop of a run (or the
call that registered the run and has yet to launch it, "new"), `pc[s]` for the
goroutine of a step, `call[c].pc` for a caller. An action is what one goroutine
does between two points where another can come in: one hold of `run.mu` or
`Runner.mu`, one append, one blocking call. Where the code looks at a context
twice, so does the model (`EndInterrupted` and `EndClassify` are the two cases
of the switch in `run.end`). `run.inflight` and `run.busy` change only together
and are derived from `pc`. The loop starts its ready steps one by one under one
hold of `run.mu`; at the program counter "start" it holds the lock, and the
steps of that run, which all need it, wait.

A harness session is external. What is kept of it is the exchange a step
follows (`x`, ended by `ExchangeEnds` at any time in any way the code can see)
and the records that `adopt` accepts (`recs`): an exchange that ended well left
one, whether or not its step lived to log it.

The store's faults: an append that would be taken may fail, and then may or may
not have been written (`Fault`). A crash (`Crash`) takes every goroutine and
keeps logs and records. `Restart` is a new `Runner` after a Shutdown that
waited for all runs. Callers make one call each and may make it in any state.

Left out: the texts and results of steps, subscribers and live events (a
subscriber never holds a run up), the reads State, Runs and Wait, contexts that
callers pass (they bound nothing but the caller), sessions that fail to close.
A context ends with all its children at once. `Shutdown` closes and ends the
contexts in one step; a Cancel between the two has the same effect as one
before. What a run keeps when it is forgotten is cleared. A step that is done
may still be releasing its session when its run is forgotten; the model lets it
finish. A run that was dropped before it launched is closed and forgotten in
one step.

`Workflow` works on workflow values of the shape of the Go struct. `Cycle` is
the depth-first search of `Workflow.cycle`, one step of it after the other
(`Visit`), with the calls of visit under way as a stack (`path`), so that no
operator is recursive. `Runner` takes one workflow for each run, `Workflows`;
Start refuses one that is not valid (`Accepted`), and `WorkflowsAssumption` says
that `Steps`, `Sess`, `After` and `Rank` are those of the workflows. Names, prompts and schemas are taken to parse. A prompt is
rendered only with the results of `Ancestors` (`HasResults`), as in Prompt.

### How `Session` corresponds to the code

The fields of `harness.Session` are variables of the same names; `cancelling`
holds the exchange rather than a channel. `send[y]`, `hook[y]` and `route` are
the program counters of a call of Send, of the goroutine of its exchange's
cancellation and of the goroutine route; `rx` and `rev` are what route has at
hand. An action is again one hold of `Session.mu` or one call of the
Connection, the Journal or the Store. `Send` is the look at `cancelling`,
closed, exited and open, and the opening; `ResyncCursor`, `Prompt`, `Prompted`
and `SendFails`, `FailSend` are the rest of the call. `Cancel` is the look that
decides, `MarkCancelled` the mark, and `CallCancel`, `CancelReturns`,
`CancelFails`, `CancelOver` the goroutine. Route takes an event (`RouteTakes`),
and for "ended" goes through `RouteUnanswered`, `Bind`, `Put`, `Release` before
it pushes the event (`RoutePushes`); when the Connection's events are over it
goes through `RouteExits`, `ExitPut`, `ExitFail`.

The journal is Pi's, which alone keeps one: `Newest` and `Since` are its Head
and Since. The store is the one in files: `records` are the file's lines, `rest`
what follows the last newline. Put appends whatever the file ends in
(`PutLine`); one that fails, or whose process dies, leaves nothing, part of its
line, all but the newline, or the line (`PutPart`); Records fails on a line that
does not decode, and NewSession with it (`Readable`).

The harness is external and is taken from what the adapters rely on. It reads
the lines written to it in order (`inbox`), carries one run at a time, appends
to its journal only while it runs, and ends each run with one "ended". A
"prompt" is Pi's, which is answered, accepted or refused; a "message" is that
of Claude Code and OpenCode, whose Prompt returns once it is written and whose
harness starts on it when it is idle. A cancellation takes `Trips` round trips,
the last of which aborts: Pi's clear_queue and abort are two, an interrupt or
session/cancel is one. The journal keeps its order, and loses only its tail,
only while no harness runs.

A session is opened again (`NewSession`) once the calls of the one before have
returned, or its process has died (`Crash`). The store's Put and the journal's
calls fail at any time within `MaxFaults`, and fail as they must once Close has
ended their context or the harness has exited.

Left out: which error an exchange gets beyond "unanswered" and "other", usage
and text, a record above `maxRecord`, the queue between an exchange and its reader, Wait, the checks of the
request before Send takes the lock, a session without a store or a journal
(whose exchanges are a special case: nothing is bound or stored). The caller's
context matters in two places: a Send that waits may give up (`GiveUp`), and an
exchange is cancelled when it ends, which is `Cancel` at any time.

### How `RunFile`, `Queues` and `Feed` correspond to the code

`RunFile` has the bytes of a run's file as `lines`, which end in a newline, and
`rest`, which does not: nothing, an event that lacks only its newline, or
Garbage. `tail` is one action (`ReadTail`), since it runs under the Store's
mutex; the rest of Append is one action per system call, each of which may
fail. A write that fails leaves nothing, part of the line or all of it, and so
does a process that dies in it. A crash of the host keeps what was synced, any
more of the lines, and perhaps the torn next one; it may take the whole file,
with all that was reported, when the disk has no way to it: `entry` says that
the Store's directory names the file there, which `syncDir` sees to, and `home`
that the directories above lead to that one, which Append's `MkdirAll` may have
just made and nothing in the code ever syncs. `Homes` says what `home` may be at
first; only a crash of the host, after which what is there is on the disk,
settles it. `Process` says which writers share a Store, so a mutex (`Unlocked`).
`reported` is what callers were told, which is no state of the code.

`Queues` is `queue` and its goroutine: `items` are `q.items`, `batch` what
`deliver` has taken, `dpc` where it is, `signal` the buffered channel.
`EventQueue` of `harness/queue.go` is the same machine.

`Feed` keeps of the runner what its readers can tell: whether the run is in
`Runner.runs` and has finished (`reg`), which object it is (`gen`), the number
and kind of the last event of its state (`mem`), its subscribers. A run's mutex
is held through `run.log`, so `Free` and `Sees` wait while the loop's Append is
on its way. Subscribe looks the run up (`Look`) and takes its mutex afterwards
(`Attach`), when the run may have finished, be forgotten or be another one.
State's two looks are one action: its answer is used only if the run has ended,
which no later look takes back. Which events the run logs is any choice (`Log`);
`Runner` has the scheduling. Client and server are the two ends of `cpc`: a
client's cursor is the id of the last logged event it got, and it connects
again whenever its stream ends, until it is answered 204. A log or queue of a
run that is forgotten, and what an Append used, are cleared where nothing reads
them any more.

Left out: two Resumes at once, keepalives, the texts of events, an event above
`maxEvent`, more than the lock between two processes (the tail of one is a
single step, so more can go wrong there than the model has).

### How `StdioClient`, `Bridge` and `Adapter` correspond to the code

One variable, `harness`, says whose adapter a behaviour is about; it never
changes, and the three share what their code shares. `call[c]` is where the
caller of Call, Send or Notify is, `chan[c]` all that was ever sent on its
channel, `reader` where `Client.read` is. Dispatch removes a call from `pending`
in one step and sends its response, and pushes the events, in the next
(`Resolve`), so a caller that gives up and the process's exit come in between.
`at[r]` is where the goroutine that answers a request of the harness is; it goes
from the adapter's handler into Deliver or the endpoint ("taken", "pushed"),
into the go-sdk server ("listing", "listed", "running"), and back ("answered").
`seen` are the events pushed for the exchange.

The codecs keep of a line its type, the call or request it names, the tool and
how it ended. `Verdict` is what makes a respond call count: the harness reports
it done, and the result it quotes is the bridge's own word.

The adapter's `step` goes through the steps of Driver.Open, each of which may
fail (`OpenFails`); `held` is what they have made. `prompting`, `cancelling` and
`closing` are where Prompt, Cancel and Close are. WaitListed may run out of time
at any moment; `late` says that it did since the tool last changed, for a
prompt that asks for the same tool again does not wait. The session above is kept to what it promises: one
prompt at a time, not before the cancellation of the last is over, one
cancellation of each, Close at any time.

The harness is external. It answers each call once, carries one run at a time,
makes one call of a tool or asks one permission in a run, lists the tools once
by itself and again for each change, one listing after the other, and may exit
at any time. Only a cancellation stops its run, and `aborted` is the line that
did. What it reports of a respond call need not be the bridge's verdict,
and the respond tool it calls may be one it learned earlier. OpenCode shows a
call pending, or running twice, and starts a session by a load that replays
updates. session/new is a load that replays nothing, and the options name a
model; neither is told apart.

`Cache` has one entry, named by its content, and two writers: Open and a
session of another process, which may stop anywhere. Dir is a step per look or
change at the file system. The entry is followed only while Open is at the step
that writes files. Nothing else writes under the root, but a crash may have left
the entry damaged.

Left out: the messages a server sends by itself (outbound) and notifications,
the HTTP of the endpoint, deltas, usage and texts, the arguments, environment
and files Open builds, processes outside the harness's group, which only delay
the end of its output, and which error a call gets.

### Bounds

`MaxNow` (the clock), `MaxLimits` (exchanges that end in a usage limit),
`MaxFaults` (failed appends), `MaxShutdowns` and `MaxCrashes`; the callers make
one call each, so their number bounds the calls. One workflow of two or three
steps is enough for every relation the scheduler looks at: a step after
another, two steps of one session, two steps side by side. Two runs compete for
slots. One fault or one crash is enough, since after it the run is either over
or indistinguishable from one resumed afresh, and every resume needs a caller.

Of a session: two exchanges, since a property relates an exchange to the next
one; `MaxEntries` per run, `MaxFaults` failed calls, lost entries, exits of the
harness that nobody asked for or crashes, `MaxOpens` sessions over one journal.
`Partial` says whether a Put that fails may leave part of its line, which
matters only to the next Put and the next session, so `session_live`, which
opens one, is without.

Of an adapter: two prompts with different schemas, since what is stale is of the
one before; a listing before and one after the change; a call in the second run,
where the respond tool may be the first's; `MaxTroubles` is one cancellation,
call given up, early Close or exit of the harness, each of which may come at any
point. Two steps of a workflow make the shortest cycle; the search is checked on
all 4096 ways in which three steps can come after each other.

Of a feed: three events, and an end after them, are a start, one that pauses or
not, and an end; one failed call, one crash, two takings-up of the run and two
requests of a client put each at every point of the others. One client is
enough: clients share nothing but the run that pushes to all. `stream` begins with
the Store's directory on the disk or not, and its one crash and one failed call
come in any order, so a file that is gone is begun again. `stream_unsynced` has
the directory on the disk, so that what it shows is the missing sync of the file's
name alone.

## The runs

| run | instance | checks |
|---|---|---|
| `runner_faults` | two steps side by side, one slot, three callers, a failed append, a crash | `TypeOK`, `MemoryIsALog`, `NoWorkOutlives`, `DecidedStays`, `LogsKeepTheirPromise`, `FailureStartsNothing`, `EndIsAccounted` |
| `runner_shared` | two steps side by side and a third after one of them in the session of the other, a Shutdown, and a second workflow that is circular | `OneExchangeEach`, `WorkDoneOnce`, `PromptsRender`, `LogsKeepTheirPromise` |
| `runner_live_slots` | two runs of a step each, one slot | `WithinLimit`, `RunsEnd` |
| `runner_live_cancel` | one step, two callers, a Shutdown, a usage limit | `RunsStop`, `CancelEnds` |
| `runner_cancelled_unasked` | one step, a Shutdown | violates `CancelledOnRequest` |
| `runner_pause_lost` | two steps side by side, two usage limits | violates `PauseIsKept` |
| `runner_outlived` | one step, one slot | violates `NoHarnessOutlives` |
| `session` | two exchanges of a harness that does not answer prompts, one with a schema, an entry each, a failed call, lost entry, exit or crash, two sessions | `TypeOK`, `EntriesTheirOwn`, `RecordedBeforeEnd`, `JournalHolds`, `CancelledOwesNothing` |
| `session_live` | two exchanges of a harness that answers prompts, cancellations of two round trips, a failed call or exit | `CancelReachesItsOwn`, `EventsTheirOwn`, `ExchangesEnd`, `CancelsEnd` |
| `adapter` | each of the three adapters, two prompts, two listings, a call, one trouble | `TypeOK`, `FilesAreWhole`, `OneResponse`, `NoStaleTool`, `ResponseIsAsked`, `LimitIsTheTurns`, `TurnIsWhole`, `NothingLeft` |
| `stream` | one client, one process, a failed call, a crash of the process or host | `TypeOK`, `LogIsNumbered`, `StreamIsLog`, `StopsComplete`, `NoEventBetween`, `StreamIsFed`, `NoLostWake`, `FileKeepsItsPromise` |
| `stream_unsynced` | a failed call, a crash of the host, the directory on the disk | violates `ReportedIsKept` |

`LogsKeepTheirPromise` is the refinement: the statuses of the stored logs, as
their readers fold them, behave as `RunLifecycle` says, whatever process or
caller wrote the events. It says in particular that a step never begins before
those it comes after are done, that only a step that began is done, and that a
run ends done only with all its steps and failed only with one of them.

`MemoryIsALog` is the invariant behind the store's check: a state in memory
with the log's number of events *is* the log's state, so comparing the numbers
is enough. `EndIsAccounted` looks at the step in which a run's own loop logs its
end: failed just when a step of the log has failed, done only when all are, also
when the run was resumed after a crash that lost what the loop knew (a Cancel of
a run no Runner has logs it cancelled whatever its steps did, and is not spoken
of). `WorkDoneOnce` counts the exchanges of a step that ended well: one,
and one more for each crash or failed append, which can lose the step_started
that adoption needs. `NoWorkOutlives` says which goroutines may be left when a
loop is over, `NoHarnessOutlives`, which fails, that none is.

Of a session, `EntriesTheirOwn` is what the cursor and resync are for: a record
names all the entries of its own run or none, also when bindings fail, when a
process dies between a run and its record, and when another session takes over.
`JournalHolds` says that looking for the last recorded entry alone, as `verify`
does, is enough. `CancelReachesItsOwn` is the reason `Session.cancelling`
exists: a round trip may time out with its line still unread, and the line must
not be read in the next exchange's run. `EventsTheirOwn` is the reason Prompt
runs under the session's context and not the caller's.

`RecordedBeforeEnd` lets out every exchange of a file in which some line ran into
what a failed Put had left, which the code does not prevent (see below): with two
exchanges that is the one whose line it was, with more it says less.

`PromptsRender` joins Validate and the loop: a workflow no order of whose steps
exists never begins, and a step that goes on to its prompt finds the results
of all it depends on, also when it is resumed or when what it depends on was
adopted. `SearchIsRight` compares `Cycle` and `Ancestors` with definitions that
do not search.

Of an adapter, `OneResponse` is what lets a sender and a caller use one channel
of one place without a lock, and says that an answer the harness gave is not
lost to its exit. `NoStaleTool` is why a listing counts for the generation it
began in. `ResponseIsAsked` holds although the harness may call a respond tool
of the exchange before: `handleRespond` refuses it, and the codec takes the
bridge's word and not the harness's. `TurnIsWhole` covers what each codec does
with replays, repeated updates and a Prompt that fails. `FilesAreWhole` says
that a rename at the end is enough against writers that race and stop anywhere,
but for a process that found the entry damaged (see below). `LimitIsTheTurns` is about the notice of a limit
that Claude Code writes ahead of the result.

Of a feed, `FileKeepsItsPromise` is a refinement again: what readers get of the
file behaves as `EventLog`, a log that only grows, ends once, and is cut only when
the host crashes. A crash takes what no Append reported; it takes reported events
too, all of the log, when the log has no place on the disk: not `named` in its
directory, or that directory not `rooted` in those above. An Append that reports
the first event names the log, and a crash settles both. `ReportedIsKept`, the
stronger promise of Append's comment, is violated. `NoEventBetween` is what
reading the log and registering in one hold of `run.mu` is for. `StreamIsLog`
follows a client through all its streams, so it also says that an event the
client got, which was never reported written, is not replaced by another; only
a crash of the host can do that, and a client it did that to (`lost`) is let
out. `StreamIsFed` is what `finished` is for.

The safety runs check for deadlock; `Terminated` is the only
stutter of each, where nothing is left to do. The liveness runs do not: there the
system really stops, and that every run ends or leaves the runner says more.

### Fairness

Weak fairness for each step goroutine, each loop, each call that began, for the
end of each exchange and for the clock. The Go scheduler runs a goroutine that
can run; a lock is held for a bounded time; an append has a time limit; and a
harness is taken to end an exchange it accepted. Nothing makes anyone call the
runner, shut it down or crash it, so no fairness is given to those.

Of a session: weak fairness for the steps of a Send that has begun, of a
cancellation and of route, each of which is bounded by a time limit or by the
harness; the harness reads its input, ends every run it began, and exits once
Close has closed its input. Nothing makes anyone call Send, Cancel or Close.

### Where the code and its comments part

Each of the four violation runs is a counterexample to a comment.

- `runner_cancelled_unasked`: `run.end` asks `interrupted()` first and
  `ctx.Err()` next. A Shutdown between the two has the step logged cancelled;
  the next runner's `settle` takes that as decided, and the run ends cancelled.
  The comment of `end` says that an interrupted run logs nothing.
- `runner_pause_lost`: the loop finds the pause over, unlocks, and then logs
  run_resumed; another step's limit, logged in between with a later Until, is
  undone by it.
- `runner_outlived`: the loop ends a done run without waiting for `inflight`.
  With a limit, `Runner.release` wakes it before `run.release` has closed the
  idle session, and Wait and Shutdown return ahead of the closing harness,
  which the comment of `release` rules out.
- `stream_unsynced`: Append syncs the directory only when its own tail found the
  file empty. When the first Append stops between Sync and syncDir, no later one
  does, and a crash of the host takes the file with what they reported; the
  comment of Append says that the crash keeps it.

More were seen in the model and have no run of their own. In the runner and its
store: `finish` sets
`run.err` for a run whose end was logged when a Shutdown comes before it, which
the comment of the field denies; a cancelled run whose run_ended cannot be
appended stops with no error, since the context's first cause stays
ErrCancelled; Cancel of a run that has logged its end and is not yet forgotten
returns nil where ErrRunEnded is meant for a run that has ended; and Resume of
a paused run, which logs nothing, can launch a run whose log another process or
caller has ended since it was read. Append makes the Store's directory if there is
none and never syncs the one above, so a crash of the host can take the directory
though every call succeeded (with `Homes` = {FALSE} `ReportedIsKept` fails without
a failed call). And the comment of `ErrSequence` says that the second of two
processes to append fails, but each compares its number with the tail it read
under a mutex of its own, and both may write: with two processes in `Process`,
`LogIsNumbered` fails.

Below the runner:

- A Put of the record store that fails part way leaves part of a line. The next
  Put appends to it and reports success, and from then on Records fails and
  NewSession with it, so the session cannot be opened again. The comment of
  `Store.Put` says that it adds the record to its session's; `workflow/filestore`
  has a repair for this, `harness/filestore` has none.
- The cache says that no session's files change under it. A process that found
  an entry damaged removes it after another has made it whole and handed it to
  its harness; until it has written it again, those files are gone.
- WaitListed returns once the listing is answered inside the server, before
  the answer is written to the harness's input, so the prompt can overtake it.
- A tool call of Claude Code whose goroutine reads `c.run` late runs under the
  context of the next exchange, and a cancellation of its own no longer ends it.

## The proofs

### The runner

For every set of runs, steps and callers, every workflow, limit and bound. All
safety invariants, the three action properties and the refinement are proved;
the three liveness properties are left to TLC.

- `TypeCorrect` (`RunnerProofs`): `TypeOK` is inductive as it stands; it
  includes that `slots` stays within the limit.
- `MemoryCorrect`: `MemoryIsALog` speaks only of registered runs and of callers
  that hold a state; the inductive `LogInv` adds that the state of any other
  run, Empty, is behind its log too, which needs that a log with no event *is*
  Empty. Each step is shown to let a log grow by one event or stay
  (`LogsGrow`), and to leave a state in memory, make it the new log's, or
  replace it by one that is behind the old log (`MemKeeps`); these three facts
  give the next `LogInv` (`Keeps`).
- `ExclusionCorrect`: `ExclusionInv` is stronger than `OneExchangeEach`: no two
  steps of a session are *in flight*, from the launch to the end of release,
  and a step has an exchange only at the program counters "started" and
  "follow".
- `LimitCorrect`: `WithinLimit` follows from `SlotsHeld`, that the tokens count
  the steps which have yet to give one back, and from the exclusion's second
  part, that a step with an exchange is one of those.
- `WorkCorrect`, `EndCorrect`, `PromptsCorrect`, `DecidedCorrect`,
  `FailureCorrect` (`RunnerLifecycleProofs`): `NoWorkOutlives`,
  `EndIsAccounted`, `PromptsRender`, `DecidedStays` and `FailureStartsNothing`.
  They follow from one invariant, `AllInv`, which adds `LifeInv` to those above:
  where a step may be while its loop is over (`WorkInv`); that at most one call
  is between registering a run and launching it, and what a call that holds a
  state may do with it (`CallInv`); that a loop that stops for a failure has a
  failed step, and one that ends a run has none left (`StopInv`); and what a log
  itself looks like, a step running only after those it depends on are done
  (`SoundInv`, `KnownInv`). Each event is shown to be one that may follow in the
  log as it is (`MayFollow`), so that the log's part of `LifeInv` is a fact about
  `Apply` alone. For `EndIsAccounted`, no call moves a loop and ends the log of its
  run (`CallEndsNone`), a loop that ends it has the log's own state
  (`LoopWrites`), and by then no step is between its failure in the log and the
  run's (`Quiet`), so the two agree (`LoopAccounts`).
- `PromiseCorrect`: `LogsKeepTheirPromise`, the refinement of `RunLifecycle`:
  the empty logs map to its Init, and each step that extends a log maps to one
  of its actions or to a stutter, from the same `MayFollow`.
- `OnceCorrect` (`RunnerOnceProofs`): `WorkDoneOnce`. `Budget` counts, for each
  step, the exchanges that ended well and those that may still (`ToCome`), and
  says that the crashes and failed appends so far pay for all but one. Three
  parts keep it: a loop that may start a step knows of the steps what its log
  does (`Together`), an exchange's number is one the harness gave (`Numbered`),
  and a step sends only when its result is nowhere and follows an exchange the
  log or a record will know (`Fresh`).
- `SearchCorrect` (`WorkflowProofs`): the depth-first search of Validate finds
  no cycle just when the steps can be put in order, what it finds otherwise is a
  cycle, and `Ancestors` gathers exactly what a step depends on. The state of
  the search after n visits is a function of n; what holds of each is shown by
  taking the least n at which it would not, which needs no induction rule over
  an operator.

They assume what `Runner` assumes of its constants: that steps, their sessions,
order and ranks are those of the workflows, finitely many steps, and natural
bounds. They do not need the workflows to be without a cycle.

### The feed

`WakeCorrect` (`FeedProofs`), `NoLostWake`, which with the queues' types is
inductive, holds without a hypothesis: only `Take` goes to sleep, and only over
nothing. The others suppose `OneStore`, that the run's loop and a Cancel write
through one Store, as within one process; two processes, as said above,
break `LogIsNumbered`, so the hypothesis is needed.

- `LogCorrect`: `LogIsNumbered`. The inductive `FileInv` adds that a line
  without its newline is garbage or the next event (`Numbered`), that the file
  stays as tail left it until its writer writes (`TailHolds`), which is where
  the mutex is used (`Alone`), and that what is synced is there. One lemma for
  each step of an Append, for a crash and for a crash of the host.
- `FileCorrect`: `FileKeepsItsPromise`, the refinement of `EventLog`. `LogInv`
  adds to `FileInv` that no event follows the end of a run and what an Append
  in progress knows of the log. Each step extends the log by its writer's
  event, reports one that is on the disk, takes back what was never reported, or
  is a stutter; one that takes the whole log finds it without a place on the
  disk. For that, `PlaceInv` says that only an Append whose tail found no event can
  be the first to report one, and that one goes by the sync of the directory.
- `FeedTypeCorrect`: `TypeOK`, with the bounds.
- `StreamCorrect`, `StopCorrect`, `ReplayCorrect`, `FeedCorrect`:
  `StreamIsLog`, `StopsComplete`, `NoEventBetween`, `StreamIsFed`. All four
  follow from `StreamInv`: what a client got, followed by what its queue and
  the goroutine hold, is the beginning of the log, up to the state its run had
  when it was registered and on; a subscriber's run is running. One lemma for
  each step of a client, of the loop and of a crash (`ClientOK`).

### The session

For any number of exchanges, round trips, entries, failures and openings; the
assumptions are those of `Session`: that "none" is no exchange, that a
cancellation has a round trip, and natural bounds.

- `SessionTypeCorrect` (`SessionProofs`): `TypeOK`. What it needs besides: a
  cancellation has round trips left before it begins one, the cursor names an
  entry the journal holds, and route carries an exchange from taking its end to
  pushing it.
- `EventsCorrect`, `CancelCorrect`, `CancelledCorrect`: `EventsTheirOwn`,
  `CancelReachesItsOwn` and `CancelledOwesNothing`. None of them is inductive;
  together they follow from `Apart`: what the harness has of an exchange, a
  prompt to read, a run or events, is the open one's, or the session is closed
  and opens no other; it has nothing of an exchange it has not accepted; while
  route ends an exchange the harness is idle; a cancellation in flight is the
  open exchange's or the last one's; and an exchange is marked before the
  harness hears of its cancellation. One lemma for each goroutine.
- `RecordCorrect`: `RecordedBeforeEnd`. The invariant
  adds that an exchange on record is not open, or route is between its Put and
  its release, and that an end is pushed over a record or a loss.
- `EntriesCorrect`, `JournalCorrect`: `EntriesTheirOwn` and `JournalHolds`. The
  heart of `JournalInv` is `CursorOwn`: a cursor that is not stale is followed
  in the journal by the entries of the open exchange and no others, until they
  are bound; and `OrderOwn`: a journal that holds the last entry of a record
  holds, before it, what every earlier record names. That is why looking for
  the last entry alone is enough: a journal loses its last entries first.

### The adapters

For each of the three harnesses, any list of prompts, any set of requests, and
any number of troubles (`AdapterProofs`; the last three, which are about the
content of a turn, in `AdapterTurnProofs`). They assume what `Adapter` assumes of
its constants: which calls the driver makes, that the harness may ask for each
prompt's schema, and that a respond tool has no other meaning. The run's seven safety
invariants and the types are proved.

- `CacheCorrect`: `FilesAreWhole`. `CacheInv` says that a writer past its own
  removal leaves no damaged entry unless the other has begun to remove it.
- `LeftCorrect`: `NothingLeft`. `HeldInv` says what Open has made at each of its
  steps and what Close has still to undo at each of its own; that the steps of
  the three Opens come in the order the code has them is `OpenEach`.
- `ResponseCorrect`: `OneResponse`. That a channel gets one response is
  `ClientInv`: a call is in `pending`, in the hand of read, or answered, and in
  one of these only (`CallOnce`). That an answer given is not lost to the exit
  needs the output too: a call the harness has answered has its response in a
  line not yet read, in read's hand, or in its channel (`ExitUntold`), which
  rests on what the codecs make of each line the harness may write (`LineInv`,
  with one lemma for each thing the harness does) and on Lines being over only
  when the output has been read.
- `AdapterTypeCorrect`: `TypeOK`, whose bounds come from `PromptInv` (a change
  of tool comes with a prompt; a listing counts for a change that was) and from
  `LineInv` (a run, and the line that stops it, are of a prompt that was sent).
- `ToolCorrect`: `NoStaleTool`. The invariants are of a server that is up
  (`Live`). It lists the tool that is set (`ServesInv`), and each listing is
  asked for once (`AskedInv`). Then, by `ListInv`: a listing of the generation
  as it is shows the tool as it is; one that made `listedGen` the generation as
  it is has been answered; and once a prompt need not wait any more, `listedGen`
  is the generation or no listing began before it. The last part is where the
  prompt's wait, and its condition on the tool's change, are used.

- `LimitCorrect`: `LimitIsTheTurns`. Below it, as below the next two, lies
  `GroundInv`: what the harness has not answered has no response anywhere
  (`ToldInv`), a prompt whose call failed was not sent, was refused, or lost its
  harness (`SentInv`), and a history that OpenCode replays has been read before
  the session opens (`LoadInv`). On it stands `CourseInv`, the course of a turn:
  - `AskInv`: the prompt's line waits to be read once at most, and no other
    prompt's does;
  - `NotRunInv`: while the harness has not begun on a prompt, or Pi has refused
    it, nothing of a turn is in the output, in the codec or told;
  - `BetweenInv`: nothing is under way between exchanges, unless the session
    closes or the output is over;
  - `OrderInv`: the lines of a turn come in the order of their `Rank`, and none
    comes that the run has not reached;
  - `EndedInv`: what ends an exchange is told last, and nothing of the turn is
    left then.

  `LimitInv` then says that a limit told, or still to be read, is the last run's,
  and that one the codec noted before, which may be an earlier turn's, is
  forgotten when the run's first line is read, ahead of the end that would show it.
- `TurnCorrect`: `TurnIsWhole`. `TurnInv` says what has been told when the
  output shows a given line: the start is in the output or told (`StartInv`); the
  run's one call is in the output, held by the codec until its result because it
  is a respond tool's, or told (`CalledInv`), and for OpenCode, which shows a call
  more than once, `called` is what tells the second time from the first. Lines
  in order and a call told before its result are the rest.
- `StructuredCorrect`: `ResponseIsAsked`. `StructInv` says that a report the
  codec will take for an acceptance is of the prompt's own tool. For Claude Code
  and OpenCode this comes from the server: it accepts a call for the tool as it is
  (`AcceptInv`), that is the prompt's from the schema's change on (`SetInv`), and
  the run's call was not asked before the run (`LaterInv`). Pi accepts inside its
  own process; there it comes from the dialogs: a run asks for its schema once and
  waits for the answer (`DialogInv`), so what Pi knows while it runs is the
  prompt's tool (`LearnsInv`).

### What stays with TLC

Liveness under fairness (`RunsEnd`, `RunsStop`, `CancelEnds`, `ExchangesEnd`,
`CancelsEnd`), which this prover cannot treat. Every safety invariant, action
property and refinement that a passing run checks is proved.

### What the proofs found

- `Runner`: the switch of `run.end` was first written as a CASE whose guards
  overlap, which TLC takes in order and TLAPS rightly does not. It is now one
  guard after the other, as in the code.
- `RunFile`: a crash of the host that took a file whose directory was not synced
  kept `reported`, which is right after the first crash and wrong after a second.
  With `MaxCrashes = 2` TLC shows it too.
- `Adapter`: `late`, whether the wait for the tool as it is ran out of time, was
  forgotten at the next prompt even when that prompt asked for the same tool and
  so did not wait (`if respond != before`, `claude/connection.go`). With two
  prompts of one schema `NoStaleTool` then fails, in the model. It is now forgotten only
  when the tool changes; the property says what the code promises, no more.
- `Adapter`: a respond tool named "error" would be taken for the error with which
  Pi's harness is told that no schema could be had, and Pi would go on with an
  earlier prompt's tool. That is a clash of names in the model and not in the
  code, where a schema and a failure are different answers; `ToolsAssumption`
  now rules it out.
- The constants' assumptions of `Feed` and `Adapter`, which TLC had only met
  with one value each, are stated.

## Not modelled

- Tool and skill catalogue, model client: a call reads files, runs a command or
  makes one HTTP request, and keeps nothing between calls.
- The command line, conformance and scenarios: wiring, output, and checks of a
  live harness, which are tests themselves. Of the workflow service, what
  matters of shutdown and resume is in `Feed`.
- Pi's extension runs inside Pi; its dialogs are requests of the harness.
- Of the adapters: what Open writes and passes to its harness, outbound
  messages of the MCP server, deltas, usage, texts. They decide nothing that is
  modelled. That a harness uses no id of a request again while it or its
  cancellation is open is assumed of the harness.
- Of Claude Code's ways to tell a usage limit, only the notice that comes ahead of
  the result. The HTTP status and the wording of the message (`turnError`,
  `claude/codec.go`) are in the result itself, and the codec keeps nothing of them.
- Signals, process groups and pipes held by processes outside the group are
  the operating system's; they only delay the end of the output.
