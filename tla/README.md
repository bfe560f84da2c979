# deckpilot: a TLA+ model of the daemon and its commands

deckpilot is a Go daemon for Windows that watches terminal sessions (Ghostty windows
with an agent CLI inside), answers CLI commands about them over a named pipe, and fires
hooks when a session finishes or hangs; commands beside it launch sessions, work through
a checklist, approve prompts and clean up.  This directory models the parts of both
whose correctness depends on the order in which goroutines, processes, pipes and the
disk act, checks them with TLC, and proves the main results with TLAPS.  Paths and line
numbers refer to `src/`; `PROJECT.json` maps every definition to the lines it stands
for.

## The system

| Component | State it keeps | Operations | Talks to | What is hard |
|---|---|---|---|---|
| Session watcher (`daemon/watcher.go`) | per session under `w.mu`: status, lastStatus, lastHash, stableCount, deadRetries; `reqCh`, `pauseCh` | `Run`, `poll`, `updateContent`, `handleRequest`, `FreshTail`, `FreshHistory`, `PausePolling`, `Revive` | the session's pipe; `onNotify` into the daemon | status machine under hangs, BUSY, outages, death and revival; several goroutines in `poll` at once |
| Idle-hook registry (`daemon/daemon.go`, `idle_hooks_persist.go`) | `d.idleHooks` under `d.mu`; one JSON file per hook | `AddIdleHook`, `executeStatusHooks`, `RemoveIdleHooks`, `ListIdleHooks`, reload in `New` | called by watchers and IPC handlers | memory half under the lock, file half outside it; crashes and restarts |
| Daemon core (`daemon/daemon.go`) | `d.watchers`, `lastUsed`, `lastNotify` under `d.mu`; `discoveryCh` | `Run`, `discoveryLoop`, `refreshSessions`, `addSession`, `snapshotSessions` | watchers, discovery, IPC | nested locks, sequential revival, a loop that must keep ticking |
| IPC server (`daemon/ipc.go`) | one goroutine per connection | LIST, SHOW, SEND, HOOK..., PING, SHUTDOWN | daemon core, watchers, pipe client | pausing a watcher, refresh inside a request, deadlines |
| Submit detection (`daemon/submit_detection.go`) | none | `ConfirmSubmit` | SEND | sampling a screen that two writers share |
| Self watchdog (`daemon/self_watchdog.go`) | last discovery tick | `selfWatchdog` | ends the process | must see every wedge of the loop |
| Singleton (`daemon/singleton_windows.go`, `EnsureRunning`) | named mutex, the pipe's name | acquire, take over a ghost's pipe, spawn, ping | CLI processes | several CLIs start daemons at once, while an old one ends |
| Hang detector (`daemon/hangdetect*.go`, `cmd/hangdetect.go`) | time of the last action | `probeOnce`, the chain of actions | LIST, WinAPI | acting again and again on one hang, or never |
| Callback policy (`daemon/policy.go`) | none | `ResolveCaller`, `ShouldRegisterCallback` | SEND | two snapshots of a changing session list |
| Pipe client, protocol (`pipe/client.go`, `protocol.go`) | none | `SendRecv`, `SendWithSubmit`, `WaitForAck`, classification | the terminal | retries of requests that are not idempotent |
| Discovery (`pipe/discovery.go`) | none; what it finds goes to `d.watchers` | `Discover`, concurrent PID probes | session files, processes | what runs is in the map only some time later |
| Conduct (`cmd/conduct.go`) | a checklist file | tick, dispatch, mark failed | LIST, launch | lost updates to a file several programs edit; crashes |
| Auto approvals (`cmd/autoapprovals.go`) | sentEnter, back-off | look, approve | SHOW, SEND | answering a question it has not read |
| Launch (`cmd/launch*.go`) | launch records, managed worktrees | list, open a window, claim the new name, record | LIST, git | taking another launch's window |
| Cleanup (`cmd/cleanup.go`) | none; removes records and worktrees | sweep by liveness, sweep orphans | LIST, git | sweeping what was launched a moment ago |
| wait-idle, watch, ghostmark, notify, list, show, send, hangdetect commands | none | loops over LIST and SHOW, one request each | IPC | formatting, mostly |
| WebSocket server (`daemon/wsserver.go`) | one goroutine per connection | forwards to the IPC handlers | IPC | none of its own |

How they interact.  A CLI command dials the daemon's pipe; a handler goroutine reads
`d.watchers` under `d.mu` and asks watchers for what it needs.  The discovery loop runs
`refreshSessions` and `pipe.Discover` every 10 s and sends what it found on
`discoveryCh` (capacity 1) to the goroutine that calls `addSession`, which starts one
`Run` goroutine per watcher.  `Run` polls twice a second; `updateContent` notifies the
daemon, with `w.mu` held, and the daemon's callback takes `d.mu`, collects and prunes
hooks, unlinks files, and dispatches.  A send or callback hook then runs in a goroutine
of its own, which queues a request at another session's `Run` (`Watcher.Send`) and
waits.  The commands share no memory with the daemon and none with each other: what they
know of the sessions is a LIST or SHOW that is old when it is used, and what they do to
each other goes through files, worktrees and the terminal's keyboard.

What makes each part correct is listed under *Modules* for what is modelled and under
*Plan* for what is not yet; `PROJECT.json` lists every hazard at its line.

## Modules

| Module | Models | State ↔ code |
|---|---|---|
| `HookRegistry` | what the hooks promise in one daemon life: a notification charges every matching armed hook and disarms the one-time ones, in one step | abstract |
| `IdleHooks` | the registry with its locks, files, I/O errors and restarts | `idleHooks` = `d.idleHooks`; `file` = the hook's JSON; `adding`, `toFire`/`unlinks`, `sweep`/`doomed` = where a call of `AddIdleHook`, `executeStatusHooks`, `RemoveIdleHooks` stands between its critical section and its return |
| `Watcher` | one session's watcher, every goroutine inside `Run` or `Revive` of it, and its terminal | `w` = the fields under `w.mu`; `pc[g]` = the point of `poll` a goroutine has reached; `screen`, `hung`, `pipe`, `alive` = the terminal as `poll` can see it |
| `DaemonLocks` | `d.mu`, every `w.mu`, and the goroutines that take them, those of send and callback hooks included, with the watchdog | `dmu`, `wmu` = holders; `asked`, `paused`, `batches` = `reqCh`, `pauseCh`, `discoveryCh` |
| `SubmitSend` | every SEND and every hook's message at one terminal, from the pause to the answer; the pipe client below it; the terminal, its agent and the Run loops around it | `at[s]` = where `handleSend` stands; `mode[s]` = with a loop paused, without, or a hook's message typed by a loop; `pollers` = the loops of the session; `base`, `pre` = `baselineHash`, `preEnterHash`; `repeats` = `stableRepeats`; `again` = in the second turn of `SendRecv`'s loop; `lane`, `prompt`, `submitted` = what the terminal has queued, what the agent's prompt holds, what it was given |
| `CallbackPolicy` | `ResolveCaller`, `ShouldRegisterCallback` and `registerCallbackHook` as operators on a set of snapshots | no state; a choice among sessions for the order of a map |
| `Discovery` | the daemon's session map, what feeds and prunes it, and a daemon that is replaced | `session` = `d.watchers` with each status; `found` = what is on `discoveryCh`; `proc` = the windows |
| `Launch` (extends `Discovery`) | launches at once | `known` = the names LIST had given; `claim` = the name taken; `meta`, `home` = the record's file and its cwd; `trees` = the managed worktrees |
| `Cleanup` (extends `Launch`) | both sweeps beside them | `phase`, `files`, `dirs` = where `Cleanup` stands and what it has read; `doomed` = the record whose worktree is gone and which is next |
| `Fleet` | their composition, and its properties | |
| `Conduct` | conductors, agents and users at one checklist | `file[i]` = the mark of a line; `body[c]` = the file as a tick has read it; `pc[c]` = where the tick stands; `open`, `late` = windows, those of users included |
| `Approvals` | who presses Enter at an agent's questions: auto-approvals, launch, the user | `screen`, `cached` = the prompt on the screen and in the watcher; `sentEnter`, `entersSent`, `backoff` = the variables of these names; `queue` = Enters at the terminal |
| `HangDetector` | the probe loop of `hang-detect` | `since` = time since `lastDispatch`; `action` = the action of the chain that runs |
| `Attendants` | `Approvals` and `HangDetector` at one window, with fairness | |
| `Singleton` | the processes `EnsureRunning` starts, the mutex and the pipe | `pc[p]` = where `Daemon.Run` stands; `handle` = open handles of the mutex; `pipe` = who has bound it |
| `IdleHooksProofs`, `WatcherProofs`, `DaemonLocksProofs`, `SubmitSendProofs`, `FleetProofs`, `ConductProofs`, `AttendantsProofs`, `SingletonProofs` | theorems and their proofs | |
| `MC...` | constants and symmetry for TLC | |

A critical section that nests nothing is one action; whatever the code does between two
critical sections can be interleaved with everything else.  History variables (`shots`,
`blame`, `note`, `owed`, `streak`, `quiet`, ...) are read by properties only, never by
an action's guard.

**IdleHooks.**  `AddIdleHook` is `Append`, then `CreateFile` and `FillFile` (or
`WriteFails`); `executeStatusHooks` is `CollectAndPrune`, one `Unlink` per one-time
hook, `Dispatch`; `RemoveIdleHooks` is `Clear`, `ListDir` (a snapshot of the directory,
as `os.ReadDir` takes it), one `SweepFile` per entry, `SweepDone`.  `Restart` stops
everything at any point and reloads the files that parse.  `blame[h]` records why memory
and disk may disagree about a hook: an I/O error the code logs and ignores, two
overlapping calls, or a crash.

**Watcher.**  `poll` is `CheckHung`, `AnnounceHung`, `SettleHung`, `TailOK` or
`TailFails` (and `Condemn` when the count of retries was reached), `Update`, `PollDone`;
`StatusOn` is the whole decision of `updateContent`.  A screen is a model value and its
hash is itself; whether it shows a progress spinner is its membership in `Spinner`.
`why[g]` says what made `g` poll, and so what it does next: a revival by
`refreshSessions` becomes a `Run` loop, a revival by SEND or SHOW does not.  A hung
notification is three steps, `lastStatus` read, announced and written with `w.mu`
released; `crossed` records that another goroutine fell into one.

**DaemonLocks.**  Statuses are not modelled; every outcome that depends on them is
possible at every poll.  The two nested paths are `walk`/`collate` (`refreshSessions`,
`listSessions` and `snapshotSessions`: `d.mu`, then each `w.mu`) and `notify`/`collect`
(`updateContent`: `w.mu`, then `d.mu`).  `SelfWatchdog` ends the process, which frees
everything: `TickStale` says only that an iteration of the discovery loop is under way,
since a time-out has no clock here.  A Run loop whose session is dead returns
(`RunEnds`) and leaves what is in its `reqCh` there; the next `refreshSessions` that
revives the session starts another (`LeaveRevived`).  A SHOW that revives the session
itself starts none, and then waits on a request nobody takes.  `SendHook` is the
goroutine of a send or callback hook: started by a notification (`Fire`), it looks its
target up under `d.mu` (`FindTarget`), reads its status under `w.mu`, queues its request
(`Queue`) and, like SHOW, waits for the answer without a deadline.  A second loop that a
refresh starts beside a first one is left out; two goroutines in `poll` are the subject
of `watcher_concurrent`.

**SubmitSend.**  `Baseline`, `Echoed` and `ConfirmSubmit` are phases 0, 1.5 and 3 of
`handleSend`; phases 1 and 2, the lone Enter of an empty message and the second Enter of
a slash command are requests, each one action of `SendRecv`: delivered, delivered with
the reply lost, or not delivered.  A request through the watcher's client waits for that
client's mutex (`ClientFree`).  A screen stands for its hash.  Loops bounded by time may
end at any iteration, because one TAIL can take the whole window.  `ServeHook` is the
message of a hook, which a free loop types and enters without looking at the screen.
`Join` is one more loop at the session, or a `Revive` that polls: a pause takes one
loop, and any free one polls and serves.  It and the faults share one bound.  `quiet[s]`
is a history variable: the reference screen of `s` shows its text and nothing but an
Enter has changed the screen since.

**CallbackPolicy.**  SEND takes a snapshot to decide and another one to register.  Both
resolve the caller; for a caller that is no session `ResolveCaller` answers with the
first active one, and the first of a Go map is another each time.

**Discovery, Launch, Cleanup, Fleet.**  A window's name is its process id, so a session
is its terminal.  `Reply` is a LIST: `refreshSessions`, which of the dead sessions
prunes those whose process is gone and revives those that answer a PING, and the names
that are left.  A launch is `ListKnown`, `OpenWindow`, `Claim` (a name LIST had not
given before), `WriteMeta`; it goes by the name alone, since explorer.exe starts the
window and its process id is never learned.  The cleanup reads a directory, asks for
LIST, and deletes one by one: the worktree of a record (`SweepTree`), then the record
(`SweepRecord`), then worktrees no record names (`SweepOrphan`).  `git worktree remove`
may refuse, the record's file may stay, and `Killed` ends the cleanup between any two
steps.  `Restart` is a new daemon, with an empty map.  `taken`, `lost`, `unsure` and
`fresh` are histories.

**Conduct.**  A tick is `Pick` (the count, the file), `Skip` or `Dispatch` (the write of
`[>]`), `LaunchSucceeds` or `LaunchFails`, `WriteFailed` (the file as it was read before
the launch, with `[!]`).  `Crash` is a kill anywhere.  A failed launch ends its
conductor, as an error ends `conductLoop`; only a user starts one (`Start`, under no
fairness).  `Workers` counts every session LIST names, a user's too (`UserOpens`).  When
ticks of two conductors overlap, `rivals` ends the history: the code promises nothing
then.

**Approvals, HangDetector, Attendants.**  `Look` is one turn of the loop up to the SEND,
`Approve` the SEND with what follows it whether it failed or not.  A blank screen leaves
`sentEnter` and `entersSent` as they are; only a text without a prompt resets them.  A
question is a number; `Show` may answer with the screen or with what the watcher saw
last.  An Enter answers what the agent asks when it takes it.  `Hang` is the criterion
as the command wires it.

**Singleton.**  `Daemon.Run` is `AcquireMutex`, `Refused`, `Dial` (with the SHUTDOWN of
whoever has the pipe), `Waited`, `Listen` or `ListenFails`.  The mutex exists while any
handle is open, a refused process's handle among them, until the system closes it
(`Closes`), and handle and pipe go in either order.

## Runs

| Run | Question | Bounds | Size |
|---|---|---|---|
| `idle_hooks` | do one-time hooks fire once per daemon life; do memory and disk agree up to named causes; does the code implement `HookRegistry` | a callback hook and a persistent one, 2 sessions, 2 notifiers, 1 remover, 2 restarts | 1.4 M states, ~40 s |
| `hooks_spent` | a test's promise that overlapping calls break | as above, 1 notifier | violated |
| `watcher` | does a quiet prompt become idle, a frozen spinner stalled, an exited process pruned, unless SEND or SHOW left the session without a Run loop | 1 goroutine, which may be a Run loop, a refresh or a revival by SEND or SHOW in turn; thresholds 2, 3, 2 for the code's 3, 20, 3 | 1.2 M states, ~2.5 min |
| `watcher_concurrent` | can two goroutines in `poll` report idle over a spinner; does a live session keep one; do notifications chain, are stalls sticky, does death need evidence, what can lose a completion | 2 goroutines, thresholds 1, 1, 2 | 9.3 M states, ~2 min |
| `watcher_busy_loses_idle`, `watcher_unattended` | what README says of the watcher, and the code does not do | as above; the first with idle at 3 and stalled at 4 polls | violated |
| `daemon_locks` | in which ways can the mutexes wedge; is every command answered, or the daemon ended, or left in the queue of a loop that has ended; is every paused loop resumed | 1 session, 1 handler, 1 hook goroutine, all commands | 0.5 M states, ~3 min |
| `submit_send` | what does a changed screen prove; can two SENDs or hooks spoil each other's prompt; is the callback registered in time | 2 SENDs or hook messages, 2 things the agent may draw, 1 request or Enter that goes wrong or 1 second loop | 9.1 M states, ~3 min |
| `fleet` | can a launch take another's window; can a sweep take the record or the worktree of a running session | 2 launches and their windows, 1 cleanup after another, 2 daemons | 1.9 M states, ~70 s |
| `conduct` | is a line dispatched twice; does `--max-workers` hold; is every line taken up | 2 conductors, 2 lines, 1 worker, 1 user's window, 1 late one, 1 line put back, 1 crash | 0.9 M states, ~90 s |
| `attendants` | which question does an Enter answer; is every question answered; is a hang acted on again | 2 prompts, the first the trust dialog; 2 Enters queued; the code's 3 Enters of the back-off; a stall of 1 unit, a cooldown of 2 | 0.7 M states, ~3 min |
| `singleton` | can a start end the daemon another one started; is one left | a ghost and 5 processes | 7 k states, ~2 s |

Why the bounds are enough.  Two notifiers, and an adder or a remover overlapping one of
them, are every pair of calls on one hook; a second restart lets a resurrected hook fire
again.  Counters of the watcher are compared with their thresholds and with nothing
else, so they saturate there, and thresholds of 2 and 3 separate "below idle", "idle",
"below stalled" and "stalled" as 3 and 20 do; with two goroutines thresholds of 1 leave
every transition and the count of errors.  Two goroutines are every pair of polls.  The
watcher's liveness is checked with one goroutine, which takes every part in turn.  A
cycle of `d.mu` and a `w.mu` needs one reader under `d.mu` and one notifier, so one
handler, the discovery loop and one Run loop form it; the safety of `DaemonLocks` is
proved for any number of sessions, handlers and hooks, and its liveness is checked on
this smallest instance that has the cycle and a watchdog to end it.  Two SENDs are every
pair of writers, and a message enters the terminal at most twice per request that goes
wrong.  Two launches overlap in every way two can, one window is more than one launch
expects, and a second daemon is what makes a map forget.  One worker is the smallest
limit, two lines the fewest of which one can be picked before the other, and one put
back line, one crash and one rival are each a second chance to dispatch.  Two prompts
are a stale one and the one an Enter must not answer; two queued Enters are one sent
twice.  Five processes are an owner, one refused, one that comes after each of them has
ended, and a pair more.  The safety properties are proved for any number.

What the violated runs show.  Each states a sentence of the README or of a test, and TLC
finds a behaviour of the code that contradicts it:

* a one-time hook that fires while its file is being written fires again after a restart
  (`idle_hooks_persist_test.go:110`);
* a completion is not announced when the session was busy in between (`README.md:259`,
  "when the session goes idle");
* a session revived by SEND or SHOW is left without a goroutine (`README.md:33`, "1
  goroutine per session").

The positive counterparts say what does hold: `SecondShotExplained`,
`QuietMemoryMatchesDisk`, `RegisteredHookSurvives`, `LostOnlyBehindOutage`,
`ExitedIsPrunedOrStalled`, and `LiveSessionHasRunner`.  A revival by SEND or SHOW starts
no `Run` loop, and what follows is excepted by name: `LiveSessionHasRunner` is about
sessions none has revived, and the liveness properties are about those that one has not
left unattended, for there the status stays as it is and the session is never pruned.

What `submit_send` shows.  A comment in `handleSend` takes any divergence from
`preEnterHash` as proof that Enter was accepted.  `QuietOkProvesEnter` names what that
takes: a reference that shows the text (in an alternate screen it does not) and neither
a redraw nor a late or foreign text since.  `SubmittedWhole` names what two SENDs need:
both paused (or a hook's message), nothing lost, nothing swallowed, and one loop.  A
SEND whose pause times out types into whatever the other one has typed.  Two refreshes
that revive one session start two loops (`daemon.go:389`): then two SENDs are both
paused and interleave, and the loop that is not paused announces the turn before the
callback is registered.  `SubmittedWhole` and `CallbackInTime` except that case
(`pollers`) and no other.

What `daemon_locks` shows of a Run loop that ends.  `FreshTail` looks at the status
before it queues its request and waits for the answer without a deadline, and `Run`
returns without looking at the queue (`watcher.go:411`, `:130`).  `Orphaned` names the
requests that are left over; without it in `AnsweredOrExited` TLC shows a handler that
waits for ever, in a daemon that is otherwise well.  A hook's goroutine may wait so too;
it holds no mutex while it does, and nothing waits for it.

What `fleet` shows.  A cleanup deletes the record of a running session only when a
launch had found it through a daemon since replaced, which the new one has not
discovered (`cleanup.go:31-43` calls the sweep "conservative" in a daemon that does not
answer; one that answers with an empty map is believed).  A worktree goes in two more
cases: two sessions were launched into one (a launch from inside a managed worktree
shares it), or its record was written after the cleanup had read the records.  Launches
that do not overlap take different sessions while the daemon is the same; overlapping
ones, and one right after a daemon's start, may take another's.

What `conduct` shows.  One conductor dispatches a line once although `WriteFailed`
writes a stale file back: what that turns back to unchecked was ticked by a user since,
and no tick has dispatched it.  Two conductors whose ticks overlap dispatch a line
twice.  The limit counts every session there is, and is not looked at when LIST fails; a
window that comes after its launch gave up, or that a user opens, is one too many.  A
line is taken up only while a conductor runs (a failed launch ends one), the limit
leaves room and no session already has the line: `TodoTakenUp` names these.

What `attendants` shows.  An Enter answers a question nobody read in three ways only:
the user was faster, a text was taken for a question, the pipe client sent it twice.  A
question is left unanswered when it came up before auto-approvals had seen the last one
gone, or the SEND failed: `sentEnter` is set either way, and a blank screen between two
prompts does not count as the first one gone.  `ApprovalsTypeOK` has `~backoff`: the
back-off of `autoapprovals.go:79` needs three Enters in a row for one prompt, and none
is sent while `sentEnter` holds, so it is never in force.

What `singleton` shows.  No start ends a daemon that has the mutex, and of processes
that start with nothing in their way one is left.  A refused process's handle keeps the
mutex alive for as long as it takes to exit: a start meanwhile gives up although the
daemon is gone.

Read and not put into a run, since no property would say more than the line itself: the
CPU criterion of `hang-detect` never holds (its clock of output is the time of the call)
although `cmd/hangdetect.go:318` calls it the sole one left; its ctrl-c always fails (it
is given no daemon); `launch_retry.go:58` ("Nudging Enter alone is safe") may answer an
approval; without git on the PATH a dirty worktree is removed (`cleanup.go:370`);
`wait-idle` right after a SEND returns on the idle of before it (`waitidle.go:84`),
where `README.md:279` has it wait for a transition.

## Fairness

* `Watcher`: a goroutine inside `poll` or `Revive` goes on (pipe calls have deadlines);
  the 500 ms ticker is strongly fair because `Run` drains a finite queue before it
  selects; `refreshSessions` runs every 10 s.  The terminal, SEND and SHOW are under no
  fairness.
* `DaemonLocks`: Run loops and handlers are strongly fair, since Go's mutex hands over
  to a waiter that starves for 1 ms; for the discovery loop weak fairness is enough.
  The adder, the hooks' goroutines, clients, ticker polls and the rendezvous on
  `pauseCh` are under none.  `SelfWatchdog` is weakly fair: an iteration that never ends
  lets its clock run out; in an iteration that ends, it may fire or not.
* `Conduct`: a conductor that runs goes on; an idle one is fair only below the limit,
  since nothing makes a LIST fail.  Nobody need start one, close a window or edit the
  file: `TodoTakenUp` is about behaviours in which from some time on a conductor runs
  and nothing holds it back (`Held`).
* `Attendants`: the loops of auto-approvals and hang-detect go on; a SHOW that refreshes
  the watcher's content comes in the end; time passes; a window takes the Enters it has
  queued, if it is again and again not hung (strong fairness).  Launch, the user and the
  agent's questions are under none.
* `SubmitSend`, `Fleet` and `Singleton` have safety properties only and state no
  fairness; `Singleton` says that a daemon is left as an invariant of the states in
  which all have come to rest.

## Proofs

| Theorem | Says | Argument |
|---|---|---|
| `IdleHooksProofs!TypeCorrect` | `IdleHooks` is well typed | inductive as it stands; lemmas for the file removal and the causes |
| `IdleHooksProofs!OneTimeSafety` | a one-time hook is dispatched at most once per daemon life, for any number of notifiers | `FiringInv`: a hook not added yet has left no trace (`NotAddedYet`); an armed one-time hook has not been collected in this life; at most one notifier holds it. The bound alone is not inductive: nothing would stop two notifiers from holding the same hook. |
| `IdleHooksProofs!FiringSafety` | `FiringInv` itself | as above; the next five use it |
| `IdleHooksProofs!DiskSafety` | `DiskInv`: what memory and disk may look like at any point of the three operations | for each hook, `Mirrored` (unless an I/O error or an overlap hit it, it is in memory while it is being written, and after that in both places, in neither, or its file is about to go), `Leaves` (a hook nothing has hit leaves memory by a removal or by firing) and `Spent` (a one-time hook nothing has hit is collected before it was ever dispatched, and its file is gone before it is). The three properties below speak of quiet states, of returned registrations and of dispatched hooks: none is inductive, since each forgets the file of a hook on its way out |
| `IdleHooksProofs!QuietSafety`, `SurvivalSafety`, `SecondShotSafety` | `QuietMemoryMatchesDisk`, `RegisteredHookSurvives`, `SecondShotExplained`, for any number of hooks, calls and restarts | each a consequence of `DiskInv` |
| `IdleHooksProofs!Refinement` | `IdleHooks` implements `HookRegistry` | step by step: `Append` registers, `CollectAndPrune` charges and disarms (`CollectCharges`), `Clear` removes, `Restart` starts a new life, all else stutters; a dispatch moves what was owed to what was fired and leaves the sum (`DispatchCharges`). The sum counts notifiers, so finitely many of them must be at work: `FewAtWork`, an invariant however many there are |
| `WatcherProofs!TypeCorrect` | `Watcher` is well typed, for any thresholds, screens and goroutines | inductive with the type of a goroutine's last screen |
| `WatcherProofs!IdleSafety` | idle is never reported over a spinner, however polls interleave | only `Update` writes idle, and it writes status and hash in one critical section |
| `WatcherProofs!LiveSafety` | a session that is not dead, and that no SEND or SHOW has revived, has a goroutine polling it | together with `CallersAdopt`: a goroutine inside a revival of SEND or SHOW leaves its mark before the session turns alive |
| `WatcherProofs!StallSafety` | `StallIsSticky`: a stall clears only by progress on the screen or by the reset of a `Revive` that had found the session dead, for any number of goroutines | `UpdateEffect`: what `updateContent` does to the status, and `MovesOrNot`: every other step that writes one |
| `WatcherProofs!DeathSafety` | `DeathNeedsEvidence`: a session dies only of NO_TABS or by a goroutine that has counted `MaxRetries` errors in a row, for any number of goroutines; a good answer of another one since then does not stop it | `StreakCounted`: the errors in a row that the watcher has counted have happened |
| `WatcherProofs!ChainSafety`, `LossSafety` | `NotificationsChain` and `LostOnlyBehindOutage`, for any number of goroutines | `ChainInv`: as long as no goroutines crossed in a hung notification, `Straight`: one at most is in one, `lastStatus` is what was last notified, and a change nobody announced was swallowed by a notification from busy or dead; and what holds after a crossing, until a notification nobody crosses puts things straight |
| `DaemonLocksProofs!TypeCorrect` | `d.mu` and each `w.mu` are held across steps exactly where the code says | `IInv` = `TypeOK /\ Bookkeeping`, where `Bookkeeping` says that a queued request has its one waiter, a handler or a hook's goroutine, and a paused loop the one handler that must resume it. Neither is inductive alone: who holds a mutex follows from the place of every goroutine, and the place a goroutine returns to from the bookkeeping. |
| `DaemonLocksProofs!OnlyInversion` | if every goroutine that holds a mutex is stuck at one, then one is stuck at a `w.mu` under `d.mu` and another at `d.mu` under that `w.mu` | a consequence of `IInv`, stated without ENABLED |
| `SubmitSendProofs!TypeCorrect` | the SENDs and hooks that have a loop to themselves are no more than the loops; a SEND has a result exactly where one was decided | one lemma per part of the state: `SendsKept`, `SamplesKept`, `Queued`, `LoopEachKept`; finitely many SENDs, so that those can be counted |
| `SubmitSendProofs!CallbackSafety` | the callback of a paused SEND is never late while the session has one loop, for any number of SENDs, hooks and faults | `IInv` adds `Begun` (a SEND that has not begun has no text at the terminal, so none of its turns is announced when it pauses the loop) and `Awaited` (while it has the one loop paused, none is); with one loop one has it (`OneOccupies`) |
| `SubmitSendProofs!WholeSafety` | `SubmittedWhole`, for any number of SENDs and hooks | `Alternating`: while nothing went wrong, texts and Enters alternate in the terminal's queue and prompt, and a text without its Enter is that of the SEND or hook that has the loop (`Open`); `Once`: a text is in one place, and not typed before its SEND types it; `Fresh`: a SEND that has begun has its pause or went on without. The property speaks of what was submitted, which says nothing of what is still queued |
| `SubmitSendProofs!QuietSafety` | `QuietOkProvesEnter`, for any number of SENDs and samples | `QuietInv`: as long as a SEND is quiet and none of its turns has begun, its text is on the screen its reference was taken of, and the screen is that one still |
| `SubmitSendProofs!DecisionSafety`, `SessionCallerSafety` | for any sessions and any order of a map: the decision never is for the target itself; a caller that is a session in both snapshots is the one registered | set reasoning on `ResolveCaller` |
| `SubmitSendProofs!SelfCallbackPossible` | with two active sessions and a caller that is none, the two resolutions may register a callback from the target to itself, which `policy.go:83` rules out for one | a witness |
| `FleetProofs!TypeCorrect` | `Fleet` is well typed, for any windows, launches and daemons | part of `IInv` |
| `FleetProofs!ClaimSafety` | a launch never takes a running session that another had taken from the same daemon before the first one listed | `Mapped`: the daemon a session was claimed through has it in its map while its process runs, so every LIST names it; hence `Remembered`: who listed later knows it |
| `FleetProofs!SweepSafety` | a sweep takes the record or the worktree of a running session only in the cases `RecordSpared` and `TreeSpared` name | `RecordsDoomed` and `TreesDoomed`: what stands to be deleted, the record whose worktree has just gone among it, is no running session's, or was lost with a daemon, or recorded since; `RecordsMatch` and `ClaimsOnce` tie records to launches |
| `ConductProofs!TypeCorrect`, `DispatchSafety` | for any checklist, conductors, crashes and edits: while no ticks overlap, a line is dispatched once, and once more if it was put back | `FileDue`: an unchecked line is due.  Not inductive, because a stale file is written back: `BodyDue` says the same of the file a tick has read, but for the line the tick has dispatched, and `OneTick` that there is one such file |
| `ConductProofs!LimitSafety` | `WorkersWithinLimit`, for any limit, lines and conductors | `Room`: one session fewer than the limit while a tick that has counted them may still add its own, which with `OneTick` is one; `OneMore` and `OneLess` count the windows, of which there are finitely many |
| `AttendantsProofs!TypeCorrect` | types, and that the back-off is never in force | `CountInv`: `entersSent` is 1 exactly while `sentEnter` |
| `AttendantsProofs!ApprovalSafety` | an Enter of auto-approvals answers the question it was sent for, or that one was settled by somebody else | `QueueInv`: an Enter on its way is for what is asked or settled, and there is one; it rests on `SeenInv` (a prompt once answered and still in view is known to be) and `SendInv` (none is sent for such a one) |
| `SingletonProofs!FirstInstance` | for any number of processes: no start ends a daemon that has the mutex, one at most serves with it, and one is left when all are at rest | `OneOwner`: of the processes with a handle one found no mutex; `Heir`: while a daemon is owed there is an owner or one that will find the mutex free; `HandleInv`, `ToldServe` |

The only assumptions are the modules' `ASSUME`s on their constants.  The inductive
invariants were checked by TLC before they were proved.

No theorem has a hypothesis on behaviours.  Several goroutines may be in `poll` of one
session: SEND or SHOW revives a dead session from its handler, and a refresh starts a
`Run` loop while an old one still serves a request.  Of what touches `lastStatus` all
but one is a critical section of `w.mu` that reads, announces and writes it at once, and
interleaves without harm.  The one is the hung notification, which announces a
`lastStatus` it has read before and writes it later.  `crossed` is TRUE from the moment
two goroutines meet there, until a notification nobody meets leaves nothing owed; it is
an exception both `NotificationsChain` and `LostOnlyBehindOutage` name, and with two
goroutines TLC finds either violated without it.

Every safety property of every passing run is a theorem.  Only model-checked are the
liveness properties (`QuietBecomesIdle`, `FrozenSpinnerStalls`,
`ExitedIsPrunedOrStalled`, `AnsweredOrExited`, `PausedResumes`, `TodoTakenUp`,
`QuestionAnswered`, `HangActedOnAgain`): they rest on fairness, and on ENABLED, which
the provers do not treat.  The violated runs are TLC's alone, too.

## Not modelled

Formatting, argument parsing, base64, logging and debug output; WinAPI calls (CPU
samples, window enumeration) beyond their answers; what the receiver of an http hook
does; statistics of the watcher; the wait for an ACK between a hook's text and its
Enter; a second Run loop of one session in `DaemonLocks`; deadlines, which are a free
choice in every module.  Of the commands: the age sweep of hang dumps, launch records
read half-written, a process id used again, the renames of `enrichFromSessionFile`,
which screen matches which approval pattern and the "y" of one of gemini's, dry runs,
the text of a hang snapshot, the lines a user adds to a checklist or moves.
`wait-idle`, `watch`, `ghostmark` and the commands of one request have no state another
one can see; the WebSocket server forwards to the IPC handlers.  `PROJECT.json` gives
the reason for each component.

## Plan

The modules of the plan are written, but for these, in this order:

1. A timed `DaemonLocks`: revivals one after the other against the watchdog's 60 s, and
   the connection's 10 s against the phases of SEND.
2. A second Run loop of one session in `DaemonLocks`, and pauses of either.
3. `wait-idle` after a SEND, with `Watcher`: an idle of before the SEND, or one that
   comes and goes between two looks.
4. Reply classification and `SendWithSubmit` of the pipe client; checklist parsing
   against a reference definition.

Theorems to prove next: the safety half of the liveness properties (the state a fair
step leads to, and that no other step leaves it); and with each of the models above, its
invariant.
