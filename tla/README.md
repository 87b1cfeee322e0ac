# A formal model of primitives

TLA+ specifications of *primitives*, egorpugin's C++ libraries, with the TLC
configurations that check them and the TLAPS proofs about them. The executor and the
cron are modelled thread by thread; the other libraries that keep state, read what
they have written, or meet other programs, are modelled at the granularity at which
they can go wrong. Line numbers are those of the repository at the modelled commit;
`executor.h` is `src/src/executor/include/primitives/executor.h`, and other files are
named without their directory where the name is enough (`PROJECT.json` has the paths).

Contents: 1 inventory, 2 modules and code, 3 runs, 4 proofs, 5 what the models show
to go wrong, 6 what is not modelled, 7 how the project came about and what is left.

## 1. Inventory

The repository is a collection of small libraries. What follows is each part with its
state, its operations, what is hard about it, and what makes it correct.

### Threads

**Task queue** (`executor.h:72-153`, class `TaskQueue`). *State*: a deque, a mutex, a
condition variable, a closed flag `done_` that producers read without the mutex.
*Operations*: `try_push`, `push`, `try_pop`, `pop`, `done`, `empty`. *Hard*:
notifications after the unlock, the order of `busy = true` and `pop_front`, closing
while consumers are blocked, spurious wake-ups. *Correct when* it behaves like an atomic
FIFO queue that can be closed, loses no wake-up, and never looks empty with `busy` down
while a worker holds a task.

**Thread pool** (`executor.h:320-627`, struct `Executor`). *State*: one queue and one
`busy` flag per thread, `stopped_`, `waiting_` under `m_wait`, `cv_wait`. *Operations*:
`push` (three policies while somebody waits), `run`/`run_task` with stealing,
`try_run_one` (a waiting task executes others), `wait`, `stop`, `join`. *Hard*: unlocked
reads in `wait`, the stack of tasks a helping thread builds, stopping with tasks queued,
deadlocks. *Correct when* a task runs at most once and is given up only after a stop,
`wait` returns when the tasks have been executed, and every call returns.

**Futures** (`executor.h:158-310, 629-682`: `SharedState`, `Future`, `PackagedTask`).
*State*: `set`, the data or the exception, callbacks under a mutex. *Operations*:
`setExecuted`, `notice`, `wait`/`get`, `then`. *Hard*: `set` is raised, the callbacks are
cleared and the notifications sent without the mutex. *Correct when* `get` returns the
outcome and each continuation is pushed once.

**whenAll, whenAny** (`executor.h:684-1011`). *State*: the mutexes and callbacks of
several futures, a counter, the combined future. *Hard*: many mutexes at once, late
registration, the order of flag and index. *Correct when* the combined future is set
when, and only when, all (one) of its futures are.

**Cron** (`cron.h`). *State*: a map from times to jobs, a mutex, a condition variable,
`done`. *Operations*: `push`, `stop`, the thread's `run`. It pushes jobs to the executor
with its mutex held. *Hard*: a deadline fixed while the map changes, an executor that
throws. *Correct when* due jobs are taken, repeated jobs are kept and do not come in
bursts, and the destructor returns.

### Other programs, the disk and the network

**File lock** (`lock.h`). *State*: a file, the system's lock on it. *Operations*:
`ScopedFileLock`, `ScopedShareableFileLock`, `single_process_job`,
`try_single_process_job`. *Hard*: POSIX locks belong to processes and go with any
descriptor; holders that crash; waiters taken for holders. *Correct when* one works at a
time, and who returns can rely on the job being done.

**Schema manager** (`schema_manager.h`, `db/sqlite3.h`). *State*: a database, its version,
each program's transaction. *Operations*: `createOrUpdate`. *Hard*: a version read outside
its transaction, statements that fail, busy commits. *Correct when* the version stored is
that of the schema.

**Content storage** (`templates2/storage.h`). *State*: a directory of files named by hash,
or a file of data and an index. *Operations*: `add`, `contains`, `remove`, `copy`, opening.
*Hard*: a crash between two writes, two writers. *Correct when* what `add` returned is
there.

**Commands** (`command.cpp`, `uv_command.cpp`). *State*: a chain of children, pipes and
libuv handles. *Operations*: `execute`, the loop's callbacks, cleaning. *Hard*: the order
of exits, reads, writes and closes; starts that fail. *Correct when* execution ends with
the chain's result, all output is collected and every handle closed once.

**File monitor** (`file_monitor.h`). *State*: watched directories with lists of files.
*Operations*: `addFile`, events, `stop`. *Correct when* what was asked for is reported to
who asked, until `stop`.

**HTTP client** (`http.cpp`: `download_file`) and **source fetching** (`source.cpp`).
*State*: files on the disk, the checkout of a repository. *Operations*: download through a
`.dl` file; `Source::download` of every kind, with tries. *Hard*: what an earlier try or
program has left. *Correct when* the target is whole, or there is a failure.

**Deployment** (`templates2/deploy.h`). *State*: services, users, files and data of remote
hosts. *Operations*: deploy, move, discard, backups, sudo and login, reading and appending
to files, reboots. *Hard*: every command may fail and nothing is rolled back; hosts are
handled by threads. *Correct when* a deployed service runs and nothing it wrote is lost.

**SQLite cache** (`templates2/sqlite.h`) and **tables of releases** (`templates2/postgres.h`:
`create_tables`). *State*: rows or tables shared by programs, one transaction for each
connection. *Operations*: find, set, change, erase; updating to a release. *Hard*: read and
write in two steps, busy databases, releases skipped. *Correct when* no write is lost, and
tables have the form of their version.

### Values and texts

**Versions and ranges** (`version.cpp`, `version_range.cpp`, `range.yy`, and the older copy
in `version1`). *Operations*: comparison, `++`, `--`, printing; the rules of the range
grammar; union, intersection, contains. *Hard*: open ends, carries, missing numbers, sorted
lists of intervals. *Correct when* ranges are sets of versions.

**Patch** (`patch.cpp`), **emitters** and **binary streams** (`emitter.h`), **records in mapped
files** (`mmap2.h`), **separated values** (`csv.h`), **encodings** (`base64.h`). *Hard*: indices
at boundaries, several writers of one text or buffer, files that grow under a reader.
*Correct when* what was written is what is read, and diffs that do not fit are refused.

**Settings** (`settings.h`, `settings.cpp`, `settings.yy`, `path.ll`). *State*: maps of entries,
each with text, value and parser; three layers of files. *Operations*: loading, saving,
`setting<T>`, `SettingStorage::get`. *Hard*: entries whose parts change at different times,
a run-once flag. *Correct when* the last value given is read, and layers cover each other.

**Command line** (`CommandLine.cpp`, an adapted copy of LLVM's; `argument.h`). *State*: a global
registry of options by subcommand, the options' occurrences. *Operations*: registration,
parsing, response files, tokenizers. *Hard*: words shared among positional options, static
objects coming and going. *Correct when* no word is lost and options are found by name.

**Source descriptions** (`source.h`, `source.cpp`): made, formatted, printed, saved in JSON and
YAML, loaded. *Correct when* what was saved is loaded and different ones print differently.

The interactions: `Cron` and user code push closures into `Executor`; it runs them through
`PackagedTask`, which sets a `SharedState`; that runs the callbacks of `then`, `whenAll`
and `whenAny`, which push into the `Executor` again; `Future::get` inside a task calls
back into `Executor::try_run_one`. Source fetching executes commands and downloads; a
deployment executes commands on hosts; settings and response files are read by the
command line. Other interactions go through files and databases.

## 2. Modules and code

| module | models | part of |
|---|---|---|
| `AtomicTaskQueue` | what a closable FIFO queue promises | `TaskQueue` implements it |
| `TaskQueue` | `executor.h:85-152`, each lock, unlock and notification a step | `TaskQueueProofs` |
| `TaskPool` | what the executor promises about a task | `Executor` implements it |
| `Executor`, `ExecutorProofs` | `executor.h:336-625` and the helping `get` of 652-666 | `MCExecutor` |
| `SharedState` | `executor.h:158-310, 629-682` | `SharedStateProofs` |
| `Combinators` | `executor.h:684-1011` | `MCCombinators`, `CombinatorsProofs` |
| `Cron` | `cron.h` | `CronProofs` |
| `FileLock` | `lock.h` | `MCProcesses`, `ProcessesProofs` |
| `SchemaManager` | `schema_manager.h` over `db/sqlite3.h` | `MCProcesses`, `ProcessesProofs` |
| `ContentStorage` | `storage.h` | `MCProcesses`, `ProcessesProofs` |
| `Command` | `command.cpp`, `uv_command.cpp` | `MCProcesses`, `ProcessesProofs` |
| `FileMonitor` | `file_monitor.h` | `MCProcesses`, `ProcessesProofs` |
| `Download`, `SourceDownload` | `http.cpp:251-312`; `Source::download` | `MCProcesses`, `ProcessesProofs` |
| `Deployment`, `RemoteHost` | `deploy.h`: services; users; files and restarts | `MCProcesses`, `DeploymentProofs` |
| `Version` | `version.cpp` | `MCValues`, `ValuesProofs` |
| `VersionSyntax`, `VersionRange` | `range.yy`, `version_range.cpp` | `MCValues` |
| `OldVersionRange` | the same of `version1` | `MCValues` |
| `Patch`, `TextEmitter`, `BinaryStream` | `patch.cpp`, `emitter.h` | `MCValues` |
| `MmapFile`, `Csv`, `Base` | `mmap2.h`, `csv.h`, `base64.h` | `MCValues` |
| `Setting` | `settings.h`, `settings.yy`, paths of `settings.cpp` | `MCValues` |
| `SettingsStorage` | the three layers of files and who loads them | `MCValues`, `ValuesProofs` |
| `SourceDescription` | `source.cpp` but for downloads | `MCValues` |
| `SqliteCache`, `TableUpdates` | `templates2/sqlite.h`, `templates2/postgres.h` | `MCValues`, `ValuesProofs` |
| `CommandLine`, `OptionRegistry`, `ResponseFile` | `CommandLine.cpp`, `argument.h` | `MCValues` |

A cfg gives a specification small sets of threads, programs and values; a `MC` module
defines those that cannot be written in a cfg. `MCProcesses` and `MCValues` hold several
parts: a behaviour is one of one part, chosen by `part` at the start, and the variables
of the others keep one of their initial values. Their invariants say, part by part, what
the part's module states; the action of a part is the module's next-state relation. So one
run checks each part on its own, and the parts do not multiply each other's states.

In all modules a definition named after a mistake (`EnqueuedAtFront`, `NeverRaised`) is not
part of the specification: it is a variant of the definition below it, and the properties
are shown to notice it. Where the code breaks a promise in a case one can name, the
property states the promise *but for* that case, and a history variable
(`lockMishaps`, `cacheMishaps`, `lost`, ...) records that it has occurred. So the
property says both that the promise holds otherwise and where the limits are.

**TaskQueue.** `q`, `m`, `done` are the members; `pc` says where a thread is in a call,
`arg` what it pushes or has popped; a consumer in `cv.wait` is at "waiting". `try_push`
leaves the closure with the caller when it fails. The deque's element type is a closure
or nothing, so an empty closure entering the queue would break `TypeOK`. `done_` is read
by producers before the lock, as in the code. A consumer goes back to `try_pop` or `pop`
after it has executed its task.

**Executor.** Queue operations are atomic, which is what `TaskQueue` implementing
`AtomicTaskQueue` allows. Each thread has a stack of frames: the body it executes, the
call it is at (`ip`), the place inside that call (`at`), and the loop index of `wait` and
`stop` (`k`). A worker with an empty stack is in `run()`. What bodies do is a *program*,
one sequence of calls (push, get, wait, stop, join) per task and client; `Programs` holds
the possible ones. A pushed task may go to any open queue, which covers the round-robin
index and the `try_push` that gives up on a locked queue; stealing may find any task, or
none although there is one. An exception out of `push` ends the task that pushed.

**SharedState.** One future. The worker raises `set`, notifies, locks, runs the callbacks,
unlocks, clears; `then` looks, locks, looks again, adds; getters test, lock, test again and
only then sleep, with a timeout. `set` and the notification come without the mutex, and
`NotifyAll` reaches only those already asleep: both may fall between a getter's test
(`GetPredicate`) and its sleep (`GetSleep`), and then nothing but the timeout wakes it.
`Forget` is the caller letting go of the `Future` on which it called `then`.

**Combinators.** The futures of a request are looked at, locked, looked at again, given a
callback and unlocked one by one, in the order of the request; each future's thread runs
the callbacks it finds. The vector and the variadic functions take the same steps.
Indices count from 1.

**Cron.** Keys are times relative to now: `Tick` brings each nearer. The thread's steps are
those between its lock, its waits and its call of the executor; `BeginKeys` is what
`begin()->first` reads, which for an empty map is not a key at all (`EmptyKeys`).

**FileLock.** Callers are threads of processes. A lock is the process's, so that a second
thread of it gets it too, and closing any descriptor of the file drops it: the mishap
"threads". A process may end anywhere, which releases its locks. `fresh` remembers
whether the job was completed since the call began.

**SchemaManager.** One connection per program over SQLite: a reader sees the database as it
first read it, one connection writes, any statement may fail or be busy. `createOrUpdate`
goes statement by statement: reading the version, creating or running the diffs,
committing. `ifNotExists` says how the latest schema is written.

**ContentStorage.** Both layouts: `dirFiles` (none, cut off, whole) and `data` with
`index`, words that are read back by offset. Programs add, look, remove, copy, reopen and
end between any two writes.

**Command.** The chain is prepared and started command by command, then the loop takes the
callbacks in any order: reads, writes, exits, closes. Children read, write, end or are
stopped as they like. Handles are followed from `uv_*_init` to `uv_close`. Two executions
of one object are modelled, since exit codes stay from the first, and so does captured
text: `text.earlier` is what the executions before have left, behind which `on_read`
appends (`uv_command.cpp:230`).

**FileMonitor.** `addFile` in its two steps (the unlocked test of `stopped`, the record under the lock), events of a
watcher for any file, watchers that fail, `stop` with its walk over the records.

**Download, SourceDownload.** A download opens the `.dl` file, receives its parts, renames.
Names lead to files, so that a program may write to one that was renamed. A source is
fetched step by step, with what each step leaves for the next try in `sourceDir`.

**Deployment, RemoteHost.** A call is the code's series of commands; each may
fail, at most `MaxMishaps` times, and then the call throws where it is (`CommandFails`), or,
as `status()` does not throw and `exists()` catches, takes the failure for an answer and goes
on (`Misread`): what runs is not stopped, what is there is not seen. `runs` is the program of the
service's process, which after that need not be the one in its place. Stop and disable are
two commands; a host that restarts between them starts the service (`woken`). The database and the
user cannot be dropped while it runs. Data are counts of writes, so that `lost` can tell which of
them were overwritten before a backup, and `overlooked` remembers an `ls` that failed. Users are
flags (`sudo`, password, login) put before a command. Appended lines go through a local copy.

**Version, VersionSyntax, VersionRange.** A version is its numbers and the rank of its extra
part. Each grammar rule is an operator from written versions to pairs; its result is
compared with a definition of what the rule means, on every release of the bound. Ranges
are over points: the ends, and what lies between two ends. `|=`, `&=` and `contains` go
through the vectors as the code does. Pairs are printed and read back by the rules.

**OldVersionRange.** Closed intervals of versions of three numbers whose open ends are
stepped; the grammar's rules; the union with its append after insert.

**Patch, TextEmitter, BinaryStream, MmapFile, Csv, Base.** Machines that take a line, a call, a
token or a byte at a time; the text of a diff is a line kind and a mark, the text of an
emitter a sequence of marks, new lines and indents; positions are kept as the code's
indices and pointers.

**Setting, SettingsStorage.** A path is printed and parsed; an entry
has its representation, parser, value and flags; a text is its lines; the three layers are
loaded by the first call that asks for them, several threads at a time.

**SqliteCache, TableUpdates.** One row seen by two connections, with SQLite's locks in both
journals; an update of tables is a transaction with its version. `Forms(h)[n]` is what the tables
are after the first `n` updates of the history `h`: release `n` declares them so.

**CommandLine, OptionRegistry, ResponseFile.** A program is a set of options; a line's words are
handled or kept and shared out at the end. Options register, rename themselves and leave.
Words are printed, cut by three tokenizers, and expanded from files.

**SourceDescription.** A description is which fields it has, and with what (nothing, a text, or one to be formatted);
a document keeps, for each kind, the fields saved under its name over those that were there.

## 3. Runs

Deadlock checking is off in all runs because the modelled systems may stop: every task
is done and every client through, or the calls of the bound are used up. That calls
return is stated as liveness instead.

**task_queue** (2 producers, 2 consumers, 1 closer, 2 tasks, 1 spurious wake-up). Each task
is given to any producer, by `try_push` or `push`. Two consumers and two tasks are enough
for a notification to reach the wrong one of two waiters, for a steal between an emplace
and its notification, and for two elements to change places. `TypeOK`, `FIFO`,
`NoLostWakeup` (while the queue is open and somebody sleeps, the notifications to come and
the consumers already looking are as many as the tasks), `IdleMeansIdle` (an empty queue
and no busy flag mean that nobody holds a task), `ImplementsAtomicQueue`,
`DoneReleasesConsumers`, `EveryTaskTaken`. `MaxSpurious` bounds the spurious wake-ups; one
is enough to send a sleeper through the loop again.

**executor** (2 workers, 2 clients, 3 tasks, 3 programs). In the first program a client
pushes, waits with `RejectIncoming`, pushes, gets and joins while another client's push is
admitted, refused or blocked. In the second a task and a client both stop the pool, one
pushes afterwards and a second client waits. In the third a task forks another and waits
for it, and one waits for the pool twice, so that tasks run on top of each other.
`InOnePlace` (a task is in one queue, hand, stack or final set), `WaitMeansDone` (what a
client pushed before its wait has been executed when it returns), `PushNeverSleeps` (the
condition variable `cv_wait` is redundant), `NeverRunsEmpty` (an empty closure reaches only
a worker about to leave), `ClientsFinish` (every call of every client returns),
`ImplementsTaskPool`. **executor_chain**: see 5.

**shared_state** (1 worker, 2 getters, 2 continuations, a stop at any time; the module itself,
its sets in the cfg). `OutcomeFirst` (nobody acts before the outcome is there),
`ContinuationOnce` (each continuation is pushed once at most, and when the callbacks are
cleared without the mutex nobody adds one), `ContinuationPushed`, `GettersReturn`. Two
continuations reach the three ways of `then` in every order. `GettersReturn` rests on the
timed wait: without the timeout a getter that missed the notification sleeps for ever.
**shared_state_this**: see 5.

**combinators** (2 futures, 2 callers, 4 requests: all and any of the same futures, any twice,
all and any of them in opposite orders, empty ones). `AllMeansAll`, `AnyMeansAny` (the index is that
of a finished future, and stays), and, for requests that name the futures in one order (`InOneOrder`),
`CallersReturn`, `AnyCompletes`, `AllCompletesInTime` (a whenAll that returns before any of its
futures is set completes). In opposite orders the callers lock each other out, which the run
reaches: `CallersReturn` does not hold there without the condition. The other two would break for a
third caller, which has returned and waits for the futures that those two keep locked. **combinators_late**, **combinators_index**: see 5.

**cron** (2 jobs; now or 2 ticks ahead; periods 0, 1, 2; skip 0 or 1; the module itself).
`TypeOK`, `FiringsApart` (a repeated job is fired at least a period after the last time
however late the thread is), `RepeatingKept` (it stays in the map even when the executor
throws, unless another job has its next time), `DueTaskTaken`, `StopEndsThread`.
`EmptyKeys` holds a past time (what libstdc++ yields) and a future one (what an
uninitialised key may be). `MaxLate` bounds how far the clock runs ahead of a due job; it is
as long as the longest sleep, so that every sleep can end.

**values** (21 parts) and **processes** (10 parts) check a module each in every part. Their
invariants group the parts: `VersionsRight`, `TextsRight`, `WrittenIsRead`,
`ArgumentsRight`, `SharedIsKept` and `StepsAreAdjacent`; `LocksRight`, `StoredRight`,
`CommandsRight`, `MonitorRight`, `FetchedRight`, `DeploymentsRight` and `CallsEnd`. The
properties themselves are in the modules, with the code they are about:

| part | properties | bounds |
|---|---|---|
| version | `VersionsOrdered`, `PrintedReadsBack`, `WordsInOrder`, `StepsAreAdjacent` | up to 3 numbers 0..2, 2 extra parts; an alphabet of 2 letters |
| syntax | `RangesMean`, `PairsReadBack` | every rule, versions of 1-3 numbers with x anywhere (1-2 where two are written); pairs with ends of 1-2 numbers in every form of printing |
| range | `RangesHoldUnions`, `MergedRangesCompare` | 2 ranges with 3 and 2 calls, ends 0..2 and what is between |
| old_syntax, old_range | `OldRangesMean`, `OldPrintedReadsBack`; `OldRangesHoldUnions` | versions of 3 numbers 0..2, x at the end; 5 ends, 3 and 1 calls; all intervals printed in 3 forms |
| patch | `GoodDiffsApply` | scripts of 3 lines over 2 words, any cut into hunks, 8 kinds of damage |
| emitter | `EmittedInOrder`, `BlocksIndented` | 4 calls on two emitters, the inner one inline, appended or moved |
| stream | `StreamsStayInside` | up to 2 bytes of 2 values, sizes 0..3, a sub-stream |
| mmap | `RecordsReadBack` | 3 records, 2 openings |
| csv | `ColumnsReadBack` | every line of up to 5 characters, both escapes |
| base | `BytesReadBack` | up to 6 bytes of 3 values in 16, 32 and 64 symbols |
| path | `PathsReadBack` | up to 2 parts of up to 2 of 7 symbols |
| entry | `GivenIsHeld`, `EntryCanBeSaved`, `ProhibitedIsNotRead` | 5 calls, a number and a word |
| text | `SettingsMean` | up to 4 lines over 2 keys |
| settings | `SettingsLayered` | 2 threads with 2 and 1 calls, 3 files with 2 keys, each absent, good or bad |
| description | `SourceReadBack`, `PrintedApart` | 9 kinds, 4 calls, 2 documents |
| cache | `CountsKept`, `NothingLeftOpen`, `FoundWasSet` | 2 programs with 2 and 1 calls, both journals |
| tables | `TablesMatchVersion`, `ReleaseReached` | 3 programs of releases 1, 2, 3 with 1, 1, 2 calls; 3 histories of 3 updates |
| arguments | `NothingLost`, `PositionalsShare`, `RequiredOccur` | 8 programs with options of every kind, lines of up to 3 or 4 words |
| registry | `NamesFound` | 4 options, 1 subcommand of its own, 3 new names, 6 calls |
| response | `WordsReadBack`, `ExpandedInPlace` | up to 2 words of up to 2 of 6 characters, 3 tokenizers; 3 file systems, up to 3 arguments, the limit of 20 files lowered to 2 |
| lock | `OneAtATime`, `JobCompleted`, `CallsEnd` | 3 callers, as two threads of one process and another process, or three processes; 1 call each |
| schema | `SchemaMatches`, `CallsUpdate` | 3 programs with 0, 1 and 2 diffs and 2, 1, 1 calls |
| storage | `KeptIsThere` | 2 programs, 2 contents, 2 calls, 3 openings, both layouts |
| command | `ResultsRight`, `HandlesRight`, `CallsEnd` | a chain of 2 executed twice; a pipe holds 1 piece, a command writes 2, the text is 0 or 2 |
| monitor | `FilesWatched` | 2 clients, 2 directories, 2 names, 3 additions |
| download | `TargetWhole` | 2 programs with 2 and 1 downloads of 2 parts |
| source | `SourceRight` | every kind of source, 3 tries, a tag with and without v |
| deployment | `NothingLost`, `MovedWhole`, `DeployedRuns`, `GoodProgramKept` | 2 hosts, 3 calls, 2 writes, 1 failing command |
| user | `RunsAsMeant` | 3 accounts, chains of 3 of sudo and login |
| host | `FilesKept`, `RebootMeansRestart` | 2 tasks on 2 hosts, 1 failing command |

Why these are enough: two actors reach every interleaving of a read in one and a write in
the other, a third comes between them (locks, schemas, releases); two hunks, intervals,
records or lines have a boundary and three have a middle; versions of three numbers carry
from the last to the first; a pipe that is smaller than what is written fills; one failing
command reaches every place where a call can stop, and three calls meet what it left.
Where a bound is lower than the code's (three tries are the code's three, but
`RspLimit` is 2 for 20) the case at the limit is reached all the same. **version_range_sorted**: see 5.

**Fairness.** `WF` of each thread's steps: the operating system runs every thread, and no step
is repeatedly enabled and disabled by others for ever (a mutex is taken a bounded number
of times in these instances). Nothing is assumed of steps the code leaves to its
environment: clients need not push or close, the task of a future need not begin in
`SharedState`, `stop` need not come. In `Combinators` the tasks are assumed to end, which is
`ClientsFinish` and the pool's business. In `Cron` the clock advances and
`executor.push` returns or throws. In `processes` callers inside the lock's functions go on
(`FileLockStep`: a job ends or throws), the thread of a command runs its loop
(`LoopStep`), and children read, write and end when they can (`ChildStep`); nobody need
call, crash or stop a child. The other parts state no liveness: their calls go through
without waiting, or wait for a database another program may keep for ever.

## 4. Proofs

Eight modules hold theorems, for any values of the constants that satisfy the named
assumptions. Each rests on one inductive invariant (in `ProcessesProofs`, `DeploymentProofs` and
`ValuesProofs` one for each part).

**`TaskQueueProofs`**: `TypeCorrect`, `IdleQueueIsIdle`, `QueueIsFIFO`, `WakeupsAreKept` are the
run's invariants; `ClosedForGood` (no step takes a task once the queue is closed),
`TasksAreHandedOnce` and `WaitersAreReleased` (a worker asleep after the close has a
notify_all to come) are facts the refinement and the liveness imply; `QueueIsAtomic` is the
refinement, `Spec` implements `AtomicTaskQueue!Spec`. Assumed (`TaskQueueAssumption`): the roles are
disjoint, the threads are finitely many, and the marks for "nothing" are not threads or
tasks. None of the invariants is inductive alone. `IInv` is the conjunction of
`TypeOK`, `RoleInv` (a thread is only at labels of its role), `LockInv` (the mutex is held
exactly by the thread inside a critical section), `ArgInv` (which threads hold a task at
which labels) and `BusyInv` (a consumer with a task has raised `busy`): what mutual
exclusion means here is that a test made under the mutex still holds at the next step under
it. `QueueIsFIFO` adds the history of what went in and out; `TasksAreHandedOnce` an
invariant about where each task is; and `WakeupsAreKept` counts: an action changes the
number of queued tasks, pending notifications and awake consumers by one at most, followed
with the theorems about cardinalities. The refinement maps the steps that change
`q`, `done` or a consumer's task to the abstract operation and all others to stuttering.

**`SharedStateProofs`**: `OutcomeAlwaysFirst` and `ContinuationsOnce` are the run's invariants, for any
number of getters and continuations. `FutureInv` adds to the types where each
kind of thread may be (`RoleInv`), that the flag follows the outcome and a getter reads
after the flag or a stop (`FlagInv`), and that a continuation is its caller's, left to
`notice()` in one place, or pushed (`CallbackInv`). The last is the heart: it needs that a
continuation is in the vector once, that those before `running` and no others have been
pushed, and that nobody is at `push_back` after `notice()` has had the mutex, because
whoever got it later has seen the flag. That is why clearing the callbacks
without the mutex is harmless.

**`CronProofs`**: `TypeCorrect`, `FiredApart` and `RepeatingStays`, the run's type invariant and action
properties, for any jobs, delays, periods, skips and whatever an empty map yields.
`CronInv` adds that a job is in the map once at most (`JobInv`), that a period has passed
since a job was fired or will have when its task is due (`SinceInv`), and that *any* of the
tasks have a first one (`FirstInv`), stated of every subset: `begin()` is a `CHOOSE`, the prover
has no induction over finite sets, and in this form the fact is inductive in itself.
`CronAssumption` asks that there be a longest period, beyond which the history variable
`since` does not count.

**`CombinatorsProofs`**: `Always` (the types), `AllSetMeansAll` (`AllMeansAll`) and `IndexOfTheFirst`
(`AnyMeansAny`), the run's invariants, for any callers, requests and futures. `WhenInv` is
`StateInv` (types, and what a thread is doing where it is), `MutexInv` (the mutex of a future is
held by whoever the labels say), `SetInv` (past its task a future is set; a whenAll has seen those
set that it passed), `CallbackInv` (a caller leaves one callback with a future, under its
mutex), `CountInv`, `AllInv` and `IndexInv` (between the flag of a whenAny and its index there is
one thread, and the data is not yet written). `CountInv` says that the counter of a whenAll is at
most the number of its futures whose callback has run: hence the result is set only when all
are, and the theorems about cardinalities carry it over the steps that count. Without
`CallbackInv` a future could be counted twice.

**`ExecutorProofs`**: `PushNeverWaits` (`PushNeverSleeps`), `NothingEmptyRuns` (`NeverRunsEmpty`),
`TasksInOnePlace` (`InOnePlace`) and `PoolKeepsPromise`, the refinement of `TaskPool`, for any
workers, clients, tasks and programs that push a task at one place. `PoolInv` is `StateInv` (types),
`CallInv` (the body at each level of a stack, and that a push is where the program says), `LockInv` (who
is at a label that holds `m_wait` holds it, and `waiting_` is other than Running only while a wait does),
`StopInv` (the flag precedes the closed queues, and a worker has no task only when the flag is raised)
and `OnceInv` (where each task is, that it is there once, and that the call that pushes it is behind
its caller). The first four are enough for the mutex and the flag; `InOnePlace` alone is not
inductive, since nothing in it says that a push is of a new task: that follows from
`PassedInv`, by which a task that is anywhere has its push behind it, and `ExecutorAssumption`, by which
it has one. The lemmas say what a step does to the stacks, the queues and the hands, and each
action is then one of a few kinds. The refinement reads off `PoolInv` in which set each
task was, and off those changes in which set it is.

`WaitIsBarrier` says that under a flat program `WaitMeansDone` holds. Flat is a program in which no task
waits inside the pool, one client at most waits for it, and it waits again after a wait that blocks
pushes only if all pushes are its own: the programs of the tests in `main.cpp` that call `wait()`, save
the one in which a task gets a future, and the first of the run's three. Each condition is needed: section 5
has a program for each that breaks `WaitMeansDone` without it. `FlatInv` is the inductive invariant, beside
`PoolInv`: a worker has one task and is busy while it has one (`WorkerInv`), which a nested task would break;
the waiter finds `m_wait` free (`HolderInv` with `BlockInv`: only a push that a begun blocking wait has
stopped holds it besides, and no such push is left when another wait begins); what a client has pushed
is somewhere (`MineInv`); the queues a wait has passed, and then the threads it has passed, hold nothing of
its client (`SeenInv`), as tasks go from queue to hand to stack and never back, and the client
pushes nothing meanwhile; so at the end they are executed or refused (`WaitedInv`). Tasks of other
clients may come and go throughout.

**`ProcessesProofs`**: `LocksAlwaysRight`, `StoredAlwaysRight`, `CommandsAlwaysRight`, `MonitorAlwaysRight`
and `FetchedAlwaysRight` are the invariants of `processes` about the file lock, schemas and storages,
commands, the file monitor, downloads and sources, for any callers, programs, diffs, contents, chains,
pipes, texts, directories, parts of a body and tries, and whichever of the mishaps occur;
`LockAlways`, `LockIsExclusive` and `WaitingMeansCompleted` say so of the lock by itself. Every step of `MCProcesses` is one of
one part (`PartsStep`), so each part has an invariant of its own, which its steps preserve whether `part` has
chosen it or not:

- `LockInv`: `StateInv` (types, and a job completed since a call has been completed), `CallInv` (what a
  caller may do where it is), `GrantInv` (the system gives an exclusive lock to one process)
  and, as long as one thread of each process uses the lock at a time, `OwnerInv` (a process
  with a lock has one thread that works or holds, and the lock it asked for) and `WaiterInv`
  (a caller waits because somebody elsewhere works or the job is completed, or one of the
  named mishaps occurred). Without `OwnerInv` a caller's return says nothing of the others; without
  `WaiterInv` a waiter that gets the lock could have waited for nobody.
- `SchemaInv`: that the tables agree with the version at the end is not inductive, as they disagree
  inside a transaction. `WrittenOf` says what a transaction that writes sees: the diffs up to the
  next one have run there, once. `OneWrites` (one transaction writes at a time) keeps this true when others
  take steps, and `ViewOf` that a transaction which reads knows the version it starts from; `FirstOf` that a
  program which came first alone finds nothing.
- `StorageInv`: `RecordsInv` (each record leads to its content) needs `SoleInv`, that the one program
  that has the single file knows where its end is and has written the content there before its record,
  and `PairInv`, that records are two words, so that a search meets hashes at odd places.
  In a directory a file that is not whole is being copied, by one program (`CopyInv`).
- `CommandInv`: the state of a command's handles follows from what has become of its
  child (`StartedInv`, `PhaseInv`), so that what `execute2` closes after the loop was not closed
  in it; what the last command wrote is in the pipe or captured (`OutputInv`); the text is written
  while the first child runs (`TextInv`); and an exit code is the last one's, or that of a time
  before (`CodeInv`).
- `MonitorInv`: a record holds what the requests for its directory ask for, and no more (`RecordInv`).
- `DownloadInv`: an undisturbed call holds the file named `.dl` alone, with the parts it has
  written (`HolderInv`, `PartsInv`), and nobody writes to the file the target names (`NamesInv`).
- `SourceInv`: what is in the directory when a step comes (`DirectoryInv`), and what a failed try has
  left there for the next (`BegunInv`).

**`DeploymentProofs`**: `DeploymentsAlwaysRight` is the invariant of `processes` about what is done on remote
hosts, for any hosts, accounts, tasks, calls, writes and commands, and however many commands fail
or hosts restart, where the run allows one.

- `DeploymentInv`: what is checked are facts about the end of a call, or about what a step replaces, and none
  is inductive. `HostRight` orders what is on a host: what runs has its program, as it is or as `.bak`; what
  is enabled has a unit, a unit has a user. A service that was disabled and does not run (`DiscardRight`) stays
  down when its host restarts, writes nothing, and what the backup has copied is still what there is when it
  is deleted, unless it was woken before it was disabled. In a move the other half needs the same of the host that
  was left (`BackupRight`). `DeployingRight` says how far a deployment has come, `CalmRight` what cannot be as
  long as nothing has failed (a service that runs and is not enabled; files of a service without a
  unit that no backup holds; a service without its database), and `GoodRight` whether the last
  program that ran is in its place or is the `.bak`, unless it was overlooked. What runs may differ from
  both the unit's program and the flag `enabled`: that a service that runs is enabled holds only as long as
  nothing has failed.
- `UserInv`: what an object knows of the host was found out by its probes, or by those of the object it was made
  of (`ProbedInv`), and the last call of the chain decides on its names and flags (`ChainInv`).
- `HostInv`: a copy of a file, and what an undisturbed reader has, are of the host they are for (`OfHost`); a line
  that was sent back is in every copy made since, and who copied before disturbs the task (`LinesStay`); who
  waits for a reboot has seen its host go down or come up again (`WaitInv`).

`DeploymentAssumption` asks for a host, `RemoteUserAssumption` and `RemoteHostAssumption` that no account and no
machine has the name of one of the model's marks.

**`ValuesProofs`**: `SharedAlwaysKept` is the invariant of `values` about what several threads or
programs share, `StepsAlwaysAdjacent` its action property about versions; `VersionsInOrder` and
`PrintedAlwaysReadsBack` are parts of `VersionsRight`, for versions of any length (the run has lists of three).

- `CacheInv`: what a change wrote is right because what it had found is still in the file then (`CountOf`, unless
  two changes ran together, which `PairInv` notes, or a rolled-back statement left its transaction open). It
  needs what a program holds at each place of its call (`StatementOf`, `ConnectionOf`): which lock,
  and which view of the row; that what a read found is what its lock keeps there.
- `SettingsInv`: the levels a call has raised but not made yet (`Makes`) are those above the place it has come down to.
  A level that is raised and that nobody makes has its contents (`LevelInv`), so a caller who finds the flag raised
  may return. While one thread builds the storage of sw all levels are its own, and who came in
  before it waits or asks (`AloneInv`). If two callers load levels of the other storage together nothing
  of this holds: that is the mishap the property names (section 5).
- `TablesInv`: the property looks at a database when it is in the form of its version; between the creation of
  missing tables and the updates, it may hold tables of later releases. `OfVersion` says what is true of those: they
  are as their update will create them, so that this update finds nothing to do. `InTurn` (the version a program
  goes by is that of the database) holds as long as two do not update together.
- Versions: a version's numbers are in range, or it is the same as `max()` (`VersionInv`). `Follows` relates what `++`
  and `--` replace to what they yield: equal up to the number that does not carry, one more there,
  full behind it in the one and zero in the other; nothing is between such lists (`FollowsMeans`). For the
  order, the numbers of a version are thought to go on with zeros (`ComparedByNumbers`), which makes lists of different lengths
  comparable, and transitive across them.

`UpdatesAssumption` says that each update was written for the tables before it, where it applies;
`TableUpdatesAssumption` that no program is of a release beyond the history. Both are about
the list of updates a program declares, which grows from release to release, and which the code runs one by one. In
`SettingsStorageAssumption` no thread has the name of one of the marks of `built`.

The library's induction theorems have an operator as a parameter and cannot be used. Induction over
numbers can be had from a theorem without one, that a set has a minimal element in a well-founded relation
(`WFMin`): `LeastNumber` and `ByInduction` of `ValuesProofs` are proved from it, and with them what `Forms` computes
for a history of any length.

Only model-checked: all liveness (`~>`, `<>`), which is beyond the prover; `WaitMeansDone` of
`Executor` for the run's programs that are not flat (`StopProgram`, `HelpProgram`); and in `values` the
rest of `VersionsRight` (that comparison agrees with one number per version, names in letters, ranges and their
texts), `TextsRight`, `WrittenIsRead` and `ArgumentsRight`. These say what recursive functions over sequences
of characters, lines, words or intervals compute, each against a reference definition of its own; a proof would be
an induction over the data for each, with an invariant of the loop.

## 5. What the models show to go wrong

Runs that expect a violation, one each; each contradicts a sentence of the repository that
`PROJECT.json` quotes:

- **executor_chain**, `ClientsFinish`: a task pushes another one (or `notice` pushes a continuation)
  while a client joins. The push blocks on `m_wait` (599), the join holds `m_wait` and
  waits for that worker's `busy` (481): a deadlock.
- **shared_state_this**, `CallbackFutureLives`: `then` captures `this`, usually a temporary,
  in the callback (680).
- **combinators_late**, `AllCompletes`: `whenAll` leaves callbacks with futures that have run
  theirs (728-735), and never completes.
- **combinators_index**, `AnyIndexGot`: `whenAny` raises its flag before it stores the index (797).
- **version_range_sorted**, `AlwaysSorted`: a pair added below the others is inserted in its place
  and appended as well, so that the range `2 || 0` has the pairs 0, 2, 0
  (`version_range.h:137` says "always sorted with less").

The passing properties name further cases in which a promise does not hold. Those a user of
the code should know:

**Executor.** `WaitMeansDone` fails when put to programs the passing run leaves out: t1 =
Get(t2), c1 = Push(t2), Push(t1), Push(t3), Wait(Block), where the task t1 runs while it waits
lowers the `busy` flag they share (560); c1 = Push(t1), Wait(Block), Push(t3), Wait(Block),
c2 = Push(t2), where a push that was blocked takes `m_wait` (599) and the second wait
mistakes it for another wait; and c1 = Wait(Allow), c2 = Push(t1), Wait(Allow), where c2's wait returns
with c1's, which had passed the queue before t1 was in it (443-447). `ClientsFinish` fails with one worker and t1 = Push(t3), Get(t3),
t2 = Get(t1), c1 = Push(t1), Push(t2), Get(t2): t1 helps by running t2 on its own stack, and t2
waits for t1 beneath it. Two callers of `whenAll` or `whenAny` that name the same futures in
opposite orders lock each other out (709, 772), and then what others combined these futures to does
not complete either: `CallersReturn`, `AnyCompletes` and `AllCompletesInTime` name that condition. A notification of a future can be missed (193,
201, 646), which costs its getter the time of one sleep. A continuation whose push throws ends the program, as it leaves
a `noexcept` function (210).

**Cron.** `push(p, job)` without a repetition has skip 1 and is never fired; a job pushed for an
earlier time than the one the thread sleeps for is taken late; a job pushed for the
time of another is dropped.

**File lock.** Two threads of one process share a lock, and the first to close the file drops it
for both. A waiter that meets another waiter, or a holder that does no job, takes its release for
the completion of the job.

**Commands.** The parent keeps its end of a pipe between two commands, so that a child that writes
more than the pipe holds waits for ever when its reader has gone (`Stuck`). The exit code of an
earlier execution survives a start that fails. A command executed again has captured the
output of both executions (`uv_command.cpp:230`), as nothing clears its text.

**File monitor.** A directory's record has one callback, that of its first client; a directory and
files of it, in either order, leave only the files watched; a watcher that failed is not made again.

**Databases.** Two first starts insert two version rows, and a latest schema that skips what is there
may then be of the wrong version. In the SQLite cache one of two `change`s at a time is lost; a busy
commit leaves the transaction open, after which later sets throw and readers wait for ever (not
with a write-ahead log); `find` returns a default value when the row is erased between its two
reads. Two programs that update tables together may set the version back; a release that is
skipped creates tables in their latest form, to which its later updates no longer apply.

**Downloads and sources.** `CURLOPT_NOPROGRESS` is never cleared, so the limit of a file's size is never
enforced (`http.cpp:271`). Tries after `git remote add`, or after a clone of hg, bzr or
fossil, are in vain, and so is the v before a tag without an archive; hg and bzr sources with a version
never download, as the update runs in the directory above the clone; a Git that formatting has
left without a version downloads nothing and succeeds. Of two remote files with one name the later
stays.

**Source descriptions.** A Mercurial source without a revision is refused or gets an uninitialised
one (`source.h:173`); the urls of `RemoteFiles` are lost in YAML; a bad url is noticed by
`download` alone, though a test expects the constructor to throw.

**Deployment.** Nested files are saved under their last name and never restored, and the database is
not restored at all; files deployed once replace restored ones on a new host; the flags of a move
stay for later deployments; a discard cannot be tried again after the database was dropped;
`has_user` finds users of whose name the service's is a part; a backup fails when a file
does not exist yet; the second bad deployment overwrites the `.bak`, and already the first one overwrites the
last good program, without a `.bak`, when the `ls` that looks for it fails (2092-2099, 2303). When the
`status` before the stop fails, the old service is not stopped (2286); when that after the copy does, it is
started and not restarted, so that a deployment may return with the old program running (628-635). A
host that restarts between stop and disable (2443-2444, 645-646) has the service running through the
rest of the discard: what it writes after the backup is deleted, or, since it runs, its database or its user
cannot be. `login("root")` runs as the
account it was made from, and `sudo()` of an object that was logged in is not root. `reboot` returns when
the command failed or the host still answers; a failed question whether a file exists has
`append_file` replace it; all reads share one local file.

**Versions.** "=0" is printed "<=0", which the grammar refuses. In the older copy empty intervals get their
sides swapped and hold versions; `!=` of the least or greatest version leaves nothing out; `<0.0.1` holds
0.0.1; `^0.0.0` and `<0` leave the vector; a single version printed without its last zeros reads back
as all versions that begin so.

**Texts.** `patch` reads `lines` out of bounds for a hunk that starts at 0 or behind the text; text added
behind an inline emitter is lost; calls right behind an inline emitter without lines throw, and
`emptyLines` may remove an emitter in use. A write past a sub-stream's end moves the buffer under the
other stream. A record that is empty, or not filled when the reader comes, ends the reader. base32
with more than one padding loses bytes.

**Settings.** Quotes and backslashes of a path are not escaped and empty parts are lost; an inline table below
a table line gets the table's key twice; `init()` overrides the value of a file that is not YAML; an
entry that was only looked at cannot be saved; a file that is not YAML replaces the map, so that layers
below it are lost and setting objects dangle; the run-once flag is raised before the load, so that a
failed load is reported once and another thread sees settings half loaded.

**Command line.** Errors in words before a subcommand are forgotten; values that a positional option
refuses, or the second one of a named positional option, are dropped without failure; with an option that
consumes the rest, the first of several positional ones gets nothing; an alias of an option
of several values takes one; after the first parse duplicates are ignored, and renaming or removing one
then erases the other's name; an option in all subcommands that is renamed keeps its old name in the
others; after the limit of response files the rest stays as it is and the result is ignored.

## 6. What is not modelled, and why

- In the executor: the start-up barrier of the constructor (no task exists yet), `push(f, n_jobs)`
  that runs a job inline, thread names. Reads of the deque without its mutex are data
  races; the models give them the value of some moment of the call.
- In the futures: `cv_notifiers`, which nothing fills; `waitAndGet`, a sequence of gets; a
  continuation's push that throws (the one hazard of `PROJECT.json` without a property): it
  ends the program, so that there is no later state to speak of.
- In the combinators: the same future twice in one call (locking a `std::mutex` twice), and
  continuations of the combined future.
- In the cron: spurious wake-ups, which only repeat a test; a blocked `executor.push` is a step
  that takes long.
- In versions: the lexer and the characters of a number, `getHash`, printing of a whole range. In the
  older copy extra parts, branches and longer versions: with them, ranges that are
  adjacent at three numbers are merged although longer versions lie between. A pair that
  holds `max()` alone is left out of what is printed: ">=max" is refused.
- In the emitters: namespaces, preprocessor lines, `removeLines`, and the derived emitters' fixed
  sequences of calls. In `mmap2.h`: the read-only open, paths, raw pointers into the pages. In
  `base64.h`: base62, which indexes past its alphabet, and the filter of other characters. In `csv.h`: the
  read one past the terminator at the end of a line.
- In the settings: escapes and numbers of values, writing a map as YAML (yaml-cpp's), `clearLocalSettings`.
- In the command line: help and other printing, the parsers of values, categories,
  `ParseEnvironmentOptions`, `response_file_handler.cpp` (start-up code).
- In the databases: PostgreSQL's locks, the SQL text of other statements, the typed wrappers.
- In commands and the monitor: the resolving of programs, consoles, the error stream (handled as an
  output is), races on libuv's own state. In the deployment: building, package managers, nginx,
  certificates, the firewall, keys. In the HTTP client: requests and proxies, parameters of libcurl.
- Whole components: timeouts and retries (one loop of 71 lines), the web driver, pack, file system, logging,
  reflection, strings, passwords, entry points, Windows helpers, web widgets, tools. They are wrappers,
  generators or start-up code without a state of their own; `PROJECT.json` gives each one's reason.
- The older copy of the source library (`source1`) is the newer one but for some hundred lines, which
  `SourceDownload` and `SourceDescription` would repeat.
- `src/src/version.cpp`, `main.cpp`, `settings.cpp`, `db.cpp`, `csv.cpp`, `patch.cpp` and
  `source.cpp` are the tests, read as statements about the code.

Of the repository's lines many are therefore in no module's reach: tests, generated and
vendored headers (`Setup.Configuration.h`), printing and help, typed wrappers and build descriptions. What
the map names is the code that changes state.

Bounds on data leave out what no bound can show: numbers do not overflow (versions are 64-bit numbers,
read as such), hashes do not collide (`ContentStorage` takes a content for its hash), times do not wrap.

## 7. How the project came about and what is left

First came the executor and the cron, with the abstract queue and pool and the proofs about the task
queue; then the file lock and the other parts that meet other programs; the values; the proofs about
the futures, the cron, whenAll and whenAny, and the pool; then those about the parts of `processes`:
locks, storage, commands, the monitor, fetching and deployments; then those about what threads and
programs share in `values`, and about versions.

Left, most useful first:

1. Lemmas about one step of `VersionRange` (two intervals that are joined hold the union of both), from
   `VersionsInOrder`.
2. A composition of `SharedState` and `Executor`, in which continuations are pushed into a pool that
   refuses them.
3. Larger instances of the parts whose bound is a number of calls.
