# A verification project for dcrontab

dcrontab runs one crontab on a cluster. Every machine runs the same process: a
replica of a Raft state machine (the dragonboat library) that keeps the jobs in
RocksDB, and a *leader worker* that, on the machine that leads, reads the jobs
every minute and runs the ones that are due. This directory holds TLA+ models of
that program, TLC runs of small instances of them, and TLAPS proofs of their most
important properties for every instance.

All paths below are relative to the repository; `commander.go`, `main.go` and
`nats.go` are under `src/dcrontab/`, `db.go`, `slice.go`, `write_batch.go`,
`merge_operator.go`, `iterator.go` and `cf_handle.go` under
`src/dcrontab/gorocksdb/`.

## 1. Inventory

### On-disk state machine: `Commander` (commander.go)

*State.* In memory `lastApplied`, the pointer `d.db`, the flags `closed` and
`aborted` (`aborted` is read and never set). On disk a data directory with one
database directory per database, the file `current` that names the one in use,
its successor `current.updating`, and, in each database, the user's keys and the
applied index under a key of its own.

*Operations.* `Open`, `Update`, `Lookup`, `Sync` (nothing to do: writes are synced), `PrepareSnapshot`,
`SaveSnapshot`, `RecoverFromSnapshot`, `Close`, `GetHash`. dragonboat calls them;
`Lookup` may run next to any of them.

*Hard.* A process can be killed, or the power fail, between any two file
operations; a batch and its index must be one; a snapshot is saved while updates
go on; a recovery changes directories under a replica that has data.

*Correct when.* A replica always serves, and saves, what a prefix of the log
makes of an empty database; replicas at one index are equal; nothing a reader can
have seen is lost; no assertion on its files or its index fires; no directory is leaked; a replica with
data serves again after every crash.

### Database handle: the `rocksdb` wrapper and `Lookup` (commander.go)

*State.* Per wrapper a read-write lock, a `closed` flag and the native database;
`d.db` and `d.closed` of the Commander.

*Operations.* `lookup` (GET) under the read lock, SCAN past it, `close` under the
write lock; `Open`, `RecoverFromSnapshot` and `Close` swap `d.db`.

*Hard.* Any number of goroutines hold a pointer they loaded before the swap.

*Correct when.* No lookup touches a closed database, no old database stays open,
and neither lookups nor `close` wait forever.

### Leader worker, its clock (main.go 526-641)

*State.* The ticker and its channel of one tick, `nextTime`, the Sleep.

*Operations.* Take a tick; on the leader read, run the due jobs one after the
other, move `nextTime` and sleep to it, start a new ticker.

*Hard.* The length of reads and jobs and the moments of elections decide which
minutes get a tick, and in which minute `checkCron` looks at a job.

*Correct when.* The worker settles on the turn of the minute, never sleeps past
it, and looks at each job once in each minute.

### Leader worker, the cluster (main.go 534-641)

*State.* The replicated store; on each node who it believes leads, and where its
worker stands in a setup or in a list of jobs.

*Operations.* Tick, read, setup from the config file, run, Sleep; elections,
failed and late proposals, crashes; `put` on a console.

*Hard.* Who leads is looked at once per tick; setup is a list of independent
proposals; nothing records that a job has run; the minute turns on workers that
are busy, asleep or between two tickers.

*Correct when.* The config gets into the store; a due job runs exactly once in a
minute nothing disturbs, as far as the clock lets it; no node runs it twice.

### Cron matcher: `checkCron` (main.go 127-305)

Pure: five fields, each a list of `*`, numbers, `*/n`. *Hard:* the bounds of the
loops over a step, lists that mix parts. *Correct when* it says what the fields
denote.

### Process: start-up, console and raft worker (main.go 307-524, 645-692)

*State.* The flags, the configuration, the node's number and address; the line
the console goroutine is sending, a channel of 16, the command the raft worker
is at; the node host and the stopper.

*Operations.* Load the configuration, find the public addresses and the node's
number in them, connect to NATS, start host, cluster and workers; read a line,
`exit` or the end of input; parse and run a `put` or a `get`, each with a context
of three seconds.

*Hard.* The number is found by comparing prefixes of addresses; one test stands
for four combinations of flags; `exit` stops a worker that may be busy, or not
started, and a host that commands use.

*Correct when.* The node serves under a number that is its own; no line is lost,
doubled or overtaken; `exit` and the end of input end the process; no command
runs on a stopped host.

### Loops over iterators (commander.go 338-358, 426-477, 516-558)

*State.* A native iterator, on a state of the database; the answer of a SCAN; a
stream of a count and of items.

*Operations.* SCAN by prefix; `saveToWriter`, a pass that counts and one that
writes, for a snapshot and for `GetHash`; the reading back of the stream.

*Hard.* The database is updated between any two moves of the iterator; a read
error ends a loop and nobody asks for it; a transfer breaks off.

*Correct when.* A SCAN returns the pairs of its prefix as one state had them; a
save is of the state that was captured; a recovery has all of it or nothing.

### gorocksdb (vendored, gorocksdb/*.go)

*State.* The native database and its column families, live handles, slices that
own memory of C or borrow an iterator's, a write batch in its serialized form.

*Operations.* Open and close, with families; put, merge and delete, singly and in
batches; get, in seven forms; iterators; compaction; the decoding of a batch; the
callbacks of a merge operator.

*Hard.* Who frees what, after which sequence of calls; varints and lengths at the
end of the data; operands that the library combines in any grouping.

*Correct when.* Nothing is freed twice and all that is allocated has an owner; a
batch, whole or cut, reads back as the records that are there; a key reads as if
each write had been applied at once.

### Other parts

| part | where | hard in it | status |
|---|---|---|---|
| NATS client | nats.go | none of its own | the connection, in Process |
| dragonboat | library | order of calls, elections, failed proposals | external, in Commander and Crontab |
| Docker, supervisor, certificates | scripts | none | the restart, in Commander and Crontab |

The hazards, each at its line and with the properties about it, are in
`PROJECT.json`.

## 2. Modules

| module | models | used by |
|---|---|---|
| KVContents | contents of a database, batches, the applied index, replay of a log | Commander |
| ReplicatedStore | abstract: each replica serves a prefix of one log, and never an earlier one | CommanderProperties |
| Commander | the on-disk state machine, its files, its crashes | CommanderProperties |
| CommanderProperties | its properties, its invariant, the refinement mapping | MCCommander |
| RocksHandle | wrapper, Lookup, close, swaps of `d.db` | MCRocksHandle |
| MinuteClock | the clock of a worker, told in minutes: operators | WorkerClock, Crontab |
| WorkerClock | abstract: when a worker takes ticks and when it sleeps, by the minute | LeaderWorker |
| LeaderWorker | one worker and its clock, second by second | MCLeaderWorker |
| Crontab | all workers, the store, elections and failures | MCCrontab |
| Cron | checkCron and a calendar | MCCron |
| Process | one process: start-up, console, channel, raft worker, stopping | MCProcess |
| DBReaders | SCAN, save and recovery key by key | MCDBReaders |
| WriteBatch | the bytes of a batch and their decoding | RocksDB |
| RocksDB | the API of gorocksdb, call by call | MCRocksDB |
| CommanderProofs, RocksHandleProofs, LeaderWorkerProofs, CrontabProofs, CronProofs, ProcessProofs, DBReadersProofs, RocksDBProofs | theorems | |

Some modules hold, just before a definition, a variant of it with one plausible
bug (`CloseLockNoWait` before `CloseLock`); each is listed under "mutants" in
`PROJECT.json` with the property that fails when it takes the definition's place.

### Commander

One action per file operation, since a crash can come between any two of them.
The helpers that replace `current` are the actions `CreateUpdating`,
`WriteUpdating`, `SyncUpdating`, `RenameCurrent`, `SyncCurrent`; `Open` and
`RecoverFromSnapshot` both go through them. `db` and `current` are what a process
sees, `disk` and `durable` what a power failure leaves; `Kill` loses the memory
of the process only, `PowerLoss` also what was not synced. `Update` is
`UpdatePut` (once per entry), `UpdateWrite`, `UpdateReturn`.

`exposed[r]`, a history variable, is the latest index a reader of replica `r` can
have seen. `log` and `streams` are the Raft library's: the committed log, and the
snapshots that have been saved, any of which may be delivered to any replica.

What is taken from dragonboat, as the code relies on it: it calls `Update`,
`PrepareSnapshot`, `RecoverFromSnapshot` and `Close` one at a time, delivers the
entries after the last applied one, starts no recovery while a snapshot of the
replica is being saved, delivers no snapshot older than the replica, and takes
the process down on any error (a `Kill`). `Lookup` may come at any time
(commander.go 56-58); RocksHandle is about that.

What is taken from the file system: creating and removing a directory is durable
at once. With `OrderedMetadata` a removal makes earlier renames durable, as a
journalling file system does; the theorems assume it. It matters: without it
`cleanupNodeDataDir` can remove the old database while the rename of `current` is
only in memory (kill between commander.go 151 and 154, next Open, power failure),
and TLC then refutes `MissingDirHoldsNoData` (set the constant to `FALSE`).

Abstracted: the items of a snapshot survive their JSON encoding (they are strings
that came out of JSON), `GetHash` is the contents it digests, the checksum of
`current` is the value `Torn`. The leak of read options and native snapshots is
not modelled.

### RocksHandle

The steps of `Lookup`, from the load of `d.db` to the look at `d.closed`, for any
number of goroutines, next to one goroutine that opens, recovers and closes, as
dragonboat does. `Readers(h)`, the holders of the read lock, is derived from where
goroutines stand. A lock a writer waits for lets no new reader in, as
`sync.RWMutex` says. Use of a closed database sets `crashed`: always for the nil
pointer a GET or `NewIterator` would use, sometimes for an iterator made before.
`d.closed` is a plain variable read without a lock, so the read may return the
old value.

### LeaderWorker

Time is counted in units of which `Minute` make a minute. Steps that do no I/O
take no time; a SyncRead and a job take any time in `WorkTime`. The wall clock
does not jump. The buffer of `ticker.C` holds one tick and further ones are
dropped. The node gains and loses the lead at any moment (`Election`). A follower
does not move `nextTime`, as in the code.

MinuteClock is what this comes to when only minutes are told: how many minutes
`nextTime` lies ahead (-1 for any that has gone by), whether the ticker in use has
fired in this minute, and whether a tick waits in its buffer. A new ticker fires
in the next minute for the first time. WorkerClock is the worker with that clock,
and LeaderWorker implements it (`ByTheMinute`, `AbstractClock`): this is what
entitles Crontab to tell time in minutes.

### Crontab

All nodes on one store, the keys of which are all that is kept of it. `InTouch`
says which nodes a read or a proposal can succeed on; `SyncPropose` may succeed,
or fail and be lost, or fail and be stored later (`LateCommit`). Each worker has
the clock of MinuteClock: `Fire`, `TakeTick`, `WorkEnds` (the end of every
leader's tick, main.go 627-635) and `SleepEnds` are its steps, and `NextMinute`
turns the minute on all nodes, also on the ones that are busy or asleep. Work may
thus go on over any number of minutes, a tick may be taken late, and a leader that
sleeps to get onto the minute has no tick in the minute it wakes in. Which jobs
are due is chosen from `DueSets` each minute (Cron says when); a job that is looked
at after the turn of the minute is looked at with the new one.

`calm`, `late` and `slept` are history variables: nothing that can disturb the
minute has happened in it, and which nodes were busy and asleep when it began.

### Cron

A field is a sequence of parts: a star, a number, a step, or text that is none of
these; splitting the text is left out. The loops over a step are kept as loops,
as recursive functions. A calendar goes through the minutes of days, months and a
year. `DueWhenDenoted` compares `checkCron` with a definition of what the parts
denote *as the code means it*: days are stepped from zero, months from one, day
and weekday must both match, times are UTC.

### Process

`step` is where main stands, from the flags to `raftStopper.Wait()` and the
return; any call of NATS and of dragonboat may fail, and `Failed` are the three
ways in which main then ends. An address is its host part, a sequence of symbols,
because a prefix is what the code compares. The machine, its interfaces and the
flags are chosen at the start.

`con` is the goroutine that reads lines, `worker` the one that runs them, `ch`
the channel between them; a line the one is sending and the other works on is in
`out` and `hand`. `select` in the worker chooses freely between a waiting line
and the stopper. `accepted` and `handled` are histories of the lines, `early`
remembers that `exit` came before main had started the raft worker.

### DBReaders

A move of an iterator has two outcomes, the next key or invalid by a read error;
none of the loops tells them apart, as in the code. `cut` is a history of the
passes of a save that a read error ended: the properties say what still holds
then. Update is one step. Who may close the database meanwhile is RocksHandle's
question, and in which state a save begins is Commander's.

### WriteBatch and RocksDB

WriteBatch has the byte format of a batch, with the varints in base `Base`, and
the iterator of write_batch.go that reads it, its errors included. RocksDB has
one action per call of the API that changes what is stored, which handles are
open, or who owns memory; each get in its own form, since each frees and hands
out memory in its own way. A key holds the value put last and the operands merged
since; `PartialMerged` and `FullyMerged` are the library combining some of them
through the callbacks of merge_operator.go whenever it likes. `asWritten` is the
history it must not be told apart from. `lost` are the values of the other keys
when one key of a MultiGet fails: db.go 291 and 344 return without them.

## 3. What is checked

| run | instance | properties |
|---|---|---|
| commander | two replicas, two directories, log of 2, 2 crashes | IInv (with TypeOK), StateIsLogPrefix, HashAgreement, NoOtherPanic, MissingDirHoldsNoData, OneDirWhileRunning |
| commander_recovery | one replica, two values, log of 2, 3 crashes, with fairness | NothingSeenIsLost, ImplementsStore, ServesAgain |
| commander_first_open | one replica, 2 crashes | *violated:* DirNeverMissing |
| handle | two goroutines, three databases, with fairness | HandleInv, GetsReadOpenDB, OneDBOpen, CallsEnd |
| handle_scan | the same | *violated:* LookupsSurviveClose |
| worker | two jobs, minute of 4, 8 minutes, 2 elections | WorkerInv, SleepsIntoNextMinute, TicksWithinTwoMinutes, EveryMinuteOnceAligned, OncePerMinuteOnceAligned, FollowsMinuteClock |
| crontab | two nodes, two commands, a console key, an election, an error or crash, with fairness | TypeOK, OncePerNode, SetupStoresConfig, ExactlyOnceWhenCalm, CrontabIsSetUp |
| crontab_setup | one error | *violated:* CompleteSetupIsComplete |
| cron | 49 crons, 1600 minutes from three dates | DueWhenDenoted, DueEveryNMinutes |
| process | four machines, three addresses, any flags, a channel of 2, four lines, with fairness | RunsAsItself, ServesWithIdentity, LinesInOrder, EndOfInputDrains, HostOutlivesCommands, LineIsSent, InputEndsProcess |
| rocksdb | one key, two families, two slices, batches of 2, 3 writes | MemoryOwned, NoBadFree, ReadsAsWritten, BatchReadsBack |
| readers | three keys, two values, one update | ScanExact, SavedIsSnapshot, RecoverAllOrNothing |

### Why these bounds

*Commander.* The log holds two entries so that a batch of two, two batches of
one, and a snapshot between them are all possible; a replica never uses more than
two directories at once; two replicas are what an exchange of snapshots needs. A
crash in a recovery, and one in the Open after it, are two; the recovery run has
a third. The theorems drop all of these bounds.
*RocksHandle.* Three databases are a first one, one recovered into and closed,
and one that takes its place while `Lookup`s hold on to both; two goroutines can
be on different databases. Proved for any number.
*LeaderWorker.* A minute of 4 has room for a read and two jobs of one unit each
and one to spare, so the work of a tick ends within a minute, which
TicksWithinTwoMinutes and the two properties of an aligned worker need.
Eight minutes let a worker align, lose the lead, and get it again. WorkerInv,
SleepsIntoNextMinute and FollowsMinuteClock need no such bound and are proved for
any `WorkTime`, also work that takes several minutes and lets ticks be dropped. The
others are proved for any bound under which the work of a tick ends in a minute.
*Crontab.* Minutes are not bounded, and neither is how many of them the work of a
tick lasts. An election and a failure, which is an error or a crash (`MaxFaults`),
suffice for two leaders in a minute, for a setup cut short, and for a leader that
dies in the middle of its jobs. One of the config's commands is due in every
minute, and its other command and the console's job never are, so that lists of
two and of three jobs have jobs of both kinds. Proved for any nodes, keys, due
jobs and bounds.
*Cron.* Steps below, at and above the size of every field; dates that cross the
end of an hour, a day, a February, a 31st and a year. `DueEveryNMinutes` looks
over 1600 minutes, more than a day. The theorems are about every cron and date.
*Process.* A channel of 2 and four lines fill it with one line in each hand. One
address is a prefix of another, one is a host name, and the machines are one per
address and one that nobody lists, so that a number is found rightly, wrongly and
not at all. RunsAsItself is about machines none of whose addresses begins another
one by accident (`PrefixFree`); without that a machine with 10.0.0.1 takes the
number of 10.0.0.10.
*RocksDB.* In base 2 a length of 2 takes two bytes, so varints of one and of more
bytes occur, and every cut of every batch is tried. Three blocks are one more than
two slices can own. The constraint ReadsOrWrites keeps behaviours that read apart
from those that write: reads meet values that are there from the start, and no
read changes what is stored, so nothing is missed that the properties speak of.
The proofs are of the specification without it.
*DBReaders.* One key is a prefix of a second and not of the third, so a SCAN
starts in the middle and stops before the end; the values are symmetric. A single
update falls between any two reads. Proved for any finite set of keys and any
number of updates.

### Fairness

*Commander:* the goroutine in `Open`, `Update` or `RecoverFromSnapshot` goes on,
and the supervisor (dcron.supervisor.conf) restarts a process that died. Nothing
is assumed to be committed or recovered. Crashes are finitely many.
*RocksHandle:* a goroutine goes on; `sync.RWMutex` lets a waiting writer in once
the readers inside are gone; a SCAN ends, as its key range is finite. No Lookup
and no recovery has to be called.
*Crontab:* a worker goes on (its reads and proposals share a context of 58 seconds),
time passes and tickers fire, the supervisor restarts, and Raft's own guarantee, with a majority
up: where no node leads one comes to, and the others hear of it.
*Process:* main, the console and the raft worker go on, since every command has a
context of three seconds that ends it. A user need not type anything.

### What disagrees with the code's own words

Three findings, each with the line it contradicts, in `PROJECT.json`:

* a crash in the first Open between the rename of `current` and the creation of
  the database leaves a replica that panics at every start (first_open);
* a SCAN is not covered by the wrapper's lock and can use a closed database
  (handle_scan);
* a setup whose proposals failed says it is complete, and nothing completes it
  (crontab_setup).

Further behaviours show in the models without a run of their own:

* a GET that was right to succeed panics when Close sets `d.closed` before it
  returns (commander.go 362; `GetReturn` of RocksHandle);
* a leader's tick off the minute is followed by a Sleep to the next minute and a
  new ticker (main.go 631), while the comment on the worker says that it reads
  every 60 seconds (main.go 528): a leader that started at 10:00:30 reads at
  10:01:30 and then at 10:03:00. The jobs due at 10:02 are left out, on a cluster in
  which nothing is wrong: hence `slept` in ExactlyOnceWhenCalm, and the two minutes
  of TicksWithinTwoMinutes;
* two nodes run a job in one minute when the lead moves between their ticks
  (main.go 538), which is why ExactlyOnceWhenCalm asks for a calm minute, and one
  node runs it twice in a minute that finds it busy, once from its old list and
  once on the tick that waited: hence the 2 in OncePerNode;
* before a worker is aligned, a slow read or job pushes the look at the next job
  into the following minute, in which the next tick looks at it again: hence the
  "once aligned" in OncePerMinuteOnceAligned;
* a job put on the console before the first setup keeps the config's commands out
  for good: hence the last disjunct of CrontabIsSetUp;
* a read error that nobody asks for cuts a SCAN, or the first pass of a save,
  short without an error, while commander.go 440 says that all pairs are saved:
  hence the conditions on `cut` and `err` in DBReaders;
* main ends when NATS cannot be reached, whether NATS is configured or not: the
  test `&configuration.NatsService != nil` (main.go 466) holds for every
  configuration, while README.md 17 says that NATS may be disabled.

## 4. What is proved

All theorems are about the specifications TLC runs, for every value of their
constants.

**CommanderProofs** (assumes `OrderedMetadata`; the constants are distinct, the
bounds are numbers). `Invariance` shows `IInv` by one lemma per action. The
properties are not inductive: that a replica serves a log prefix says nothing of
the database a crash will bring back. `IInv` says, for each step of a replica,
which directories exist, which of them `current` names in memory and on disk, how
far the database in each has come, and that losing either version of `current`
costs nothing a reader has seen (`Backs`). From it follow `TypeCorrectness`,
`ServesLogPrefix`, `ReplicasAgree`, `AssertionsHold` (with
MissingDirHoldsNoData), `NoDirectoryLeaks`, `Durability`, and `Refinement`: every
step is a step of ReplicatedStore or leaves what it speaks of unchanged.
ReplicasAgree rests on `ReplayIsUnique`: two databases that
replay the same prefix are equal, whatever batches built them. A replay is
characterised by the last write to each key, not by a recursion over the log, so
this needs no induction.

**RocksHandleProofs** (assumes only that `NoHandle` is no handle).
`HandleInvariance` shows `HandleInv`: which wrappers are alive (`WrapperInv`), who
can hold a lock (`LockInv`), and what goroutines hold on to (`HolderInv`). The
point is that a goroutine between RLock and its read keeps the writer out, so
what it checked still holds when it reads. `GetsAreSafe` and `NoHandleLeaks`
follow.

**LeaderWorkerProofs** (assumes `Minute > 1` and that times are numbers).
`WorkerInvariance` shows `WorkerInv`: `nextTime` is on the minute, has come by
the time a tick is taken, and stays behind the clock while work goes on. It holds
for reads and jobs of any length. `SleepIsBounded` follows, and the refinement
`WorkerFollowsMinuteClock`: a step of the clock within a minute is a stutter or
the firing of the ticker, one over the turn of it is WorkerClock's `NextMinute`,
with the ticker firing on the turn or not; the end of the work compares minutes as
it compares times, since `nextTime` is on the minute. The other three theorems have the hypothesis `QuickWork(B)`: no read or job takes more than `B`,
and a read and all jobs less than a minute. `QuickInv(B)` then says how far the
clock is from the last tick at each step, `Spent(B, j)` bounding the work done
before job `j`; `AlignedInv` that a worker whose last tick was on the minute does
not sleep (two turns of the minute are a minute apart, so `nextTime` is behind by
a minute at least); `CheckedInv` that the minute in which a job was looked at last
began before the next tick. `TicksAreClose`, `AlignedTicksEveryMinute` and
`AlignedJobsOncePerMinute` follow.

**CrontabProofs** (assumes finitely many keys, and that `NoNode` is no node).
`CrontabInvariance` shows `CrontabInv`. For a setup it says that a command is in
the store or in the list of every worker that sets up, as long as no call has
failed: that one worker is done then says the store is complete, though another
may be in the middle, or dead.
For the jobs, two parts. `NodesInv` is about each node by itself, whoever leads:
`NodeOK` relates where its worker stands, its list, its clock and its runs. A node
that was idle when the minute began has one tick in it, and is done with ticks
once it is busy (`TicksOK`); one that was busy may finish its list and then take
the tick that waited, unless `nextTime` sends it to sleep (`LateOK`); and a job
that is still ahead of a node has run less often than it may (`RunsOK`), a list
holding no key twice. One lemma per kind of step shows that `NodeOK` is kept.
`CalmInv` is about the cluster: in a calm minute in which all know the leader only
the leader works, and it either leaves the minute out because it slept into it, or
is before its list, within it, or done, each due job having run or being in the
rest of the list. That a leader which is done gets no second tick is `NodesInv`.
`TypeCorrectness`, `SetupIsComplete`, `NodeRunsOnce` and `JobsRunOnce` follow.

**CronProofs** (assumes that crons are fields of parts, that the dates started
from are dates, and that the horizon is a number). `CronIsDueWhenDenoted`: `checkCron`
says what the fields denote, for every cron and date. The loop over a step is a
recursive function over the numbers; `LoopIs` gives its closed form, `Meets`: the
value is a whole number of steps from the first. `ClockInv` keeps the clock on
dates, whose values lie within the bounds of the loops (`ValuesInLoop`): that the
loop over days goes to 60 is harmless, that one to 59 over minutes would not be.
`StepsAreRegular` needs `GapInv` besides: once a job was due, the minute `quiet`
minutes ago is a multiple of its step, in this hour, and no multiple came since.

**ProcessProofs** (assumes a capacity of at least one, and that addresses are a
sequence of sequences of symbols). `ProcessInvariance` shows
`ProcInv`: the lines accepted are the concatenation of what is handled, in hand,
in the channel and being sent; that a hand is empty when nobody holds a line; why
the worker returned, and who had closed what. `NoLineIsLost`, `InputIsDrained` and
`HostIsStoppedLast` follow. `ProcessTypes` needs with the types (`PlaceTypes`) that
the channel is within its capacity (`BoundInv`). `IdentityInv` says, for each step
of main after the search for a number, what that step has made sure of: without an
address in the flags, the address is the one of the number, and a number main found
itself matches one of the machine's own addresses. From it follow
`NobodyServesWithoutIdentity` and `EveryoneRunsAsItself`, for any list of addresses.

**DBReadersProofs** (assumes finitely many keys, each a sequence of numbers).
First, that the byte order of keys is a strict total order (`LessTransitive`,
`LessTotal`), that a prefix comes before its extensions and that the keys of a
prefix lie next to each other (`PrefixTogether`): that is why SCAN may seek to the
prefix and stop at the first key without it. `Rank` counts the stored keys before
a key; a move of an iterator goes from one rank to the next (`MoveIs`). `ScanInv`:
what a SCAN has is what lies between the prefix and the place of its iterator, in
the state the iterator is on. `SaveInv`: both passes are on one state, the count
is the rank reached in the first, and the stream is the beginning of its encoding,
as long as no read error cut a pass. `RecInv`: what a recovery has put is what the
items read so far say, and nothing of it is in the new database before the last.
`ScansAreExact`, `SavesTheSnapshot` and `RecoversAllOrNothing` follow.

**RocksDBProofs** (assumes that nil and iterator memory are no blocks, that keys
and values are sequences of numbers, that their lengths and the numbers of the
families have a varint, and that the bounds are numbers; the native library keeps
lengths and families in 32 bits, five digits of the ten that the decoder reads).
`MemoryIsOwned` and `FreesAreGood`, for any number of slices and calls: the two
need each other, since a free is good because the slice owns what it frees, and
ownership is one to one because nothing was freed that had another owner.
`KeysReadAsWritten`: `DataInv` adds only the types of what is stored and queued,
and the weight is in the lemmas. Flattening is a homomorphism (`FlattenConcat`), so
a client's operator that appends may be applied to any grouping;
`partial_merge_multi`, where it succeeds, appends all of its operands
(`PartialMergeAppends`); hence an entry with a run of operands joined reads as
before (`JoinedReads`), a record does to what is read what it does to the value
(`RecordAgrees`), and so does a batch (`BatchAgrees`). `RocksTypes` puts the three
invariants together; its types say that a slice with an iterator's memory is always
marked as freed.

`BatchesReadBack`, for any base, any number of digits and any batch: `BatchInv`
says that what is queued can be serialized, that is, has the fields of its type
and no others (`WellFormed`), and the weight is in four layers of lemmas. *Digits:*
what has been decoded and what is left of the number times the weight reached is
always the number (`DigitsRead`), and nothing is left after `MaxDigits` digits
(`RestVanishes`). *Fields:* data cut off anywhere is data that agrees with an
encoding as far as it goes (`Agrees`), so a varint, a slice and each field is
either read and skipped, or too short and an error (`VarintReads`, `SliceReads`,
`CFReads`, `KeyReads`, `ValueReads`). *Records:* `Next` reads the fields of the
type in turn, and an error in one stays (`NextIsFields`, `NextReads`). *The loop:*
after m calls the iterator is where the mth record ends (`After`, `CollectOne`),
and the record that is cut off, or the end of the data, stops it (`CutReads`).
Since `WellFormed` allows every type the iterator knows, the round trip holds for
more records than the API can queue.

**Induction over data.** The library's induction theorems take an operator as a
parameter and cannot be used here. In CronProofs, DBReadersProofs, ProcessProofs
and RocksDBProofs the arguments are about sets instead: the set of places where
a loop does not do what is claimed has, were it not empty, a least element
(`LeastNat`, from the well-foundedness of the natural numbers), and there it does.
That a recursive function satisfies its own equation is shown by giving one that
does (`RunExists` in RocksDBProofs, closed forms in CronProofs and in `CutReads`).

**Only model-checked.** Liveness (ServesAgain, CallsEnd, CrontabIsSetUp,
LineIsSent, InputEndsProcess) is beyond the prover: it is stated with
fairness, which the prover does not reason about. Every invariant and every other
action property of a passing run has a theorem. The types of Process and RocksDB are
proved and not run.
The three violated properties are about counterexamples and have nothing to prove.

## 5. Not modelled

What a job does and whether it succeeds; `Retry`, `Critical` and `Timeout` of a
job, which the code parses and never uses; a job that never ends (it holds the
worker for good). The text of commands, keys and config files, what is printed
and logged. TLS, NATS and RocksDB themselves. dragonboat's membership changes, but
for the flag `join`. Native snapshots and read options that no path releases.

Of gorocksdb: options, environments, caches, filters and table formats (setters
that hand a value to C and keep nothing); backups, checkpoints, transactions and
sst files, which this program never calls; the metadata of live files; the
registry of callbacks (cow.go). Merges, column families and MultiGet, which this
program does not call either, are modelled: they go through the same slices, the
same batches and the same bytes as the calls it makes. A native call that fails changes nothing and is no
step, except for MultiGet.

## 6. Plan

1. Crontab over ReplicatedStore in place of its set of keys; LeaderWorker with
   Cron's `checkCron` in place of `Due`.
2. Transactions of gorocksdb, should the program come to use them.
