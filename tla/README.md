# WeatherApp in TLA+

A specification of the iOS app in `src/WeatherApp/WeatherApp` - a home screen with
a weather panel and a list of events, a screen that adds an event, one that edits
an event, and one that signs in - and of leveldb, the storage engine linked into
it with Firebase's database (`src/WeatherApp/Pods/leveldb-library`). The events live in the
Firebase Realtime Database, the accounts in Firebase Auth. The app has no tests and no
written specification, so what a part of it promises is taken from how its callers use
it; leveldb states its promises in its headers and assertions.

The README is organised as an inventory of the system, the plan, a section per
module with its correspondence to the code, what each run shows, what is proved,
and what is left out. Paths are relative to `src/WeatherApp/WeatherApp`, those of
leveldb to `src/WeatherApp/Pods/leveldb-library`, unless they start with `src/`.

## 1. Inventory

### How the app is put together

Every screen is a VIPER unit (view controller, presenter, service, router) built
by the `*Assembly.swift` files through `Common/ViewControllerFactory.swift`. A tap goes view -> presenter -> service; the
service calls Firebase; the completion comes back on the main queue (Firebase
Database and Auth) or on a URLSession queue (weather) and goes service ->
presenter -> view or router. Routers push a new screen with
`DispatchQueue.main.async`, so every push is a later block of the main queue. No
state is shared between screens, except what lies outside the app: the signed-in
user, the database, and the navigation controller's stack.

| component | state | operations | hard behaviour |
|---|---|---|---|
| Event list loading (`Screens/Home/HomeService.swift`, `getData`) | `eventArray`, `eventS`, a `DispatchGroup` | ask for the account's keys, one request per key, complete when the group is empty | answers in any order; an error, an empty account or a malformed value in the middle; a block on another queue reads what the callbacks write |
| Event creation (`Screens/Event`) | the uid captured at construction | save: the key under `users/<uid>/events`, then the event under `events/<id>` | two writes with a callback between them; Save tapped twice; the screen popped meanwhile; sign-out meanwhile |
| Event editing (`Screens/Home/Edit`) | the event being edited | write `events/<id>` | the event may be gone by then |
| Event deletion (`HomeService.swift`, `deleteEvent`) | the uid at the tap | remove the event, then the key of the account | two writes; the row belongs to another account than the one signed in; a force unwrap in the callback |
| Session (`Screens/Auth`, `HomeService.logOut`, `AppDelegate.swift`) | `Auth.auth().currentUser` in the keychain | sign up, log in, log out, choose the root at launch | Home stays reachable after a log-out and keeps its rows; two sign-ins at once |
| Navigation and assembly (`*Router.swift`, `*Assembly.swift`) | the navigation stack | push Home, Event, Edit, Auth; back; the log-out alert | pushes are deferred, from screens that may be popped by then |
| Realtime Database client (`src/WeatherApp/Pods/FirebaseDatabase`) | outstanding writes and reads | `setValue`, `removeValue`, `getData` | reconnection sends writes again and forgets reads; a read times out; a read under a pending write is answered locally |
| Firebase Auth (`src/WeatherApp/Pods/FirebaseAuth`) | the current user | `signIn`, `createUser`, `signOut` | asynchronous; survives restarts |
| Home table (`HomeViewController.swift`, `EventTableViewCell.swift`) | `eventData`, the table's own row count | reload, delete a row | `setData` runs on a background queue |
| Weather panel (`HomePresenter.swift`, `HomeViewController.swift`) | labels, icons | current weather, hourly forecast | two forecast requests at once; values carried from one hour to the next |
| Event dates and reminders (`EventViewController.swift`, `EventTableViewCell.swift`, `HomeViewController.swift`) | date strings, one notification | format, compare, sort, remind | two date formats for one date; a sort by text |

### leveldb

The app never turns persistence on, so in this program the engine is linked and idle; it is
modelled because it is the one part of the repository whose whole implementation, with
threads, files and recovery, is there to be read. A write is appended to a log and put into
a memtable; one background thread writes full memtables to tables and merges tables of
one level into the next; a manifest records which tables make up the current version, and
`CURRENT` names the manifest. Everything but the memtable's readers and the cache is under
one mutex, which is released around I/O.

| component | state | operations | hard behaviour |
|---|---|---|---|
| Log format (`db/log_writer.cc`, `db/log_reader.cc`) | block offset; the reader's buffer and mode | cut a record into fragments, read records, report drops | stops within a record, damaged bytes, failed appends, reading from the middle |
| Writes and background work (`db/db_impl.cc`: `Write` to `MakeRoomForWrite`, `MaybeScheduleCompaction`, the destructor) | the queue of writers, `mem_`, `imm_`, `bg_error_`, `background_compaction_scheduled_` | write in groups, slow down, stall, flush, close | who wakes whom; a group's leader answers for others; an error between two steps |
| Versions and compactions (`db/version_set.cc`, `db/db_impl.cc`) | files per level, `compact_pointer_`, snapshots, `pending_outputs_` | look a key up, pick files, merge, drop, move, `CompactRange` | readers and snapshots of old versions; flushes in the middle of a compaction |
| Files and recovery (`db/db_impl.cc`: `Open`, `Recover`, `RemoveObsoleteFiles`; `util/env_posix.cc`) | the directory, what is synced | create, replay logs, write manifests, delete files | the process or the machine stops between any two steps |
| Iterators (`db/db_iter.cc`, `table/merger.cc`) | direction, saved key, the children's places | `Seek`, `Next`, `Prev` in any order | a change of direction while the memtable is written |
| Caches (`util/cache.cc`, `db/table_cache.cc`) | reference counts, two lists, `usage_` | look up, insert, release, erase, prune | two threads miss and insert the same key; eviction of what is in use |
| Tables, blocks and filters; memtable, arena and coding; tools | none between calls | formats | section 7 |

What has to be true for the parts to be correct:

- a load shows the whole list of the account or no list at all, and tells its
  caller at most one thing;
- the two trees of the database agree: every listed key has an event
  (`DanglingExplained`), every event is listed by somebody (`OrphansWereRevived`),
  except for the gaps the code itself opens, and those close again (`GapsClose`);
- a Home that waits is waiting for something that is still to come, unless the SDK
  forgot a read of it (`HomeAwaitsAnswers`, `HomeSettles`), and what it shows is stored or still being
  written, as long as one device runs the app (`RowsAreStored`);
- no force unwrap meets a nil (`NoTrap`, which fails, section 5);
- a table with rows to tap on has as many as its data (`TableAgrees`);
- one forecast that arrives is enough for the weather panel (`ForecastIsShown`),
  and every column is explained by what arrived (`ColumnsAreLastKnown`);
- reminders are set for the right events (`RemindsOfTwoDigitDates`), rows are in an order
  a user can follow (`CalendarOrderWithinMonth`) and in the colour of their day
  (`ColoursOfTwoDigitDates`), as far as two texts for one date let them;
- a log gives back the records that were written whole (`RoundTrip`, `TornTailIsSilent`), never
  another one (`NothingForged`), and damage costs no more than its block (`DamageIsLocal`);
- a call of `Write` returns, tells the truth and shows readers whole batches
  (`EveryCallReturns`, `CloseReturns`, `SyncedIfAsked`, `ReadersSeeBatches`, `WritesAreOrdered`);
- merging changes nothing a reader can see (`OnlyWritesChangeReads`, in terms of `KvStore`), because newer
  entries stay above older ones (`NewerIsAbove`), files of a level do not overlap (`OverlapsComeFromGaps`) and
  nothing is deleted too early (`NeededFilesExist`), with two exceptions that section 5 describes;
- what was acknowledged survives the process, what was synced the machine, and the
  database opens again (`AckedSurvive`, `SyncedSurvive`, `OpensAgain`);
- an iterator is one on a map that does not change (`StandsOnTheMap`, a refinement of
  `KvIter`), its children are where its direction needs them (`ChildrenAreInPlace`), and
  its loops end (`CallsReturn`);
- the cache frees what nobody has, and only that (`RefsAreCounted`, `HeldIsAlive`,
  `ListsAgree`, `UsageIsTheSum`).

`PROJECT.json` lists every hazard at its line, with the property that covers it.

## 2. Plan

Written so far, in this order, the most important first:

1. `EventLoadOps`, `EventLoad`, `EventFetch`: one load of the list, and the
   abstract specification its caller relies on; `EventLoadProofs` proves it.
2. `FirebaseClient`, `WeatherApp`: the whole app on several devices over one
   database. It uses the operators of `EventLoadOps` for the load of each Home.
   `WeatherAppShape` and, on top of it, `WeatherAppRequests` prove it.
3. `HomeWeather`: the weather panel; `HomeWeatherProofs` proves it.
4. `EventDates`, `HomeList`: date texts, the table, row colours and reminders;
   `HomeListProofs` proves them.
5. `LdbLog`: the log format, on which manifests and recovery rest.
6. `LdbWrite`: the queue of writers and the background thread; `LdbWriteProofs` proves
   the queue.
7. `LdbVersion`, `LdbCompaction`: lookup, compactions and readers, with `KvStore` as
   the abstract specification.
8. `LdbRecovery`: files, stops and recovery. It takes from `LdbLog` that a torn record at
   the end of a file is left out, and from `LdbCompaction` that a compaction keeps what
   its inputs hold.
9. `LdbIter` with `KvIter`, and `LdbCache`; `LdbIterProofs` and `LdbCacheProofs` prove them.

To come:

10. *Navigation*: an abstract specification of "a save shows one new Home over its
    screen, or none after Back", with `WeatherApp` as its implementation.
11. *Write path*: an abstract store in which a save and a delete are one step each,
    and a specification of what `users/` and `events/` look like between the two
    steps, with `WeatherApp` (one account, no faults) as its implementation.
12. *Auth screen*: the error codes of log in and sign up and what the screen says.
13. *Proofs*: the safety of `LdbRecovery` and of `LdbCompaction` for any number of
    files.

## 3. Modules and the code

### EventLoadOps, EventLoad, EventFetch

`EventLoadOps` is the state captured by one call of `HomeServiceImpl.getData`
(`HomeService.swift:144-215`) as a record, and one operator per callback: the keys
arrive, are absent or fail; an event is found, fails or is malformed; the block of
the group runs. `group` is the count of the `DispatchGroup`, `pending` the keys asked
for and not answered, `eventArray` the property of the service, `eventS` the local
variable the block reads, `shown` what `setData` gets. The operators are pure so that
`EventLoad` (one load, every answer in every order) and `WeatherApp` (many loads,
answers that come from a database) share them.

The callbacks run on the main queue one at a time, and the last leave happens before
the block it releases, so the assignment to `eventS` and the block's read never race.
Keys are not duplicated: they are the keys of a JSON object. An event that is there
but lacks a field returns without leaving the group (`EventMalformed`).

`EventFetch` is the promise `HomePresenterImpl.getData` relies on: at most one of a
list and a failure, the list with one event per key of one reading of the index. It
does not promise an answer, because the code does not give one: an account without
events (`HomeService.swift:178`) is never answered.

### FirebaseClient

What the app can observe of the SDK in `src/WeatherApp/Pods/FirebaseDatabase`:

| in the model | in the code |
|---|---|
| `index`, `events` | the trees `users/<uid>/events` and `events/<id>` |
| `outbox[d]` | `outstandingPuts` and `outstandingGets` of `FPersistentConnection.m`, in the order they are sent |
| `ServerGrants`, `ServerRefuses` | the server applies or refuses the next request of a device |
| `Receive` | the answer arrives and its callback is posted on the main queue (`FEventRaiser.m`) |
| `Disconnect` | `onDisconnect`: reads that were sent are forgotten, writes are kept |
| `Reconnect` | `restoreState`: writes first, in order, then the reads that were never sent |
| `GetTimesOut` | a read made while offline fails after three seconds |
| `LocalAnswer` | `getServerValue`: a read under a pending write is answered from it |

A write the server applied but whose answer was lost is applied again. A process that
ends loses its outbox, since the app does not enable persistence; bytes already on
their way are taken to be lost with it. A refusal stands for the security rules and
any other error; the rules are not in the repository.

### WeatherApp

One action per tap (`DidTap...`, `DidConfirmLogOut`, `DidCancelLogOut`), one per kind
of block of the main queue (`RunPush`, `OnAlert`, `OnSignedIn`, `OnSaveIndex`,
`OnSaved`, `OnDeleteEvent`, `OnDeleteIndex`, `OnReadIndex`, `OnReadEvent`), the
background block of a load (`Notify`), the answer of the auth service, and `Launch` and
`Kill`. The state is what outlives a callback in the code:

| variable | in the code |
|---|---|
| `user[d]` | `Auth.auth().currentUser`, kept in the keychain |
| `stack[d]` | `viewControllers` of the navigation controller; a Home with its load and its rows, an Event screen with the uid `EventServiceImpl` captured at construction |
| `mainQ[d]` | `DispatchQueue.main`: completions, pushes, the alert |
| `alert[d]` | the Home presenting the log-out alert |
| `status[d]` | running, not running, or stopped by a force unwrap of nil |
| `built[d]` | numbers the screens of a process, to tell them apart |

`forgotten`, `revived` and `torn` are history: a Home whose read the SDK forgot, a key
written while its event was gone, a key whose two-step write was cut. They are what the
properties allow as explanations, and each is set at the one step that earns it.

Abstractions: the text of an event is one value; the order in which `fetchEventsFromEvents`
is called for the keys is one fixed order (`EventLoad` has all orders); Back pops one
screen; animations, the keyboard and the back button's long-press menu are left out; a
`signOut` that fails in the keychain is the same as Cancel; malformed events occur in
`EventLoad` only, since the app writes events whole.

### HomeWeather

`viewDidLoad` asks for the forecast twice and for the current weather once
(`HomeViewController.swift:53-57`). `callbackQ` is the serial queue of `URLSession.shared`,
`mainQ` the blocks of `display` and `hourlyWeatherDisplay`. `SetHourlyWeather` is the
double loop of `HomePresenter.swift:117-157` as two recursive functions whose icon and low
temperature carry over; `ColumnsAreLastKnown` compares what is on show with a definition without
loops. `Icon` and `HourlyIcon` keep the names of the code; that the system knows them is
taken for granted. The two differ for `clear sky`, which the hourly panel shows with the icon
of a thunderstorm. Number formats are left out.

### EventDates, HomeList

`EventDates` writes a date as the pickers do and as the date formats do, and compares
texts character by character. `HomeList` has the Home screens with `eventData` and the
table's own number of rows, the notification centre, and a clock that strikes 15:10 and
midnight. `setData` runs on the group's background queue at any time after `viewDidLoad`;
the assignment of the array is taken to be one step, although Swift calls an
unsynchronised one undefined. Notifications are taken to be permitted: where they are
not, there are no reminders. `stored` stands for the events of the account as Save,
Update and Delete leave them; `WeatherApp` has their steps.

For the row colours, a row is coloured when its cell is made, with the day of that moment;
cells are made again when rows scroll, so each row is looked at with the day the Home was
loaded and with today. Events with equal texts may come in any order, since Swift's `sort` does
not promise to keep theirs: `Sorted` is a set of lists.

### LdbLog

One action per fragment of `AddRecord` and one per case of `ReadPhysicalRecord` and of
`ReadRecord`'s switch. A file is its sequence of bytes, and a byte is named by the fragment
it was written for and its place there; a header is recognised, and a checksum agrees,
exactly if all the bytes of a fragment are in place. The constants stand for 32768 and 7.
`AppendFails` leaves any part of a fragment in the file and moves `block_offset_` on, as the
code does; `ProcessStops` leaves part of the fragment under way, `MachineStops` cuts the file anywhere, and
`Damage` changes one byte. With `reuse` the next process appends to the
file (`reuse_logs`). `ReportDrop` says nothing of drops that lie before `initial_offset_`; the
model counts them too, and properties about alarms are stated for offset 0.

### LdbWrite

One action per critical section of `Write`, `MakeRoomForWrite`, `BuildBatchGroup`, the
background thread and the destructor; where one section takes several steps, `mutex` is held by
the call between them. A thread waits on its condition variable and goes on when it was
signalled (`awake`). A call with no entries is `TEST_CompactMemTable`'s `nullptr` batch. What the
background thread does to level 0 is a count here; `LdbCompaction` has the files.
Reads and snapshots do not touch the queue and are left to `LdbCompaction` also.

### LdbVersion, LdbCompaction, KvStore

`LdbVersion` has the pure functions of `version_set.cc`: overlaps, the place of a flushed
memtable, `SetupOtherInputs` with boundary files and expansion, lookup level by level.
`LdbCompaction` has the database around them: `CompactKey` is one turn of `DoCompactionWork`'s loop
with `ShouldStopBefore`, both drop rules and the limits of an output; flushes come between its
turns. There is one background thread and nobody else installs a version, so `LogAndApply` and a flush
are one step each. The size of a file is its number of entries, and the limits are a few entries; 3 levels, of
which a flush reaches the first two, stand for 7 and 3. A seek compaction may
be charged by any read that looked at two files. A value is named by its sequence number.

When the thread in `TEST_CompactRange` gives up while its compaction runs, the code goes on to
dereference `manual_compaction_`, which is null by then; the model's background thread stops
there (`UsesManual`).

`KvStore` is a map that only writes change, and views taken of it by snapshots, reads
and iterators. Its store is mapped to the lookup of every key at
`last_sequence_`, and a view to the lookup in what its holder holds; so every flush,
move, merge and deletion of files should be a stutter. The code does not keep that promise (section 5).
`OnlyWritesChangeReads` asks it of each step but two kinds: the installation of a compaction
that left out, in the level below, a file which begins with the last key of one it took (`TakesWholeKeys`), and steps from
or to a version in which two files of a level overlap (`LevelsAreDisjoint`). `OverlapsComeFromGaps` says where overlaps come from: in a
step from a version without one, only the end of a manual compaction makes one, when a memtable was flushed into the range of its files
meanwhile. Both kinds of steps are among the behaviours of the run.

### LdbRecovery

The file system has the directory, the older directories a machine may come back with, each file's
contents and how much of it is synced. `MachineStopsNow` picks an older directory and cuts the
unsynced part of any file. This rests on: `fsync` of a file keeps its own entry in the directory; a manifest's
`Sync` syncs the directory first (`SyncDirIfManifest`); directory operations are kept in their order.
The temporary file `SetCurrentFile` writes and syncs is part of its rename. Behaviours in which the machine never stops
(`~ hist.power`) do not keep older directories. `DB::Open` takes a step per log, per table and
per file it creates; a flush and a compaction take one for building an output, for appending to
the manifest, for syncing it and for installing the version. A table is the set of its writes; a write is
kept by the last output of its compaction, so that a stop before it leaves the outputs incomplete. `reuse_logs` is off.

### LdbIter, KvIter

A child is the ordered set of its entries and a place in it. `MoveNext`, `MovePrev` and `Seek` start a call;
`Round` is one turn of `FindNextUserEntry`, `FindPrevUserEntry` or of `Prev`'s own loop. The first `MergingIterator::Prev`
after a change of direction is two steps, as it reads the memtable twice: `Turn` seeks its key in the other children (`MTurn`),
`Back` moves them before it (`MPrev`). Entries may be written to the memtable between any two steps (`More`), with
sequence numbers the iterator must not show. When the iterator is made, the memtable has the newest entries, those of one key
in another child are neighbours, and the iterator's number is any up to the last (`Layered`). `KvIter` stands on a key of a fixed map and moves to a neighbour; between calls
`LdbIter` does the same (`StandsOnTheMap`), the steps within a call being stutters.
Corrupt keys and the sampling of reads are left out.

### LdbCache

One shard. Each operation is a step, as it holds the shard's mutex, except for the loops that evict
(`EvictOne`, `Prune`), whose rounds are steps with the mutex kept. The hash table is a function from keys to entries. The
clients do what `TableCache::FindTable` and `Table::BlockReader` do: look up, read the file with no lock
held, insert, use, release. `UsageIsTheSum` is in `MCLdbCache`, since it needs a fold.

## 4. Runs that pass

| run | bounds | what it shows |
|---|---|---|
| `event_load` | 3 keys, 2 texts | every answer in every order; `getData` implements `EventFetch`; a list is shown if every key is found |
| `app` | 2 devices, 2 accounts, 2 events; four cases, below | the two trees and the Homes are consistent; only two-step writes that were cut, a row of another account's list, and a write over a deleted event leave a gap |
| `liveness` | 1 device, 3 screens, 2 writes, 1 lost connection, 1 kill or refusal | gaps close, and Homes of which no read was forgotten are answered |
| `weather` | 2 columns, forecasts of up to 2 hours with up to 2 conditions | each column is explained; one success is enough |
| `home_list` | 3 events, 2 dates and none, 1 Home, 2 days around three changes of date | rows, order, colours and reminders |
| `log` | blocks of 7 bytes with headers of 2; 3 records of 0, 3 or 9 bytes; offsets 0 and 9; 2 faults | what was written whole is read in order, and nothing else is |
| `writes` | 3 calls out of a pair, a synced one and a flush; memtables of 1 entry, triggers 1, 1, 2; 1 error | groups, stalls, flushes and the destructor |
| `tables` | 2 keys and 3 writes, 4 or 3 keys and 5 writes in one case each; 3 levels, 2 takers of snapshots, 1 reader, 1 `CompactRange`, 1 error; five cases | order of entries, files in use, where overlaps come from, and that nothing else but a write changes what is read |
| `recovery` | 3 writes, 3 opens, 1 compaction with up to 3 outputs, 2 errors; four cases | stops between any two steps |
| `iterator` | 3 keys, 3 children, 3 entries, one of them perhaps written later; two cases | the iterator implements `KvIter`, its calls end |
| `cache` | 3 clients, 2 keys, 4 entries of size 1 or 2, capacity 3 | double inserts, eviction, `Erase` and `Prune` against entries in use |

**Cases.** Where one instance with everything in it is too large, the MC module names the
combinations that are explored, and a CONSTRAINT keeps to their union:

- `MCWeatherApp`: `Alone` (one device, 4 screens, 2 writes), `Crashing` (3
  screens, 2 writes, 1 kill or refusal, 1 lost connection), `Together` (two devices that stay signed in, the second
  with one screen and always online; 2 writes, 1 lost connection), `Accounts` (4 screens, 1 write, another account). What a
  case limits are taps, faults and lost connections; so the app's own steps never leave it.
- `MCLdbCompaction`: `Snapshotting` (two snapshots, with deletions; both at once after at most two writes),
  `Reading` (a reader, and errors after at most two writes), `CompactingRange` (`CompactRange` with an error; at most two writes), `SplittingAKey` (a value, its deletion and two writes
  of the key before it, with one snapshot), `WritingBetween` (two writes of the first key, two of the third, and one of the second once
  `CompactRange` has begun; nothing else merges files).
- `MCLdbRecovery`: a stop of the machine anywhere, and (for one write) again in the recovery from it; stops of the process
  with errors; stops of the process with compactions into several tables.
- `MCLdbIter`: at most 3 entries in all, of two keys with several entries of a key, or one of each of three keys;
  the second and the third child are alike.

**Why the bounds are enough.** *The app.* A write takes part in at most one two-step operation, and two
operations collide only on one key: two writes are a save or an update against a delete of the same
key, or twice the same. Three screens are Home, Event or Edit, and the Home that follows; the
fourth gives the Edit screen of an event just saved, the second Home of a repeated
tap, or the Home after a log-out, Back and another sign-in. On the second device
one screen is enough, as only its deletes meet the first one's saves
and updates. One lost connection is enough for one resent write and one forgotten
read. Two keys are the event saved before and the one to come; three in `event_load`
let an answer fall between two others. `home_list` begins on days whose next days are
9 and 10 October, 10 and 11 October, and 1 and 2 January: a change in the number of digits, none,
and a change of month and year.

*leveldb.* With a block of 7 and a header of 2, a record of 3 bytes leaves room for a trailer or for an empty first
fragment, one of 9 spans three blocks, and one of 0 is a header alone; an initial offset of 9 skips a block and then the
beginning of a fragment. Three calls are a leader, one it takes along, and one it
does not, or that comes while it writes; a memtable of one entry makes
each later call meet a full one, and a stop trigger of 2 makes one of them wait for a compaction. In
`tables` each level is full with one entry, so three writes reach the last level, with a flush
in the middle of the merge; its fourth write is what a dropped marker needs that leaves its value behind. A gap takes a third
key, and 5 writes are the least that put a file of each of two keys in level 0, over one in level 1, so that
`CompactRange` has something to merge, and flush the key between them. Two errors in `recovery` are one in a manifest and one after it;
three opens are one to write, one to recover and be stopped, one to recover again. Three children and three entries have
a change of direction with an entry of the same key in any two of them, and two that turn beside the current one. In `cache` three clients are two that
insert the same key and one that makes the cache evict.

The bounds that are no constants of the code are `MaxScreens`, `MaxWrites`, `MaxDrops`, `MaxFaults` (`WeatherApp`),
`MaxDays`, `MaxHomes` (`HomeList`), `MaxRecords`, `MaxFaults` (`LdbLog`), `MaxErrors`
(`LdbWrite`), `MaxSeq`, `MaxManual`, `MaxErrors` (`LdbCompaction`), `MaxSeq`, `MaxFile`, `MaxOpens`,
`MaxCompactions`, `MaxOutputs`, `MaxErrors` (`LdbRecovery`) and `MaxSeq`, `MaxMore` (`LdbIter`). Taps are only taken when the screens they may
lead to are still within the bound (`CanBuild`), so no block of the main queue ever waits
for a bound. When the bounds are spent, the processes are down, all calls have been made or a file has been read to its end, nothing can
happen any more: only `home_list` and `cache`, in which something can always be done, check deadlock. That threads do not
wait for each other is what `EveryCallReturns` and `CloseReturns` say instead.

**Fairness.** `liveness` assumes that the main queue and the group's queue run their blocks
(`WF` on `RunMain`, `Notify`), that requests which are sent get an answer and answers arrive
(`ServerGrants`, `Receive`), and that the SDK reconnects (`Reconnect`, which retries for
ever in `FPersistentConnection.m`). Lost connections are bounded. Nothing is assumed of users, the
auth service, kills or refusals. `weather` assumes that its two queues run, and not that any
request is answered; `event_load` assumes that requests are answered, well or badly. `writes` assumes
that threads which can go on do, calls that were made, the background thread, and a destructor that was entered; whether
an I/O operation fails is open, and no call has to be made. `iterator` assumes that a call under way goes on. Other runs
check safety only. That a compaction or `CompactRange` ends is not checked: the
instances in which it would mean something are too large for it.

`RowsAreStored` holds for two reasons, either of which is enough in these runs: reads
follow the writes made before them, also after a reconnection, and a read
under a pending write is answered from it. It does not say that the event is on the server already:
a list loaded under a pending update shows the event with its new text, and may do so while the
event is gone, if a delete went before that update. Section 6 proves it.

## 5. Disagreements

One run shows a disagreement, `traps`: `NoTrap` says, as the code does where it writes `!`, that
somebody is signed in whenever a uid is unwrapped. In an instance of 4 screens and 1 write the app stops in

- a save: log out, Back, add an event; the uid was captured as nil (`EventService.swift:29`);

and there are two other places of the kind, which the same formula covers: the callback of a delete, log-out
and Back to a Home before it (`HomeService.swift:130`; the event is gone and its key stays listed), and the load of a Home that a second
completion pushes after the log-out (`HomeService.swift:173`).

### Observations

Disagreements met while modelling, for which no run is kept; the models have the behaviour, and where a
property had to leave room for one, it says so.

- *Reminder.* A list loaded after 15:10 sets a reminder titled "Event For Tomorrow" whose next trigger
  is on the day of the event (`HomeViewController.swift:79-84`).
- *Acknowledged records behind a failed append.* `options.h:174-176` says that no writes are lost if just
  the process crashes. An append that fails half-way leaves part of a fragment in the file while
  `block_offset_` moves on (`log_writer.cc:106`), and `DBImpl::Write` records a background error only for a failed
  `Sync` (`db_impl.cc:1227-1231`): the next writes are acknowledged, and the reader drops them with the rest of the block.
  `DamageIsLocal` and `RoundTrip` therefore assume no failed append; `NothingForged` does not.
- *Reused logs.* With `reuse_logs` (off by default) the next process appends behind a fragment the last one may have
  left unfinished (`db_impl.cc:458-467`), and records behind it are dropped in the same way.
- *Seeking.* `log_reader.h:103-105` says that middle and last fragments are skipped silently after a seek. A first
  fragment that starts before `initial_offset_` is returned as a bad record (`log_reader.cc:261-266`), which ends that mode,
  and the fragments after it are reported. leveldb itself reads from 0; alarms are checked there only.
- *Forced flush.* `db_impl.h:56` says that `TEST_CompactMemTable` forces the memtable to be compacted. Its `nullptr` batch does so only as
  the first of the queue: another call's group takes it along (`db_impl.cc:1287`), it returns OK, and nothing was flushed.
- *Dropped deletion marker.* `DoCompactionWork` says of a deletion marker that it is "obsolete and can be dropped", as what it hides is
  dropped in the same compaction (`db_impl.cc:952-960`). `SetupOtherInputs` adds boundary files at its level and not at the next
  (`version_set.cc:1410`). While a snapshot needs a value, a compaction keeps it beside its marker, as the first entry of one file and the last of
  the one before. The snapshot is released, a key of the earlier file is written, and the compaction that takes this file alone drops the
  marker: the deleted value is read again. `SplittingAKey` in `tables` has these behaviours: with `Store!Spec` as a property TLC stops at one.
  `OnlyWritesChangeReads` leaves out the last step of such a compaction, and no other.
- *Overlap after a flush.* `VersionSet::Builder` checks "Make sure there is no overlap in levels > 0" (`version_set.cc:724`). A flush in the
  middle of a compaction is placed by the files of the current version (`version_set.cc:491`). `CompactRange` merges files of keys 1
  and 3 into one while a memtable with key 2 is flushed to the level the output goes to. With assertions the process aborts;
  without, `FindFile` ends at the wide file, and key 2 is not read. `WritingBetween` in `tables` has these behaviours: with
  `LevelsAreDisjoint` as an invariant TLC stops at one. `OverlapsComeFromGaps` shows that nothing else makes an overlap.
- *Turning.* `merger.cc:84` says "Ensure that all children are positioned before key()". `Seek` and `Prev` of the memtable's iterator
  are two reads; an entry written between them, behind the key, is where the child steps back to. It does no harm:
  the loop of `DBIter::Prev` goes on until it is before the key (`db_iter.cc:208-220`), and `StandsOnTheMap` holds over that interleaving too.
- *Cancelled manual compaction.* `db_impl.cc:619`: the thread in `TEST_CompactRange` sets `manual_compaction_` to null when a
  background error is recorded; the compaction under way then dereferences it (`db_impl.cc:755`). The model stops there.
- *Versions that are kept.* `db.h:138` says that `CompactRange` discards overwritten versions. The deepest level is looked up
  (`db_impl.cc:569`) before the memtable is flushed, which may go below it.
- *Creation.* `db_impl.cc:283` says that the creation is committed only with the descriptor. `NewDB` does not sync the first
  manifest before `CURRENT` is renamed (`db_impl.cc:207`): after a power failure the database may never open. `OpensAgain` leaves out
  this one manifest.
- *Synced writes.* `options.h:180-181` likens a synced write to `write()` and `fsync()`. `MakeRoomForWrite` changes to a new log
  without syncing the old one (`db_impl.cc:1349`): after a power failure a synced write is there and earlier ones are
  not. `SyncedSurvive` is about the writes that asked for it.
- *Torn manifest.* When the edit of a flush in the middle of a compaction is not written whole, the
  compaction appends its own behind it (`db_impl.cc:1028`), and recovery takes the file for corrupt. `OpensAgain` assumes no I/O
  error, and `AckedSurvive` is about databases that open.

## 6. What is proved

Thirty theorems, over the lemmas of eight modules: two for `WeatherApp`, and one each for `EventLoad`, `HomeWeather`,
`HomeList`, `LdbWrite`, `LdbIter` and `LdbCache`. TLC checks each of their properties on a small instance; the theorems hold for all values of the
constants that satisfy the named assumptions.

**`WeatherApp`**, for any devices, accounts, keys and texts, any screens, writes, lost connections and faults, any accounts
that are signed in and any keys saved at first (`IdsAreFinite`, `NoneIsNothing`, `BoundsAreNat`, `ScreensSuffice`,
`FirstUserType`, `SavedType`; devices, accounts and texts need not be finitely many):

- `AppInvariant`, and from it `GapsAreExplained`: a listed key without its event is one whose save or delete is half done, or
  was cut (`DanglingExplained`);
- `ReadInvariant`, and from it `HomesAwaitAnswers`: a Home that shows neither list nor failure has a read under way for each key
  it waits for, unless the SDK forgot one (`HomeAwaitsAnswers`);
- `OrphanInvariant`, and from it `OrphansAreRevived`: an event nobody lists was written over a deleted one, by an update or a
  resent save (`OrphansWereRevived`);
- `LoneInvariant`, and from it `RowsStayStored`: while one device has run the app, without faults, a row of the Home on show is of
  an event that is stored, unless a save or an update of it is still to be written (`RowsAreStored`).

The modules are one argument, and each part of the inductive invariant rests on those above it:

| module | part | says | needed because |
|---|---|---|---|
| `WeatherAppShape` | `Shape` | types; answers on their way are to the first requests of the outbox; a process that is not up has nothing | every other part takes a request, a screen or an answer apart |
| | `Numbered` | screens on the stack, pushes under way and reads of a device are numbered apart, up to `built` | an answer finds the one screen that asked |
| | `Owned` | every key has one account: lists, rows, loads, saves and deletes agree on it, but for deletes in `torn` | a write can only touch the list the key is in |
| | `Covered` | each gap has a live second step, or an answer that will send it, unless it was cut | `HalfDone` also counts requests that were granted, so it is not inductive |
| `WeatherAppRequests` | `Unique` | `Once`: no two writes of one save, nor two reads of one key for one screen, are under way | a second one would leave the group twice, or write behind a delete |
| | `Refusals` | a refused read brings no keys | a failed load then asks for nothing |
| | `Awaits` | `pending` of a load is the set of reads under way for its screen | the property, for every load and not just the Homes shown |
| | `Entries` | while its entry is written, an event is not there, nobody but its device knows the key, and nobody sees it | so no update or delete of it is under way |
| | `Saves` | until the event is written it is listed, only its device knows it, and what changes it comes later in that device's outbox | the write cannot land on an event deleted meanwhile |
| | `Deletes` | an entry is dropped only while its event is gone or revived | the other order would leave an event without its entry |
| | `LoadsAdd` | a load has collected each event once and has no read under way when it is done | one tap takes all rows of an event, and no answer comes after it |
| | `Applied` | of the writes the server has processed, the last one of an event is what it has | a write that is acknowledged later changes nothing |
| | `ReadsFollow` | no delete is queued behind a read for the last Home | such a read would bring back the row |
| | `Kept` | what the last Home shows, has collected or is about to be told is on the server, or its last pending write is no delete | the rows alone say nothing of a list that is half loaded |

The last four are about the last Home of the stack, the only one that can come on top again (Back never leaves a Home), and
hold as long as one device runs the app without faults (`Lone`, `RowsKept`). Lost connections are among their steps: what
`ConnectionMoves` says of the outbox, that nothing in it comes before a write it stood behind, keeps `Applied` and `Kept` when
writes that were processed are sent again.

To know a key is to see its event on a screen, in a load or in an answer, or to have a write of it under way (`Knows`);
that others come to know a key only once its event is there (`KnowsStep`) is what lets `Entries` and `Saves` speak of one device. A step belongs
to one device and leaves the others as they are (`StepIsApart`), so each part has a lemma per step of that
device, and the network's steps are one lemma, `NetworkMovesOutbox`: it maps each request to the place it had, the writes in the same order.
`OnlyChooses` says that `Only`, the recursive function that sorts out reads and writes, takes a subsequence; it is
proved by the least length for which it might fail (`LeastElement`), since an induction rule cannot be cited.
TLC checks the parts in the instance of `app` before they are proved.

**`EventLoadProofs`**, for any finite set of keys and any set of texts (`IdsAreFinite`):

- `TypeCorrect`: the record keeps its type, so `leave` never runs on an empty group;
- `WholeListOnly`: a list that is shown has exactly one event per listed key;
- `NeverBothOutcomes`: a load that failed never shows a list;
- `EnterLeaveBalance`: the group's count is the number of keys asked for or lost;
- `ImplementsFetch`: `EventLoad` implements `EventFetch`.

None of the invariants is inductive alone: that the list is
whole when the block runs rests on the count of the group, and the count on which keys are in the
array. `IInv` adds that the count is the number of wanted keys not in the array
(`CountInv`), that keys asked for are wanted and not in the array, that the array has no key
twice and equals `eventS` (`ArrayInv`), and that a failure leaves a key that is neither in the array nor
asked for (`FailureInv`). The proof has a lemma per action (`StepGetData`,
`StepIndexAnswered`, `StepEventFound`, `StepEventLost`, `StepNotify`) over lemmas about
the keys of a list (`IdsOfAppend`, `IdsOfList`, `CountOfIds`). `ImplementsFetch` maps every step to a step of
`EventFetch` or a stutter; `NotifyDelivers` is the one that matters, a block that runs
delivers one event per key.

**`HomeWeatherProofs`**, for any positive number of columns and any forecasts and answers, of any length (`SlotsExist`,
`ForecastsType`):

- `PanelIsTyped`: no failure ever reaches the main queue, where a block without a forecast would be taken for the current weather;
- `ColumnsShowTheForecast`: each column is the row of the last forecast that reached it (`ColumnsAreLastKnown`).

The steps of the panel are few, and the work is in its loops: that the row of a cell has the icon and the low temperature last
known by then (`SetHourlyWeatherIs`). A recursive function is first shown to be one that `Walks` from value to value
(`LoopsAreDefined`), and what holds along the walk is shown of the *set* of indices for which it holds, which contains 0 and is
closed under the next (`AllAlong`, from `LeastElement`): an induction that needs no operator as a parameter. `FlattenIs` does the
same for the list of cells.

**`HomeListProofs`**, for any finite set of events, any start days and choices of dates, any number of days and
Homes, as long as years keep four digits (`IdsAreFinite`, `StartsAreDates`, `BoundsAreNat`, `YearsHaveFourDigits`):

- `TypeCorrect`;
- `RowsMatchList`: a table with rows to tap on has as many as its data (`TableAgrees`);
- `RemindersOfHome`: each Home reminds of exactly the events of its list that are on the next
  day and whose day and month have two digits (`RemindsOfTwoDigitDates`);
- `MonthInOrder` and `ColoursTellTheDay`: order and colours (`CalendarOrderWithinMonth`, `ColoursOfTwoDigitDates`).

`IInv` has the clock (the year stays below 9999), the types, and per Home `HomeInv`: a Home that has not loaded has an empty list
and nothing to reload, rows and list agree, and the list is in the order of the
texts. To it come that the reminders of a Home are exactly the pairs its list calls for, and that
every reminder is of a Home that exists. What turns texts into dates are the lemmas it begins with: equal texts of one
format mean equal dates (`SameDisplay`), texts of the two formats are equal only for the same date with two-digit day and month
(`SameText`), and the order of texts is the order of days where the numbers of digits agree (`PickerOrder`, `DisplayOrder`).

**`LdbWriteProofs`**, for any finite set of calls, any batches, limits and triggers (`CallsAreFinite`, `KindsType`, `LimitsAreNat`,
`TriggersAreOrdered`), with I/O errors at any step that writes:

- `QueueOfWriters`: the inductive invariant;
- `SyncedWritesAreStable`: a call that asked for sync and was told OK is synced, whoever wrote its batch (`SyncedIfAsked`);
- `ReadersSeeWholeBatches`: what readers see is whole batches, and every acknowledged one (`ReadersSeeBatches`);
- `WritesInOrder`: numbers never overlap and agree with the order of calls (`WritesAreOrdered`).

| part | says | needed because |
|---|---|---|
| `Types` | types; a memtable is full only while there is room for its file; who writes it finds it | `MakeRoomForWrite` takes the state apart |
| `Queue` | a call is queued once, and all but the first wait | only the first one may write without the mutex |
| `Groups` | the group is the beginning of the queue; if one in it asks for sync, the first does | the first call's flag decides for all |
| `Numbers` | numbers up to `lastSequence` are given, those of the group come next | `lastSequence` moves only when the group is in the memtable |
| `Order` | batches do not overlap, and lie behind those seen to succeed | the property, for calls of one group too |
| `Stores` | what is stored is below `lastSequence` or of the group; other batches are there whole or not at all | a reader's number may fall anywhere |
| `Answers` | what a call was told, or will be told by the first of its group, is true | the first call answers for others after it let go of the mutex |
| `Logs` | the log has the group before it is synced | a sync covers what was appended |

The entries of a group lie one behind the other by the sizes before them, a recursive function (`Count`); that it grows
with its argument is the kind of lemma `LeastElement` is for.

**`LdbIterProofs`**, for any finite set of keys, any number of children and of entries before and after the iterator is made
(`KeysArePositive`, `BoundsAreNat`):

- `IteratorInvariant`: the inductive invariant;
- `ChildrenWait`: the children are in place in both directions (`ChildrenAreInPlace`);
- `IteratorIsOnAMap`: the iterator implements `KvIter` (`StandsOnTheMap`): every call is one step to the neighbouring key.

`Sound` is `ChildrenAreInPlace` for any state of the merging iterator, with the children on entries of their own. Between calls
`Stands` says what turning round needs: forward, the merging iterator is on the newest visible entry of the key; backward,
it is before all entries of the saved key. Turning is proved in two steps, with any number of writes to the memtable between them: after
the first (`MTurnIs`) every other child has nothing visible between the entry and its place, which a write does not change; so the second
(`MPrevTurnedIs`) passes over nothing visible but, if it ends on an entry written meanwhile, what lies between that and the entry
it turned at: entries of the saved key and greater ones. That is the exception `Owed` makes while `Prev`'s loop scans back, and
as the loop ends before the saved key, nothing is missed by then (`MPrevGoesBack`). `Ahead` and `Behind` are the invariants of the two loops: forward, every entry
passed is of a key the call may not come to, or one to skip; backward, of the keys passed at most one has a value, and what is saved is
its newest entry. Each loop ends on the nearest key (`YieldsNearestAhead`, `EndsBehind`), and `Came` says so in terms of the map, of which
`CallsAreMapSteps` makes a step of `KvIter`. What others write is newer than the iterator's number, so that none
of this is about it (`Grows`, `GrowsKeeps`).

**`LdbCacheProofs`**, for any finite sets of entries and clients, any keys, charges and capacity (`NoneIsNoEntry`,
`SetsAreFinite`, `SizesAreNat`); TLC uses a capacity of 3:

- `TypeCorrect`;
- `ReferencesAreCounted`: the count of an entry is the number of clients that hold it, and one for the cache (`RefsAreCounted`);
- `WhatIsHeldIsAlive`: what a client holds is not freed and is what it looked for (`HeldIsAlive`);
- `ListsAgreeWithTable`: an entry in the cache is in one of the two lists, by its count, and the table finds it (`ListsAgree`).

The counts rest on the lists and the lists on the counts, so the invariant is the conjunction of the counts, the parts
of `ListsAgree` (`InUseAgrees`, `LruAgrees`, `TableAgrees`) and
`KeysAgree`, which ties the key of a handle to that of its client. Lemmas say what a change of one client does to
the number of holders, and that `LRU_Remove` takes off one entry (`WithoutOf`).

**Only model-checked**: everything about `LdbLog`, `LdbCompaction` and
`LdbRecovery`; and `UsageIsTheSum`. Out of the prover's reach and left to TLC: liveness
(`WholeIsShown`, `GapsClose`, `HomeSettles`, `ForecastIsShown`, `EveryCallReturns`, `CloseReturns`, `CallsReturn`) and `ENABLED`.
The induction theorems of the library take an operator, which the provers cannot instantiate: what a recursive function computes can
be proved by a least counterexample, as for `Only` and `SetHourlyWeather`, but not what a fold of the community modules does (the
sum of charges). No module declares a `RECURSIVE` operator.

## 7. Not modelled

*Of the app.* Logging and the other helpers, layouts and images; the two forms of the Auth screen and
its error codes; the labels and the keyboard of the Event and Edit screens;
`EditService.updateEvent`, `TableViewCell`, the daily forecast and `CurrentWeather`, which
nothing calls; Firebase's listens, transactions, merges and disk cache, which the app does
not use. The longitude of the current weather is decoded as an `Int` (`HomeEntity.swift:139`), so an
answer with a fractional one never decodes; the model lets any answer fail.

*Of leveldb.* Tables, blocks, filters, coding and comparators are byte formats and pure functions: a table stands for the
set of its entries. The memtable's skip list is read without a lock and rests on the memory model of C++, below the
steps of these modules; the arena has no behaviour of its own. Repair, the dump tools and the C interface are reached by
neither the app nor Firebase.

*Other pods.* nanopb is a codec without state between calls. Of FirebaseDatabase and FirebaseAuth the modules have
what the app can observe. The remaining pods are third-party code that the app
reaches through Firebase alone, and most of the repository's lines are their headers and those of the SDKs, which declare and do
nothing. So the modules stand for a small share of all lines in the repository; of the files they are about, they
stand for about two thirds of the services, presenters and routers of the Home screen, of `db_impl.cc` and of `version_set.cc`,
and for most of the log reader and writer.

`PROJECT.json` lists each component with its status and, under `hazards`, the behaviours without a property and why.
