# act3: a verification project

act3 is a self-hosted media server in one Go process: it downloads torrents
through a Transmission daemon, keeps a library of series and movies in SQLite,
encodes every video into an HLS ladder with the help of an encoder agent, and
serves a server-side-rendered web UI.  These modules model the parts of it whose
correctness depends on the order of things: the persistent task queue, the
library with its trash, the blob store with its garbage collector, the ingest and
encode pipeline of a video with its ladder, the downloads that feed it, the
protocol with the encoder agent, the addresses of the library, and the way an open
page hears of a change.  TLC
checks them on small instances, TLAPS proves the most important invariants for
every value of the constants.

Paths below are relative to `src/`.

## 1. Inventory

How the parts interact.  All durable state is in one SQLite database and in one
directory of blobs.  There is one write connection; `Model.WithTxRW`
(`model/model.go`) runs a function in a `BEGIN IMMEDIATE` transaction, so write
transactions are serial and each is one atomic step in every module here.  Work
that takes time happens outside of transactions: in the tasks of the three task
queues (net, disk, cpu), in goroutines that loop (garbage collector, trash
purge, download poll), and in HTTP handlers (uploads).  A transaction may queue
tasks; a commit hook wakes the queue.  The UI sends messages that call one
operation of the model each; an event channel makes every page draw itself again
after a change.

| component | state | operations | what is hard about it | what makes it correct |
|---|---|---|---|---|
| **task queue** `model/task.go` | table Task; in memory the lock table `running`, the budget `used`, the wake channel | add, take, lock, execute, re-weigh, complete, reschedule, fail, kill, run now, delete, reset at boot | dispatcher, executions and users interleave; crash between outcome and record; three copies of "who runs what" | one execution of a task at a time; no row stuck; budget exact; a due task is taken |
| **transactions** `model/model.go`, `database/open.go` | the write connection, commit hooks | WithTxR, WithTxRW | memory changed inside a transaction that rolls back; memory read beside a snapshot | serial writers; what memory is ahead of the rows does no harm |
| **library and trash** `model/trash.go`, `season.go`, `episode.go`, `collection.go` | rows with DeletedAt, table Trash with CascadeOf, junction rows with DeletedAt | trash with cascade and reaping of orphans, restore with ancestors, purge by hand or hourly, the editors | long sequences of legal requests; the same fact in three places; requests from stale pages | nothing lost, nothing dangling, what another edition shares is spared, what is in the trash can come back or go |
| **active video** `model/active_video.go` | junction.Active | set, promote, guard | the junctions change from many sides | never two active; the one being played is not taken away |
| **editions** `model/movie_edition.go`, `series_edition.go` | Slug = '' marks the default | set default, clone, trash hands the mark on | default trashed, replaced, restored | one default per live work |
| **uploads** `model/upload.go` | registry of uploads in flight | create, write, finish, dedup by hash | two uploads of one file | one live video per content |
| **blob store and collector** `storage/`, `model/gc.go` | a directory of keyed and temporary files; keys in a dozen columns | Copy, Clone, CreateFunc, Sweep | the sweep runs beside everything with three stale readings | nothing live is swept, garbage goes |
| **ingest and encode** `model/ingest.go` | Video, Rendition, AudioTrack, AudioRendition, Subtitle rows; pass-1 statistics at the agent | ingest, probe, pass 1, encode, audio, subtitles, re-encode, re-import, merge of duplicates | tasks of one video in three queues, repeated after crashes, overtaken by re-encodes and re-imports | a playable video is complete and of one file; a video is never stranded; statistics are there while an encode needs them |
| **downloads** `model/download.go`, `transmission.go` | Download rows, cache of torrents in memory | add, poll, process, import, retire | answers of the daemon applied to rows read earlier, by two parties, undone after they have reached the memory | each file imported once, and in the end; nothing an editor uses is retired |
| **progress** `model/progress` | items, edges, tombstones | Open, Update, Close, AddEdge | hook fired outside of the lock; executions that leave an item behind | no item for ever open |
| **events** `model/event.go` | bounded channels | emit, subscribe | events dropped when full, sent after the change, overtaking one another | the last state is drawn |
| **encoder agent** `video/fenc`, `video/ffmpeg/agent.go`, `clone.go` | job directories, statistics | run, cancel, clean up, sweep at start | two processes, a tool and a network between, each may stop | what is collected is whole; nothing is left behind; a given-up tool ends |
| **slugs** `model/slug.go` | table Slug with tombstones, the column Slug of each row, EditionSlugTombstone | find, ensure, move, delete, resolve, path | four copies of "who has this slug", written by renames, clones, trash and restore in turn; the unique indexes against the trash | a page has one address, which leads to it; an old address goes on leading; what is in the trash can come back |
| **encode ladder, planning** `video/ladder.go`, `model/plan` | none | pure functions | numeric edges | documented limits |
| **playlists, HLS repair** `video/playlist.go`, `video/ffmpeg` | none | text and binary formats | bytes | out of scope |
| **schema updates** `database/open.go` | version | one transaction per step | crash between steps | idempotent |
| **settings, metadata services** | settings, hooks | fetch, then one transaction | hooks before commit | little control |
| **web application** `web/` | dialogs per page | messages to operations | stale pages | modelled as the requests below |
| **UI kit, HTTP middleware, tools** | none that outlives a request | | | not modelled |

The hazards found while reading, each at its line, are in `PROJECT.json`.

## 2. Modules and their correspondence with the code

| module | models | extends |
|---|---|---|
| `TaskQueue` | one queue of `model/task.go` | |
| `TaskQueueProps` | its properties, the refinement mapping | `TaskQueue` |
| `TaskContract` | abstract: what the queue promises to whoever adds a task | |
| `TaskQueueProof` | proofs | `TaskQueueProps` |
| `Library` | rows, junctions, trash, active videos, editors | |
| `LibraryProps`, `LibraryProof` | its properties, proofs | `Library` |
| `Slugs` | `model/slug.go` with all that gives slugs up and takes them | |
| `SlugsProps`, `SlugsProof` | its properties, proofs | `Slugs` |
| `BlobStore` | `storage/` and `model/gc.go` with the flows that make blobs | |
| `BlobStoreProps`, `BlobStoreProof` | properties, proofs | `BlobStore` |
| `Ladder` | `video/ladder.go` and the rows planned from it | |
| `VideoPipeline` | the tasks of `model/ingest.go` and `model/subtitle.go` | `Ladder` |
| `VideoPipelineProps`, `VideoPipelineProof` | their properties, proofs | `VideoPipeline` |
| `Downloads`, `DownloadsProps`, `DownloadsProof` | `model/download.go` with the daemon | |
| `EncoderAgent`, `EncoderAgentProps`, `EncoderAgentProof` | `video/fenc` and `video/ffmpeg/agent.go` | |
| `LiveUpdate`, `LiveUpdateProps`, `LiveUpdateProof` | events, progress, uploads and pages | |
| `MC*` | small instances | |

How they fit together.  `TaskContract` is the promise `VideoPipeline`, `Downloads`
and `LiveUpdate` build on: a task is executed one execution at a time until it is
deleted or failed, and again after a crash.  A file that `Downloads` hands over is
an ingest task of `VideoPipeline`; an encode of `VideoPipeline` is one job of
`EncoderAgent`, whose collected output is a flow of kind encode in `BlobStore`;
the blob keys and the flag Playable that the pipeline records are what `BlobStore`
keeps and `Library` shows.  `Slugs` is a second view of the rows of `Library`, with
their names instead of their junctions: the two differ in what a row is made of, not
in when it is trashed, restored or purged.

### TaskQueue

`row` is the table, `running` and `used` the fields of `taskQueue`, `signal` the
wake channel of capacity 1.  `disp` is the dispatcher goroutine with a place for
each statement of `runTasks` between which somebody else may act: the select, the
test of `canAdmit`, the read `TaskNext`, the guarded UPDATE `TaskLock`, the
insertion into `running` with the `go` statement.  `run[k]` is the goroutine of
the execution with lock key `k`, with a place for each step of `run`/`run1`: the
read of the row, the task function, the terminal delete, the join of
`context.Cause`, the recording of a failure, the deferred `unlock`.  The requests
of the UI (`RunTaskNow`, `KillTask`, `TaskDelete`) come at any moment, each as
unguarded as its SQL is.  `Crash` forgets everything but the table; `Restart` is
`model.New` with `TaskResetRunning`.

What a task does is abstracted to its outcome: nil, an error to retry, a permanent
error.  Clock values are abstracted to "due or not".  The three queues share only
the table, each row belongs to one, so one queue is modelled.

Two assumptions are constants, so that what depends on them is visible:

- `Overlap`: may a click from an older page, or a retry delay shorter than the
  rest of the previous execution, land on a task that is not unlocked yet?
- `WritesMayFail`: may the UPDATE or DELETE that records an outcome fail?

### TaskContract

Tasks go through new, waiting, active, failed, gone; an execution is launched only
for a claimed task and only when the task has none; it is released only after an
outcome is recorded.  `ImplementsContract` maps `row` to stages and the goroutines
to executions.  The contract has no lock table, budget or dispatcher.

### Library

Every operation is one write transaction and thus one action, with all the
statements of its handler: `Trash` includes the cascade to owned rows, the death
of their junctions, the reaping of orphaned episodes and videos in the order of
the code, the passing on of the default mark and the renumbering of seasons;
`Restore` includes the ancestors of `ensureLive` in a cascade of cascades, the
junctions that come back and the partial unique indexes that may refuse; `Purge`
includes the order of the DELETE statements against the foreign keys; the hourly
loop purges the expired roots in one transaction.  An operation that returns an
error is rolled back, so the action is not enabled.

Abstracted: titles and slugs, which are the subject of `Slugs`, except for the empty
slug that marks a default edition; the order of episodes in a season; times (`older`
keeps which root of the trash is older).  `Parent`, `Source` and `Number` give a row the foreign key it is
created with.  `StaleClicks` lets a request name a row that another editor has
just trashed.

### Slugs

An address is `/work[/edition]` or `/collection`.  The first part is looked up in
table Slug, which movies, series and collections share: `names` is its column
Target, `buried` the rows whose Tombstone is set.  The second part is the column
Slug of an edition (`slug`), or a row of EditionSlugTombstone (`tombs`).  `row` and
`trash` are what `Library` knows of a row and its cascade, `title` and `label` what
a slug is made from.

An operation is one action with all it does to the four: `TitleSet` finds a slug,
writes the column and moves the row of table Slug; `MovieEditionTitleSet` renames
the movie when the edition is its default; `TrashEdition` of a default edition hands
the empty slug to a sibling and takes a slug for itself; `Restore` looks for a slug
for the root, for its trashed work too if it is an edition, and lets the rest of the
cascade have what it had.  `SlugResolve` and `SlugPath` are the two functions of that
name, as operators on the tables.

Abstracted: the text.  A title or label is the list of slugs that are tried for it
(`TitleSlugs`, `LabelSlugs`), so the suffixes of the code are there and their
spelling is not; a release date is a part of the title.  That one of them is always
free, since the last one holds an ID or a number that goes on, is the assumption
`EnoughSlugs`.  Left out: reserved words, and the last part of an episode's address, which is unique in its season only.

### BlobStore

`file` is the directory: a blob is absent, under a temporary name, or under its
key.  A flow goes through `CreateFunc`: create the temporary file, write it,
rename it, and possibly go on to another blob (`Batch`) before the transaction
that records all the keys.  Two kinds: a stream (`Copy`, `Clone`) writes through
the open file; an encode leaves its temporary file untouched until `collectInto`
opens it again by name.  `DropRow` stands for every transaction that forgets a key.

The collector is `gcBlobsLoop`: `Wake` fixes the cutoff (as `aged`, the files that
were last modified before it), `Scan` reads the rows in another transaction, and
the walk decides on each file (`Stat`) and later removes it by name (`Remove`).
Time is the age of each file up to `Grace + 1`.  The model takes the assumption
that the comment of `blobGCGrace` states: a flow records its keys within the grace
period of writing them.  `TimePasses` is not enabled while this would fail.  It
assumes the same of a stream between two chunks.  It does **not** assume it of the
duration of an encode.

### Ladder

`PlanVideoRenditions` and `PlanAudioRenditions` as operators on a probed source: a
record of codec, bitrate in kbit/s, height, frame rate, keyframe gap, whether
timestamps are monotonic, Dolby Vision and HDR, audio streams and subtitle
streams.  `Best` is the top rendition (a remux if `canRemux`, else re-encoded at
the threshold and ceiling of the code), `Lower` the rungs below it.  `Parts` turns
a plan into the rows `planAndCreateRenditions` inserts: streaming renditions, the
download, audio renditions with stereo fallbacks, subtitle tracks.

### VideoPipeline

`video`, `rend` and `links` are the tables (Video; Rendition, AudioRendition and
SubtitleTrack in one, with the content each row was made from; EpisodeVideo),
`tasks` is table Task as a bag, since the code may queue a task twice.  `run` are
the executions, with a place for each stretch of the task function between two
transactions or calls of the agent; what an execution read at its start is in it
(`key`, `todo`), and stale later.  `Begin`, `DeleteTask`, `Error` and `Crash` are
the promise of `TaskContract`; `Capacity` is the number of slots of each queue.
`IngestCommit` includes the merge into an earlier video with the same bytes
(`Merge`: junctions that collide, the row deleted); `ReencodeCommit` is the whole
tear-down and new plan; `EncodeCommit` records the rendition, decides on the
release of the statistics and recomputes Playable, and the release follows as a
step of its own.  `SweepOrphans` is the restart of the agent.

Assumptions are constants: `Overtakes` (two executions for one video overtake each
other where one of them needs milliseconds and the other minutes),
`PresetReplays` (the preset is changed over a crash that repeats a pass 1) and
`Backlog` (an encode waits for longer than the agent keeps statistics).  All are
FALSE in the run; each of them TRUE breaks a property (section 3, departures).

Abstracted: a file is a member of `Contents` with a `Probe`; playlists and their
text; the trash (a video disappears by `PurgeVideo`); a task that fails for good.

### Downloads

`row` and `video` are the tables, `adds` the add tasks, `ingests` counts the
ingest tasks queued.  `adder` and `poller` are the two parties that ask the daemon
outside a transaction and apply its answer in a later one; `torrent` is the memory
`Model.torrent`.  `processDownloads` is `processDownload` for one or more downloads
in one transaction: it takes rows and answers and queues ingests, marks files and
derives states.  A poll whose transaction fails on one purged row undoes the rows
and leaves any part of the answers in memory.  Trash and restore are here what they
do to one download row; `"cascaded"` is a row trashed with its work.  Time is
`idle`, ticks since LastActivityAt, and `touched`, the same since an editor really
did something, of which the code knows nothing: the property compares the two.

### EncoderAgent

Per job: `caller` is act3's side (`newJob`, `run` for each of its requests,
`close`), `conn` the connection, `agent` the handler `handleJob` with a place for
each of its calls, `tool` the process, `dir` the directory both see.  `ended` is
the end of the request's context, which the server notices some time after the
connection has gone.  Both processes may crash; a tool survives its agent.
`excuse` marks the jobs that met one of the windows in which the code leaves a
directory behind, so that the invariant can say that there are no others.

### LiveUpdate

`row` and `result` (the rendition a task is to make: without a Key, with one, or
deleted) stand for the database, `item`, `running` and `upload` for what
the server has in memory beside it.  A task function returns nil before it opens its
item when the work is recorded already or the rendition has been deleted (`Open`); a
re-encode or a purge deletes renditions at any time (`Teardown`).  An editor's
deletion of a task is not here; it is `TaskDelete` of `TaskQueue`.  Whoever changes something is to emit next
(`due`); `Emit` drops the event for a full channel.  A page reads the database in
one snapshot and the memory before or after it (`toRead`); `stale` is what has
changed since it read it.  `unsaid` is what was changed without an event.  The
bookkeeping variables `stale` and `unsaid` are the specification's, not the
code's.  domi, the framework that calls `Update` and `View`, is not in `src/`: it
is assumed to subscribe before it draws the first view, as `Events` registers the
channel before it returns.

## 3. The runs

| run | instance | result | what it shows |
|---|---|---|---|
| `task_queue` | 2 tasks as wide as the queue, of which one turns out narrower and one wider, 2 keys, 1 click, 1 crash, fair | holds, 398k states | lock table, budget and rows agree in every interleaving; what was admitted overbooks the queue by at most one task; no due task is starved, by failing ones or by a slot not given back; kills are final and do not undo a completed task; the contract is implemented |
| `task_queue_growth` | two encodes that widen | **violation** | counted as wide as they are, the tasks overbook the queue together |
| `task_queue_overlap` | `Overlap` | **violation** | a Run Now on a task that is running starts a second execution; the first unlock panics and the process dies |
| `library` | a series with an edition, a season and another to come, two episodes, a video from a download; or a movie with two editions, a video and one to be uploaded, a collection; two roots in the trash, stale clicks | holds, 124k | trash, restore and purge in any order with the editors between; active videos, default editions, re-encodes with the trash |
| `library_purge` | a series with a download | **violation** | a trashed edition with a download can never be purged |
| `slugs` | a movie with three editions; or a movie with two editions and a collection of the same title | holds, 104k | every page has one address and it leads home, no name is held by what is gone, everything in the trash fits back; an old address leads to its page until it is claimed |
| `blob_store` | a stream and an encode, three blobs, `Grace` 1, `Batch` 2, 1 crash | holds, 146k | the sweep takes nothing live, no stream's temporary file, and all the garbage |
| `blob_store_encode` | the same | **violation** | the sweep may remove the output of an encode that took longer than the grace period |
| `video_pipeline` | two videos of one file with an editor's request; or with a fault; two kinds of source, one to be re-encoded and one to be remuxed with subtitles | holds, 412k | no row without its task, no encode without its statistics, nothing playable without its parts, one ladder from one file, everything made in the end; the ladder's limits at every threshold |
| `downloads` | two downloads, one of two files, one edited; two requests, or one with a fault | holds, 223k | each file ingested once and complete, the state true, nothing in use retired, every file imported in the end |
| `encoder_agent` | two jobs of two requests, two faults | holds, 255k | what is collected is whole, nothing is left but for the named excuses, requests and their tools end |
| `live_update` | a page with a channel of two events, a task executed three times, an upload, a re-encode; fair | holds, 291k | a page that shows something old has an event waiting or coming, and left alone it catches up; recorded work has no progress item |

Why the bounds are enough.  *Tasks and keys*: a conflict over a row, a lock entry
or the budget needs two executions; a third task adds a third waiter only.  With
capacity 2 and weights 2 the queue is at its limit with one task, and after a
`reweighTask` to 1 two run at once; one to 3 leaves `used` over the capacity, alone or
beside a task admitted before it.  Of `task_queue_growth` the unit is
`EncoderThreads`: weights 1, which become 2, on a capacity of 2 are two encodes of a
top rendition on 16 threads.  *One click, one crash*: each may come at every
step, and after it the state is again one the run starts from.  `MaxPriority` caps
retries at one, after which a task fails for good.  *Library*: each violation of
a cascade needs an item, something it shares with another and one more root;
two roots in the trash are the least that can be nested or separately trashed, and
the shapes (one season against two, a shared episode, a video shared by two
editions, a download) are those the queries distinguish.  A series and a movie
share no row but a collection's, so one run starts from either.  *Slugs*: three
editions are the least in which two that are not the default may want one slug; a
collection of the movie's title is the least that makes two kinds of owner contend
for one row of table Slug.  A title and the lack of one, a label and its copy suffice to
go away from a slug and come back to it.  The series editions go the way of the
movie's, and the collection has its title in a column of its own, as a series has.
*Blobs*: one
recorded since boot, three that come and go; one flow of each kind; `Batch` 2 is
the least that leaves a key unrecorded while another is made; a grace period of one
tick gives the ages young, within and past.  *Pipeline*: the merge needs two videos
of one file and two episodes; a re-import needs a second content, of the other kind;
one slot in each queue still lets executions of different queues interleave at every
place, and a task follow a crash; `MaxGen` 4 leaves room for the ladders of two
re-encodes over an old one.  The cases of `Sources` are the values on both sides of
each comparison in `ladder.go`.  *Downloads*: answers overtake each other between
one add task and one poll; the second download, which nobody edits, is the one
dragged along when the batch is undone.  *Agent*: jobs share nothing but the agent
and the sweep, so two show what one's crash does to the other; a second request
finds what the first left.  *Pages*: with room for two events a channel is full as
soon as two wait, where the code has 64; pages share nothing but the sender, who
never waits for one of them, and the theorems are about any number of pages.  Three executions of a task are enough
for an item to be left open by one, found by the next and closed or left by a third.

### Fairness

`task_queue`: weak fairness of the dispatcher (its select has a 5-second tick
besides the wake channel), of every execution (a goroutine is scheduled, a task
function returns: those that call the agent or ffmpeg have contexts and no
unbounded wait of their own), of the passing of retry delays, and of a restart.
Nothing is assumed of users.  That a low-priority task is not starved by one that
keeps failing rests on `TaskReschedule` raising the priority number of each retry;
the mutant without it fails.

`blob_store`: weak fairness of the collector (its loop runs for as long as the
process does), of time, and that a flow ends one way or another.

`video_pipeline`: weak fairness of each step of each execution and of taking a
queued task, which is what `TaskContract` and `DueTaskIsTaken` promise; faults are
bounded by `MaxFaults`, so no tool fails for ever.

`downloads`: weak fairness of the poller (a loop with a sleep of a minute), of the
add task (it is retried until it ends) and of the daemon's completing a file.
Nothing is assumed of editors or of the auto-trash loop.

`encoder_agent`: weak fairness of the handler and of act3's side (goroutines run),
of the server's watching its connections, and of a tool **only** while its caller
still waits: a tool that was given up may hang, and `RequestEnds` must hold all
the same.

`live_update`: who has changed something goes on to emit (the next statement), a
page handles its messages.  Nothing is assumed of tasks, uploads or editors.

### Departures of the code from what it says

The violations are listed as findings in `PROJECT.json` with the lines that
say otherwise.  More can be reproduced by changing a constant:

- `WritesMayFail = TRUE` in `TaskQueue.cfg`: `RunningHasOwner` fails.  When
  `TaskReschedule` or `TaskMarkFailed` itself returns an error, `run` logs it and
  unlocks; the row stays in state running until the next restart, while the
  comment says "run already moved the task to its terminal state"
  (`model/task.go:325`).
- `MCClicks == SeriesRows \cup {a2}` in `MCLibrary`: `OneDefaultEdition` fails.  `MovieEditionSetDefault` (`model/movie_edition.go:416`) does not ask
  whether the edition is live, so a click from a page that still shows a trashed one
  leaves the movie without a live default; the comment at `model/trash.go:246-247`
  has the trash keep the default on a live edition.
- `StaleClicks = {c1}`, or `{a1, a2, a3}`, in `Slugs.cfg`: `AddressesAreTrue` fails.  A
  title set on a trashed collection or series claims a name for it in table Slug
  (`model/series.go:221`, `model/collection.go:338`), which nothing can be visited at
  and nobody else can have; a label set, or a clone, under a trashed movie makes a
  second edition with the empty slug, which the unique index holds against the
  restore.
- `PresetReplays = TRUE` in `VideoPipeline.cfg`: `PresetsMatch` fails.  The process
  stops between the commit of the encode tasks and the deletion of pass 1
  (`model/ingest.go:525`, `model/task.go:416`) and starts with another preset; pass 1
  is run again and overwrites the statistics of the encodes already queued, where
  the comment says "They must match" (`model/ingest.go:521-523`).
- `Backlog = TRUE` in `VideoPipeline.cfg`: `EncodeHasStats` fails.  The agent's sweep
  takes the statistics of a batch that has waited for its age, which the comment
  calls garbage (`video/fenc/sweep.go:12-14`).
- `Overtakes = TRUE` in `VideoPipeline.cfg` with a `Capacity` of two in each queue:
  `EncodeHasStats` fails, by a release (`model/ingest.go:768-770`) slow enough to
  come after a re-encode and its first pass, since it names the video and not the
  batch; with an editor who asks twice `OneSource` fails as well, by a re-encode that
  fits a whole other one into a moment of its own.
- A film without audio streams and subtitles, a `Capacity` of two for the disk and
  `MaxFaults` of two: `OneLadder` fails.  An ingest that reschedules itself before
  its own row is deleted is, after a crash, there twice; both executions find no
  track of the file planned (`sameTracks`), no unique index refuses the second plan,
  and every row of the ladder is made twice.

Others are stated in the property modules and are in no run:

- `RestoreReaches` (`LibraryProps`): with two episodes in one season (`TwoEpisodes`
  of `MCLibrary`) reordering a season forgets the junctions in the trash, and an
  episode restored later is in no season.
- `TrashCanBeRestored` (`LibraryProps`): with two seasons of one number (`n1` and `n2`
  of `MCLibrary`) a season whose number `SeasonAdd` has used again
  (`model/season.go:113` counts the live ones only) meets the unique index and cannot
  be restored.  For slugs, which the same kind of index guards, the code looks for
  a free one, and `AddressesAreTrue` holds.
- `PlayableIsShown` (`VideoPipelineProps`): the merge gives an episode a playable
  video and promotes none, where `model/active_video.go:17-20` asks for a promotion
  "after a junction set changes".
- `EndIsAnnounced` (`LiveUpdateProps`): the comment of `Event` says that the task
  queue emits "when a task begins or ends"; the last event goes out before `unlock`
  takes the task from the running ones, so a page may list it until something else
  happens.  `RunTaskNow` writes past `WithTxRW` and emits nothing.
- `OpenHasTask`: "Clients open items [...] and close them when finished"
  (`model/progress/progress.go`); `taskIngestEncodeRend` returns early without
  closing (`model/ingest.go:690-701`), and a task that fails for good this way
  leaves its item open until the restart.
- `FinishedIsClosed`: the same of a task that does not fail.  After such a return a
  re-encode deletes the rendition (`model/ingest.go:1012`), the retry returns nil
  before it reaches the item (`model/ingest.go:646-648`), `run1` deletes the task,
  and the item stays open; the encodes of audio and of downloads return the same way
  (`model/ingest.go:541-543`, `779-781`) and leave the tombstone of a failed tool.
  This is why `DoneIsClosed` speaks of work that is recorded only.

And some the models contain as the code has them, with an exception in a property
where one is needed: a download the daemon has once reported an error for is not
polled any more, though `model/download.go:449-452` expects "a future polling
cycle"; `DownloadRestoreByCascade` does not renew LastActivityAt, so a download that
comes back with its work may be retired within the hour; adding the torrent of a
trashed download that was done is refused by the planning, and the rollback undoes
the restore, contrary to the comment at `model/download.go:548-552`; a default
edition on its way to the trash takes a slug for a moment, and with it the old address of a
sibling, which leads nowhere afterwards (the last exception of `OldAddressesLead`); a caller that
gives up while the agent is between its Stat and its MkdirAll, or just as the tool
ends, leaves a directory for the weekly sweep, contrary to `video/fenc/fenc.go:36-41`.

## 4. The proofs

`tlapm` checks all of them for arbitrary constants that satisfy the modules'
assumptions.

**TaskQueue.**  `TypeCorrect` needs nothing more.  `LockStructure` (the panic is unreachable) assumes
`~Overlap`; `LockInv` says that executions and lock entries are in one-to-one
correspondence, and that a task which has an entry or is chosen by the dispatcher
is not queued and due.  The last part is what makes it inductive, and what a stale
click breaks.  `BudgetIsExact` (`BudgetIsSum`) assumes `~Overlap` too, and that the
table is finite: one entry changes at a time and `used` by the difference
(`BudgetChange`), and what is inserted goes over an entry without weight, which is
`CandidateFree` of `LockInv`; the sum itself is `HeldChanges`.  `AdmissionBound`
(`AdmittedByOne`), under the same assumptions, is about the same table with each weight
cut to the one that was admitted.  What it sums to is at most `used` (`HeldIsMonotone`),
so where `canAdmit` finds room there is room in it; nobody can take that from the
dispatcher before the insertion, since a task re-weighs from its nominal weight and
what was admitted of it does not grow (`Admitting`).  No bound is assumed on what tasks
learn.
`NoStuckTask`, `CompletedIsNotFailed` and `KillIsFinal` assume also
`~WritesMayFail`, and rest on `OutcomeInv`: a running row has an entry or the
dispatcher at the insertion; an execution at its unlock has left its row settled;
one whose function returned nil has no row any more; a killed one records a
permanent error.  `Refinement` shows, from the same invariants, that every step of
the queue is a step of `TaskContract` or a stutter.

**BlobStore.**  `NoLiveBlobSwept` says nothing about the collector's readings, so
it is not inductive.  `IInv` adds: what a flow holds is not in `aged` (`HeldIsYoung`:
it was written within the grace period, so every cutoff fixed until it is recorded
spares it); a recorded blob that the cutoff does not spare is in the snapshot
(`RowsAreKept`: it was recorded before the sweep, since what was recorded during
the sweep is not in `aged`); temporary files belong to one flow each and a
stream's is young (`TempIsOwn`); the file the walk is about to remove is nobody's,
except that it may be the temporary file of an encode (`VictimIsGarbage`, the gap
that `blob_store_encode` exhibits).  `StoreInvariant` is its induction, one lemma
for each action; `BlobsAreSafe` and `StreamsAreSafe` follow.

**Library.**  `IInv` is `TypeOK`, `TrashMirrorsRows` and `NothingLost` with what they
lean on: a junction has both of its rows, in the trash or not (`LinksHaveRows`, which
is why a purge has to delete the junctions first), `active` is a column of a
junction, at most one for each work, and the videos of a torrent come with its
download.  A cascade takes live rows only and a restore or purge all the rows of some
roots; from this the table Trash and the columns DeletedAt agree after each of them,
however roots are nested.  `Inductive` has one lemma for each operation.
`DefaultIsOne` assumes `FreshDefaults`, that no stale click names a movie edition:
`DefaultsStand` adds that a default edition is live, or in the trash together with
its work.  The action properties `NoDanglingJunction`, `SharedIsSpared` and
`ParentsStayAbove` are statements about one step from a state of `IInv`, by the four
kinds of steps there are (`Kinds`).  The last needs `ParentsInv` too: what a cascade
took by way of its parent is in the trash with it, a root is above what it took, and
no row outlives its parent; then the four rounds of `RootsToRestore` are enough
(`RootsAreClosed`).  That the first library keeps the foreign keys is
`ParentsAssumption`.

**Downloads.**  `IInv` is `Typed`, `Truthful` and `RowsInv`.  `Truthful` is about the
answers of the daemon, wherever they are: the memory, the poller's list and the add
task's may be old, but what they call complete is complete, since a file does not
become less.  With it a row whose file was ingested was complete, and a state is
derived from what is left.  `AutoTrashIsCareful` needs `Timed`: the column
LastActivityAt is never older than what an editor did.

**EncoderAgent.**  `IInv` says for each job what the places of its four parties
allow.  `Protocol`: who may do what, for instance that a tool runs for a handler that
waits for it, or its agent has crashed.  `Content`: what an agent tells or is about to
tell act3 of the output is so, and a directory act3 is through with is the handler's
to remove, or has an excuse.

**LiveUpdate.**  `IInv` is `PagesInv` with `WorkInv`: a part of a page that is stale
is still to be read, or the channel has an event, or one is due, and a page that has
left misses nothing; the work of a task is recorded by the execution that opened its
item of progress (`WorkIsRecorded`), so once it is recorded that execution goes on to
close the item, and no later one opens it again.  Nothing follows for a task whose
rendition has been deleted, and `FinishedIsClosed` does not hold.

**Slugs.**  `IInv` is two arguments next to each other.  `NamesInv`: the column Slug of
a live owner names a row of table Slug that is no tombstone, and is the only such row
of it; this survives a claim because the slug that is found is no other live owner's,
which is where `EnoughSlugs` comes in (TLC evaluates it for the instances; with the
numbers and IDs of the code it holds for any).  `EditionsInv`: editions of one work
that are live, or in the trash together with the work (`With`), have different slugs,
and one in the trash by itself is not the default; so a restore, which gives a new
slug to its root only, never meets the unique index.  `RowsInv` is what they need of
rows and trash.  `AddressesStayTrue` assumes `FreshPages`, that requests name live
rows only: section 3 shows what goes wrong otherwise.  So does `OldAddressesGoOn`, the
action property `OldAddressesLead`: no action takes an address away that led
somewhere, unless its exceptions say so.  It goes action by action: what the
address is read from is kept, or its slug was given to another.  The
one assumption about labels it needs, that a label's first candidate is the empty
slug (`editionSlugCandidates`), is in `SlugsAssumption`: it is why an edition that
becomes the default takes the empty slug and leaves its own behind as a tombstone.

**VideoPipeline.**  `Orderly` is assumed throughout: no two executions for one video
overtake each other, and a file has an audio stream or subtitles (section 3 shows a
property that fails without each).  Nothing is assumed of capacities: any number of
executions of one task may run.  `IInv` has five parts.  *Types*: of rows, tasks and
executions; there are never more executions of a task than copies of it (`Booked`),
so the end of one takes one copy away and no other execution's.  *Plans*: a row has
been planned from a probe, all rows of a video at once; an ingest that still copies
meets a video without a plan, or with the plan another copy of the same ingest has
made.  *Work*: `Coming` is `NothingStranded` said of what is still to happen, by a
copy of the task that has not begun (`spare`) or an execution that has not come to
the point; it is inductive because an execution leaves a row only when it is made or
its task is queued.  *Statistics*: an encode that waits has them, or its row is about
to be torn down; who is about to release them is not waited for (the read of
`allRenditionsEncoded` precedes the release, and in between nobody queues an encode of
the same ladder); what is queued with a preset has statistics of that preset.
*Sources*: an original, the plan, the files and what executions have opened are of
one content, or a re-encode is coming.  `StatsAreThere` assumes `~Backlog` besides,
and `PresetsAgree` `~PresetReplays`; the others hold with either.  The proof has one
lemma for each action, over a few lemmas on how bags and executions change
(`BeginStep`, `MoveStep`, `LeaveStep`).  `EpisodesKept` is the action property
`MergeKeepsEpisodes`.

**Ladder.**  `LaddersAreSound`: `Sound(src)` for every source that is measured in whole
numbers, not only for the cases of `Sources`.  `Picked` is what the loop over the
rungs has put together after n of them; the recursive function of `Lower` is shown to
exist rung by rung.  `LadderHolds` is the run's invariant.

Only model-checked: what is liveness under fairness (`DueTaskIsTaken`,
`GarbageIsCollected`, `EverythingIsMade`, `AutoImportHappens`, `RequestEnds`,
`PageCatchesUp`), which is out of the prover's reach.  Every safety invariant and
every action property of the passing runs is a theorem.

Two proofs are inductions over data: the sum over the lock table (`BudgetIsExact`) and
the search for a free slug.  The library's induction theorems take an operator as a
parameter, which none of the provers can instantiate.  What can be cited is that
sets of numbers and sets of finite sets are well founded, so both argue with a
smallest counterexample (`Smallest` in `SlugsProof`, `SmallestSet` in
`TaskQueueProof`).

The type invariants of `TaskQueue`, `Library`,
`Slugs`, `Downloads`, `EncoderAgent` and `LiveUpdate` are proved and therefore not checked
again by the runs.

## 5. What is not modelled

`PROJECT.json` has a row for each part.  Most of the implementation's lines are not
control at all: the generated queries (`database/schema/query.sql.go`, modelled from
the SQL they come from), the UI kit and the views (`hi`, `ui`, `view`, a quarter of
the code), text and binary formats (`video/playlist.go`, `video/ffmpeg`), images,
developer tools and static analysers (`cmd/freeze`, `cmd/frozencheck`).  They are
functions from data to data with no state that outlives a call; a model would
repeat them.  The share of lines that the map can honestly name is therefore small.

Metadata services and settings are a request followed by one transaction.  The slugs
of episodes, schema updates, the seasons and episodes that the clone of a series
edition copies, the matching of file names to episodes and the edges between progress
items have state or control of their own and are left for later.  Of the web application only the requests it sends and the
redrawing of a page are modelled.

## 6. Plan

Done: `TaskQueue` with `TaskContract` (everything else runs on it), `Library`,
`Slugs`, `BlobStore`, `Ladder` with `VideoPipeline`, `Downloads`, `EncoderAgent`,
`LiveUpdate`, and proofs of the safety of all of them.  Next, in this order:

1. Contracts one level up, as `TaskContract` is for the queue: what `VideoPipeline`
   promises of one row (planned, queued, made, and never back but by a re-encode),
   with the refinement proved from the `IInv` there is.
2. `OneLadder` and `OneSource` without `Orderly`, for what is left of them.
3. Schema updates as a module of their own: a crash between two of the transactions.
