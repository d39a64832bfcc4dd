# A specification of pecl-zfs

pecl-zfs gives PHP scripts two functions, `zfs_list()` and `zpool_list()`, which
list the ZFS datasets and pools of the host through libzfs. These modules model
all of its own code that keeps or changes state: the four files `zfs.c`,
`zfs_list.c`, `zpool_list.c` and `php_zfs.h`. They are checked with TLC and
proved about with TLAPS.

## The system

| component | state | operations | modelled in |
|---|---|---|---|
| `zfs_list()`: the walk (`zfs_list.c:17-34, 94-136`) | the C recursion, the array, one `zfs_handle_t` per frame | `zfs_list_datasets()`, `zfs_list_callback()` | `DatasetWalk` |
| `zfs_list()`: a row (`zfs_list.c:36-95`) | `dataset_info`, `property_buf` | type switch, six `zfs_prop_get()` | `DatasetRow` |
| `zfs_list()`: the walk with its rows | the above over one array | | `DatasetList` |
| `zpool_list()`: the walk (`zpool_list.c:14-28, 157-195`) | the array, one `zpool_handle_t`, and in the library a pool list with a count of its walks | `zpool_list_pools()`, `zpool_list_callback()` | `PoolWalk` |
| `zpool_list()`: a row (`zpool_list.c:30-158`) | `pool_info`, three sizes, `property_buf` | three `zpool_get_prop_int()`, arithmetic, status switch, three `zpool_get_prop()` | `PoolRow` |
| the extension (`zfs.c`) | the static `g_zfs`, the calls in progress, the description of the last error in the handle | `MINIT`, `MSHUTDOWN`, the two PHP functions, `php_zfs_error()` | `ZfsExt` |
| the two functions together | what the handle holds for both: the list of pools, the count of its walks, the description of the last error | one function called in the error handler of the other | `SharedHandle` |
| what a script is promised | the answer and the warning of a call | | `ListCall` |

How they interact: PHP starts the module (`MINIT` opens the handle), scripts
call the two functions, each of which runs one iteration of the library with a
callback; the dataset callback hands itself to a further iteration. The callback
adds rows to the array of the call. A failed iteration leaves its description in
the handle, where `php_zfs_error()`'s caller reads it; the warning it raises may run an
error handler of the script, which may call the two functions again. `MSHUTDOWN`
closes the handle. Meanwhile other processes create and destroy datasets and
pools and write to them: nothing the extension does is atomic with respect to
them.

What makes it hard, and what would make it correct:

- *The walks.* The tree changes between any two steps; an iteration can fail at
  any depth; PHP can unwind a request out of a callback (memory limit). Correct
  means: handles are all closed, no dataset is listed twice or invented, the
  array is a depth-first outline, nothing that was there all along is missing,
  and the walk ends.
- *The rows.* All texts pass through one uninitialised buffer; the sizes are
  read in several calls; the arithmetic is on 64-bit words and is cast twice.
  Correct means: every value is of its own row and key, the capacity is the
  percentage, and an error is told from a zero.
- *The extension.* The handle is shared by nested calls and, in a ZTS build, by
  threads. Correct means: a call finds the handle open, no handle is left
  behind, the details of a warning are of the call that raises it, and no
  iteration's list is replaced under it.

`PROJECT.json` lists the hazards line by line with the properties aimed at them.

## The modules

libzfs and PHP are not in the repository. They appear as the code uses them, and
every such definition is marked external in `PROJECT.json`. Three things are
assumed of libzfs and ZFS that no header in the repository says:

- `zpool_iter()` counts its walks in progress in the handle and does not load the
  pool list while there is one, whereas `zfs_iter_root()` always loads it.
- The first successful read of a pool's properties fetches them all into the
  pool's handle. `SizesAgree` rests on this: were each size read from the pool
  anew, a write in between could make them disagree.
- An iteration goes over the children of a dataset in a fixed order: a name has
  the same cookie (`Pos`) whenever it exists, also after it, or its parent, was
  destroyed and made again. `NoDuplicates`, `EndDrawsNear`, and all that rests on
  them, such as `KeepsRows`, depend on this. Were the order of a dataset that is
  destroyed and made again in the middle of its iteration a new one, a child that
  is listed could be met a second time: the code itself does not look.

What rests on the first is said below.

**ListCall** is the abstract specification: a call answers with an array and no
warning, or warns once and then answers `false`, or is abandoned with the whole
request. `DatasetWalk`, `PoolWalk` and `ZfsExt` each implement it (the property
`Contract`); in `ZfsExt` the outermost call of every thread does, whatever
nests in it.

**DatasetWalk.** `stack` is the C recursion: a frame per iteration in progress
with its dataset and the cookie of the iteration. `OpenNext` is the library
opening the next dataset and entering `zfs_list_callback()`; `SkipNext` is a
dataset it could not open (the `NULL` guard, `zfs_list.c:26`). `AddRow` builds
and adds the row and enters `zfs_iter_children()`; `ChildrenDone` and
`ChildrenFail` are its two ways to return, after both of which the code closes
the handle. `Bailout` is the engine unwinding the recursion. `Begin`,
`RootDone`, `RootFail`, `Warn` and `ReturnFalse` are `PHP_FUNCTION(zfs_list)` and
`zfs_list_datasets()`; `AbandonInHandler` is the engine unwinding the request out
of the error handler of the warning. `pools` is the list `zfs_iter_root()` ranges
over, and empty while it does not run. `Create` and `Destroy` are other
processes, at any step; a `zfs rename` is a row of them with no step of the walk
in between, and `zfs destroy -r` one with steps in between.
`leaked`, `cut`, `passed`, `steady` and `born` are history variables.

**PoolWalk** is the same of `zpool_list()`, which does not recurse; `list` and
`walks` are the library's pool list and its count, which outlive the call.
`LoadForZfsList` is `zfs_list()` loading that list in between.

**DatasetRow** and **PoolRow** open up the step `AddRow` of the walks: one action
per property read, and one for its failure. A property's value is the pair of
owner and key, so any mixing up of values shows; "garbage" is what an uninitialised or
half-written buffer holds. `Visit` of `DatasetRow` is the callback as it is, which
never looks at the array; `Enter` adds what the module assumes of its
surroundings, that the dataset has no row yet. `Discard` is the end of an array
that no script sees. `Unreadable` are the properties whose reads may fail. `PoolRow` computes with words of `UMod`, `LMod` and
`IMod` values for `uint64_t`, `long` and `int`.

**DatasetList** is `DatasetWalk` and `DatasetRow` put together over one array:
`table` holds the rows, and the names in it, `NamesOf`, are the `rows` of
`DatasetWalk`, of which `W` is the instance. `Open` is the callback entered by
the library (`Visit`, without the guard); `Read` is a step of the row and none of
the walk, `AddRow` ends the row and enters `zfs_iter_children()`, `Ascend` is
what the walk does once the row is in the array, and `Lose` is every way to lose
the array, in the middle of a row too. Other processes act between any two
reads. The properties `KeepsWalk` and `KeepsRows` say that it implements both
modules: that a row's many steps are one step of the walk, and that the guard of
`Enter` holds whenever the library opens a dataset.

**SharedHandle** is `DatasetWalk` and `PoolWalk` put together on one thread: two
instances, `D` and `P`, with variables of their own and with `live`, `list` and
`walks` in common. `calls` is the stack of calls in progress; a call may begin if
none is, or if the innermost one stands in its warning, whose error handler then
makes it (`MayCall`); only the innermost call takes steps. `list` is loaded
by `ZfsListBegins` and by `P!Begin`. What the walks specified of their
surroundings each for itself is a result here: the properties `KeepsDatasetWalk`
and `KeepsPoolWalk` say that the composition implements both, `KeepsZfsExt` that
its steps, under the mapping `Abstract` of a call to its record in `ZfsExt`, are
steps of `ZfsExt` on a started module. A function called in a handler of its own
warning would need a second instance of its walk; that case is in `ZfsExt` only.

**ZfsExt** reduces a walk to its beginning and its end and keeps what calls
share: `g_zfs`, the description `desc`, the count `walks` and, per call, whether
the list it walks was replaced under it. `calls[t]` is the stack of calls
nested on thread `t` through error handlers. `Misuse` is a call with arguments,
which `zend_parse_parameters_none()` turns down before anything else is done. One
thread is the usual (NTS) build
of PHP; several are ZTS.

Each of these but `ListCall` has a `Proofs` module, and each but `ListCall` and
`DatasetRow` an `MC` module with the constants for TLC. A definition commented "Slip" is a plausible
mistake in the code; a slip is not part of a specification but is put in the
place of the definition it follows to show that a property notices.

## The runs

| run | what it asks | bounds |
|---|---|---|
| `DatasetWalk` | handles, recursion depth, duplicates, order, existence, completeness and the contract of `zfs_list()` | five names in two pools, three levels, with siblings; any of them live at the start, created and destroyed at any step; one abort |
| `DatasetWalkOne` | every `zfs_list()` comes back, and every step of it brings that nearer | one pool with snapshot, child and bookmark |
| `DatasetList` | the walk with its rows implements the walk and the rows; reads are on open handles, the array is right in its rows and as a whole | a pool with a snapshot and a volume, each live or not and created and destroyed at any step; the first and the last of the six reads may fail; one abort, in a row or between rows |
| `PoolWalk` | handles, order, completeness, contract, termination and the number of steps of `zpool_list()` | three pools, two aborts |
| `PoolRow` | capacity, sizes, texts | five states of the pool, from none to one whose product wraps a ten-bit word; a `long` of five bits, which cuts the larger sizes as 32 bits cut those of 64 |
| `SharedHandle` | nested calls of the two functions: each walk keeps its specification, both keep `ZfsExt`, the one that waits holds nothing, warnings are own, the outermost keeps the contract | one pool with one child, which come and go; calls of either function in the other's handler; one abort of each walk |
| `ZfsExt` | nested calls: lists stay intact, details are own | one thread, calls three deep, two aborts |
| `ZfsExtThreads` | lifecycle, the count of walks, and contract | two threads, calls two deep, one abort |

Why the bounds are enough to be interesting: three levels with siblings is the
smallest tree in which a dataset's iteration resumes after a child that itself
had children, and in which a parent can be destroyed and made again below a
running callback; two aborts let a leak meet another; three nested calls have a
call that is neither first nor last; one pool, on or off the list, and its child
are enough for a walk to fail before, at and inside the pool while the other
function waits in its warning; a failed first read finds in the buffer what the stack
holds, a failed last one a value of its own row, and a snapshot and a volume below
one dataset are rows of two types built in frames of the same depth, in between
others; a ten-bit word wraps at the same place in
the formula as one of 64 bits. The safety properties are proved for every value
of the constants, so for them the bounds matter little. The bounds are named
constants (`MaxBailouts`, `MaxDepth`, `Unreadable`); nothing else is capped. No run disables
the deadlock check.

Runs that TLC must find violated, each with the line of the repository it
contradicts (`findings` in `PROJECT.json`):

| run | what the code does |
|---|---|
| `DatasetWalkNoError` | the failure of `zfs_iter_children()` is ignored: an array that lacks a dataset that was there throughout, and no warning |
| `PoolRowOverflow` | `allocated * 100` wraps around: the capacity of a huge pool is too small |
| `PoolRowHealth` | eight faults are reported as `ONLINE` |
| `ZfsExtDetails` | with threads a warning can describe another thread's failure |

Five further disagreements need no run: each can be read off a definition, or
off the guard of a property that holds.

- Bookmarks are never listed, although `README.md:113` names the type and the
  switch has a case for it: `zfs_iter_children()` does not offer them and
  `zfs_iter_bookmarks()` is never called (`Offered` and `Complete` of `DatasetWalk`).
  The switch's default, `unknown`, is not met either: the library iterates over
  types with a name only (`TreeAssumption`); `DatasetRowProofs` covers both.
- A dataset's property that cannot be read leaves its row without the key
  (`RowsTruthful` allows the absent value), although `README.md:110` lists the
  properties without an "if set".
- A failed `zpool_get_prop_int()` is listed as 0 and nobody is told
  (`CapacityExact` and `SizesAgree` are of rows without a failed read).
- With a 32-bit `long` the sizes of a pool are cut (`SizesAgree` promises the
  pool's own sizes only if they fit; if not, that what is left of the three still
  adds up modulo the width).
- After a call that PHP aborted, `zpool_iter()` may walk the list of that call
  again and miss a pool imported since (`Complete` of `PoolWalk` is of calls before
  the first abort). This rests on the assumption about the library's count.

## Fairness

`FairSpec` of the walks asks weak fairness of the steps of a call in progress
and of nothing else: the C function runs to completion on its thread and waits
for nobody, while scripts need not call it and other processes need not act.
Other processes may act for ever. Calls end all the same, because an iteration
only moves forward over a finite set of names. (Over infinitely many names they
would not have to, and the theorems on it assume that the set is finite.)
`EndDrawsNear` says how: `StepsLeft` counts what a call may still do, every step
of the call takes it down, and no step of anybody else puts it up. `ZfsExt` states no
fairness, as an error handler is a script and may run as long as it likes.

## What is proved

All theorems are listed in `PROJECT.json`. The assumptions are those named in
the modules: `TreeAssumption` (names form a forest with depths, siblings have
different cookies), `DatasetAssumption`, `PoolAssumption`, `WidthAssumption` and
`SpaceAssumption` (words are not empty, an `int` holds a percentage, not more is
allocated than there is), `BoundAssumption`, and `HandleAssumption`, which is
`TreeAssumption` again and that no failure at all is not an error. TLC evaluates
them on every run. The theorems on the number of a call's steps have a
hypothesis of their own, that the set of names (of pools) is finite, and two of
`ZfsExtProofs` that there is one thread.

- `DatasetWalkProofs`: the type invariant, `HandlesAccounted`,
  `RecursionBounded`, `NoDuplicates`, `DepthFirst`, `ListedExisted`, `Complete` and `Contract`. None of them is
  inductive. The invariant `IInv` adds that the stack is a path of the tree whose
  cookies stand at the child below (`StackIsPath`), that what is on the stack is
  listed (`StackListed`), that each listed dataset is behind the cookie of its
  parent's iteration or its parent is done (`RowsBehind`, from which a dataset
  cannot be met twice), that since a frame's row only deeper rows were added
  (`OutlineOpen`), and that what must still be listed is ahead of a cookie
  (`StillAhead`). It is proved in layers, each using the ones before.
  `HandlesAccounted` does not say that an aborted call closes its handles, for it
  does not: `Bailout` moves them to `leaked`. What it says is that these are the
  only ones, in that call and in all later ones.
- `PoolWalkProofs`: the type invariant, `HandlesAccounted`, `InOrder`, `Complete` and `Contract`, by
  the same argument with one cookie.
- How long a call may take, in the same two modules. `CallIsBounded` proves
  `EndDrawsNear`: there is a number, fixed when a call begins, that every step of
  the call lowers and that no step of another process raises. For `zpool_list()`
  it counts the pools ahead of the cookie. For `zfs_list()` it counts `Unvisited`:
  the names that can hang below the stack and are not behind a cookie of it. A
  dataset that is created, or destroyed and created again, takes a place that was
  counted; one whose turn is over never gets another, because the
  stack is a path whose cookies stand at the child below (`StackIsPath`), and a
  cookie only moves forward. `NeverStuck` proves that a
  call in progress can always go on: what is ahead of a cookie has a first
  element, by well-foundedness. The two together are what termination comes to
  without fairness; that a call which can go on does, is `FairContract` and stays
  with TLC.
- `DatasetRowProofs`: the type invariant and `RowsTruthful` (for TLC a part of
  `ArrayIsRight`), from the invariant `RowInv` that the row being built has the
  values of the keys read so far and no others.
- `DatasetListProofs`: the two refinements, `WalkKept` and `RowsKept`, from the
  invariant `Joint`: the invariant of the rows, the base invariant of the walk, and
  `Linked`, by which a row is being built exactly while the walk stands in its
  callback, and is then the row of the dataset on the top of the stack. What
  `DatasetRow` assumes, that a dataset visited has no row, follows from
  `RowsBehind` of the walk: what is listed is behind a cookie, and what the
  library opens is ahead of it (`OpensNew`). `HandleOpenForRow` joins `Linked`
  with `HandlesAccounted`. `ListedRight` is what a script may rely on: through
  the refinement the theorems on order, duplicates, existence and completeness
  hold of the array, together with `RowsTruthful` of its rows, in every state and
  whichever reads fail. The instance `WP` of the walk's proof module brings them
  over; the lemmas `WalkInit` and `WalkNext` identify it with `W`.
- `PoolRowProofs`: the type invariant, `CapacityBounded`, `CapacityExact`, `SizesAgree` and
  `TextsTruthful` for every word width, from the invariant that all successful
  reads saw one fetch, and lemmas on division and on the signed reading of a word:
  it fits its type (`SignedFits`), differs from the word by a multiple of the
  width (`SignedCongruent`), and so the parts of a cut size add up to it modulo
  the width (`CutPartsAddUp`).
- `ZfsExtProofs`: `HandleLive` and `Contract` for any number of threads, from
  the invariant that on each thread only the innermost call is not reporting; and
  `WalkedListIntact` and `OwnDetails` under the assumption of one thread, which
  `ZfsExtDetails` shows the second needs. The type invariant, too, is of any
  number of threads: that `walks` never goes below zero rests on `Counted`, by
  which the threads whose innermost call is a walk of `zpool_iter()` are finitely
  many, at most `walks`, and at least `walks` less the aborted calls. An abort
  leaves one too many counted, never one too few; `WalksAreCounted` states it,
  across restarts of the module.
- `SharedHandleProofs`: `OnlyInnermostRuns`, from the invariant `Nest` (calls are
  at most two and of different functions, the outer one is in its warning, a walk
  is in progress exactly if its call is, and `zfs_list()` ranges over the list
  only while it walks); from it the three refinements, step by step. Nobody loads
  the list while the other walks it because a call only begins when every other
  call is in its warning, after its iteration has returned. `KeepsZfsExt`
  starts from a started module, which a `ModuleStart` of `ZfsExt` leads to.
- What the refinements carry over, in the same module. Its instances `DW`, `PW`
  and `EW` of the other proof modules turn a theorem about a component into one
  about the composition, without its proof being done again. The type invariant
  follows so, all invariants of `DatasetWalk` (`DatasetResultsHold`) and of
  `PoolWalk` (`PoolResultsHold`), and the bounds on the steps of each walk
  (`CallsAreBounded`): they do not depend on what the other walk does in between.
  From `ZfsExt`, of which the composition is the case of one thread, come
  `DetailsAreOwn` and `OuterKeepsContract`. `NothingHeldOutside` joins results of
  both walks with `Nest`: a call in its warning holds no handle, no list and no
  count, so but for what aborted calls left a script's error handler always runs over a
  library at rest.

Every invariant and every action property of a run is proved. Only
model-checked: liveness (`FairContract`), which is beyond the prover, that a
guard of `NeverStuck` enables its step (a statement with `ENABLED`, on which
`FairContract` rests), and the violations.

## What is not modelled

- The vendored headers under `compat/`: 474 of the repository's 490 files and all
  but 550 of its lines of C. They declare OpenZFS and its portability layer so
  that the extension compiles; it calls none of their inline code (kernel list and
  atomics shims, SIMD probes, Unicode tables), and what implements the
  declarations, libzfs, is not in the repository. Modelling them would say nothing
  of this program. Of the extension's own four files all code
  that keeps or changes state is modelled.
- The build, port and CI files and the tests: no behaviour of the extension.
- `PHP_MINFO` and the module entry: constant tables.
- A fork after `MINIT` (a web server's workers): each process then has a copy of
  the handle's memory, and one instance of the modules is one process. What
  libzfs shares between them, its descriptor of `/dev/zfs`, is the kernel's.
- Branches that cannot be taken: `cb_data.error` is never set
  (`zfs_list.c:130`, `zpool_list.c:189`), and the tests for a `NULL` handle
  (`zfs.c:126, 149`, `zfs_list.c:110`, `zpool_list.c:170`) are what `HandleLive`
  shows dead, given that PHP offers scripts no function of a module that failed
  to start. `release_libzfs_handle()` is empty and never called.
- The wording of values and messages (a `bootfs` that is not set is listed as
  the library words it), and the truncation of messages at 1024 bytes.
- Data races inside libzfs in a ZTS build, beyond the interleaving of whole
  calls into it.

## Plan

Done: the modules above, in this order: `ListCall`, `DatasetWalk`, `DatasetRow`,
`PoolRow`, `PoolWalk`, `ZfsExt`, `SharedHandle`, `DatasetList`, each but the
first and `DatasetRow` with a run of its own (`DatasetRow` is checked in that of
`DatasetList`), and each but the first with its theorems.

What is left: the same for pools. `PoolRow` has one row and no array, so a module
that puts it into `PoolWalk` needs `PoolRow` with a history of the pool per row.
Meanwhile the two meet in the name of the pool: `PoolWalk` says which names are
listed, and in what order, and the properties of `PoolRow` that a row is what
its pool says.
