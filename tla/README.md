# A verification of the muhkuh flasher and its tools

The flasher is a program that runs on a netX controller and reads, erases and
programs the flash memories connected to it.  A host (Lua scripts on a PC)
downloads it into the RAM of the netX, writes a block of parameters, starts it,
and reads the result from the same block.  Around it the repository has Python:
a regression test that drives the scripts, a packaging script that installs and
calls jonchki, and in `jonchki/dulwich` the git implementation this script takes
its version from.  This directory holds TLA+ models of all of these, TLC runs
that check them on small instances, and proofs, checked by TLAPS, for every
instance.

Paths are relative to the repository.

## The system

| Component | State | Operations | Model |
|---|---|---|---|
| Host scripts: `templates/flasher.lua`, `lua/cli_flash.lua`, `lua/wfp.lua` | offsets of the running job, the collected data, what is reported | eraseArea, flashArea, verifyArea, readArea, hashArea; the jobs of cli_flash and wfp | `HostFlasher` |
| Contract of a call | flash, host buffer, parameter block | request, work, return | `FlashService` |
| Console application: `src/main.c` | parameter block, device description, both in RAM | detect, flash, erase, read, verify, checksum, isErased, getEraseArea, getBoardInfo, easyErase, spiMacroPlayer | `ConsoleApp` |
| Serial flash: `src/flasher_spi.c` | shared buffer, loop counters | write and verify, erase, read, checksum, isErased, getEraseArea | `SpiFlasher` |
| Serial flash driver: `src/spi_flash.c` | chip select, bus, status of the chip | read, program a page, erase | a step of `SpiFlasher` |
| Parallel flash: `src/flasher_parflash.c`, `cfi_flash.c`, `spansion.c`, `strata.c` | sector table, command state of the chips | as for the serial flash, CFI identification, two command sets | ranges in `ConsoleApp` |
| Internal flash: `src/internal_flash/` | the part each controller has selected, loop offset | detect, flash, erase, read, verify, checksum, isErased, getEraseArea | `InternalFlash` |
| SD cards: `src/flasher_sdio.c`, `src/netx4000/netx4000_sdio.c` | sector buffer, card state | as above | ranges in `ConsoleApp`, the contract of a card in `FlashService` |
| SPI macro player: `src/spi_macro_player.c` | the driver, kept between calls | six commands | a step of `ConsoleApp` |
| Regression test: `regression/test_regression.py`, `regression/common/` | memory under test, log folder, lists of errors and archives | search for the netX, commands, packing of logs, summary | `Regression` |
| Packaging: `build_artifact.py`, `jonchki/*.py` | folders of the installed tool, archives, working copy | detect the platform, check, download, extract, call; version id | `BuildArtifact` |
| Git references: `dulwich/refs.py`, `file.py`, `repo.py` | loose files, packed-refs, lock files; in each process what it read of packed-refs | commit, branch, delete, stash, switch, push that arrives | `GitRefs` |
| Git fetch: `dulwich/client.py`, `server.py`, `protocol.py`, `web.py` | refs and objects of both sides, the lines under way | fetch, pull, clone, upload-pack, fetch of some depth | `Fetch`, `ShallowFetch` over `ObjectGraph` |
| Git push: `dulwich/client.py`, `server.py` | the same, and the buffers of the streams | send_pack, receive-pack | `Push` over `ObjectGraph`, `PktLines` |
| Object store: `dulwich/object_store.py`, `pack.py` | loose objects, packs and indexes, the list of packs in each process | add, add a pack, complete a thin pack, pack loose objects, repack, look up; index, headers and deltas of a pack | `PackStore`, `DeltaChain`, `PackFile` |
| Working tree: `dulwich/index.py`, `porcelain.py`, `stash.py` | files, index, HEAD | add, remove, commit, reset, stash, status | `Worktree`, `Status` |
| Diff and log: `dulwich/diff_tree.py`, `walk.py` | none, or the queue of one walk | changes, renames, merges; commits in order | `TreeDiff`, `RevisionWalk` |

`PROJECT.json` lists every component, the ones that are not modelled too, with
the reason.

One call of the flasher runs in one thread with interrupts off; nothing happens
on the netX while the host prepares the next.  So the hard behaviour there is
not two threads in one call.  It is

  * the chip: it may not take what it is sent, wraps in its page and at its end,
    and answers late or never,
  * failures in the middle: an operation that returns ERROR has done part of its
    work, and so has a job whose script was killed,
  * state that outlives a call: the device description, the shared buffer, the
    parameter block that requests change in place, the selected page,
  * arithmetic: pages, sectors, blocks, chunks, the shared buffer and 32-bit
    offsets all have their own borders, and 0xffffffff has a second meaning.

In the Python it is

  * several processes on one repository: refs, packs, the index and the files
    are read, then changed, and others change them in between; a process may be
    killed between two files and leaves locks, half a pack or half a reset,
  * two sides of a connection that read ahead, and must agree on who speaks,
  * caches: the packed refs, the list of packs, the time stamps of the index,
  * leftovers: a folder half unpacked, logs of a test that raised.

The hazards in `PROJECT.json` are these, line by line.

## What makes the parts correct

  * Console application: no driver runs with a description that the loaded
    flasher has not made itself; EasyErase clears what was asked and nothing
    outside the touched blocks.
  * Serial flash: what returns OK is true; nothing outside the range (or outside
    the touched sectors) changes, on any path; every loop ends.
  * Internal flash: a call changes the section it names and no other, although
    main array and info pages share one address window; what it reports is true.
  * Host: a job that reports success has done its job, whatever failed before;
    it keeps the other erase blocks; it ends.
  * Regression test: every failure reaches the result, and nothing else does;
    an archive holds the logs of its own test, and others only when they could
    not be removed before.
  * Packaging: the tool that is called is whole and of the version asked for, and
    what a killed run left does not stop the next one for good; the version id
    names the commit and says whether the working copy differs.
  * References: no update is lost and no commit drops out of a branch, as long as
    a lock is its holder's; no lock is left by a process that lives.
  * Fetch and push: a ref never names what its repository lacks; success means it
    took effect; the two sides never wait for each other.
  * Object store: what was stored stays, is found, and the two files of a pack
    belong together.
  * Working tree: what status reports is so, and it misses nothing; reset and
    stash do what they say, over files that change meanwhile.
  * Diff and log: the changes lead from one tree to the other; a log lists what is
    new, once, children before parents where that is asked for.

## The modules

`FlashService` is the contract of one call and the seam between the two sides.
Its variables are the flash (`mem`), the host's buffer (`ram`) and the parameter
block (`req`, `result`, `message`, `area`, `digest`).  `Call` is the host's
request, `Work` any number of changes the mode allows, `Return` the result: OK
only with the promise of the mode kept.  ERROR may come at any time.  The promise
of Erase is empty, because the flasher does not look at what it has erased.  A
request is anything; `Accepted` is what `check_params` lets through, and what it
refuses ends with ERROR and changes nothing.  It looks at the size of a Flash
request, but not at its end, and lets 0xffffffff (`EndOfChip`) and any end of
GetEraseArea pass.  So a request may reach behind the flash; it is then about
the cells that such offsets select (`Cell`, `Named`), from the start of the flash
on.  On an SD card (`card`) an erased byte is 0x00, and writing replaces what
is there.

`SpiFlasher` is `flasher_spi.c` with one action per call of the driver: the
label `pc` is the place in the C function, `addr` and `stop` its loop counters,
`buf` the static buffer.  A byte is the set of its bits that are 1, so that
programming is an intersection and 0xff the set of all bits.  `ChipFaults` lets
the chip ignore any part of what it is sent, `DriverFaults` lets the driver fail.
The requests are those that `check_params` lets through; behind the end of the
flash the chip wraps, and a sum that exceeds 32 bits does too (`Word`).  It is
shown to implement `FlashService` (`ServiceSpec`).

`ConsoleApp` is `main.c`: `check_params` and `check_device_description` (Refuse,
Accept) and one action per mode; EasyErase is three actions over the parameter
block `req`.  Four kinds of flash differ in how they treat a range (`Programs`,
`Erases`, `Checks`, `EraseBlocks`).  Of the contents only the cells that are not
blank are kept.

`InternalFlash` is `flasher_internal_flash.c` and `internal_flash_maz_v0.c`.
`flash` holds every section, a controller and one of its parts (main array,
info, infok); `selected` is the register that says which part a controller
shows; `desc` the area of the device description, of which unit 3 is the main
arrays of two controllers in a row.  A cell of the window is a controller and a
cell number, so `Seen` (what the processor reads) differs from `Own` (what the
area holds) whenever another part is selected.  The loops of Flash and Erase are
one action per page and per block (`offset`); the other calls are one step.
`Faults` lets a cell keep its value; `Reset` may come inside a call and selects
the main arrays again.  Left out: the ECC bytes, the burst buffers and the
test-mode signals around the second info page, which are part of programming a
page.  No call reaches the driver without a valid description:
`check_device_description` refuses it first (NotDetected).

`HostFlasher` is the scripts.  One action is the Lua code between two calls of
the flasher: it looks at the answer of the last (the label `pc`) and makes the
next.  The calls themselves are those of `FlashService`, so everything the
contract allows may happen: an ERROR with half the work done, and `Abort`, the
death of the script at any point.  `Jobs` are the command lines and archives for
one bus; a flash job of cli_flash does not erase an SD card before
(`WritesOver`), one of wfp does.  `NextFile` is where wfp goes on with the next
file of an archive, also behind an empty one.  Only cli_flash compares a range
with the size of the flash; a file of an archive that reaches behind it is left
to the flasher to refuse.

`Regression` is a campaign of `test_regression.py`; `stage` is where it is.  The
netX is searched (`env_flasher.py`), then each test method runs its commands
over the flasher (`command_carrier.py`) on each memory, packs its logs
(`class_logfilemanager.py`) and the list of error counts, and the results are
summed up.  `flash` is what the tests leave on the memories, `tmp` the shared
log folder, `zips` and `jsons` the archives and the summaries beside them,
`numErrorsA` the list that all runs share.  A fault is a command that fails, a
pack that fails, a log that cannot be removed when its folder is emptied
(`FoldersReset`, and `left`, what was left so), or an exception.

`BuildArtifact` is one run of `build_artifact.py` after another on one host, with
`jonchkihere.py` from the command line to the call of the tool.  `disk` is what
lies in the folder of each kind and version, `file` and `unpacked` the archive
being unpacked and how far, member by member; a run may be killed between two
members or in one, find no server or lose the connection.  A tool that was not
unpacked to its end has no mode yet ("torn"), or that of the tool it was written
over ("cut"), and may not start (`NotStarted`, `PerhapsNotStarted`): the script
raises.  `VcsId` is `vcs_id.py` over `porcelain.describe`.

`GitRefs` has one action per read of a file, creation of a lock, write, rename
and unlink.  Closing a lock file is three (`FlushLock`, `Rename`, `RemoveLock`):
the last removes what is called like the lock, whoever has made it; `robbed` are
the files whose lock was removed while another process had it.  A file that was
created and not written is `Empty`.  `pc` is the place in the operation, `prim`
the change of a ref it is in (compare and swap, set, add, remove, set a symbolic
ref), `real` the ref at the end of the chain, `cache` what a process remembers
of packed-refs.  `Kill` stops a process anywhere.

`ObjectGraph` is what refs lead to: commits, trees, blobs and tags, the closure
of a set of them, and `MissingObjects`, the difference that `object_store.py`
computes for a pack.  `Fetch` has both sides of upload-pack with the lines under
way between them (`up`, `down`), for the three kinds of acknowledgement; by HTTP
each request is answered as a whole, and a local repository is asked by calls,
which read its refs a second time when the objects are there (`ReadAgain`;
`moved` are the refs that differ).  A pull goes into the branch named `into`,
which need not be the one that is pulled; `unsent` are the refs that were set to
a value the client had not asked for.  `ShallowFetch` is a fetch of some depth
as a function: what the server answers to the border of the client
(`ShallowRequest`), what it sends with the tags that belong to it
(`FetchObjects`), and what a repository with a shallow file sees of its history
(`Seen`).  `History` puts it beside `Fetch` and `RevisionWalk`.

`Push` has both sides of receive-pack for two clients; setting one ref is one
step, because `GitRefs` has what is inside.  A local push sets them itself, and
raises when one moved or is locked (`SetLocal`, `LocalLocked`).  `PktLines` is
what the lines and the pack go through: the buffer of `ReceivableProtocol`, the
sideband, the buffered writer and the parser of lines, and `PackStreamReader`
with the trailer it holds back.  Its functions take what the connection delivers
as an argument, cut into pieces of any size.

`PackStore` keeps for each pack its two files apart (`idx`, `data`), as they
come and go one after the other, the lock under which an index is written
(`idxLock`; `LockIndex`, `WriteIndex`, `UnlockIndex`), and for each process the
packs it knows (`packCache`, `bypath`), the files of them it has open
(`opened`), and the time it looked (`stamp`).  `contended` are the packs whose
files two jobs wrote at once, or one without finishing, and those where a job
met a lock that was not its own.  A lookup that finds data and index apart
raises, and the next one in that process takes them as they are ("misread").
`DeltaChain` is the order in which `DeltaChainIterator` takes the entries of a
pack, over external bases too, and what completes a thin pack.  `PackFile` is
what stands in the files: the index of both versions with its fan-out table and
the search in it, deltas made and applied, the headers of objects, and the
choice of bases for a new pack.  Both are pure functions, checked over all small
inputs.

`Dulwich` has the constants that the modules of one repository share,
`TreePaths` what `Worktree` and `TreeDiff` do: paths in directories in
directories, and trees.  `Worktree` has files, index and HEAD; `add`, `remove`,
`commit`, `reset` and `stash` look at one file per step, while the user changes
files.  `DirLinks` are the links to a directory.  `Status` adds
`porcelain.status`, which reads the index, HEAD, the index again, then each
file, then each directory, while all that goes on; `alike` and `unlike` are the
files that were as in HEAD, or were not, all the time since it began, `crossed`
says whether the index was written between its two readings.  `TreeDiff` is
`tree_changes`, the conflicts of a merge, `RenameDetector` with the similarity
of two contents by their blocks, and `commit_tree_changes` over the same trees.
`RevisionWalk` is `_CommitTimeQueue` and `Walker` as functions of includes,
excludes, times and the clocks of the committers.

`SpiFlasher_proofs`, `ConsoleApp_proofs`, `InternalFlash_proofs` and
`Fetch_proofs` hold the proofs about the modules they are named after;
`Host_proofs` those about `HostFlasher`, `Regression` and `BuildArtifact`,
`Repository_proofs` those about `GitRefs`, `PackStore`, `Worktree` and `Status`,
`Push_proofs` those about `Push` and `DeltaChain`.  `ObjectGraph_proofs` has
besides those about `ObjectGraph` what all of git needs: induction over numbers
and what a recursive function computes.  The modules that begin with `MC` give
the constants for TLC.

## The runs

| Run | Asks | Bounds |
|---|---|---|
| `spi` | writes verified, writes and erases confined, the contract of a call, every call returns | two calls, 8 bytes of one bit in 2 sectors of 2 pages, buffer of 3, nine ranges, three of them behind the flash (one ends at 0xffffffff, one overflows when it is rounded), `Word` of 24, faults of chip and driver |
| `console` | EasyErase clears and is confined, only detected flashes change | 3 calls or loads, one flash for each bus, two flasher versions, `Word` small enough to overflow |
| `host` | jobs tell the truth, chunks on borders, other blocks kept, every job ends | one job, also on an SD card, on every possible contents of 4 cells in 2 blocks, ranges behind the flash, buffer 3, alignment 2 |
| `host_iserased` | finding | as above |
| `iflash` | Flash and Erase true when OK, answers about the named area, only that area changed, padding keeps the rest once the part is selected, every call returns | 4 calls on an info page, on two main arrays in a row and on no device; arrays of two pages, one-bit bytes, faults and resets |
| `regression` | verdicts, archives | two campaigns of four tests on a large and a small memory, two interfaces, 2 faults, logs that stay among them |
| `build_artifact` | what is installed can be used, a run without faults gets past leftovers, version id | 3 runs, two versions, six hosts, three orders of members, tools unpacked half, four working copies, 2 faults |
| `refs` | no update lost, commits kept, no lock left | 2 processes, 2 branches, HEAD and the stash, 4 commits, 3 operations, one process killed |
| `fetch` | refs complete, undisturbed calls succeed, calls end; log and shallow history right | three transports, 5 commits that fork and merge, a tree that comes back and a tag; 2 fetches, 1 push, 1 fault; every clock of 0 .. 2; depths 0 .. 4 |
| `push` | server complete, success took effect, pushes end; streams arrive | 2 clients, 2 pushes, 1 fault; reports and packs cut into up to 4 pieces |
| `packs` | nothing lost, files match, found unless moved; packs readable | 2 processes, killed anywhere, 2 objects, 3 jobs; every pack of up to 3 entries, index of up to 3 of 6 names, deltas of up to 6 bytes |
| `worktree` | status tells the truth, reset and stash keep files, diffs right | 5 paths, a directory in a directory, links that dangle and links to directories, 2 calls or statuses, 1 edit by the user, contents of 6 bytes in blocks of 4 |

Each property has a mutant in `PROJECT.json`, a plausible mistake in one
definition (the operators marked "A mistake"), that TLC finds with the same
bounds.

Why the bounds are enough.  In the flasher the sizes make every border a
different one: two pages per sector, a buffer that is no multiple of a page,
ranges that start and end anywhere, an offset sum that exceeds `Word`; in the
internal flash, ranges inside a page, over pages and over the border of two
controllers, and four calls because it takes two to detect and select a part
and two more to meet it.  One bit per byte is enough because programming,
erasing and comparing treat every bit alike.  One job of the scripts is enough
for a job that is run again: it begins with any contents of the flash, which is
what a job that was cut off leaves behind, and it resets all its variables.

In the git part two actors are what it takes: the code never looks at who else
is there, so that a third process does to the first what the second can do at
another time; `Repository_proofs` and `Push_proofs` show it for any number of them.
Three operations let one process change a ref between two of another.  The
history has a fork, a merge, a tree that comes back and (in `fetch`) a slow
clock, which are the cases the walks treat differently.  The formats are scaled
down with their constants (256 is 4, 2^31 is 2, 8192 is 3) so that numbers of
several bytes, large offsets and short reads occur in small files.  One
exception is `NewPackIsWhole`, which has the sizes of the format, as deltas are
shorter than their target only there.

The bounds `Max...` end the runs; a run that has reached them stops, so deadlock
is not checked where CHECK_DEADLOCK is FALSE.

Properties of pure functions (what a walk lists, what a shallow client sees, what
is read from a pack or a stream) are the same in every state.  `HistoryIsRight`
looks at them in the first states of its run, `StreamsArrive` and `PacksReadable`
in one of them; `DiffsAreRight` looks at the trees that the run has made.

## Fairness

The flasher is one thread that runs until it returns: weak fairness of its steps.
In `SpiFlasher` it is fairness of `Served`, the steps that need no failure of the
driver: a loop that is stuck does not count as left because a read might fail.
In `HostFlasher` the script runs on and every call returns; the first is the same
argument for the Lua interpreter, the second is what `CallReturns` shows for the
serial and the internal flash.  In `Fetch` and `Push` each client and each handler
goes on while it can: a process that is not killed is scheduled, and a read that
has something to read, or finds the end of the stream, returns.  Nothing is assumed
of other clients, of faults and of what comes first.  The other modules have
safety properties only and no fairness.

## Findings

  * `host_iserased`: the isErased job of `cli_flash.lua` loses its answer in a
    shadowed variable (line 669), so that the last check of the flasher test
    (`flasher_test.lua:41`) cannot fail through this interface.

Other places where the code is odd are in the models as the code has them; the
properties say where they do not claim anything.

  * `main.c:905` says the offsets are checked to be "within the size"; a Flash
    request is checked by its size alone (line 932), 0xffffffff and any end of
    GetEraseArea pass (925).  Data behind the end of a serial flash is programmed
    from its start on.  `WriteConfined` and `ServiceSpec` are about the cells that
    such a request selects, the wrapped ones included.
  * `internal_flash_maz_v0.c:1005` copies the old contents of a page before line
    1018 selects the part; right after a detection of another part a Flash that
    starts inside a page merges bytes of that part.  `cli_flash` checks with
    isErased first, which selects.
  * `flasher.lua:723` says eraseArea erases "only if it isn't empty"; a check that
    fails looks like an area that is not empty (line 662).
  * `class_logfilemanager.py:78` says the folder is emptied; the failure of
    `os.remove` is logged and nothing else (lines 98 to 102), so that a log that
    stays goes into the next archive.  `ArchiveIsOwn` allows exactly those logs.
  * `jonchkihere.py:345`: of a tool that does not start, only CalledProcessError is
    caught.  A run that is killed between the contents and the mode of the tool
    leaves one that raises OSError in every later run, until somebody removes
    the folder (`HalfTool`, which `UndisturbedInstalls` leaves out).
  * `file.py:172-183`: after the rename of a lock file it is removed once more, by
    its name, when it may be the fresh lock of another process.  Then two of them
    compare and store at once, and an update is lost.  `SwapLosesNoUpdate` and
    `CommitsKept` leave out the refs this has happened to (`robbed`).
  * `repo.py:273-276`: `Repo.fetch` returns the refs as they are after the objects
    were added, not those whose objects it has added: a push in between, and a
    ref is set to a commit that was not sent.  `RefsComplete` leaves out those
    refs.
  * `porcelain.py:820-828`: a pull looks up the name of the local branch among the
    refs of the server, and sets HEAD to what it finds or raises KeyError.
  * `client.py:1007`: a local push tells progress a str, which raises TypeError, when
    a ref was not set; refs after it are not tried.
  * `object_store.py:663-671`: a thin pack renames its data before it takes the lock
    of its index.  A process killed while it had that lock leaves it for ever; the
    next thin pack of the same name replaces the data and raises, so that data
    and index are of two packs.  `FilesMatch` and `NothingLost` leave these packs out
    (`contended`).
  * `pack.py:1898-1902`: the data is kept before it is compared with the index, so
    the ChecksumMismatch is raised once and the next lookup reads on.
  * `porcelain.py:847-850`, `894`: status reads the index twice; a changed file
    that is added in between is in none of its lists.  `StatusTruthful` leaves
    out what is missed when the index was written between the two readings.
  * `porcelain.py:870-884`: links to directories are not reported as untracked.
  * `refs.py:625`, `629`: a ref whose packed line could not be removed, or was never
    read, is seen again with its packed value.
  * `server.py:362`: a fetch of something with nothing to send ends without an
    answer, and the client (a pull that is up to date) fails.
  * `repo.py:337`: the haves of a shallow client count as if it had all that is
    behind them when no border moves; it then is not sent what it lacks.
  * `server.py:930`: what set_if_equals returns is not looked at; of two pushes
    that race both are told ok.
  * `walk.py:193`: with more than `_MAX_EXTRA_COMMITS` commits of the same second,
    or wrong clocks, a log lists commits that are excluded.
  * `diff_tree.py:562`: a broken modification that is not joined again is reported
    as a delete and as a modify; line 247: merges of three parents.
  * `protocol.py`: `BufferedPktLineWriter.flush` resets `_len`, not `_buflen`, so
    that after the first flush lines are buffered less and less (none is lost);
    `ReceivableProtocol.read(0)` asserts, which an empty pkt-line would meet.
  * `object_store.py:1216`: `commit_tree_changes` fails when a directory becomes a
    file.
  * `pack.py`: an empty delta passes for the one of nothing to nothing; an empty
    stream passes for a pack of nothing.

## The proofs

All of them hold for every value of the constants that satisfies the named
assumptions.  What these say:

  * flasher (`GeometryAssumption`, `EnvironmentAssumption`, `BoardAssumption`,
    `SectorAssumption`, `SizeAssumption` and `HostAssumption` of `InternalFlash`):
    any page, sector, buffer and flash size with sectors made of pages.  They alone
    cover the refusal to write with a shared buffer that is smaller than a page:
    the run has room for one,
  * scripts (`HostAssumption` of `HostFlasher`, `BlockAssumption`): 0xffffffff is
    more than the size of the flash, the buffer holds one aligned chunk, and erase
    blocks, of any sizes, part the flash,
  * regression test (`MemorySizeAssumption`, `CampaignsAssumption`): memories and
    test data are not empty, and a campaign is a finite sequence of test methods,
  * packaging (`PackageAssumption`): an archive from the servers has all the
    parts of the tool or has a name outside of its folder, and the values that
    stand for nothing are no versions,
  * object store and working tree (`PackStoreAssumption`, `TreePathsAssumption`,
    `WorktreeAssumption`, `DeltaChainAssumption`): the repository begins with any
    loose objects, packs and trees, a path has one directory, deltas by offset go
    back, and no delta is made of itself,
  * git (`GraphAssumption`, `KindsAssumption`, `FetchAssumption`, `PushAssumption`,
    `NamesAssumption`, `NoneAssumption`, `BoundAssumption`): any number of processes,
    clients, refs and objects, any history.  An object is of one type, HEAD and
    heads are commits, and the value None is no object, ref or commit,
  * log and shallow history (`WalkAssumption`, `ShallowAssumption`): finitely many
    commits, no circle in the history and none in the tags, as an id is a hash of
    what the object names, and clocks with natural numbers; they need not be right.
    That there is no circle is what lets the turns of the topological order end
    with every commit listed; the other properties of git do not need it.

| Module | What is proved (the runs' properties by name) |
|---|---|
| `SpiFlasher_proofs` | `TypeOK`, `FlashedIsVerified`, `WriteConfined`, `EraseConfined`, that every step is one of `FlashService` (`ServiceSpec`), and more of the single operations |
| `ConsoleApp_proofs` | `TypeOK`, `EasyEraseClears`, `EasyEraseConfined`, `OnlyDetectedChanges` |
| `InternalFlash_proofs` | `TypeOK`, `OkMeansDone`, `OnlyTheNamedArea`, `AnswersAboutTheArea`, `FlashKeepsTheRestOnceSelected` |
| `Host_proofs` | `JobsTellTheTruth`, `ChunksOnBorders`, `OtherBlocksKept`; `VerdictIsRight`, `ArchiveIsOwn`; `InstalledIsUsable`, `UndisturbedInstalls`, `VersionTellsTree`; the types of the three modules |
| `Repository_proofs` | `SwapLosesNoUpdate`, `CommitsKept`, `NoLockLeft`; `NothingLost`, `FilesMatch`, `FoundUnlessMoved`; `StatusTruthful`, `CallsKeepFiles`; the types of the four modules |
| `ObjectGraph_proofs` | what `Fetch` and `Push` rest on: enough is sent |
| `Fetch_proofs` | `RefsComplete`, `UndisturbedSucceeds`, `HistoryIsRight` |
| `Push_proofs` | `ServerComplete`, `SuccessTookEffect`; `ThinPacksReadable`, a part of `PacksReadable` |

`SpiFlasher_proofs`: the invariant `IInv` says, for each label, which mode the
call has, that the counters lie on their borders and in the range (`Position`,
`Looping`), and what the loop has reached so far (`Progressed`): the bytes below
`addr` are programmed, equal, read, hashed or blank.  It is needed because the
properties speak only of the return, where the counters are all that is left of
what the loop has done.  The range may reach behind the flash, where its bytes
are wrapped cells (`Cell`); no two of them share one, as no request with data is
longer than the flash (CellsApart), and a page that starts on a border does not
run over the end (CellsInOrder, CellOnBorder).  An end of 0xffffffff overflows
when it is rounded up, and little is left to erase (EraseOverflow).  Each action
has a lemma on its effect.  From `IInv` and these lemmas every step of
`SpiFlasher` is a call, work or return of `FlashService` (Refinement).

`ConsoleApp_proofs`: the invariant relates the device description to the history
variable `found`, and `req` to `asked` through the three steps of EasyErase.
EasyEraseClears needs that every widened area covers what was asked, for four
ways to widen it.  EasyEraseConfined needs more: not only that the area covers
the range but that it is the widened range of the host, computed once
(`Stretched`), since the parameter block it is kept in is the one that the
operations change.

`InternalFlash_proofs`: a page or a block that starts in the area lies in one
section at consecutive cells (`InPlace`), so that writing it changes exactly its
own offsets (`PutOwn`), also where the area goes over to the next controller.
The invariant (`Progress`) says that the range of a running loop is inside the
area, that the offset is on a border or at the end, and that all bytes before it
are written or blank.  The range check happens when the call starts and the
writes many steps later, so OnlyTheNamedArea needs it too.  For
AnswersAboutTheArea the answer is compared with the window at the step that gives
it, behind one controller (`LooksAtTheArea`: the window then shows the area), and
a call that has not ended has no answer (`Silent`).

`Host_proofs`, the scripts: they know of the flasher only the contract of a call.  The
invariant says, for each answer the script may wait for, which request it made
(`Asked`), which bytes it knows to be done or collected (`Known`), that the area
to erase covers the range and lies in touched blocks (`AreaRight`; the area of a
range that does not fit ends behind the flash too or is empty), and, in `Told`,
what an OK means: nothing changes the flash between the return of a call and
the step of the script that looks at it, and this is where that is needed.
For archives `Earlier` says that the files before the current one are in the
flash unless a later one shares a block with them.  That a script works on a
range inside the flash (`Fits`) follows for cli_flash from its own comparison; wfp
compares nothing, but it has asked isErased before, which `check_params` refuses for
a range behind the flash unless it ends at 0xffffffff, and no file ends there.

The regression test: `TestsInvariant` follows a failure from the command through
the list of return values (`Counted`), the list of error counts that all runs
share and the summary of its run (`Summarised`) to the verdict of the method
(`Noticed`); the places differ in each `stage`, and the list is shared, so that a
count is right only because each run adds its own before it looks at the last.
The other direction needs `Green`: on a board without faults each command finds
in the memory what the commands before it left, for every order of the tests.
For the archives, a log in the folder is of the running test or is one of those
that an exception or a failed removal left there (`Foreign`).

The packaging script: `PackageInvariant` says what the folders hold at each phase.
A folder that a killed run has half unpacked is the danger; `Looked` says that an
archive is unpacked only after the tools of this version were looked for and
found wanting, `Unpacking`, which members of the archive are in the folder so far
and that the tool among them is of this archive.  UndisturbedInstalls follows: what
an earlier run left is written over, or it is whole, or it is a tool unpacked
half, which a tar leaves without its mode.

`Repository_proofs`: `Locked` says which locks a process holds at each place of
an operation unless another process has removed them, and that every lock file
is of a process that will give it back or was killed; `Whole`, that a file is
whole unless a lock of it was taken away: it is written before it is renamed.
`Remembered` says that each value a process remembers of packed-refs is still
there or was taken out since, and that a process that writes packed-refs
remembers all of it, as long as its lock was not removed either.
SwapLosesNoUpdate is not inductive without them: the value that was compared may
come from that memory, and it is the lock of the loose file, where nobody
removed it, that keeps others away until the rename.  CommitsKept rests on
SwapLosesNoUpdate.  A commit that is reported stays in the history of its ref
because each commit that replaces another has it as first parent (`Building`),
because add_if_new only writes where nothing is (`Adding`), and because nothing
counts as kept on a ref that is being taken out (`Emptied`).

The object store: `PacksInvariant` keeps apart what is in the directory and what a
process knows of it.  For the directory: only one job is between the two files of
a pack and finds there its own or none (`OneWriter`, `OwnFile`), so that each pair is
of one job, unless two were there at once, one was killed there or met a lock of
the index that is not its own (`contended`); a repack removes a pack only
when its objects are in the new one, and loose files only when they are in a pack
that has both its files (`Repacking`), so that what was stored stays (`Kept`).  For a
process: the packs it remembers are those of the directory at `stamp`, or the
directory has changed since (`Known`, `Timed`), and while it looks, what was there
when it began is in a loose file or in a pack it will still come to, unless it was
moved (`Found`).  FoundUnlessMoved alone is not inductive: it speaks of the end
of a lookup that has looked at loose files, packs and packs again, at other times.

The working tree: `Rooted` says that what is there lies in directories, which
reset and stash need to put a file where a directory was, and `Restoring` and
`Stashing` that the files they have passed are as they should be, as long as
nobody else changes anything; a file that is put back must not take away one
that was put back before, which holds because the paths of a tree are `Proper`.

The status: `SeesAlike` says that what was as in HEAD all the time is as in HEAD in
the index that the status has read, whichever reading that was, and was not
listed.  `SeesUnlike` follows a file that was not as in HEAD: with no write between
the two readings it is staged in the one or changed in the other, or in no
index, and then in a directory that is still to be walked.  That the walk comes to
it is shown along the way from the file up to the top, as directories are in
directories.

`ObjectGraph_proofs`: histories, closures and walks are least closed sets
(`Reached`), so that a fact about them is shown by naming one closed set, without
induction.  MissingObjectsSuffice: let the receiver hold a complete set of objects
that has those haves which the sender knows; with what the sender leaves in the
pack it is complete again and has the wants.  The walk may stop at any commit
that is reached from a have, and leave out what lies below, because all of it is
held.  Where induction is needed, `Counting` gives it from the least number that
a set lacks; `Recursion` shows that a recursive function exists, and so that what
CHOOSE takes in its definition satisfies its equations; `GrowsToTheEnd`, that sets
which grow step by step have stopped after as many steps as there are members.

`Fetch_proofs`: `held` is the store of the client.  The invariant describes the
shape of what is under way on both lines: every have is of a commit of the
client (`Asking`), the answers are the ones the client reads where it is, in
their order (`Answering`), the pack is enough for the wants and is whole when
the flush comes (`Packing`), and refs are set to what was told or asked, or have
moved between the two readings of a local fetch (`Importing`).  `Owns` has this
for the refs that are set (`Sent`): what they lead to is there.
UndisturbedSucceeds needs in addition that neither side has left while the other
waits for it (`Going`), in each of the places of the two.

`HistoryIsRight` is proved in three parts.  For the log, `Sensible` holds after every
turn of the walk: what was seen is in the queue or was looked at (`Visited`); only
what is excluded is marked, and the parents of marked commits that were looked at
are marked too (`Excluding`); the entries are commits that were not marked when
they were looked at, each once (`Listing`); a walk that gives up has only marked
commits in its queue, or has met one that is too old, and has taken the extra turns
(`Ending`).  With clocks that are right, `Younger` adds that commits come youngest
first and that all excluded commits are marked or behind a marked one in the
queue, so that none is entered before it is known to be excluded.  In a history
that is not longer than the extra commits none is handed out too early (`Short`),
and all was looked at when the queue is flushed.  These are the cases of
`LogListsNews`.  For the order, `Orderly`: listed commits come after their children,
and one that waits has a child that is not listed; each turn lists a commit or
finds one that must wait, so that twice as many turns as entries are enough
(TopoReordered), and commits that still waited would form a circle.  For shallow
fetches, `Bordered` says what the border of a depth is: the commits inside lead
only to others inside or to the border, and nothing smaller has the wants and is
closed like this.  A walk that stops there meets exactly these commits (CutIsIn),
whatever other borders the client has, as the fetch takes away those inside.

`Push_proofs`: `Talk` says how far the client and its handler are and what was sent;
`Held`, that the server has what the values need that it told to any client, and
those it is about to set: objects are never removed, so what one client was
told stays good while another one pushes.  `Settled`: a ref that differs from what
the client was told was changed by its push or by another one, and what is no
longer to do was done or was too late.

`ThinPacksReadable` is there too: what `Follow` finds is the least set of places
closed under "hangs on" (FollowIsLeast).  `Walked`, by induction over the external
bases, says that the walk has taken only what hangs on something known and has
passed nothing by; so all places are done exactly if the pack is sound, which is
said without any walk.  The completed pack is the pack with the bases behind it
(CompletedIsExtended).  Reading it back finds a fixed point after as many steps as
it has places (ResolvesIsFixed), and a place that were not read would have a base
that is not read, and so a circle.

Trying to prove them has changed some things in the models.  Two steps that
`Fetch` has for the last answer overlapped.  `HostFlasher` took an empty file of an
archive for the end of the job, where wfp goes on with the next one; and it
assumed that files of an archive lie inside the flash, which nothing in the
scripts checks, and nothing has to.  `BuildArtifact` had archives of three members
only; now they are any sequences.  `DeltaChain` took for granted that deltas by
offset go back and that no delta is made of itself; both are assumptions now,
and the second is needed: the order in which objects are sent does not rule it
out.  `RevisionWalk` and `ShallowFetch` took for granted that histories and tags have
no circles, and the clients of `ShallowFetch` now include those whose first fetch
asked for tags.

Only model-checked:

  * liveness (`CallReturns`, `JobEnds`, `CallEnds`, `PushEnds`), which is beyond
    the prover,
  * `StreamsArrive`, `DiffsAreRight` and, but for thin packs, `PacksReadable`:
    `PktLines`, `TreeDiff` and `PackFile` are written with RECURSIVE operators,
    as buffers, trees and deltas are taken apart by where the last piece ended
    and not by a number; the prover cannot reason in modules with such
    operators.

## Not modelled

Of the modelled parts:

  * the command protocol of the SPI driver, the two command sets of parallel
    flashes, CFI, the sector buffer of SD cards and the macros: an operation of
    these is one step that may fail; registers and timing are most of that code,
  * `HostFlasher`: an SD card of 4 GB and more, whose size is 0xffffffff,
  * `Regression`: a campaign starts with empty folders; a removal that fails when the
    log manager is made or in the folder of the archives,
  * `GitRefs`: the reflog, the bound on the depth of symbolic refs, the rename of
    Windows (remove, then rename),
  * `Fetch`: no-done, pull of an annotated tag, flush lines between haves, and what
    SSH, TCP and urllib3 do; `ShallowFetch` has no chains of tags, and no server
    that is shallow itself,
  * `PackStore`: index and data of a pack are opened in one step, bases outside a
    thin pack are looked up in one step, a loose object is written in one step, the
    time of the directory has the grain of `clock`; alternates and .keep files are
    left out; `PackFile` leaves out CRCs, compression and checksums,
  * `Push`: hooks, quiet; setting one ref is one step,
  * `Worktree`: the index is written in one step; ignore rules, submodules, file
    modes, links in the path of a file (a link to a directory is only where nothing
    else is looked for below) and the limit of files of the rename
    detector are left out,
  * `RevisionWalk`: paths and follow, max_entries, reverse and tags; commits of
    equal time come in any one order; three extra commits instead of five.

Whole components are listed in `PROJECT.json` with status `not_modelled`: drivers
of controllers and boards, build scripts and data bases, parsing of configuration,
ignore rules and mailmap, import and export formats, archives and patches, hooks,
logging and caches, other storages and transports, generated tables.
