# saps-scripts: specifications, model checking and proofs

saps-scripts holds the scripts and programs that a SAPS deployment runs for one
satellite image: an *input downloader* fetches the scene and the data of a
weather station, a *worker* computes energy-balance products from them with the
SEBAL algorithm in R. The worker brings the sources of GDAL 1.10.1, which its R
packages and tools read, cache and warp rasters with. This directory holds TLA+
modules translated from that code, the TLC configurations that check them, and
proofs checked by TLAPS.

Paths below are relative to `src/`; `D` stands for
`input-downloader/ufcg-default`, `W` for `worker/ufcg-default`, `G` for
`W/gdal-1.10.1`, and the Java packages of each are left out.

1. [The system](#1-the-system)
2. [Modules](#2-modules)
3. [Runs](#3-runs)
4. [Disagreements found](#4-disagreements-found)
5. [Proofs](#5-proofs)
6. [Not modelled, and abstractions](#6-not-modelled-and-abstractions)
7. [Plan](#7-plan)
8. [How to run](#8-how-to-run)


## 1. The system

### Components

| Component | State it keeps | Operations | What makes it correct |
|---|---|---|---|
| External calls of the downloader (`USGSNasaRepository.executeProcess`, `getProcessOutput`, `runGetStationData`, `unpackTargz`, `searchForImagesInRange`) | a child process and its two pipes | start, wait, read | the caller gets all the program has printed; the call returns when the program can end |
| Input downloader, `USGS.jar` (`Main`, `USGSController`, `USGSNasaRepository`, `MetadataUtilImpl`) | storage directory: tarball, scene, `_MTL.txt`, station file; metadata directory: `inputDescription.txt` | configure, log in, search, get a link, download, unpack, get station data, write metadata | a retry never uses or spoils what it should not |
| Station script (`D/get-station-data.sh`, `PreProcessMain`, `RWrapper`) | `<image>/<image>_station.csv`, `<image>_station.csv` | run PreProcessMain, move, remove, append a blank line | the worker's path is valid; data is not lost |
| Station selection (`WeatherStation`) | the records of one station | read, three filters, interval of hours, validation | the nearest station that covers the day is chosen; what R reads of it makes sense |
| Station operators (`FTPStationOperator`; `SwiftStationOperator` is not used) | `/tmp/<year>-stations.csv`, `/tmp/<year>/` | list stations, download, unpack, parse, delete | data of this search's own download only; a search that finds a station leaves nothing behind |
| Worker script (`W/bin/run.sh`) | sandbox: `dados.csv`, `/mnt/rasterTmp`, `/tmp`, collectors; task: output and metadata directories | the eight functions called from its line 168 on | each run processes its own image; success leaves products |
| R attempts (`W/scripts/executeRScript.sh`, `W/workspace/R/Algoritmo_29112017.R`) | the nine `.nc` products | raw writes, rewriting, time limits, exit status | exit 0 stands for complete products |
| Usage collectors (`W/scripts/collect-*-usage.sh`) | two endless processes | started and killed by run.sh | they stop with the run they belong to |
| Warper of GDAL (`G/alg/gdalwarpoperation.cpp`) | chunk list, two slots of threads, two mutexes, a condition | cut the region, start, join, read, warp, write | each pixel is written once; no thread outlives the call; the call returns |
| Raster block cache of GDAL (`G/gcore/gdalrasterblock.cpp`, `gdalrasterband.cpp`, `rasterio.cpp`) | one list of all blocks, their locks and contents, the bands' tables and errors | get, lock, touch, evict, write back, drop, flush | a block in use is kept; nothing written is lost without an error, but for two gaps; the cache is bounded |
| Image partitioning (`BulkHelper`), scene geometry (`SEBALHelper`), SEBAL numerics (`landsat2.R`), deployment scripts, `fake-timeout-run.sh`, `ProcessUtil`, pre-processing phase, the rest of GDAL | | | not modelled, see section 6 |

### Interactions

* `Main` → `USGSController` → `USGSNasaRepository`: calls; any class may end the
  program with `System.exit`.
* downloader → `curl`, `tar`, `get-station-data.sh`: child processes with pipes.
* `get-station-data.sh` → `PreProcessMain` → `RWrapper` → `SEBALHelper` →
  `WeatherStation` → `FTPStationOperator` → `wget`: a process, then calls.
* search ↔ search on one machine and network: files under fixed names in `/tmp`,
  and one debugger port that every JVM of the script is started with.
* downloader → worker: files in the storage directory. `getFileNames` of
  `run.sh` derives all paths from the directory name; nothing is checked.
* `run.sh` → R: `dados.csv` beside the R code, one row with all paths.
* `WeatherStation` → R: the station file; R applies its own rule to pick a record.
* run ↔ run on one machine: everything in the sandbox, without a lock.
* GDAL threads ↔ each other: a thread that needs room in the cache writes and
  frees blocks of other threads' datasets; the two threads of a warp take turns
  in the datasets and in the computation.

### What is hard

* **Concurrency.** Runs of several tasks interleave in one sandbox, searches in
  one `/tmp`; a child and its caller wait for each other through bounded pipes;
  threads evict each other's blocks, and hand slots, mutexes and a condition to
  one another.
* **Failure.** Scripts exit in the middle and skip their own cleaning; R is
  stopped between two writes of a file; a download breaks off; a container is
  killed; a machine restarts; the write of a block fails in a thread that has
  nothing to do with its dataset.
* **Ignored statuses.** `curl`, `tar`, `wget`, `mv`, `java` may fail unnoticed.
* **Retries.** R is tried again over what a failed attempt left; the downloader,
  the search and `run.sh` are started again in directories with old files.
* **Numbers.** Java's remainder of a negative hour, an index loop that removes
  from its own array, the cut of an interval and of a region into two parts, two
  different rules for "the hour of the scene".

`PROJECT.json` lists these one by one, at their lines, under `hazards`, with the
properties that cover them.


## 2. Modules

| Module | What it is | EXTENDS / refines |
|---|---|---|
| `ProcessCall` | abstract: what a caller may rely on | |
| `ProcessPipe` | a caller, a program and two pipes | implements `ProcessCall` |
| `InputDownloader` | several invocations of USGS.jar in one storage directory, with `get-station-data.sh` | |
| `StationFiles`, `MCStationFiles` | the files of several searches for a station in one `/tmp` | |
| `StationSelection`, `MCStationSelection` | `selectStation` and the record R picks | |
| `OutputContract` | abstract: what run.sh relies on from `executeRScript` | |
| `WorkerOutputs`, `MCWorkerOutputs` | the nine products through attempts and runs | implements `OutputContract` |
| `WorkerRun`, `MCWorkerRun` | runs of several tasks in one sandbox | |
| `WarpCall` | abstract: what a caller of the warper relies on | |
| `ChunkAndWarpMulti` | the warper with its two threads | implements `WarpCall` |
| `RecencyList` | abstract: a list of blocks by recency | |
| `RasterBlockCache`, `MCRasterBlockCache` | the block cache under several threads | its four pointers per block implement `RecencyList` |
| `<Module>Proofs`, eight of them | theorems about each of the detailed modules | the module |

Definitions whose names end in `_Something` and are preceded by the word
*Mutant* are not part of a model. Each is a plausible bug; exchanged for the
definition after it, it makes one of the properties fail, so the property says
something about that code. `PROJECT.json` lists the pairs under `mutants`. Under
`map` it gives the lines of each definition.

### ProcessPipe

Four call sites start a child with a `ProcessBuilder` that redirects nothing.
`parent` is the thread of the call site, `child` the program, `toWrite` and
`buffered` count units of output (say, blocks) on each stream. `size` is chosen
at the start: the module quantifies over programs. `collects` tells
`executeProcess` and the search, which read the standard output, from
`runGetStationData` and `unpackTargz`, which do not. All four wait before they
read: `WaitFor` requires that the program is over, and `Read` comes after it. A
program is over when it has come to its end (`End`), which needs all its output
in the pipes, or when it has broken off at any moment (`BreakOff`). The exit
status is never looked at, so the caller cannot tell the two apart.

### InputDownloader

`pc` goes through the steps of `Main`, the constructor of `USGSController`
(`Configure`, `Login`, `GetImageName`, `GetDownloadLink`), `downloadImage`
(`DeleteOldTarball` to `GetCollectionTierName`), the three effective commands of
the station script, and `saveMetadata`. Each exit status of the code is the
`Exit` of an action. `Begin` starts a further invocation, for the same image or
another, over the files as they are; `Kill` may come between any two steps. A
file remembers by which run it was written (`by`), so that properties can tell a
leftover from the work of the current run. The server's answers, what `tar`
unpacks and what `PreProcessMain` finds are nondeterministic. A download that
`copyURLToFile` takes for finished is the whole tarball, a damaged one, or another
document (`Documents`); `UnpackStarts` begins to write over the scene with either
of the first two, and with a damaged one `UnpackFails` is all that can follow.

### StationFiles

The searches that `get-station-data.sh` starts on one machine, each with the
year of its scene. A file is absent, a part, whole or malformed, and remembers
the search that began it. `BeginList` and `BeginStation` are the moment `wget
-O` truncates its file, `EndList` and `EndStation` the end of the download, at
whatever point; the exit status is not looked at. `ReadList` deletes the list
again, `NextStation` makes the directory of the year and deletes an older packed
file of the station. `UnGzip` writes the text file beside the packed one, which
it deletes, or fails (`UnGzipFails`) and leaves both. `ReadStation` deletes the
directory of the year with everything in it; `Accept` and `Reject` are the
verdict of `selectStation`, whose loop goes on with the next station after a
failure too (`GiveUpStation`). `StartSearch` takes the debugger port 4000 of
`get-station-data.sh:21`, `PortRefused` is the JVM that cannot; `Kill` stops the
machine or container with everything in it. `broken` is a history variable: the
stations of which this search got no whole file. The two directories of
`sebal.conf` are both `/tmp`, so all searches of a machine share them.

### StationSelection

One scene (hour, minute) and up to `MaxStations` stations, nearest first.
`ReadRow` builds the records of one station, row by row; `TemperatureTurn` and
`WindTurn` are one turn each of the filter loops, with the removal at the loop
index and the `i--` of the code; `AddHour` is one turn of the loop of
`getHoursInterval`, with the remainder of Java (`JavaRem`) and a heap that holds
`HeapHours` elements; `Choose` and `Reject` are the outcomes of
`validateStationData`. Temperatures and wind speeds are in tenths; a missing
value is 9999, which is what the operator makes of it (999.9), because the text
`99999` it compares with never fits the field it compares (4 characters).
`removeNonRepresentativeRecords` removes nothing from what the FTP operator
answers, since each of the needed fields of a record is a non-empty text there.
`SceneRecord` is line 215 of the R script: the first record at the least
distance. `Usable` and `Acceptable` are the reference definition: what is
expected of the selection, written without loops and indices.

### WorkerOutputs

One output directory. `Writes` is the program order of every write of one R
process: the raw layers, the same layers rewritten in *another* order (lines 302
to 415 of the R script), the two products of phase 2 raw, then rewritten.
`OpenFile` truncates, `CloseFile` completes. R may end between any two of these
steps: by an error or a kill (status 1), or by a time limit (124), which does
not cover the rewriting of phase 1 (`Timed`). `Prepare`, `Retry`, `GiveUp`,
`Succeed`, `CleanRasterEnv` and `GenerateMetadata` are `run.sh`. The steps
before and after the tries may fail (`PrepareFails`, `CleanRasterEnvFails`,
`GenerateMetadataFails`), and `checkProcessOutput` then ends the run with status
1: before R has started, or over the products of a try that has succeeded.
`StartAgain` is a further run in the same directory. `OutputContract` abstracts
the directory to "usable or not".

### WorkerRun

Several tasks, each with its own directories, and one sandbox. `dados` is the
file as a sequence of lines, `scratch` the two temporary directories,
`collectors` the background processes, with task and run of origin. Each command
that changes the sandbox is an action of its own, so runs interleave between the
truncation and the append of `dados.csv` (`WriteHeader`, `AppendRow`), between
the test for the raster directory and its removal (`CheckRasterEnv`,
`RemoveRasterEnv`), and so on. `RReads` is the moment R reads `dados.csv`; from
then on it works on `row`, which need not be its own task. The header may be cut
short with nobody looking at the status of that command (`WriteHeaderFails`).
Early exits (`AppendRowFails`, `RFails` with no try left, ...) leave the sandbox
as it is. `Restart` ends every process and keeps every file.

`overlapped[t]` is a history variable: has the current run of `t` ever run
together with another one? No property of the image holds for overlapping runs
(TLC finds a run that processes the image of another task in a few steps, as the
code suggests), so the properties are about `Solo` runs: runs without company, in
a sandbox that earlier failed, interrupted or overlapping runs have left in any
state.

### ChunkAndWarpMulti

`CollectStep` takes windows from `todo`: a window is appended to `chunkList`
(`AddChunk`), left out (`SkipWindow`) or cut in two with the arithmetic of lines
1075 to 1124, with and without `OPTIMIZE_SIZE` (`SplitWindow`); `SortChunks` by
position follows. Whether a window fits into memory is nondeterministic. The
calling thread then goes through the loop of `ChunkAndWarpMulti` (`pc`,
`iChunk`): it fills in a slot and starts its thread (`LaunchThread`), waits on
the condition for the first chunk until that thread has taken `hIOMutex`
(`LockCond` to `SpuriousWakeup`), and joins the thread of the chunk before
(`JoinThread`). The thread of a slot goes through `WarpRegion` and
`WarpRegionToBuffer`: take `hIOMutex`, signal, read, give it back, take
`hWarpMutex`, compute, give it back, take `hIOMutex` again, write
(`ReadChunkInfo` to `ReleaseIO`). Any of the steps that can fail may fail: an
early failure of `ReadInput` keeps `hIOMutex` and ends the thread, a later one
goes on through both mutexes with `threadErr` set; the flush that `WRITE_FLUSH`
asks for may fail with the chunk written. The mutexes and the condition are
those of the pthread build.

### RasterBlockCache

Each thread has a dataset with one band. `Begin` is the next block a `RasterIO`
comes to and how it is used: read, written in part, written as a whole, or, in
the general loop of a write whose buffer has another size than its window
(`Resamples`), another row of a block that was begun (`continue`). A write that
is called looks for the error of an earlier one (`ReportBeforeWrite`), a write
that goes on (`writing`) does not. `TryGet` is `TryGetLockedBlockRef`,
`Internalize` to `EndInternalize` make room: `PickVictim` takes the oldest
unlocked block of the list (`OldestUnlocked`), whose band may be another
thread's, `WriteVictim` writes it or fails to, `DeleteVictim` frees it and
leaves the error with its band. With an error waiting there `Write` writes
nothing and reads the error again for its result (`RereadError`); the owner may
have reset it in between. `AdoptBlock`, `Load`, `UseBlock` and `DropLock` are
the rest of `GetLockedBlockRef` and of its callers in `rasterio.cpp`;
`DropFailed` is the block whose read failed. `BeginFlush` to `EndFlush` are
`FlushCache`. The list is modelled pointer by pointer (`Detach`, `Touch`, with
the ends `newest` and `oldest`). Contents are abstracted to whether a block, and
the file, hold all that the owner has written and was not told to be lost
(`fresh`, `diskFresh`). `dropped` is a history variable: the blocks whose data
fell into one of two gaps of the code, where it is lost without an error. One is
a block that is initialised a second time between two rows of the general loop,
the other one that `Write` drops between its two reads of the error. With
`Resamples = FALSE` the loops of `rasterio.cpp:82-336` come to each block of a
window once, so there is nothing to remember in `begun`.


## 3. Runs

| Run | Bounds | States | Question |
|---|---|---|---|
| `process_pipe` | pipe of 2, output 0..4 on each stream | 1 282 | when does a call return, and with what? |
| `worker_outputs` | 9 products, 2 tries, 2 runs | 123 062 | what do the exit statuses stand for? |
| `worker_outputs_metadata` | 1 run | violation | are all products named? |
| `worker_run` | 2 tasks, 2 runs each, 2 tries, symmetry | 3.14 million | is a lone run safe from others' leftovers? |
| `input_downloader` | 2 images, 3 invocations | 336 206 | what may a retry find and damage? |
| `station_files` | 3 searches for one year, 2 stations, the nearer one not acceptable, symmetry | 605 608 | do leftovers in `/tmp` reach an answer? |
| `station_selection` | 4 hours, 2 minutes, 2 stations, files of up to 4 rows out of 11 | 1.0 million | which station is chosen, and what does R read? |
| `station_selection_sign` | 1 scene, 1 station, 3 rows | violation | are temperatures those measured? |
| `warp_multi` | region of 5 × 3, blocks of 2 × 2, up to 4 chunks | 662 196 | is every pixel written once, and does the call return? |
| `raster_block_cache` | 2 threads with 2 blocks each, room for 2 blocks, symmetry | 1.26 million | is a block in use kept, is anything lost unreported? |
| `raster_block_cache_flush` | the same | violation | is flushed data written? |
| `raster_block_cache_rows` | 1 thread with 2 blocks, room for 1, resampled writes | violation | is what was set row by row ever lost silently? |

**Why the bounds are enough.**
*Pipes:* 0, below, at, above and at twice the capacity all occur, on either
stream.
*Outputs:* nine products and two tries (`MAX_TRIES`), as in the code, which give
each pair of consecutive outcomes; two runs give a directory with old files.
*Runs:* interference is between a run and what is left in the sandbox; two tasks
with two runs each give every pair (same task or other, failed, interrupted or
going on).
*Downloader:* the third invocation meets what the second left of what the first
left, for the same image or the other one. *Station files:* the third search
meets what two failed or killed ones have left, a station before the acceptable
one makes each of them go on after a rejection or a failure.
*Selection:* a station is acceptable with three rows, so four leave room for one
that is to be removed; hour 4 is the last that dies, 5 the first that does not,
23 has its second main hour after midnight. `HeapHours` is 15: the longest list
that ends has 13 elements, and a list that passes 24 never ends.
*Warper:* sides that are and are not multiples of a block, cuts along both axes,
down to windows that cannot be cut; four chunks use each slot twice, so a slot
is taken again after its thread has been joined.
*Cache:* room for half of the blocks, so that each thread evicts the other's,
and has both blocks locked at once when the other one asks for room. Resampled
writes are in the violation run only: with two threads they make some five
million states, too many for a run that is repeated for each property, and the
theorems hold for both values of `Resamples`. (TLC has checked
`OnlyDroppedIsLost` and `ReadsSeeWrites` for one thread with three blocks, room
for two, and resampled writes as well.)
For safety, the theorems of section 5 lift all of these bounds.

**What the passing properties say.**

*process_pipe.* `AnswerIsAllThatWasPrinted`: the caller gets all the program has
printed, which is the whole answer unless the program broke off; reading never
begins too early or stops too soon. A `curl` that breaks off has its prefix
parsed, and one that cannot be started answers with an empty text: the code does
not tell these from an answer. `OversizedCallNeverReturns`: waiting before
reading hangs for good when the output of one stream does not fit into its pipe,
unless the program breaks off. `ImplementsProcessCall`: the refinement, with its
liveness.

*worker_outputs.* `ExitZeroMeansUsableProducts`: all nine files complete and of
one attempt. `FailureIsOfTheLastStep`: 124 is the time-out of the last try,
never of an earlier one; 1 is a failure of the last try, of a step before R has
touched a product of this run, or of one after a try whose products are usable.
`KeepsContract`: refinement of `OutputContract`, with its liveness. A
description of an earlier run stays in `outputDescription.txt` while the next
run rewrites what it names; nothing in the code prevents that.

*worker_run.* For solo runs: R reads the one row of its own task and the removal
of the raster directory cannot fail (`SoloRunIsUndisturbed`); exit 0 leaves the
run's own complete products, and no later run of another task touches them
(`SoloSuccessHasItsProducts`). For all runs: no collector of a task survives a
successful run of it (`SuccessStopsItsCollectors`), although failed runs leave
theirs behind and any run that ends stops those of others.

*input_downloader.* What is unpacked is this run's own, finished download
(`UnpacksOnlyItsOwnDownload`); a complete scene is damaged only by unpacking an
archive of it, whole or damaged, that this run has downloaded
(`SceneIsDamagedOnlyByUnpacking`): a damaged archive, or a `tar` that fails, does
cost an older scene, and the exit status may still be 0; station data never
turns into a blank file (`StationDataIsNotBlanked`); a directory with one scene
has its station file after exit 0 (`SoleSceneHasAStationFile`).

*station_files.* The list that is read is the search's own, and the rows that
are judged are of a whole file it has downloaded itself (`ReadsWhatItFetched`),
although each search works under the same names; the answer is the first
acceptable station of the list that could be got (`NearestReadableIsChosen`); a
search that saves data has left no file of its year (`FoundCleansTheYear`). The
first holds only because of the debugger port, which lets one JVM live at a time
in a network namespace: without it (`StartSearch_NoPort`) TLC finds a search
that reads the list of another one.

*station_selection.* The nearest station whose usable rows cover the day is
chosen, with all of its usable rows (`NearestAcceptableStationIsChosen`). The
record R picks is at most an hour away, except for scenes in the last hour of the
day, and its wind speed is a real one, if the station reports on full hours and
the scene is not on a full hour (`SceneRecordIsUsable`). The search ends, with an
answer, or with the program when the scene is before 05:00 (`EverySearchEnds`).
The conditions are needed, TLC finds a counterexample without each of them: with
rows between the hours, R may pick a row that `windSpeedCorrection` does not look
at; a scene on a full hour whose own row was removed is as far from the row an
hour before as from the one an hour after, and R takes the first; at 23, the
second main hour is 0000, the farthest record by R's rule.

*warp_multi.* Success means that each pixel of the region is in exactly one chunk,
written once, or in a window that was left out (`SuccessWritesEachPixelOnce`):
neither the cutting nor a failing thread nor a slot used again hides a hole. No
chunk is written twice, whatever fails (`NoChunkIsWrittenTwice`); the two threads
are never both in the datasets nor both computing (`SectionsAreExclusive`); when
the call returns no thread is left that could use what is freed
(`ReturnLeavesNoThread`). `ImplementsWarpCall` adds that the call returns.

*raster_block_cache.* A block is not freed while its owner uses it
(`LockedBlockIsKept`). The list is consistent in both directions and contains
every block a band knows (`ListHoldsTheBlocks`). The cache is within its limit
or holds at most one block per thread (`CacheIsBounded`). What was written is in
the file, in a block that will be written, or its loss is an error that the next
operation of its band reports, but for what fell into one of the two gaps
(`OnlyDroppedIsLost`); who uses a block sees all of their earlier writes, with
the same exception (`ReadsSeeWrites`); after `FlushCache` the band has no
blocks, and nothing else is missing except what another thread is just evicting
(`FlushLeavesNothingBehind`). The second gap (`RereadError`) is in the bounds of
this run, the first in those of `raster_block_cache_rows`. The pointers
implement `RecencyList`, whose steps insert a block in front, bring one to the
front or remove one (`ImplementsRecencyList`).

**Fairness.** `ProcessPipe`: weak fairness of the caller and of the program,
separately, none of breaking off; both are threads that the operating system
schedules, a blocked write or wait being disabled, not delayed. `WorkerOutputs`:
weak fairness of R (it computes, fails, or its time limit strikes) and of the
shell; R has a time limit in the code only for the computation, that the rest of
it ends is assumed. `StationSelection`: one thread, weak fairness of `Next`.
`ChunkAndWarpMulti`: weak fairness of the collecting loop and of the calling
thread, strong fairness of each thread of a slot, since a mutex may be taken and
given back by the other threads again and again before a waiting thread gets it,
and pthreads do get it in the end. `StationFiles`, `WorkerRun`,
`InputDownloader` and `RasterBlockCache` claim no liveness and state none:
whether an invocation of the downloader ends depends on external calls, and
`ProcessPipe` shows when these do not return. No fairness on starting a run,
killing it, or restarting.

**Deadlock** is checked for `RasterBlockCache`, whose threads may always go on.
In the other cfgs it is off because each of those systems may stop: a call has
returned or hangs, runs are used up, the search is over.


## 4. Disagreements found

Four are runs of their own that TLC ends with a counterexample; the quotations
are in `PROJECT.json` under `findings`.

* `MetadataFindsEveryProduct`: `run.sh` looks for `*_LSA.nc` and `*_LST.nc`; R
  writes `alb` and `TS`. Two lines of `outputDescription.txt` are always empty.
* `TemperaturesAreThoseMeasured`: the sign of a temperature is lost, so −20 °C
  is written as 20 °C.
* `FlushedIsWritten`: `FlushCache` looks at the blocks its band knows. A dirty
  block that another thread has just taken out to evict it is passed over, and
  the call returns `CE_None` before that block is in the file, or has failed.
* `NothingIsLostSilently`: the general write loop of `RasterIO` fetches a block
  that its window covers once per row, each time with `bJustInitialize`
  (`rasterio.cpp:372-382`), which is documented for blocks that "will just be
  completely set and written back". When the block is evicted between two rows,
  which one thread alone can bring about in a small cache, it comes back
  initialised, is written over the file again, and its first rows are lost
  without an error.

One more is in the model and excepted by its properties (`dropped`):
`GDALRasterBlock::Write` reads the error of the band twice
(`gdalrasterblock.cpp:518` and `:521`), and its owner resets it without the mutex
(`rasterio.cpp:78`, `gdalrasterband.cpp:212`, `:531`, `:860`). In between, a dirty
block is dropped, nothing is written, and `Write` returns `CE_None`, against its
documented result.

Others were seen while reading; a run would only restate the line:

* `W/bin/run.sh:90` and `:47` clean `/mnt/rasterTmp`, R is told to spill to
  `/tmp`.
* `USGSController.java:81` writes the metadata to the directory of `sebal.conf`,
  not to the argument that `Main.java:15-16` takes.
* An unreachable URL ends with status 5 (`USGSNasaRepository.java:263`), not
  with the one `USGSController.java:64` has for it.
* The exit value of `tar` is not looked at (`USGSNasaRepository.java:240`), nor
  is that of `curl` (`:586`): the text of a `curl` that broke off is parsed.
* `DATE_FORMAT` prints the year of the week
  (`StationOperatorConstants.java:12`): in the last days of December that is the
  next year.
* A scene before 05:00 ends the search with the program
  (`WeatherStation.java:122`), a case that `EverySearchEnds` names.


## 5. Proofs

The modules `<Module>Proofs` are checked by TLAPS for all values of the constants
under the named assumption of each module.

| Module | Assumption |
|---|---|
| `ProcessPipe` | `SizesAreNat`: capacity and sizes are natural numbers, 0 included |
| `WorkerOutputs` | `OutputsAssumption`: tries and runs are positive; the rewriting order has the names of the raw one and as many; phases have different names |
| `WorkerRun` | `WorkerAssumption`: `Header` and `NoTask` are no tasks; tries and runs are positive; the set of tasks may be infinite |
| `InputDownloader` | `DownloaderAssumption`: `NoTier` is no image; runs are positive |
| `StationFiles` | `StationsAssumption`: the special values are none of the others; acceptable stations are stations |
| `StationSelection` | `SelectionAssumption`: hours and minutes are of a day, `HeapHours` is more than 13, the rows of a file are of `RowValues` |
| `ChunkAndWarpMulti` | `WarpAssumption`: sides of region and block are positive; the special values differ |
| `RasterBlockCache` | `CacheAssumption`: finitely many threads and blocks, a limit that is a natural number, `NULL` is none of the others |

**ProcessPipe.** `PipeInvariant` is inductive: what a program has still to
print, what is in the pipe and what was taken add up to the size; the caller
reads only after the program is over; the program comes to its end only with
`Fits`. The conservation law is needed because neither property mentions the
buffer: `AnswerIsAllThatWasPrinted` follows from the sum with `buffered` at 0,
and `OversizedCallNeverReturns` from a bound on the sum. `PipeImplementsCall` is
the safety part of the refinement: `Return` needs the invariant to know that
what was taken is everything.

**WorkerRun.** That R reads its own row depends on what `dados.csv` holds before.
`WorkerInvariant` adds

* `OverlapIsMutual`: of two active tasks both are marked, so a solo run is the
  only one that acts (lemma `SoloIsAlone`);
* `HeaderComesFirst`, `SoloDados`: what a solo run has put into `dados.csv`, step
  by step, the header cut short included;
* `RowsAreOfR`: only a live R process holds a row;
* `SoloProducts`: the state of its products from the first write to the end;
* `SettledIsSafe`: after a solo success of `t`, no line of `dados.csv` and no R
  process names `t`. Without it an overlapping pair of *other* runs could be
  told to process `t`;
* `StoppedCollectors`: at each step of the kill sequence, the kinds that are gone;
* `TriesAreBounded`.

There is one lemma per action (`<Action>Keeps`), each with one step per conjunct,
frame lemmas for the steps that touch only local variables (`OverlapFrame`,
`SettledFrame`), and `WorkerInvariantNext` combines them.

**WorkerOutputs.** A product is usable after its second write, and the second
write needs the raw content of the first. `FinalsAreKept` says that what this
attempt has written a second time is complete and its own. No first write comes
after a second one of the same product (`RawComesFirst`), so it stays so; an
attempt with status 0 has made all the writes, and they hold every product
(`EveryProductIsFinal`, which needs that both orders have the same names).
`StatusIsOfTheLastStep` states of 124 and 1 what `ZeroMeansUsableProducts` states
of 0; it needs besides that no file is of this run before R has started
(`NothingWritten`). `OutputsKeepContract` is the safety part of `KeepsContract`.

**InputDownloader.** Most properties are inductive with the types. The station
file needs `TierIsUnpacked`: the name handed to the script is that of a scene
that is in the directory, for whatever is left there.

**StationFiles.** A search that lives holds the port (`PortIsExclusive`), so at
each step of one search the others are not begun or ended, and what it knows of
its files no other can undo (`FilesAreKept`). The choice follows from the steps
of one search: `Searching`, `NearestOf` say of each station passed over that it
is not acceptable or `broken`.

**StationSelection.** The records are rows of the file in the file's order, and
every usable row is among them (`RecordsFit`, by an index function whose values
grow); the ones a filter is past are good. The loop of hours ends with thirteen
of them, six and seven of the two parts of the interval, none twice
(`IntervalFits`). The record R picks is the first at the least distance; that
there is one needs the well-foundedness of the natural numbers.

**ChunkAndWarpMulti.** A half is never empty nor the whole (`HalfIsAPart`), so
two parts cover what their window covers and nothing twice (`PartsTile`), and
sorting only renumbers: `Tiling`. The parity of a chunk's number names its slot
(`SlotsBelong`), the owner of a mutex is the thread between taking it and giving
it back (`Owners`), and where the calling thread is says which chunks are written
(`Progress`). `MultiImplementsCall` is the safety part of `ImplementsWarpCall`.

**RasterBlockCache.** The count of a block says who is at it, its owner or one
evicting thread and never both (`CountsAreLocks`). A block of a band holds all
that was written unless the file lacks it too (`PresentIsFresh`); a clean block
that holds it has it in the file or is in the hands of a thread that will tell
(`FreshIsSafe`); where neither block nor file has it, the band is told, or the
block is `dropped` (`LossIsKnown`). The order of the list does not matter for
any of this.

What does depend on the list needs its shape. A *line* is a function from the
integers to blocks, `NULL` outside `1..n` and injective on it; the pointers link
a line (`Links`) when `newest` and `oldest` are its ends, the links of each of
its blocks lead to the neighbours, and all other blocks have none. `ListIsLine`
says that they always link one, whose blocks are those the bands know and those
that wait to be adopted (`Listed`). It is inductive with `NewIsUnknown` (a block
that is being made is not with its band yet): detaching removes a place of the
line (`DetachLinks`), a touch is a detachment and a push to the front
(`TouchIsDetachAndPush`, `PushLinks`), and a step that does neither keeps
`Listed` (`StepMoves`). `Walk`, which reads the list off the pointers one link
after the other, meets exactly the line (`WalkFollows`). This is a fact about a
recursive function, and is proved without the induction theorems: at the least
place where the two differed, the step before it would agree. From this follow
`ListHoldsTheBlocks` and, as each step changes the sequence of the line as
`RecencyList` allows (`TouchOrders`, `DetachOrders`), the refinement
`ImplementsRecencyList`, which has no fairness and is proved as a whole.

`CacheIsBounded` is about the moment `EndInternalize` gives up above the limit.
It has met no unlocked block, so every block of the list is locked
(`AllAreLocked`); a locked block is the one its owner is at, or one that is
evicted; the evicting thread has no victim at that moment and the others flush
blocks of their own only. So `Band` is injective on the allocated blocks
(`OneBlockPerThread`). That `nCacheUsed` counts them needs that a victim is not
deleted twice (`VictimsExist`).

**Only model-checked.** All liveness: `EverySearchEnds`, the fair parts of
`KeepsContract`, `ImplementsProcessCall` and `ImplementsWarpCall`. TLAPS has no
rules for fairness and ENABLED here. Every invariant and every action property
of the passing runs has a theorem.


## 6. Not modelled, and abstractions

* **The rest of GDAL 1.10.1.** Most of the repository's lines, well over a
  million of C and C++, are the vendored release: formats, projections,
  algorithms, generated bindings for four languages. saps-scripts does not
  change them. The warper's scheduling and the block cache are modelled because
  their correctness is one of interleavings; the rest is pure computation and
  I/O, one reader per format, so the share of its lines that is modelled is
  small. The project's own programs, in Java, shell and R, are modelled nearly
  completely.
* **Around the modelled parts of GDAL:** changes of the cache limit while
  threads work, sub-blocking (the same with more tables), overviews and masks,
  other users of `GetLockedBlockRef`; a failing `AdoptBlock` (out of memory, and
  with sub-blocking only); the warping kernel and what it needs of memory (any
  answer); mutexes of the Win32 build.
* **Image partitioning** (`BulkHelper`): `get-station-data.sh` asks for
  partition 1 of 1, so it always returns the whole interval.
* **Downloader and worker composed.** They meet in the storage directory, but
  what starts one after the other, and decides on a retry, is the SAPS
  scheduler, which is not in this repository. Each is modelled against any state
  of that directory or with success and failure of its inputs open.
* **Numbers of SEBAL**, raster contents, map projections, scene geometry:
  floating point and file formats.
* **Contents** of requests, JSON documents, CSV cells that no property is about.
* **Distances** of stations: the list is taken as sorted, as the code sorts it.
* **Paths.** In `InputDownloader` the tier name is identified with the image,
  and the directories of the command line and of `sebal.conf` are "same" or
  "other".
* **Assumed to succeed:** deleting a file, listing a directory (its null answer
  is not modelled), creating the raster directory, starting a collector.
* **StationFiles:** unpacking and reading a file are one step each; all searches
  share one machine's `/tmp` and one network namespace, without which the
  debugger port keeps nothing apart; a kill stops the machine or container as a
  whole, so no `wget` outlives its search.
* **WorkerOutputs:** when a line of `outputDescription.txt` cannot be appended,
  the run fails if it is the last one; that an earlier line alone is missing,
  with exit status 0, is not modelled.
* **Restart** of the machine keeps all files, `/tmp` included.
* **`WorkerRun` and `WorkerOutputs`** look at the same code from two sides: the
  first has R as three steps and a sandbox for many, the second the files of one
  directory in detail. `generateMetadataFile` is in both.
* **Dead code:** `SwiftStationOperator` (no caller), `ProcessUtil`, older R
  algorithms, `fake-timeout-run.sh` (not called by `run.sh`).
* **Generated:** libtool, `config.*`, `config.status`.
* **Deployment scripts** install packages; the pre-processing phase is a README.


## 7. Plan

The most important behaviour came first: calls of programs, the worker's runs and
products, the downloader, the selection; then the files of the search; then the
two concurrent parts of GDAL that the worker's rasters go through; then the
proofs for each of the eight modules. What is left:

* `GDALSetCacheMax` while threads work, which evicts until the new limit is kept.


## 8. How to run

    tlc -workers 2 -config WorkerRun.cfg MCWorkerRun.tla
    tlapm WorkerRunProofs.tla

`PROJECT.json` names the module and the cfg of each run. Each run takes at most
about two minutes, the proofs of all modules together about ten.
