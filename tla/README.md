# be20_api in TLA+

be20_api is the framework under bulk_extractor: it takes buffers (`sbuf_t`) of a
disk image, runs a set of scanners on each of them in a pool of threads, lets a
scanner recurse into what it decoded, and records what the scanners find in
feature files and histograms.  These modules model the framework, state what it
promises and check or prove it.

## The system

| Component | State it keeps | Operations | What is hard |
|---|---|---|---|
| thread pool (`threadpool.*`) | `work_queue`, `freethreads`, `working_workers`, `workers`, one mutex, two condition variables | `launch_workers`, `push_task`, `wait_for_tasks`, `main_thread_wait`, `join`, `worker::run` | counters updated outside the lock, single notifies, work that queues work, termination by null units |
| sbuf life cycle (`sbuf.*`, `retain_sbuf`/`release_sbuf`) | per sbuf `reference_count`, `children`, `parent`; queue statistics | construct, slice, retain, release, delete | the last release on any thread; slices that outlive their parent's units |
| scheduling and recursion (`scanner_set.cpp`, `scanner_params.cpp`) | call stack of `recurse`, `max_depth_seen`, `seen_before` | `schedule_sbuf`, `process_sbuf` (two overloads), `recurse` | same-thread or queued, depth limit, exceptions of scanners |
| life cycle (`scanner_set.cpp`) | `current_phase`, `enabled_scanners`, scanner database | `add_scanner`, `apply_scanner_commands`, `phase_scan`, `join`, `shutdown`, `cleanup`, destructor | calls out of order, a failure half way, destruction with work outstanding |
| duplicate detection and the log of the work | `previously_processed_counter`, `dup_bytes_encountered`, `max_depth_seen`, the DFXML lines | `previously_processed_count`, `check_previously_processed`, `update_maximum`, `record_work_start`, `record_work_end` | the same bytes on two threads, a maximum without a lock, a count that is read before it is changed |
| feature recorders | file and its stream, `features_written`, stop list | open, `write`, `write_buf`, `write0`, `flush`, `shutdown` | a buffered stream, a process that dies in the middle of a line, disk errors |
| carving | cache of hashes, `carved_file_count` | `carve` | several threads, a file that cannot be written |
| histograms | map from feature to tally, debug limits | `histogram_add`, `add_feature_context`, `histogram_write_from_memory`, `..._from_file` | out of memory in the middle of a pass |
| feature recorder set | named recorders, frozen flag | `create_feature_recorder`, `named_feature_recorder`, `histograms_generate` | order with respect to the phases |
| stop lists, search patterns | sets of features with contexts | `add_fc`, `check`, `readfile` | off by one at the ends of a context |
| path printer (`path_printer.*`) | the request's options, the temporary stream `os`, the call stack of `process_sp` | `process_path`, `process_interactive`, `process_http`, `display_path` | an exception as the ordinary end, caught in some calls and passed on by others |
| forensic paths (`pos0.h`) | `pos0_t`: a path and an offset | `shift`, `lastAddedPart`, comparison | parsing |
| sbuf data access | the buffer | `slice`, `find`, `findbin`, `getline`, `write` | unsigned arithmetic at the ends |

The main thread (the client) calls `schedule_sbuf`, which retains the sbuf and
pushes a unit without a scanner; a worker takes it, and `process_sbuf` retains
the sbuf once per enabled scanner and pushes one unit for each; a worker that
takes such a unit calls the scanner, which writes features and may call
`recurse` with a new sbuf.  The worker releases the sbuf of its unit; the last
release deletes it.  `join` waits until nothing is queued or running, sends each
worker a null unit, and waits until all of them have left.

The path printer uses the same scanners and the same `recurse`, on the client's
thread: with a `scanner_params` that carries a printer, `recurse` calls
`process_sp` of the printer in place of `schedule_sbuf`.

What makes each part correct:

* thread pool: nothing accepted is lost, forged or run twice; a wait returns when
  all is done, and then it does; as many null units as workers, so that all end.
* sbuf life cycle: a count says exactly who uses the sbuf, it is deleted when
  nobody does, and never while a unit or a slice still points into it.
* scheduling, recursion and duplicates: each enabled scanner that suits a buffer is
  called once for it, the recursion ends, and no exception leaves a buffer behind.
* life cycle: the phases in their order, a recorder for each scanner that was meant,
  no scanner told to clean up while it scans, everything written is reported.
* recorders and carving: a line whose call returned is in the file, whole, after any
  crash; an object is carved once, into a file of its own.
* histograms: as many as there are lines of the text, whatever the encoding.
* path printer: what is printed is what the path names, once, with its length.
* data access, paths, escaping, stop lists: a feature is found once, wherever a page
  ends; its line leads back to its bytes; its file stops it the next time.

## The modules

| Module | Models |
|---|---|
| `WorkPool` | what a client may rely on from the pool: everything accepted is completed, a wait returns when all is |
| `ThreadPool` | `threadpool.cpp` in full, process_sbuf() reduced to the units it pushes; implements `WorkPool` |
| `SbufGC` | the references to sbufs, over the steps of `ThreadPool` |
| `ScanRecords` | what the workers count and log about the sbufs they process: duplicates, the largest depth, the lines of the work |
| `SerialScan` | scanning without threads: one call stack, the depth limit, duplicates, memory and file systems, exceptions |
| `ScannerPhases` | the life cycle of the scanner set and its recorders, with workers that may be late |
| `FeatureRecorder` | one feature file, the files carved under its name and its histogram, through crashes and a full disk |
| `UnicodeEscape` | operators: the escaping of UTF-8 and its reverse, the recognition and conversion of UTF-16 |
| `Pos0` | operators: forensic paths, their additions, depth and shift |
| `SbufData` | operators: slices, searches, lines, integers and strings of an sbuf, and where an `sbuf_stream` goes on |
| `StopList` | operators: the list of features with contexts, its file, and the test of a feature against it |
| `FeatureScan` | the way of an image's bytes through these four into a feature file, a histogram and a stop list |
| `PathPrinter` | the path printer: one call stack, its exceptions, and the clients of its three interfaces |
| `Folding` | operators: sums over finite sets and selections from sequences, by functions and sets |
| `FoldingProofs` | what these compute, for every finite set and every sequence, and facts about numbers and sequences that other proofs cite |
| `ThreadPoolProofs` | the theorems about `ThreadPool` and `SbufGC`, and that the pool implements the safety part of `WorkPool` |
| `ScanRecordsProofs`, `SerialScanProofs`, `ScannerPhasesProofs`, `FeatureRecorderProofs`, `PathPrinterProofs`, `FeatureScanProofs` | the theorems about those modules |
| `MC...` | small instances for TLC |

### ThreadPool

One action is one critical section under `thread_pool::M`.  The two updates the
code makes without it have actions of their own: `StartWorker`
(`tp.freethreads++`) and `StopWorking` (`tp.working_workers--`).  `mpc` and `wpc`
say where the main thread and each worker are.  A thread that waits on a
condition variable is in a state ending in `Wait` (main) or in `waiting`
(worker); `NotifyMain` and `NotifyWorker` send one waiter back to test its
predicate, and nobody if nobody waits, so that a notify can be lost.  The inputs
are what the client calls, in any order it likes, and which child sbufs the
scanners recurse into.

`mpc` after `launching`: `running` is the client between calls; `pushing`,
`pushWait` are `push_task`; `draining`, `drainWait` are `wait_for_tasks`, called by
the client or by `join`, as `mret` says; `counting`, `killing`, `killWait`,
`spinning` are the rest of `join`; then the scanner set is destroyed.

### SbufGC

Each action conjoins one of `ThreadPool` with what the surrounding code does to
the sbuf.  The constructor and the retain of `schedule_sbuf` are one action with
the push or recursion they precede: until then only one thread knows the sbuf.
A slice's `parent` is its highest parent, as in `new_slice`.  The history of a
slice is kept in `parent` after it is deleted.

### ScanRecords

The workers again, this time for what they record.  The pool is reduced to what
`ThreadPool` shows it to implement: a FIFO queue, and workers that take its head.
In exchange each atomic operation of `process_sbuf` is a step: the load and the
compare and swap of `update_maximum` (`Enter`, `UpdateMaximum`), the count of the
content (`Count`), each retain with its push (`PushScannerTask`), the line of
`record_work_end` that reads the reference count (`RecordWorkEnd`) and the decrement
that comes after it (`Release`).  `at` is the sbuf that a worker processes, which is
not that of its unit `wu` while a scanner has recursed.  `dfxml` has the lines of each
sbuf: 0 for `work_start`, and the reference count in it for `work_stop`.

### SerialScan

`stack` is the call stack of `process_sbuf`, innermost first; a frame has the
buffer's content, its path, what is left of the loop over the scanners, and the
scanner that is running.  `pc` is where the innermost call is: `entering` up to
the depth test, `looping` over the scanners, `scanning` inside one, `catching` its
exception.
`Schedule` and `Recurse` are `schedule_sbuf` from the client and from a scanner.
The path is the sequence of the scanners that decoded the buffer, which is what
`pos0_t::depth` and `recurse_always` look at; `Suits` stands for the tests of the
bytes alone (size, n-grams, distinct characters).  `possibly_has` of a frame is
`possibly_has_memory` and `possibly_has_filesystem`: a buffer at depth 0 may have both,
another one what the scanners in its path are flagged to produce.  A scanner may recurse, ask
`check_previously_processed`, find that a feature cannot be written, throw, or
return.

### ScannerPhases

`mpc` is where the main thread is: `client` between calls, or in the loop over
the scanners that `todo` is the rest of.  The loops run over sets and maps that
are ordered by addresses, so their order is any.  A call that the code refuses
throws before it changes anything and is no action.  `apply_scanner_commands`
executes one command in a step (`ExecuteCommand`; `executed` counts them, and
`CommandsDone` says what has come of them).  The pool is what
`ThreadPool` shows it to be: a set of units and the unit each worker has; the
benchmark thread ends (`BenchmarkEnds`) when it finds the phase over or no worker
left, and is joined by the destructor (`BenchmarkJoined`).  A scanner may throw in
INIT2, SHUTDOWN or CLEANUP (`ScannerThrows`), which ends the call with the phase as it
is, or the program if it is the destructor's call.  `told`
records the messages each scanner got.  `MakeRecorders` has the three outcomes
of the code: all of a scanner's recorders and histograms are made, a definition
conflicts, or a histogram is of a recorder that nobody has made yet; the last
two leave what was made so far.

### FeatureRecorder

A line is a feature and a hash.  The file is a sequence of cells, the pieces of
lines, of which the last is the newline: lines of two and of three cells can be
torn, and a short one can be written over the remains of a long one.  `at` and
`pending` are the stream's place and buffer; every write passes any part of the
buffer on.  `Write` and `Carve` begin a call, `Write0` is the critical section of
`Mios`, `AddFeature` the incremental histogram, `OpenFile` and `WriteData` the rest
of `carve`.  `Crash` is a death and a restart: all but the disk is lost, and the
constructor looks for the last newline (`LastNewline`), backwards and byte by byte,
until it meets one or an offset that is 0 as an `int`: `IntSpan` stands for the 4 GiB
after which `int(ios.tellg())` is 0 again.  `ReadLine` is the loop of
`histogram_write_from_file`.

### PathPrinter

`stack` is the call stack, innermost first: `display` is `display_path`, `offset` and
`scanner` are the two calls `process_sp` makes of itself and of a scanner, `recurse`
is `scanner_params::recurse`.  A frame has the rest of the path, the size of its
sbuf, and the trail, the parts that have been applied to get to it; so what is
printed can be compared with what the path names.  `pc` is where the innermost
call is: `call` at the entry of `process_sp`, `scanning` inside a scanner, `returning`
on an ordinary return, `finished` with `path_printer_finished` on its way, `error`
with any other exception; or where the client's request is: `idle`, `serving` between
the lines of a client, `headers` in an HTTP request, `displayed` after `display_path`.
A frame's sbuf is counted in `sbufs`.  `os` and `out` hold items, one for each
printing, with the length that was announced and the length that followed.
`Recurse`, `ScannerReturns` and `ScannerThrows` are the scanner; `InteractiveLine`,
`HttpGet`, `HttpHeader` and the ends are the client's lines.

### FeatureScan

The other modules take a feature as a value; this one takes it as bytes.  An
image is cut into pages with margins (`NextPage`), as a program that uses the
library does it, and a scanner, one of seven that use the accessors of `sbuf_t` and
`sbuf_stream`, searches each page.  `Hit` is what the scanner finds next, `at` where
it goes on.  `WriteFeature` is the call of `write_buf` to its end, with the line in
`file`, the tally in `histogram` and a recursion if the scanner does one;
`WriteNothing`, `ThrowOutside`, `ThrowBeforeLine` and `ThrowAfterLine` are its other
ends.  An exception puts the buffer's position into `alerts` and ends the call.
`SkipScanner` is `process_sbuf` with a buffer that does not suit the scanner.
`callers` is the call stack of the recursion.  `Shutdown` writes the histogram, from
memory or from the file, and `ShutdownThrows` is the exception that the file can
cause there.  `raw` remembers the bytes that each line was made from, and the
properties compare the line with them and with the whole image.  `setup` chooses
the scanner, the flags of the recorder and of the histogram, the sizes and the
alphabet of the image; from there on a behavior is determined.

An exception has no value in TLA+: for each function that throws there is an
operator that says when (`ValidateThrows`, `ConvertThrows`, `InvalidUTF8`, `InRange`).
The strings are built without recursion: `Starts` is the set of places where the
loop of `validateOrEscapeUTF8` finds a character, and `Joined` puts together what is
written for each.

## What the runs check

| Run | Instance | Shows |
|---|---|---|
| `Pool` | 2 workers, 2 pushed sbufs (one skipped), 1 child of either size, 2 scanners, spurious wake-ups, `main_thread_wait` | `TypeOK`, `CountersExact`, `PillsMatchWorkers`, `JoinedMeansGone`, `AtMostOnce`, `NothingLost`, `WaitReturnsDrained`, `CallsReturn`, `ImplementsWorkPool`, no deadlock |
| `GC` | 2 workers, 1 pushed sbuf, 1 child of either size, 2 slices, 2 scanners | `GCTypeOK`, `RefCountExact`, `NoUseAfterFree`, `ScheduledIsDeleted` |
| `GCLeak` | 2 workers, 1 pushed sbuf, 1 slice | violation of `FreedAtZero` |
| `Records` | 2 workers, 1 image, 5 children at 3 depths, 2 of them equal and one equal to the image, 2 scanners | `TypeOK`, `MaxDepthExact`, `ScannedOnce`, `StopMeansDone` |
| `ScanSerial` | 3 scanners with all flags, 3 contents, depth 2, a disk that may fill up | `TypeOK`, `SeenOnce`, `NothingKept`, `Terminates` |
| `ScanDiskFull` | 2 scanners, 1 content | violation of `NoExceptionEscapes` |
| `Phases` | 3 scanners, 7 command lists, 2 workers, 2 sbufs, the benchmark thread, 2 exceptions | `TypeOK`, `RecordersReady`, `LifeInOrder`, `NotCleanedWhileScanning`, `NothingUnreported`, `NoTerminate`, `Destroyed` |
| `PhasesBusy` | 2 scanners, 1 worker, 1 sbuf | violation of `NothingAfterCleaned` |
| `Recorder` | 2 threads, 3 calls, 1 crash, 3 objects | `TypeOK`, `LinesKept`, `HistogramExact`, `CarvedOnce` |
| `CarveNames` | the same, 2 calls, no crash | violation of `EachItsFile` |
| `Paths` | 1 scanner, paths of up to 3 parts, 2 requests, 2 recursions, sizes 0 to 6 modulo 8 | `TypeOK`, `SbufsDeleted`, `PrintsAsAsked`, `Returns` |
| `Features` | 27 setups, all images of 4 to 9 bytes over 2 or 3 values | `TypeOK`, `FoundWhereItIs`, `HistogramsAgree`, `StopsAgain` |

Bounds.

* Pool and garbage collection.  The sbufs are finite sets, each scheduled at most
  once, which is what the code assumes of them; nothing else is bounded.  Two
  workers are enough for every pairwise race of workers and for both against the
  main thread; the theorems hold for any number of them.  Two pushed sbufs make
  the second push meet a busy pool; two scanners make a fan-out that another
  worker can overtake; a large child is the only unit without a scanner that a
  worker pushes.  Two slices let one be a slice of the other, and let the last of
  two take the parent's last reference.
* `ScanRecords`.  One image, of which the fan-out is overtaken by the other worker;
  two equal children, which both workers may count at the same time; an empty
  one, and one too deep; and one that equals the image, below a child, so that the
  image is met again while its own units are queued.  Three depths let a thread with
  a small value come between the load and the exchange of a larger one.  Workers
  are interchangeable (symmetry; the run has no liveness).
* `SerialScan`.  `MaxScheduled` and `MaxRecursions` bound the client and each call of
  a scanner to one; the depth limit of 2 gives a stack of three calls, of which
  the last is refused, and the same content above, below and inside itself.
* `ScannerPhases`.  `MaxApplies` 2: the commands are applied, possibly fail half way,
  and are applied again.  The command lists have the cases that matter: one
  after the other, "all", and scanners that are not loaded or not meant by "all".
  `MaxFailures`: two exceptions of scanners, in one phase or in two.
* `FeatureRecorder`.  `MaxCalls` 3: a line before the crash, a torn one, and one
  over its remains; or an object, its duplicate, and another under its name.
  `files_per_dir` 2 lets the directory change (it is 1000 in the code).
  `IntSpan` 5: a file gets longer than that in a run, so that a restart's search may
  meet it inside a line or at the end of one; `CarveNames` has it out of reach.
* `PathPrinter`.  `MaxParts` 3: an offset, a scanner and what follows it, or a scanner
  under a scanner.  `MaxRequests` 2: what one request leaves behind meets the next.
  `MaxRecursions` 2: a scanner that goes on after the printing.  The image has
  fewer bytes than are printed by default and a scanner decodes more, so that both
  the end of the sbuf and the default length cut; the Ranges begin inside, at and
  behind the end, one has no last byte and one the largest, which both wrap modulo
  `Modulus` 8.
* `FeatureScan`.  Pages of 3 to 8 bytes and margins of 0 to 3: three pages in most
  setups, features that end in the page, at its end and in the margin, and a
  margin that reaches over the last page.  The alphabet of a setup has the bytes
  that its question is about: a match and a near match, a backslash, an octal
  digit, a control character, the parts of a UTF-8 character, nulls and a
  surrogate for UTF-16.  The sizes that cut a feature and the numbers of bytes that
  make a scanner skip a buffer are as small as the images.

Fairness.  `WF` of the main thread inside a call and of each worker: threads are
scheduled by the operating system and the standard mutex is eventually got.  A
client is never obliged to make another call, a scanner never obliged to
recurse, and a condition variable never obliged to wake up by itself; a scanner
is assumed to return.  In `SerialScan` it is `WF` of the thread's own steps, in
`ScannerPhases` of the main thread inside a call, of each worker and of the benchmark
thread, which sleeps for a second at a time and looks again.
`FeatureRecorder` and `FeatureScan` state no liveness: their calls have no loop that
could last.
`PathPrinter` has `WF` of the printer's own steps, of the scanner (its calls end) and
of the client (it sends its next line or closes its stream, as the loops over
`std::getline` need); nobody is obliged to start a request.

Deadlock is checked in every run; a system that has ended stutters.

### What the violations say

* `GCLeak`.  `del_child` can take the last reference of a parent, and only
  `release_sbuf` deletes at zero: a parent whose slice is released last leaks.
* `ScanDiskFull`.  The handler for a full disk writes an alert to the same disk,
  and the exception of that write leaves `process_sbuf`; nothing catches it in a
  worker.
* `PhasesBusy`.  The destructor cleans the scanners up before it joins the workers
  that may still call them.
* `CarveNames`.  The number of a carved file picks its directory only; its name is
  the forensic position, which two objects can share, and the second overwrites
  the first.

Disagreements between code and comments, or between two places of the code,
that no run is kept for:

* `threadpool.h:26-31` has the main thread decrement `freethreads` when it queues an
  item; the code leaves that to the worker that takes it, so the main thread can
  queue more items than there are workers.
* A worker leaves the set `workers`, which is all `join` waits for, before its last
  call `ss.thread_set_status("exited")` (`LastStatus`); the destructor of the
  scanner set may have destroyed the map behind that call (`DestroyMembers`).
  `JoinedMeansGone` says that this call is all that can be left of a worker.
* `scanner_set.cpp:730` has the work lines "used for restarting", but every release
  writes a `work_stop` line, also while units of the sbuf are queued or run, and there
  need not be a line with `rc='1'`: two threads that release at the same time both
  write 2.  Where there is one, the sbuf is done (`StopMeansDone`).
* `feature_recorder_file.cpp:108` takes every multiple of 4 GiB for the beginning of the
  file: a restart whose search for the last newline meets one writes over the lines
  from the beginning on (`wrapped`, excepted in `LinesKept`).
* A scanner that throws in CLEANUP leaves the phase at CLEANUP, so that the next
  `cleanup` tells all the scanners again; in the destructor it ends the program
  (`LifeInOrder` and `NoTerminate` say that this is the only way to either).
* `wbuf` refuses `i > bufsize` and lets `i = bufsize`, the byte behind the buffer, be
  written; `realloc` and `wbuf` leave a cached hash or n-gram size as it was.
* With `flags.no_alert` the depth limit is reported by an exception of
  `get_alert_recorder()` that passes `schedule_sbuf` before its release, so the sbuf
  is kept (`NothingKept` is stated for sets with an alert recorder).
* `check_previously_processed` counts as a sighting: a buffer that a scanner asks
  about before it recurses is taken for a duplicate at its first scan
  (`SeenOnce` excepts such buffers).
* `scanner_set.h:306-307` has `shutdown` "called automatically on delete"; the
  destructor calls `cleanup` only, and a set that is deleted while it scans writes
  no histogram.
* A scanner that throws in SHUTDOWN leaves `shutdown` before the histograms are
  written, and it cannot be called again (`NothingUnreported` is checked with
  scanners that do not).
* `shutdown` of a recorder does not look whether the flush succeeded, and the
  exception handlers of `process_sbuf` flush the alert recorder without its mutex.
* `feature_recorder.h:51-54` says that features on the stop list are written to a
  second recorder; `stop_list_recorder` is never set, and without it `write` does not
  look at the stop list at all.
* After a restart the remains of a torn line that nothing has been written over
  stay at the end of the feature file, and a histogram made from the file reads
  them as a line.
* A line for which there is no memory while a histogram is made from the file is
  not counted in any of the histogram files: the tally that is written out and
  the one that begins again both miss it.
* `path_printer.cpp` announces an exception after the printing that prevents the
  continued analysis of buffers.  It is caught by the innermost offset or scanner
  of the path; a scanner further out sees an ordinary return and may recurse and
  print again (`PrintsAsAsked` excepts paths in which a part follows a scanner).
* `process_interactive` and `process_http` print to `os` and never pass it on to `out`;
  what they printed comes out at the end of a later `process_path`.
* A Range whose last byte is given as `-1` has the length of all that follows, but its
  end wraps to 0, so that nothing is cut off and nothing is sent (`LengthAnnounced`
  excepts it, as it does a Range whose first byte is behind its last).
* `process_http` reads the same header line again for ever when the stream ends
  inside it (`HttpSameLine`, excepted in `Returns`).
* `findbin` is to "find the next occurance" (`sbuf.h:493`); behind a byte that matches
  the first but does not go on, the next byte is not looked at, because the loop's
  increment comes on top of its assignment (`Hidden` excepts what that may hide).
* `new_slice` takes the offset off the page only when it lies behind the page, where
  the difference wraps and the page becomes the whole slice.  A slice from inside
  the page gets a page that covers margin, whose features are found under another
  path again; none is lost (`FoundWhereItIs`).
* `getline` takes the line behind an empty one together with it, and on every page
  but the first begins with the rest of the line that the page before has had.
* A feature that is not UTF-8 throws in the incremental histogram when its line is
  already written, and the scanner misses the rest of the page.  It cannot happen
  to a histogram from the file, unless `resize` has cut a character in two: then
  `shutdown` throws, and nothing catches it.
* A feature is quoted by `make_utf8` and again by `quote_if_necessary`, so that every
  backslash is quoted twice, and once with `no_quote`, which is to quote none.  The
  histogram from the file quotes once more, and takes a feature that was quoted for
  UTF-16, because its context, without quotes, does not hold it.
* A recorder with `no_context` has no histogram from the file: a line with two fields
  is not read (`HasFeatureAndContext`).
* No UTF-8 character of four bytes is ever accepted: the least code point is written
  `0x1000000` (`LeastCodePoint`).  The low byte of a UTF-16 unit is sign-extended over
  the high byte (`Unit`).
* `pos0_t::shift` drops the last digit of the base of a recursive path (`ShiftBase`).
  `fs.offset_add` is nowhere set in the library, and the run shifts only positions
  without a path.
* A stop list takes one feature for each context, and does not find a feature at the
  very end of a context (`StopsAgain` says what is still stopped).
* `sbuf_stream::getUTF8(n)` gives the number of bytes to `sbuf_t::getUTF8` as an offset.
* `get_scanner_by_name` throws for a name it does not know; the test of its result
  for null in `process_sp` is never true.

## What is proved

Everything here holds for every value of the constants under the assumptions that
the modules name: finite sets of threads, scanners, sbufs and contents
(`WorkerAssumption`, `ScannerAssumption`, `RecordsAssumption`, `SetsAssumption`), sbufs
and names that are not each other's markers (`SbufAssumption`, `SliceAssumption`,
`RecorderAssumption`, `PathAssumption`, `HeaderAssumption`, `NamesAssumption`), switches
that are Booleans (`SwitchAssumption`), bounds that are numbers (`BoundAssumption`,
`NumbersAssumption`), and setups of the types that `SetupsAssumption` gives them.

Many of the properties are about sums, counts, searches and strings, which are defined
by recursion.  The induction theorems of the library take an operator as a parameter, so
the inductions are made in another form: the set of counterexamples, if it is not empty,
has a least number (`LeastNatural`) or a smallest set (`SmallestSet`), and that one is
refuted.  `FoldingProofs` does this once for the sums (`Sum...`), the selections
(`Select...`), their lengths (`Count...`), and for recursive functions over an interval
(`UpTo`, which says that such a function exists and is equal to its definition); the
modules about the system cite these lemmas.

The thread pool:

* `TypeCorrect`: `Spec => []TypeOK`.
* `PoolCorrect`, `CountersCorrect`: `Spec => []PoolInv`.  The property wanted is
  `PillsMatchWorkers`: `join` pushes as many null units as there are workers.  It is not
  inductive.  It needs `OnlyPillsWhenKilling` (no worker will push work after the
  drain), which needs `CountersExact` (so that `working_workers = 0` means that
  nobody works), and `WorkersExact` and `CountingIdle` for the step that counts.
* `JoinCorrect`: `JoinedMeansGone`, from `WorkersExact`: who has left `workers` has left the loop.
* `WorkKept`: `NothingLost` and `NothingForged`: a unit that was accepted is
  completed, queued, part of a queued fan-out, or with a worker; and nothing is
  run that was not accepted.
* `Drained`: `Spec => WaitReturnsDrained`.  With an empty queue and, by
  `CountersExact`, no worker at work, `NothingLost` leaves no place for a unit
  that is not completed.
* `RunOnce`: `AtMostOnce`, from `Exclusive`: of the places a run of a unit can come
  from, which are an entry of the queue, a worker that has it, a worker that has yet to
  push it, and its run, at most one exists; and from `PushesNew`, for the client.
* `PoolIsWorkPool`: the initial states of the pool are those of `WorkPool`, and each of its
  steps is one of `WorkPool` or leaves `accepted`, `completed` and `client` as they are.

The references:

* `ReferencesExact`, `HeldIsLive`, `CountsAreNatural`: `RefCountExact`, `NoUseAfterFree` and
  `GCTypeOK` from `GCInv`.  The count of an sbuf is the sum of its holders, so each step
  that adds or takes a holder must be shown to change the set of holders by exactly one;
  that a unit is in one place only is what `RunOnce` has shown.

Scanning:

* `RecordsTypes` (`TypeOK` of `ScanRecords`): no reference count is ever negative, since
  each is the number of the queued units of the sbuf and of the workers that hold it
  (`References`).
* `LargestDepth`: `MaxDepthExact`, from what each thread has loaded before its compare and swap.
* `FirstSight`: of equal buffers exactly one is taken for new (`OneIsNew`, the part of
  `ScannedOnce` that the atomic container is responsible for).
* `EachContentOnce`: `ScannedOnce` as a whole.  `Tally`: the bytes reported as duplicates are
  those of the buffers that were taken for duplicates.  `Covered`: a scanner that may
  run on an sbuf has run on it, runs on it, waits in the queue, or is still to be pushed.
* `StopIsLast`: `StopMeansDone`, from `LastLine`: behind a line with the count 1 the sbuf is
  `Settled`: nothing of it is queued and a worker that still has it is about to let go.
* `DepthLimited`: the call stack stays below the depth limit, since the calls are nested
  by depth (`Nested`: the frame `i` has the depth `Len(stack) - i`).
* `AllReleased`: `NothingKept`, from `Balanced`: each frame holds one reference, and one
  more while it is inside a scanner.
* `SameBytesOnce`: a scanner that does not ask for duplicates gets no bytes twice (`ScansOnce`,
  a part of `SeenOnce`), from `OnceFor`: what is due to a content is due in one frame.
* `NothingMissed`: `SeenOnce` as a whole.  `Served`: a scanner that suits a content that was
  begun has been called for it, is due in a frame of the stack, or an exception has
  left the call.  `Fresh` and `Counted`: what the counter of a content knows was begun or asked
  about, and a call has no scanner to call before it is counted.

The life cycle (`PhasesInv`).  `PhasesTyped` is for every client.  The other five are for
clients that join the workers before they destroy the set (`~DestroyBusy`), as `PhasesBusy`
shows that they must:

* `LifeOrdered` (`LifeInOrder`): what each scanner has been told is not ahead of the phase, and
  how often is bounded by the exceptions that made a phase begin again.
* `CleanedLast` (`NotCleanedWhileScanning`): a worker has a unit in the phase SCAN only (`Pooled`).
* `AllReported` (`NothingUnreported`): what is written and not reported belongs to a recorder that
  the loop of `shutdown` has yet to come to.
* `TerminatesOnlyIn` (`NoTerminate`): only an exception in the CLEANUP of the destructor.
* `AllReady` (`RecordersReady`): the scanners that are enabled are what the commands
  executed so far mean, and each has the recorders and histograms that `MakeRecorders` is done with.

The feature recorder:

* `CarvesOnce` (`CarvedOnce`), through any number of crashes.  `OneCarver`: a hash has one
  thread that is about to write its line, or one line, and the cache knows it.
  `OnItsWay`: the file that a sole line names is being made by one thread, or has its bytes.

* `RecorderTypes` (`TypeOK`), `HistogramIsExact` (`HistogramExact`): the file has the lines whose
  calls have returned, in their order; after a shutdown on a disk with room it has all of
  them; and each feature is counted in the histograms as often as it was written, but for what
  found no memory.  `Contents`: the disk up to the place of the stream, followed by the
  stream's buffer, is a sequence of whole lines, and behind that place the disk has no
  newline; the lines are those that a restart found and those taken since, and on a disk that
  has failed a beginning of them.
  `MemoryCount` and `FileCount`: what the histograms in memory, the reports and the failed
  allocations add up to is what was written, less the threads that have yet to add
  theirs; for the histograms from the file, it is the lines up to the place that was read.
* `LinesStay` (`LinesKept`): each newline of the file ends a whole line, and a line on the disk
  stays there.  `Overwritten` is what a partial drain makes of the disk, where the remains of a
  torn line lie behind the place that is written.

The path printer:

* `PrinterTyped` (`TypeOK`) and `PrinterDeletes` (`SbufsDeleted`): there are as many sbufs as
  calls, unless an exception has left some behind.
* `PrinterPrints` (`PrintsAsAsked`).  `OnWay`: in each call the parts that were applied, followed by
  those that are left up to `PRINT`, are what the request names, and what is called below
  a recursion is further decoding.  `AnsweredOnce`: a request that has been printed is on
  its way out, with no scanner below that could still recurse.  The lengths follow from
  lemmas about sums modulo `Modulus` (`Wraps`, `Dump`, `DumpedSize`).

The way of the bytes (`FeatureScan`), for every image, and every setup of scanner, recorder and
histogram:

* `ScanTypes` (`TypeOK`): a page is a part of its buffer, and a field of a line is neither empty
  nor longer than it may be.
* `FileStopsAgain` (`StopsAgain`): the file of a run, taken as a stop list, stops each of its lines
  again, unless an earlier line took the context for another feature.
* `QuotesComeOff`: `unquote_string` of `validateOrEscapeUTF8` is the string again, for
  every string of bytes, when backslashes are quoted.  `FrontAt` and `Reached` follow the loop that
  writes, character by character, and `UnquoteConcat` takes the loop that reads past what was
  written for each: a piece is `Closed`, so that no octal code begins in one and ends in the next.
* `LinesLeadBack` (`LeadsBack`, the first part of `FoundWhereItIs`): the path of a line leads back to the
  feature, in the image or in what was decoded of it; no byte of a field ends the field or the
  line; and the quotes come off again.  Text that was UTF-16 and is written without quotes for
  backslashes comes back only when it is `Clean`.  `BuffersHold`: each buffer on the call stack is, from its
  position on, the image or the decoded bytes behind the place where the scanner has
  recursed.
* `LinesApart` (`OncePerPlace`, the second part): no place is recorded twice.  `Apart`: all lines so far
  are before the place where the outermost call goes on (`AllBelow`), those of the
  decoded buffer before the place where that scan goes on (`BelowIn`), and no two are equal
  (`NoneTwice`).  Pages do not overlap, though their margins do; a search goes forward
  (`HitAhead`); and what is found in the margin is left to the next page.
* `EverythingIsFound` (`FoundWhereItIs` as a whole): every occurrence in the image is recorded once, at
  its place, unless its page was skipped or its scan ended in an exception; nothing else is
  recorded; and the same goes for what the scanner recurses into.  The invariant is `Sweep`, and
  says of the innermost call and the outermost one how far they are.  `Swept`: what is wanted
  before the place where the outermost call goes on has been found, or its page has an
  alert, or was not suited.  `SweptInside`: what is wanted in the decoded bytes has been found, or
  is in the buffer that is being scanned and not passed yet.  `OnlyThere`: what was found
  occurs there.  The steps rest on `HitPromises`, that a search passes nothing that is wanted but
  what it finds, for each of the searches; on `PageWants` and `ChildWants`, that what is wanted
  of the image is wanted of one page, and what is wanted of decoded bytes of one
  slice; and on `OccurringIsWritten`, that what occurs is not quoted away.

  The hypothesis `Sought` names what these need, and 23 of the 27 setups of the run are of this
  kind: the scanner looks for a byte, a string, lines or strings that end in nulls; a
  string is at most one byte longer than the margin (a longer one can lie across the end of a
  page and be in neither buffer); what is found does not begin with the byte order mark of
  UTF-16, of which nothing may be left to write; and a scanner that recurses is called on
  every buffer, and its recorder shifts no path.
* `MemoryCounts` (`HistogramsAgree` where the histogram is made in memory): each text is counted as
  often as there are lines of it, apart by whether it was UTF-16, and each key leads back to
  its text.
* `FileCounts` (`HistogramsAgree` where it is made from the file): `ReportTallied` unfolds the fold over the
  lines; `FileKeyBack` takes the three layers of quotes off a key, of `make_utf8`, of
  `write` and of the histogram; and `LowerMade` says that lower case before escaping is lower case
  after it, since no letter is in an escape or in a character of several bytes.  `ReadAlike` is
  what the file has to offer: no feature is UTF-16, which has a layer less, so that
  a text that looks like an escape would lose it; and neither the digits of a feature nor a
  text required in it are asked for, because those would be looked for in the quoted
  feature, with the digits of its escapes.  Every setup of the run that makes its histogram from
  the file is like that.

`LinesLeadBack` and `LinesApart` leave out the setups in which a path is both recursed into and
shifted: `shift()` drops the last digit of such a path's first part, so that it leads
elsewhere and two places may look alike.  Nothing in the library does both.

Only model-checked:

* liveness (`CallsReturn`, `ScheduledIsDeleted`, `Terminates`, `Destroyed`, `Returns`) and the fairness
  in the refinement of `WorkPool`: out of the prover's reach;
* `FoundWhereItIs` for the setups that `Sought` leaves out: streams of wide strings, records and
  counted strings.  Records and counted strings go wrong for good when a page begins
  inside one, so that the run tries images of one page; wide strings are tried over
  pages of even size, where a page that begins inside one finds the rest of it;
* nothing of `HistogramsAgree` that a run tries: where `ReadAlike` fails it is neither tried nor proved.

## Plan

Written and checked so far: all modules of the table above; proved: every safety property
of the passing runs, for `FeatureScan` with the exceptions just named.  Next, in this order:

1. The flush of the alert recorder by a second thread (`scanner_set.cpp:900`), which needs a
   model of the stream's buffer as the library implements it.
2. `Sought` for wide strings, whose rests at the beginning of a page have to be told apart from what
   begins there.

The runs are kept to about a dozen, each with all the questions that one instance
can answer: a new module gets one run, and makes room by joining two of the
others where an instance of one serves both.

## Not modelled

* In the modules above: freezing the recorder set (nobody makes a recorder after
  it), carve modes and the zero-length feature (calls that return at once), and the
  global stop list: its recorder is never set in this version
  (`feature_recorder_set.h`), so that the test in `write` is false.
* In `FeatureScan`: regular expressions of histograms and stop lists, the order of a
  report, the pedantic flag, the signed integers, `getUTF8` with
  a size, conversions between UTF-16 and UTF-32 that only tests call, and the
  recorder of stopped features.
* Formatting, logging and statistics; packet records; timers;
  the SQL recorder, which is not compiled; vendored libraries
  (`catch.hpp`, which is most of the lines of the repository, and `thread-pool/`, which no
  source file includes).  `PROJECT.json` lists each part with the reason.
