-------------------------- MODULE FeatureRecorder --------------------------
(***************************************************************************)
(* One feature_recorder_file on several threads: write() to the feature    *)
(* file, carve() to files of its own, the histogram of the features, the   *)
(* shutdown that flushes the file and reports the histogram, and a process *)
(* that may die at any time and open the same file again.  The disk may    *)
(* get full and memory may run out.                                        *)
(*                                                                         *)
(* A line of the file is a feature and a hash (its position and the rest   *)
(* of its context play no part).  The file is a sequence of cells, the     *)
(* pieces of lines, of which the last is the newline: what is buffered in  *)
(* the stream gets to the file by cells, so that a line may be torn.       *)
(* Objects that the carve mode, the stop list or an empty feature keep out *)
(* are no calls here; there is one histogram, which takes every feature.   *)
(***************************************************************************)
EXTENDS Integers, Sequences, FiniteSets, SequencesExt, FiniteSetsExt, Folding

CONSTANTS
    Thread,
    Text, Long,        \* features, and those with long lines
    Object,            \* what may be carved,
    Data, data,        \* its bytes, which the hash identifies,
    Name, filename,    \* and its pos0 with the extension, made a file name
    filesize,
    files_per_dir,     \* 1000
    Header, CACHED,    \* the banner; the name of a duplicate
    NoData, NoPath,
    Empty, Cut, Mixed, \* contents of a carved file
    IntSpan,           \* 2^32: positions that differ by it are one int
    DiskMayFill, MemoryMayFail,
    MaxCalls, MaxCrashes   \* bounds: calls of write() and carve(); crashes

ASSUME RecorderAssumption ==
    /\ IsFiniteSet(Thread)
    /\ Long \subseteq Text
    /\ data \in [Object -> Data] /\ filename \in [Object -> Name]
    /\ filesize \in [Data -> Nat]
    /\ files_per_dir \in Nat \ {0} /\ IntSpan \in Nat \ {0}
    /\ {DiskMayFill, MemoryMayFail} \subseteq BOOLEAN
    /\ MaxCalls \in Nat /\ MaxCrashes \in Nat
    /\ {NoData, Empty, Cut, Mixed} \cap Data = {}

Path == (0 .. MaxCalls \div files_per_dir) \X Name
ASSUME PathAssumption == Path \cap (Text \cup {CACHED, NoPath}) = {} /\ CACHED \notin Text

Feature == Text \cup Path \cup {CACHED}
ASSUME HeaderAssumption == Header \notin Feature
Line == (Text \X {NoData}) \cup ((Path \cup {CACHED}) \X Data)
Banner == <<Header, NoData>>

(* The cells of a line; the last is the newline.                           *)
Width(l) == IF l[1] \in Long THEN 3 ELSE 2
Cells(l) == [i \in 1 .. Width(l) |-> <<l, i>>]
Cell == UNION {Range(Cells(l)) : l \in Line \cup {Banner}}
IsNewline(c) == c[2] = Width(c[1])
Newline == {c \in Cell : IsNewline(c)}

VARIABLES
    disk,              \* the feature file
    at, pending,       \* the stream: its place in the file, and its buffer
    failed,            \* its fail bit
    pc, job,           \* of each thread: where it is, and its line and path
    features_written,
    carve_cache, carved_file_count,
    files,             \* the carved files
    histogram,         \* in memory
    disable_incremental_histograms,
    phase,
    gpos,              \* where the feature file is being read
    histogram_files,   \* that this process wrote
    disk_full,
    calls, crashes,
    recovered,         \* history: the whole lines found when the file was opened
    returned,          \* history: the lines whose write() did not throw since
    refused,           \* history: the line with which the stream failed
    wrapped,           \* history: a search for the last newline met IntSpan
    unadded            \* history: features that found no memory

stream == <<at, pending, failed>>
carving == <<carve_cache, carved_file_count, files>>
report == <<phase, gpos, histogram_files>>
history == <<recovered, returned, refused, wrapped, unadded>>
limits == <<calls, crashes, disable_incremental_histograms>>
vars == <<disk, stream, pc, job, features_written, carving, histogram, report,
          disk_full, limits, history>>

NoJob == [line |-> Banner, path |-> NoPath]
NoTally == [f \in Feature |-> 0]
Plus(tally, f) == [tally EXCEPT ![f] = @ + 1]

(* What a new process has in memory.                                       *)
Start ==
    /\ pending' = <<>> /\ failed' = FALSE
    /\ pc' = [t \in Thread |-> "idle"]
    /\ job' = [t \in Thread |-> NoJob]
    /\ features_written' = 0
    /\ carve_cache' = {} /\ carved_file_count' = 0
    /\ histogram' = NoTally
    /\ disable_incremental_histograms' \in BOOLEAN
    /\ phase' = "scanning" /\ gpos' = 0 /\ histogram_files' = <<>>
    /\ returned' = <<>> /\ refused' = <<>> /\ unadded' = NoTally

Init ==
    /\ disk = <<>> /\ at = 0
    /\ pending = <<>> /\ failed = FALSE
    /\ pc = [t \in Thread |-> "idle"]
    /\ job = [t \in Thread |-> NoJob]
    /\ features_written = 0
    /\ carve_cache = {} /\ carved_file_count = 0
    /\ files = [p \in Path |-> NoData]
    /\ histogram = NoTally
    /\ disable_incremental_histograms \in BOOLEAN
    /\ phase = "scanning" /\ gpos = 0 /\ histogram_files = <<>>
    /\ disk_full = FALSE
    /\ calls = 0 /\ crashes = 0
    /\ recovered = <<>> /\ returned = <<>> /\ refused = <<>>
    /\ wrapped = FALSE /\ unadded = NoTally

-----------------------------------------------------------------------------
(* The file.                                                               *)
Newlines(d) == {i \in DOMAIN d : IsNewline(d[i])}
Lines(d) == LET ends == SelectIn(d, Newline) IN [i \in DOMAIN ends |-> ends[i][1]]

(* The constructor looks for the last newline from the end, and for the    *)
(* beginning, where its position, as an int, is 0.                         *)
(* Mutations: it starts at the end; it starts at the beginning.            *)
EndOfFile(d) == Len(d)
Beginning(d) == 0
LastNewline(d) ==
    LET last == Max({i \in 0 .. Len(d) : i % IntSpan = 0 \/ i \in Newlines(d)})
    IN  IF last % IntSpan = 0 THEN 0 ELSE last

(* It meets IntSpan: after the last newline, or right at it.               *)
MeetsIntSpan(d) ==
    \E i \in 1 .. Len(d) : i % IntSpan = 0 /\ \A j \in Newlines(d) : j <= i

(* The first n cells of out go to the file, over what is there.            *)
Put(out, n) ==
    disk' = SubSeq(disk, 1, at) \o SubSeq(out, 1, n) \o SubSeq(disk, at + n + 1, Len(disk))

(* Mutation: the position moves over what is still in the buffer.          *)
DrainTooFar(out, n) ==
    /\ Put(out, n)
    /\ at' = at + Len(out)
    /\ pending' = SubSeq(out, n + 1, Len(out))
Drain(out, n) ==
    /\ Put(out, n)
    /\ at' = at + n
    /\ pending' = SubSeq(out, n + 1, Len(out))

-----------------------------------------------------------------------------
(* A call goes on, or returns.                                             *)
GoTo(t, where) ==
    /\ pc' = [pc EXCEPT ![t] = where]
    /\ job' = [job EXCEPT ![t] = IF where = "idle" THEN NoJob ELSE @]

(* A scanner calls write().  features_written is atomic and is read only   *)
(* when all is written, so it is counted here.                             *)
Write(t, f) ==
    /\ phase = "scanning" /\ pc[t] = "idle" /\ calls < MaxCalls
    /\ calls' = calls + 1
    /\ features_written' = features_written + 1
    /\ job' = [job EXCEPT ![t] = [line |-> <<f, NoData>>, path |-> NoPath]]
    /\ pc' = [pc EXCEPT ![t] = "write0"]
    /\ UNCHANGED <<disk, stream, carving, histogram, report, disk_full, crashes,
                   disable_incremental_histograms, history>>

(* Mutation: the hash is looked up and not inserted.                       *)
CheckOnly(d) == UNCHANGED carve_cache
CheckAndInsert(d) == carve_cache' = carve_cache \cup {d}

(* carve(): the directory is that of the file's number, the name is not.   *)
Carve(t, o) ==
    /\ phase = "scanning" /\ pc[t] = "idle" /\ calls < MaxCalls
    /\ calls' = calls + 1
    /\ features_written' = features_written + 1
    /\ CheckAndInsert(data[o])
    /\ LET in_cache == data[o] \in carve_cache
           path     == <<carved_file_count \div files_per_dir, filename[o]>>
       IN  /\ carved_file_count' = carved_file_count + IF in_cache THEN 0 ELSE 1
           /\ job' = [job EXCEPT ![t] =
                         IF in_cache THEN [line |-> <<CACHED, data[o]>>, path |-> NoPath]
                                     ELSE [line |-> <<path, data[o]>>, path |-> path]]
    /\ pc' = [pc EXCEPT ![t] = "write0"]
    /\ UNCHANGED <<disk, stream, files, histogram, report, disk_full, crashes,
                   disable_incremental_histograms, history>>

(* write0() appends the line to the stream under Mios, after the banner if *)
(* the file is at its beginning; any part of the buffer may go to the file.*)
Buffered(t) ==
    pending \o (IF at = 0 /\ pending = <<>> THEN Cells(Banner) ELSE <<>>)
            \o Cells(job[t].line)

AfterWrite(t) == IF job[t].path = NoPath THEN "idle" ELSE "open"

Write0(t) ==
    /\ pc[t] = "write0"
    /\ ~failed
    /\ LET out == Buffered(t)
       IN  \E n \in (IF disk_full THEN {0} ELSE 0 .. Len(out)) : Drain(out, n)
    /\ returned' = Append(returned, job[t].line)
    /\ GoTo(t, IF disable_incremental_histograms THEN AfterWrite(t) ELSE "histogram")
    /\ UNCHANGED <<failed, features_written, carving, histogram, report,
                   disk_full, limits, recovered, refused, wrapped, unadded>>

(* When the disk is full, what does not fit is lost, the stream fails for  *)
(* good, and write0() throws DiskWriteError, then and ever after.          *)
Write0Throws(t) ==
    /\ pc[t] = "write0"
    /\ \/ failed /\ UNCHANGED <<disk, at, refused>>
       \/ /\ ~failed /\ disk_full
          /\ \E n \in 0 .. Len(Buffered(t)) : Put(Buffered(t), n) /\ at' = at + n
          /\ refused' = <<job[t].line>>
    /\ failed' = TRUE /\ pending' = <<>>
    /\ GoTo(t, "idle")
    /\ UNCHANGED <<features_written, carving, histogram, report, disk_full,
                   limits, recovered, returned, wrapped, unadded>>

(* The incremental histogram, which may find no memory, and throws.        *)
AddFeature(t) ==
    /\ pc[t] = "histogram"
    /\ histogram' = Plus(histogram, job[t].line[1])
    /\ GoTo(t, AfterWrite(t))
    /\ UNCHANGED <<disk, stream, features_written, carving, report, disk_full,
                   limits, history>>

AddFeatureThrows(t) ==
    /\ pc[t] = "histogram"
    /\ MemoryMayFail
    /\ unadded' = Plus(unadded, job[t].line[1])
    /\ GoTo(t, "idle")
    /\ UNCHANGED <<disk, stream, features_written, carving, histogram, report,
                   disk_full, limits, recovered, returned, refused, wrapped>>

(* carve() then writes the file, unless the line was a duplicate's.        *)
(* Mutation: the file is opened without truncating it.                     *)
Keep(old) == IF old = NoData THEN Empty ELSE old
Truncate(old) == Empty

OpenFile(t) ==
    /\ pc[t] = "open"
    /\ files' = [files EXCEPT ![job[t].path] = Truncate(@)]
    /\ GoTo(t, "data")
    /\ UNCHANGED <<disk, stream, features_written, carve_cache,
                   carved_file_count, histogram, report, disk_full, limits, history>>

OpenFails(t) ==
    /\ pc[t] = "open" /\ disk_full
    /\ GoTo(t, "idle")
    /\ UNCHANGED <<disk, stream, features_written, carving, histogram, report,
                   disk_full, limits, history>>

(* Two threads may have the same file open, and write over each other.     *)
Over(old, new) == IF old = Empty \/ (old \in Data /\ filesize[old] <= filesize[new])
                  THEN new ELSE Mixed

(* On a full disk the file is cut short, whether the code notices (bad())  *)
(* or not (the failure was close()'s, which sets fail() only).             *)
WriteData(t) ==
    /\ pc[t] = "data"
    /\ files' = [files EXCEPT ![job[t].path] =
                    IF disk_full THEN Cut ELSE Over(@, job[t].line[2])]
    /\ GoTo(t, "idle")
    /\ UNCHANGED <<disk, stream, features_written, carve_cache,
                   carved_file_count, histogram, report, disk_full, limits, history>>

-----------------------------------------------------------------------------
(* shutdown(), when the threads have been joined.  Whether the flush fails *)
(* is not looked at.                                                       *)
(* Mutation: nothing is flushed.                                           *)
FlushNothing == UNCHANGED <<disk, stream>>
Flush ==
    /\ \E n \in (IF disk_full THEN 0 ELSE Len(pending)) .. Len(pending) : Drain(pending, n)
    /\ UNCHANGED failed

Shutdown ==
    /\ phase = "scanning"
    /\ \A t \in Thread : pc[t] = "idle"
    /\ Flush
    /\ phase' = "shutdown"
    /\ UNCHANGED <<pc, job, features_written, carving, histogram, gpos,
                   histogram_files, disk_full, limits, history>>

(* histogram_write_from_memory() writes a file and clears the histogram.   *)
(* Mutation: it is not cleared.                                            *)
WriteUncleared ==
    /\ histogram_files' = Append(histogram_files, histogram)
    /\ UNCHANGED histogram
WriteFromMemory ==
    /\ histogram_files' = Append(histogram_files, histogram)
    /\ histogram' = NoTally

(* histogram_write_from_file() adds line by line, and writes a file when   *)
(* there is no memory.  A torn line at the end is read like the others;    *)
(* what is left of it counts for no feature here.                          *)
NextNewline == Min({i \in Newlines(disk) : i > gpos})
Unread == {i \in Newlines(disk) : i > gpos} # {}

ReadLine ==
    /\ phase = "shutdown" /\ disable_incremental_histograms
    /\ Unread
    /\ gpos' = NextNewline
    /\ LET f == disk[NextNewline][1][1]
       IN  \/ f = Header /\ UNCHANGED <<histogram, histogram_files, unadded>>
           \/ f # Header /\ histogram' = Plus(histogram, f)
                         /\ UNCHANGED <<histogram_files, unadded>>
           \/ f # Header /\ MemoryMayFail /\ WriteFromMemory /\ unadded' = Plus(unadded, f)
    /\ UNCHANGED <<disk, stream, pc, job, features_written, carving, phase,
                   disk_full, limits, recovered, returned, refused, wrapped>>

Report ==
    /\ phase = "shutdown"
    /\ ~(disable_incremental_histograms /\ Unread)
    /\ WriteFromMemory
    /\ phase' = "done"
    /\ UNCHANGED <<disk, stream, pc, job, features_written, carving, gpos,
                   disk_full, limits, history>>

-----------------------------------------------------------------------------
DiskFills ==
    /\ DiskMayFill /\ ~disk_full /\ phase = "scanning"
    /\ disk_full' = TRUE
    /\ UNCHANGED <<disk, stream, pc, job, features_written, carving, histogram,
                   report, limits, history>>

(* The process dies, with carved files half written, and is run again; the *)
(* constructor opens the feature file.                                     *)
Crash ==
    /\ crashes < MaxCrashes /\ phase # "done"
    /\ Start
    /\ at' = LastNewline(disk)
    /\ recovered' = Lines(disk)
    /\ wrapped' = (wrapped \/ MeetsIntSpan(disk))
    /\ \E half \in SUBSET {job[t].path : t \in {u \in Thread : pc[u] = "data"}} :
          files' = [p \in Path |-> IF p \in half THEN Cut ELSE files[p]]
    /\ crashes' = crashes + 1
    /\ UNCHANGED <<disk, disk_full, calls>>

Done == phase = "done" /\ UNCHANGED vars

Next ==
    \/ \E t \in Thread :
          \/ \E f \in Text : Write(t, f)
          \/ \E o \in Object : Carve(t, o)
          \/ Write0(t) \/ Write0Throws(t)
          \/ AddFeature(t) \/ AddFeatureThrows(t)
          \/ OpenFile(t) \/ OpenFails(t) \/ WriteData(t)
    \/ Shutdown \/ ReadLine \/ Report
    \/ DiskFills \/ Crash \/ Done

Spec == Init /\ [][Next]_vars

-----------------------------------------------------------------------------
TypeOK ==
    /\ disk \in Seq(Cell) /\ pending \in Seq(Cell)
    /\ at \in 0 .. Len(disk)
    /\ pc \in [Thread -> {"idle", "write0", "histogram", "open", "data"}]
    /\ job \in [Thread -> [line : Line \cup {Banner}, path : Path \cup {NoPath}]]
    /\ {failed, disable_incremental_histograms, disk_full} \subseteq BOOLEAN
    /\ features_written \in 0 .. MaxCalls
    /\ carve_cache \subseteq Data
    /\ carved_file_count \in 0 .. MaxCalls
    /\ files \in [Path -> Data \cup {NoData, Empty, Cut, Mixed}]
    /\ {histogram, unadded} \subseteq [Feature -> Nat]
    /\ phase \in {"scanning", "shutdown", "done"}
    /\ gpos \in 0 .. Len(disk)
    /\ histogram_files \in Seq([Feature -> Nat])
    /\ calls \in 0 .. MaxCalls /\ crashes \in 0 .. MaxCrashes
    /\ recovered \in Seq(Line \cup {Banner}) /\ returned \in Seq(Line)
    /\ refused \in Seq(Line) /\ wrapped \in BOOLEAN

(* Wherever a crash or a full disk tears a line, and whatever is written   *)
(* over its remains, every newline of the file ends a whole line that      *)
(* begins the file or follows another newline; and a line that is on the   *)
(* disk stays there, in its place, through crashes, restarts and errors.   *)
(* The file only ever gets longer by whole lines.  There is one exception: *)
(* a restart whose search meets a multiple of IntSpan starts over at the   *)
(* beginning, in the lines of before.                                      *)
WholeLines(d) ==
    \A i \in Newlines(d) :
        LET l == d[i][1]
            b == i - Width(l)
        IN  /\ b >= 0 /\ SubSeq(d, b + 1, i) = Cells(l)
            /\ b = 0 \/ IsNewline(d[b])
LinesKept ==
    [][~wrapped' => WholeLines(disk') /\ IsPrefix(Lines(disk), Lines(disk'))]_vars

(* At any time, and however the disk fails, the file has the lines it had  *)
(* when it was opened and after them those that write() took, in the order *)
(* of their writing, up to some point, and nothing after a gap: the line   *)
(* with which the stream failed can only be the last.  After a shutdown on *)
(* a disk that did not fill up it has all of them, and features_written is *)
(* their number; on one that did, how many nobody is told.                 *)
Features(lines) == SelectIn(lines, Line)
InOrder == ~wrapped =>
    IsPrefix(Features(Lines(disk)), Features(recovered) \o returned \o refused)
AllWritten ==
    phase # "scanning" /\ ~disk_full =>
        /\ ~wrapped => Features(Lines(disk)) = Features(recovered) \o returned
        /\ features_written = Len(returned)

(* The feature file is in order, and the histogram files together count    *)
(* each feature as often as it occurs there (kept in memory: as it was     *)
(* written since the last start), but for those that found no memory.      *)
Occurrences(lines, f) == Cardinality({i \in DOMAIN lines : lines[i][1] = f})
Reported(f) == SumOf([i \in DOMAIN histogram_files |-> histogram_files[i][f]], DOMAIN histogram_files)
Recorded == IF disable_incremental_histograms THEN Lines(disk) ELSE returned
HistogramExact ==
    /\ InOrder
    /\ AllWritten
    /\ phase = "done" =>
          \A f \in Feature : Reported(f) + unadded[f] = Occurrences(Recorded, f)

(* When nothing has failed, a file that one line of the feature file names *)
(* has the bytes with that line's hash, also where an earlier process had  *)
(* left another file, or half of one.                                      *)
FilesMatch ==
    phase # "scanning" /\ ~disk_full /\ unadded = NoTally =>
        \A i \in DOMAIN returned :
            returned[i][1] \in Path /\ Occurrences(returned, returned[i][1]) = 1
                => files[returned[i][1]] = returned[i][2]

(* Of equal objects one is carved and named, whatever threads find them at *)
(* the same time; the others are reported as its duplicates, and the file  *)
(* that is named has the object.                                           *)
Named(d) == {i \in DOMAIN returned : returned[i][1] \in Path /\ returned[i][2] = d}
CarvedOnce ==
    /\ FilesMatch
    /\ \A d \in Data : Cardinality(Named(d)) <= 1
    /\ phase # "scanning" /\ ~disk_full =>
          \A i \in DOMAIN returned : returned[i][1] = CACHED => Named(returned[i][2]) # {}

(* feature_recorder.cpp:270: "we no longer carve to forensic path or       *)
(* actual path. Now we carve sequential numbers."  So no two objects share *)
(* a file.                                                                 *)
EachItsFile ==
    \A d, e \in Data : \A i \in Named(d), j \in Named(e) :
        returned[i][1] = returned[j][1] => d = e
=============================================================================
