----------------------------- MODULE PathPrinter -----------------------------
(***************************************************************************)
(* path_printer: it decodes the image along one forensic path and prints   *)
(* the bytes the path names.  The path is consumed from the front: an      *)
(* offset slices the buffer, the name of a scanner runs that scanner,      *)
(* whose recurse() comes back here with what it decoded, and PRINT prints  *)
(* and throws, so that no scanner goes on after the printing.              *)
(*                                                                         *)
(* The call stack is the main variable, as in SerialScan.  A path is a     *)
(* sequence of parts: offsets (numbers), Scanner, Unknown and PRINT; the   *)
(* content of a buffer is abstracted to its size and to its trail, the     *)
(* parts that led to it.  What a scanner decodes, what the image reader    *)
(* returns and the lines of a client are chosen freely.                    *)
(***************************************************************************)
EXTENDS Integers, Sequences, FiniteSets, SequencesExt

CONSTANTS
    Scanner,         \* names of scanners
    Unknown,         \* a name that is no scanner's
    PRINT,           \* the part that ends the decoding
    Offset,          \* offsets that occur in paths
    Suffix,          \* ends of paths: <<"none", "raw" or "hex", the size after
                     \* a colon or 0>>
    RangeHeader,     \* the Range headers of HTTP clients, as <<first, last>>
    NoRange,         \* no such header
    Lengths,         \* image_size, process_path_bufsize and the default length
    DecodedSize,     \* sizes of what scanners decode
    Modulus,         \* 2^64 for size_t
    MaxParts,        \* bound: parts of a path
    MaxRequests,     \* bound: paths that are displayed
    MaxRecursions    \* bound: recursions of one call of a scanner

image_size == Lengths[1]
process_path_bufsize == Lengths[2]
DEFAULT_CONTENT_LENGTH == Lengths[3]

ASSUME NumbersAssumption ==
    /\ Modulus \in Nat
    /\ Offset \cup DecodedSize \subseteq 0 .. (Modulus - 1)
    /\ Suffix \subseteq {"none", "raw", "hex"} \X (0 .. (Modulus - 1))
    /\ RangeHeader \subseteq (0 .. (Modulus - 1)) \X (0 .. (Modulus - 1))
    /\ Lengths \in (0 .. (Modulus - 1)) \X (1 .. (Modulus - 1)) \X (0 .. (Modulus - 1))
    /\ {MaxParts, MaxRequests, MaxRecursions} \subseteq Nat
ASSUME NamesAssumption ==
    /\ NoRange \notin RangeHeader
    /\ {Unknown, PRINT} \cap (Scanner \cup Offset) = {}
    /\ Scanner \cap Offset = {}

VARIABLES
    pc,              \* where the innermost call is, or where the client's is
    stack,           \* the calls, innermost first
    po,              \* the PrintOptions of the request
    asked,           \* the path of the request
    server,          \* process_path(), process_interactive() or process_http()
    eof,             \* state of the client's stream
    os,              \* path_printer::os, where the printing goes
    out,             \* path_printer::out
    sbufs,           \* sbufs that are allocated
    requests,        \* history: number of paths displayed
    failed           \* history: an exception has left display_path()

history == <<requests, failed>>
client == <<po, asked, server, eof, out, requests, failed>>
vars == <<pc, stack, po, asked, server, eof, os, out, sbufs, history>>

Part == Offset \cup Scanner \cup {Unknown, PRINT}
(* The paths that are asked for: a first part that is no number counts as  *)
(* offset 0, and is left out.                                              *)
Paths == {path \in UNION {[1 .. n -> Part] : n \in 0 .. MaxParts} :
            path # <<>> => path[1] \in Offset}
DefaultOptions == [print_mode |-> "none", range |-> NoRange, content_length |-> 0]

Init ==
    /\ pc = "idle" /\ stack = <<>>
    /\ po = DefaultOptions /\ asked = <<>>
    /\ server = "none" /\ eof = "no"
    /\ os = <<>> /\ out = <<>>
    /\ sbufs = 0
    /\ requests = 0 /\ failed = FALSE

Top == Head(stack)

(* The value of the first part of a path for stoi64(): 0 for a name.       *)
FirstToken(path) == IF path = <<>> THEN 0 ELSE Head(path)
Rest(path) == IF path = <<>> THEN <<>> ELSE Tail(path)
Number(part) == IF part \in Offset THEN part ELSE 0

(* What a path names: its parts up to the first PRINT; and whether a part  *)
(* of it follows a scanner.                                                *)
FirstPrint(path) == SelectInSeq(path, LAMBDA part : part = PRINT)
UpToPrint(path) ==
    IF FirstPrint(path) = 0 THEN path ELSE SubSeq(path, 1, FirstPrint(path) - 1)
Named(path) == <<Number(FirstToken(path))>> \o UpToPrint(Rest(path))
DecodesFurther(path) ==
    \E i, j \in DOMAIN Named(path) : i < j /\ Named(path)[i] \in Scanner

-----------------------------------------------------------------------------
(* display_path(): what the reader reads at the offset of the first part.  *)
(* The buffer is cut to the bytes that were read, by a realloc() that may  *)
(* return null for no bytes, and then throws.                              *)
Reads(offset) ==
    IF offset >= image_size THEN 0
    ELSE IF image_size - offset < process_path_bufsize THEN image_size - offset
    ELSE process_path_bufsize
FirstFrame(path) ==
    [kind |-> "display", path |-> Append(Rest(path), PRINT),
     trail |-> <<Number(FirstToken(path))>>, size |-> Reads(Number(FirstToken(path))),
     left |-> 0]

(* An item of output: the answer to a request, with the length that is     *)
(* announced, the number of bytes that follow, and whether the length was  *)
(* left to the printer or comes from a Range with a first and a last byte. *)
ReadError == [request |-> requests', announced |-> 0, sent |-> 0,
              plain |-> TRUE, further |-> FALSE]

DisplayPath(path, options) ==
    /\ asked' = path
    /\ po' = options
    /\ \/ /\ pc' = "call"
          /\ stack' = <<FirstFrame(path)>>
          /\ sbufs' = sbufs + 1
          /\ UNCHANGED os
       \/ /\ pc' = "displayed"                                 \* read error
          /\ UNCHANGED <<stack, sbufs>>
          /\ os' = Append(os, ReadError)
       \/ /\ Reads(Number(FirstToken(path))) = 0                  \* bad_alloc
          /\ pc' = "error"
          /\ sbufs' = sbufs + 1
          /\ UNCHANGED <<stack, os>>
    /\ UNCHANGED <<out, failed>>

(* display_path() returns after the printing, or without any.              *)
DisplayPathReturns ==
    /\ pc \in {"returning", "finished"} /\ Len(stack) = 1
    /\ pc' = "displayed"
    /\ stack' = <<>>
    /\ sbufs' = sbufs - 1
    /\ UNCHANGED <<os, client>>

-----------------------------------------------------------------------------
(* process_sp(), called with the path and the sbuf of the innermost frame. *)
Call(frame) == stack' = <<frame>> \o stack

Prefix == FirstToken(Top.path)
NewPath == Rest(Top.path)
TimeToPrint == Top.path = <<>> \/ Prefix = PRINT \/ Top.path = <<0, PRINT>>

(* The extent that is printed.  The sizes are unsigned: a Range without a  *)
(* last byte wraps around.                                                 *)
(* Mutation: an extent that begins after the end is not emptied.           *)
PrintStart == IF po.range = NoRange THEN 0 ELSE po.range[1]
RangeLength ==
    IF po.range = NoRange THEN DEFAULT_CONTENT_LENGTH
    ELSE (po.range[2] - po.range[1] + 1) % Modulus
ClippedUnchecked(size) ==
    IF RangeLength > 0 /\ (PrintStart + RangeLength) % Modulus > size
    THEN (size - PrintStart) % Modulus ELSE RangeLength
Clipped(size) ==
    IF PrintStart > size THEN 0
    ELSE IF RangeLength > 0 /\ (PrintStart + RangeLength) % Modulus > size
    THEN size - PrintStart ELSE RangeLength
ContentLength(size) ==
    IF po.content_length # 0 THEN po.content_length ELSE Clipped(size)

(* raw_dump() and hex_dump() stop at the end of the sbuf.                  *)
Dumped(size) ==
    {i \in 0 .. (size - 1) :
        PrintStart <= i /\ i < (PrintStart + ContentLength(size)) % Modulus}
Item == [request |-> requests, announced |-> ContentLength(Top.size),
         sent |-> Cardinality(Dumped(Top.size)),
         plain |-> /\ po.content_length = 0
                   /\ po.range # NoRange => /\ po.range[1] <= po.range[2]
                                            /\ po.range[2] < Modulus - 1,
         further |-> DecodesFurther(asked)]

PrintSbuf ==
    /\ pc = "call" /\ TimeToPrint
    /\ pc' = "finished"
    /\ os' = IF po.print_mode = "none" THEN os ELSE Append(os, Item)
    /\ UNCHANGED <<stack, sbufs, client>>

(* An offset: a slice up to the end, which is printed or decoded further.  *)
SkipToOffset ==
    /\ pc = "call" /\ ~TimeToPrint
    /\ Prefix \in Offset /\ Prefix <= Top.size
    /\ Call([kind |-> "offset", path |-> NewPath, trail |-> Append(Top.trail, Prefix),
             size |-> Top.size - Prefix, left |-> 0])
    /\ sbufs' = sbufs + 1
    /\ UNCHANGED <<pc, os, client>>

(* The name of a scanner: it is called on a slice of the whole sbuf.       *)
CallScanner ==
    /\ pc = "call" /\ ~TimeToPrint
    /\ Prefix \in Scanner
    /\ Call([kind |-> "scanner", path |-> NewPath, trail |-> Append(Top.trail, Prefix),
             size |-> Top.size, left |-> MaxRecursions])
    /\ sbufs' = sbufs + 1
    /\ pc' = "scanning"
    /\ UNCHANGED <<os, client>>

(* An offset behind the end, or a scanner that get_scanner_by_name() does  *)
(* not find, is an exception.                                              *)
BadPart ==
    /\ pc = "call" /\ ~TimeToPrint
    /\ Prefix = Unknown \/ (Prefix \in Offset /\ Prefix > Top.size)
    /\ pc' = "error"
    /\ UNCHANGED <<stack, os, sbufs, client>>

-----------------------------------------------------------------------------
(* The scanner, and recurse() with a path printer.                         *)
Recurse(size) ==
    /\ pc = "scanning" /\ Top.left > 0
    /\ stack' = <<[Top EXCEPT !.kind = "recurse", !.size = size],
                  [Top EXCEPT !.left = @ - 1]>> \o Tail(stack)
    /\ sbufs' = sbufs + 1
    /\ pc' = "call"
    /\ UNCHANGED <<os, client>>
ScannerReturns ==
    /\ pc = "scanning"
    /\ pc' = "returning"
    /\ UNCHANGED <<stack, os, sbufs, client>>
ScannerThrows ==
    /\ pc = "scanning"
    /\ pc' = "error"
    /\ UNCHANGED <<stack, os, sbufs, client>>

(* recurse() returns to the scanner, or deletes its sbuf and throws again. *)
(* Mutation: it forgets to delete the sbuf when it throws again.           *)
RecurseForgets ==
    /\ Len(stack) > 1 /\ Top.kind = "recurse"
    /\ \/ pc = "returning" /\ pc' = "scanning" /\ sbufs' = sbufs - 1
       \/ pc = "finished" /\ UNCHANGED <<pc, sbufs>>
    /\ stack' = Tail(stack)
    /\ UNCHANGED <<os, client>>
RecurseReturns ==
    /\ Len(stack) > 1 /\ Top.kind = "recurse"
    /\ \/ pc = "returning" /\ pc' = "scanning"
       \/ pc = "finished" /\ UNCHANGED pc
    /\ stack' = Tail(stack)
    /\ sbufs' = sbufs - 1
    /\ UNCHANGED <<os, client>>

(* The slice of an offset or of a scanner is deleted, and the exception of *)
(* the printing is caught: the caller sees an ordinary return.             *)
(* Mutation: the handler deletes the slice, and so does what follows it.   *)
DeleteTwice ==
    /\ Len(stack) > 1 /\ Top.kind \in {"offset", "scanner"}
    /\ pc \in {"returning", "finished"}
    /\ pc' = "returning"
    /\ stack' = Tail(stack)
    /\ sbufs' = IF pc = "finished" THEN sbufs - 2 ELSE sbufs - 1
    /\ UNCHANGED <<os, client>>
ProcessSpReturns ==
    /\ Len(stack) > 1 /\ Top.kind \in {"offset", "scanner"}
    /\ pc \in {"returning", "finished"}
    /\ pc' = "returning"
    /\ stack' = Tail(stack)
    /\ sbufs' = sbufs - 1
    /\ UNCHANGED <<os, client>>

(* The locals of a request are gone with it.                               *)
Forget == po' = DefaultOptions /\ asked' = <<>>

(* Other exceptions have no handler, up to the caller of process_path():   *)
(* nothing is deleted on the way.                                          *)
Unwind ==
    /\ pc = "error"
    /\ stack' = <<>>
    /\ pc' = "idle" /\ server' = "none" /\ eof' = "no"
    /\ failed' = TRUE
    /\ Forget
    /\ UNCHANGED <<os, out, sbufs, requests>>

-----------------------------------------------------------------------------
(* The three ways to ask for paths.                                        *)
CountRequest == requests < MaxRequests /\ requests' = requests + 1

ProcessPath(path, suffix) ==
    /\ pc = "idle"
    /\ CountRequest
    /\ DisplayPath(path, [DefaultOptions EXCEPT !.print_mode = suffix[1],
                                              !.content_length = suffix[2]])
    /\ UNCHANGED <<server, eof>>

(* Mutation: what was printed before is printed again.                     *)
FlushAgain ==
    /\ out' = out \o os
    /\ UNCHANGED os
Flush ==
    /\ out' = out \o os
    /\ os' = <<>>
ProcessPathReturns ==
    /\ pc = "displayed" /\ server = "none"
    /\ pc' = "idle"
    /\ Flush
    /\ Forget
    /\ UNCHANGED <<stack, server, eof, sbufs, history>>

StartServer(kind) ==
    /\ pc = "idle"
    /\ server' = kind /\ eof' = "no"
    /\ pc' = "serving"
    /\ UNCHANGED <<stack, po, asked, os, out, sbufs, history>>
ServerReturns ==
    /\ pc' = "idle" /\ server' = "none" /\ eof' = "no"
    /\ UNCHANGED <<stack, po, asked, os, out, sbufs, history>>
NextRequest ==
    /\ pc = "displayed" /\ server # "none"
    /\ pc' = "serving"
    /\ Forget
    /\ UNCHANGED <<stack, server, eof, os, out, sbufs, history>>

(* process_interactive(): a path, or "." or the end of the stream.         *)
(* Mutation: it does not see the end of the stream.                        *)
InteractiveLine(path) ==
    /\ pc = "serving" /\ server = "interactive"
    /\ CountRequest
    /\ DisplayPath(path, [DefaultOptions EXCEPT !.print_mode = "hex"])
    /\ UNCHANGED <<server, eof>>
InteractiveEndless ==
    /\ pc = "serving" /\ server = "interactive"
    /\ UNCHANGED vars
InteractiveEnd ==
    /\ pc = "serving" /\ server = "interactive"
    /\ ServerReturns

(* process_http(): a GET line, header lines, and an empty line.  A line    *)
(* that the end of the stream cuts off sets eof; then getline() leaves the *)
(* string alone, and the loop over the headers reads the same line again.  *)
HttpGet(path, cut) ==
    /\ pc = "serving" /\ server = "http" /\ eof = "no"
    /\ CountRequest
    /\ asked' = path
    /\ po' = [DefaultOptions EXCEPT !.print_mode = "http"]
    /\ pc' = "headers"
    /\ eof' = IF cut THEN "inside" ELSE "no"
    /\ UNCHANGED <<stack, server, os, out, sbufs, failed>>
HttpHeader(range, cut) ==
    /\ pc = "headers" /\ eof = "no"
    /\ po.range = NoRange             \* bound: one header that has an effect
    /\ po' = [po EXCEPT !.range = range]
    /\ eof' = IF cut THEN "inside" ELSE "no"
    /\ UNCHANGED <<pc, stack, asked, server, os, out, sbufs, history>>
HttpSameLine ==
    /\ pc = "headers" /\ eof = "inside"
    /\ UNCHANGED vars
HttpDisplay(end) ==
    /\ pc = "headers" /\ eof = "no"
    /\ UNCHANGED <<server, requests>>
    /\ DisplayPath(asked, po)
    /\ eof' = end
(* /info with its header lines, which is answered from the reader alone.   *)
HttpInfo(end) ==
    /\ pc = "serving" /\ server = "http" /\ eof = "no"
    /\ CountRequest
    /\ eof' = end
    /\ UNCHANGED <<pc, stack, po, asked, server, os, out, sbufs, failed>>
(* Anything else, or the end of the stream, ends the server.               *)
HttpEnd ==
    /\ pc = "serving" /\ server = "http"
    /\ ServerReturns

-----------------------------------------------------------------------------
ProgramStep ==
    \/ DisplayPathReturns
    \/ PrintSbuf \/ SkipToOffset \/ CallScanner \/ BadPart
    \/ RecurseReturns \/ ProcessSpReturns \/ Unwind
    \/ ProcessPathReturns \/ NextRequest \/ HttpSameLine
ScannerStep == ScannerReturns \/ ScannerThrows \/ \E size \in DecodedSize : Recurse(size)
ClientStep ==
    \/ \E path \in Paths : InteractiveLine(path)
    \/ InteractiveEnd
    \/ \E path \in Paths, cut \in BOOLEAN : HttpGet(path, cut)
    \/ \E range \in RangeHeader, cut \in BOOLEAN : HttpHeader(range, cut)
    \/ \E end \in {"no", "between"} : HttpDisplay(end) \/ HttpInfo(end)
    \/ HttpEnd
Next ==
    \/ ProgramStep \/ ScannerStep \/ ClientStep
    \/ \E path \in Paths, suffix \in Suffix : ProcessPath(path, suffix)
    \/ \E kind \in {"interactive", "http"} : StartServer(kind)

(* The program keeps running, a scanner's call ends, and a client sends    *)
(* its next line or closes its stream.                                     *)
Spec == Init /\ [][Next]_vars
            /\ WF_vars(ProgramStep) /\ WF_vars(ScannerStep) /\ WF_vars(ClientStep)

-----------------------------------------------------------------------------
TypeOK ==
    /\ pc \in {"idle", "serving", "headers", "call", "scanning", "returning",
               "finished", "error", "displayed"}
    /\ \A i \in DOMAIN stack :
          /\ stack[i].kind \in {"display", "offset", "scanner", "recurse"}
          /\ stack[i].path \in Seq(Part) /\ stack[i].trail \in Seq(Part \cup {0})
          /\ stack[i].size \in 0 .. (Modulus - 1) /\ stack[i].left \in 0 .. MaxRecursions
    /\ asked \in Paths
    /\ server \in {"none", "interactive", "http"}
    /\ eof \in {"no", "between", "inside"}
    /\ sbufs \in Nat /\ requests \in 0 .. MaxRequests /\ failed \in BOOLEAN

(* Each call holds exactly one sbuf, whatever mixture of returns and of    *)
(* the exception that follows the printing ends the calls; so nothing is   *)
(* left of a request.  Other exceptions leak what they pass.               *)
SbufsDeleted == ~failed /\ pc # "error" => sbufs = Len(stack)

(* What is printed is what the path names: its parts have been applied in  *)
(* their order and once each, by whatever detour the scanners took (a last *)
(* offset 0 is not applied).  And a request prints once, unless some part  *)
(* of its path follows a scanner, although the scanner would go on to      *)
(* other data; also what was left over from an earlier request is not      *)
(* printed again.                                                          *)
Output == out \o os
PrintsNamedOnce ==
    /\ pc = "call" /\ TimeToPrint =>
          Named(asked) \in {Top.trail, Append(Top.trail, 0)}
    /\ \A i, j \in DOMAIN Output :
          Output[i].request = Output[j].request
             => i = j \/ Output[i].further

(* A client that is announced a length is sent no more bytes, and exactly  *)
(* as many unless it has given a size of its own or a Range without a last *)
(* byte, or with -1 for it, wherever the Range lies in the buffer.         *)
LengthAnnounced ==
    \A i \in DOMAIN Output :
        /\ Output[i].sent <= Output[i].announced
        /\ Output[i].plain => Output[i].sent = Output[i].announced

(* A request is answered with the bytes that its path names, once, and     *)
(* with as many of them as were announced.                                 *)
PrintsAsAsked == PrintsNamedOnce /\ LengthAnnounced

(* Every request comes to its end, unless a client's stream ends inside a  *)
(* line of an HTTP request.                                                *)
Returns == pc # "idle" ~> pc = "idle" \/ eof = "inside"
=============================================================================
