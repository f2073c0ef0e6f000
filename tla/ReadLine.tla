------------------------------ MODULE ReadLine ------------------------------
(***************************************************************************)
(* read_line of src/bufferio.c: one buffer, shared by every file the       *)
(* program reads, refilled by sliding the current line to its front and    *)
(* grown when a line fills it.  The static variables of the function and   *)
(* the globals buffer and buffer_size are the variables here; the stream   *)
(* is its content, a position and an end-of-file flag.  A call is a        *)
(* sequence of steps, because its loop is where the indices can go wrong.  *)
(***************************************************************************)
EXTENDS Integers, Sequences

CONSTANTS
  InitBufferSize,  \* INIT_BUFFER_SIZE, 4096 in rrep.h
  Files,           \* the contents a file may have
  Bytes,           \* the bytes the contents are made of
  Newline, Nul,    \* '\n' and '\0'
  Junk,            \* a byte nobody has written (fresh memory)
  Chunks,          \* what process_file may copy back through the buffer at once
  Binary,          \* whether OPT_BINARY is set
  Faults,          \* the failures that may happen: "read", "realloc"
  MaxOpens         \* bound: how often a caller starts to read a file

ASSUME BufferAssumption == InitBufferSize \in Nat /\ InitBufferSize >= 2
ASSUME ByteAssumption ==
  /\ Files \subseteq Seq(Bytes)
  /\ Newline \in Bytes
  /\ Nul \in Bytes
  /\ Junk \notin Bytes
  /\ Chunks \subseteq Seq(Bytes)
ASSUME OptionAssumption == Binary \in BOOLEAN /\ MaxOpens \in Nat

VARIABLES
  buffer,        \* function on 0 .. buffer_size-1
  buffer_size,
  start,         \* start of the line in buffer
  search_pos,    \* search position for the end of the line
  buffer_fill,   \* number of characters read into buffer
  null_replace,  \* the byte under the terminator behind the line
  line,          \* the caller's pointer to the line, an index or NullPtr
  file, fpos, eof, \* the stream: content, bytes consumed, feof
  pc,            \* "closed", "ready" (between calls), "search" (in the loop)
  ret,           \* result of the last call, as in LineStream
  taken, text,   \* history: bytes handed out, and the line handed out last
  opens          \* number of times a file was opened

static == <<start, search_pos, buffer_fill, null_replace>>
stream == <<file, fpos, eof>>
history == <<taken, text>>
vars == <<buffer, buffer_size, static, line, stream, pc, ret, history, opens>>

NullPtr == -1

Delims == IF Binary THEN {Newline, Nul} ELSE {Newline}

-----------------------------------------------------------------------------
(* The stream.  fread transfers all it is asked for unless the file ends   *)
(* (then it sets the end-of-file flag) or an error stops it.               *)

Remaining == Len(file) - fpos

\* The number of bytes a successful fread of n bytes transfers.
Nr(n) == IF n <= Remaining THEN n ELSE Remaining

\* buf after k bytes of the stream have been stored from index dst on.
Loaded(buf, dst, k) ==
  [i \in DOMAIN buf |->
     IF i >= dst /\ i < dst + k THEN file[fpos + (i - dst) + 1] ELSE buf[i]]

Fread(buf, dst, n) ==
  /\ buffer' = Loaded(buf, dst, Nr(n))
  /\ fpos' = fpos + Nr(n)
  /\ eof' = IF Nr(n) < n THEN TRUE ELSE eof
  /\ UNCHANGED file

\* A short read with ferror set: read_line closes the stream and fails.
FreadError(buf, dst, n) ==
  /\ "read" \in Faults
  /\ \E k \in 0 .. (n - 1) :
       /\ k <= Remaining
       /\ buffer' = Loaded(buf, dst, k)
       /\ fpos' = fpos + k
  /\ UNCHANGED <<file, eof>>
  /\ pc' = "closed"
  /\ ret' = "error"

-----------------------------------------------------------------------------
Init ==
  /\ buffer = [i \in 0 .. (InitBufferSize - 1) |-> Junk]
  /\ buffer_size = InitBufferSize
  /\ start = 0 /\ search_pos = 1 /\ buffer_fill = 0 /\ null_replace = Nul
  /\ line = NullPtr
  /\ file = <<>> /\ fpos = 0 /\ eof = FALSE
  /\ pc = "closed"
  /\ ret = "idle"
  /\ taken = 0 /\ text = <<>>
  /\ opens = 0

\* A caller opens or rewinds a file and sets line to NULL.  It may do so
\* before the previous file is read to its end: a binary file is given up at
\* its first null character, and one that matches may be left at the match.
OpenFile(f) ==
  /\ pc \in {"closed", "ready"}
  /\ opens < MaxOpens
  /\ opens' = opens + 1
  /\ line' = NullPtr
  /\ file' = f /\ fpos' = 0 /\ eof' = FALSE
  /\ pc' = "ready"
  /\ ret' = "open"
  /\ taken' = 0 /\ text' = <<>>
  /\ UNCHANGED <<buffer, buffer_size, static>>

\* When a file has been read to its end, process_file may copy a temporary file
\* back, with the same buffer: fread stores a chunk of it from the front on.
CopyBack(c) ==
  /\ pc = "closed" /\ ret = "eof"
  /\ Len(c) <= buffer_size
  /\ buffer' = [i \in DOMAIN buffer |-> IF i < Len(c) THEN c[i + 1] ELSE buffer[i]]
  /\ UNCHANGED <<buffer_size, static, line, stream, pc, ret, history, opens>>

\* Mutant: the buffer is filled to its last byte, no room for a terminator.
FirstCallFillsAll ==
  /\ pc = "ready" /\ line = NullPtr
  /\ start' = 0 /\ search_pos' = 1
  /\ Fread(buffer, 0, buffer_size)
  /\ buffer_fill' = Nr(buffer_size)
  /\ pc' = "search"
  /\ UNCHANGED <<buffer_size, null_replace, line, ret, history, opens>>

\* The call that finds *line = NULL: reset the statics, fill the buffer.
FirstCall ==
  /\ pc = "ready" /\ line = NullPtr
  /\ start' = 0 /\ search_pos' = 1
  /\ UNCHANGED <<buffer_size, null_replace, line, history, opens>>
  /\ \/ /\ Fread(buffer, 0, buffer_size - 1)
        /\ buffer_fill' = Nr(buffer_size - 1)
        /\ pc' = "search"
        /\ UNCHANGED ret
     \/ /\ FreadError(buffer, 0, buffer_size - 1)
        /\ buffer_fill' = 0

\* Mutant: the end of the stream is taken for the end of the buffer.
EndReachedEarly ==
  /\ pc = "ready" /\ line # NullPtr
  /\ eof
  /\ line' = NullPtr
  /\ start' = 0 /\ search_pos' = 1 /\ buffer_fill' = 0 /\ null_replace' = Nul
  /\ pc' = "closed"
  /\ ret' = "eof"
  /\ UNCHANGED <<buffer, buffer_size, stream, history, opens>>

\* The call after the last line.
EndReached ==
  /\ pc = "ready" /\ line # NullPtr
  /\ eof /\ search_pos >= buffer_fill
  /\ line' = NullPtr
  /\ start' = 0 /\ search_pos' = 1 /\ buffer_fill' = 0 /\ null_replace' = Nul
  /\ pc' = "closed"
  /\ ret' = "eof"
  /\ UNCHANGED <<buffer, buffer_size, stream, history, opens>>

\* Mutant: the byte under the terminator is not put back.
NextCallNoRestore ==
  /\ pc = "ready" /\ line # NullPtr
  /\ ~(eof /\ search_pos >= buffer_fill)
  /\ start' = search_pos
  /\ search_pos' = search_pos + 1
  /\ pc' = "search"
  /\ UNCHANGED <<buffer, buffer_size, buffer_fill, null_replace, line, stream,
                 ret, history, opens>>

\* Any other call: put back the byte under the terminator and go on from it.
NextCall ==
  /\ pc = "ready" /\ line # NullPtr
  /\ ~(eof /\ search_pos >= buffer_fill)
  /\ buffer' = [buffer EXCEPT ![search_pos] = null_replace]
  /\ start' = search_pos
  /\ search_pos' = search_pos + 1
  /\ pc' = "search"
  /\ UNCHANGED <<buffer_size, buffer_fill, null_replace, line, stream, ret,
                 history, opens>>

-----------------------------------------------------------------------------
(* The search loop.  *)

Exhausted == search_pos >= buffer_fill
AtDelim == ~Exhausted /\ buffer[search_pos - 1] \in Delims

Advance ==
  /\ pc = "search"
  /\ ~Exhausted /\ ~AtDelim
  /\ search_pos' = search_pos + 1
  /\ UNCHANGED <<buffer, buffer_size, start, buffer_fill, null_replace, line,
                 stream, pc, ret, history, opens>>

\* End of buffer, and the line does not start at its front: slide it there.
Slide ==
  LET slid == [i \in DOMAIN buffer |-> IF i < buffer_fill - start
                                       THEN buffer[start + i] ELSE buffer[i]]
      pos  == search_pos - start
      room == buffer_size - pos - 1
  IN /\ pc = "search"
     /\ Exhausted /\ ~eof /\ start > 0
     /\ search_pos' = pos
     /\ UNCHANGED <<buffer_size, null_replace, line, history, opens>>
     /\ \/ /\ Fread(slid, pos, room)
           /\ buffer_fill' = buffer_fill + Nr(room) - start
           /\ start' = 0
           /\ UNCHANGED <<pc, ret>>
        \/ /\ FreadError(slid, pos, room)
           /\ UNCHANGED <<start, buffer_fill>>

\* Mutant: the block grows and buffer_size does not.
GrowKeepsSize ==
  /\ pc = "search"
  /\ Exhausted /\ ~eof /\ start = 0
  /\ Fread([i \in 0 .. (buffer_size + InitBufferSize - 1) |->
              IF i < buffer_size THEN buffer[i] ELSE Junk],
           search_pos, InitBufferSize)
  /\ buffer_fill' = buffer_fill + Nr(InitBufferSize)
  /\ UNCHANGED <<buffer_size, start, search_pos, null_replace, line, pc, ret,
                 history, opens>>

\* Mutant: the buffer is handled as if the slide had made room in it.
GrowNothing ==
  /\ pc = "search"
  /\ Exhausted /\ ~eof /\ start = 0
  /\ UNCHANGED vars

\* End of buffer, and the line fills all of it: reallocate.
Grow ==
  LET grown == [i \in 0 .. (buffer_size + InitBufferSize - 1) |->
                  IF i < buffer_size THEN buffer[i] ELSE Junk]
  IN /\ pc = "search"
     /\ Exhausted /\ ~eof /\ start = 0
     /\ UNCHANGED <<start, search_pos, null_replace, line, history, opens>>
     /\ \/ /\ Fread(grown, search_pos, InitBufferSize)
           /\ buffer_size' = buffer_size + InitBufferSize
           /\ buffer_fill' = buffer_fill + Nr(InitBufferSize)
           /\ UNCHANGED <<pc, ret>>
        \/ /\ FreadError(grown, search_pos, InitBufferSize)
           /\ buffer_size' = buffer_size + InitBufferSize
           /\ UNCHANGED buffer_fill
        \/ /\ "realloc" \in Faults
           /\ pc' = "closed" /\ ret' = "error"
           /\ UNCHANGED <<buffer, buffer_size, buffer_fill, stream>>

\* End of line found, or file complete: terminate the line and return it.
Return ==
  /\ pc = "search"
  /\ AtDelim \/ (Exhausted /\ eof)
  /\ line' = start
  /\ null_replace' = buffer[search_pos]
  /\ buffer' = [buffer EXCEPT ![search_pos] = Nul]
  /\ text' = [i \in 1 .. (search_pos - start) |-> buffer[start + i - 1]]
  /\ taken' = taken + (search_pos - start)
  /\ pc' = "ready"
  /\ ret' = "line"
  /\ UNCHANGED <<buffer_size, start, search_pos, buffer_fill, stream, opens>>

Call == FirstCall \/ EndReached \/ NextCall
Step == Advance \/ Slide \/ Grow \/ Return

Next ==
  \/ \E f \in Files : OpenFile(f)
  \/ \E c \in Chunks : CopyBack(c)
  \/ Call \/ Step

Spec == Init /\ [][Next]_vars

\* The function is sequential code and its callers loop on it until it
\* returns END_REACHED or FAILURE, so calls and steps keep happening.
FairSpec == Spec /\ WF_vars(Call \/ Step)
-----------------------------------------------------------------------------
(* Correctness.  *)

\* The caller holds a line, and a terminator covers the byte behind it.
Held == pc = "ready" /\ line # NullPtr

\* Position of the file that index i of the buffer holds.
At(i) == fpos - buffer_fill + i + 1

\* Types: the buffer is always a block of buffer_size bytes, the indices are
\* unsigned, the stream position is inside the file.
TypeOK ==
  /\ buffer_size \in Nat /\ buffer_size >= InitBufferSize
  /\ buffer \in [0 .. (buffer_size - 1) -> Bytes \cup {Junk}]
  /\ start \in Nat /\ search_pos \in Nat /\ buffer_fill \in Nat
  /\ null_replace \in Bytes \cup {Junk}
  /\ line \in Nat \cup {NullPtr}
  /\ file \in Seq(Bytes) /\ fpos \in 0 .. Len(file) /\ eof \in BOOLEAN
  /\ pc \in {"closed", "ready", "search"}
  /\ ret \in {"idle", "open", "line", "eof", "error"}
  /\ (pc \in {"ready", "search"} => ret \in {"open", "line"})
  /\ taken \in Nat /\ opens \in Nat

\* Every index read_line dereferences is inside the allocated buffer, whatever
\* mixture of slides and reallocations came before: there is always room for
\* the terminator behind the data, and the unsigned differences
\* buffer_fill - start and buffer_size - search_pos - 1 do not wrap.
InBounds ==
  (pc = "search" \/ Held) =>
     /\ start < search_pos
     /\ search_pos <= buffer_size - 1
     /\ buffer_fill <= buffer_size - 1
     /\ (pc = "search" /\ ~eof) => start <= buffer_fill

\* The buffer is a window of the file that ends where the stream stands; only
\* the byte under the terminator is elsewhere, in null_replace.  This is what
\* the slide, the reallocation and the restored byte must preserve.
Window ==
  (pc = "search" \/ Held) =>
     /\ buffer_fill <= fpos
     /\ \A i \in 0 .. (buffer_fill - 1) :
          IF Held /\ i = search_pos THEN null_replace = file[At(i)]
                                   ELSE buffer[i] = file[At(i)]

\* The line under construction starts at the first byte that has not been
\* handed out, and no delimiter has been passed over in it.
LineBegun ==
  /\ (pc = "ready" /\ ~Held) => fpos = 0 /\ taken = 0 /\ eof = FALSE
  /\ pc = "search" =>
       /\ taken = fpos - buffer_fill + start
       /\ \A i \in start .. (search_pos - 2) : buffer[i] \notin Delims
  /\ Held => taken = fpos - buffer_fill + search_pos \/ file = <<>>

\* When the loop looks for the end of the buffer it has it all: short of the
\* end of the file the buffer is full, and at its end nothing is left unread.
Filled ==
  (pc = "search" \/ Held) =>
     /\ ~eof => buffer_fill = buffer_size - 1
     /\ eof => fpos = Len(file)
     /\ search_pos <= buffer_fill
          \/ (file = <<>> /\ eof)
     /\ (Held /\ search_pos = buffer_fill) => eof
     /\ Held => line = start

\* The inductive invariant of read_line.
IInv == TypeOK /\ InBounds /\ Window /\ LineBegun /\ Filled

\* read_line hands out a file that is not empty exactly as LineStream says:
\* every byte once and in order, each line cut at the first delimiter,
\* END_REACHED only after the last byte.
LS == INSTANCE LineStream
ImplementsLineStream == LS!Spec

\* A caller that keeps calling gets to END_REACHED or FAILURE: neither the
\* refill nor the reallocation can go on for ever without progress.
AlwaysEnds == <>[](pc = "closed")

\* The comment above read_line: SUCCESS if a line could be placed at the
\* pointer, otherwise END_REACHED at the end of the file.  An empty file has
\* no line to place.
EmptyFileHasNoLine == file = <<>> => ret # "line"
=============================================================================
