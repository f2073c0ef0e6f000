--------------------------- MODULE ReadLineProofs ---------------------------
(***************************************************************************)
(* read_line keeps its buffer a window of the file for every file, every   *)
(* initial buffer size and every sequence of failures, and it implements   *)
(* LineStream for the files that are not empty.                            *)
(***************************************************************************)
EXTENDS ReadLine, TLAPS

\* What the buffer may hold.
AnyByte == Bytes \cup {Junk}

-----------------------------------------------------------------------------
(* What fread does to the buffer.  *)

\* Nr is the smaller of what was asked for and what the file has left.
LEMMA NrBounds ==
  ASSUME TypeOK, NEW n \in Nat
  PROVE  /\ Nr(n) \in Nat
         /\ Nr(n) <= n
         /\ fpos + Nr(n) \in 0 .. Len(file)
         /\ Nr(n) < n => fpos + Nr(n) = Len(file)
BY DEF TypeOK, Nr, Remaining

\* Storing bytes of the file in a buffer leaves it a buffer of the same size,
\* with the stream's bytes where they were stored and the old ones elsewhere.
LEMMA LoadedIs ==
  ASSUME TypeOK, NEW m \in Nat, NEW buf \in [0 .. (m - 1) -> AnyByte],
         NEW dst \in Nat, NEW k \in Nat, fpos + k \in 0 .. Len(file)
  PROVE  /\ Loaded(buf, dst, k) \in [0 .. (m - 1) -> AnyByte]
         /\ \A i \in 0 .. (m - 1) :
              /\ i \in dst .. (dst + k - 1)
                   => Loaded(buf, dst, k)[i] = file[fpos + (i - dst) + 1]
              /\ i \notin dst .. (dst + k - 1) => Loaded(buf, dst, k)[i] = buf[i]
<1>1. \A i \in 0 .. (m - 1) : i >= dst /\ i < dst + k
        => fpos + (i - dst) + 1 \in 1 .. Len(file)
  BY DEF TypeOK
<1>2. \A j \in 1 .. Len(file) : file[j] \in AnyByte
  BY DEF TypeOK, AnyByte
<1>3. DOMAIN buf = 0 .. (m - 1)
  OBVIOUS
<1>4. Loaded(buf, dst, k) \in [0 .. (m - 1) -> AnyByte]
  BY <1>1, <1>2, <1>3 DEF Loaded
<1>5. QED
  BY <1>3, <1>4 DEF Loaded

\* A successful fread of n bytes: what it stores, and when it meets the end.
LEMMA FreadIs ==
  ASSUME TypeOK, NEW m \in Nat, NEW buf \in [0 .. (m - 1) -> AnyByte],
         NEW dst \in Nat, NEW n \in Nat, Fread(buf, dst, n)
  PROVE  /\ Nr(n) \in Nat /\ Nr(n) <= n
         /\ fpos' = fpos + Nr(n) /\ fpos' \in 0 .. Len(file) /\ file' = file
         /\ eof' \in BOOLEAN
         /\ Nr(n) < n => eof' = TRUE /\ fpos' = Len(file)
         /\ Nr(n) = n => eof' = eof
         /\ buffer' \in [0 .. (m - 1) -> AnyByte]
         /\ \A i \in 0 .. (m - 1) :
              /\ i \in dst .. (dst + Nr(n) - 1)
                   => buffer'[i] = file[fpos + (i - dst) + 1]
              /\ i \notin dst .. (dst + Nr(n) - 1) => buffer'[i] = buf[i]
<1>1. /\ Nr(n) \in Nat /\ Nr(n) <= n
      /\ fpos + Nr(n) \in 0 .. Len(file)
      /\ Nr(n) < n => fpos + Nr(n) = Len(file)
  BY NrBounds
<1>2. /\ buffer' = Loaded(buf, dst, Nr(n))
      /\ fpos' = fpos + Nr(n)
      /\ eof' = IF Nr(n) < n THEN TRUE ELSE eof
      /\ file' = file
  BY DEF Fread
<1>3. eof \in BOOLEAN
  BY DEF TypeOK
<1>4. /\ buffer' \in [0 .. (m - 1) -> AnyByte]
      /\ \A i \in 0 .. (m - 1) :
           /\ i \in dst .. (dst + Nr(n) - 1)
                => buffer'[i] = file[fpos + (i - dst) + 1]
           /\ i \notin dst .. (dst + Nr(n) - 1) => buffer'[i] = buf[i]
  BY <1>1, <1>2, LoadedIs
<1>5. /\ eof' \in BOOLEAN
      /\ Nr(n) < n => eof' = TRUE
      /\ Nr(n) = n => eof' = eof
  <2>1. Nr(n) = n => ~(Nr(n) < n)
    BY <1>1
  <2> QED
    BY <1>2, <1>3, <2>1, Zenon
<1>6. QED
  BY <1>1, <1>2, <1>4, <1>5

\* A failed read leaves a buffer and a stream position.
LEMMA FreadErrorType ==
  ASSUME TypeOK, NEW m \in Nat, NEW buf \in [0 .. (m - 1) -> AnyByte],
         NEW dst \in Nat, NEW n \in Nat, FreadError(buf, dst, n)
  PROVE  /\ buffer' \in [0 .. (m - 1) -> AnyByte]
         /\ fpos' \in 0 .. Len(file)
         /\ UNCHANGED <<file, eof>> /\ pc' = "closed" /\ ret' = "error"
<1>1. PICK k \in 0 .. (n - 1) : /\ k <= Remaining
                                /\ buffer' = Loaded(buf, dst, k)
                                /\ fpos' = fpos + k
  BY DEF FreadError
<1>2. k \in Nat /\ fpos + k \in 0 .. Len(file)
  BY <1>1 DEF TypeOK, Remaining
<1>3. Loaded(buf, dst, k) \in [0 .. (m - 1) -> AnyByte]
  BY <1>2, LoadedIs
<1>4. QED
  BY <1>1, <1>2, <1>3 DEF FreadError

-----------------------------------------------------------------------------
(* The inductive invariant, one lemma per action.  *)

\* With the stream closed the invariant asks for the types only.
LEMMA ClosedInv ==
  ASSUME TypeOK', pc' = "closed"
  PROVE  IInv'
<1>1. pc' # "search" /\ pc' # "ready" /\ ~Held'
  BY DEF Held
<1> QED
  BY <1>1 DEF IInv, InBounds, Window, LineBegun, Filled

\* At first the buffer is empty.
LEMMA InitInv == Init => IInv
<1> SUFFICES ASSUME Init
             PROVE  IInv
  OBVIOUS
<1>1. TypeOK
  <2>1. /\ Nul \in Bytes /\ Newline \in Bytes
        /\ InitBufferSize \in Nat /\ InitBufferSize >= 2
    BY BufferAssumption, ByteAssumption
  <2>2. eof \in BOOLEAN
    BY Zenon DEF Init
  <2>3. file = <<>> /\ fpos = 0
    BY Zenon DEF Init
  <2>4. file \in Seq(Bytes) /\ fpos \in 0 .. Len(file)
    BY <2>3
  <2> QED
    BY <2>1, <2>2, <2>4 DEF Init, TypeOK, NullPtr
<1>2. pc = "closed" /\ ~Held
  BY DEF Init, Held
<1> QED
  BY <1>1, <1>2 DEF IInv, InBounds, Window, LineBegun, Filled

\* Another file begins with the buffer the last one left.
LEMMA OpenFileInv ==
  ASSUME IInv, NEW f \in Files, OpenFile(f)
  PROVE  IInv'
<1>1. f \in Seq(Bytes) /\ TypeOK
  BY ByteAssumption DEF IInv
<1>2. /\ line' = NullPtr /\ file' = f /\ fpos' = 0 /\ eof' = FALSE
      /\ pc' = "ready" /\ ret' = "open" /\ taken' = 0 /\ opens' = opens + 1
      /\ UNCHANGED <<buffer, buffer_size, start, search_pos, buffer_fill,
                     null_replace>>
  BY DEF OpenFile, static
<1>3. TypeOK'
  <2>1. eof' \in BOOLEAN
    BY <1>2
  <2>2. fpos' \in 0 .. Len(file') /\ file' \in Seq(Bytes)
    BY <1>1, <1>2
  <2> QED
    BY <1>1, <1>2, <2>1, <2>2 DEF TypeOK
<1>4. ~Held' /\ pc' = "ready"
  BY <1>2 DEF Held
<1>5. QED
  BY <1>2, <1>3, <1>4 DEF IInv, InBounds, Window, LineBegun, Filled

\* Copying a temporary file back only changes what the buffer holds, between
\* two files.
LEMMA CopyBackInv ==
  ASSUME IInv, NEW c \in Chunks, CopyBack(c)
  PROVE  IInv'
<1>1. c \in Seq(Bytes) /\ TypeOK
  BY ByteAssumption DEF IInv
<1>2. /\ Len(c) <= buffer_size
      /\ buffer' = [i \in DOMAIN buffer |-> IF i < Len(c) THEN c[i + 1] ELSE buffer[i]]
      /\ UNCHANGED <<buffer_size, start, search_pos, buffer_fill, null_replace, line,
                     file, fpos, eof, pc, ret, taken, opens>>
      /\ pc' = "closed"
  BY DEF CopyBack, static, stream, history
<1>3. buffer' \in [0 .. (buffer_size - 1) -> Bytes \cup {Junk}]
  <2>1. buffer \in [0 .. (buffer_size - 1) -> Bytes \cup {Junk}] /\ buffer_size \in Nat
    BY <1>1 DEF TypeOK
  <2>2. \A i \in 0 .. (buffer_size - 1) : i < Len(c) => c[i + 1] \in Bytes
    BY <1>1, <2>1
  <2> QED
    BY <1>2, <2>1, <2>2
<1>4. TypeOK'
  BY <1>1, <1>2, <1>3 DEF TypeOK
<1> QED
  BY <1>2, <1>4, ClosedInv

\* A file with no bytes is the empty sequence.
LEMMA EmptyFile == TypeOK /\ Len(file) = 0 => file = <<>>
BY DEF TypeOK

\* The first call for a file fills the buffer, or fails.
LEMMA FirstCallInv ==
  ASSUME IInv, FirstCall
  PROVE  IInv'
<1> DEFINE n == buffer_size - 1
           k == Nr(n)
<1>1. n \in Nat /\ n >= 1 /\ TypeOK
  BY BufferAssumption DEF IInv, TypeOK
<1>2. buffer \in [0 .. (buffer_size - 1) -> AnyByte] /\ buffer_size \in Nat
  BY <1>1 DEF TypeOK, AnyByte
<1>3. fpos = 0 /\ taken = 0 /\ eof = FALSE /\ pc = "ready" /\ line = NullPtr
  BY DEF FirstCall, IInv, LineBegun, Held
<1>4. CASE /\ Fread(buffer, 0, n)
           /\ buffer_fill' = k
           /\ pc' = "search"
           /\ UNCHANGED ret
  <2>1. /\ k \in Nat /\ k <= n /\ fpos' = k /\ k \in 0 .. Len(file)
        /\ file' = file /\ eof' \in BOOLEAN
        /\ k < n => eof' = TRUE /\ k = Len(file)
        /\ k = n => eof' = FALSE
        /\ buffer' \in [0 .. (buffer_size - 1) -> AnyByte]
        /\ \A i \in 0 .. (k - 1) : buffer'[i] = file[i + 1]
    BY <1>1, <1>2, <1>3, <1>4, FreadIs
  <2>2. /\ start' = 0 /\ search_pos' = 1 /\ buffer_fill' = k /\ pc' = "search"
        /\ buffer_size' = buffer_size /\ taken' = 0 /\ line' = NullPtr
        /\ UNCHANGED <<null_replace, opens, ret>>
    BY <1>3, <1>4 DEF FirstCall, history
  <2>3. TypeOK'
    BY <1>1, <1>3, <2>1, <2>2 DEF TypeOK, AnyByte
  <2>4. InBounds' /\ ~Held'
    BY <1>1, <1>2, <2>1, <2>2 DEF InBounds, Held
  <2>5. Window'
    BY <1>2, <2>1, <2>2, <2>4 DEF Window, At
  <2>6. LineBegun'
    BY <2>1, <2>2, <2>4 DEF LineBegun
  <2>7. k >= 1 \/ (k < n /\ file = <<>>)
    BY <1>1, <2>1, EmptyFile DEF TypeOK
  <2>8. Filled'
    <3>1. CASE k < n
      BY <1>1, <2>1, <2>2, <2>4, <2>7, <3>1 DEF Filled
    <3>2. CASE k = n
      BY <1>1, <1>2, <2>1, <2>2, <2>4, <2>7, <3>2 DEF Filled
    <3> QED
      BY <1>1, <2>1, <3>1, <3>2
  <2> QED
    BY <2>3, <2>4, <2>5, <2>6, <2>8 DEF IInv
<1>5. CASE FreadError(buffer, 0, n) /\ buffer_fill' = 0
  <2>1. /\ buffer' \in [0 .. (buffer_size - 1) -> AnyByte]
        /\ fpos' \in 0 .. Len(file)
        /\ UNCHANGED <<file, eof>> /\ pc' = "closed" /\ ret' = "error"
    BY <1>1, <1>2, <1>5, FreadErrorType
  <2>2. /\ start' = 0 /\ search_pos' = 1 /\ buffer_fill' = 0
        /\ UNCHANGED <<buffer_size, null_replace, line, taken, opens>>
    BY <1>5 DEF FirstCall, history
  <2>3. TypeOK'
    BY <1>1, <2>1, <2>2 DEF TypeOK, AnyByte
  <2> QED
    BY <2>1, <2>3, ClosedInv
<1> QED
  BY <1>4, <1>5 DEF FirstCall

\* At the end of the file nothing is read.
LEMMA EndReachedInv ==
  ASSUME IInv, EndReached
  PROVE  IInv'
<1>1. TypeOK
  BY DEF IInv
<1>2. /\ start' = 0 /\ search_pos' = 1 /\ buffer_fill' = 0 /\ null_replace' = Nul
      /\ line' = NullPtr /\ pc' = "closed" /\ ret' = "eof"
      /\ UNCHANGED <<buffer, buffer_size, file, fpos, eof, taken, opens>>
  BY DEF EndReached, stream, history
<1>3. TypeOK'
  BY <1>1, <1>2, ByteAssumption DEF TypeOK
<1> QED
  BY <1>2, <1>3, ClosedInv

\* The next call begins behind the terminator.
LEMMA NextCallInv ==
  ASSUME IInv, NextCall
  PROVE  IInv'
<1>1. TypeOK /\ Held
  BY DEF IInv, NextCall, Held
<1>2. /\ start < search_pos /\ search_pos <= buffer_size - 1
      /\ buffer_fill <= buffer_size - 1 /\ buffer_fill <= fpos
      /\ ~eof => buffer_fill = buffer_size - 1
      /\ eof => fpos = Len(file)
      /\ taken = fpos - buffer_fill + search_pos \/ file = <<>>
  BY <1>1 DEF IInv, InBounds, Window, LineBegun, Filled
<1>3. search_pos < buffer_fill
  BY <1>1, <1>2 DEF NextCall, IInv, Filled, TypeOK
<1>4. file # <<>>
  BY <1>1, <1>2, <1>3 DEF TypeOK
<1>5. /\ buffer' = [buffer EXCEPT ![search_pos] = null_replace]
      /\ start' = search_pos /\ search_pos' = search_pos + 1
      /\ pc = "ready" /\ pc' = "search"
      /\ UNCHANGED <<buffer_size, buffer_fill, null_replace, line, file, fpos,
                     eof, ret, taken, opens>>
  BY DEF NextCall, stream, history
<1>6. TypeOK'
  BY <1>1, <1>2, <1>5 DEF TypeOK
<1>7. InBounds' /\ ~Held'
  BY <1>1, <1>2, <1>3, <1>5 DEF InBounds, Held, TypeOK
<1>8. Window'
  <2>1. \A i \in 0 .. (buffer_fill - 1) :
          IF i = search_pos THEN null_replace = file[At(i)]
                            ELSE buffer[i] = file[At(i)]
    BY <1>1 DEF IInv, Window
  <2>2. \A i \in 0 .. (buffer_fill - 1) : buffer'[i] = file[At(i)]
    BY <1>1, <1>2, <1>3, <1>5, <2>1 DEF TypeOK
  <2> QED
    BY <1>2, <1>5, <1>7, <2>2 DEF Window, At
<1>9. LineBegun'
  BY <1>1, <1>2, <1>4, <1>5, <1>7 DEF LineBegun, TypeOK
<1>10. Filled'
  BY <1>1, <1>2, <1>3, <1>5, <1>7 DEF Filled, TypeOK
<1> QED
  BY <1>6, <1>7, <1>8, <1>9, <1>10 DEF IInv

\* The search passes over a byte that is no delimiter.
LEMMA AdvanceInv ==
  ASSUME IInv, Advance
  PROVE  IInv'
<1>1. TypeOK /\ pc = "search" /\ ~Held
  BY DEF IInv, Advance, Held
<1>2. /\ search_pos' = search_pos + 1
      /\ search_pos < buffer_fill /\ buffer[search_pos - 1] \notin Delims
      /\ UNCHANGED <<buffer, buffer_size, start, buffer_fill, null_replace,
                     line, file, fpos, eof, pc, ret, taken, opens>>
  BY <1>1 DEF Advance, Exhausted, AtDelim, stream, history, TypeOK
<1>3. TypeOK' /\ ~Held' /\ pc' = "search"
  BY <1>1, <1>2 DEF TypeOK, Held
<1>4. InBounds'
  BY <1>1, <1>2, <1>3 DEF IInv, InBounds, TypeOK
<1>5. Window'
  BY <1>1, <1>2, <1>3 DEF IInv, Window, At
<1>6. LineBegun'
  BY <1>1, <1>2, <1>3 DEF IInv, LineBegun, TypeOK, Delims
<1>7. Filled'
  BY <1>1, <1>2, <1>3 DEF IInv, Filled, TypeOK
<1> QED
  BY <1>3, <1>4, <1>5, <1>6, <1>7 DEF IInv

\* The slide moves the window of the line to the front and goes on reading
\* into the room it made.
LEMMA SlideInv ==
  ASSUME IInv, Slide
  PROVE  IInv'
<1> DEFINE pos  == search_pos - start
           room == buffer_size - pos - 1
           k    == Nr(room)
           slid == [i \in DOMAIN buffer |-> IF i < buffer_fill - start
                                          THEN buffer[start + i] ELSE buffer[i]]
<1>1. TypeOK /\ pc = "search" /\ ~Held /\ ~eof /\ start > 0
  BY DEF IInv, Slide, Held
<1>2. /\ start < search_pos /\ search_pos = buffer_fill
      /\ buffer_fill = buffer_size - 1 /\ buffer_fill <= fpos
      /\ taken = fpos - buffer_fill + start
      /\ pos \in Nat /\ pos >= 1 /\ room \in Nat /\ room = start
      /\ buffer_size \in Nat /\ fpos \in Nat /\ search_pos \in Nat
      /\ start \in Nat /\ taken \in Nat /\ pos = search_pos - start
  BY <1>1 DEF Slide, Exhausted, IInv, InBounds, Window, LineBegun, Filled, TypeOK
<1>3. slid \in [0 .. (buffer_size - 1) -> AnyByte]
  BY <1>1, <1>2 DEF TypeOK, AnyByte
<1>4. \A i \in 0 .. (pos - 1) : slid[i] = buffer[start + i]
  BY <1>1, <1>2 DEF TypeOK
<1> HIDE DEF pos, room, k, slid
<1>5. CASE Fread(slid, pos, room) /\ buffer_fill' = buffer_fill + k - start
           /\ start' = 0 /\ UNCHANGED <<pc, ret>>
  <2>1. /\ k \in Nat /\ k <= room
        /\ fpos' = fpos + k /\ fpos' \in 0 .. Len(file) /\ file' = file
        /\ eof' \in BOOLEAN
        /\ k < room => eof' = TRUE /\ fpos' = Len(file)
        /\ k = room => eof' = FALSE
        /\ buffer' \in [0 .. (buffer_size - 1) -> AnyByte]
        /\ \A i \in 0 .. (buffer_size - 1) :
             /\ i \in pos .. (pos + k - 1) => buffer'[i] = file[fpos + (i - pos) + 1]
             /\ i \notin pos .. (pos + k - 1) => buffer'[i] = slid[i]
    <3>1. /\ k \in Nat /\ k <= room
          /\ fpos' = fpos + k /\ fpos' \in 0 .. Len(file) /\ file' = file
          /\ eof' \in BOOLEAN
          /\ k < room => eof' = TRUE /\ fpos' = Len(file)
          /\ k = room => eof' = eof
          /\ buffer' \in [0 .. (buffer_size - 1) -> AnyByte]
          /\ \A i \in 0 .. (buffer_size - 1) :
               /\ i \in pos .. (pos + k - 1)
                    => buffer'[i] = file[fpos + (i - pos) + 1]
               /\ i \notin pos .. (pos + k - 1) => buffer'[i] = slid[i]
      <4>1. TypeOK /\ buffer_size \in Nat /\ pos \in Nat /\ room \in Nat
        BY <1>1, <1>2
      <4> QED
        BY <1>3, <1>5, <4>1, FreadIs DEF k
    <3>2. eof = FALSE
      BY <1>1 DEF TypeOK
    <3> QED
      BY <3>1, <3>2
  <2>2. /\ start' = 0 /\ search_pos' = pos /\ buffer_fill' = buffer_fill + k - start
        /\ pc' = "search"
        /\ UNCHANGED <<buffer_size, null_replace, line, taken, opens, ret>>
    BY <1>1, <1>5 DEF Slide, history, pos
  <2>3. buffer_fill' = pos + k /\ buffer_fill' \in Nat
    <3>1. k \in Nat
      BY <2>1
    <3>2. buffer_fill' = buffer_fill + k - start
      BY <2>2
    <3>3. buffer_fill \in Int
      BY <1>2
    <3> QED
      BY <1>2, <3>1, <3>2, <3>3
  <2>4. TypeOK' /\ ~Held'
    BY <1>1, <1>2, <2>1, <2>2, <2>3 DEF TypeOK, AnyByte, Held
  <2>0. k \in Nat /\ k <= start /\ room = start
    BY <1>2, <2>1
  <2>5. InBounds'
    <3>1. /\ start' < search_pos' /\ search_pos' <= buffer_size' - 1
          /\ buffer_fill' <= buffer_size' - 1 /\ start' <= buffer_fill'
      BY <1>2, <2>0, <2>2, <2>3
    <3> QED
      BY <3>1 DEF InBounds
  <2>6. \A i \in 0 .. (pos + k - 1) : buffer'[i] = file[At(i)']
    <3> SUFFICES ASSUME NEW i \in 0 .. (pos + k - 1)
                 PROVE  buffer'[i] = file[At(i)']
      OBVIOUS
    <3>1. At(i)' = fpos + (i - pos) + 1 /\ i \in 0 .. (buffer_size - 1)
      BY <1>2, <2>1, <2>3 DEF At
    <3>2. CASE i >= pos
      BY <1>2, <2>1, <3>1, <3>2
    <3>3. CASE i < pos
      <4>1. i \in 0 .. (pos - 1) /\ i \notin pos .. (pos + k - 1)
        BY <1>2, <2>0, <3>3
      <4>2. buffer'[i] = buffer[start + i]
        BY <1>4, <2>1, <3>1, <4>1
      <4>3. start + i \in 0 .. (buffer_fill - 1) /\ At(start + i) = At(i)'
        BY <1>1, <1>2, <3>1, <3>3 DEF TypeOK, At
      <4>4. buffer[start + i] = file[At(start + i)]
        BY <1>1, <4>3 DEF IInv, Window
      <4> QED
        BY <4>2, <4>3, <4>4
    <3> QED
      BY <1>2, <3>2, <3>3
  <2>7. Window'
    <3>1. fpos' = fpos + k /\ file' = file
      BY <2>1
    <3>2. buffer_fill' <= fpos'
      BY <1>2, <2>0, <2>3, <3>1
    <3>3. ASSUME NEW i \in 0 .. (buffer_fill' - 1)
          PROVE  buffer'[i] = file'[At(i)']
      <4>1. i \in 0 .. (pos + k - 1)
        BY <1>2, <2>0, <2>3
      <4>2. buffer'[i] = file[At(i)']
        BY <2>6, <4>1, Zenon
      <4> QED
        BY <3>1, <4>2, Zenon
    <3> QED
      BY <2>4, <3>2, <3>3 DEF Window
  <2>8. LineBegun'
    <3>1. \A i \in 0 .. (pos - 2) : buffer'[i] = buffer[start + i]
      <4> SUFFICES ASSUME NEW i \in 0 .. (pos - 2)
                   PROVE  buffer'[i] = buffer[start + i]
        OBVIOUS
      <4>1. i \in 0 .. (pos - 1) /\ i \in 0 .. (buffer_size - 1)
            /\ i \notin pos .. (pos + k - 1)
        BY <1>2, <2>0
      <4>2. buffer'[i] = slid[i]
        BY <2>1, <4>1
      <4> QED
        BY <1>4, <4>1, <4>2
    <3>2. \A i \in 0 .. (pos - 2) : buffer[start + i] \notin Delims
      BY <1>1, <1>2 DEF IInv, LineBegun, TypeOK
    <3>3. taken' = fpos' - buffer_fill' + start'
      <4>1. fpos' = fpos + k /\ taken' = taken /\ start' = 0
        BY <2>1, <2>2
      <4> QED
        BY <1>2, <2>0, <2>3, <4>1
    <3> QED
      BY <2>2, <2>4, <3>1, <3>2, <3>3 DEF LineBegun, Delims
  <2>9. Filled'
    <3>1. CASE k < room
      BY <1>2, <2>1, <2>2, <2>3, <2>4, <3>1 DEF Filled
    <3>2. CASE k = room
      BY <1>2, <2>1, <2>2, <2>3, <2>4, <3>2 DEF Filled
    <3> QED
      BY <1>2, <2>0, <3>1, <3>2
  <2> QED
    BY <2>4, <2>5, <2>7, <2>8, <2>9 DEF IInv
<1>6. CASE FreadError(slid, pos, room) /\ UNCHANGED <<start, buffer_fill>>
  <2>1. /\ buffer' \in [0 .. (buffer_size - 1) -> AnyByte]
        /\ fpos' \in 0 .. Len(file)
        /\ UNCHANGED <<file, eof>> /\ pc' = "closed" /\ ret' = "error"
    BY <1>1, <1>2, <1>3, <1>6, FreadErrorType
  <2>2. search_pos' = pos
        /\ UNCHANGED <<buffer_size, null_replace, line, taken, opens>>
    BY <1>6 DEF Slide, history, pos
  <2>3. TypeOK'
    BY <1>1, <1>2, <1>6, <2>1, <2>2 DEF TypeOK, AnyByte
  <2> QED
    BY <2>1, <2>3, ClosedInv
<1> QED
  BY <1>5, <1>6 DEF Slide, pos, room, k, slid

\* The reallocation keeps the bytes, and the room behind them takes a whole
\* INIT_BUFFER_SIZE and the terminator.
LEMMA GrowInv ==
  ASSUME IInv, Grow
  PROVE  IInv'
<1> DEFINE B     == InitBufferSize
           size  == buffer_size + B
           k     == Nr(B)
           grown == [i \in 0 .. (buffer_size + B - 1) |->
                       IF i < buffer_size THEN buffer[i] ELSE Junk]
<1>1. TypeOK /\ pc = "search" /\ ~Held /\ ~eof /\ start = 0
  BY DEF IInv, Grow, Held
<1>2. /\ search_pos = buffer_fill /\ search_pos >= 1 /\ B \in Nat /\ B >= 2
      /\ buffer_fill = buffer_size - 1 /\ buffer_fill <= fpos
      /\ taken = fpos - buffer_fill
      /\ buffer_size \in Nat /\ fpos \in Nat /\ search_pos \in Nat
      /\ taken \in Nat /\ size = buffer_size + B /\ size \in Nat
  BY <1>1, BufferAssumption
     DEF Grow, Exhausted, IInv, InBounds, Window, LineBegun, Filled, TypeOK
<1> HIDE DEF k, size
<1>3. grown \in [0 .. (size - 1) -> AnyByte]
      /\ \A i \in 0 .. (buffer_size - 1) : grown[i] = buffer[i]
  <2>1. buffer \in [0 .. (buffer_size - 1) -> AnyByte] /\ Junk \in AnyByte
    BY <1>1 DEF TypeOK, AnyByte
  <2>2. grown = [i \in 0 .. (size - 1) |->
                   IF i < buffer_size THEN buffer[i] ELSE Junk]
    BY <1>2
  <2>3. \A i \in 0 .. (size - 1) : i < buffer_size => i \in 0 .. (buffer_size - 1)
    BY <1>2
  <2>4. grown \in [0 .. (size - 1) -> AnyByte]
    BY <2>1, <2>2, <2>3
  <2>5. \A i \in 0 .. (buffer_size - 1) : i \in 0 .. (size - 1) /\ i < buffer_size
    BY <1>2
  <2> QED
    BY <2>2, <2>4, <2>5
<1> HIDE DEF grown
<1>4. CASE Fread(grown, search_pos, B) /\ buffer_size' = size
           /\ buffer_fill' = buffer_fill + k /\ UNCHANGED <<pc, ret>>
  <2>1. /\ k \in Nat /\ k <= B
        /\ fpos' = fpos + k /\ fpos' \in 0 .. Len(file) /\ file' = file
        /\ eof' \in BOOLEAN
        /\ k < B => eof' = TRUE /\ fpos' = Len(file)
        /\ k = B => eof' = FALSE
        /\ buffer' \in [0 .. (size - 1) -> AnyByte]
        /\ \A i \in 0 .. (size - 1) :
             /\ i \in search_pos .. (search_pos + k - 1)
                  => buffer'[i] = file[fpos + (i - search_pos) + 1]
             /\ i \notin search_pos .. (search_pos + k - 1)
                  => buffer'[i] = grown[i]
    <3> HIDE DEF B
    <3>0. /\ TypeOK /\ size \in Nat /\ search_pos \in Nat /\ B \in Nat
          /\ grown \in [0 .. (size - 1) -> AnyByte] /\ Fread(grown, search_pos, B)
      BY <1>1, <1>2, <1>3, <1>4
    <3>1. /\ k \in Nat /\ k <= B
          /\ fpos' = fpos + k /\ fpos' \in 0 .. Len(file) /\ file' = file
          /\ eof' \in BOOLEAN
          /\ k < B => eof' = TRUE /\ fpos' = Len(file)
          /\ k = B => eof' = eof
          /\ buffer' \in [0 .. (size - 1) -> AnyByte]
          /\ \A i \in 0 .. (size - 1) :
               /\ i \in search_pos .. (search_pos + k - 1)
                    => buffer'[i] = file[fpos + (i - search_pos) + 1]
               /\ i \notin search_pos .. (search_pos + k - 1)
                    => buffer'[i] = grown[i]
      BY <3>0, FreadIs DEF k
    <3>2. eof = FALSE
      BY <1>1 DEF TypeOK
    <3> QED
      BY <3>1, <3>2
  <2>2. /\ start' = 0 /\ search_pos' = search_pos /\ pc' = "search"
        /\ buffer_size' = size
        /\ UNCHANGED <<null_replace, line, taken, opens, ret>>
    BY <1>1, <1>4 DEF Grow, history
  <2>3. buffer_fill' = search_pos + k /\ buffer_fill' \in Nat
    <3>1. k \in Nat
      BY <2>1
    <3> QED
      BY <1>2, <1>4, <3>1
  <2>4. TypeOK' /\ ~Held'
    BY <1>1, <1>2, <2>1, <2>2, <2>3 DEF TypeOK, AnyByte, Held
  <2>5. InBounds'
    <3>1. k \in Nat /\ k <= B
      BY <2>1
    <3>2. /\ start' < search_pos' /\ search_pos' <= buffer_size' - 1
          /\ buffer_fill' <= buffer_size' - 1 /\ start' <= buffer_fill'
      BY <1>2, <2>2, <2>3, <3>1
    <3> QED
      BY <3>2 DEF InBounds
  <2>6. \A i \in 0 .. (search_pos + k - 1) : buffer'[i] = file[At(i)']
    <3> SUFFICES ASSUME NEW i \in 0 .. (search_pos + k - 1)
                 PROVE  buffer'[i] = file[At(i)']
      OBVIOUS
    <3>1. At(i)' = fpos + (i - search_pos) + 1 /\ i \in 0 .. (size - 1)
      <4>1. k \in Nat /\ k <= B /\ fpos' = fpos + k
        BY <2>1
      <4> QED
        BY <1>2, <2>3, <4>1 DEF At
    <3>2. CASE i >= search_pos
      BY <1>2, <2>1, <3>1, <3>2
    <3>3. CASE i < search_pos
      <4>1. i \in 0 .. (buffer_size - 1) /\ i \notin search_pos .. (search_pos + k - 1)
        BY <1>2, <2>1, <3>3
      <4>2. buffer'[i] = buffer[i]
        BY <1>3, <2>1, <3>1, <4>1
      <4>3. i \in 0 .. (buffer_fill - 1) /\ At(i) = At(i)'
        BY <1>2, <3>1, <3>3 DEF At
      <4>4. buffer[i] = file[At(i)]
        BY <1>1, <4>3 DEF IInv, Window
      <4> QED
        BY <4>2, <4>3, <4>4
    <3> QED
      BY <1>2, <3>2, <3>3
  <2>7. Window'
    BY <1>2, <2>1, <2>3, <2>4, <2>6 DEF Window
  <2>8. LineBegun'
    <3>1. \A i \in 0 .. (search_pos - 2) : buffer'[i] = buffer[i]
      BY <1>2, <1>3, <2>1
    <3>2. \A i \in 0 .. (search_pos - 2) : buffer[i] \notin Delims
      BY <1>1, <1>2 DEF IInv, LineBegun, TypeOK
    <3>3. taken' = fpos' - buffer_fill' + start'
      BY <1>2, <2>1, <2>2, <2>3
    <3> QED
      BY <2>2, <2>4, <3>1, <3>2, <3>3 DEF LineBegun, Delims
  <2>9. Filled'
    <3>1. CASE k < B
      BY <1>2, <2>1, <2>2, <2>3, <2>4, <3>1 DEF Filled
    <3>2. CASE k = B
      BY <1>2, <2>1, <2>2, <2>3, <2>4, <3>2 DEF Filled
    <3> QED
      BY <1>2, <2>1, <3>1, <3>2
  <2> QED
    BY <2>4, <2>5, <2>7, <2>8, <2>9 DEF IInv
<1>5. CASE FreadError(grown, search_pos, B) /\ buffer_size' = size
           /\ UNCHANGED buffer_fill
  <2>1. /\ buffer' \in [0 .. (size - 1) -> AnyByte]
        /\ fpos' \in 0 .. Len(file)
        /\ UNCHANGED <<file, eof>> /\ pc' = "closed" /\ ret' = "error"
    BY <1>1, <1>2, <1>3, <1>5, FreadErrorType
  <2>2. UNCHANGED <<start, search_pos, null_replace, line, taken, opens>>
    BY <1>5 DEF Grow, history
  <2>3. TypeOK'
    BY <1>1, <1>2, <1>5, <2>1, <2>2 DEF TypeOK, AnyByte
  <2> QED
    BY <2>1, <2>3, ClosedInv
<1>6. CASE /\ pc' = "closed" /\ ret' = "error"
           /\ UNCHANGED <<buffer, buffer_size, buffer_fill, stream>>
  <2>1. UNCHANGED <<start, search_pos, null_replace, line, taken, opens>>
    BY <1>6 DEF Grow, history
  <2>2. TypeOK'
    BY <1>1, <1>6, <2>1 DEF TypeOK, stream
  <2> QED
    BY <1>6, <2>2, ClosedInv
<1> QED
  BY <1>4, <1>5, <1>6 DEF Grow, size, k, grown

\* The line is handed out up to the delimiter.
LEMMA ReturnInv ==
  ASSUME IInv, Return
  PROVE  IInv'
<1>1. TypeOK /\ pc = "search" /\ ~Held
  BY DEF IInv, Return, Held
<1>2. /\ start \in Nat /\ search_pos \in Nat /\ buffer_fill \in Nat
      /\ buffer_size \in Nat /\ fpos \in Nat /\ taken \in Nat
      /\ start < search_pos /\ search_pos <= buffer_size - 1
      /\ buffer_fill <= buffer_size - 1 /\ buffer_fill <= fpos
      /\ taken = fpos - buffer_fill + start
  BY <1>1 DEF IInv, InBounds, Window, LineBegun, TypeOK
<1>3. /\ line' = start /\ null_replace' = buffer[search_pos]
      /\ buffer' = [buffer EXCEPT ![search_pos] = Nul]
      /\ taken' = taken + (search_pos - start)
      /\ pc' = "ready" /\ ret' = "line"
      /\ UNCHANGED <<buffer_size, start, search_pos, buffer_fill, file, fpos,
                     eof, opens>>
  BY DEF Return, stream
<1>4. TypeOK'
  BY <1>1, <1>2, <1>3, ByteAssumption DEF TypeOK
<1>5. Held'
  BY <1>2, <1>3 DEF Held, NullPtr
<1>6. InBounds'
  BY <1>2, <1>3, <1>5 DEF InBounds
<1>7. Window'
  <2>1. \A i \in 0 .. (buffer_fill - 1) : buffer[i] = file[At(i)]
    BY <1>1 DEF IInv, Window
  <2>2. \A i \in 0 .. (buffer_fill - 1) : i # search_pos => buffer'[i] = buffer[i]
    BY <1>1, <1>2, <1>3 DEF TypeOK
  <2>3. \A i \in 0 .. (buffer_fill - 1) :
          IF i = search_pos THEN null_replace' = file[At(i)]
                            ELSE buffer'[i] = file[At(i)]
    BY <1>3, <2>1, <2>2
  <2> QED
    BY <1>2, <1>3, <1>5, <2>3 DEF Window, At
<1>8. LineBegun'
  BY <1>2, <1>3, <1>5 DEF LineBegun
<1>9. Filled'
  <2>1. (~eof => buffer_fill = buffer_size - 1) /\ (eof => fpos = Len(file))
        /\ (search_pos <= buffer_fill \/ (file = <<>> /\ eof))
    BY <1>1 DEF IInv, Filled
  <2>2. search_pos = buffer_fill => eof
    BY <1>2 DEF Return, Exhausted, AtDelim
  <2> QED
    BY <1>3, <1>5, <2>1, <2>2 DEF Filled
<1> QED
  BY <1>4, <1>6, <1>7, <1>8, <1>9 DEF IInv

\* Every reachable state of read_line satisfies the inductive invariant: its
\* indices stay in the buffer and the buffer stays a window of the file,
\* whatever the buffer size, the files and the failures.
THEOREM ReadLineInv == Spec => []IInv
<1>1. Init => IInv
  BY InitInv
<1>2. IInv /\ [Next]_vars => IInv'
  <2> SUFFICES ASSUME IInv, [Next]_vars
               PROVE  IInv'
    OBVIOUS
  <2>1. ASSUME NEW f \in Files, OpenFile(f) PROVE IInv'
    BY <2>1, OpenFileInv
  <2>2. CASE FirstCall
    BY <2>2, FirstCallInv
  <2>3. CASE EndReached
    BY <2>3, EndReachedInv
  <2>4. CASE NextCall
    BY <2>4, NextCallInv
  <2>5. CASE Advance
    BY <2>5, AdvanceInv
  <2>6. CASE Slide
    BY <2>6, SlideInv
  <2>7. CASE Grow
    BY <2>7, GrowInv
  <2>8. CASE Return
    BY <2>8, ReturnInv
  <2>9. CASE UNCHANGED vars
    BY <2>9 DEF vars, static, stream, history, IInv, TypeOK, InBounds, Window,
                LineBegun, Filled, Held, At, Delims
  <2>10. ASSUME NEW c \in Chunks, CopyBack(c) PROVE IInv'
    BY <2>10, CopyBackInv
  <2> QED
    BY <2>1, <2>2, <2>3, <2>4, <2>5, <2>6, <2>7, <2>8, <2>9, <2>10
    DEF Next, Call, Step
<1> QED
  BY <1>1, <1>2, PTL DEF Spec

\* No index that read_line dereferences ever leaves the buffer.
THEOREM ReadLineInBounds == Spec => []InBounds
<1>1. IInv => InBounds
  BY DEF IInv
<1> QED
  BY <1>1, ReadLineInv, PTL

\* The buffer is always a block of buffer_size bytes, and the stream stands
\* inside its file.
THEOREM ReadLineTypeCorrect == Spec => []TypeOK
<1>1. IInv => TypeOK
  BY DEF IInv
<1> QED
  BY <1>1, ReadLineInv, PTL

-----------------------------------------------------------------------------
(* The refinement.  *)

\* The stream is never that of an empty file once a file is open.
NoEmptyFile == file = <<>> => pc = "closed"

\* The line that Return hands out is the next one of the file.
LEMMA ReturnDelivers ==
  ASSUME IInv, NoEmptyFile, Return
  PROVE  LS!Deliver
<1> DEFINE p == taken + (search_pos - start)
<1>1. TypeOK /\ pc = "search" /\ ~Held /\ file # <<>>
  BY DEF IInv, Return, Held, NoEmptyFile
<1>2. /\ start \in Nat /\ search_pos \in Nat /\ buffer_fill \in Nat
      /\ fpos \in Nat /\ taken \in Nat /\ fpos <= Len(file) /\ Len(file) \in Nat
      /\ start < search_pos /\ search_pos <= buffer_fill /\ buffer_fill <= fpos
      /\ taken = fpos - buffer_fill + start
      /\ \A i \in start .. (search_pos - 2) : buffer[i] \notin Delims
      /\ \A i \in 0 .. (buffer_fill - 1) : buffer[i] = file[At(i)]
  BY <1>1 DEF IInv, InBounds, Window, LineBegun, Filled, TypeOK
<1>3. /\ p = fpos - buffer_fill + search_pos /\ p \in (taken + 1) .. Len(file)
  BY <1>2
<1>4. \A q \in (taken + 1) .. p :
        /\ start + (q - taken - 1) \in start .. (search_pos - 1)
        /\ buffer[start + (q - taken - 1)] = file[q]
  <2> SUFFICES ASSUME NEW q \in (taken + 1) .. p
               PROVE  /\ start + (q - taken - 1) \in start .. (search_pos - 1)
                      /\ buffer[start + (q - taken - 1)] = file[q]
    OBVIOUS
  <2>1. /\ start + (q - taken - 1) \in start .. (search_pos - 1)
        /\ start + (q - taken - 1) \in 0 .. (buffer_fill - 1)
        /\ At(start + (q - taken - 1)) = q
    BY <1>2, <1>3 DEF At
  <2> QED
    BY <1>2, <2>1
<1>5. \A q \in (taken + 1) .. (p - 1) : file[q] \notin Delims
  <2> SUFFICES ASSUME NEW q \in (taken + 1) .. (p - 1)
               PROVE  file[q] \notin Delims
    OBVIOUS
  <2>1. /\ start \in Nat /\ search_pos \in Nat /\ taken \in Nat /\ start < search_pos
        /\ p = taken + (search_pos - start)
    BY <1>2
  <2>2. q \in (taken + 1) .. p /\ start + (q - taken - 1) \in start .. (search_pos - 2)
    <3> HIDE DEF p
    <3> QED
      BY <2>1
  <2>3. \A i \in start .. (search_pos - 2) : buffer[i] \notin Delims
    BY <1>2
  <2> QED
    BY <1>4, <2>2, <2>3
<1>6. p = Len(file) \/ file[p] \in Delims
  <2>1. CASE AtDelim
    <3>1. buffer[search_pos - 1] \in Delims
      BY <2>1 DEF AtDelim
    <3>2. p \in (taken + 1) .. p /\ start + (p - taken - 1) = search_pos - 1
      BY <1>2, <1>3
    <3> QED
      BY <1>4, <3>1, <3>2
  <2>2. CASE Exhausted /\ eof
    <3>1. fpos = Len(file) /\ search_pos = buffer_fill
      BY <1>1, <1>2, <2>2 DEF IInv, Filled, Exhausted
    <3> QED
      BY <1>2, <1>3, <3>1
  <2> QED
    BY <2>1, <2>2 DEF Return
<1>7. LS!EndsAt(file, taken, p)
  BY <1>5, <1>6 DEF LS!EndsAt
<1>8. text' = SubSeq(file, taken + 1, p)
  <2>1. text' = [i \in 1 .. (search_pos - start) |-> buffer[start + i - 1]]
    BY DEF Return
  <2>2. SubSeq(file, taken + 1, p)
          = [i \in 1 .. (search_pos - start) |-> file[taken + i]]
    BY <1>1, <1>2, <1>3 DEF TypeOK
  <2>3. \A i \in 1 .. (search_pos - start) : buffer[start + i - 1] = file[taken + i]
    <3> SUFFICES ASSUME NEW i \in 1 .. (search_pos - start)
                 PROVE  buffer[start + i - 1] = file[taken + i]
      OBVIOUS
    <3>1. taken + i \in (taken + 1) .. p
          /\ start + ((taken + i) - taken - 1) = start + i - 1
      BY <1>2, <1>3
    <3> QED
      BY <1>4, <3>1
  <2> QED
    BY <2>1, <2>2, <2>3
<1>9. LS!Active
  BY <1>1 DEF TypeOK, LS!Active
<1> QED
  BY <1>3, <1>7, <1>8, <1>9 DEF LS!Deliver, Return, stream

\* END_REACHED is only returned when every byte has been handed out.
LEMMA EndReachedEnds ==
  ASSUME IInv, NoEmptyFile, EndReached
  PROVE  LS!End
<1>1. TypeOK /\ Held /\ file # <<>> /\ eof /\ search_pos >= buffer_fill
  BY DEF IInv, EndReached, Held, NoEmptyFile
<1>2. taken = fpos - buffer_fill + search_pos /\ fpos = Len(file)
      /\ search_pos = buffer_fill
  BY <1>1 DEF IInv, LineBegun, Filled, TypeOK
<1>3. taken = Len(file)
  BY <1>1, <1>2 DEF TypeOK
<1>4. LS!Active
  BY <1>1 DEF TypeOK, Held, LS!Active
<1> QED
  BY <1>3, <1>4 DEF EndReached, LS!End, stream, history

\* A step that fails closes the stream and hands nothing out.
LEMMA ErrorFails ==
  ASSUME TypeOK, pc \in {"ready", "search"}, ret' = "error",
         UNCHANGED <<file, history>>
  PROVE  LS!Fail
BY DEF TypeOK, LS!Fail, LS!Active, history

\* read_line implements LineStream, for every set of files without the empty
\* file: each byte of a file is handed out once, in order, in lines cut at the
\* first delimiter.
THEOREM ReadLineRefines ==
  ASSUME <<>> \notin Files
  PROVE  Spec => ImplementsLineStream
<1>1. Init => NoEmptyFile /\ LS!Init
  BY DEF Init, NoEmptyFile, LS!Init
<1>2. NoEmptyFile /\ [Next]_vars => NoEmptyFile'
  BY DEF NoEmptyFile, Next, OpenFile, CopyBack, Call, Step, FirstCall, EndReached,
         NextCall, Advance, Slide, Grow, Return, Fread, FreadError, stream, vars
<1>3. IInv /\ NoEmptyFile /\ [Next]_vars => [LS!Next]_(LS!vars)
  <2> SUFFICES ASSUME IInv, NoEmptyFile, [Next]_vars
               PROVE  [LS!Next]_(LS!vars)
    OBVIOUS
  <2>0. TypeOK
    BY DEF IInv
  <2>1. ASSUME NEW f \in Files, OpenFile(f) PROVE LS!Next
    BY <2>1 DEF OpenFile, LS!Next, LS!Open
  <2>2. CASE FirstCall
    <3>1. CASE Fread(buffer, 0, buffer_size - 1) /\ UNCHANGED ret
      BY <2>2, <3>1 DEF FirstCall, Fread, history, LS!vars
    <3>2. CASE FreadError(buffer, 0, buffer_size - 1)
      BY <2>0, <2>2, <3>2, ErrorFails DEF FirstCall, FreadError, LS!Next
    <3> QED
      BY <2>2, <3>1, <3>2 DEF FirstCall
  <2>3. CASE EndReached
    BY <2>3, EndReachedEnds DEF LS!Next
  <2>4. CASE NextCall
    BY <2>4 DEF NextCall, stream, history, LS!vars
  <2>5. CASE Advance
    BY <2>5 DEF Advance, stream, history, LS!vars
  <2>6. CASE Slide
    <3>1. CASE UNCHANGED <<ret, file>>
      BY <2>6, <3>1 DEF Slide, history, LS!vars
    <3>2. CASE ret' = "error" /\ UNCHANGED file
      BY <2>0, <2>6, <3>2, ErrorFails DEF Slide, LS!Next
    <3> QED
      BY <2>6, <3>1, <3>2 DEF Slide, Fread, FreadError
  <2>7. CASE Grow
    <3>1. CASE UNCHANGED <<ret, file>>
      BY <2>7, <3>1 DEF Grow, history, LS!vars
    <3>2. CASE ret' = "error" /\ UNCHANGED file
      BY <2>0, <2>7, <3>2, ErrorFails DEF Grow, LS!Next
    <3> QED
      BY <2>7, <3>1, <3>2 DEF Grow, Fread, FreadError, stream
  <2>8. CASE Return
    BY <2>8, ReturnDelivers DEF LS!Next
  <2>9. CASE UNCHANGED vars
    BY <2>9 DEF vars, stream, history, LS!vars
  <2>10. ASSUME NEW c \in Chunks, CopyBack(c) PROVE UNCHANGED LS!vars
    BY <2>10 DEF CopyBack, stream, history, LS!vars
  <2> QED
    BY <2>1, <2>2, <2>3, <2>4, <2>5, <2>6, <2>7, <2>8, <2>9, <2>10
    DEF Next, Call, Step
<1> QED
  BY <1>1, <1>2, <1>3, ReadLineInv, PTL DEF Spec, ImplementsLineStream, LS!Spec
=============================================================================
