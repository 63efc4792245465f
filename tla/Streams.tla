------------------------------ MODULE Streams ------------------------------
(***************************************************************************)
(* tools/cactus/io: a buffered reader over a source that returns what it   *)
(* has, and a buffered writer.  The bytes of the source are numbered, so   *)
(* order, loss and repetition show; those in Delims are delimiters.        *)
(***************************************************************************)
EXTENDS Integers, Sequences, FiniteSetsExt

CONSTANTS MaxBytes,             \* the length of the source
          Delims,               \* the places of its delimiters
          cap_, buffer_size_,   \* of the reader, of the writer
          kInitialSize,         \* of the string of ReadAllToString (1024)
          MaxCalls

StreamConstants == /\ {cap_, buffer_size_, kInitialSize} \subseteq Nat \ {0}
                   /\ MaxBytes \in Nat /\ Delims \subseteq 1..MaxBytes

VARIABLES fed,                  \* bytes the source has handed out
          buffer_, pos_,        \* of the reader; end_ is Len(buffer_)
          call, want, got,      \* the call in progress, the bytes it still wants (for
                                \*   ReadAll: the size of its string), those it has got
          begun,                \* history: the last call, and how things stood at its start
          taken,                \* history: the bytes given to callers and copied, in order
          used_, out,           \* what the writer holds, what it has passed on
          copied,               \* history: the bytes given to the writer
          overflow,             \* the recursion of BufferedWriter::Write does not end
          calls

vars == <<fed, buffer_, pos_, call, want, got, begun, taken, used_, out, copied, overflow, calls>>

stream == [i \in 1..MaxBytes |-> i]
Bytes(from, to) == SubSeq(stream, from, to)

BufferedReader == fed = 0 /\ buffer_ = <<>> /\ pos_ = 0
ViewReader == fed = MaxBytes /\ buffer_ = stream /\ pos_ = 0

Init == /\ BufferedReader \/ ViewReader
        /\ call = "none" /\ want = 0 /\ got = <<>> /\ taken = <<>>
        /\ begun = [call |-> "none", limit |-> 0, from |-> 0, copied |-> <<>>]
        /\ used_ = <<>> /\ out = <<>> /\ copied = <<>> /\ overflow = FALSE /\ calls = 0

\* What ReadNext may return: the rest of the buffer, or what the source has.
ReadNext ==
    IF pos_ < Len(buffer_)
    THEN {[chunk |-> SubSeq(buffer_, pos_ + 1, Len(buffer_)), buffer |-> buffer_, fed |-> fed]}
    ELSE LET sizes == IF fed = MaxBytes THEN {0} ELSE 1..Min({cap_, MaxBytes - fed})
         IN {[chunk |-> b, buffer |-> b, fed |-> fed + Len(b)] : b \in {Bytes(fed + 1, fed + n) : n \in sizes}}

\* The position after ReadBackUp of what is not used of a chunk; without, all is gone.
ForgetBackUp(r, n) == Len(r.buffer)             \* mutant: the rest is not given back
ReadBackUp(r, n) == Len(r.buffer) - (Len(r.chunk) - n)

Take(r, n) ==
    /\ fed' = r.fed /\ buffer_' = r.buffer /\ pos_' = ReadBackUp(r, n)
    /\ got' = got \o SubSeq(r.chunk, 1, n) /\ taken' = taken \o SubSeq(r.chunk, 1, n)

writer == <<used_, out, copied, overflow>>

Idle == call \in {"none", "EOF"}        \* no call in progress; the last one may have thrown

\* The bytes given to callers so far.
Consumed == fed - (Len(buffer_) - pos_)

Begin == /\ Idle /\ calls < MaxCalls /\ calls' = calls + 1 /\ ~overflow
         /\ call' \in {"ReadFull", "ReadString", "ReadAll", "WriteTo"}
         /\ want' \in IF call' = "ReadAll" THEN {kInitialSize} ELSE 0..MaxBytes
         /\ got' = <<>>
         /\ begun' = [call |-> call', limit |-> want', from |-> Consumed, copied |-> copied]
         /\ UNCHANGED <<fed, buffer_, pos_, taken, writer>>

\* IReader::ReadFull, one IBufferedReader::Read at a time.
ReadFull ==
    /\ call = "ReadFull" /\ UNCHANGED <<writer, calls, begun>>
    /\ \/ want = 0 /\ call' = "none" /\ UNCHANGED <<fed, buffer_, pos_, want, got, taken>>
       \/ /\ want > 0
          /\ \E r \in ReadNext : LET n == Min({want, Len(r.chunk)}) IN
                /\ Take(r, n) /\ want' = want - n
                /\ call' = IF r.chunk = <<>> THEN "EOF" ELSE call

\* IReader::ReadAllToString: the string doubles when it is full.
Room == IF Len(got) = want THEN 2 * want ELSE want

ReadAllToString ==
    /\ call = "ReadAll" /\ UNCHANGED <<writer, calls, begun>>
    /\ \E r \in ReadNext :
          /\ Take(r, Min({Room - Len(got), Len(r.chunk)})) /\ want' = Room
          /\ call' = IF r.chunk = <<>> THEN "none" ELSE call

\* IBufferedReader::ReadString, one chunk at a time; want is the limit.
ReadString ==
    /\ call = "ReadString" /\ UNCHANGED <<writer, calls, begun>>
    /\ \E r \in ReadNext :
          LET hits == {i \in 1..Len(r.chunk) : r.chunk[i] \in Delims}
              hit == IF hits = {} THEN Len(r.chunk) + 1 ELSE Min(hits)
              n == Min({Len(r.chunk), want, hit})
          IN /\ Take(r, n) /\ want' = want - n
             /\ call' = IF r.chunk = <<>> \/ n = hit \/ n < Len(r.chunk) THEN "none" ELSE call

\* IBufferedWriter::Write and Append: WriteNext flushes a full buffer first.
Put(w, byte) == IF Len(w.used) = buffer_size_
                THEN [used |-> <<byte>>, out |-> w.out \o w.used]
                ELSE [used |-> Append(w.used, byte), out |-> w.out]

Written(buf) ==                 \* after the first n bytes of buf
    LET w[n \in 0..Len(buf)] == IF n = 0 THEN [used |-> used_, out |-> out] ELSE Put(w[n - 1], buf[n])
    IN w

\* BufferedWriter::Write: two buffers or more are flushed for and then written by the
\* same function again, without end.
Write(buf) ==
    LET w == Written(buf)[Len(buf)] IN
    \/ /\ Len(buf) < 2 * buffer_size_ /\ used_' = w.used /\ out' = w.out /\ copied' = copied \o buf
       /\ UNCHANGED overflow
    \/ /\ Len(buf) >= 2 * buffer_size_ /\ out' = out \o used_ /\ used_' = <<>> /\ overflow' = TRUE
       /\ UNCHANGED copied

\* IBufferedReader::WriteTo, one chunk at a time.
WriteTo ==
    /\ call = "WriteTo" /\ ~overflow /\ UNCHANGED <<want, calls, begun>>
    /\ \E r \in ReadNext :
          /\ Take(r, Len(r.chunk))
          /\ IF r.chunk = <<>> THEN call' = "none" /\ UNCHANGED writer ELSE Write(r.chunk) /\ UNCHANGED call

Flush == /\ Idle /\ used_ # <<>> /\ out' = out \o used_ /\ used_' = <<>>
         /\ UNCHANGED <<fed, buffer_, pos_, call, want, got, begun, taken, copied, overflow, calls>>

Next == Begin \/ ReadFull \/ ReadAllToString \/ ReadString \/ WriteTo \/ Flush

Spec == Init /\ [][Next]_vars
-----------------------------------------------------------------------------
\* What a call has got and what it returns: all that was wanted, or EOFException because
\* the source is at its end; all that is left; the bytes up to the first delimiter, the
\* limit or the end of the source; WriteTo has given the writer all it has read.
Returned ==
    /\ got = Bytes(begun.from + 1, Consumed)
    /\ begun.call = "ReadFull" =>
          /\ Len(got) <= begun.limit
          /\ call = "none" => Len(got) = begun.limit
          /\ call = "EOF" => Len(got) < begun.limit /\ Consumed = MaxBytes
    /\ begun.call = "ReadAll" =>
          /\ Len(got) <= want
          /\ call = "none" => Consumed = MaxBytes
    /\ begun.call = "ReadString" =>
          /\ Len(got) <= begun.limit
          /\ \A i \in 1..Len(got) - 1 : got[i] \notin Delims
          /\ got # <<>> /\ got[Len(got)] \in Delims => call = "none"
          /\ call = "none" =>
                \/ got # <<>> /\ got[Len(got)] \in Delims
                \/ Len(got) = begun.limit
                \/ Consumed = MaxBytes
    /\ begun.call = "WriteTo" =>
          /\ ~overflow => copied = begun.copied \o got
          /\ call = "none" => Consumed = MaxBytes

\* Across any sequence of calls every byte is delivered once and in order, wherever
\* the chunks of the source end, whatever was given back to the buffer; the writer
\* holds, within its buffer, or has passed on exactly what it was given; a call gets
\* no more bytes than its caller has room for and returns the ones it should, or does
\* not end: in WriteTo, at a chunk of two buffers of the writer or more.
BytesInOrder ==
    /\ taken = Bytes(1, Consumed)
    /\ out \o used_ = copied /\ Len(used_) <= buffer_size_
    /\ Returned
    /\ overflow => call = "WriteTo" /\ Len(buffer_) >= 2 * buffer_size_
=============================================================================
