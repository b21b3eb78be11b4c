------------------------------- MODULE ByteStream ------------------------------
(***************************************************************************)
(* libsponge/byte_stream: the in-memory, flow-controlled byte stream.  A   *)
(* stream is a record of the class's members and each method is an         *)
(* operator from the stream to its value after the call (or, for a const   *)
(* method, to its result).  A string is a sequence of bytes.               *)
(***************************************************************************)
EXTENDS MachineIntegers, Sequences

New(cp) == [capacity |-> Int32(cp), end |-> FALSE, total_read |-> 0, written |-> 0,
            buffer |-> << >>, error |-> FALSE]

Streams(Byte) == [capacity : Nat, end : BOOLEAN, total_read : Int, written : Int,
                  buffer : Seq(Byte), error : BOOLEAN]

buffer_size(s) == Len(s.buffer)
buffer_empty(s) == buffer_size(s) = 0
remaining_capacity(s) == s.capacity - buffer_size(s)
input_ended(s) == s.end
eof(s) == input_ended(s) /\ buffer_empty(s)

\* The counters are ints, returned as size_t.
bytes_written(s) == Size(s.written)
bytes_read(s) == Size(s.total_read)

\* Mutant: everything is taken, capacity or not.
accepted_all(s, data) == Len(data)

\* How many bytes of data the stream takes.
accepted(s, data) ==
  IF Len(data) <= remaining_capacity(s) THEN Len(data) ELSE remaining_capacity(s)

\* Mutant: the counter counts what was offered, not what was taken.
write_counting_offered(s, data) ==
  [s EXCEPT !.buffer  = @ \o SubSeq(data, 1, accepted(s, data)),
            !.written = Int32(@ + Len(data))]

write(s, data) ==
  [s EXCEPT !.buffer  = @ \o SubSeq(data, 1, accepted(s, data)),
            !.written = Int32(@ + accepted(s, data))]

end_input(s) == [s EXCEPT !.end = TRUE]

set_error(s) == [s EXCEPT !.error = TRUE]

peek_output(s, len) == SubSeq(s.buffer, 1, IF len > buffer_size(s) THEN buffer_size(s) ELSE len)

\* Mutant: the bytes are dropped from the writer's end of the buffer.
pop_newest(s, len) ==
  [s EXCEPT !.buffer     = SubSeq(@, 1, Len(@) - len),
            !.total_read = Int32(@ + len)]

\* std::string::substr throws when len is beyond the end of the buffer, so
\* every caller has len <= buffer_size(s).
pop_output(s, len) ==
  [s EXCEPT !.buffer     = SubSeq(@, len + 1, Len(@)),
            !.total_read = Int32(@ + len)]

\* The stream after read(len); what it returns is peek_output(s, len).
read(s, len) == pop_output(s, IF len > buffer_size(s) THEN buffer_size(s) ELSE len)

================================================================================
