------------------------------ MODULE Unpacker ------------------------------
(***************************************************************************)
(* How the receive thread of a TcpConnection cuts the byte stream of its   *)
(* socket back into messages: threadConnRecv (TcpConnection.cc) with the   *)
(* buffer of msgpack::unpacker (v2/parse.hpp, v2/unpack.hpp).              *)
(*                                                                         *)
(* A message is an array of integers and, last, a bin (NetMsg).  An        *)
(* integer is a header byte with a trail of zero or more bytes; the bin is *)
(* a header byte, a size byte and its data, which the unpacked object does *)
(* not copy but points at.  A buffer is therefore counted: one reference   *)
(* is the parser's, the others belong to objects.  A byte is a record that *)
(* says of which message it is and what it means there.                    *)
(*                                                                         *)
(* The thread is sequential; what varies is where recv cuts the stream.    *)
(* Offsets count from 0 as in the code, COUNTER_SIZE bytes being the       *)
(* buffer's own.                                                           *)
(***************************************************************************)
EXTENDS Integers, FiniteSets, Sequences, SequencesExt

CONSTANTS Ints,     \* trail bytes of each integer of a message
          Bins,     \* bytes in the bin of each message of the stream
          Counter,  \* COUNTER_SIZE
          Initial,  \* MSGPACK_UNPACKER_INIT_BUFFER_SIZE
          Reserve   \* the 4096 that threadConnRecv asks for, and its limit

ASSUME Sizes == Ints \in Seq(Nat) /\ Bins \in Seq(Nat)
ASSUME Room == /\ {Counter, Reserve, Initial} \subseteq Nat \ {0}
               /\ Initial >= Counter + 2 * Reserve

VARIABLES
  pc,          \* what the receive thread is about to do
  got,         \* bytes received so far
  up,          \* FALSE: the connection was reset, no byte comes any more
  mem,         \* contents of the buffers
  count,       \* reference count of each, 0 when it is free
  buf,         \* m_buffer
  used, off,   \* m_used and m_off; the latter doubles for m_current
  cs, trail,   \* state of the parser within an element, and bytes it needs
  rest,        \* elements the array still lacks, 0 for an empty stack
  obj,         \* the object under construction
  referenced,  \* it points into the buffer
  zone,        \* buffers the unpacker's zone will release
  oh,          \* the object handle: a finished object and its zone
  done         \* messages the handler has seen

parse == <<cs, trail, rest, obj, referenced, zone>>
space == <<mem, buf, used>>
vars == <<pc, got, up, space, count, off, parse, oh, done>>

Buffers == {1, 2}
Messages == DOMAIN Bins
Offsets == 0 .. Initial - 1
Byte(m, kind, val) == [msg |-> m, kind |-> kind, val |-> val]

\* msgpack::pack of a NetMsg
Message(m) ==
  <<Byte(m, "array", Len(Ints) + 1)>>
    \o FlattenSeq([i \in DOMAIN Ints |->
         <<Byte(m, "int", Ints[i])>> \o [k \in 1 .. Ints[i] |-> Byte(m, "more", k)]])
    \o <<Byte(m, "bin", 1), Byte(m, "size", Bins[m])>>
    \o [k \in 1 .. Bins[m] |-> Byte(m, "data", k)]

Stream == FlattenSeq([m \in Messages |-> Message(m)])
End(m) == Len(FlattenSeq([k \in 1 .. m |-> Message(k)]))

free == Initial - used
At(b, from, n) == [k \in 1 .. n |-> mem[b][from + k - 1]]
NoByte == Byte(0, "none", 0)
Nothing == [obj |-> << >>, zone |-> {}]

Init ==
  /\ pc = "top" /\ got = 0 /\ up = TRUE /\ done = 0
  /\ mem = [b \in Buffers |-> [i \in Offsets |-> NoByte]]
  /\ buf = 1 /\ count = [b \in Buffers |-> IF b = 1 THEN 1 ELSE 0]
  /\ used = Counter /\ off = Counter
  /\ cs = "header" /\ trail = 0 /\ rest = 0 /\ obj = << >>
  /\ referenced = FALSE /\ zone = {} /\ oh = Nothing

\* count, less one for each reference that bs gives up
Released(counts, bs) == [b \in Buffers |-> counts[b] - IF b \in bs THEN 1 ELSE 0]
----------------------------------------------------------------------------
\* The thread ends: m_isAlive was cleared, recv returned 0 or Check gave up.
\* The handle and the unpacker, with its zone, are destroyed.
Leave ==
  /\ pc \in {"top", "recv", "leave"} /\ pc' = "ended"
  /\ count' = Released(Released(Released(count, oh.zone), zone), {buf})
  /\ oh' = Nothing /\ zone' = {}
  /\ UNCHANGED <<got, up, space, off, cs, trail, rest, obj, referenced, done>>

\* reserve_buffer when there is room, or the buffer can be rewound
Rewinds == used = off /\ count[buf] = 1 /\ ~referenced

\* Mutant: what an object still refers to, and what is not parsed yet, does
\* not keep the buffer from being rewound.
RewindAlways ==
  /\ pc = "top" /\ pc' = "recv"
  /\ IF free >= Reserve THEN UNCHANGED <<used, off>>
                        ELSE used' = Counter /\ off' = Counter
  /\ UNCHANGED <<got, up, mem, buf, count, parse, oh, done>>

Keep ==
  /\ pc = "top" /\ pc' = "recv"
  /\ \/ free >= Reserve /\ UNCHANGED <<used, off>>
     \/ free < Reserve /\ Rewinds /\ used' = Counter /\ off' = Counter
  /\ UNCHANGED <<got, up, mem, buf, count, parse, oh, done>>

\* Mutant: the part of a message that is not parsed yet stays behind.
MoveNothing ==
  /\ pc = "top" /\ pc' = "recv"
  /\ free < Reserve /\ ~Rewinds
  /\ \E b \in Buffers :
       /\ count[b] = 0 /\ buf' = b
       /\ count' = [Released(count, {buf}) EXCEPT ![b] = 1]
  /\ used' = Counter /\ off' = Counter
  /\ UNCHANGED <<got, up, mem, parse, oh, done>>

\* Otherwise a new buffer takes what is not parsed yet.  The old one goes to
\* the zone if the object under construction points into it.  (A buffer
\* that is full from its first byte on would grow instead: Fits.)
Move ==
  /\ pc = "top" /\ pc' = "recv"
  /\ free < Reserve /\ ~Rewinds
  /\ \E b \in Buffers :
       /\ count[b] = 0 /\ buf' = b
       /\ mem' = [mem EXCEPT ![b] = [i \in Offsets |->
                    IF i \in Counter .. Counter + used - off - 1
                    THEN mem[buf][off + i - Counter] ELSE NoByte]]
       /\ count' = [Released(count, IF referenced THEN {} ELSE {buf})
                      EXCEPT ![b] = 1]
  /\ zone' = IF referenced THEN zone \cup {buf} ELSE zone
  /\ referenced' = FALSE
  /\ used' = Counter + used - off /\ off' = Counter
  /\ UNCHANGED <<got, up, cs, trail, rest, obj, oh, done>>

\* Mutant: buffer_capacity() is one too large.
RecvPast ==
  /\ pc = "recv" /\ pc' = "next"
  /\ up
  /\ \E n \in 1 .. free + 1 :
       /\ got + n <= Len(Stream) /\ got' = got + n
       /\ used' = used + n
       /\ mem' = [mem EXCEPT ![buf] = [i \in Offsets |->
                    IF i \in used .. used + n - 1
                    THEN Stream[got + i - used + 1] ELSE @[i]]]
  /\ UNCHANGED <<up, buf, count, off, parse, oh, done>>

\* recv fills the buffer with what has arrived, however little.
Recv ==
  /\ pc = "recv" /\ pc' = "next"
  /\ up
  /\ \E n \in 1 .. free :
       /\ got + n <= Len(Stream) /\ got' = got + n
       /\ used' = used + n
       /\ mem' = [mem EXCEPT ![buf] = [i \in Offsets |->
                    IF i \in used .. used + n - 1
                    THEN Stream[got + i - used + 1] ELSE @[i]]]
  /\ UNCHANGED <<up, buf, count, off, parse, oh, done>>

\* ... or returns -1 for a reset connection: buffer_consumed(-1) takes a
\* byte back.  If there is none, the parser runs past its end: from "wild"
\* on anything may happen, and nothing is modelled.
RecvError ==
  /\ pc = "recv" /\ pc' = IF used = off THEN "wild" ELSE "next"
  /\ up /\ up' = FALSE /\ used' = used - 1
  /\ UNCHANGED <<got, mem, buf, count, off, parse, oh, done>>
----------------------------------------------------------------------------
\* One call of unp.next(oh) parses element after element until a message is
\* complete or the bytes run out.
byte == mem[buf][off]
Element == pc = "next" /\ off < used

\* The element is in obj; it may be the last of its array.
Visited(element) ==
  /\ obj' = Append(obj, element) /\ cs' = "header" /\ rest' = rest - 1
  /\ pc' = IF rest' = 0 THEN "finish" ELSE "next"

ParseArray ==
  /\ Element /\ cs = "header" /\ byte.kind = "array"
  /\ off' = off + 1 /\ rest' = byte.val /\ obj' = << >>
  /\ UNCHANGED <<pc, got, up, space, count, cs, trail, referenced, zone, oh, done>>

\* An integer or a bin begins.
ParseHeader ==
  /\ Element /\ cs = "header" /\ byte.kind \in {"int", "bin"} /\ rest > 0
  /\ off' = off + 1
  /\ IF byte.val = 0
       THEN Visited(byte.msg) /\ UNCHANGED trail
       ELSE /\ cs' = byte.kind /\ trail' = byte.val
            /\ UNCHANGED <<pc, rest, obj>>
  /\ UNCHANGED <<got, up, space, count, referenced, zone, oh, done>>

ParseInt ==
  /\ Element /\ cs = "int" /\ used - off >= trail
  /\ off' = off + trail /\ Visited(byte.msg)
  /\ UNCHANGED <<got, up, space, count, trail, referenced, zone, oh, done>>

Bin(at, size) == [buf |-> buf, at |-> at, size |-> size]

\* The size of a bin: an empty one is complete, and refers to the buffer too.
ParseSize ==
  /\ Element /\ cs = "bin" /\ off' = off + 1
  /\ IF byte.val = 0
       THEN Visited(Bin(off, 0)) /\ referenced' = TRUE /\ UNCHANGED trail
       ELSE /\ cs' = "data" /\ trail' = byte.val
            /\ UNCHANGED <<pc, rest, obj, referenced>>
  /\ UNCHANGED <<got, up, space, count, zone, oh, done>>

\* Mutant: one byte too many is waited for.
ParseDataLate ==
  /\ Element /\ cs = "data" /\ used - off > trail
  /\ off' = off + trail /\ referenced' = TRUE /\ Visited(Bin(off, trail))
  /\ UNCHANGED <<got, up, space, count, trail, zone, oh, done>>

ParseData ==
  /\ Element /\ cs = "data" /\ used - off >= trail
  /\ off' = off + trail /\ referenced' = TRUE /\ Visited(Bin(off, trail))
  /\ UNCHANGED <<got, up, space, count, trail, zone, oh, done>>

\* Mutant: the buffer is released with the object, but was never counted.
FinishUncounted ==
  /\ pc = "finish" /\ pc' = "handle"
  /\ oh' = [obj |-> obj, zone |-> IF referenced THEN zone \cup {buf} ELSE zone]
  /\ count' = Released(count, oh.zone)
  /\ zone' = {} /\ referenced' = FALSE
  /\ trail' = 0 /\ obj' = << >>
  /\ UNCHANGED <<got, up, space, off, cs, rest, done>>

\* A message is complete: flush_zone takes a reference for it, the handle
\* gets object and zone (and gives up the ones before), reset.
Finish ==
  /\ pc = "finish" /\ pc' = "handle"
  /\ oh' = [obj |-> obj, zone |-> IF referenced THEN zone \cup {buf} ELSE zone]
  /\ count' = [Released(count, oh.zone)
                 EXCEPT ![buf] = @ + IF referenced THEN 1 ELSE 0]
  /\ zone' = {} /\ referenced' = FALSE
  /\ trail' = 0 /\ obj' = << >>
  /\ UNCHANGED <<got, up, space, off, cs, rest, done>>

\* Mutant: one message is taken per recv.
HandleOne ==
  /\ pc = "handle" /\ pc' = "check" /\ done' = done + 1
  /\ UNCHANGED <<got, up, space, count, off, parse, oh>>

\* perConnProcessMessage or perConnProcessRecvMesg is given the handle.
Handle ==
  /\ pc = "handle" /\ pc' = "next" /\ done' = done + 1
  /\ UNCHANGED <<got, up, space, count, off, parse, oh>>

\* The bytes ran out: next returns false and empties the handle.
More ==
  /\ pc = "next" /\ pc' = "check"
  /\ off = used \/ (off < used /\ cs # "header" /\ used - off < trail)
  /\ count' = Released(count, oh.zone) /\ oh' = Nothing
  /\ UNCHANGED <<got, up, space, off, parse, done>>

\* nonparsed_size() > 4096 gives the connection up.
Check ==
  /\ pc = "check" /\ pc' = IF used - off > Reserve THEN "leave" ELSE "top"
  /\ UNCHANGED <<got, up, space, count, off, parse, oh, done>>

Parse == ParseArray \/ ParseHeader \/ ParseInt \/ ParseSize \/ ParseData
Work == Parse \/ Finish \/ Handle \/ More \/ Check
Next == Leave \/ Keep \/ Move \/ Recv \/ RecvError \/ Work

\* The thread is scheduled; nothing is asked of the peer, or of who may clear
\* m_isAlive.
Spec == Init /\ [][Next]_vars /\ WF_vars(Work)
----------------------------------------------------------------------------
TypeOK ==
  /\ pc \in {"top", "recv", "next", "finish", "handle", "check", "leave",
             "ended", "wild"}
  /\ got \in 0 .. Len(Stream) /\ up \in BOOLEAN /\ done \in 0 .. Len(Bins)
  /\ buf \in Buffers /\ count \in [Buffers -> 0 .. 2]
  /\ Counter <= off /\ used <= Initial /\ (pc # "wild" => off <= used)
  /\ cs \in {"header", "int", "bin", "data"} /\ trail \in Nat
  /\ rest \in 0 .. Len(Ints) + 1 /\ Len(obj) <= Len(Ints) + 1
  /\ referenced \in BOOLEAN /\ zone \subseteq Buffers
  /\ oh.zone \subseteq Buffers

\* However recv cuts the stream and wherever the bytes are moved, the handler
\* is given every message once and in order: the object's integers are those
\* of the next message, and what its bin points at is in a buffer that was
\* not freed and still holds the data that was sent.
HandleGood ==
  pc = "handle" =>
    LET m == done + 1
        bin == oh.obj[Len(Ints) + 1]
    IN /\ m <= Len(Bins)
       /\ \A i \in DOMAIN Ints : oh.obj[i] = m
       /\ count[bin.buf] > 0
       /\ At(bin.buf, bin.at, bin.size)
            = [k \in 1 .. Bins[m] |-> Byte(m, "data", k)]

\* The parser is always in step with the sender: it takes no byte for a
\* header that was not sent as one (or it would throw parse_error, which
\* ends the thread with m_isAlive set).
InStep ==
  (pc = "next" /\ off < used /\ cs = "header")
    => byte.kind \in IF rest = 0 THEN {"array"} ELSE {"int", "bin"}

\* A buffer is counted once for the parser and once for each zone that will
\* release it, and when the thread has ended none is left.
CountsRight ==
  \A b \in Buffers :
    count[b] = IF pc = "ended" THEN 0
               ELSE Cardinality({o \in {"parser", "zone", "handle"} :
                      \/ o = "parser" /\ b = buf
                      \/ o = "zone" /\ b \in zone
                      \/ o = "handle" /\ b \in oh.zone})

\* A peer that sends NetMsgs is never given up for its unparsed bytes, and
\* never makes the buffer grow.
Fits == pc # "leave" /\ ((pc = "top" /\ free < Reserve) => (Rewinds \/ off > Counter))

\* A message that was received to its last byte is handled, without waiting
\* for the bytes of the next one.
AllHandled == \A m \in Messages : (got >= End(m)) ~> (done >= m)
=============================================================================
