------------------------------- MODULE PktLines -------------------------------
(***************************************************************************)
(* How lines and packs get over a connection that delivers what was sent   *)
(* in pieces of any size: ReceivableProtocol, the sideband and the two     *)
(* classes around pkt-lines of dulwich/protocol.py, and PackStreamReader   *)
(* of dulwich/pack.py.                                                     *)
(*                                                                         *)
(* A byte is a value; the PrefixSize bytes of a length are records that    *)
(* all hold the length.  The sizes of buffers (8192, 4096, 65515, 20) are  *)
(* constants, so that short lines do not fit.                              *)
(***************************************************************************)
EXTENDS Integers, Sequences, FiniteSets, FiniteSetsExt, SequencesExt

CONSTANTS
    PrefixSize,   \* 4
    RecvSize, ZlibSize,  \* _RBUFSIZE, _ZLIB_BUFSIZE
    MaxSideband, WriterSize,  \* 65515, and the size of the report's buffer
    TrailerSize,  \* 20
    Reports,      \* the reports tried: sequences of lines, lines of bytes
    Packs,     \* the packs tried, see PackBytes
    Pieces,       \* the ways to cut: how much each call may return at most
    FlushPkt      \* a model value: None, and no more lines

ASSUME PktLinesAssumption ==
    /\ {PrefixSize, RecvSize, ZlibSize, MaxSideband, WriterSize, TrailerSize} \subseteq Nat \ {0}
    /\ Pieces \subseteq Seq(Nat \ {0})
    \* read asserts that a size is not 0: an empty line is never sent
    /\ \A lines \in Reports : \A n \in DOMAIN lines : lines[n] # <<>>

-----------------------------------------------------------------------------
(* Reading                                                                 *)

\* wire: what is still to come; pieces: how much of it each call gets at most,
\* the last for all that follow; rbuf: _rbuf.
Connection(bytes, pieces) == [wire |-> bytes, pieces |-> pieces, rbuf |-> <<>>]

First(s, n) == SubSeq(s, 1, Min({n, Len(s)}))
After(s, n) == SubSeq(s, n + 1, Len(s))

\* socket.recv: some bytes, none at the end.
Receive(c, size) ==
    LET n == Min({size, Head(c.pieces)})
    IN  [data |-> First(c.wire, n),
         conn |-> [c EXCEPT !.wire = After(@, n), !.pieces = IF Len(@) > 1 THEN Tail(@) ELSE @]]

\* The loop of ReceivableProtocol.read.
RECURSIVE Fill(_, _)
Fill(c, left) ==
    LET Then(got, more) == [data |-> got \o more.data, conn |-> more.conn]
        FillOn(got) == IF Len(got.data) \in {0, left} THEN got
                       ELSE Then(got.data, Fill(got.conn, left - Len(got.data)))
    IN  FillOn(Receive(c, left))

\* A mistake: the buffer is forgotten when it does not hold enough.
ReadForgetful(c, size) ==
    IF Len(c.rbuf) >= size
    THEN [data |-> First(c.rbuf, size), conn |-> [c EXCEPT !.rbuf = After(@, size)]]
    ELSE Fill([c EXCEPT !.rbuf = <<>>], size)

\* Exactly size bytes, fewer only at the end.
Read(c, size) ==
    IF Len(c.rbuf) >= size
    THEN [data |-> First(c.rbuf, size), conn |-> [c EXCEPT !.rbuf = After(@, size)]]
    ELSE LET got == Fill([c EXCEPT !.rbuf = <<>>], size - Len(c.rbuf))
         IN  [data |-> c.rbuf \o got.data, conn |-> got.conn]

\* At least one byte, none only at the end.
Recv(c, size) ==
    IF c.rbuf # <<>>
    THEN [data |-> First(c.rbuf, size), conn |-> [c EXCEPT !.rbuf = After(@, size)]]
    ELSE LET got == Receive(c, RecvSize)
         IN  [data |-> First(got.data, size), conn |-> [got.conn EXCEPT !.rbuf = After(got.data, size)]]

-----------------------------------------------------------------------------
(* Lines                                                                   *)

Prefix(size) == [k \in 1 .. PrefixSize |-> [size |-> size]]

PktLine(data) ==
    IF data = FlushPkt THEN Prefix(0) ELSE Prefix(Len(data) + PrefixSize) \o data

\* read_pkt_line: the line, FlushPkt, or why there is none.
ReadPktLine(c) ==
    LET Line(size, line) ==
            [line |-> line.data, conn |-> line.conn,
             error |-> IF Len(line.data) + PrefixSize = size THEN "" ELSE "length"]
        Behind(prefix) ==
            LET size == Head(prefix.data).size
            IN  IF prefix.data = <<>> THEN [line |-> <<>>, error |-> "hangup", conn |-> prefix.conn]
                ELSE IF Len(prefix.data) < PrefixSize
                THEN [line |-> <<>>, error |-> "length", conn |-> prefix.conn]
                ELSE IF size = 0 THEN [line |-> FlushPkt, error |-> "", conn |-> prefix.conn]
                ELSE Line(size, Read(prefix.conn, size - PrefixSize))
    IN  Behind(Read(c, PrefixSize))

\* read_pkt_seq: the lines up to a flush-pkt.
RECURSIVE ReadPktSeq(_)
ReadPktSeq(c) ==
    LET From(first) ==
            IF first.error # "" \/ first.line = FlushPkt
            THEN [lines |-> <<>>, error |-> first.error, conn |-> first.conn]
            ELSE [ReadPktSeq(first.conn) EXCEPT !.lines = <<first.line>> \o @]
    IN  From(ReadPktLine(c))

\* write_sideband: pieces of a size, each with the channel before it.
RECURSIVE WriteSideband(_, _)
WriteSideband(channel, blob) ==
    IF blob = <<>> THEN <<>>
    ELSE PktLine(<<channel>> \o First(blob, MaxSideband)) \o WriteSideband(channel, After(blob, MaxSideband))

\* Slices as Python has them: a place that is not positive counts from the end.
SliceTo(s, n) == IF n >= 0 THEN First(s, n) ELSE First(s, Max({0, Len(s) + n}))
SliceFrom(s, n) == IF n >= 0 THEN After(s, n) ELSE After(s, Max({0, Len(s) + n}))

\* BufferedPktLineWriter.flush: _len is set to 0, which nothing reads.
FlushWriter(w) ==
    [w EXCEPT !.wbuf = <<>>, !.written = IF w.wbuf = <<>> THEN @ ELSE Append(@, w.wbuf)]

\* BufferedPktLineWriter.write: buflen is never taken back.
WriteLine(w, data) ==
    LET line == PktLine(data)
        over == w.buflen + Len(line) - WriterSize
        start == IF over >= 0 THEN Len(line) - over ELSE 0
        flushed == IF over >= 0 THEN FlushWriter([w EXCEPT !.wbuf = @ \o SliceTo(line, start)]) ELSE w
        saved == SliceFrom(line, start)
    IN  [flushed EXCEPT !.wbuf = @ \o saved, !.buflen = @ + Len(saved)]

\* _report_status: what is sent of a report, over a sideband.
ReportBytes(lines) ==
    LET written == FlushWriter(FoldLeft(WriteLine, [wbuf |-> <<>>, buflen |-> 0, written |-> <<>>],
                                        Append(lines, FlushPkt))).written
    IN  FlattenSeq([n \in DOMAIN written |-> WriteSideband(1, written[n])]) \o PktLine(FlushPkt)

\* PktLineParser.parse: a fragment more, and the lines that are whole by then.
RECURSIVE Whole(_)
Whole(p) ==
    LET size == Head(p.ahead).size
    IN  IF Len(p.ahead) < PrefixSize THEN p
        ELSE IF size = 0
        THEN Whole([ahead |-> After(p.ahead, PrefixSize), lines |-> Append(p.lines, FlushPkt)])
        ELSE IF size <= Len(p.ahead)
        THEN Whole([ahead |-> After(p.ahead, size),
                    lines |-> Append(p.lines, SubSeq(p.ahead, PrefixSize + 1, size))])
        ELSE p

Parse(p, data) == Whole([p EXCEPT !.ahead = @ \o data])

\* _read_side_band64k_data with the parser of the report as the only channel.
ReadReportLines(c) ==
    LET pkts == ReadPktSeq(c)
        parsed == FoldLeft(Parse, [ahead |-> <<>>, lines |-> <<>>],
                           [n \in DOMAIN pkts.lines |-> Tail(pkts.lines[n])])
    IN  [lines |-> parsed.lines, error |-> pkts.error]

-----------------------------------------------------------------------------
(* Packs                                                                   *)

\* The checksum: what it is of can be told from its bytes.
Digest(bytes) == [k \in 1 .. TrailerSize |-> [digest |-> bytes, place |-> k]]

\* A pack: how many objects, for each a header and compressed content of some
\* length, and the checksum.
PackBytes(objects) ==
    LET Object(n) == [k \in 1 .. objects[n].header |-> [more |-> k < objects[n].header]]
                     \o [k \in 1 .. objects[n].body |-> [of |-> n, last |-> k = objects[n].body]]
        body == <<[count |-> Len(objects)]>> \o FlattenSeq([n \in DOMAIN objects |-> Object(n)])
    IN  body \o Digest(body)

\* buf: the _rbuf of the reader, which is not that of the connection.
Reader(c) == [conn |-> c, buf |-> <<>>, offset |-> 0, trailer |-> <<>>, hashed |-> <<>>]

\* PackStreamReader._read: all but the last bytes go into the checksum.
Hashed(r, got) ==
    LET n == Len(got.data)
        add == Min({n, TrailerSize})
        pop == IF n >= TrailerSize THEN Len(r.trailer) ELSE Max({n + Len(r.trailer) - TrailerSize, 0})
    IN  [r EXCEPT !.conn = got.conn, !.offset = @ + n,
                  !.hashed = @ \o First(r.trailer, pop) \o First(got.data, n - add),
                  !.trailer = After(@, pop) \o After(got.data, n - add)]

StreamRead(r, size) ==
    LET got == Read(r.conn, size - Len(r.buf))
    IN  IF Len(r.buf) >= size
        THEN [data |-> First(r.buf, size), reader |-> [r EXCEPT !.buf = After(@, size)]]
        ELSE [data |-> r.buf \o got.data, reader |-> [Hashed(r, got) EXCEPT !.buf = <<>>]]

StreamRecv(r, size) ==
    LET got == Recv(r.conn, size)
    IN  IF r.buf # <<>>
        THEN [data |-> First(r.buf, size), reader |-> [r EXCEPT !.buf = After(@, size)]]
        ELSE [data |-> got.data, reader |-> Hashed(r, got)]

\* The bytes of a header, one by one.
RECURSIVE SkipHeader(_)
SkipHeader(r) ==
    LET From(got) == IF got.data = <<>> THEN [error |-> "header", reader |-> got.reader]
                     ELSE IF got.data[1].more THEN SkipHeader(got.reader)
                     ELSE [error |-> "", reader |-> got.reader]
    IN  From(StreamRead(r, 1))

\* read_zlib_chunks: the end is seen when something is left behind it.
RECURSIVE Inflate(_, _)
Inflate(r, all) ==
    LET From(reader, more) ==
            LET ends == {k \in DOMAIN more : "last" \in DOMAIN more[k] /\ more[k].last}
            IN  IF more = all THEN [error |-> "eof", body |-> <<>>, reader |-> reader]
                ELSE IF ends = {} \/ Min(ends \cup {Len(more)}) = Len(more) THEN Inflate(reader, more)
                ELSE [error |-> "", body |-> First(more, Min(ends)),
                      reader |-> [reader EXCEPT !.buf = After(more, Min(ends)) \o @]]
        Add(got) == From(got.reader, all \o got.data)
    IN  Add(StreamRecv(r, ZlibSize))

\* read_objects from here on: n objects, then what is missing of the checksum.
RECURSIVE ReadObjects(_, _)
ReadObjects(r, n) ==
    LET Stopped(error) == [objects |-> <<>>, error |-> error]
        AtEnd(end) == Stopped(IF end.trailer = Digest(end.hashed) THEN "" ELSE "checksum")
        WithContent(content) ==
            IF content.error # "" THEN Stopped(content.error)
            ELSE [ReadObjects(content.reader, n - 1) EXCEPT
                    !.objects = <<[offset |-> r.offset - Len(r.buf), body |-> content.body]>> \o @]
        WithHeader(header) ==
            IF header.error # "" THEN Stopped(header.error) ELSE WithContent(Inflate(header.reader, <<>>))
    IN  IF n # 0 THEN WithHeader(SkipHeader(r))
        ELSE AtEnd(IF Len(r.buf) < TrailerSize THEN StreamRead(r, TrailerSize).reader ELSE r)

ReadPack(c) ==
    LET first == StreamRead(Reader(c), 1)
    IN  IF first.data = <<>> THEN [objects |-> <<>>, error |-> ""]
        ELSE ReadObjects(first.reader, first.data[1].count)

-----------------------------------------------------------------------------
(* Properties                                                              *)

\* A report arrives line by line as it was written, however it is cut; of one
\* that is cut off no line is made up.
ReportArrives ==
    \A lines \in Reports, pieces \in Pieces : \A bytes \in {ReportBytes(lines)} :
        \A n \in 0 .. Len(bytes) :
            \A read \in {ReadReportLines(Connection(First(bytes, n), pieces))} :
                LET all == Append(lines, FlushPkt)
                IN  /\ IsPrefix(read.lines, all)
                    /\ (read.error = "") <=> (n = Len(bytes))
                    /\ n = Len(bytes) => read.lines = all

\* So does a pack, each object at its offset, checked over all of it but the
\* checksum; one that is cut off is an error, unless nothing came.
PackArrives ==
    \A objects \in Packs, pieces \in Pieces : \A bytes \in {PackBytes(objects)} :
        \A n \in 1 .. Len(bytes) :
            \A read \in {ReadPack(Connection(First(bytes, n), pieces))} :
                /\ (read.error = "") <=> (n = Len(bytes))
                /\ n = Len(bytes) =>
                     /\ Len(read.objects) = Len(objects)
                     /\ \A j \in DOMAIN objects :
                            /\ read.objects[j].body = SelectSeq(bytes, LAMBDA b : "of" \in DOMAIN b /\ b.of = j)
                            /\ bytes[read.objects[j].offset + 1 + objects[j].header] = read.objects[j].body[1]
=============================================================================
