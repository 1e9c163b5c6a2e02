------------------------------ MODULE DNSParser ------------------------------
(***************************************************************************)
(* The wire decoder of src/cpp/src/dns_parser.cpp (DNSParser) as pure      *)
(* operators.  A packet is a sequence of byte values; the byte at offset o *)
(* (0-based, as in the code) is data[o + 1].                               *)
(*                                                                         *)
(* Every read goes through ReadByte, which records whether the offset lies *)
(* outside the packet.  The correct code guards every read; what a read    *)
(* past the end returns is undefined, and since any such read already     *)
(* violates the bounds properties, the model lets it return 0.             *)
(***************************************************************************)
EXTENDS Naturals, Sequences, Bitwise, TLC

CONSTANTS
  MAX_LABELS   \* jump cap of the name walks (common.hpp: 128)

\* common.hpp
MAX_LABEL_LENGTH == 63
DNS_HEADER_SIZE == 12
MIN_DNS_QUERY_SIZE == DNS_HEADER_SIZE + 5

\* The Error enum of common.hpp.
Errors == {"Success", "PacketTooShort", "InvalidHeader", "TruncatedMessage",
           "PointerLoop", "InvalidLabel", "BufferTooSmall", "NotQuery"}

ReadByte(data, o) == IF o < Len(data) THEN data[o + 1] ELSE 0
InBounds(data, o) == o < Len(data)

\* A uint16_t loaded from offset o of the datagram on the little-endian
\* build (x86, arm64): the byte at o is the low half.  The models take the
\* little-endian branch of common.hpp; on a big-endian build the load and
\* ntohs are both the identity, which gives the same value.
Load16(data, o) == ReadByte(data, o) + ReadByte(data, o + 1) * 256

\* common.hpp ntohs on the little-endian build: __builtin_bswap16.
ntohs(n) == (n % 256) * 256 + n \div 256

\* A 16-bit field in host order, as DNSHeader's getters and the qtype and
\* qclass loads of parse() read it.
Read16(data, o) == ntohs(Load16(data, o))

\* DNSHeader::isQuery: QR (0x8000) clear in the host-order flags.
isQuery(flags) == (flags & 32768) = 0

IsPointer(b) == (b & 192) = 192

\* ::tolower on a byte.
ToLowerByte(b) == IF b \in 65..90 THEN b + 32 ELSE b

DOT == 46

-----------------------------------------------------------------------------
(* parseName                                                               *)

\* The walk of parseName: [err, end, wire, oob] where end is *end_offset,
\* wire is *wire_len and oob records a read outside the packet.
Fail(e, oob) == [err |-> e, end |-> 0, wire |-> 0, oob |-> oob]

\* Seeded fault for parseName: the loop's end-of-packet test is off by one
\* (offset > len), so a name running to the last byte reads one past it.
parseName_offByOne(data, len, offset) ==
  LET RECURSIVE loop(_, _, _, _, _, _)
      loop(off, orig, jumped, jumps, total, oob0) ==
        LET b   == ReadByte(data, off)
            oob == oob0 \/ ~InBounds(data, off)
        IN IF jumps >= MAX_LABELS THEN Fail("PointerLoop", oob0)
           ELSE IF off > len THEN Fail("TruncatedMessage", oob0)
           ELSE IF b = 0
           THEN [err |-> "Success", end |-> IF jumped THEN orig + 2 ELSE off + 1,
                 wire |-> total + 1, oob |-> oob]
           ELSE IF IsPointer(b)
           THEN IF off + 1 >= len THEN Fail("TruncatedMessage", oob)
                ELSE LET ptr  == (b % 64) * 256 + ReadByte(data, off + 1)
                         oob2 == oob \/ ~InBounds(data, off + 1)
                     IN IF ptr >= len THEN Fail("PointerLoop", oob2)
                        ELSE loop(ptr, IF jumped THEN orig ELSE off, TRUE,
                                  jumps + 1, total, oob2)
           ELSE IF b > MAX_LABEL_LENGTH THEN Fail("InvalidLabel", oob)
           ELSE IF off + 1 + b > len THEN Fail("TruncatedMessage", oob)
           ELSE loop(off + 1 + b, orig, jumped, jumps, total + 1 + b, oob)
  IN loop(offset, offset, FALSE, 0, 0, FALSE)

\* Seeded fault for parseName: the jump cap admits one jump more than
\* decodeName's (jump_count <= MAX_LABELS).
parseName_capPlusOne(data, len, offset) ==
  LET RECURSIVE loop(_, _, _, _, _, _)
      loop(off, orig, jumped, jumps, total, oob0) ==
        LET b   == ReadByte(data, off)
            oob == oob0 \/ ~InBounds(data, off)
        IN IF jumps > MAX_LABELS THEN Fail("PointerLoop", oob0)
           ELSE IF off >= len THEN Fail("TruncatedMessage", oob0)
           ELSE IF b = 0
           THEN [err |-> "Success", end |-> IF jumped THEN orig + 2 ELSE off + 1,
                 wire |-> total + 1, oob |-> oob]
           ELSE IF IsPointer(b)
           THEN IF off + 1 >= len THEN Fail("TruncatedMessage", oob)
                ELSE LET ptr  == (b % 64) * 256 + ReadByte(data, off + 1)
                         oob2 == oob \/ ~InBounds(data, off + 1)
                     IN IF ptr >= len THEN Fail("PointerLoop", oob2)
                        ELSE loop(ptr, IF jumped THEN orig ELSE off, TRUE,
                                  jumps + 1, total, oob2)
           ELSE IF b > MAX_LABEL_LENGTH THEN Fail("InvalidLabel", oob)
           ELSE IF off + 1 + b > len THEN Fail("TruncatedMessage", oob)
           ELSE loop(off + 1 + b, orig, jumped, jumps, total + 1 + b, oob)
  IN loop(offset, offset, FALSE, 0, 0, FALSE)

\* parseName: literal labels add 1 + length to wire_len, the first pointer
\* fixes the end at the byte after it, later pointers only move the cursor;
\* the terminating zero adds 1 to wire_len whether or not a jump occurred.
parseName(data, len, offset) ==
  LET RECURSIVE loop(_, _, _, _, _, _)
      loop(off, orig, jumped, jumps, total, oob0) ==
        LET b   == ReadByte(data, off)
            oob == oob0 \/ ~InBounds(data, off)
        IN IF jumps >= MAX_LABELS THEN Fail("PointerLoop", oob0)
           ELSE IF off >= len THEN Fail("TruncatedMessage", oob0)
           ELSE IF b = 0
           THEN [err |-> "Success", end |-> IF jumped THEN orig + 2 ELSE off + 1,
                 wire |-> total + 1, oob |-> oob]
           ELSE IF IsPointer(b)
           THEN IF off + 1 >= len THEN Fail("TruncatedMessage", oob)
                ELSE LET ptr  == (b % 64) * 256 + ReadByte(data, off + 1)
                         oob2 == oob \/ ~InBounds(data, off + 1)
                     IN IF ptr >= len THEN Fail("PointerLoop", oob2)
                        ELSE loop(ptr, IF jumped THEN orig ELSE off, TRUE,
                                  jumps + 1, total, oob2)
           ELSE IF b > MAX_LABEL_LENGTH THEN Fail("InvalidLabel", oob)
           ELSE IF off + 1 + b > len THEN Fail("TruncatedMessage", oob)
           ELSE loop(off + 1 + b, orig, jumped, jumps, total + 1 + b, oob)
  IN loop(offset, offset, FALSE, 0, 0, FALSE)

-----------------------------------------------------------------------------
(* parse                                                                   *)

\* The header fields parse() stores before it tests qd_count.
Header(data) ==
  [id |-> Read16(data, 0), flags |-> Read16(data, 2),
   is_query |-> isQuery(Read16(data, 2))]

\* The question fields once the name and four more bytes have been read.
Question(data, name, oob) ==
  Header(data) @@
  [err |-> "Success", oob |-> oob, name_offset |-> DNS_HEADER_SIZE,
   name_wire_len |-> name.wire, name_end |-> name.end,
   qtype |-> Read16(data, name.end), qclass |-> Read16(data, name.end + 2),
   total_consumed |-> name.end + 4, question_end |-> name.end + 4]

\* Seeded fault for parse: the room left for qtype and qclass is never
\* checked.
parse_noRoomCheck(data) ==
  LET len  == Len(data)
      name == parseName(data, len, DNS_HEADER_SIZE)
  IN IF len < MIN_DNS_QUERY_SIZE THEN [err |-> "PacketTooShort", oob |-> FALSE]
     ELSE IF Read16(data, 4) = 0 THEN Header(data) @@ [err |-> "InvalidHeader", oob |-> FALSE]
     ELSE IF name.err # "Success" THEN Header(data) @@ [err |-> name.err, oob |-> name.oob]
     ELSE Question(data, name, name.oob \/ ~InBounds(data, name.end + 3))

\* parse: length, then the header, qd_count, the first QNAME, then qtype
\* and qclass if four bytes remain.
parse(data) ==
  LET len  == Len(data)
      name == parseName(data, len, DNS_HEADER_SIZE)
  IN IF len < MIN_DNS_QUERY_SIZE THEN [err |-> "PacketTooShort", oob |-> FALSE]
     ELSE IF Read16(data, 4) = 0 THEN Header(data) @@ [err |-> "InvalidHeader", oob |-> FALSE]
     ELSE IF name.err # "Success" THEN Header(data) @@ [err |-> name.err, oob |-> name.oob]
     ELSE IF name.end + 4 > len THEN Header(data) @@ [err |-> "TruncatedMessage", oob |-> name.oob]
     ELSE Question(data, name, name.oob \/ ~InBounds(data, name.end + 3))

-----------------------------------------------------------------------------
(* decodeName                                                              *)

\* Seeded fault for decodeName: the room test before a label is copied
\* (buf_pos + label_len > buf_size) is dropped, so a long name is written
\* past the end of the caller's buffer.
decodeName_noRoomCheck(packet, packet_len, name_offset, buf_size) ==
  LET RECURSIVE loop(_, _, _, _, _)
      loop(off, out, jumps, first, oob0) ==
        LET b   == ReadByte(packet, off)
            oob == oob0 \/ ~InBounds(packet, off)
            res(e, o, x) == [err |-> e, out |-> o, nul |-> FALSE, oob |-> x]
            sep == IF first THEN <<>> ELSE <<DOT>>
            label == [i \in 1..b |-> ToLowerByte(ReadByte(packet, off + i))]
            labelOob == \E i \in 1..b : ~InBounds(packet, off + i)
        IN IF jumps >= MAX_LABELS THEN res("PointerLoop", out, oob0)
           ELSE IF off >= packet_len THEN res("TruncatedMessage", out, oob0)
           ELSE IF b = 0
           THEN [err |-> "Success", out |-> out,
                 nul |-> Len(out) > 0 /\ Len(out) < buf_size, oob |-> oob]
           ELSE IF IsPointer(b)
           THEN IF off + 1 >= packet_len THEN res("TruncatedMessage", out, oob)
                ELSE loop((b % 64) * 256 + ReadByte(packet, off + 1), out,
                          jumps + 1, first, oob \/ ~InBounds(packet, off + 1))
           ELSE IF ~first /\ Len(out) >= buf_size
           THEN res("BufferTooSmall", out, oob)
           ELSE loop(off + 1 + b, out \o sep \o label, jumps, FALSE, oob \/ labelOob)
  IN loop(name_offset, <<>>, 0, TRUE, FALSE)

\* decodeName: the same walk as parseName without its InvalidLabel and
\* pointer-target tests, writing lowercase label bytes separated by '.'
\* into a buffer of buf_size bytes.  The result carries the bytes written
\* (out), which stay in the caller's buffer also when an error is returned,
\* and whether the terminating NUL was stored (only when 0 < pos < size).
\* Label bytes are copied without a bounds test: a read past the end is
\* recorded in oob.
decodeName(packet, packet_len, name_offset, buf_size) ==
  LET RECURSIVE loop(_, _, _, _, _)
      loop(off, out, jumps, first, oob0) ==
        LET b   == ReadByte(packet, off)
            oob == oob0 \/ ~InBounds(packet, off)
            res(e, o, x) == [err |-> e, out |-> o, nul |-> FALSE, oob |-> x]
            sep == IF first THEN <<>> ELSE <<DOT>>
            label == [i \in 1..b |-> ToLowerByte(ReadByte(packet, off + i))]
            labelOob == \E i \in 1..b : ~InBounds(packet, off + i)
        IN IF jumps >= MAX_LABELS THEN res("PointerLoop", out, oob0)
           ELSE IF off >= packet_len THEN res("TruncatedMessage", out, oob0)
           ELSE IF b = 0
           THEN [err |-> "Success", out |-> out,
                 nul |-> Len(out) > 0 /\ Len(out) < buf_size, oob |-> oob]
           ELSE IF IsPointer(b)
           THEN IF off + 1 >= packet_len THEN res("TruncatedMessage", out, oob)
                ELSE loop((b % 64) * 256 + ReadByte(packet, off + 1), out,
                          jumps + 1, first, oob \/ ~InBounds(packet, off + 1))
           ELSE IF ~first /\ Len(out) >= buf_size
           THEN res("BufferTooSmall", out, oob)
           ELSE IF Len(out) + Len(sep) + b > buf_size
           THEN res("BufferTooSmall", out \o sep, oob)
           ELSE loop(off + 1 + b, out \o sep \o label, jumps, FALSE, oob \/ labelOob)
  IN loop(name_offset, <<>>, 0, TRUE, FALSE)

-----------------------------------------------------------------------------
(* domainEquals / domainEndsWith                                           *)

\* Seeded fault for domainEquals: the candidate's separator is skipped
\* without testing that it is a '.'.
domainEquals_noDot(packet, packet_len, name_offset, domain) ==
  LET dl == Len(domain)
      RECURSIVE loop(_, _, _)
      loop(off, pos, jumps) ==
        LET b     == ReadByte(packet, off)
            next  == off + 1 + b
            label == [i \in 1..b |-> ToLowerByte(ReadByte(packet, off + i))]
        IN IF jumps >= MAX_LABELS \/ off >= packet_len THEN FALSE
           ELSE IF b = 0 THEN pos = dl
           ELSE IF IsPointer(b)
           THEN /\ off + 1 < packet_len
                /\ loop((b % 64) * 256 + ReadByte(packet, off + 1), pos, jumps + 1)
           ELSE IF pos + b > dl THEN FALSE
           ELSE IF label # [i \in 1..b |-> ToLowerByte(domain[pos + i])] THEN FALSE
           ELSE IF ReadByte(packet, next) # 0
           THEN /\ pos + b < dl
                /\ loop(next, pos + b + 1, jumps)
           ELSE loop(next, pos + b, jumps)
  IN loop(name_offset, 0, 0)

\* domainEquals: the wire name at name_offset walked in lock-step with the
\* candidate string (a sequence of byte values).  A label must fit in what
\* is left of the candidate and match it case-insensitively (the compare
\* loop returns false on the first byte that runs out or differs); after
\* a label, a non-zero next byte (another label or a pointer) requires a
\* '.' in the candidate.  The byte after a label is read without a bounds
\* test.
domainEquals(packet, packet_len, name_offset, domain) ==
  LET dl == Len(domain)
      RECURSIVE loop(_, _, _)
      loop(off, pos, jumps) ==
        LET b     == ReadByte(packet, off)
            next  == off + 1 + b
            label == [i \in 1..b |-> ToLowerByte(ReadByte(packet, off + i))]
        IN IF jumps >= MAX_LABELS \/ off >= packet_len THEN FALSE
           ELSE IF b = 0 THEN pos = dl
           ELSE IF IsPointer(b)
           THEN /\ off + 1 < packet_len
                /\ loop((b % 64) * 256 + ReadByte(packet, off + 1), pos, jumps + 1)
           ELSE IF pos + b > dl THEN FALSE
           ELSE IF label # [i \in 1..b |-> ToLowerByte(domain[pos + i])] THEN FALSE
           ELSE IF ReadByte(packet, next) # 0
           THEN /\ pos + b < dl /\ domain[pos + b + 1] = DOT
                /\ loop(next, pos + b + 1, jumps)
           ELSE loop(next, pos + b, jumps)
  IN loop(name_offset, 0, 0)

\* Seeded fault for domainEndsWith: the label-boundary test is dropped, so
\* "ample.com" matches "example.com".
domainEndsWith_noBoundary(packet, packet_len, name_offset, suffix, buf_size) ==
  LET d == decodeName(packet, packet_len, name_offset, buf_size)
      start == Len(d.out) - Len(suffix)
  IN /\ d.err = "Success"
     /\ start >= 0
     /\ \A i \in 1..Len(suffix) : ToLowerByte(d.out[start + i]) = ToLowerByte(suffix[i])

\* domainEndsWith: decodeName into a buffer of buf_size bytes
\* (MAX_DOMAIN_LENGTH + 1), false on any error; then the tail of the
\* decoded name compared case-insensitively with the suffix, which must
\* start the name or follow a '.'.
domainEndsWith(packet, packet_len, name_offset, suffix, buf_size) ==
  LET d == decodeName(packet, packet_len, name_offset, buf_size)
      start == Len(d.out) - Len(suffix)
  IN /\ d.err = "Success"
     /\ start >= 0
     /\ \A i \in 1..Len(suffix) : ToLowerByte(d.out[start + i]) = ToLowerByte(suffix[i])
     /\ start > 0 => d.out[start] = DOT

=============================================================================
