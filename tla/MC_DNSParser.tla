--------------------------- MODULE MC_DNSParser ---------------------------
(***************************************************************************)
(* Checks the DNSParser walks on every datagram of a bounded space.  The   *)
(* state is the datagram the parser is handed; it grows one byte at a time *)
(* from a 12-byte header, so every reachable state is one input.           *)
(***************************************************************************)
EXTENDS DNSParser, FiniteSets

CONSTANTS
  Bytes,        \* byte values the question section is made of
  MaxLen,       \* longest datagram for a header with qd_count = 1
  MaxLenNoQ,    \* longest datagram for a header with qd_count = 0
  DomainBufSize \* the decode buffer (XDPDNSParseResult.domain: 256)

\* id 0x1234, flags 0x0100 (RD), qd_count 1 / 0, other counts 0.
QueryHeader == <<18, 52, 1, 0, 0, 1, 0, 0, 0, 0, 0, 0>>
NoQuestionHeader == <<18, 52, 1, 0, 0, 0, 0, 0, 0, 0, 0, 0>>

VARIABLE pkt

MaxLenOf(p) == IF Read16(p, 4) = 0 THEN MaxLenNoQ ELSE MaxLen

Init == pkt \in {QueryHeader, NoQuestionHeader}

\* The next byte of the datagram.
Extend == /\ Len(pkt) < MaxLenOf(pkt)
          /\ \E b \in Bytes : pkt' = Append(pkt, b)

Spec == Init /\ [][Extend]_pkt

Parsed == parse(pkt)
Decoded == decodeName(pkt, Len(pkt), DNS_HEADER_SIZE, DomainBufSize)

-----------------------------------------------------------------------------

\* parse() reads only bytes of the datagram, whatever the bytes are, and a
\* question it accepts lies inside it: the name starts at 12 and
\* question_end = name end + 4 <= len (spec invariant 1).
ParseStaysInPacket ==
  /\ ~Parsed.oob
  /\ Parsed.err = "Success" =>
       /\ Parsed.name_offset = DNS_HEADER_SIZE
       /\ Parsed.question_end = Parsed.name_end + 4
       /\ Parsed.question_end <= Len(pkt)

\* xdp_dns_parse() decodes the name parse() accepted with decodeName(),
\* which re-walks it without parse's label-length and pointer-target
\* tests and copies label bytes unchecked: on every accepted datagram the
\* second walk must stay inside the packet and fail at most for want of
\* buffer space.
DecodeAgreesWithParse ==
  Parsed.err = "Success" =>
    /\ ~Decoded.oob
    /\ Decoded.err \in {"Success", "BufferTooSmall"}

=============================================================================
