----------------------- MODULE MC_DNSResponseBuilder -----------------------
(***************************************************************************)
(* Checks the builders on every query of a bounded space, at the buffer   *)
(* capacity each one needs and one byte less.  As in MC_DNSParser the      *)
(* state is the query, grown one byte at a time from a header.             *)
(***************************************************************************)
EXTENDS DNSResponseBuilder

CONSTANTS
  Bytes,        \* byte values the question section is made of
  MaxLen,       \* longest query
  DomainBufSize \* decode buffer used to compare names

\* Two headers with qd_count 1: a plain recursive query (flags 0x0100);
\* and one with AA, TC, RD and RCODE 15 set (flags 0x070F) and ns_count
\* and ar_count 1, so that every flag and count the builders rewrite or
\* keep is visible.
PlainHeader == <<18, 52, 1, 0, 0, 1, 0, 0, 0, 0, 0, 0>>
OddHeader   == <<18, 52, 7, 15, 0, 1, 0, 0, 0, 1, 0, 1>>

\* The address and TTL the facade passes (Rule's default ttl is 300).
IPv4 == <<10, 0, 0, 1>>
IPv6 == [i \in 1..16 |-> IF i = 16 THEN 1 ELSE 0]
TTL == 300

VARIABLE pkt

Init == pkt \in {PlainHeader, OddHeader}

\* The next byte of the query.
Extend == /\ Len(pkt) < MaxLen
          /\ \E b \in Bytes : pkt' = Append(pkt, b)

Spec == Init /\ [][Extend]_pkt

Parsed == parse(pkt)

Kinds == {"NXDOMAIN", "REFUSED", "A", "AAAA"}
AnswerSize == [k \in Kinds |-> CASE k = "A" -> 16 [] k = "AAAA" -> 28 [] OTHER -> 0]
Need(k) == Parsed.total_consumed + AnswerSize[k]

\* What builder k writes into a buffer of cap bytes.
Built(k, cap) ==
  CASE k = "NXDOMAIN" -> buildNXDomain(pkt, Parsed, cap)
    [] k = "REFUSED"  -> buildRefused(pkt, Parsed, cap)
    [] k = "A"        -> buildAResponse(pkt, Parsed, IPv4, TTL, cap)
    [] k = "AAAA"     -> buildAAAAResponse(pkt, Parsed, IPv6, TTL, cap)

RcodeOf == [k \in Kinds |-> CASE k = "NXDOMAIN" -> NXDOMAIN [] k = "REFUSED" -> REFUSED
                                 [] OTHER -> 0]

Bit(w, b) == (w & b) # 0

-----------------------------------------------------------------------------

\* Every builder, given a query parse() accepted, writes nothing when the
\* buffer is one byte short of total_consumed + answer_size and otherwise
\* writes exactly that many bytes: the query's ID, its question copied
\* byte for byte, QR and RA set, RD kept, AA set for A and AAAA, the RCODE
\* of the spec's table whatever RCODE the query carried, an_count 0 or 1,
\* and for A/AAAA an answer whose name is the pointer C0 0C (spec 4.2, 7,
\* and invariant 2).
BuildersAsSpecified ==
  Parsed.err = "Success" =>
    \A k \in Kinds : \A cap \in {Need(k) - 1, Need(k)} :
      LET r == Built(k, cap)
          f == Read16(r, 2)
      IN IF cap < Need(k) THEN r = <<>>
         ELSE /\ Len(r) = Need(k)
              /\ SubSeq(r, 1, 2) = SubSeq(pkt, 1, 2)
              /\ SubSeq(r, 13, Parsed.total_consumed) = SubSeq(pkt, 13, Parsed.total_consumed)
              /\ Bit(f, QR_BIT) /\ Bit(f, RA_BIT)
              /\ Bit(f, 256) = Bit(Parsed.flags, 256)
              /\ (k \in {"A", "AAAA"} => Bit(f, AA_BIT))
              /\ f % 16 = RcodeOf[k]
              /\ Read16(r, 6) = IF AnswerSize[k] = 0 THEN 0 ELSE 1
              /\ AnswerSize[k] > 0 =>
                   SubSeq(r, Parsed.total_consumed + 1, Parsed.total_consumed + 2) = <<192, 12>>

\* parse() of an A or AAAA response built for a query yields the query's
\* name, qtype and qclass (spec invariant 3, round trip).
RoundTrip ==
  Parsed.err = "Success" =>
    \A k \in {"A", "AAAA"} :
      LET r == Built(k, Need(k))
          back == parse(r)
      IN /\ back.err = "Success"
         /\ decodeName(r, Len(r), 12, DomainBufSize)
              = decodeName(pkt, Len(pkt), 12, DomainBufSize)
         /\ back.qtype = Parsed.qtype /\ back.qclass = Parsed.qclass


\* Every builder, given a query parse() accepted and a buffer that holds
\* the response, stores ns_count as 0, so the response claims no authority
\* record it does not carry (spec 4.2: "ns_count and ar_count are set to
\* 0"), also when the query's header carried one.  ar_count is left out:
\* spec section 1 also speaks of passing the additional-record count
\* through unchanged, so only the ns_count half is an unambiguous promise.
NsCountZeroed ==
  Parsed.err = "Success" =>
    \A k \in Kinds : Read16(Built(k, Need(k)), 8) = 0
=============================================================================
