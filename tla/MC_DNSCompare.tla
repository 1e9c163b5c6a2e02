--------------------------- MODULE MC_DNSCompare ---------------------------
(***************************************************************************)
(* Checks domainEquals and domainEndsWith on every QNAME of a bounded     *)
(* space against the definitions of spec 4.1.  The state is the QNAME,    *)
(* grown one byte at a time; the packet is a query header, the QNAME and  *)
(* qtype/qclass.                                                           *)
(***************************************************************************)
EXTENDS DNSParser
LOCAL INSTANCE SequencesExt

CONSTANTS
  Bytes,          \* byte values QNAMEs are made of
  MaxName,        \* longest QNAME
  Candidates,     \* domain and suffix strings compared with the name
  DomainBufSize   \* domainEndsWith's decode buffer (MAX_DOMAIN_LENGTH + 1)

QueryHeader == <<18, 52, 1, 0, 0, 1, 0, 0, 0, 0, 0, 0>>
QTail  == <<0, 1, 0, 1>>

VARIABLE qname

Init == qname = <<>>

Extend == /\ Len(qname) < MaxName
          /\ \E b \in Bytes : qname' = Append(qname, b)

Spec == Init /\ [][Extend]_qname

Packet == QueryHeader \o qname \o QTail
Parsed == parse(Packet)

\* The labels of the name parse() accepted, lower-cased, pointers followed.
RECURSIVE LabelsFrom(_, _)
LabelsFrom(off, jumps) ==
  LET b == ReadByte(Packet, off) IN
  IF b = 0 \/ jumps >= MAX_LABELS THEN <<>>
  ELSE IF IsPointer(b)
  THEN LabelsFrom((b % 64) * 256 + ReadByte(Packet, off + 1), jumps + 1)
  ELSE <<[i \in 1..b |-> ToLowerByte(ReadByte(Packet, off + i))]>>
         \o LabelsFrom(off + 1 + b, jumps)

Labels == LabelsFrom(DNS_HEADER_SIZE, 0)

\* Labels joined by '.'.
Dotted(ls) == IF ls = <<>> THEN <<>>
              ELSE FoldLeft(LAMBDA a, l : a \o <<DOT>> \o l, Head(ls), Tail(ls))

\* Candidate strings: "a", "A", ".", "a.", ".a", "aa", "a.a", "A.a",
\* "aa.a", "a.aa", "a.a.a" and the empty string.
MCCandidates ==
  {<<>>, <<97>>, <<65>>, <<46>>, <<97, 46>>, <<46, 97>>, <<97, 97>>,
   <<97, 46, 97>>, <<65, 46, 97>>, <<97, 97, 46, 97>>, <<97, 46, 97, 97>>,
   <<97, 46, 97, 46, 97>>}

Lower(s) == [i \in DOMAIN s |-> ToLowerByte(s[i])]

-----------------------------------------------------------------------------

\* domainEquals accepts no candidate but the name's labels joined by dots,
\* case folded, or that text with one trailing dot (which the code
\* accepts when the last label is followed by a pointer to a zero byte);
\* and it accepts the name itself whenever no pointer is involved.  A
\* filter comparing with domainEquals thus never matches another name.
EqualsSound ==
  Parsed.err = "Success" =>
    \A d \in Candidates :
      LET eq == domainEquals(Packet, Len(Packet), DNS_HEADER_SIZE, d) IN
      /\ eq => Lower(d) \in {Dotted(Labels), Dotted(Labels) \o <<DOT>>}
      /\ (~\E i \in 1..Len(qname) : IsPointer(qname[i])) /\ Lower(d) = Dotted(Labels) => eq

\* domainEndsWith is true exactly when the suffix, case folded, is a run of
\* whole trailing labels of the name: "ample.com" does not match
\* "example.com" (spec 4.1), for every name the decode buffer can hold.
EndsWithAsSpecified ==
  Parsed.err = "Success" /\ Len(Dotted(Labels)) < DomainBufSize =>
    \A s \in Candidates \ {<<>>} :
      domainEndsWith(Packet, Len(Packet), DNS_HEADER_SIZE, s, DomainBufSize)
        <=> \E k \in 1..Len(Labels) : Lower(s) = Dotted(SubSeq(Labels, k, Len(Labels)))
=============================================================================
