---------------------------------- MODULE Cidr --------------------------------
(***************************************************************************)
(* Lists of CIDR blocks (apps/api/src/common/cidr.util.ts).  A block is    *)
(* what IpPool!parseCidr makes of it, its first and last address; its      *)
(* prefix follows from its size.  Lists whose order nobody looks at are    *)
(* sets.                                                                   *)
(***************************************************************************)
EXTENDS IpPool, Sequences, SequencesExt

CONSTANTS Reserved,     \* RESERVED_RANGES
          WidestRoute   \* the size of the widest block a route may have, 2^24

Block(first, bits) == [network |-> first, broadcast |-> first + 2^bits - 1]

overlapsReserved(range) ==
  \E r \in Reserved : range.network <= r.broadcast /\ r.network <= range.broadcast

sanitizeCidrs(cidrs) ==
  {c \in cidrs : c.broadcast - c.network < WidestRoute /\ ~overlapsReserved(c)}

\* Mutant: the largest block that is aligned, whether it ends in the range or not.
rangeToCidrsUnbounded(first, last) ==
  LET from[cur \in first .. last + 2^AddressBits] ==
        IF cur > last THEN <<>>
        ELSE LET size == Max({s \in 0 .. AddressBits : cur % 2^s = 0})
             IN  <<Block(cur, size)>> \o from[cur + 2^size]
  IN  from[first]

\* The size of the largest block that starts at cur, is aligned and ends in the
\* range; the loop's break at 2^32 is the end of the last range.
Largest(cur, last) ==
  Max({s \in 0 .. AddressBits : cur % 2^s = 0 /\ cur + 2^s - 1 <= last})

rangeToCidrs(first, last) ==
  LET from[cur \in first .. last + 1] ==
        IF cur > last THEN <<>>
        ELSE <<Block(cur, Largest(cur, last))>> \o from[cur + 2^Largest(cur, last)]
  IN  from[first]

\* What the sorted blocks have at an address: of those that start there the
\* widest swallows the others.
Starting(cidrs, a) == {c \in cidrs : c.network = a}
WidestAt(cidrs, a) ==
  [network |-> a, broadcast |-> Max({c.broadcast : c \in Starting(cidrs, a)})]

Merge(merged, r) ==
  IF merged # <<>> /\ r.network <= Last(merged).broadcast + 1
  THEN [merged EXCEPT ![Len(merged)].broadcast = Max({@, r.broadcast})]
  ELSE Append(merged, r)

\* The loop over the sorted blocks, by the addresses they start at.
toMergedRanges(cidrs) ==
  LET below[n \in 0 .. 2^AddressBits] ==
        IF n = 0 THEN <<>>
        ELSE IF Starting(cidrs, n - 1) = {} THEN below[n - 1]
        ELSE Merge(below[n - 1], WidestAt(cidrs, n - 1))
  IN  below[2^AddressBits]

aggregateCidrs(cidrs) ==
  FlattenSeq([i \in DOMAIN toMergedRanges(cidrs) |->
    LET r == toMergedRanges(cidrs)[i] IN rangeToCidrs(r.network, r.broadcast)])

\* Mutant: the part above the excluded address starts with it.
excludeIpOffByOne(cidrs, ip) ==
  FlattenSeq([i \in DOMAIN toMergedRanges(cidrs) |->
    LET r == toMergedRanges(cidrs)[i] IN
    IF ip < r.network \/ ip > r.broadcast THEN rangeToCidrs(r.network, r.broadcast)
    ELSE rangeToCidrs(r.network, ip - 1) \o rangeToCidrs(ip, r.broadcast)])

excludeIpFromCidrs(cidrs, ip) ==
  FlattenSeq([i \in DOMAIN toMergedRanges(cidrs) |->
    LET r == toMergedRanges(cidrs)[i] IN
    IF ip < r.network \/ ip > r.broadcast THEN rangeToCidrs(r.network, r.broadcast)
    ELSE rangeToCidrs(r.network, ip - 1) \o rangeToCidrs(ip + 1, r.broadcast)])

-------------------------------------------------------------------------------
(* The reference: the fewest blocks that cover a set of addresses are the  *)
(* largest ones inside it.                                                 *)
Span(c)        == c.network .. c.broadcast
Covered(cidrs) == UNION {Span(c) : c \in cidrs}

Blocks == {parseCidr(a, prefix) : a \in Addresses, prefix \in 0 .. AddressBits}
FewestBlocks(A) ==
  LET inside == {b \in Blocks : Span(b) \subseteq A}
  IN  {b \in inside : ~\E larger \in inside : Span(b) \subseteq Span(larger) /\ b # larger}

IsFewest(list, A) == ToSet(list) = FewestBlocks(A) /\ IsInjective(list)
===============================================================================
