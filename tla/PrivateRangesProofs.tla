------------------------- MODULE PrivateRangesProofs -------------------------
(***************************************************************************)
(* The address arithmetic is exact, for each of the 2^32 addresses.        *)
(***************************************************************************)
EXTENDS PrivateRanges, TLAPS

\* Two octets as one number.
Joined(a, b) == a * 256 + b

\* Two octets fit into a half, and can be told apart again.
LEMMA TwoOctets ==
  ASSUME NEW a \in Octets, NEW b \in Octets
  PROVE  /\ Joined(a, b) \in Nat
         /\ Joined(a, b) < 65536
         /\ Joined(a, b) \div 256 = a
         /\ Joined(a, b) % 256 = b
BY DEF Octets, Joined

\* One shift of a word whose upper half is below 256 loses nothing.
LEMMA ShiftInExact ==
  ASSUME NEW h \in Octets, NEW l \in Nat, l < 65536, NEW o \in Octets
  PROVE  ShiftIn([hi |-> h, lo |-> l], o) =
           [hi |-> h * 256 + l \div 256, lo |-> (l % 256) * 256 + o]
<1>1. (h * 256) % 65536 = h * 256
  BY DEF Octets
<1>2. (l * 256) % 65536 = (l % 256) * 256
  OBVIOUS
<1>3. ((h * 256) % 65536) + l \div 256 = h * 256 + l \div 256
  BY <1>1
<1>4. QED
  BY <1>2, <1>3 DEF ShiftIn, Half

\* A shift of a word in which two octets are left does not disturb them.
LEMMA ShiftInOctets ==
  ASSUME NEW h \in Octets, NEW a \in Octets, NEW b \in Octets, NEW o \in Octets
  PROVE  ShiftIn([hi |-> h, lo |-> Joined(a, b)], o) =
           [hi |-> Joined(h, a), lo |-> Joined(b, o)]
<1>1. ShiftIn([hi |-> h, lo |-> Joined(a, b)], o) =
        [hi |-> h * 256 + Joined(a, b) \div 256,
         lo |-> (Joined(a, b) % 256) * 256 + o]
  BY TwoOctets, ShiftInExact
<1>2. QED
  BY <1>1, TwoOctets DEF Joined

\* ipToNumber() of an address: its octets, two to each half of the word.
LEMMA IpToNumberExact ==
  ASSUME NEW ip, NEW a \in Octets, NEW b \in Octets, NEW c \in Octets,
         NEW d \in Octets,
         ip[1] = a, ip[2] = b, ip[3] = c, ip[4] = d
  PROVE  IpToNumber(ip) = [hi |-> Joined(a, b), lo |-> Joined(c, d)]
<1>0. 0 \in Octets /\ Joined(0, 0) = 0 /\ Joined(0, a) = a
  BY DEF Octets, Joined
<1>1. ShiftIn([hi |-> 0, lo |-> Joined(0, 0)], a) =
        [hi |-> Joined(0, 0), lo |-> Joined(0, a)]
  BY ShiftInOctets, <1>0
<1>2. ShiftIn([hi |-> 0, lo |-> Joined(0, a)], b) =
        [hi |-> Joined(0, 0), lo |-> Joined(a, b)]
  BY ShiftInOctets, <1>0
<1>3. ShiftIn([hi |-> 0, lo |-> Joined(a, b)], c) =
        [hi |-> Joined(0, a), lo |-> Joined(b, c)]
  BY ShiftInOctets, <1>0
<1>4. ShiftIn([hi |-> a, lo |-> Joined(b, c)], d) =
        [hi |-> Joined(a, b), lo |-> Joined(c, d)]
  BY ShiftInOctets
<1>5. QED
  BY <1>0, <1>1, <1>2, <1>3, <1>4 DEF IpToNumber

\* A range that starts at s.t.0.0 and ends at u.v.255.255 holds the addresses
\* whose first two octets are, as one number, between s.t and u.v.
LEMMA RangeByOctets ==
  ASSUME NEW range \in Ranges,
         NEW s \in Octets, NEW t \in Octets, NEW u \in Octets, NEW v \in Octets,
         range = [start |-> <<s, t, 0, 0>>, end |-> <<u, v, 255, 255>>],
         NEW ip \in Addresses
  PROVE  /\ AtMost(IpToNumber(range.start), IpToNumber(ip))
         /\ AtMost(IpToNumber(ip), IpToNumber(range.end))
         <=>
         /\ Joined(s, t) <= Joined(ip[1], ip[2])
         /\ Joined(ip[1], ip[2]) <= Joined(u, v)
<1>0. 0 \in Octets /\ 255 \in Octets /\ Joined(0, 0) = 0
        /\ Joined(255, 255) = 65535
  BY DEF Octets, Joined
<1>1. ip[1] \in Octets /\ ip[2] \in Octets /\ ip[3] \in Octets /\ ip[4] \in Octets
  BY DEF Addresses
<1>2. IpToNumber(ip) = [hi |-> Joined(ip[1], ip[2]), lo |-> Joined(ip[3], ip[4])]
  BY <1>1, IpToNumberExact
<1>3. IpToNumber(range.start) = [hi |-> Joined(s, t), lo |-> Joined(0, 0)]
  BY <1>0, IpToNumberExact
<1>4. IpToNumber(range.end) = [hi |-> Joined(u, v), lo |-> Joined(255, 255)]
  BY <1>0, IpToNumberExact
<1>5. Joined(s, t) \in Nat /\ Joined(u, v) \in Nat
  BY TwoOctets
<1>6. Joined(ip[1], ip[2]) \in Nat
  BY <1>1, TwoOctets
<1>7. Joined(ip[3], ip[4]) \in Nat /\ Joined(ip[3], ip[4]) < 65536
  BY <1>1, TwoOctets
<1>8. QED
  BY <1>0, <1>2, <1>3, <1>4, <1>5, <1>6, <1>7 DEF AtMost

\* Which addresses are between two ends that share the first octet.
LEMMA SameFirstOctet ==
  ASSUME NEW a \in Octets, NEW b \in Octets,
         NEW s \in Octets, NEW t \in Octets, NEW v \in Octets
  PROVE  /\ Joined(s, t) <= Joined(a, b)
         /\ Joined(a, b) <= Joined(s, v)
         <=> a = s /\ t <= b /\ b <= v
<1>1. CASE a = s
  BY <1>1 DEF Joined, Octets
<1>2. CASE a < s
  BY <1>2 DEF Joined, Octets
<1>3. CASE a > s
  BY <1>3 DEF Joined, Octets
<1>4. QED
  BY <1>1, <1>2, <1>3 DEF Octets

\* The numeric ranges of isInPrivateRange() are the reserved networks: no
\* address is lost or added by the shifts, the sign or an end of a range.
THEOREM RangesExact ==
  ASSUME NEW ip \in Addresses
  PROVE  IsInPrivateRange(ip) <=> Reserved(ip)
<1> DEFINE Between(s, t, u, v) ==
             /\ Joined(s, t) <= Joined(ip[1], ip[2])
             /\ Joined(ip[1], ip[2]) <= Joined(u, v)
           InRange(range) ==
             /\ AtMost(IpToNumber(range.start), IpToNumber(ip))
             /\ AtMost(IpToNumber(ip), IpToNumber(range.end))
           RangeOf(s, t, u, v) ==
             [start |-> <<s, t, 0, 0>>, end |-> <<u, v, 255, 255>>]
<1>1. ip[1] \in Octets /\ ip[2] \in Octets
  BY DEF Addresses
<1>2. \A s, t, u, v \in Octets :
        RangeOf(s, t, u, v) \in Ranges =>
          (InRange(RangeOf(s, t, u, v)) <=> Between(s, t, u, v))
  BY RangeByOctets
<1>3. /\ {0, 10, 15, 16, 31, 127, 168, 169, 172, 192, 254, 255} \subseteq Octets
      /\ Ranges = {RangeOf(10, 0, 10, 255), RangeOf(172, 16, 172, 31),
                   RangeOf(192, 168, 192, 168), RangeOf(127, 0, 127, 255),
                   RangeOf(169, 254, 169, 254), RangeOf(0, 0, 0, 255)}
  BY DEF Octets, Ranges
<1>4. IsInPrivateRange(ip) <=> \E range \in Ranges : InRange(range)
  BY DEF IsInPrivateRange
<1> HIDE DEF InRange, RangeOf
<1>5. IsInPrivateRange(ip) <=>
        \/ Between(10, 0, 10, 255) \/ Between(172, 16, 172, 31)
        \/ Between(192, 168, 192, 168) \/ Between(127, 0, 127, 255)
        \/ Between(169, 254, 169, 254) \/ Between(0, 0, 0, 255)
  <2> HIDE DEF Between
  <2>1. QED
    BY <1>2, <1>3, <1>4
<1>6. \A s, t, v \in Octets :
        Between(s, t, s, v) <=> ip[1] = s /\ t <= ip[2] /\ ip[2] <= v
  BY <1>1, SameFirstOctet
<1> HIDE DEF Between
<1>7. /\ Between(10, 0, 10, 255) <=> ip[1] = 10 /\ 0 <= ip[2] /\ ip[2] <= 255
      /\ Between(127, 0, 127, 255) <=> ip[1] = 127 /\ 0 <= ip[2] /\ ip[2] <= 255
      /\ Between(0, 0, 0, 255) <=> ip[1] = 0 /\ 0 <= ip[2] /\ ip[2] <= 255
      /\ Between(172, 16, 172, 31) <=> ip[1] = 172 /\ 16 <= ip[2] /\ ip[2] <= 31
      /\ Between(192, 168, 192, 168)
           <=> ip[1] = 192 /\ 168 <= ip[2] /\ ip[2] <= 168
      /\ Between(169, 254, 169, 254)
           <=> ip[1] = 169 /\ 254 <= ip[2] /\ ip[2] <= 254
  BY <1>3, <1>6
<1>8. QED
  BY <1>1, <1>5, <1>7 DEF Reserved, Octets
=============================================================================
