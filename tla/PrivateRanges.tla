---------------------------- MODULE PrivateRanges ----------------------------
(***************************************************************************)
(* ssrf.validator.ts: which hosts a webhook URL may name.                  *)
(*                                                                         *)
(* An IPv4 address is turned into a 32-bit number, octet by octet, and     *)
(* compared with the ends of ranges.  A 32-bit word is a pair of halves    *)
(* here: shifts drop what leaves the upper half, as << does, and words are *)
(* compared as unsigned numbers, as after >>> 0.  A host is an address or  *)
(* a name; URLs that do not parse and other protocols are left out.        *)
(***************************************************************************)
EXTENDS Naturals

Octets == 0..255
Addresses == [1..4 -> Octets]
Half == 65536

\* (acc << 8) + octet.
ShiftIn(acc, octet) ==
  [hi |-> ((acc.hi * 256) % Half) + (acc.lo \div 256),
   lo |-> ((acc.lo * 256) % Half) + octet]

IpToNumber(ip) ==
  ShiftIn(ShiftIn(ShiftIn(ShiftIn([hi |-> 0, lo |-> 0],
    ip[1]), ip[2]), ip[3]), ip[4])

\* Mutant of AtMost: the end of a range is not in it.
Below(a, b) == a.hi < b.hi \/ (a.hi = b.hi /\ a.lo < b.lo)

AtMost(a, b) == a.hi < b.hi \/ (a.hi = b.hi /\ a.lo <= b.lo)

\* PRIVATE_RANGES.
Ranges ==
  {[start |-> <<10, 0, 0, 0>>, end |-> <<10, 255, 255, 255>>],
   [start |-> <<172, 16, 0, 0>>, end |-> <<172, 31, 255, 255>>],
   [start |-> <<192, 168, 0, 0>>, end |-> <<192, 168, 255, 255>>],
   [start |-> <<127, 0, 0, 0>>, end |-> <<127, 255, 255, 255>>],
   [start |-> <<169, 254, 0, 0>>, end |-> <<169, 254, 255, 255>>],
   [start |-> <<0, 0, 0, 0>>, end |-> <<0, 255, 255, 255>>]}

IsInPrivateRange(ip) ==
  \E range \in Ranges :
    /\ AtMost(IpToNumber(range.start), IpToNumber(ip))
    /\ AtMost(IpToNumber(ip), IpToNumber(range.end))

\* An IPv6 address is a name here: isIP() does not take the brackets that it
\* has in a URL.
BlockedHostnames ==
  {"localhost", "0.0.0.0", "[::1]", "[::]", "metadata.google.internal",
   "instance-data", "169.254.169.254"}

\* isUnsafeUrl(): an address is judged by its range alone, a name, with
\* lower case letters, by the list.
IsUnsafe(host) ==
  IF host.kind = "address" THEN IsInPrivateRange(host.ip)
  ELSE host.name \in BlockedHostnames

\* The same ranges as RFC 1918, 3927, 1122 write them, by octets.
Reserved(ip) ==
  \/ ip[1] \in {0, 10, 127}
  \/ ip[1] = 172 /\ ip[2] \in 16..31
  \/ ip[1] = 192 /\ ip[2] = 168
  \/ ip[1] = 169 /\ ip[2] = 254
=============================================================================
