---------------------------------- MODULE Cidr ----------------------------------
(***************************************************************************)
(* kahanaNetCIDR of src/net.c: the first and the last address of a range, and *)
(* its mask, from a text as "address/prefix" or "address/mask".  Addresses    *)
(* are kept as inet_addr() gives them, in the order of the network, while     *)
(* the sum is the one of a little-endian machine.                            *)
(***************************************************************************)
EXTENDS Integers

CONSTANTS ByteBits,   \* 8
          Bytes       \* 4

VARIABLE cidr   \* kCIDR_t with the result of the call and its suffix, or NoRange

Width == ByteBits * Bytes
AllOnes == 2 ^ Width - 1
Addresses == 0..AllOnes

NoRange == [rc |-> "none"]

CidrInit == cidr = NoRange

(* htonl(): byte i comes to be byte Bytes - 1 - i *)
Byte(a, i) == (a \div 2 ^ (ByteBits * i)) % 2 ^ ByteBits
Swapped(a) ==
  LET Sum[i \in 0..Bytes] ==
        IF i = 0 THEN 0 ELSE Sum[i - 1] + Byte(a, i - 1) * 2 ^ (ByteBits * (Bytes - i))
  IN Sum[Bytes]

(* 0xFFFFFFFFUL << ( 32 - prefix ), cut to 32 bits, in network order *)
MaskOf(prefix) == Swapped((AllOnes * 2 ^ (Width - prefix)) % 2 ^ Width)

(* The prefix is unsigned when it is compared: a negative one is too large.   *)
Masks(suffix) ==
  CASE suffix.kind = "mask"                            -> {suffix.value}
    [] suffix.kind = "prefix" /\ suffix.value \in 1..Width -> {MaskOf(suffix.value)}
    [] OTHER                                           -> {}

Suffixes == [kind : {"mask"}, value : Addresses]
            \cup [kind : {"prefix"}, value : -1..(Width + 1)]
            \cup [kind : {"none"}, value : {0}]

(* An address or a mask that is none reads as AllOnes, which nobody looks at. *)
(* The text is copied to where there is no room for its NUL: what writing    *)
(* that behind it does is not defined, and the call may go on as if there    *)
(* were room.                                                                *)
NetCIDR ==
  /\ cidr = NoRange
  /\ \/ cidr' = [rc |-> "wild"]
     \/ \E from \in Addresses, suffix \in Suffixes :
          \/ /\ Masks(suffix) = {}
             /\ cidr' = [rc |-> "APR_EINVAL", suffix |-> suffix, mask |-> 0, from |-> 0, to |-> 0]
          \/ \E mask \in Masks(suffix) :
                cidr' = [rc |-> "APR_SUCCESS", suffix |-> suffix, mask |-> mask, from |-> from,
                         to |-> (from + (AllOnes - mask)) % 2 ^ Width]

-----------------------------------------------------------------------------
(* The addresses that agree with a in their first `prefix' bits. *)
Network(a, prefix) ==
  {b \in Addresses : b \div 2 ^ (Width - prefix) = a \div 2 ^ (Width - prefix)}

(* The bytes of the range are added in the wrong order, and yet nothing is    *)
(* carried from one to another when the address is the first of its network: *)
(* then the range is the network.  Otherwise it begins at the address, and   *)
(* where it ends is no use.                                                  *)
RangeIsNetwork ==
  cidr.rc = "APR_SUCCESS" =>
    \A prefix \in 1..Width :
      /\ cidr.suffix = [kind |-> "prefix", value |-> prefix]
           \/ cidr.suffix = [kind |-> "mask", value |-> Swapped(AllOnes - (2 ^ (Width - prefix) - 1))]
      /\ Swapped(cidr.from) % 2 ^ (Width - prefix) = 0
      => {a \in Addresses : Swapped(cidr.from) <= a /\ a <= Swapped(cidr.to)}
           = Network(Swapped(cidr.from), prefix)
================================================================================
