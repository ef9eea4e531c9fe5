----------------------------- MODULE Cidr -----------------------------
(* cidr/cidr.c: from an address and the length of its prefix the mask,   *)
(* the first and the last host and the broadcast address, in one word.   *)
EXTENDS Integers

CONSTANTS
    AddressBits,        \* bits in an address, 32
    WordOr(_, _)        \* the inclusive or of two words

\* The value of a bit.
Power[k \in 0 .. AddressBits] == IF k = 0 THEN 1 ELSE 2 * Power[k - 1]

AddressRange == Power[AddressBits]
All == AddressRange - 1

\* What is used of it: an or with the last k bits sets those.
ASSUME OrAssumption ==
    /\ AddressBits \in Nat
    /\ \A a \in 0 .. All, k \in 0 .. AddressBits :
          WordOr(a, Power[k] - 1) = a - (a % Power[k]) + Power[k] - 1

VARIABLES
    cpc,                \* "args" or "exit"
    ip, mask,           \* the argument A.B.C.D/N
    out,                \* what is printed
    cstatus             \* exit status, or -1

cvars == <<cpc, ip, mask, out, cstatus>>

NoOutput == [subnet |-> 0, network |-> 0, from |-> 0, to |-> 0, broadcast |-> 0]

CInit == cpc = "args" /\ ip = 0 /\ mask = 0 /\ out = NoOutput /\ cstatus = -1

\* Mutant of Subnet: shifts by the length of the prefix.
SubnetOfPrefix(m) == {(All * Power[m]) % AddressRange}

\* A shift by all the bits, for a prefix of no length, is undefined: the
\* word is shifted out or not shifted at all.
Subnet(m) == IF m = 0 THEN {0, All} ELSE {(All * Power[AddressBits - m]) % AddressRange}

Calculate(a, subnet) ==
    LET broadcast == WordOr(a, All - subnet)
    IN  [subnet |-> subnet, network |-> a, from |-> (a + 1) % AddressRange,
         to |-> (broadcast - 1) % AddressRange, broadcast |-> broadcast]

PrintRanges ==
    /\ cpc = "args"
    /\ ip' \in 0 .. All /\ mask' \in 0 .. AddressBits
    /\ \E subnet \in Subnet(mask') : out' = Calculate(ip', subnet)
    /\ cpc' = "exit" /\ cstatus' = 0

\* No argument, one that does not parse, an octet or a length out of range.
Reject ==
    /\ cpc = "args"
    /\ cpc' = "exit" /\ cstatus' = 1
    /\ UNCHANGED <<ip, mask, out>>

CNext == PrintRanges \/ Reject

CSpec == CInit /\ [][CNext]_cvars

----------------------------------------------------------------------
\* The addresses with the first m bits of a.
Network(a, m) ==
    {b \in 0 .. All : b \div Power[AddressBits - m] = a \div Power[AddressBits - m]}

\* What a calculator of networks has to print, for every address and every
\* prefix but the one of no length: the broadcast address is the last one of
\* the network, and the range of hosts is what lies between the argument and
\* it, which is all the others where the argument is the network's first
\* address, as in the usage, and nothing for /31 and /32.  Only where the
\* address after the argument or the one before the last does not exist, the
\* sums wrap, and nothing is claimed of the range.
HostsOfNetwork ==
    cstatus = 0 /\ mask > 0 =>
       LET net == Network(ip, mask)
           last == CHOOSE b \in net : \A c \in net : c <= b
       IN  /\ out.broadcast = last
           /\ ip < All /\ last > 0 =>
                 out.from .. out.to = {c \in net : ip < c /\ c < last}
======================================================================
