---------------------------- MODULE SemVer ----------------------------
(* utils/semver.c: major, minor and patch of a version in one word, and  *)
(* the next version by one addition to that word.                        *)
EXTENDS Integers

CONSTANTS Majors, Minors, Patches    \* ranges of the fields: 2^8, 2^12, 2^12

ASSUME RangeAssumption ==
    Majors \in Nat \ {0} /\ Minors \in Nat \ {0} /\ Patches \in Nat \ {0}

VARIABLE version

WordRange == Majors * Minors * Patches

BuildVersion(major, minor, patch) ==
    (patch + minor * Patches + major * Minors * Patches) % WordRange

GetPatch(v) == v % Patches
GetMinor(v) == (v \div Patches) % Minors
GetMajor(v) == (v \div (Minors * Patches)) % Majors

VInit == version = 0

\* build_version with parts in their documented ranges.
Build ==
    \E major \in 0 .. Majors - 1, minor \in 0 .. Minors - 1, patch \in 0 .. Patches - 1 :
       version' = BuildVersion(major, minor, patch)

NextPatch == version' = (version + 1) % WordRange

NextMinor == version' = (version + (Patches - GetPatch(version))) % WordRange

\* Mutant of NextMajor: the patch is not taken off.
NextMajorKeepsPatch ==
    version' = (version + (Minors * Patches - GetMinor(version) * Patches)) % WordRange

NextMajor ==
    version' = (version + (Minors * Patches - GetMinor(version) * Patches
                                            - GetPatch(version))) % WordRange

VNext == Build \/ NextPatch \/ NextMinor \/ NextMajor

VSpec == VInit /\ [][VNext]_version

----------------------------------------------------------------------
\* The version as print_human and get_human show it, and what comes after it:
\* a field at its end carries into the one above, the major starts again.
Human(v) == <<GetMajor(v), GetMinor(v), GetPatch(v)>>
AfterMajor(h) == <<(h[1] + 1) % Majors, 0, 0>>
AfterMinor(h) == IF h[2] < Minors - 1 THEN <<h[1], h[2] + 1, 0>> ELSE AfterMajor(h)
AfterPatch(h) == IF h[3] < Patches - 1 THEN <<h[1], h[2], h[3] + 1>> ELSE AfterMinor(h)

\* One addition to the word does to the three fields what semver.h says of
\* next_patch, next_minor and next_major: one field up by one and those below
\* it at 0, for versions reached by any calls, at the ends of fields as well.
NextIsNext ==
    [][/\ NextPatch => Human(version') = AfterPatch(Human(version))
       /\ NextMinor => Human(version') = AfterMinor(Human(version))
       /\ NextMajor => Human(version') = AfterMajor(Human(version))]_version
======================================================================
