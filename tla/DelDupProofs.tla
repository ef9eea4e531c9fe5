------------------------- MODULE DelDupProofs -------------------------
(* Proofs about module DelDup: what deldup keeps to for any arguments,   *)
(* names, links and contents, and whatever others do meanwhile.          *)
EXTENDS DelDup, SequenceTheorems, TLAPS

Arguments == 1 .. Len(argv)

\* An argument before the one being looked at that is kept under hash h.
Kept(h, j) ==
    /\ j \in Arguments /\ j < ii /\ j \notin removed
    /\ h \in DOMAIN m /\ m[h] = argv[j] /\ hash[j] = h

\* A deleted argument has an earlier copy that is kept.
HasCopy(i) ==
    hash[i] # Null /\ \E j \in 1 .. i - 1 : Kept(hash[i], j)

Inv ==
    /\ pc \in {"hash", "read", "scan", "delete", "remove", "done"}
    /\ argv \in Seq(Paths) /\ ii \in Nat \ {0}
    /\ pc = "read" => ii <= Len(argv)
    /\ pc \in {"hash", "read"} => DOMAIN m = {} /\ removed = {}
    /\ removed \subseteq Arguments /\ \A i \in removed : i < ii
    /\ pc \in {"delete", "remove"} => ii <= Len(argv) /\ hash[ii] # Null /\ hash[ii] \in DOMAIN m
    /\ \A h \in DOMAIN m : \E j \in Arguments : Kept(h, j)
    /\ \A i \in removed : HasCopy(i)

----------------------------------------------------------------------
LEMMA InitInv == Init => Inv
<1> SUFFICES ASSUME Init PROVE Inv
  OBVIOUS
<1>1. argv \in Seq(Paths)
  BY ArgvAssumption DEF Init
<1>2. DOMAIN m = {}
  BY DEF Init
<1> QED
  BY <1>1, <1>2 DEF Init, Inv

\* A step of the first loop: nothing is in the map, nothing deleted.
LEMMA HashingInv ==
    ASSUME Inv, pc \in {"hash", "read"}, UNCHANGED <<argv, m, removed>>,
           \/ pc' = "hash" /\ ii' = ii + 1
           \/ pc' = "read" /\ ii' = ii /\ ii <= Len(argv)
           \/ pc' \in {"scan", "done"} /\ ii' = 1
    PROVE  Inv'
BY DEF Inv, Arguments

\* A step of the second loop that deletes nothing and leaves the map.
LEMMA ScanningInv ==
    ASSUME Inv, pc \in {"scan", "delete", "remove"}, UNCHANGED <<argv, m, removed, hash>>,
           ii' \in {ii, ii + 1}, pc' \in {"scan", "delete", "remove", "done"},
           pc' \in {"delete", "remove"} =>
              ii' <= Len(argv) /\ hash[ii'] # Null /\ hash[ii'] \in DOMAIN m
    PROVE  Inv'
<1>1. \A h, j : Kept(h, j) => Kept(h, j)'
  BY DEF Inv, Kept, Arguments
<1>2. \A i : HasCopy(i) => HasCopy(i)'
  BY <1>1 DEF HasCopy
<1> QED
  BY <1>1, <1>2 DEF Inv, Arguments

\* A hash is entered for its first argument.
LEMMA FirstInv ==
    ASSUME Inv, ScanFirst
    PROVE  Inv'
<1>1. CASE UNCHANGED m
  BY <1>1, ScanningInv DEF ScanFirst, Scanning, NextArgument
<1>2. CASE Map!Put(hash[ii], argv[ii])
  <2>1. /\ pc = "scan" /\ pc' = "scan" /\ ii' = ii + 1
        /\ ii \in Arguments /\ ii \notin removed /\ Len(argv) \in Nat
        /\ UNCHANGED <<argv, hash, removed>>
        /\ hash[ii] \notin DOMAIN m
    BY DEF ScanFirst, Scanning, NextArgument, Inv, Arguments
  <2>2. /\ DOMAIN m' = DOMAIN m \union {hash[ii]}
        /\ m'[hash[ii]] = argv[ii]
        /\ \A h \in DOMAIN m : m'[h] = m[h]
    BY <1>2, <2>1 DEF Map!Put
  <2>3. \A h, j : h = hash[ii] /\ j = ii => Kept(h, j)'
    BY <2>1, <2>2 DEF Kept, Arguments, Inv
  <2>4. \A h, j : Kept(h, j) => Kept(h, j)'
    BY <2>1, <2>2 DEF Kept, Arguments, Inv
  <2>5. \A i : HasCopy(i) => HasCopy(i)'
    BY <2>1, <2>4 DEF HasCopy
  <2>6. \A h \in DOMAIN m' : \E j \in Arguments' : Kept(h, j)'
    <3> SUFFICES ASSUME NEW h \in DOMAIN m'
                 PROVE  \E j \in Arguments' : Kept(h, j)'
      OBVIOUS
    <3>1. CASE h \in DOMAIN m
      BY <2>1, <2>4, <3>1 DEF Inv, Arguments
    <3>2. CASE h = hash[ii]
      BY <2>1, <2>3, <3>2 DEF Arguments
    <3> QED
      BY <2>2, <3>1, <3>2
  <2> QED
    BY <2>1, <2>5, <2>6 DEF Inv, Arguments
<1> QED
  BY <1>1, <1>2 DEF ScanFirst

\* An argument is deleted: it is not one that the map names.
LEMMA DeleteInv ==
    ASSUME Inv, Delete
    PROVE  Inv'
<1>1. /\ pc = "remove" /\ pc' = "scan" /\ ii' = ii + 1
      /\ ii \in Arguments /\ Len(argv) \in Nat
      /\ UNCHANGED <<argv, hash, m>> /\ removed' = removed \union {ii}
      /\ hash[ii] # Null /\ hash[ii] \in DOMAIN m
  BY DEF Delete, NextArgument, Inv, Arguments
<1>2. \A h, j : Kept(h, j) => Kept(h, j)'
  BY <1>1 DEF Kept, Arguments, Inv
<1>3. \A i \in removed : HasCopy(i)'
  BY <1>1, <1>2 DEF HasCopy, Inv
<1>4. ASSUME NEW i, i = ii
      PROVE  HasCopy(i)'
  <2>1. PICK j \in Arguments : Kept(hash[ii], j)
    BY <1>1 DEF Inv
  <2>2. j \in 1 .. ii - 1
    BY <1>1, <2>1 DEF Kept, Arguments
  <2> QED
    BY <1>1, <1>2, <1>4, <2>1, <2>2 DEF HasCopy
<1>5. \A i \in removed' : HasCopy(i)'
  BY <1>1, <1>3, <1>4
<1> QED
  BY <1>1, <1>2, <1>5 DEF Inv, Arguments

LEMMA NextInv == Inv /\ [Next]_vars => Inv'
<1> SUFFICES ASSUME Inv, [Next]_vars PROVE Inv'
  OBVIOUS
<1>1. CASE Open \/ Fread \/ Hash \/ HashCutShort
  <2>1. CASE Open \/ Fread
    BY <2>1, HashingInv DEF Open, Fread, Inv
  <2>2. CASE Hash \/ HashCutShort
    BY <2>2, HashingInv DEF Hash, HashCutShort, Hashed, NextArgument
  <2> QED
    BY <1>1, <2>1, <2>2
<1>2. CASE HashFails \/ HashDone
  BY <1>2, HashingInv DEF HashFails, HashDone, NextArgument
<1>3. CASE ScanSkip \/ ScanDuplicate \/ ScanDone
  BY <1>3, ScanningInv DEF ScanSkip, ScanDuplicate, ScanDone, Scanning, NextArgument
<1>4. CASE Access \/ DeleteFails
  BY <1>4, ScanningInv DEF Access, DeleteFails, NextArgument, Inv
<1>5. ASSUME UNCHANGED <<pc, argv, hash, m, ii, removed>>
      PROVE  Inv'
  BY <1>5 DEF Inv, HasCopy, Kept, Arguments
<1>6. CASE \E p \in Paths : Interfere(p)
  BY <1>5, <1>6 DEF Interfere
<1>7. CASE UNCHANGED vars
  BY <1>5, <1>7 DEF vars
<1> QED
  BY <1>1, <1>2, <1>3, <1>4, <1>6, <1>7, FirstInv, DeleteInv DEF Next, Program

\* deldup deletes an argument only for an earlier one of the same hash, which
\* the map names and which it has not deleted itself at any time: for any
\* arguments, links and contents, whoever interferes and whatever fails.  Of
\* the file of that earlier argument this says nothing: others may have
\* removed or rewritten it, and with a link or a repeated path it may be the
\* one that has just been deleted.
THEOREM FirstIsKept == Spec => []KeepsFirst
<1>1. Inv => KeepsFirst
  <2> SUFFICES ASSUME Inv PROVE KeepsFirst
    OBVIOUS
  <2>1. DOMAIN argv = Arguments
    BY LenProperties DEF Inv, Arguments
  <2> QED
    BY <2>1 DEF Inv, KeepsFirst, HasCopy, Kept
<1> QED
  BY <1>1, InitInv, NextInv, PTL DEF Spec

----------------------------------------------------------------------
(* Nothing is lost, where no name is a link and none is given twice.    *)

PlainUse ==
    /\ \A D \in Directories, p \in Paths : D[p] \in {p, Null}
    /\ \A A \in Argvs : \A i, j \in DOMAIN A : A[i] = A[j] => i = j

\* A hash is the content of its argument's file, which is there until the
\* argument is deleted; what could be read at the start still can.
AsHashed ==
    /\ \A i \in Arguments :
          hash[i] # Null => /\ data[argv[i]] = hash[i]
                            /\ i \notin removed => dir[argv[i]] = argv[i]
    /\ \A x \in before : \E q \in Paths : dir[q] = q /\ data[q] = x

\* What has been read of the argument's file is what it begins with.
AsRead ==
    /\ fd = argv[ii] /\ dir[fd] = fd
    /\ Len(got) <= Len(data[fd]) /\ \A i \in 1 .. Len(got) : got[i] = data[fd][i]

PlainInv ==
    /\ \A i, j \in Arguments : argv[i] = argv[j] => i = j
    /\ DOMAIN hash = Arguments /\ hash = [i \in DOMAIN hash |-> hash[i]]
    /\ data \in [Paths -> Contents] /\ dir \in [Paths -> Paths \union {Null}]
    /\ \A p \in Paths : dir[p] \in {p, Null}
    /\ pc = "read" => fd \in Paths /\ got \in Seq(Buffers)
    /\ ~disturbed /\ ~cut => AsHashed /\ (pc = "read" => AsRead)

LEMMA PlainReadable ==
    ASSUME \A p \in Paths : dir[p] \in {p, Null}
    PROVE  /\ \A p \in Paths : IsRegular(p) <=> dir[p] = p
           /\ \A x : x \in Readable <=> \E q \in Paths : dir[q] = q /\ data[q] = x
<1>1. \A p \in Paths : IsRegular(p) <=> dir[p] = p
  BY NullAssumption DEF IsRegular
<1> QED
  BY <1>1 DEF Readable, Read

LEMMA InitPlain ==
    ASSUME PlainUse, Init
    PROVE  PlainInv
<1>1. argv \in Seq(Paths) /\ DOMAIN argv = Arguments
  BY ArgvAssumption, LenProperties DEF Init, Arguments
<1>2. \A i, j \in Arguments : argv[i] = argv[j] => i = j
  BY <1>1 DEF PlainUse, Init
<1>3. \A p \in Paths : dir[p] \in {p, Null}
  BY DEF PlainUse, Init
<1>4. data \in [Paths -> Contents] /\ dir \in [Paths -> Paths \union {Null}]
  BY DirectoryAssumption DEF Init, Directory
<1>5. /\ DOMAIN hash = Arguments /\ hash = [i \in DOMAIN hash |-> hash[i]]
      /\ \A i \in Arguments : hash[i] = Null
  BY <1>1 DEF Init
<1>6. \A x \in before : \E q \in Paths : dir[q] = q /\ data[q] = x
  BY <1>3, PlainReadable DEF Init
<1>7. pc = "hash"
  BY DEF Init
<1> QED
  BY <1>2, <1>3, <1>4, <1>5, <1>6, <1>7 DEF PlainInv, AsHashed

\* A step that changes neither files nor hashes.
LEMMA PlainUntouched ==
    ASSUME PlainInv, UNCHANGED <<argv, dir, data, before, hash, removed>>, pc' # "read",
           (cut => cut'), (disturbed => disturbed')
    PROVE  PlainInv'
BY DEF PlainInv, AsHashed, Arguments

LEMMA OpenPlain ==
    ASSUME Inv, PlainInv, Open
    PROVE  PlainInv'
<1>1. /\ pc' = "read" /\ ii' = ii /\ fd' = dir[argv[ii]] /\ got' = << >>
      /\ ii \in Arguments
      /\ UNCHANGED <<argv, dir, data, before, hash, removed, cut, disturbed>>
  BY DEF Open, Inv, Arguments
<1>2. argv[ii] \in Paths
  BY <1>1, ElementOfSeq DEF Inv, Arguments
<1>3. dir[argv[ii]] = argv[ii]
  BY <1>2, PlainReadable DEF Open, PlainInv
<1>4. data[argv[ii]] \in Seq(Buffers)
  BY <1>2, ContentsAssumption DEF PlainInv
<1>5. << >> \in Seq(Buffers) /\ Len(<< >>) = 0 /\ Len(data[argv[ii]]) \in Nat
  BY <1>4, LenProperties
<1>6. AsRead' /\ fd' \in Paths /\ got' \in Seq(Buffers)
  BY <1>1, <1>2, <1>3, <1>5 DEF AsRead
<1> QED
  BY <1>1, <1>6 DEF PlainInv, AsHashed, Arguments

LEMMA FreadPlain ==
    ASSUME Inv, PlainInv, Fread
    PROVE  PlainInv'
<1>1. /\ pc = "read" /\ pc' = "read"
      /\ Len(got) < Len(data[fd]) /\ got' = Append(got, data[fd][Len(got) + 1])
      /\ UNCHANGED <<argv, dir, data, before, hash, fd, ii, removed, cut, disturbed>>
  BY DEF Fread
<1>2. fd \in Paths /\ got \in Seq(Buffers) /\ data[fd] \in Seq(Buffers)
  BY <1>1, ContentsAssumption DEF PlainInv
<1>3. Len(got) + 1 \in 1 .. Len(data[fd]) /\ Len(got) \in Nat /\ Len(data[fd]) \in Nat
  BY <1>1, <1>2, LenProperties
<1>4. data[fd][Len(got) + 1] \in Buffers
  BY <1>2, <1>3, ElementOfSeq
<1>5. /\ got' \in Seq(Buffers) /\ Len(got') = Len(got) + 1
      /\ \A i \in 1 .. Len(got) : got'[i] = got[i]
      /\ got'[Len(got) + 1] = data[fd][Len(got) + 1]
  BY <1>1, <1>2, <1>4, AppendProperties
<1>6. AsRead => AsRead'
  BY <1>1, <1>3, <1>5 DEF AsRead
<1> QED
  BY <1>1, <1>2, <1>5, <1>6 DEF PlainInv, AsHashed, Arguments

LEMMA HashPlain ==
    ASSUME Inv, PlainInv, Hash
    PROVE  PlainInv'
<1>1. /\ pc = "read" /\ pc' = "hash" /\ ii \in Arguments
      /\ removed = {} /\ removed' = removed
      /\ Len(got) >= Len(data[fd]) /\ hash' = [hash EXCEPT ![ii] = got]
      /\ UNCHANGED <<argv, dir, data, before, cut, disturbed>>
  BY DEF Hash, Hashed, Inv, Arguments
<1>2. fd \in Paths /\ got \in Seq(Buffers) /\ data[fd] \in Seq(Buffers)
  BY <1>1, ContentsAssumption DEF PlainInv
<1>3. AsRead => got = data[fd] /\ fd = argv[ii] /\ dir[argv[ii]] = argv[ii]
  <2> SUFFICES ASSUME AsRead PROVE got = data[fd]
    BY DEF AsRead
  <2>1. Len(got) = Len(data[fd])
    BY <1>1, <1>2, LenProperties DEF AsRead
  <2> QED
    BY <1>2, <2>1, SeqEqual DEF AsRead
<1>4. /\ DOMAIN hash' = Arguments /\ hash' = [i \in DOMAIN hash' |-> hash'[i]]
      /\ hash'[ii] = got
      /\ \A i \in Arguments : i # ii => hash'[i] = hash[i]
  BY <1>1 DEF PlainInv
<1>5. ASSUME ~disturbed, ~cut PROVE AsHashed'
  <2>1. AsHashed /\ AsRead
    BY <1>1, <1>5 DEF PlainInv
  <2> QED
    BY <1>1, <1>3, <1>4, <2>1 DEF AsHashed, Arguments
<1> QED
  BY <1>1, <1>4, <1>5 DEF PlainInv, Arguments

\* The content deleted is still there under the name the map has for it.
LEMMA DeletePlain ==
    ASSUME Inv, PlainInv, Delete
    PROVE  PlainInv'
<1>1. /\ pc = "remove" /\ pc' = "scan" /\ ii \in Arguments /\ removed' = removed \union {ii}
      /\ UNCHANGED <<argv, data, before, hash, cut, disturbed>>
      /\ dir' = [dir EXCEPT ![argv[ii]] = Null]
      /\ hash[ii] # Null /\ hash[ii] \in DOMAIN m
  BY DEF Delete, NextArgument, Inv, Arguments
<1>2. \A i \in Arguments : argv[i] \in Paths
  BY ElementOfSeq DEF Inv, Arguments
<1>3. /\ dir'[argv[ii]] = Null
      /\ \A p \in Paths : p # argv[ii] => dir'[p] = dir[p]
      /\ dir' \in [Paths -> Paths \union {Null}]
  BY <1>1, <1>2 DEF PlainInv
<1>4. \A p \in Paths : dir'[p] \in {p, Null}
  BY <1>3 DEF PlainInv
<1>5. PICK j \in Arguments : j # ii /\ j \notin removed /\ hash[j] = hash[ii]
  <2>1. PICK j \in Arguments : Kept(hash[ii], j)
    BY <1>1 DEF Inv
  <2> QED
    BY <1>1, <2>1 DEF Kept, Arguments
<1>6. argv[j] # argv[ii]
  BY <1>1, <1>5 DEF PlainInv
<1>7. ASSUME AsHashed
      PROVE  AsHashed'
  <2>1. dir'[argv[j]] = argv[j] /\ data[argv[j]] = data[argv[ii]]
    BY <1>1, <1>2, <1>3, <1>5, <1>6, <1>7 DEF AsHashed
  <2>2. ASSUME NEW x \in before
        PROVE  \E q \in Paths : dir'[q] = q /\ data[q] = x
    <3>1. PICK q \in Paths : dir[q] = q /\ data[q] = x
      BY <1>7 DEF AsHashed
    <3> QED
      BY <1>2, <1>3, <1>5, <2>1, <3>1
  <2>3. ASSUME NEW i \in Arguments, hash[i] # Null
        PROVE  /\ data[argv[i]] = hash[i]
               /\ i \notin removed' => dir'[argv[i]] = argv[i]
    <3>1. i # ii => argv[i] # argv[ii]
      BY <1>1 DEF PlainInv
    <3> QED
      BY <1>1, <1>2, <1>3, <1>7, <2>3, <3>1 DEF AsHashed
  <2> QED
    BY <1>1, <2>2, <2>3 DEF AsHashed, Arguments
<1> QED
  BY <1>1, <1>3, <1>4, <1>7 DEF PlainInv, Arguments

LEMMA NextPlain ==
    ASSUME Inv, PlainInv, [Next]_vars
    PROVE  PlainInv'
<1>1. CASE HashCutShort
  BY <1>1 DEF HashCutShort, Hashed, PlainInv, Arguments
<1>2. CASE HashFails \/ HashDone \/ ScanSkip \/ ScanFirst
  BY <1>2, PlainUntouched DEF HashFails, HashDone, ScanSkip, ScanFirst, Scanning
<1>3. CASE ScanDuplicate \/ ScanDone \/ Access \/ DeleteFails
  BY <1>3, PlainUntouched DEF ScanDuplicate, ScanDone, Access, DeleteFails
<1>5. CASE UNCHANGED vars
  BY <1>5 DEF vars, PlainInv, AsHashed, AsRead, Arguments
<1>4. ASSUME NEW p \in Paths, Interfere(p)
      PROVE  PlainInv'
  <2>1. /\ UNCHANGED <<pc, argv, hash, fd, got>> /\ disturbed'
        /\ data' \in [Paths -> Contents] /\ dir' \in [Paths -> Paths \union {Null}]
        /\ \A q \in Paths : dir'[q] \in {q, Null}
    BY <1>4 DEF Interfere, PlainInv
  <2> QED
    BY <2>1 DEF PlainInv, Arguments
<1> QED
  BY <1>1, <1>2, <1>3, <1>4, <1>5, OpenPlain, FreadPlain, HashPlain, DeletePlain DEF Next, Program

\* With no links and no argument given twice, deldup deletes duplicates
\* only: undisturbed by others and by the disk, every content that could be
\* read at the start can be read at the end, for any files and arguments.
THEOREM NothingLost ==
    ASSUME PlainUse
    PROVE  Spec => []OnlyDuplicates
<1>1. Init => Inv /\ PlainInv
  BY InitInv, InitPlain
<1>2. Inv /\ PlainInv /\ [Next]_vars => (Inv /\ PlainInv)'
  BY NextInv, NextPlain
<1>3. PlainInv => OnlyDuplicates
  BY PlainReadable DEF PlainInv, AsHashed, OnlyDuplicates
<1> QED
  BY <1>1, <1>2, <1>3, PTL DEF Spec
======================================================================
