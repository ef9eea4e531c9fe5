---------------------------- MODULE DelDup ----------------------------
(* The duplicate remover, deldup/deldup.c: hash every argument (fsha1 of *)
(* utils/sha1.c), then walk the arguments again with a map from hash to  *)
(* file name and delete what the map already knows.  The map is the      *)
(* abstract one of KVMap, which utils/hmap.c implements for a caller     *)
(* that looks before it adds (HMapSafeUse).  Other processes may change  *)
(* or remove files between two system calls.                             *)
EXTENDS Integers, Sequences

CONSTANTS
    Paths,
    Buffers,       \* what one fread returns
    Contents,      \* what a file may hold: sequences of buffers
    Null,
    Directories,   \* what names there are at the start, see Directory
    Argvs          \* the argument lists, sequences of paths

\* A name is absent, stands for a regular file of its own (it is mapped to
\* itself), or is a symbolic link to the name it is mapped to.
Directory == [Paths -> Paths \union {Null}]

ASSUME DirectoryAssumption == Directories \subseteq Directory
ASSUME ContentsAssumption == Contents \subseteq Seq(Buffers)
ASSUME ArgvAssumption == Argvs \subseteq Seq(Paths)
ASSUME NullAssumption == Null \notin Contents \union Paths

VARIABLES
    pc,            \* "hash", "read", "scan", "delete", "remove" or "done"
    argv,
    dir, data,     \* the directory and the content of its regular files
    before,        \* auxiliary: the contents that could be read at the start
    fd, got,       \* the file fsha1 reads, and the buffers it has read
    hash,          \* fhs[ii].hash: what was read, or Null for all zeros
    m,             \* the hash map, hash to file name
    ii,            \* the argument being looked at
    removed,       \* auxiliary: the arguments deleted
    cut,           \* auxiliary: did a read fail
    disturbed      \* auxiliary: did another process interfere

vars == <<pc, argv, dir, data, before, fd, got, hash, m, ii, removed, cut, disturbed>>

Map == INSTANCE KVMap WITH Keys <- Contents, Values <- Paths

----------------------------------------------------------------------
\* stat and fopen follow a link (one level is enough here).
IsRegular(p) == dir[p] # Null /\ dir[dir[p]] = dir[p]
Read(p) == data[dir[p]]
Readable == {Read(p) : p \in {q \in Paths : IsRegular(q)}}

Init ==
    /\ pc = "hash"
    /\ dir \in Directories /\ data \in [Paths -> Contents]
    /\ before = Readable
    /\ argv \in Argvs
    /\ fd = Null /\ got = << >>
    /\ hash = [i \in DOMAIN argv |-> Null]
    /\ m = << >>
    /\ ii = 1 /\ removed = {} /\ cut = FALSE /\ disturbed = FALSE

\* The next turn of one of the two loops of main and remove_duplicates.
NextArgument == ii' = ii + 1

\* fsha1 opens a regular file, which stays readable through fd whatever
\* becomes of its name.  (No name comes into being here: what is regular
\* when it is opened was so when stat looked at it.) ...
Open ==
    /\ pc = "hash" /\ ii <= Len(argv)
    /\ IsRegular(argv[ii])
    /\ fd' = dir[argv[ii]] /\ got' = << >>
    /\ pc' = "read"
    /\ UNCHANGED <<argv, dir, data, before, hash, m, ii, removed, cut, disturbed>>

\* ... reads one buffer after the other, of what the file holds then ...
Fread ==
    /\ pc = "read"
    /\ Len(got) < Len(data[fd])
    /\ got' = Append(got, data[fd][Len(got) + 1])
    /\ UNCHANGED <<pc, argv, dir, data, before, fd, hash, m, ii, removed, cut, disturbed>>

Hashed ==
    /\ hash' = [hash EXCEPT ![ii] = got]
    /\ fd' = Null /\ got' = << >>
    /\ pc' = "hash" /\ NextArgument

\* Mutant of Hash: only the first buffer is hashed.
HashOneBuffer ==
    /\ pc = "read"
    /\ Len(got) >= 1
    /\ Hashed
    /\ UNCHANGED <<argv, dir, data, before, m, removed, cut, disturbed>>

\* ... until fread returns none, at the end of the file ...
Hash ==
    /\ pc = "read"
    /\ Len(got) >= Len(data[fd])
    /\ Hashed
    /\ UNCHANGED <<argv, dir, data, before, m, removed, cut, disturbed>>

\* ... or for an error: the hash is then that of a prefix.
HashCutShort ==
    /\ pc = "read"
    /\ Len(got) < Len(data[fd])
    /\ Hashed
    /\ cut' = TRUE
    /\ UNCHANGED <<argv, dir, data, before, m, removed, disturbed>>

\* Not a regular file, or it cannot be opened: the hash stays all zeros.
HashFails ==
    /\ pc = "hash" /\ ii <= Len(argv)
    /\ NextArgument
    /\ UNCHANGED <<pc, argv, dir, data, before, fd, got, hash, m, removed, cut, disturbed>>

\* A single argument has no duplicate; hmap_create may fail as well.
HashDone ==
    /\ pc = "hash" /\ ii > Len(argv)
    /\ ii' = 1
    /\ pc' \in (IF Len(argv) > 1 THEN {"scan", "done"} ELSE {"done"})
    /\ UNCHANGED <<argv, dir, data, before, fd, got, hash, m, removed, cut, disturbed>>

Scanning == pc = "scan" /\ ii <= Len(argv)

\* Mutant of ScanSkip: the all-zeros hash is not left out.
SkipNothing ==
    /\ Scanning
    /\ hash[ii] = Null
    /\ IF Null \in DOMAIN m THEN pc' = "delete" /\ UNCHANGED <<ii, m>>
       ELSE NextArgument /\ Map!Put(Null, argv[ii]) /\ UNCHANGED pc
    /\ UNCHANGED <<argv, dir, data, before, fd, got, hash, removed, cut, disturbed>>

ScanSkip ==
    /\ Scanning
    /\ hash[ii] = Null
    /\ NextArgument
    /\ UNCHANGED <<pc, argv, dir, data, before, fd, got, hash, m, removed, cut, disturbed>>

\* A hash not seen before is entered, unless hmap_add fails, which
\* remove_duplicates does not look at.
ScanFirst ==
    /\ Scanning
    /\ hash[ii] # Null /\ hash[ii] \notin DOMAIN m
    /\ Map!Put(hash[ii], argv[ii]) \/ UNCHANGED m
    /\ NextArgument
    /\ UNCHANGED <<pc, argv, dir, data, before, fd, got, hash, removed, cut, disturbed>>

ScanDuplicate ==
    /\ Scanning
    /\ hash[ii] # Null /\ hash[ii] \in DOMAIN m
    /\ pc' = "delete"
    /\ UNCHANGED <<argv, dir, data, before, fd, got, hash, m, ii, removed, cut, disturbed>>

\* delete_file looks through a link whether there is a file ...
Access ==
    /\ pc = "delete"
    /\ IsRegular(argv[ii])
    /\ pc' = "remove"
    /\ UNCHANGED <<argv, dir, data, before, fd, got, hash, m, ii, removed, cut, disturbed>>

\* ... and takes away the name: a link, and not its target.
Delete ==
    /\ pc = "remove"
    /\ dir[argv[ii]] # Null
    /\ dir' = [dir EXCEPT ![argv[ii]] = Null]
    /\ removed' = removed \union {ii}
    /\ pc' = "scan" /\ NextArgument
    /\ UNCHANGED <<argv, data, before, fd, got, hash, m, cut, disturbed>>

\* It is gone already, or access or remove refuses.
DeleteFails ==
    /\ pc \in {"delete", "remove"}
    /\ pc' = "scan" /\ NextArgument
    /\ UNCHANGED <<argv, dir, data, before, fd, got, hash, m, removed, cut, disturbed>>

ScanDone ==
    /\ pc = "scan" /\ ii > Len(argv)
    /\ pc' = "done"
    /\ UNCHANGED <<argv, dir, data, before, fd, got, hash, m, ii, removed, cut, disturbed>>

\* Another process writes a file, or removes a name.
Interfere(p) ==
    /\ pc # "done" /\ ~disturbed
    /\ \/ \E c \in Contents : data' = [data EXCEPT ![p] = c] /\ UNCHANGED dir
       \/ dir' = [dir EXCEPT ![p] = Null] /\ UNCHANGED data
    /\ disturbed' = TRUE
    /\ UNCHANGED <<pc, argv, before, fd, got, hash, m, ii, removed, cut>>

Program ==
    \/ Open \/ Fread \/ Hash \/ HashCutShort \/ HashFails \/ HashDone
    \/ ScanSkip \/ ScanFirst \/ ScanDuplicate \/ ScanDone
    \/ Access \/ Delete \/ DeleteFails

Next == Program \/ \E p \in Paths : Interfere(p)

Spec == Init /\ [][Next]_vars

----------------------------------------------------------------------
\* Whatever other processes and the disk do, an argument is only deleted
\* for the hash of an earlier one that the map names and that deldup has
\* not deleted itself.  This is of arguments, not of files: it does not say
\* that the earlier one still exists, unchanged, or is another file.
KeepsFirst ==
    /\ \A i \in removed :
          \E j \in 1 .. i - 1 : /\ hash[i] # Null /\ hash[j] = hash[i]
                                /\ m[hash[i]] = argv[j]
                                /\ j \notin removed
    /\ \A h \in DOMAIN m : \E j \in DOMAIN argv \ removed : m[h] = argv[j] /\ hash[j] = h

\* Only duplicates are deleted (deldup/README.md:2, "remove duplicate files"):
\* if nothing interferes and the disk does not fail, every content that could
\* be read in the directory at the start can be read at the end.
OnlyDuplicates == ~disturbed /\ ~cut => before \subseteq Readable
======================================================================
