# A verification development for learn-c

The repository is a collection of small C programs around a library, `utils/`:
containers (hash map, array lists, linked lists), a bump arena, SHA-1, and
programs that use them. This directory holds TLA+ modules for the parts with
state worth checking, TLC configurations that check them on small instances,
and TLAPS proofs of what matters most for every instance.

    tlc -workers 2 -config AList.cfg MCAList          # one run
    tlapm HMapProofs.tla                              # one proof module

`PROJECT.json` lists the components, the runs with what each is for, a mutant
for every property (a plausible bug under which the run reports it), the lines
of C each definition stands for, the disagreements met, and the theorems.

## Inventory

| component | state | operations | hard to get right | module |
|---|---|---|---|---|
| `utils/hmap.c` hash map | array of pointers to entries, capacity, len; entries live or tombstones | create, add (may grow and rehash), get, remove, destroy | probe chains through tombstones; a rehash that counts; insertion that restarts; calloc failing anywhere | `HMap`, `HMapSafeUse` |
| `utils/nalist.c`, `utils/alist.c` array lists | block, size, capacity; in alist the ownership of the elements | insert, append, prepend, remove, remove_deep, destroy, destroy_deep | shifting loops, growing and shrinking at the boundary, a failing realloc in the middle | `ArrayList`, `AList` |
| `utils/llist.c`, `utils/nllist.c` linked lists | head, tail, size, nodes linked both ways | add, get, remove, remove_deep, pop, change, destroy | relinking at the ends, walks from either end, ownership | `LinkedList`, `LList` |
| `utils/bumparena.c` arena | block, offset pointer, len, capacity | create, alloc (may double, several times), destroy | the offset after a move, a failure half way, capacity 0 | `BumpArena` |
| `utils/sha1.c` SHA-1 | block buffer, two-word bit counter, state words | update, final; fsha1 loops over reads | chunking, carries, stale buffer bytes, padding, read errors | `Sha1`, `DelDup` |
| `deldup/` duplicate remover | hashes of the arguments, map hash to name, the directory | hash all, then scan and delete | time between the passes, links, failures it does not look at | `DelDup` |
| `bserver/` echo server and client | server's place in its loop, accept queue, byte streams | start up, accept, read, answer; connect, send, wait, leave, SIGINT | both sides block; streams split and join; resets | `BServer` |
| `git-broom/` repository sweeper | the directory streams open on the C stack, the list of projects found, the file system | search for `.git`, remove the targets of each project recursively | removing while walking and while others create and remove; an error half way up the recursion; links; projects inside targets | `GitBroom` |
| `perf-metrics/perf-metrics-mt.c` benchmark | results array, thread handles, each thread's progress | create, run, join, add up, in several tests on one array | a create that fails after others have started; reuse of the array | `PerfMetrics` |
| `bingo/` two lotteries | the cage and how many numbers are left | fill, draw by moving the last number into the hole | off by one at either end; `%hu` of a number that is no short | `Bingo` |
| `decdump/` | a row of bytes, the offset | read byte by byte, print full rows and the rest | whole rows, empty files, stale bytes of the row before | `DecDump` |
| `how-files/files-struct-*.c` record files | products on the heap, a binary file | write, free, read back twice | every call may fail, the file may have changed: nothing half read may be used | `RecordFile` |
| `utils/semver.c` | one packed word | build, fields, next major, minor, patch | carries from field to field | `SemVer` |
| `cidr/` | one address | mask, first and last host, broadcast | prefix 0, prefixes 31 and 32, addresses inside the network | `Cidr` |
| `how-feistel/` | one number of two bytes | round, its inverse | a round that loses a number | `Feistel` |
| `char2/`, `rndstr/`, `docker-check/` | none | format, draw or read once | | not modelled |
| `how-*/`, `hellos/`, `threads/` demonstrations | none | straight-line examples of the language and the libraries | | not modelled |
| `third-party/` | | vendored | | not modelled |

The components interact by plain calls: deldup calls SHA-1 and the hash map,
git-broom keeps its projects in an array list, the demonstrations call the
containers, and callers own what they store except through the `_deep`
functions. Two parts are concurrent in themselves: the echo server with its
clients, and the benchmark with its threads. deldup and git-broom are
sequential, but work on files that other processes change meanwhile.

## Modules

    KVMap  <--implements--  HMapSafeUse --extends--> HMap
      ^ uses                     ^ HMapProofs
    DelDup <-- DelDupProofs
    ListSpec <--implements-- ArrayList <--extends-- AList <-- ArrayListProofs
       ^
       +------implements---- LinkedList <--extends-- LList <-- LListProofs
    BServer <-- BServerProofs     GitBroom <-- GitBroomProofs
    PerfMetrics <-- PerfMetricsProofs
    BumpArena <-- ToolsProofs --> Bingo --implements--> Lottery
                              --> Sha1, DecDump, RecordFile, SemVer, Cidr, Feistel
    MCTools: BumpArena, Bingo, Sha1, DecDump, RecordFile, SemVer, Cidr, Feistel

Each proof module extends the module under which the theorem is stated, which
the arrows to it show. `KVMap` (a finite map), `ListSpec` (a sequence) and
`Lottery` (numbers called once each) are the abstract specifications: what the
map, the lists and the bingo promise. The first two say how the contents may
change in one step, not for which call; `ImplementsMap` and the `ImplementsList`
of both kinds of lists add that with a second conjunct, `Asked` and `AsAsked`:
a step that changes the contents is the one the running call was asked for, with
its key or index and its element, and a call that fails changes nothing. The
map's conjunct is about changes only: that an add is not silently dropped is
`AddIsSeen`, and the lists' also ties what a call returns to whether the change
was made. Each detailed module is the C code with its loops opened up: one
action per call that runs straight through, and where a loop's intermediate
states matter, one action per turn. A library runs in one thread, so a call is
in progress (`pc`) from its first action to its last, and allocation failure is
a second action beside every allocation.

**HMap.** `entries` is the slot array (Null, or a record with key, value and
`live`; `live` false is a tombstone). `Add` is `hmap_add` up to its probe, with
the growth test; `GrowStart`, `RehashSkip`, `RehashTombstone`, `RehashMove`,
`RehashDone` are `hmap_grow` slot by slot, on the old and the new array side by
side, with the loop's countdown `eleCount`; `AddReuse`, `AddOverwrite`,
`AddNew` and `AddHitsEnd` are the four ways a probe ends. `Hash` is a constant
function, so collisions are chosen by the configuration. `heap` is the set of
blocks allocated for entries, an entry knows its own (`at`), and `Calloc` gives
the blocks that calloc may return, none of them allocated: so a slot whose entry
has been freed, two slots with one entry, and an entry in both tables of a
rehash that should be in one, can be told from what is right. *HMapSafeUse*
restricts callers as `deldup.c` does, to looking before adding, and refines
`KVMap`.

**ArrayList, AList.** `data` is the block with junk in unused cells; growing
and shrinking copy and may fail; `ShiftRight` and `ShiftLeft` are the turns of
the loops. `Contents` sees through a half-done shift, which gives the
refinement of `ListSpec`. *AList* adds the heap of elements with their owners
(`held` by the caller, or in the list).

**LinkedList, LList.** `node` maps allocated addresses to records of prev,
elem and next. The walk of `ll_get` is a cursor and the number of links it has
to go; `Order` reads the list off the next pointers, and the invariants compare
it with prev, tail and size. *LList* adds ownership as *AList* does; its
callers store fresh blocks or ones they hold.

**BumpArena.** A pointer is a block and an offset. `Grow` is one turn of the
loop: realloc returns the same or another block, or fails. `regions` records
what was handed out.

**DelDup.** The directory maps names to themselves (a regular file), to
another name (a symbolic link) or to Null. `fsha1` opens a file, reads it a
buffer at a time (`Fread`) through `fd`, which outlives the name, and hashes
what it has got, at the end of the file or at an error (`HashCutShort`). A hash
is the sequence of buffers read, so equal hashes mean equal content read; that
SHA-1 has no collisions is an abstraction. Looking whether a file is there and
removing it are two steps (`Access`, `Delete`). `Interfere` is one write or
unlink by somebody else between any two steps.

**Sha1.** `sha1_transform` is abstracted to the bytes it is given. The message
bytes are their positions, the buffer starts as junk, and the two words of the
counter are as wide as `Word`. The 64-bit comparison of `sha1.c:85` is
translated as it stands.

**BServer.** `StartUp` is socket, bind and listen; before it clients are
refused. `up[c]` is the stream of pieces to the server (`Pieces[c]` to a
message) and `down[c]` the pieces of replies under way (as many to a reply). The
server is at accept, at read or between a read and its answer. A client that
leaves with replies unread, or to which the server writes after it has left, has
its connection reset (`broken`), after which a read fails and a write may raise
SIGPIPE. A connection may also be lost under a client that is still there
(`ReadFails`): the server goes on, the client notices when it next waits.

**GitBroom.** A place is a path that may or may not hold something (`there`);
what kind of thing it would be is a constant. `stack` is the recursion: one
stream per directory open, with the entries `readdir` has yet to return, in any
order. `find_dir_recursive` fills `found`, the loops of `clean_up` are `proj`
and `targ`, and `remove_directory` is entered (`Enter...`), works on an entry
(`Remove...`, `Descend`) and returns its code (`Return`, `Resume`). A system
call may fail at any point (`Fault`); other programs create and remove entries
between any two, and a stream already open may show that or not, as POSIX
leaves it. Two things are simpler than in the world: what others create has the
kind its place always has, so nobody swaps a directory for a link, and paths
are compared with the buffer's size as a set of places that are too long.

**PerfMetrics.** A thread is a pair of test and slot and goes through its
measurements one write at a time; a time is represented by the test it was
measured in, or `Failed` for the -1 of a benchmark without memory. `Create`,
`Join` and `Add` are the turns of main's three loops. When a thread cannot be
created main returns while others still run, and the process may exit under
them at any moment (`Exit`).

**The small programs.** *Bingo* is both lotteries, which differ in the size of
the cage; `printed` is what `%hu` makes of the number drawn. *DecDump* keeps the
row with what earlier rows left in it, and the rows printed, each with its
decimal and its readable side. *RecordFile* is both record programs, with a
length before each value (`sds`) or blocks of one size; a file is a sequence of
items, any call may fail, and another program may cut the file (`cut`). *SemVer*
packs its fields in a word as wide as the product of their ranges, *Cidr*
computes in a word of `AddressBits` bits, with shifts as products by a `Power` of
two and the shift by all bits undefined, and *Feistel* has bytes of any range. C's
`|` and `^` are the constants `WordOr` and `ByteXor`, of which the modules assume
only what the programs rely on: an or with the last k bits sets those, an
exclusive or undoes itself. `MCTools` gives them the bitwise operators, so that
TLC evaluates the assumptions at the run's sizes, and puts these programs and
`Sha1` into one run: `program` is chosen at the start, and the others stand
still.

## Runs

| run | bounds | what it shows |
|---|---|---|
| HMap | 3 keys, 2 values, tables 1 to 8; homes 2, 2, 0 in a table of 4; 6 blocks | the table is well formed at every step of any call sequence: counts, probe chains, room to rehash, every slot with an allocated entry of its own; adds are seen, and `hmap_add` terminates though it may grow and restart |
| HMapSafeUse | 4 keys, 2 values, the fourth's home the last slot of a table of 4 | with callers that look first, one entry per key, and a finite map whose bindings change only as a call asks |
| HMapRemove | 3 keys, 1 value | a disagreement, see below |
| AList | 3 blocks, capacity up to 6, index up to 4 | loops in the block, refinement of ListSpec with each call doing what it was asked and returning whether it did, one owner per element block |
| LList | 5 blocks, 5 nodes, index up to 5 | both directions agree, walks arrive, refinement of ListSpec with each call acting at the index given, one owner per element block, destroy frees all |
| DelDup | 3 names, contents of 1 or 2 buffers of which one is a prefix of another, one interference | deletes an argument only for an earlier one of the same hash that it does not delete itself; undisturbed, loses no content |
| Tools | SHA-1 with blocks of 4 bytes, words of 32 values, bytes of 2 bits, calls of 1 to 11 bytes, 40 in all; cages of 4, shorts of 8; rows of 3, 6 files; 2 lists of products, 2 failing calls; versions of 3 x 4 x 4; addresses of 5 bits; bytes of 8 values; arena with 2 blocks, capacities 0, 1, 3 up to 8, lengths 0, 1, 2, 5 | the padded message is what is hashed and the padding ends; every number called once; a dump can be read back; records come back whole or not at all; versions carry as they should; hosts are those of the network behind the argument; rounds are undone and lose nothing; regions of the arena apart, and inside when handed out |
| Sha1Large | calls of 16 and 17 bytes | a code bug |
| BServer | 2 clients, one with messages of 2 pieces; 2 messages each, queue of 1 | no mutual wait, replies in step with unsplit lines, answers, next client, unless one with split messages ends the server |
| BServerKilled | as BServer, 1 message each | a disagreement, see below |
| GitBroom | 18 places, 4 trees, 1 failing system call, 1 step of another program | nothing but targets removed; stop at the first error; cleaned means gone; undisturbed, swept exactly; ends |
| PerfMetrics | 3 threads in each of 3 tests | slots and their array safe without a lock, totals of their own test, ends |

The runs of AList and LList check the list underneath as well: `AList` and
`LList` extend `ArrayList` and `LinkedList`, add the heap to their actions, and
leave every variable of theirs to them. Their callers store different blocks;
the numeric lists may hold equal numbers, but no operation of either compares
two elements. The type
invariants of the hash map, the array lists, the arena, the server and the
benchmark are not in their runs: they are theorems (`TypeCorrect`,
`ArenaTypeCorrect`). That of the linked lists is the first conjunct of
`LinksAgree`. `DelDup` and the modules of
the Tools run have none: their variables take the types the comments beside them
give, without which the invariants would fail to evaluate.

Why the bounds are enough. With these homes a table of 4 has chains of
collisions, tombstones in the middle of them, entries displaced from their
homes, and probes that run off its end behind displaced entries; a table of 2
has all keys in one chain; a rehash moves entries past each other; entries and
tombstones of the keys could fill a table of 4, were it not grown in time; two
values tell the value just added from that of an older entry of its key. Six
blocks are never used up, tombstones that stay allocated included, so that
calloc fails only where it is meant to, and the lowest free block is given out
first, so that a freed entry's is used again at once. For the lists, an array of 6 grows
and shrinks twice; five nodes give an inner node with inner neighbours and walks
of one link from the head and up to two from the tail (longer ones are the
theorem `ListWalkArrives`); two blocks let an arena move and return; 16 bytes
overflow the low word of the counter, and 40 do it twice, at every offset in a
block; two pieces are enough for a message to be answered twice and for a rest
to be read with the next line. The trees of GitBroom have a project inside
another's target, a target inside another's, links up and across, a name too
long and a plain file called like a target; one fault and one interference at
every point of the run meet every place an error or a change can be noticed. The
files dumped are empty, part of a row, one row, a row and a byte, and two rows.
Two failing calls let the write and one of the reads go wrong. Every version,
every address with every prefix, and every number of two bytes is among the
inputs, though not at the code's width. Three tests let a slot be used again
twice, and three threads leave one running, one done and one to be started.
Where a theorem exists the bound does not matter.

Symmetry is used for values in HMapSafeUse and for nodes and element blocks in
LList, which check safety and refinements without fairness; nothing
distinguishes values, nodes or blocks but equality.

Deadlock checking is off in every configuration because every system here may
end: a container that has been destroyed, a finished deldup, a server that was
stopped. That nothing waits for ever is stated where it is a question
(`NoMutualWait`, `Answered`, `NextServed`, `CallsReturn`, `FinalEnds`, `Ends`).

### Fairness

For the libraries, `WF_vars(Running)`: a thread that has entered a call goes on
executing it; no caller is obliged to call anything. For the echo server, weak
fairness of the server's own steps and of a client's receipt of a reply or
notice of the end: a process blocked in `read` wakes when there is something to
read. Nothing makes clients type, leave or connect, or the user press ctrl-C.
For the benchmark, weak fairness of main and of each thread, which the system's
scheduler gives, and for git-broom of its one process; other programs owe
nothing. For SHA-1, weak fairness of hashs while it is in `sha1_final`, as it is
one thread that waits for nobody there. The loops of the array and linked lists
and of the arena need no liveness property: `InBounds`, `WalkArrives` and
`LinksAgree` bound what each has left to do by the size, and each turn of the
arena's doubles a capacity that a failing realloc bounds.

## Disagreements found

Each is the run's one property, which TLC refutes.

| run | what the code says | what it does |
|---|---|---|
| HMapRemove | `hmap.h:85` "Remove an element given the key" | a key re-added into an earlier tombstone has two live entries; remove retires one and get returns the other |
| BServerKilled | `bserver.c:185` "server is running until a stop signal is received" | a client whose message arrives in two pieces and that leaves with the first reply unread resets the connection; the second reply's write raises SIGPIPE, which nobody ignores, and the server ends |
| Sha1Large | `sha1.h:26` "Computes the SHA-1 hash of the given data" | for one buffer of 2^29 bytes or more the length is counted one word too large; compiled and compared with sha1sum, the digest of 2^29 zero bytes is indeed wrong |

Others are in the modules as behaviour and have no run of their own:

- `RehashDone` (`hmap.c:202`): the loop stops with the last live entry, so
  tombstones behind it are never freed, and `heap` is not empty after
  `hmap_destroy`, where `hmap.c:206` says "Skip and free tombstones during
  rehashing".
- `AShrinkFails` (`alist.c:206`): `al_remove_deep` frees the element before it
  tries to shrink; when that fails the list still holds it, where `alist.c:98`
  says "The old data are still valid". `dangling` records it, and `OneOwner` is
  stated for lists where it has not happened.
- `EnterMissing` (`git-broom.c`): lstat failing for any reason is returned as 1,
  "doesn't exist", also where the directory is there and cannot be looked at.
- `MemoryFails` (`perf-metrics-mt.c:143`): the -1 of a benchmark that had no
  memory is added to the thread's total like a time.
- `GrowNothing` (`bumparena.c:46`): with capacity 0, realloc to 0 bytes frees
  the block and returns NULL, which is reported with "Old data are still valid".
  The arena keeps the pointer, so the next `bumparena_alloc` reallocates, and
  `bumparena_destroy` frees, a block that is free already. What that does is
  undefined; in the model both are steps without effect on the heap, and nothing
  is claimed of such an arena but that it hands out no region.
- `HashFails` and `cut` (`sha1.c:180`): a read error is taken for the end of the
  file, and `fsha1` returns true with the hash of a prefix, where `sha1.h:53`
  says "true if the hash is calculated else false".
- A directory with a symbolic link (`deldup.c:77`): when it is given before its
  target, or one path is given twice, deldup deletes the only copy.
- `LastRow` (`decdump.c:103`): the rest of the row is printed also when there is
  none, so that an empty file or one of whole rows gets one more row, with a byte
  that is stale or was never written, where `decdump.c:2` says it "simulates the
  behavior of hexdump -C". `DumpReadsBack` compares as many
  bytes as the size printed below the rows.
- `Announce` (`bigbingo.c:75`): `%hu` prints the numbers of a cage of 100000
  modulo 65536, so some are announced twice. `ImplementsLottery` holds of
  cages whose numbers fit a short, as those of `bingo.c` do.
- `ReadCount` (`files-struct-stack.c:156`): the total is handed out before the
  products are read, and main goes on to read them through NULL when they
  cannot be. The text files of both programs are written and never read.
- `PrintRanges` (`cidr.c:48`): an address inside a network is printed as the
  network's, and the hosts counted from it; where the address after the argument
  or the one before the broadcast address does not exist, the sums wrap and the
  range printed runs over all others; with a prefix of 0 the shift is undefined.
  `HostsOfNetwork` is stated for every address and prefixes of 1 to all bits: the
  range is what lies between the argument and the broadcast address (for /31 and
  /32 nothing), unless a sum wraps.
- `Read` (`bserver.c:191`): one client is read until it leaves, and those the
  kernel has connected meanwhile wait. `NextServed` is what they are promised:
  that the server goes on when the one before them has left, unless that one had
  split messages and has ended it as in BServerKilled.

## Proofs

TLAPS proves these for every value of the constants, under the assumptions
named in the modules (sizes are naturals, hashes map keys to naturals, the
Null value is none of the others; calloc returns a block that is not allocated;
files and lists of products are sequences; two
bitwise operators do what is said above; what `GitBroom` assumes of file
systems is with its proofs below).

- `HMapProofs`, about the map itself (TypeCorrect, LenCorrect, NoBrokenChains,
  NoDanglingEntry, RehashEnds, AddBinds). The inductive invariant is the conjunction of checked
  invariants with `MovedAreLive`: the table a rehash fills holds live entries
  only. That is what makes the entries moved countable by used slots, so that
  `eleCount` reaching 0 means every live entry has moved, whichever of the
  loop's two conditions ended it. The core lemmas say what writing one slot does
  to the sets of used and live slots (`PutInSlot`) and to probe chains
  (`PutKeepsReachable`). That the rehash finds room (`RehashHasRoom`) rests on
  `HalfFull`, what the growth test leaves true of len ever after; that no slot
  dangles (`EntriesAllocated`) on the blocks of the slots in use, of the two
  tables of a rehash together, being in `heap` and different from each other; that an add is
  seen on `StoredIsFound`, which follows the probe over what lies before the
  slot written.
- `HMapProofs`, about callers that look first (NeverTwoEntries, IsAMap).
  `SafeInv` adds to the table's invariant that a key is at most once in a table
  (`Unique`) and in one of the two halves of a rehash (`HalvesApart`), and that
  an add under way is of a key that is not there, or the table has no tombstones
  to insert it into before its entry (`AddIsCareful`). From it each step is
  mapped to one of `KVMap` or a stutter: `Carried` says that moving an entry
  changes no binding, `BindingsOf` reads the bindings off the slots that
  `hmap_get` finds.
- `ArrayListProofs` (TypeCorrect, LoopsInBounds, Refinement, OwnedOnce).
  `CallsStart` adds what the calls have established when they begin to
  reallocate: without it a shrink could cut off an element. The refinement maps
  every shifting step to a stutter and `Place`, `Drop` or the start of a left
  shift to the abstract insertion or deletion. `OwnedOnce` needs to say also
  which element a running call carries, and that it is neither in the list nor
  the caller's (`OwnInv`); the lemmas `Apart...` say what the steps of the array
  do to the elements of different cells being different. `AsAskedStep` goes
  through the same steps for what the call was asked.
- `LListProofs` (ListLinksAgree, ListWalkArrives, ListRefinement, ListOneOwner,
  PointerListIsList). `LinksAgree` speaks of `Order`, which reads the list off
  the next pointers, and no step says how `Order` changes. So the inductive
  invariant asserts that a sequence of different nodes exists (`Ordered`) to
  which head, tail, size, every prev and next, the cursor of a running walk and
  the node to be linked or unlinked all agree; each step is shown to keep such a
  sequence, with a node added or taken out, and `Order` is shown to be that
  sequence. The walk's part is that the cursor is as many links from its index
  as there are turns left. `OneOwner` needs, as for the array lists, which
  element a running call carries.
- `DelDupProofs` (FirstIsKept, NothingLost). `FirstIsKept` holds for any
  directory, whatever others do, and is about arguments, not files: for each
  argument deleted the map has, under its hash, an earlier one that deldup itself
  never deletes (`HasCopy`). Whether that one's file is still there, unchanged,
  or another file than the one deleted, it does not say; that is where others
  interfering, links and repeated paths come in.
  `NothingLost` assumes `PlainUse`: no name of the directory is a link, and no
  argument is given twice. `AsRead` says that what has been read of a file is what
  it begins with, and `AsHashed` that a file is there as it was hashed until its
  argument is deleted, and that what could be read at the start still can be
  under some name. Without the assumption it is false, see above.
- `GitBroomProofs` (BroomTypeCorrect, BroomRemovesTargets, BroomStopsAtError,
  BroomCleans, BroomSweepsExactly). What is assumed of a file system:
  directories form a tree, of which only directories have entries, and a
  directory has one entry of a name; what is there at the start is such a tree;
  a path that does not fit the buffer has none below it that does; and the
  command line leads to a directory. `Above` is recursive, so the first lemmas
  derive what it is from the tree: reflexive, transitive, without cycles, and
  inside any set that holds the parents of its members. `IInv` says that the
  streams on the stack are those of nested directories (`Streams`) and ties the
  bottom of it to the search's root or to the target of the two loops
  (`Position`), while others may do anything; the first four theorems follow
  from it. `BroomSweepsExactly` is about sweeps nobody disturbs, for which
  `Sweep` is added: an entry `.git` not yet found lies below an entry some
  stream still has to return (`Searching`); in a removal, every stream has
  exactly what is left of its directory, less the subdirectory being removed
  (`Exact`), unless a path too long has broken it off; and the targets behind
  the two loops are gone (`Done`). Without the first, nothing says the search
  misses no project inside another, or inside a target; without the second,
  nothing says that `rmdir` finds its directory empty.
- `ToolsProofs` (ProperGame), for cages whose numbers fit a short:
  `CageHoldsTheRest` says that the cage holds, once each, the numbers not
  called.
- `ToolsProofs` (ArenaTypeCorrect, NoOverlap, HandedOutInside). `ArenaAgrees`
  ties the offset pointer to start and len, and says the block is allocated
  unless the capacity is 0 and `GrowNothing` has freed it.
- `ToolsProofs` (VersionsCarry). A word is determined by its fields, and each
  addition gives the word of the fields one expects, or wraps exactly where the
  major number is at its end; from lemmas about quotients and remainders.
- `ToolsProofs` (DumpedWhole). `DumpInv` says that what has been printed is whole
  rows, the k-th with the bytes from k * `Row` on, and that the row in the making
  begins with the rest. The property reads a dump back by a recursive function
  over the rows; that it gives the file is by least counterexample.
- `ToolsProofs` (RecordsReturn). The file is, at every moment, a beginning of the
  file meant (`Beginning`), whatever failed or was cut off; the reading place
  is the length of the records read, and these are the first ones of the list.
  So a record that is complete in what is left of the file is the one written.
- `ToolsProofs` (HashesWhole). `HashInv` says that n bytes of the padded message
  have been given, for some n: the blocks hashed are its first places, and what
  is behind them is in the buffer or, in a call's loop, still in its argument
  (`Holds`). The buffer is addressed by the counter alone, so the low word's
  being n times the bits of a byte modulo `Word` must give the bytes waiting
  (`WaitingIs`), and the pair of words must carry (`CountedIs`). The hypothesis
  `ShortUpdates` says that no call is given as many bits as a word counts, and
  the message not more than two words count; it holds in the run Tools. In
  Sha1Large the first half does not, and there the property is false.
- `ToolsProofs` (RoundsUndone, NetworksRight). Rounds are injective as they are
  undone, so each new number's adds one to those printed. A network is the
  range from the address with its last bits cleared to the same with all of them
  set (`RangesAre`), for every prefix but the one of no length; the rest of
  `NetworksRight` is that no sum wraps where it is claimed not to.
- `PerfMetricsProofs` (TypeCorrect, SlotsAreSafe, TotalsRight), for any number
  of threads and tests. The inductive invariant says where each thread is, given
  where main is: those of earlier tests are done, those of this one not started,
  running or joined according to `i`; that the array is allocated from the first
  thread to the end of the last; and what a slot holds while its thread is at a
  given write.
- `BServerProofs` (TypeCorrect, NeverBothWait, RepliesInStep, OnlySplitKills). NoMutualWait is
  inductive with types, because it speaks of clients in the queue as well as of
  the one served. `InStep` needs `LockStep`: of the clients whose messages are
  not split, one that is not waiting has nothing under way, and what the server
  reads of them is one whole line. From it follows `NothingDue`: once the
  connection of such a client is broken, nothing of it is left to read or to
  answer, so that `OnlySplitKills` leaves SIGPIPE to clients with split messages.

Inductions over positions, sizes and depths of the tree are made by taking a
least counterexample: the library's induction theorems take an operator as a
parameter, which the installed provers cannot instantiate. That suffices for
`Order`, `Above`, `Power` and the reading of a dump, which are recursive
functions, and for records strung together by a fold.

Only model-checked: the liveness properties, `CallsReturn`, `FinalEnds`,
`Answered`, `NextServed` and the two `Ends`, since fairness is outside the
prover's reach. Every invariant and every action property of a passing run,
and every refinement, is a theorem.

## Not modelled

Printing, where no property is about it; element type tags, NULL-argument
checks and command lines; sizes near the range of `size_t`, except SHA-1's
counter; SHA-1's compression function; the contents of the C library's own
state.

Components without a module: the thread demonstration shares nothing between
its threads; the text tools and the container probe keep no state; the other
demonstrations are straight-line examples of the language and of the libraries,
used here as evidence of how the libraries are called; `third-party/` is
vendored. A caller that keeps a pointer into the arena across a later
allocation (`how-arena.c:77`) is outside `BumpArena`: `ReturnsInside` is a
promise about the moment of the return.

## Plan

1. Compose `DelDup` with the concrete map in place of `KVMap`. `IsAMap` justifies
   the abstract one meanwhile, since deldup looks before it adds.
2. Prove the variants behind the liveness properties, as far as they are action
   properties: that a turn of each loop brings its end nearer.
