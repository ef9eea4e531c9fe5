--------------------------- MODULE GitBroom ---------------------------
(* git-broom/git-broom.c: one walk over a directory tree collects the    *)
(* directories that hold a .git entry, then the target directories of    *)
(* each of them are removed recursively.  Other programs create and      *)
(* remove entries meanwhile, and any system call may fail.  A place is a *)
(* position in the file system; what is created there always has the     *)
(* same kind, and links only matter where a path is opened through one.  *)
EXTENDS Integers, Sequences, SequencesExt

CONSTANTS
    Places, Null,
    Top,           \* the root of the file system
    Start,         \* the path given on the command line
    Parent,        \* the directory of every place but Top
    Name,          \* the last component of its path
    Kind,          \* "dir", "file" or "link"
    LinkTo,        \* where the links lead
    TooLong,       \* the places whose path does not fit BROOM_PATH_SIZE
    Targets,       \* the sequence of names to clean
    Trees,         \* the file systems to start from
    MaxFaults,     \* bound: system calls that fail without a reason seen here
    MaxOthers      \* bound: steps of other programs

ASSUME NullAssumption == Null \notin Places
ASSUME BoundAssumption == MaxFaults \in Nat /\ MaxOthers \in Nat
ASSUME PathAssumption ==
    \A x \in Places \ {Top} : Parent[x] \in TooLong => x \in TooLong

\* Directories form a tree: no chain of them turns back on itself, so that
\* of any set of places one has its parent outside.
ASSUME TreeAssumption ==
    /\ Top \in Places /\ Parent \in [Places \ {Top} -> Places]
    /\ \A S \in SUBSET (Places \ {Top}) : S # {} => \E x \in S : Parent[x] \notin S
    /\ \A x \in Places \ {Top} : Kind[Parent[x]] = "dir"

\* A directory has one entry of a name.
ASSUME NameAssumption ==
    /\ Targets \in Seq(STRING)
    /\ \A x, y \in Places \ {Top} : Parent[x] = Parent[y] /\ Name[x] = Name[y] => x = y

ASSUME TreesAssumption ==
    \A t \in Trees : t \subseteq Places /\ \A x \in t \ {Top} : Parent[x] \in t

VARIABLES
    pc,            \* "start", "find", "clean", "enter", "remove", "returned" or "done"
    there,         \* the places that hold something
    stack,         \* the directory streams open, the innermost last
    found,         \* dir_list
    proj, targ,    \* the indices of main's and of clean_up's loop
    path,          \* the argument of the last call of remove_directory
    code,          \* what the last one to return has returned
    faults, others,
    before         \* the file system at the start

loops == <<found, proj, targ>>
vars == <<pc, there, stack, loops, path, code, faults, others, before>>

\* A stream and the entries readdir has yet to return.
Stream == [dir : Places, left : SUBSET Places]

Children(d) == {x \in Places \ {Top} : Parent[x] = d}
Entries(d) == Children(d) \intersect there
IsDir(x) == x \in there /\ Kind[x] = "dir"

\* Only opening follows a link; lstat does not.
Resolve(x) == IF Kind[x] = "link" THEN LinkTo[x] ELSE x

\* A directory is given on the command line, or a link to one.
ASSUME StartAssumption == Resolve(Start) \in Places /\ Kind[Resolve(Start)] = "dir"

Open(x) == [dir |-> x, left |-> Entries(x)]
Stack(s) == Front(stack) \o s
Innermost == Last(stack)
Fault == faults < MaxFaults /\ faults' = faults + 1

\* readdir returns x, which may have been removed since.
Reads(x) == x \in Innermost.left
After(x) == [Innermost EXCEPT !.left = @ \ {x}]

----------------------------------------------------------------------
Init ==
    /\ pc = "start"
    /\ there \in Trees /\ before = there
    /\ stack = << >> /\ found = << >> /\ proj = 1 /\ targ = 1
    /\ path = Null /\ code = 0 /\ faults = 0 /\ others = 0

\* The list is created and the search called.
Search ==
    /\ pc = "start"
    /\ pc' = "find"
    /\ stack' = <<Open(Resolve(Start))>>
    /\ UNCHANGED <<there, loops, path, code, faults, others, before>>

\* No list, which ends the program, or no stream, which finds nothing.
SearchFails ==
    /\ pc = "start"
    /\ Fault
    /\ pc' \in {"clean", "done"}
    /\ UNCHANGED <<there, stack, loops, path, code, others, before>>

\* Mutant of Listed: a project directly inside another one is not listed.
ListedOutside(x) ==
    IF Name[x] = ".git" /\ \A i \in DOMAIN found : found[i] # Parent[Parent[x]]
    THEN Append(found, Parent[x]) ELSE found

\* An entry called .git, whatever it is, makes its directory a project.
Listed(x) == IF Name[x] = ".git" THEN Append(found, Parent[x]) ELSE found

FindTooLong(x) ==
    /\ pc = "find" /\ Reads(x)
    /\ x \in TooLong
    /\ stack' = Stack(<<After(x)>>)
    /\ UNCHANGED <<pc, there, loops, path, code, faults, others, before>>

\* Directories are searched, .git and the targets among them.
FindEntry(x) ==
    /\ pc = "find" /\ Reads(x)
    /\ x \notin TooLong
    /\ found' = Listed(x)
    /\ stack' = Stack(IF IsDir(x) THEN <<After(x), Open(x)>> ELSE <<After(x)>>)
    /\ UNCHANGED <<pc, there, proj, targ, path, code, faults, others, before>>

\* lstat or opendir fails: the directory is passed over silently.
FindShut(x) ==
    /\ pc = "find" /\ Reads(x)
    /\ x \notin TooLong
    /\ Fault
    /\ found' = Listed(x)
    /\ stack' = Stack(<<After(x)>>)
    /\ UNCHANGED <<pc, there, proj, targ, path, code, others, before>>

\* The name of a project cannot be copied: it is passed over, and its .git
\* is not searched either.
StrdupFails(x) ==
    /\ pc = "find" /\ Reads(x)
    /\ x \notin TooLong /\ Name[x] = ".git"
    /\ Fault
    /\ stack' = Stack(<<After(x)>>)
    /\ UNCHANGED <<pc, there, loops, path, code, others, before>>

\* The list cannot take it: the search of this directory, and of no other,
\* is given up.
AppendFails(x) ==
    /\ pc = "find" /\ Reads(x)
    /\ x \notin TooLong /\ Name[x] = ".git"
    /\ Fault
    /\ stack' = Stack(<< >>)
    /\ pc' = (IF stack' = << >> THEN "clean" ELSE "find")
    /\ UNCHANGED <<there, loops, path, code, others, before>>

FindReturn ==
    /\ pc = "find"
    /\ Innermost.left = {}
    /\ stack' = Stack(<< >>)
    /\ pc' = (IF stack' = << >> THEN "clean" ELSE "find")
    /\ UNCHANGED <<there, loops, path, code, faults, others, before>>

----------------------------------------------------------------------
\* The place of a target in a project, if a path can lead to one.
Child(d, n) ==
    IF \E x \in Children(d) : Name[x] = n
    THEN CHOOSE x \in Children(d) : Name[x] = n
    ELSE Null

Current == Child(found[proj], Targets[targ])

\* clean_up calls remove_directory on the next target.
CleanTarget ==
    /\ pc = "clean" /\ proj <= Len(found) /\ targ <= Len(Targets)
    /\ Current \notin TooLong
    /\ pc' = "enter" /\ path' = Current /\ code' = 0
    /\ UNCHANGED <<there, stack, loops, faults, others, before>>

CleanTooLong ==
    /\ pc = "clean" /\ proj <= Len(found) /\ targ <= Len(Targets)
    /\ Current \in TooLong
    /\ targ' = targ + 1
    /\ UNCHANGED <<pc, there, stack, found, proj, path, code, faults, others, before>>

NextProject ==
    /\ pc = "clean" /\ proj <= Len(found) /\ targ > Len(Targets)
    /\ proj' = proj + 1 /\ targ' = 1
    /\ UNCHANGED <<pc, there, stack, found, path, code, faults, others, before>>

Finish ==
    /\ pc = "clean" /\ proj > Len(found)
    /\ pc' = "done"
    /\ UNCHANGED <<there, stack, loops, path, code, faults, others, before>>

----------------------------------------------------------------------
Return(r) == pc' = "returned" /\ code' = r

\* remove_directory looks at its argument, which may be gone, or not a
\* directory, or a link, and opens it.
EnterMissing ==
    /\ pc = "enter"
    /\ IF path \in there THEN Fault ELSE UNCHANGED faults
    /\ Return(1)
    /\ UNCHANGED <<there, stack, loops, path, others, before>>

EnterNotDir ==
    /\ pc = "enter"
    /\ path \in there /\ ~IsDir(path)
    /\ Return(2)
    /\ UNCHANGED <<there, stack, loops, path, faults, others, before>>

EnterShut ==
    /\ pc = "enter"
    /\ IsDir(path)
    /\ Fault
    /\ Return(3)
    /\ UNCHANGED <<there, stack, loops, path, others, before>>

\* Mutant of EnterOpen: stat, which follows a link.
EnterFollows ==
    /\ pc = "enter"
    /\ path \in there /\ IsDir(Resolve(path))
    /\ pc' = "remove"
    /\ stack' = Append(stack, Open(Resolve(path)))
    /\ UNCHANGED <<there, loops, path, code, faults, others, before>>

\* Mutant of EnterOpen: does not look at what the path is.
EnterAnything ==
    /\ pc = "enter"
    /\ path \in there
    /\ pc' = "remove"
    /\ stack' = Append(stack, Open(path))
    /\ UNCHANGED <<there, loops, path, code, faults, others, before>>

EnterOpen ==
    /\ pc = "enter"
    /\ IsDir(path)
    /\ pc' = "remove"
    /\ stack' = Append(stack, Open(path))
    /\ UNCHANGED <<there, loops, path, code, faults, others, before>>

\* A failure closes the stream and is returned.
Break ==
    /\ stack' = Stack(<< >>)
    /\ Return(3)

RemoveTooLong(x) ==
    /\ pc = "remove" /\ Reads(x)
    /\ x \in TooLong
    /\ Break
    /\ UNCHANGED <<there, loops, path, faults, others, before>>

\* Inside the loop an entry that is gone is an error.
RemoveGone(x) ==
    /\ pc = "remove" /\ Reads(x)
    /\ x \notin TooLong
    /\ IF x \in there THEN Fault ELSE UNCHANGED faults
    /\ Break
    /\ UNCHANGED <<there, loops, path, others, before>>

RemoveFile(x) ==
    /\ pc = "remove" /\ Reads(x)
    /\ x \notin TooLong /\ x \in there /\ ~IsDir(x)
    /\ there' = there \ {x}
    /\ stack' = Stack(<<After(x)>>)
    /\ UNCHANGED <<pc, loops, path, code, faults, others, before>>

UnlinkFails(x) ==
    /\ pc = "remove" /\ Reads(x)
    /\ x \notin TooLong /\ x \in there /\ ~IsDir(x)
    /\ Fault
    /\ Break
    /\ UNCHANGED <<there, loops, path, others, before>>

Descend(x) ==
    /\ pc = "remove" /\ Reads(x)
    /\ x \notin TooLong /\ IsDir(x)
    /\ stack' = Stack(<<After(x)>>)
    /\ pc' = "enter" /\ path' = x
    /\ UNCHANGED <<there, loops, code, faults, others, before>>

\* The loop is over: rmdir, of an empty directory only.
RemoveDir ==
    /\ pc = "remove"
    /\ Innermost.left = {}
    /\ Innermost.dir \in there /\ Entries(Innermost.dir) = {}
    /\ there' = there \ {Innermost.dir}
    /\ stack' = Stack(<< >>)
    /\ Return(0)
    /\ UNCHANGED <<loops, path, faults, others, before>>

\* Mutant of RmdirFails: what rmdir returns is not looked at.
RmdirUnchecked ==
    /\ pc = "remove"
    /\ Innermost.left = {}
    /\ IF Innermost.dir \in there /\ Entries(Innermost.dir) = {}
       THEN Fault ELSE UNCHANGED faults
    /\ stack' = Stack(<< >>) /\ Return(0)
    /\ UNCHANGED <<there, loops, path, others, before>>

RmdirFails ==
    /\ pc = "remove"
    /\ Innermost.left = {}
    /\ IF Innermost.dir \in there /\ Entries(Innermost.dir) = {}
       THEN Fault ELSE UNCHANGED faults
    /\ Break
    /\ UNCHANGED <<there, loops, path, others, before>>

\* Mutant of Resume: the loop goes on after an error.
ResumeAnyway ==
    /\ pc = "returned" /\ stack # << >>
    /\ pc' = "remove"
    /\ UNCHANGED <<there, stack, loops, path, code, faults, others, before>>

\* The call of a directory inside another returns: an error is handed on,
\* a directory that was missing is not one.
Resume ==
    /\ pc = "returned" /\ stack # << >>
    /\ IF code > 1 THEN stack' = Stack(<< >>) /\ UNCHANGED pc
                   ELSE pc' = "remove" /\ UNCHANGED stack
    /\ UNCHANGED <<there, loops, path, code, faults, others, before>>

\* Mutant of Report: clean_up tries a failed target again.
ReportRetries ==
    /\ pc = "returned" /\ stack = << >>
    /\ pc' = "clean"
    /\ targ' = (IF code > 1 THEN targ ELSE targ + 1)
    /\ UNCHANGED <<there, stack, found, proj, path, code, faults, others, before>>

\* clean_up prints what became of the target.
Report ==
    /\ pc = "returned" /\ stack = << >>
    /\ pc' = "clean"
    /\ targ' = targ + 1
    /\ UNCHANGED <<there, stack, found, proj, path, code, faults, others, before>>

----------------------------------------------------------------------
\* Another program creates or removes an entry.  Whether a stream already
\* open on its directory shows the change is not specified.
Noticed(x) ==
    \/ UNCHANGED stack
    \/ stack' = [i \in DOMAIN stack |->
                    IF stack[i].dir = Parent[x]
                    THEN [stack[i] EXCEPT !.left = (@ \ {x}) \union ({x} \intersect there')]
                    ELSE stack[i]]

Other == pc # "done" /\ others < MaxOthers /\ others' = others + 1

OtherCreates(x) ==
    /\ Other
    /\ x # Top /\ x \notin there /\ IsDir(Parent[x])
    /\ there' = there \union {x}
    /\ Noticed(x)
    /\ UNCHANGED <<pc, loops, path, code, faults, before>>

OtherRemoves(x) ==
    /\ Other
    /\ x # Top /\ x \in there /\ Entries(x) = {}
    /\ there' = there \ {x}
    /\ Noticed(x)
    /\ UNCHANGED <<pc, loops, path, code, faults, before>>

Finding ==
    \/ Search \/ SearchFails \/ FindReturn
    \/ \E x \in Places : FindTooLong(x) \/ FindEntry(x) \/ FindShut(x)
                         \/ StrdupFails(x) \/ AppendFails(x)

Cleaning == CleanTarget \/ CleanTooLong \/ NextProject \/ Finish \/ Report

Removing ==
    \/ EnterMissing \/ EnterNotDir \/ EnterShut \/ EnterOpen
    \/ RemoveDir \/ RmdirFails \/ Resume
    \/ \E x \in Places : RemoveTooLong(x) \/ RemoveGone(x) \/ RemoveFile(x)
                         \/ UnlinkFails(x) \/ Descend(x)

Broom == Finding \/ Cleaning \/ Removing

Next == Broom \/ \E x \in Places : OtherCreates(x) \/ OtherRemoves(x)

Spec == Init /\ [][Next]_vars

\* One process, which the system lets run.
FairSpec == Spec /\ WF_vars(Broom)

----------------------------------------------------------------------
TypeOK ==
    /\ pc \in {"start", "find", "clean", "enter", "remove", "returned", "done"}
    /\ there \subseteq Places
    /\ stack \in Seq(Stream) /\ \A i \in DOMAIN stack : Kind[stack[i].dir] = "dir"
    /\ found \in Seq(Places)
    /\ proj \in 1 .. Len(found) + 1 /\ targ \in 1 .. Len(Targets) + 1
    /\ path \in Places \union {Null} /\ code \in 0 .. 3
    /\ faults \in 0 .. MaxFaults /\ others \in 0 .. MaxOthers

Above[x \in Places] == IF x = Top THEN {Top} ELSE {x} \union Above[Parent[x]]

\* Where a target of project p would be in the tree t.
TargetDirs(p, t) ==
    {x \in Children(p) \intersect t :
        /\ Kind[x] = "dir" /\ x \notin TooLong
        /\ \E i \in DOMAIN Targets : Name[x] = Targets[i]}

\* What the program says it does is all it does: nothing is ever removed but
\* targets of projects it has found, and what is inside them.  So a link
\* called like a target leads it nowhere, whatever fails or changes meanwhile.
OnlyTargets ==
    [][others' = others =>
         \A x \in there \ there' : \E i \in DOMAIN found :
            Above[x] \intersect TargetDirs(found[i], there) # {}]_vars

\* The projects in the tree t, as the search can see them.
Projects(t) ==
    {Parent[g] : g \in {x \in t \ (TooLong \union {Top}) :
                           Name[x] = ".git" /\ Resolve(Start) \in Above[Parent[x]]}}

Swept(t) ==
    {x \in t : \E p \in Projects(t) : Above[x] \intersect TargetDirs(p, t) # {}}

\* The targets the program can remove whole.
Whole(t) ==
    {x \in t : \E p \in Projects(t) : \E d \in Above[x] \intersect TargetDirs(p, t) :
                  \A y \in t \intersect TooLong : d \notin Above[y]}

\* With nothing failing and nobody interfering, the tree left behind is the
\* tree found less the targets of all its projects, in whatever order the
\* directories are read: also where a project lies inside the target of
\* another, and is gone by the time it is cleaned, or the other way round.
SweepsExactly ==
    pc = "done" /\ faults = 0 /\ others = 0 =>
       /\ before \ Swept(before) \subseteq there
       /\ there \subseteq before \ Whole(before)

\* remove_directory: "This function stops on the first error encountered".
\* Up through the calls, nothing more of the target is removed.
StopsAtFirstError == [][code > 1 /\ others' = others => UNCHANGED there]_vars

\* A target reported as cleaned is gone: although a missing directory inside
\* it is not an error, and others add to it while it is emptied.
CleanedIsGone ==
    [][pc' = "returned" /\ stack' = << >> /\ others' = others /\ code' = 0
          => Current \notin there']_vars

\* The program ends, also when errors are met and links lead back up.
Ends == <>(pc = "done")
======================================================================
