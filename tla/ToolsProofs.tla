------------------------- MODULE ToolsProofs -------------------------
(* Proofs about the arena allocator and the programs that run once and   *)
(* end, which have nothing to do with each other: BumpArena, then Bingo, *)
(* SemVer, DecDump, RecordFile, Sha1, Feistel and Cidr.                  *)
EXTENDS BumpArena, Bingo, SemVer, DecDump, RecordFile, Sha1, Feistel,
        Cidr, FiniteSetTheorems, SequenceTheorems, WellFoundedInduction, TLAPS

----------------------------------------------------------------------

Alive == pc \in {"idle", "alloc"}

\* start, offset and len describe one position, in an allocated block unless
\* the arena never had any bytes.
ArenaAgrees ==
    Alive =>
       /\ offset = [block |-> start, at |-> len]
       /\ capacity > 0 => start \in heap

ArenaInv == TypeOK /\ RegionsApart /\ ArenaAgrees

LEMMA ArenaInit == Init => ArenaInv
BY DEF Init, ArenaInv, TypeOK, RegionsApart, ArenaAgrees, Alive

LEMMA CreateArenaInv ==
    ASSUME ArenaInv, NEW c \in Capacities, Create(c), regions = {}
    PROVE  ArenaInv'
BY SizeAssumption DEF ArenaInv, TypeOK, RegionsApart, ArenaAgrees, Alive, Create, Pointer

\* A region behind len is apart from all that end at or before it.
LEMMA BumpArenaInv ==
    ASSUME ArenaInv, Bump
    PROVE  ArenaInv'
<1> DEFINE r == [block |-> offset.block, at |-> offset.at, len |-> want]
<1>1. /\ start \in Blocks /\ len \in Nat /\ want \in Nat /\ capacity \in Nat
      /\ offset.block = start /\ offset.at = len
      /\ len + want < capacity /\ len' = len + want
  BY DEF ArenaInv, TypeOK, ArenaAgrees, Alive, Bump
<1>2. r \in Region /\ r.at = len /\ r.len = want
  BY <1>1 DEF Region
<1>3. TypeOK'
  BY <1>1, <1>2 DEF ArenaInv, TypeOK, ArenaAgrees, Alive, Pointer, Bump
<1>4. ArenaAgrees'
  BY <1>1 DEF ArenaInv, ArenaAgrees, Alive, Bump
<1>5. RegionsApart'
  <2> HIDE DEF r
  <2>1. \A q \in regions : q.at \in Nat /\ q.len \in Nat /\ q.at + q.len <= len
    BY DEF ArenaInv, TypeOK, Region, RegionsApart, Bump
  <2>2. regions' = regions \union {r}
    BY DEF Bump, r
  <2>3. \A q \in regions' : q.at + q.len <= len' /\ len' < capacity'
    BY <1>1, <1>2, <2>1, <2>2 DEF Bump
  <2>4. \A q \in regions : Apart(q, r) /\ Apart(r, q)
    BY <1>2, <2>1 DEF Apart
  <2>5. \A p, q \in regions : p # q => Apart(p, q)
    BY DEF ArenaInv, RegionsApart, Bump
  <2> QED
    BY <2>2, <2>3, <2>4, <2>5 DEF RegionsApart
<1> QED
  BY <1>3, <1>4, <1>5 DEF ArenaInv

\* Before the arena is created no region has been handed out.
NoneYet == pc = "none" => regions = {}

LEMMA ArenaNext == ArenaInv /\ NoneYet /\ [Next]_vars => ArenaInv' /\ NoneYet'
<1> SUFFICES ASSUME ArenaInv, NoneYet, [Next]_vars PROVE ArenaInv' /\ NoneYet'
  OBVIOUS
<1>1. ASSUME NEW c \in Capacities, Create(c)
      PROVE  ArenaInv' /\ NoneYet'
  BY <1>1, CreateArenaInv DEF NoneYet, Create
<1>2. CASE CreateFails \/ UNCHANGED vars
  BY <1>2 DEF CreateFails, vars, ArenaInv, TypeOK, RegionsApart, ArenaAgrees, Alive, NoneYet
<1>3. CASE Destroy
  BY <1>3 DEF Destroy, ArenaInv, TypeOK, RegionsApart, ArenaAgrees, Alive, NoneYet
<1>4. ASSUME NEW n \in Lengths, Alloc(n)
      PROVE  ArenaInv' /\ NoneYet'
  BY <1>4, SizeAssumption
     DEF Alloc, arena, ArenaInv, TypeOK, RegionsApart, ArenaAgrees, Alive, NoneYet
<1>5. CASE Grow
  <2>1. capacity \in Nat /\ len \in Nat /\ 2 * capacity \in Nat /\ pc = "alloc"
    BY <1>5 DEF ArenaInv, TypeOK, Grow, TooSmall
  <2>2. PICK b \in (Blocks \ heap) \union {start} :
           /\ start' = b /\ offset' = [block |-> b, at |-> len]
           /\ heap' = (heap \ {start}) \union {b}
    BY <1>5 DEF Grow
  <2>3. b \in Blocks
    BY <2>1, <2>2 DEF ArenaInv, TypeOK
  <2>4. TypeOK'
    BY <1>5, <2>1, <2>2, <2>3 DEF ArenaInv, TypeOK, Grow, Pointer
  <2>5. ArenaAgrees' /\ NoneYet'
    BY <1>5, <2>1, <2>2 DEF ArenaAgrees, Alive, NoneYet, Grow
  <2>6. RegionsApart'
    BY <1>5, <2>1 DEF ArenaInv, RegionsApart, Grow
  <2> QED
    BY <2>4, <2>5, <2>6 DEF ArenaInv
<1>6. CASE GrowFails
  BY <1>6 DEF GrowFails, TooSmall, arena, ArenaInv, TypeOK, RegionsApart, ArenaAgrees, Alive, NoneYet
<1>7. CASE GrowNothing
  BY <1>7 DEF GrowNothing, TooSmall, arena, ArenaInv, TypeOK, RegionsApart, ArenaAgrees, Alive, NoneYet
<1>8. CASE Bump
  BY <1>8, BumpArenaInv DEF Bump, NoneYet
<1> QED
  BY <1>1, <1>2, <1>3, <1>4, <1>5, <1>6, <1>7, <1>8 DEF Next, Running

\* The invariant holds in every reachable state.
THEOREM ArenaInvariance == Spec => [](ArenaInv /\ NoneYet)
<1>1. Init => NoneYet
  BY DEF Init, NoneYet
<1> QED
  BY <1>1, ArenaInit, ArenaNext, PTL DEF Spec

\* Type correctness (bumparena.h:18-24).
THEOREM ArenaTypeCorrect == Spec => []TypeOK
<1>1. ArenaInv => TypeOK
  BY DEF ArenaInv
<1> QED
  BY <1>1, ArenaInvariance, PTL

\* No two regions bumparena_alloc has handed out overlap, and all lie in
\* the part of the block that is in use, whatever the block's moves.
THEOREM NoOverlap == Spec => []RegionsApart
<1>1. ArenaInv => RegionsApart
  BY DEF ArenaInv
<1> QED
  BY <1>1, ArenaInvariance, PTL

\* A region lies, when it is handed out, inside the arena's allocated block.
THEOREM HandedOutInside == Spec => ReturnsInside
<1> DEFINE Inside == \A r \in regions' \ regions :
              r.block = start' /\ start' \in heap' /\ r.at + r.len < capacity'
<1>1. ArenaInv /\ NoneYet /\ [Next]_vars => [Inside]_vars
  <2> SUFFICES ASSUME ArenaInv, [Next]_vars, NEW r \in regions' \ regions
               PROVE  r.block = start' /\ start' \in heap' /\ r.at + r.len < capacity'
    OBVIOUS
  <2>1. CASE Bump
    BY <2>1 DEF Bump, ArenaInv, TypeOK, ArenaAgrees, Alive
  <2>2. CASE ~Bump
    <3>1. regions' = {} \/ regions' = regions
      BY <2>2 DEF Next, Running, Create, CreateFails, Destroy, Alloc, Grow, GrowFails, GrowNothing, vars
    <3> QED
      BY <3>1
  <2> QED
    BY <2>1, <2>2
<1> QED
  BY <1>1, ArenaInvariance, PTL DEF Spec, ReturnsInside

----------------------------------------------------------------------

Numbers == 1 .. CageSize
Announced == {printed[i] : i \in 1 .. Len(printed)}

\* A number is in the filled part of the cage, in one place, or announced.
CageHoldsTheRest ==
    /\ cageLen \in 0 .. CageSize
    /\ numbers \in [Places -> Numbers]
    /\ \A ii, jj \in 0 .. cageLen - 1 : ii # jj => numbers[ii] # numbers[jj]
    /\ \A n \in Numbers : n \in Announced <=> \A ii \in 0 .. cageLen - 1 : numbers[ii] # n

BingoInv ==
    /\ bpc \in {"init", "extract", "done", "crashed"}
    /\ printed \in Seq(Numbers)
    /\ bpc = "init" => printed = << >>
    /\ bpc = "extract" => CageHoldsTheRest

----------------------------------------------------------------------
LEMMA AnnouncedAppend ==
    ASSUME printed \in Seq(Numbers), NEW n \in Numbers, printed' = Append(printed, n)
    PROVE  printed' \in Seq(Numbers) /\ Announced' = Announced \union {n}
<1>1. /\ printed' \in Seq(Numbers)
      /\ Len(printed') = Len(printed) + 1 /\ Len(printed) \in Nat
      /\ \A i \in 1 .. Len(printed) : printed'[i] = printed[i]
      /\ printed'[Len(printed) + 1] = n
  BY AppendProperties, LenProperties
<1>2. 1 .. Len(printed') = (1 .. Len(printed)) \union {Len(printed) + 1}
  BY <1>1
<1> QED BY <1>1, <1>2 DEF Announced

LEMMA AnnouncedInCage ==
    ASSUME printed \in Seq(Numbers)
    PROVE  Announced \subseteq Numbers
BY ElementOfSeq DEF Announced

LEMMA InitCageHoldsAll ==
    ASSUME CageSize \in Nat, BingoInv, InitCage
    PROVE  BingoInv'
<1>1. bpc = "init" /\ printed = << >> /\ printed' = printed /\ bpc' = "extract"
  BY DEF InitCage, BingoInv
<1>2. /\ cageLen' = CageSize
      /\ numbers' \in [Places -> Numbers]
      /\ \A ii \in 0 .. CageSize - 1 : numbers'[ii] = ii + 1
  BY DEF InitCage, Places, Numbers
<1>3. Announced' = {}
  BY <1>1 DEF Announced
<1>4. CageHoldsTheRest'
  <2>1. \A n \in Numbers : n - 1 \in 0 .. CageSize - 1 /\ numbers'[n - 1] = n
    BY <1>2 DEF Numbers
  <2>2. \A ii, jj \in 0 .. CageSize - 1 : ii # jj => numbers'[ii] # numbers'[jj]
    BY <1>2
  <2> QED BY <1>2, <1>3, <2>1, <2>2 DEF CageHoldsTheRest, Places, Numbers
<1> QED BY <1>1, <1>4 DEF BingoInv

\* What a turn announces is a number of the cage not announced before, and
\* the last number takes its place.
LEMMA TurnAnnouncesOne ==
    ASSUME CageSize \in Nat, Short \in Nat, CageSize < Short, BingoInv, Turn
    PROVE  /\ \E n \in Numbers \ Announced : printed' = Append(printed, n)
           /\ BingoInv'
<1>1. /\ bpc = "extract" /\ bpc' = "extract" /\ cageLen > 0 /\ CageHoldsTheRest
      /\ printed \in Seq(Numbers)
  BY DEF Turn, BingoInv
<1>2. PICK idx \in 0 .. cageLen - 1 : ExtractNumber(idx) /\ Announce(numbers[idx])
  BY DEF Turn
<1> DEFINE n == numbers[idx]
<1>3. idx \in Places /\ cageLen - 1 \in Places /\ cageLen \in 1 .. CageSize
  BY <1>1 DEF CageHoldsTheRest, Places
<1>4. n \in Numbers /\ numbers[cageLen - 1] \in Numbers
  BY <1>1, <1>3 DEF CageHoldsTheRest
<1>5. n % Short = n
  BY <1>4 DEF Numbers
<1>6. n \notin Announced
  BY <1>1, <1>4 DEF CageHoldsTheRest
<1>7. printed' = Append(printed, n)
  BY <1>2, <1>5 DEF Announce
<1>8. printed' \in Seq(Numbers) /\ Announced' = Announced \union {n}
  BY <1>1, <1>4, <1>7, AnnouncedAppend
<1>9. /\ cageLen' = cageLen - 1
      /\ numbers' \in [Places -> Numbers]
      /\ \A ii \in Places : numbers'[ii] = IF ii = idx THEN numbers[cageLen - 1] ELSE numbers[ii]
  BY <1>1, <1>2, <1>3, <1>4 DEF ExtractNumber, CageHoldsTheRest
<1> HIDE DEF n
<1>10. \A ii, jj \in 0 .. cageLen' - 1 : ii # jj => numbers'[ii] # numbers'[jj]
  BY <1>1, <1>3, <1>9 DEF CageHoldsTheRest, Places
<1>11. ASSUME NEW m \in Numbers
       PROVE  m \in Announced' <=> \A ii \in 0 .. cageLen' - 1 : numbers'[ii] # m
  <2>1. CASE m = n
    <3>1. \A ii \in 0 .. cageLen - 1 : ii # idx => numbers[ii] # m
      BY <1>1, <2>1 DEF CageHoldsTheRest, n
    <3> QED BY <1>3, <1>8, <1>9, <2>1, <3>1 DEF Places
  <2>2. CASE m # n
    <3>1. m \in Announced' <=> \A ii \in 0 .. cageLen - 1 : numbers[ii] # m
      BY <1>1, <1>8, <2>2 DEF CageHoldsTheRest
    <3>2. ASSUME NEW ii \in 0 .. cageLen - 1, numbers[ii] = m
          PROVE  \E jj \in 0 .. cageLen' - 1 : numbers'[jj] = m
      <4>1. ii # idx
        BY <3>2, <2>2 DEF n
      <4> QED BY <1>3, <1>9, <3>2, <4>1, SMTT(30) DEF Places
    <3>3. ASSUME NEW jj \in 0 .. cageLen' - 1, numbers'[jj] = m
          PROVE  \E ii \in 0 .. cageLen - 1 : numbers[ii] = m
      BY <1>3, <1>9, <3>3 DEF Places
    <3> QED BY <3>1, <3>2, <3>3
  <2> QED BY <2>1, <2>2
<1>12. CageHoldsTheRest'
  BY <1>3, <1>9, <1>10, <1>11 DEF CageHoldsTheRest, Places, Numbers
<1> QED BY <1>1, <1>4, <1>6, <1>7, <1>8, <1>12 DEF BingoInv

\* The cage is empty: all have been announced.
LEMMA FinishAfterAll ==
    ASSUME CageSize \in Nat, BingoInv, Finish
    PROVE  Announced = Numbers /\ BingoInv'
<1>1. bpc = "extract" /\ cageLen = 0 /\ bpc' = "done" /\ printed' = printed
  BY DEF Finish
<1>2. Numbers \subseteq Announced
  BY <1>1 DEF BingoInv, CageHoldsTheRest
<1>3. Announced \subseteq Numbers
  BY AnnouncedInCage DEF BingoInv
<1> QED BY <1>1, <1>2, <1>3 DEF BingoInv

\* Every step of the program is one of the game, or none at all.
LEMMA StepIsOfTheGame ==
    ASSUME CageSize \in Nat, Short \in Nat, CageSize < Short, BingoInv, [BNext]_bvars
    PROVE  BingoInv' /\ [Game!LNext]_<<printed, bpc = "done">>
<1>1. CASE InitCage
  BY <1>1, InitCageHoldsAll DEF InitCage
<1>2. CASE InitCageCrashes
  BY <1>2 DEF InitCageCrashes, BingoInv
<1>3. CASE Turn
  <2>1. bpc = "extract" /\ bpc' = "extract"
    BY <1>3 DEF Turn
  <2>2. BingoInv' /\ \E n \in Numbers \ Announced : printed' = Append(printed, n)
    BY <1>3, TurnAnnouncesOne
  <2>3. Game!Call
    BY <2>1, <2>2 DEF Game!Call, Game!Called, Announced, Numbers
  <2> QED BY <2>2, <2>3 DEF Game!LNext
<1>4. CASE Finish
  <2>1. Game!Close
    BY <1>4, FinishAfterAll DEF Finish, Game!Close, Game!Called, Announced, Numbers
  <2> QED BY <1>4, <2>1, FinishAfterAll DEF Game!LNext
<1>5. CASE UNCHANGED bvars
  BY <1>5 DEF bvars, BingoInv, CageHoldsTheRest, Announced, Places
<1> QED BY <1>1, <1>2, <1>3, <1>4, <1>5 DEF BNext

----------------------------------------------------------------------
\* bingo.c and bigbingo.c play a proper game, whatever rand returns: each
\* number of the cage is announced once, and all of them before the end, for
\* any size of the cage whose numbers %hu prints as they are.
THEOREM ProperGame ==
    ASSUME CageSize \in Nat, Short \in Nat, CageSize < Short
    PROVE  BSpec => ImplementsLottery
<1>1. BInit => BingoInv /\ Game!LInit
  BY DEF BInit, BingoInv, Game!LInit
<1>2. BingoInv /\ [BNext]_bvars => BingoInv' /\ [Game!LNext]_<<printed, bpc = "done">>
  BY StepIsOfTheGame
<1> QED BY <1>1, <1>2, PTL DEF BSpec, ImplementsLottery, Game!LSpec

----------------------------------------------------------------------
\* Quotients and remainders.
LEMMA Division ==
    ASSUME NEW a \in Nat, NEW b \in Nat \ {0}, NEW q, q = a \div b, NEW r, r = a % b
    PROVE  q \in Nat /\ r \in 0 .. b - 1 /\ a = b * q + r
<1>1. q \in Nat /\ r \in 0 .. b - 1
  OBVIOUS
<1>2. a = b * q + r
  BY SMTT(30)
<1> QED BY <1>1, <1>2

LEMMA DivisionIs ==
    ASSUME NEW b \in Nat \ {0}, NEW q \in Nat, NEW r \in 0 .. b - 1, NEW a, a = b * q + r
    PROVE  a \div b = q /\ a % b = r
<1>1. a \in Nat
  OBVIOUS
<1>2. a % b = r
  BY <1>1, SMTT(30)
<1>3. a \div b = q
  BY <1>1, SMTT(30)
<1> QED BY <1>2, <1>3

\* If the quotient is below n, what is divided is below n times the divisor.
LEMMA Below ==
    ASSUME NEW b \in Nat \ {0}, NEW n \in Nat, NEW q \in 0 .. n - 1, NEW r \in 0 .. b - 1
    PROVE  b * q + r \in 0 .. b * n - 1
<1>1. PICK k \in Nat : n = q + 1 + k
  <2>1. n - q - 1 \in Nat /\ n = q + 1 + (n - q - 1)
    OBVIOUS
  <2> QED BY <2>1
<1>2. b * n = b * q + b + b * k /\ b * k \in Nat /\ b * q \in Nat
  BY <1>1
<1> QED BY <1>2

\* ... and the other way round.
LEMMA QuotientBelow ==
    ASSUME NEW b \in Nat \ {0}, NEW n \in Nat, NEW a \in 0 .. b * n - 1
    PROVE  a \div b \in 0 .. n - 1
<1>1. a \in Nat /\ b * n \in Nat
  OBVIOUS
<1> DEFINE q == a \div b
           r == a % b
<1> HIDE DEF q, r
<1>2. q \in Nat /\ r \in 0 .. b - 1 /\ a = b * q + r
  <2>1. q = a \div b /\ r = a % b
    BY DEF q, r
  <2>2. a = b * q + r
    BY <1>1, <2>1, SMTT(30)
  <2>3. q \in Nat /\ r \in 0 .. b - 1
    BY <1>1, <2>1
  <2> QED BY <2>2, <2>3
<1>3. ASSUME n <= q
      PROVE  FALSE
  <2>1. PICK k \in Nat : q = n + k
    <3>1. q - n \in Nat /\ q = n + (q - n)
      BY <1>2, <1>3
    <3> QED BY <3>1
  <2>2. b * q = b * n + b * k /\ b * k \in Nat /\ b * n \in Nat
    BY <2>1
  <2> QED BY <1>1, <1>2, <2>2
<1>4. q \in 0 .. n - 1
  BY <1>2, <1>3
<1> QED BY <1>4 DEF q

\* The word of three fields, and the fields of a word.
VersionWord(h) == Patches * (Minors * h[1] + h[2]) + h[3]
Humans == (0 .. Majors - 1) \X (0 .. Minors - 1) \X (0 .. Patches - 1)

LEMMA RangeIs ==
    /\ WordRange \in Nat \ {0} /\ WordRange = Patches * (Minors * Majors)
    /\ Minors * Patches \in Nat \ {0} /\ Minors * Majors \in Nat \ {0}
<1>1. Minors * Patches \in Nat \ {0} /\ Minors * Majors \in Nat \ {0}
  BY RangeAssumption
<1>2. Patches * (Minors * Majors) = (Majors * Minors) * Patches
  BY RangeAssumption
<1>3. Patches * (Minors * Majors) \in Nat \ {0}
  BY <1>1, RangeAssumption
<1> QED BY <1>1, <1>2, <1>3 DEF WordRange

LEMMA WordOf ==
    ASSUME NEW h \in Humans
    PROVE  VersionWord(h) \in 0 .. WordRange - 1 /\ Human(VersionWord(h)) = h
<1> DEFINE q == Minors * h[1] + h[2]
           v == VersionWord(h)
<1>1. h = <<h[1], h[2], h[3]>> /\ h[1] \in 0 .. Majors - 1 /\ h[2] \in 0 .. Minors - 1 /\ h[3] \in 0 .. Patches - 1
  BY DEF Humans
<1>2. /\ Majors \in Nat \ {0} /\ Minors \in Nat \ {0} /\ Patches \in Nat \ {0}
      /\ Minors * Majors \in Nat \ {0} /\ WordRange = Patches * (Minors * Majors)
      /\ Minors * Patches \in Nat \ {0}
  BY RangeAssumption, RangeIs
<1>3. q \in 0 .. Minors * Majors - 1
  BY <1>1, <1>2, Below
<1> HIDE DEF q
<1>4. v = Patches * q + h[3]
  BY DEF VersionWord, q
<1>5. v \in 0 .. WordRange - 1
  BY <1>1, <1>2, <1>3, <1>4, Below
<1> HIDE DEF v
<1>6. v \div Patches = q /\ v % Patches = h[3]
  BY <1>1, <1>2, <1>3, <1>4, DivisionIs
<1>7. q \div Minors = h[1] /\ q % Minors = h[2]
  BY <1>1, <1>2, DivisionIs DEF q
<1>8. v \div (Minors * Patches) = h[1]
  <2>1. Patches * h[2] + h[3] \in 0 .. Patches * Minors - 1
    BY <1>1, <1>2, Below
  <2>2. v = (Minors * Patches) * h[1] + (Patches * h[2] + h[3])
    <3>1. Patches * (Minors * h[1] + h[2]) = (Minors * Patches) * h[1] + Patches * h[2]
      BY <1>1, <1>2
    <3> QED BY <1>1, <1>2, <1>4, <3>1 DEF q
  <2>3. Patches * Minors = Minors * Patches
    BY <1>2
  <2> DEFINE b == Minors * Patches
             r == Patches * h[2] + h[3]
  <2>4. b \in Nat \ {0} /\ h[1] \in Nat /\ r \in 0 .. b - 1 /\ v = b * h[1] + r
    BY <1>1, <1>2, <2>1, <2>2, <2>3
  <2> HIDE DEF b, r
  <2>5. v \div b = h[1]
    BY <2>4, DivisionIs
  <2> QED BY <2>5 DEF b
<1>9. h[1] % Majors = h[1]
  <2>1. h[1] = Majors * 0 + h[1] /\ 0 \in Nat
    BY <1>1, <1>2
  <2> QED BY <1>1, <1>2, <2>1, DivisionIs
<1>10. Human(v) = <<h[1], h[2], h[3]>>
  BY <1>6, <1>7, <1>8, <1>9 DEF Human, GetMajor, GetMinor, GetPatch
<1> QED BY <1>1, <1>5, <1>10 DEF v

LEMMA HumanOf ==
    ASSUME NEW v \in 0 .. WordRange - 1
    PROVE  Human(v) \in Humans /\ v = VersionWord(Human(v))
<1> DEFINE q == v \div Patches
           a == q \div Minors
           b == q % Minors
           c == v % Patches
           h == <<a, b, c>>
<1> HIDE DEF q, a, b, c
<1>1. /\ Majors \in Nat \ {0} /\ Minors \in Nat \ {0} /\ Patches \in Nat \ {0}
      /\ Minors * Majors \in Nat \ {0} /\ WordRange = Patches * (Minors * Majors) /\ v \in Nat
  BY RangeAssumption, RangeIs
<1>2. q \in Nat /\ c \in 0 .. Patches - 1 /\ v = Patches * q + c
  <2>1. q = v \div Patches /\ c = v % Patches
    BY DEF q, c
  <2>2. v = Patches * q + c
    BY <1>1, <2>1, SMTT(30)
  <2>3. q \in Nat /\ c \in 0 .. Patches - 1
    BY <1>1, <2>1
  <2> QED BY <2>2, <2>3
<1>3. q \in 0 .. Minors * Majors - 1
  BY <1>1, QuotientBelow DEF q
<1>4. b \in 0 .. Minors - 1 /\ q = Minors * a + b
  BY <1>1, <1>2, Division DEF a, b
<1>5. a \in 0 .. Majors - 1
  BY <1>1, <1>3, QuotientBelow DEF a
<1>6. h \in Humans /\ v = VersionWord(h)
  BY <1>2, <1>4, <1>5 DEF Humans, VersionWord
<1> HIDE DEF h
<1>7. Human(v) = h
  BY <1>6, WordOf
<1> QED BY <1>6, <1>7

\* A sum that is the word of some fields, or one past the last word, has
\* those fields once it has been cut to a word.
LEMMA Carries ==
    ASSUME NEW v \in 0 .. WordRange - 1, NEW w \in Nat, NEW h \in Humans,
           w = VersionWord(h) \/ (w = WordRange /\ h = <<0, 0, 0>>)
    PROVE  Human(w % WordRange) = h
<1>1. WordRange \in Nat \ {0}
  BY RangeIs
<1>2. CASE w = VersionWord(h)
  <2>1. w \in 0 .. WordRange - 1 /\ Human(w) = h
    BY <1>2, WordOf
  <2>2. w = WordRange * 0 + w /\ 0 \in Nat
    BY <1>1
  <2>3. w % WordRange = w
    BY <1>1, <2>1, <2>2, DivisionIs
  <2> QED BY <2>1, <2>3
<1>3. CASE w = WordRange /\ h = <<0, 0, 0>>
  <2>1. w = WordRange * 1 + 0 /\ 1 \in Nat /\ 0 \in 0 .. WordRange - 1
    BY <1>1, <1>3
  <2>2. w % WordRange = 0
    BY <1>1, <2>1, DivisionIs
  <2>3. VersionWord(h) = 0
    BY <1>3, RangeAssumption DEF VersionWord
  <2>4. Human(0) = h
    BY <2>3, WordOf
  <2> QED BY <2>2, <2>4
<1> QED BY <1>2, <1>3

\* What the three additions come to.
LEMMA After ==
    ASSUME NEW v \in 0 .. WordRange - 1
    PROVE  LET h == Human(v)
           IN  /\ v + 1 \in Nat /\ Human((v + 1) % WordRange) = AfterPatch(h)
               /\ v + (Patches - GetPatch(v)) \in Nat
               /\ Human((v + (Patches - GetPatch(v))) % WordRange) = AfterMinor(h)
               /\ v + (Minors * Patches - GetMinor(v) * Patches - GetPatch(v)) \in Nat
               /\ Human((v + (Minors * Patches - GetMinor(v) * Patches - GetPatch(v))) % WordRange)
                     = AfterMajor(h)
<1> DEFINE h == Human(v)
           J == Majors
           M == Minors
           P == Patches
           a == h[1]
           b == h[2]
           c == h[3]
<1>1. /\ J \in Nat \ {0} /\ M \in Nat \ {0} /\ P \in Nat \ {0}
      /\ WordRange \in Nat \ {0} /\ WordRange = P * (M * J) /\ v \in Nat
  BY RangeAssumption, RangeIs
<1>2. h \in Humans /\ v = P * (M * a + b) + c
  BY HumanOf DEF VersionWord
<1>3. b = GetMinor(v) /\ c = GetPatch(v)
  BY DEF Human
<1> HIDE DEF h
<1>4. /\ a \in 0 .. J - 1 /\ b \in 0 .. M - 1 /\ c \in 0 .. P - 1
      /\ h = <<a, b, c>>
  BY <1>2 DEF Humans
<1> HIDE DEF J, M, P, a, b, c
<1> DEFINE up == v + (M * P - b * P - c)
<1>5. up = P * (M * (a + 1))
  <2>1. /\ P * (M * a + b) = P * (M * a) + P * b /\ P * (M * (a + 1)) = P * (M * a) + P * M
        /\ M * P = P * M /\ b * P = P * b
    BY <1>1, <1>4
  <2>2. P * (M * a) \in Nat /\ P * b \in Nat /\ P * M \in Nat
    BY <1>1, <1>4
  <2> QED BY <1>1, <1>2, <1>4, <2>1, <2>2
<1> HIDE DEF up
<1>6. up \in Nat
  BY <1>1, <1>4, <1>5
<1>7. Human(up % WordRange) = AfterMajor(h)
  <2>1. CASE a < J - 1
    <3>1. <<a + 1, 0, 0>> \in Humans /\ VersionWord(<<a + 1, 0, 0>>) = up
      <4>1. VersionWord(<<a + 1, 0, 0>>) = P * (M * (a + 1) + 0) + 0
        BY DEF VersionWord, P, M
      <4> QED BY <1>1, <1>4, <1>5, <2>1, <4>1 DEF Humans, J, M, P
    <3>2. AfterMajor(h) = <<a + 1, 0, 0>>
      <4>1. a + 1 = J * 0 + (a + 1) /\ 0 \in Nat /\ a + 1 \in 0 .. J - 1
        BY <1>1, <1>4, <2>1
      <4>2. (a + 1) % J = a + 1
        BY <1>1, <4>1, DivisionIs
      <4> QED BY <1>4, <4>2 DEF AfterMajor, J
    <3> QED BY <1>6, <3>1, <3>2, Carries
  <2>2. CASE ~(a < J - 1)
    <3>1. a + 1 = J
      BY <1>1, <1>4, <2>2
    <3>2. up = WordRange /\ <<0, 0, 0>> \in Humans
      BY <1>1, <1>5, <3>1 DEF Humans, J, M, P
    <3>3. AfterMajor(h) = <<0, 0, 0>>
      <4>1. a + 1 = J * 1 + 0 /\ 1 \in Nat /\ 0 \in 0 .. J - 1
        BY <1>1, <3>1
      <4>2. (a + 1) % J = 0
        BY <1>1, <4>1, DivisionIs
      <4> QED BY <1>4, <4>2 DEF AfterMajor, J
    <3> QED BY <1>6, <3>2, <3>3, Carries
  <2> QED BY <2>1, <2>2
<1> DEFINE mid == v + (P - c)
<1>8. mid = P * (M * a + b + 1) /\ mid \in Nat
  <2>1. P * (M * a + b + 1) = P * (M * a + b) + P /\ P * (M * a + b) \in Nat
    BY <1>1, <1>4
  <2> QED BY <1>1, <1>2, <1>4, <2>1
<1> HIDE DEF mid
<1>9. Human(mid % WordRange) = AfterMinor(h)
  <2>1. CASE b < M - 1
    <3>1. <<a, b + 1, 0>> \in Humans /\ VersionWord(<<a, b + 1, 0>>) = mid
      <4>1. VersionWord(<<a, b + 1, 0>>) = P * (M * a + (b + 1)) + 0
        BY DEF VersionWord, P, M
      <4>2. M * a + (b + 1) = M * a + b + 1 /\ M * a \in Nat
        BY <1>1, <1>4
      <4>3. <<a, b + 1, 0>> \in Humans
        BY <1>1, <1>4, <2>1 DEF Humans, J, M, P
      <4> QED BY <1>8, <4>1, <4>2, <4>3
    <3>2. AfterMinor(h) = <<a, b + 1, 0>>
      BY <1>4, <2>1 DEF AfterMinor, M
    <3> QED BY <1>8, <3>1, <3>2, Carries
  <2>2. CASE ~(b < M - 1)
    <3>1. b + 1 = M /\ M * a + b + 1 = M * (a + 1)
      <4>1. b + 1 = M
        BY <1>1, <1>4, <2>2
      <4>2. M * (a + 1) = M * a + M /\ M * a \in Nat
        BY <1>1, <1>4
      <4> QED BY <1>1, <1>4, <4>1, <4>2
    <3>2. mid = up
      BY <1>5, <1>8, <3>1
    <3>3. AfterMinor(h) = AfterMajor(h)
      BY <1>4, <2>2 DEF AfterMinor, M
    <3> QED BY <1>7, <3>2, <3>3
  <2> QED BY <2>1, <2>2
<1>10. Human((v + 1) % WordRange) = AfterPatch(h)
  <2>1. CASE c < P - 1
    <3>1. <<a, b, c + 1>> \in Humans /\ VersionWord(<<a, b, c + 1>>) = v + 1
      <4>1. VersionWord(<<a, b, c + 1>>) = P * (M * a + b) + (c + 1)
        BY DEF VersionWord, P, M
      <4>2. P * (M * a + b) \in Nat
        BY <1>1, <1>4
      <4>3. <<a, b, c + 1>> \in Humans
        BY <1>1, <1>4, <2>1 DEF Humans, J, M, P
      <4> QED BY <1>2, <1>4, <4>1, <4>2, <4>3
    <3>2. AfterPatch(h) = <<a, b, c + 1>>
      BY <1>4, <2>1 DEF AfterPatch, P
    <3> QED BY <1>1, <3>1, <3>2, Carries
  <2>2. CASE ~(c < P - 1)
    <3>1. v + 1 = mid
      BY <1>1, <1>4, <2>2 DEF mid
    <3>2. AfterPatch(h) = AfterMinor(h)
      BY <1>4, <2>2 DEF AfterPatch, P
    <3> QED BY <1>9, <3>1, <3>2
  <2> QED BY <2>1, <2>2
<1> QED BY <1>1, <1>3, <1>6, <1>7, <1>8, <1>9, <1>10 DEF h, M, P, up, mid

\* A version is always one word.
LEMMA VersionInRange == VSpec => [](version \in 0 .. WordRange - 1)
<1>1. WordRange \in Nat \ {0}
  BY RangeIs
<1>2. VInit => version \in 0 .. WordRange - 1
  BY <1>1 DEF VInit
<1>3. \A w \in Nat : w % WordRange \in 0 .. WordRange - 1
  BY <1>1
<1>4. version \in 0 .. WordRange - 1 /\ [VNext]_version => (version \in 0 .. WordRange - 1)'
  <2> SUFFICES ASSUME version \in 0 .. WordRange - 1, [VNext]_version
               PROVE  version' \in 0 .. WordRange - 1
    OBVIOUS
  <2>1. CASE Build
    <3>1. PICK major \in 0 .. Majors - 1, minor \in 0 .. Minors - 1, patch \in 0 .. Patches - 1 :
             version' = BuildVersion(major, minor, patch)
      BY <2>1 DEF Build
    <3>2. patch + minor * Patches + major * Minors * Patches \in Nat
      BY RangeAssumption
    <3> QED BY <1>3, <3>1, <3>2 DEF BuildVersion
  <2>2. CASE NextPatch \/ NextMinor \/ NextMajor
    BY <1>3, <2>2, After DEF NextPatch, NextMinor, NextMajor
  <2>3. CASE UNCHANGED version
    BY <2>3
  <2> QED BY <2>1, <2>2, <2>3 DEF VNext
<1> QED BY <1>2, <1>4, PTL DEF VSpec

\* next_patch, next_minor and next_major put one field up and those below it
\* to 0, with a carry out of a field that is at its end, for fields of any
\* ranges and versions reached by any calls (semver.c).
THEOREM VersionsCarry == VSpec => NextIsNext
<1>1. version \in 0 .. WordRange - 1 /\ [VNext]_version =>
         [/\ NextPatch => Human(version') = AfterPatch(Human(version))
          /\ NextMinor => Human(version') = AfterMinor(Human(version))
          /\ NextMajor => Human(version') = AfterMajor(Human(version))]_version
  BY After DEF NextPatch, NextMinor, NextMajor
<1> QED BY <1>1, VersionInRange, PTL DEF VSpec, NextIsNext

----------------------------------------------------------------------
\* The rows of a dump and the records of a file are strung together by a
\* recursive function, of which tlapm sees the equation only when there is a
\* function that satisfies it: the least length without one would follow one
\* that has it.
LEMMA LeastNatural ==
    ASSUME NEW S, S \subseteq Nat, S # {}
    PROVE  \E m \in S : \A k \in S : m <= k
<1>1. PICK m \in S : \A k \in S : <<k, m>> \notin OpToRel(<, Nat)
  BY NatLessThanWellFounded, WFMin
<1>2. \A k \in S : ~(k < m)
  BY <1>1 DEF OpToRel
<1> QED
  BY <1>2

\* The sequences of R strung together, one after the other.
Strings(R, m, f) == f[0] = << >> /\ \A n \in 1 .. m : f[n] = f[n - 1] \o R[n]
IsStrung(A, R, m, f) == f \in [0 .. m -> Seq(A)] /\ Strings(R, m, f)

LEMMA StrungExists ==
    ASSUME NEW A, NEW N \in Nat, NEW R, \A n \in 1 .. N : R[n] \in Seq(A)
    PROVE  \E f : IsStrung(A, R, N, f)
<1> DEFINE D == {m \in 0 .. N : ~ \E f : IsStrung(A, R, m, f)}
<1>1. D \subseteq Nat
  OBVIOUS
<1>2. SUFFICES ASSUME D # {} PROVE FALSE
  OBVIOUS
<1> HIDE DEF D
<1>3. PICK m \in D : \A k \in D : m <= k
  BY <1>1, <1>2, LeastNatural
<1>4. m \in 0 .. N /\ ~ \E f : IsStrung(A, R, m, f)
  BY <1>3 DEF D
<1>5. m # 0
  <2>1. IsStrung(A, R, 0, [n \in 0 .. 0 |-> << >>])
    BY EmptySeq DEF IsStrung, Strings
  <2> QED BY <1>4, <2>1
<1>6. m - 1 \in 0 .. N /\ m - 1 \notin D
  BY <1>3, <1>4, <1>5
<1>7. PICK f : IsStrung(A, R, m - 1, f)
  BY <1>6 DEF D
<1>8. f[m - 1] \in Seq(A) /\ R[m] \in Seq(A)
  BY <1>4, <1>5, <1>7 DEF IsStrung, Strings
<1>9. f[m - 1] \o R[m] \in Seq(A)
  BY <1>8, ConcatProperties
<1>10. f \in [0 .. m - 1 -> Seq(A)] /\ f[0] = << >>
  BY <1>7 DEF IsStrung, Strings
<1>11. \A n \in 1 .. m - 1 : f[n] = f[n - 1] \o R[n]
  BY <1>7 DEF IsStrung, Strings
<1>12. m \in Nat \ {0}
  BY <1>4, <1>5
<1> DEFINE c == f[m - 1] \o R[m]
           g == [n \in 0 .. m |-> IF n = m THEN c ELSE f[n]]
<1>13. c \in Seq(A)
  BY <1>9
<1> HIDE DEF c
<1>14. ASSUME NEW n \in 0 .. m PROVE g[n] \in Seq(A)
  <2>1. CASE n = m
    BY <2>1, <1>13
  <2>2. CASE n # m
    <3>1. n \in 0 .. m - 1
      BY <2>2, <1>12
    <3>2. f[n] \in Seq(A)
      BY <3>1, <1>10
    <3> QED BY <2>2, <3>2
  <2> QED BY <2>1, <2>2
<1>15. g \in [0 .. m -> Seq(A)]
  BY <1>14
<1>16. ASSUME NEW n \in 1 .. m PROVE g[n] = g[n - 1] \o R[n]
  <2>1. n \in 0 .. m /\ n - 1 \in 0 .. m /\ n - 1 # m
    BY <1>12
  <2>2. g[n - 1] = f[n - 1]
    BY <2>1
  <2>3. CASE n = m
    <3>1. g[n] = c
      BY <2>1, <2>3
    <3> QED BY <3>1, <2>2, <2>3 DEF c
  <2>4. CASE n # m
    <3>1. g[n] = f[n]
      BY <2>1, <2>4
    <3>2. n \in 1 .. m - 1
      BY <2>4, <1>12
    <3>3. f[n] = f[n - 1] \o R[n]
      BY <3>2, <1>11
    <3> HIDE DEF g
    <3> QED BY <3>1, <3>3, <2>2
  <2> QED BY <2>3, <2>4
<1>17. g[0] = << >>
  BY <1>12, <1>10
<1>18. IsStrung(A, R, m, g)
  <2> HIDE DEF g
  <2> QED BY <1>15, <1>16, <1>17 DEF IsStrung, Strings
<1> QED BY <1>4, <1>18

\* What satisfies the equation is the one.
LEMMA StrungOnly ==
    ASSUME NEW N \in Nat, NEW R, NEW f, NEW g,
           Strings(R, N, f), Strings(R, N, g), NEW q \in 0 .. N
    PROVE  g[q] = f[q]
<1> DEFINE D == {n \in 0 .. N : g[n] # f[n]}
<1>1. D \subseteq Nat
  OBVIOUS
<1>2. SUFFICES ASSUME D # {} PROVE FALSE
  OBVIOUS
<1> HIDE DEF D
<1>3. PICK m \in D : \A k \in D : m <= k
  BY <1>1, <1>2, LeastNatural
<1>4. m \in 0 .. N /\ g[m] # f[m]
  BY <1>3 DEF D
<1>5. m # 0
  BY <1>4 DEF IsStrung, Strings
<1>6. m - 1 \in 0 .. N /\ m - 1 \notin D
  BY <1>3, <1>4, <1>5
<1>7. g[m - 1] = f[m - 1]
  BY <1>6 DEF D
<1>8. m \in 1 .. N
  BY <1>4, <1>5
<1>9. f[m] = f[m - 1] \o R[m]
  BY <1>8 DEF IsStrung, Strings
<1>10. g[m] = g[m - 1] \o R[m]
  BY <1>8 DEF Strings
<1> QED BY <1>4, <1>7, <1>9, <1>10

Cell == ByteValues \union {Junk}

LEMMA ShownIs ==
    ASSUME Len(rows) \in Nat, \A n \in 1 .. Len(rows) : rows[n].decimal \in Seq(Cell)
    PROVE  IsStrung(Cell, [n \in 1 .. Len(rows) |-> rows[n].decimal], Len(rows), Shown)
<1> DEFINE N == Len(rows)
           R == [n \in 1 .. N |-> rows[n].decimal]
           Step(g, n) == IF n = 0 THEN << >> ELSE g[n - 1] \o rows[n].decimal
           Eq(g) == g = [n \in 0 .. N |-> Step(g, n)]
<1>1. PICK f : IsStrung(Cell, R, N, f)
  BY StrungExists
<1>2. ASSUME NEW n \in 0 .. N PROVE f[n] = Step(f, n)
  <2>1. CASE n = 0
    BY <1>1, <2>1 DEF IsStrung, Strings
  <2>2. CASE n # 0
    <3>1. n \in 1 .. N
      BY <2>2
    <3>2. f[n] = f[n - 1] \o R[n]
      BY <3>1, <1>1 DEF IsStrung, Strings
    <3>3. R[n] = rows[n].decimal
      BY <3>1
    <3> QED BY <2>2, <3>2, <3>3
  <2> QED BY <2>1, <2>2
<1>3. f \in [0 .. N -> Seq(Cell)]
  BY <1>1 DEF IsStrung, Strings
<1>4. Eq(f)
  <2> HIDE DEF Step, N
  <2>1. \A n \in 0 .. N : f[n] = Step(f, n)
    BY <1>2
  <2> QED BY <2>1, <1>3
<1>5. Shown = CHOOSE g : Eq(g)
  BY Zenon DEF Shown
<1>6. Eq(Shown)
  <2> HIDE DEF Eq
  <2> QED BY <1>4, <1>5
<1>7. ASSUME NEW n \in 0 .. N
      PROVE  Shown[n] = IF n = 0 THEN << >> ELSE Shown[n - 1] \o R[n]
  <2>1. Shown[n] = Step(Shown, n)
    <3> HIDE DEF Step, N
    <3> QED BY <1>6
  <2>2. n # 0 => R[n] = rows[n].decimal
    OBVIOUS
  <2> HIDE DEF R
  <2> QED BY <2>1, <2>2
<1>8. \A n \in 0 .. N : Shown[n] = f[n]
  <2> HIDE DEF N, R
  <2>1. N \in Nat
    BY DEF N
  <2>2. Shown[0] = << >>
    BY <1>7, <2>1
  <2>3. \A n \in 1 .. N : Shown[n] = Shown[n - 1] \o R[n]
    <3> SUFFICES ASSUME NEW n \in 1 .. N PROVE Shown[n] = Shown[n - 1] \o R[n]
      OBVIOUS
    <3>1. n \in 0 .. N /\ n # 0
      BY <2>1
    <3> QED BY <1>7, <3>1
  <2>4. Strings(R, N, Shown) /\ Strings(R, N, f)
    BY <1>1, <2>2, <2>3 DEF Strings, IsStrung
  <2> QED BY <2>1, <2>4, StrungOnly
<1>9. Shown = f
  <2> HIDE DEF N, Step
  <2> QED BY <1>3, <1>6, <1>8
<1> QED BY <1>1, <1>9
RowAt(n) == Row * n
RowRecord == [offset : Nat, decimal : Seq(Cell), readable : Seq(Cell)]

\* The n-th of the rows rs is the n-th row of the file f, on both sides.
Whole(rs, f, n) ==
    /\ rs[n].offset = RowAt(n - 1)
    /\ rs[n].readable = rs[n].decimal
    /\ rs[n].decimal \in Seq(Cell) /\ Len(rs[n].decimal) = Row
    /\ \A k \in 1 .. Row : rs[n].decimal[k] = f[RowAt(n - 1) + k]

\* The row r holds what is left of the file f behind m whole rows.
Rest(r, f, m, left) ==
    /\ r.offset = RowAt(m) /\ r.readable = r.decimal
    /\ r.decimal \in Seq(Cell) /\ left <= Len(r.decimal)
    /\ \A k \in 1 .. left : r.decimal[k] = f[RowAt(m) + k]

\* Before the last row is printed what has been read is in whole rows, and
\* the rest of it in the row that is being filled ...
Filling ==
    /\ footer = -1
    /\ rowCounter = RowAt(Len(rows))
    /\ \A n \in 1 .. Len(rows) : Whole(rows, dumped, n)
    /\ \A k \in 0 .. dii - 1 : buf[k] = dumped[rowCounter + k + 1]

\* ... and afterwards it is in the last row.
Ended ==
    /\ footer = dpos /\ Len(rows) > 0
    /\ rowCounter = RowAt(Len(rows) - 1)
    /\ \A n \in 1 .. Len(rows) - 1 : Whole(rows, dumped, n)
    /\ Rest(rows[Len(rows)], dumped, Len(rows) - 1, dii)

DTypeOK ==
    /\ dpc \in {"open", "read", "last", "close", "exit"}
    /\ dumped \in Seq(ByteValues) /\ dpos \in 0 .. Len(dumped)
    /\ buf \in [0 .. Row - 1 -> Cell] /\ dii \in 0 .. Row - 1
    /\ rowCounter \in Nat /\ dpos = rowCounter + dii
    /\ rows \in Seq(RowRecord)

DumpInv ==
    /\ DTypeOK
    /\ dpc = "open" => rows = << >> /\ dpos = 0
    /\ dpc \in {"open", "read", "last"} => Filling
    /\ dpc = "close" => Ended
    /\ dpc = "exit" => footer = -1 \/ Ended

LEMMA RowAtIs ==
    /\ RowAt(0) = 0
    /\ \A n \in Nat : RowAt(n) \in Nat /\ RowAt(n + 1) = RowAt(n) + Row
BY RowAssumption DEF RowAt

LEMMA ModRow ==
    ASSUME NEW n \in 1 .. Row
    PROVE  (n % Row = 0 <=> n = Row) /\ (n # Row => n % Row = n)
BY RowAssumption, SMTT(30)

LEMMA CellsAre ==
    ASSUME NEW b \in [0 .. Row - 1 -> Cell], NEW n \in 1 .. Row
    PROVE  /\ Cells(b, n) \in Seq(Cell) /\ Len(Cells(b, n)) = n
           /\ \A k \in 1 .. n : Cells(b, n)[k] = b[k - 1]
<1>1. n \in Nat
  BY RowAssumption
<1>2. \A k \in 1 .. n : k - 1 \in 0 .. Row - 1
  BY RowAssumption
<1>3. Cells(b, n) \in [1 .. n -> Cell]
  BY <1>2 DEF Cells
<1>4. Cells(b, n) \in Seq(Cell)
  BY <1>1, <1>3, SeqDef
<1>5. Len(Cells(b, n)) = n
  BY <1>1, <1>3, <1>4, LenProperties
<1> QED BY <1>4, <1>5 DEF Cells

\* Both sides of a row that is printed have the cells of its length, one
\* where that is 0.
LEMMA PrintedRow ==
    ASSUME NEW b \in [0 .. Row - 1 -> Cell], NEW size \in 0 .. Row
    PROVE  LET d == Cells(b, Printed(b, size))
           IN  /\ Readable(b, Printed(b, size)) = d
               /\ d \in Seq(Cell) /\ size <= Len(d) /\ (size > 0 => Len(d) = size)
               /\ \A k \in 1 .. size : d[k] = b[k - 1]
<1> DEFINE n == Printed(b, size)
<1>1. n \in 1 .. Row /\ size <= n /\ (size > 0 => n = size)
  BY RowAssumption DEF Printed
<1> HIDE DEF n
<1>2. Readable(b, n) = Cells(b, n)
  BY <1>1, ModRow DEF Readable
<1>3. Cells(b, n) \in Seq(Cell) /\ Len(Cells(b, n)) = n
  BY <1>1, CellsAre
<1>4. \A k \in 1 .. n : Cells(b, n)[k] = b[k - 1]
  BY <1>1, CellsAre
<1>5. 1 .. size \subseteq 1 .. n
  BY <1>1
<1> QED BY <1>1, <1>2, <1>3, <1>4, <1>5 DEF n

LEMMA DumpInit == DInit => DumpInv
<1> SUFFICES ASSUME DInit PROVE DumpInv
  OBVIOUS
<1>1. 0 \in 0 .. Row - 1 /\ 1 .. 0 = {} /\ 0 .. -1 = {}
  BY RowAssumption
<1>2. buf \in [0 .. Row - 1 -> Cell]
  BY DEF DInit, Cell
<1>3. dumped \in Seq(ByteValues) /\ rows \in Seq(RowRecord) /\ Len(rows) = 0 /\ Len(dumped) = 0
  BY EmptySeq DEF DInit
<1>4. DTypeOK
  BY <1>1, <1>2, <1>3 DEF DInit, DTypeOK
<1>5. Filling
  BY <1>1, <1>3, RowAtIs DEF DInit, Filling
<1> QED BY <1>4, <1>5 DEF DumpInv, DInit

\* The row that dec_dump appends.
NewRow(b, size) == [offset |-> rowCounter,
                   decimal |-> Cells(b, Printed(b, size)),
                   readable |-> Readable(b, Printed(b, size))]

LEMMA RowAppended ==
    ASSUME DTypeOK, NEW b \in [0 .. Row - 1 -> Cell], NEW size \in 0 .. Row, DecDump(b, size)
    PROVE  /\ NewRow(b, size) \in RowRecord /\ rows' \in Seq(RowRecord)
           /\ Len(rows) \in Nat /\ Len(rows') = Len(rows) + 1
           /\ \A n \in 1 .. Len(rows) : rows'[n] = rows[n]
           /\ rows'[Len(rows) + 1] = NewRow(b, size)
<1>1. NewRow(b, size) \in RowRecord
  BY PrintedRow DEF NewRow, RowRecord, DTypeOK
<1>2. rows \in Seq(RowRecord)
  BY DEF DTypeOK
<1>3. rows' = Append(rows, NewRow(b, size))
  BY DEF DecDump, NewRow
<1> QED BY <1>1, <1>2, <1>3, AppendProperties

\* The byte read is behind the ones in the row.
LEMMA ByteRead ==
    ASSUME DTypeOK, Filling, Fgetc
    PROVE  /\ buf' \in [0 .. Row - 1 -> Cell]
           /\ \A k \in 0 .. dii : buf'[k] = dumped[rowCounter + k + 1]
<1>1. /\ dpos \in Nat /\ dpos + 1 \in 1 .. Len(dumped) /\ dii \in 0 .. Row - 1
      /\ dpos = rowCounter + dii /\ dumped \in Seq(ByteValues) /\ Len(dumped) \in Nat
      /\ buf \in [0 .. Row - 1 -> Cell]
  BY LenProperties DEF DTypeOK, Fgetc
<1>2. dumped[dpos + 1] \in Cell
  BY <1>1, ElementOfSeq DEF Cell
<1>3. buf' = [buf EXCEPT ![dii] = dumped[dpos + 1]]
  BY DEF Fgetc
<1>4. buf' \in [0 .. Row - 1 -> Cell]
  BY <1>1, <1>2, <1>3
<1>5. ASSUME NEW k \in 0 .. dii PROVE buf'[k] = dumped[rowCounter + k + 1]
  <2>1. CASE k = dii
    BY <1>1, <1>3, <2>1 DEF DTypeOK
  <2>2. CASE k # dii
    <3>1. k \in 0 .. dii - 1 /\ k \in 0 .. Row - 1
      BY <1>1, <2>2, RowAssumption
    <3>2. buf'[k] = buf[k]
      BY <1>1, <1>3, <2>2, <3>1
    <3> QED BY <3>1, <3>2 DEF Filling
  <2> QED BY <2>1, <2>2
<1> QED BY <1>4, <1>5

LEMMA FgetcDump ==
    ASSUME DumpInv, Fgetc
    PROVE  DumpInv'
<1>1. /\ DTypeOK /\ Filling /\ dpc = "read" /\ dpc' = "read" /\ dumped' = dumped
      /\ dpos' = dpos + 1 /\ footer' = -1
  BY DEF DumpInv, Fgetc, Filling
<1>2. /\ buf' \in [0 .. Row - 1 -> Cell] /\ \A k \in 0 .. dii : buf'[k] = dumped[rowCounter + k + 1]
  BY <1>1, ByteRead
<1>3. /\ dpos' \in 0 .. Len(dumped) /\ dii \in 0 .. Row - 1 /\ dii + 1 \in 1 .. Row
      /\ dpos = rowCounter + dii /\ rowCounter \in Nat /\ rowCounter = RowAt(Len(rows))
      /\ dumped \in Seq(ByteValues) /\ rows \in Seq(RowRecord)
  BY <1>1, LenProperties, RowAssumption DEF DTypeOK, Fgetc, Filling
<1>4. CASE dii + 1 # Row
  <2>1. dii' = dii + 1 /\ UNCHANGED <<rows, rowCounter>>
    BY <1>3, <1>4, ModRow DEF Fgetc
  <2>2. dii' \in 0 .. Row - 1 /\ dpos' = rowCounter' + dii'
    BY <1>1, <1>3, <1>4, <2>1, RowAssumption
  <2>3. DTypeOK'
    BY <1>1, <1>2, <1>3, <2>1, <2>2 DEF DTypeOK
  <2>4. Filling'
    BY <1>1, <1>2, <1>3, <2>1 DEF Filling
  <2> QED BY <1>1, <2>3, <2>4 DEF DumpInv
<1>5. CASE dii + 1 = Row
  <2>1. DecDump(buf', Row) /\ dii' = 0 /\ rowCounter' = rowCounter + Row
    BY <1>3, <1>5, ModRow DEF Fgetc
  <2> DEFINE m == Len(rows)
             r == NewRow(buf', Row)
  <2>2. Row \in 0 .. Row /\ Row > 0
    BY RowAssumption
  <2>3. /\ rows' \in Seq(RowRecord) /\ m \in Nat /\ Len(rows') = m + 1
        /\ \A n \in 1 .. m : rows'[n] = rows[n]
        /\ rows'[m + 1] = r
    BY <1>1, <1>2, <2>1, <2>2, RowAppended
  <2>4. r.offset = RowAt(m) /\ r.readable = r.decimal
    BY <1>2, <1>3, <2>2, PrintedRow DEF NewRow
  <2>5. r.decimal \in Seq(Cell) /\ Len(r.decimal) = Row
    BY <1>2, <2>2, PrintedRow DEF NewRow
  <2>6. \A k \in 1 .. Row : r.decimal[k] = buf'[k - 1]
    BY <1>2, <2>2, PrintedRow DEF NewRow
  <2> HIDE DEF m, r
  <2>7. \A k \in 1 .. Row : r.decimal[k] = dumped[RowAt(m) + k]
    <3> SUFFICES ASSUME NEW k \in 1 .. Row PROVE r.decimal[k] = dumped[RowAt(m) + k]
      OBVIOUS
    <3>1. k - 1 \in 0 .. dii
      BY <1>3, <1>5
    <3>2. rowCounter + (k - 1) + 1 = RowAt(m) + k
      BY <1>3 DEF m
    <3> QED BY <1>2, <2>6, <3>1, <3>2
  <2>8. ASSUME NEW n \in 1 .. Len(rows') PROVE Whole(rows', dumped', n)
    <3>1. CASE n = m + 1
      <4>1. rows'[n] = r /\ n - 1 = m
        BY <2>3, <3>1
      <4> QED BY <1>1, <2>4, <2>5, <2>7, <4>1 DEF Whole
    <3>2. CASE n # m + 1
      <4>1. n \in 1 .. m
        BY <2>3, <3>2
      <4>2. Whole(rows, dumped, n)
        BY <1>1, <4>1 DEF Filling, m
      <4>3. rows'[n] = rows[n]
        BY <2>3, <4>1
      <4> QED BY <1>1, <4>2, <4>3 DEF Whole
    <3> QED BY <3>1, <3>2
  <2>9. rowCounter' = RowAt(Len(rows'))
    BY <1>3, <2>1, <2>3, RowAtIs DEF m
  <2>10. /\ dii' \in 0 .. Row - 1 /\ dpos' = rowCounter' + dii'
         /\ rowCounter' \in Nat
    BY <1>1, <1>3, <1>5, <2>1, RowAssumption, SMTT(30)
  <2>11. DTypeOK'
    BY <1>1, <1>2, <1>3, <2>3, <2>10 DEF DTypeOK
  <2>12. Filling'
    BY <1>1, <2>1, <2>8, <2>9 DEF Filling
  <2> QED BY <1>1, <2>11, <2>12 DEF DumpInv
<1> QED BY <1>4, <1>5

LEMMA LastRowDump ==
    ASSUME DumpInv, LastRow
    PROVE  DumpInv'
<1>1. /\ DTypeOK /\ Filling /\ dpc' = "close" /\ DecDump(buf, dii)
      /\ footer' = rowCounter + dii
      /\ UNCHANGED <<dumped, dpos, buf, dii, rowCounter>>
  BY DEF DumpInv, LastRow
<1>2. /\ buf \in [0 .. Row - 1 -> Cell] /\ dii \in 0 .. Row /\ dpos = rowCounter + dii
      /\ rowCounter = RowAt(Len(rows))
  BY <1>1, RowAssumption DEF DTypeOK, Filling
<1> DEFINE m == Len(rows)
           r == NewRow(buf, dii)
<1>3. /\ rows' \in Seq(RowRecord) /\ m \in Nat /\ Len(rows') = m + 1
      /\ \A n \in 1 .. m : rows'[n] = rows[n]
      /\ rows'[m + 1] = r
  BY <1>1, <1>2, RowAppended
<1>4. r.offset = RowAt(m) /\ r.readable = r.decimal
  BY <1>2, PrintedRow DEF NewRow
<1>5. r.decimal \in Seq(Cell) /\ dii <= Len(r.decimal)
  BY <1>2, PrintedRow DEF NewRow
<1>6. \A k \in 1 .. dii : r.decimal[k] = buf[k - 1]
  BY <1>2, PrintedRow DEF NewRow
<1> HIDE DEF m, r
<1>7. \A k \in 1 .. dii : r.decimal[k] = dumped[RowAt(m) + k]
  <2> SUFFICES ASSUME NEW k \in 1 .. dii PROVE r.decimal[k] = dumped[RowAt(m) + k]
    OBVIOUS
  <2>1. k - 1 \in 0 .. dii - 1
    BY <1>2
  <2>2. rowCounter \in Nat /\ rowCounter + (k - 1) + 1 = RowAt(m) + k
    BY <1>1, <1>2 DEF m, DTypeOK
  <2>3. buf[k - 1] = dumped[rowCounter + (k - 1) + 1]
    BY <1>1, <2>1 DEF Filling
  <2> QED BY <1>6, <2>2, <2>3
<1>8. Rest(rows'[m + 1], dumped', m, dii')
  BY <1>1, <1>3, <1>4, <1>5, <1>7 DEF Rest
<1>9. ASSUME NEW n \in 1 .. m PROVE Whole(rows', dumped', n)
  <2>1. Whole(rows, dumped, n)
    BY <1>1 DEF Filling, m
  <2>2. rows'[n] = rows[n]
    BY <1>3
  <2> QED BY <1>1, <2>1, <2>2 DEF Whole
<1>10. Len(rows') - 1 = m /\ Len(rows') = m + 1 /\ Len(rows') > 0
  BY <1>3
<1>11. DTypeOK'
  BY <1>1, <1>3 DEF DTypeOK
<1>12. Ended'
  <2>1. footer' = dpos' /\ rowCounter' = RowAt(m)
    BY <1>1, <1>2 DEF m
  <2>2. \A n \in 1 .. Len(rows') - 1 : Whole(rows', dumped', n)
    BY <1>9, <1>10
  <2>3. Rest(rows'[Len(rows')], dumped', Len(rows') - 1, dii')
    BY <1>8, <1>10
  <2> QED BY <1>10, <2>1, <2>2, <2>3 DEF Ended
<1> QED BY <1>1, <1>11, <1>12 DEF DumpInv

LEMMA OpenDump ==
    ASSUME DumpInv, Open
    PROVE  DumpInv'
<1>1. /\ DTypeOK /\ Filling /\ rows = << >> /\ dpos = 0 /\ dpc' = "read" /\ dumped' \in Files
      /\ UNCHANGED <<dpos, buf, dii, rowCounter, rows, footer, dstatus>>
  BY DEF DumpInv, Open
<1>2. dumped' \in Seq(ByteValues) /\ Len(dumped') \in Nat
  BY <1>1, FilesAssumption, LenProperties
<1>3. DTypeOK'
  BY <1>1, <1>2 DEF DTypeOK
<1>4. 1 .. Len(rows) = {} /\ 0 .. dii - 1 = {}
  BY <1>1, EmptySeq DEF DTypeOK
<1>5. Filling'
  BY <1>1, <1>4 DEF Filling
<1> QED BY <1>1, <1>3, <1>5 DEF DumpInv

LEMMA RestDump ==
    ASSUME DumpInv,
           \/ OpenFails \/ Eof \/ (\E s \in {0, 1} : Close(s)) \/ UNCHANGED dvars
    PROVE  DumpInv'
<1>1. /\ UNCHANGED <<dumped, dpos, buf, dii, rowCounter, rows, footer>>
      /\ \/ dpc \in {"open", "read"} /\ dpc' \in {"exit", "last"}
         \/ dpc = "close" /\ dpc' = "exit"
         \/ dpc' = dpc
  BY DEF OpenFails, Eof, Close, dvars
<1>2. DTypeOK'
  BY <1>1 DEF DumpInv, DTypeOK
<1>3. (Filling => Filling') /\ (Ended => Ended') /\ (Filling => footer = -1)
  BY <1>1 DEF Filling, Ended
<1> QED BY <1>1, <1>2, <1>3 DEF DumpInv

LEMMA DumpInvariance == DSpec => []DumpInv
<1>1. DInit => DumpInv
  BY DumpInit
<1>2. DumpInv /\ [DNext]_dvars => DumpInv'
  BY OpenDump, FgetcDump, LastRowDump, RestDump DEF DNext
<1> QED BY <1>1, <1>2, PTL DEF DSpec

\* What the whole rows show, strung together, is the file as far as it goes.
LEMMA ShownRows ==
    ASSUME DumpInv, NEW m \in 0 .. Len(rows), \A n \in 1 .. m : Whole(rows, dumped, n),
           IsStrung(Cell, [n \in 1 .. Len(rows) |-> rows[n].decimal], Len(rows), Shown)
    PROVE  /\ Len(Shown[m]) = RowAt(m)
           /\ \A k \in 1 .. RowAt(m) : Shown[m][k] = dumped[k]
<1> DEFINE N == Len(rows)
           R == [n \in 1 .. N |-> rows[n].decimal]
           Good(n) == Len(Shown[n]) = RowAt(n) /\ \A k \in 1 .. RowAt(n) : Shown[n][k] = dumped[k]
           D == {n \in 0 .. m : ~ Good(n)}
<1>1. N \in Nat /\ m \in Nat /\ m <= N
  BY LenProperties DEF DumpInv, DTypeOK
<1>2. Shown \in [0 .. N -> Seq(Cell)] /\ Shown[0] = << >>
  BY DEF IsStrung, Strings
<1>3. \A n \in 1 .. N : Shown[n] = Shown[n - 1] \o rows[n].decimal
  BY DEF IsStrung, Strings
<1> HIDE DEF N, Good, R
<1>4. SUFFICES ASSUME D # {} PROVE FALSE
  BY <1>1 DEF Good
<1>5. D \subseteq Nat
  BY <1>1
<1>6. PICK j \in D : \A k \in D : j <= k
  BY <1>4, <1>5, LeastNatural
<1>7. j \in 0 .. m /\ ~ Good(j)
  BY <1>6
<1>8. j # 0
  <2>1. Len(Shown[0]) = 0 /\ RowAt(0) = 0 /\ 1 .. 0 = {}
    BY <1>2, RowAtIs, EmptySeq
  <2>2. Good(0)
    BY <2>1 DEF Good
  <2> QED BY <1>7, <2>2
<1>9. j - 1 \in 0 .. m /\ j \in 1 .. m /\ j - 1 \notin D
  BY <1>1, <1>6, <1>7, <1>8
<1>10. Good(j - 1)
  BY <1>9
<1>11. Whole(rows, dumped, j) /\ j \in 1 .. N /\ j - 1 \in 0 .. N /\ j - 1 \in Nat
  BY <1>1, <1>9
<1>12. RowAt(j) = RowAt(j - 1) + Row /\ RowAt(j - 1) \in Nat /\ Row \in Nat
  BY <1>11, RowAtIs, RowAssumption
<1> DEFINE s == Shown[j - 1]
           d == rows[j].decimal
<1>13. s \in Seq(Cell) /\ Len(s) = RowAt(j - 1) /\ \A k \in 1 .. RowAt(j - 1) : s[k] = dumped[k]
  BY <1>2, <1>10, <1>11 DEF Good
<1>14. d \in Seq(Cell) /\ Len(d) = Row /\ \A k \in 1 .. Row : d[k] = dumped[RowAt(j - 1) + k]
  BY <1>11 DEF Whole
<1>15. Shown[j] = s \o d
  BY <1>3, <1>11
<1> HIDE DEF s, d
<1>16. Len(s \o d) = RowAt(j)
  BY <1>12, <1>13, <1>14, ConcatProperties
<1>17. ASSUME NEW k \in 1 .. RowAt(j) PROVE (s \o d)[k] = dumped[k]
  <2>1. CASE k <= RowAt(j - 1)
    <3>1. k \in 1 .. Len(s)
      BY <1>12, <1>13, <2>1
    <3>2. (s \o d)[k] = s[k]
      BY <1>13, <1>14, <3>1, ConcatProperties
    <3> QED BY <1>13, <3>1, <3>2
  <2>2. CASE ~(k <= RowAt(j - 1))
    <3>1. /\ k - RowAt(j - 1) \in 1 .. Row /\ RowAt(j - 1) + (k - RowAt(j - 1)) = k
          /\ k \in Len(s) + 1 .. Len(s) + Len(d)
      BY <1>12, <1>13, <1>14, <2>2
    <3>2. (s \o d)[k] = d[k - Len(s)]
      BY <1>13, <1>14, <3>1, ConcatProperties
    <3>3. d[k - RowAt(j - 1)] = dumped[RowAt(j - 1) + (k - RowAt(j - 1))]
      BY <1>14, <3>1
    <3> QED BY <1>13, <3>1, <3>2, <3>3
  <2> QED BY <2>1, <2>2
<1>18. Good(j)
  BY <1>15, <1>16, <1>17 DEF Good
<1> QED BY <1>7, <1>18

LEMMA EndedReadsBack ==
    ASSUME DumpInv, Ended
    PROVE  DumpReadsBack
<1> DEFINE N == Len(rows)
           m == N - 1
           r == rows[N]
           R == [n \in 1 .. N |-> rows[n].decimal]
<1>1. /\ DTypeOK /\ rows \in Seq(RowRecord) /\ N \in Nat /\ N > 0 /\ m \in 0 .. N /\ m \in Nat
      /\ N \in 1 .. N /\ m + 1 = N
  BY LenProperties DEF DumpInv, DTypeOK, Ended
<1>2. \A n \in 1 .. N : rows[n] \in RowRecord
  BY <1>1, ElementOfSeq
<1>3. \A n \in 1 .. N : rows[n].decimal \in Seq(Cell)
  BY <1>2 DEF RowRecord
<1>4. IsStrung(Cell, R, N, Shown)
  BY <1>1, <1>3, ShownIs
<1>5. Shown \in [0 .. N -> Seq(Cell)] /\ Shown[0] = << >>
  BY <1>4 DEF IsStrung, Strings
<1>6. Shown[N] = Shown[m] \o r.decimal
  BY <1>1, <1>4 DEF IsStrung, Strings
<1>7. \A n \in 1 .. m : Whole(rows, dumped, n)
  BY DEF Ended
<1>8. \A j \in 0 .. m : Len(Shown[j]) = RowAt(j) /\ \A k \in 1 .. RowAt(j) : Shown[j][k] = dumped[k]
  <2> SUFFICES ASSUME NEW j \in 0 .. m
               PROVE  Len(Shown[j]) = RowAt(j) /\ \A k \in 1 .. RowAt(j) : Shown[j][k] = dumped[k]
    OBVIOUS
  <2>1. j \in 0 .. Len(rows) /\ \A n \in 1 .. j : Whole(rows, dumped, n)
    BY <1>1, <1>7
  <2> QED BY <1>4, <2>1, ShownRows
<1>9. Rest(r, dumped, m, dii) /\ footer = dpos /\ dpos = RowAt(m) + dii /\ dii \in Nat
  BY <1>1, RowAssumption DEF Ended, DTypeOK
<1>10. /\ dumped \in Seq(ByteValues) /\ dpos \in 0 .. Len(dumped) /\ Len(dumped) \in Nat
       /\ RowAt(m) \in Nat
  BY <1>1, LenProperties, RowAtIs DEF DTypeOK
<1> DEFINE s == Shown[m]
           d == r.decimal
<1>11. s \in Seq(Cell) /\ Len(s) = RowAt(m) /\ \A k \in 1 .. RowAt(m) : s[k] = dumped[k]
  <2>1. m \in 0 .. m
    BY <1>1
  <2>2. s \in Seq(Cell)
    BY <1>1, <1>5
  <2> QED BY <1>8, <2>1, <2>2
<1>12. d \in Seq(Cell) /\ dii <= Len(d) /\ Len(d) \in Nat /\ \A k \in 1 .. dii : d[k] = dumped[RowAt(m) + k]
  BY <1>9, LenProperties DEF Rest
<1> HIDE DEF s, d, r
<1>13. s \o d \in Seq(Cell) /\ Len(s \o d) = RowAt(m) + Len(d)
  BY <1>11, <1>12, ConcatProperties
<1>14. footer <= Len(s \o d)
  BY <1>9, <1>12, <1>13, <1>10
<1>15. ASSUME NEW k \in 1 .. dpos PROVE (s \o d)[k] = dumped[k]
  <2>1. CASE k <= RowAt(m)
    <3>1. k \in 1 .. Len(s)
      BY <1>10, <1>11, <2>1
    <3>2. (s \o d)[k] = s[k]
      BY <1>11, <1>12, <3>1, ConcatProperties
    <3> QED BY <1>11, <3>1, <3>2
  <2>2. CASE ~(k <= RowAt(m))
    <3>1. /\ k - RowAt(m) \in 1 .. dii /\ RowAt(m) + (k - RowAt(m)) = k
          /\ k \in Len(s) + 1 .. Len(s) + Len(d)
      BY <1>9, <1>10, <1>11, <1>12, <2>2
    <3>2. (s \o d)[k] = d[k - Len(s)]
      BY <1>11, <1>12, <3>1, ConcatProperties
    <3>3. d[k - RowAt(m)] = dumped[RowAt(m) + (k - RowAt(m))]
      BY <1>12, <3>1
    <3> QED BY <1>11, <3>1, <3>2, <3>3
  <2> QED BY <2>1, <2>2
<1>16. SubSeq(s \o d, 1, footer) = SubSeq(dumped, 1, dpos)
  <2> DEFINE c == s \o d
  <2>1. c \in Seq(Cell) /\ dpos <= Len(c) /\ footer = dpos /\ dpos \in Nat /\ Len(c) \in Nat
    BY <1>9, <1>10, <1>13, <1>14, LenProperties
  <2>2. \A k \in 1 .. dpos : c[k] = dumped[k]
    BY <1>15
  <2> HIDE DEF c
  <2>3. SubSeq(c, 1, dpos) = [k \in 1 .. dpos |-> c[k]]
    BY <2>1, SMTT(30) DEF SubSeq
  <2>4. SubSeq(dumped, 1, dpos) = [k \in 1 .. dpos |-> dumped[k]]
    BY <1>10, <2>1, SMTT(30) DEF SubSeq
  <2> QED BY <2>1, <2>2, <2>3, <2>4 DEF c
<1>17. ASSUME NEW n \in 1 .. N
       PROVE  rows[n].offset = Len(Shown[n - 1]) /\ rows[n].readable = rows[n].decimal
  <2>1. n - 1 \in 0 .. m
    BY <1>1
  <2>2. Len(Shown[n - 1]) = RowAt(n - 1)
    BY <1>8, <2>1
  <2>3. CASE n = N
    BY <1>9, <2>2, <2>3 DEF Rest, r
  <2>4. CASE n # N
    <3>1. n \in 1 .. m
      <4> HIDE DEF N
      <4> QED BY <1>1, <2>4
    <3> QED BY <1>7, <2>2, <3>1 DEF Whole
  <2> QED BY <2>3, <2>4
<1>18. Shown[N] = s \o d
  BY <1>6 DEF s, d
<1> HIDE DEF m, R
<1> QED BY <1>9, <1>14, <1>16, <1>17, <1>18 DEF DumpReadsBack

\* decdump shows what it has read, for any length of a row and any file:
\* every row is the row of the file at its offset on both sides, and the size
\* at the end is how much of the last one counts.
THEOREM DumpedWhole == DSpec => []DumpReadsBack
<1>1. DumpInv => DumpReadsBack
  <2>1. CASE footer = -1
    BY <2>1 DEF DumpReadsBack
  <2>2. CASE footer # -1
    BY <2>2, EndedReadsBack DEF DumpInv, Filling, DTypeOK
  <2> QED BY <2>1, <2>2
<1> QED BY <1>1, DumpInvariance, PTL

----------------------------------------------------------------------
\* The places of s \o t.
LEMMA ConcatLeft ==
    ASSUME NEW S, NEW s \in Seq(S), NEW t \in Seq(S), NEW i \in 1 .. Len(s)
    PROVE  (s \o t)[i] = s[i]
<1>1. Len(s) \in Nat /\ Len(t) \in Nat
  BY LenProperties
<1>2. i \in 1 .. Len(s) + Len(t)
  BY <1>1
<1> QED BY <1>1, <1>2, ConcatProperties

LEMMA ConcatRight ==
    ASSUME NEW S, NEW s \in Seq(S), NEW t \in Seq(S), NEW i \in 1 .. Len(t)
    PROVE  (s \o t)[Len(s) + i] = t[i]
<1>1. Len(s) \in Nat /\ Len(t) \in Nat
  BY LenProperties
<1>2. Len(s) + i \in 1 .. Len(s) + Len(t) /\ ~(Len(s) + i <= Len(s)) /\ Len(s) + i - Len(s) = i
  BY <1>1
<1> QED BY <1>1, <1>2, ConcatProperties

\* The places of the part of s between m and n.
LEMMA PartOfSeq ==
    ASSUME NEW S, NEW s \in Seq(S), NEW m \in Nat, NEW n \in Nat, m + n <= Len(s)
    PROVE  LET c == SubSeq(s, m + 1, m + n)
           IN  c \in Seq(S) /\ Len(c) = n /\ \A i \in 1 .. n : c[i] = s[m + i]
<1>1. /\ Len(s) \in Nat /\ m + 1 \in Int /\ m + n \in Int /\ m + n - (m + 1) + 1 = n
  BY LenProperties
<1>2. \A i \in m + 1 .. m + n : i \in 1 .. Len(s) /\ s[i] \in S
  BY <1>1, ElementOfSeq
<1> DEFINE a == m + 1
           b == m + n
           c == SubSeq(s, a, b)
<1>3. a \in Int /\ b \in Int /\ \A i \in a .. b : s[i] \in S
  BY <1>1, <1>2
<1>4. c = [i \in 1 .. n |-> s[m + i]]
  <2>1. c = [i \in 1 .. (1 + b - a) |-> s[i + a - 1]]
    <3> HIDE DEF a, b
    <3> QED BY <1>3 DEF SubSeq
  <2>2. 1 + b - a = n /\ \A i \in 1 .. n : i + a - 1 = m + i
    BY <1>1
  <2> QED BY <2>1, <2>2
<1>5. \A i \in 1 .. n : m + i \in m + 1 .. m + n
  OBVIOUS
<1> HIDE DEF c
<1>6. c \in [1 .. n -> S]
  BY <1>2, <1>4, <1>5
<1>7. c \in Seq(S)
  BY <1>6, SeqDef
<1>8. Len(c) = n
  BY <1>6, <1>7, LenProperties
<1> QED BY <1>4, <1>7, <1>8 DEF c

\* The sequences of R strung together are what FlattenSeq makes of them.
LEMMA FlattenIs ==
    ASSUME NEW A, NEW R, R \in Seq(Seq(A)), NEW B, IsStrung(A, R, Len(R), B)
    PROVE  FlattenSeq(R) = B[Len(R)]
<1> DEFINE N == Len(R)
           Step(g, n) == IF n = 1 THEN R[n] ELSE g[n - 1] \o R[n]
           Eq(g) == g = [n \in 1 .. N |-> Step(g, n)]
           flat == CHOOSE g : Eq(g)
           h == [n \in 1 .. N |-> B[n]]
<1>1. N \in Nat /\ \A n \in 1 .. N : R[n] \in Seq(A)
  BY LenProperties, ElementOfSeq
<1>2. B \in [0 .. N -> Seq(A)] /\ B[0] = << >>
  BY DEF IsStrung, Strings
<1>3. \A n \in 1 .. N : B[n] = B[n - 1] \o R[n]
  BY DEF IsStrung, Strings
<1>4. CASE N = 0
  <2>1. R = << >>
    BY <1>4, EmptySeq
  <2>2. FlattenSeq(R) = R
    BY <1>4 DEF FlattenSeq
  <2> QED BY <1>2, <1>4, <2>1, <2>2
<1>5. CASE N # 0
  <2>1. FlattenSeq(R) = flat[N]
    BY <1>5, Zenon DEF FlattenSeq
  <2> HIDE DEF N
  <2>2. ASSUME NEW n \in 1 .. N PROVE h[n] = Step(h, n)
    <3>1. h[n] = B[n - 1] \o R[n]
      BY <1>3
    <3>2. CASE n = 1
      <4>1. R[n] \in Seq(A) /\ n - 1 = 0
        BY <1>1, <3>2
      <4>2. << >> \o R[n] = R[n]
        BY <4>1, ConcatEmptySeq
      <4> QED BY <1>2, <3>1, <3>2, <4>1, <4>2
    <3>3. CASE n # 1
      <4>1. n - 1 \in 1 .. N
        BY <1>1, <3>3
      <4>2. h[n - 1] = B[n - 1]
        BY <4>1
      <4> HIDE DEF h
      <4> QED BY <3>1, <3>3, <4>2
    <3> QED BY <3>2, <3>3
  <2>3. Eq(h)
    <3>1. h = [n \in 1 .. N |-> h[n]]
      OBVIOUS
    <3> HIDE DEF h, Step
    <3> QED BY <2>2, <3>1
  <2>4. Eq(flat)
    <3> HIDE DEF Eq
    <3> QED BY <2>3
  <2> HIDE DEF flat
  <2>5. \A n \in 1 .. N : flat[n] = Step(flat, n)
    <3> HIDE DEF Step
    <3> QED BY <2>4
  <2> DEFINE g == [n \in 0 .. N |-> IF n = 0 THEN << >> ELSE flat[n]]
  <2>6. g[0] = << >> /\ \A n \in 1 .. N : g[n] = flat[n]
    BY <1>1
  <2> HIDE DEF g
  <2>7. ASSUME NEW n \in 1 .. N PROVE g[n] = g[n - 1] \o R[n]
    <3>1. CASE n = 1
      <4>1. R[n] \in Seq(A) /\ n - 1 = 0
        BY <1>1, <3>1
      <4>2. << >> \o R[n] = R[n]
        BY <4>1, ConcatEmptySeq
      <4>3. flat[n] = R[n]
        BY <2>5, <3>1
      <4> QED BY <2>6, <4>1, <4>2, <4>3
    <3>2. CASE n # 1
      <4>1. n - 1 \in 1 .. N
        BY <1>1, <3>2
      <4>2. flat[n] = flat[n - 1] \o R[n]
        BY <2>5, <3>2
      <4> QED BY <2>6, <4>1, <4>2
    <3> QED BY <3>1, <3>2
  <2>8. Strings(R, N, g)
    BY <2>6, <2>7 DEF Strings
  <2>9. Strings(R, N, B)
    BY DEF IsStrung, N
  <2>10. N \in 0 .. N /\ N \in 1 .. N
    BY <1>1, <1>5
  <2>11. g[N] = B[N]
    BY <1>1, <2>8, <2>9, <2>10, StrungOnly
  <2>12. g[N] = flat[N]
    BY <2>6, <2>10
  <2> QED BY <2>1, <2>11, <2>12 DEF N
<1> QED BY <1>4, <1>5

\* What is in a file of records.
Item == Ids \union Nat \union Chars \union (Ids \X Seq(Chars))

\* Record and FileOf for either program, the first n records of a file behind
\* their number, and what a file is that may have been cut.
RecordOf(s, p) == IF s THEN <<p.id, Len(p.value)>> \o p.value ELSE << <<p.id, p.value>> >>
Records(s, ps) == [n \in 1 .. Len(ps) |-> RecordOf(s, ps[n])]
Bodies(s, ps) == CHOOSE B : IsStrung(Item, Records(s, ps), Len(ps), B)
Part(s, ps, n) == <<Len(ps)>> \o Bodies(s, ps)[n]
Beginning(f, w) ==
    f \in Seq(Item) /\ Len(f) <= Len(w) /\ \A k \in 1 .. Len(f) : f[k] = w[k]

LEMMA RecordIs ==
    ASSUME NEW s \in BOOLEAN, NEW p \in Product
    PROVE  RecordOf(s, p) \in Seq(Item)
<1>1. p.id \in Ids /\ p.value \in Seq(Chars) /\ Len(p.value) \in Nat
  BY LenProperties DEF Product
<1>2. CASE s
  <2>1. <<p.id, Len(p.value)>> \in Seq(Item)
    BY <1>1 DEF Item
  <2>2. p.value \in Seq(Item)
    BY <1>1, SeqMonotonic DEF Item
  <2> QED BY <1>2, <2>1, <2>2, ConcatProperties DEF RecordOf
<1>3. CASE ~s
  <2>1. <<p.id, p.value>> \in Item
    BY <1>1 DEF Item
  <2> QED BY <1>3, <2>1 DEF RecordOf
<1> QED BY <1>2, <1>3

LEMMA BodiesAre ==
    ASSUME NEW s \in BOOLEAN, NEW ps \in Seq(Product)
    PROVE  IsStrung(Item, Records(s, ps), Len(ps), Bodies(s, ps))
<1> DEFINE R == Records(s, ps)
           N == Len(ps)
<1>1. N \in Nat /\ \A n \in 1 .. N : ps[n] \in Product
  BY LenProperties, ElementOfSeq
<1>2. \A n \in 1 .. N : R[n] \in Seq(Item)
  BY <1>1, RecordIs DEF Records
<1> HIDE DEF R, N
<1>3. \E B : IsStrung(Item, R, N, B)
  BY <1>1, <1>2, StrungExists
<1> QED BY <1>3 DEF Bodies, R, N

LEMMA PartIs ==
    ASSUME NEW s \in BOOLEAN, NEW ps \in Seq(Product), NEW n \in 0 .. Len(ps)
    PROVE  /\ Part(s, ps, n) \in Seq(Item)
           /\ Len(Part(s, ps, n)) \in Nat /\ Len(Part(s, ps, n)) > 0
           /\ Part(s, ps, n)[1] = Len(ps)
           /\ Part(s, ps, 0) = <<Len(ps)>>
<1> DEFINE b == Bodies(s, ps)[n]
           h == <<Len(ps)>>
<1>1. Bodies(s, ps) \in [0 .. Len(ps) -> Seq(Item)] /\ Bodies(s, ps)[0] = << >> /\ Len(ps) \in Nat
  BY BodiesAre, LenProperties DEF IsStrung, Strings
<1>2. b \in Seq(Item) /\ h \in Seq(Item) /\ Len(h) = 1 /\ h[1] = Len(ps)
  BY <1>1 DEF Item
<1>3. Len(b) \in Nat
  BY <1>2, LenProperties
<1>4. Part(s, ps, 0) = <<Len(ps)>>
  BY <1>1, <1>2, ConcatEmptySeq DEF Part
<1> HIDE DEF b, h
<1>5. h \o b \in Seq(Item) /\ Len(h \o b) = 1 + Len(b)
  <2>1. h \o b \in Seq(Item) /\ Len(h \o b) = Len(h) + Len(b)
    BY <1>2, ConcatProperties
  <2> QED BY <1>2, <2>1
<1>6. (h \o b)[1] = h[1]
  BY <1>2, <1>3, ConcatProperties
<1> QED BY <1>2, <1>3, <1>4, <1>5, <1>6 DEF Part, b, h

\* The file with one more record.
LEMMA PartNext ==
    ASSUME NEW s \in BOOLEAN, NEW ps \in Seq(Product), NEW n \in 1 .. Len(ps)
    PROVE  /\ Part(s, ps, n) = Part(s, ps, n - 1) \o RecordOf(s, ps[n])
           /\ RecordOf(s, ps[n]) \in Seq(Item)
<1> DEFINE r == RecordOf(s, ps[n])
           b == Bodies(s, ps)[n - 1]
           h == <<Len(ps)>>
<1>1. /\ Bodies(s, ps) \in [0 .. Len(ps) -> Seq(Item)]
      /\ Bodies(s, ps)[n] = b \o Records(s, ps)[n]
  BY BodiesAre DEF IsStrung, Strings
<1>2. Len(ps) \in Nat /\ ps[n] \in Product
  BY LenProperties, ElementOfSeq
<1>3. r \in Seq(Item)
  BY <1>2, RecordIs
<1>4. Records(s, ps)[n] = r
  BY DEF Records
<1>5. b \in Seq(Item) /\ h \in Seq(Item)
  <2>1. n - 1 \in 0 .. Len(ps)
    BY <1>2
  <2> QED BY <1>1, <1>2, <2>1 DEF Item
<1> HIDE DEF r, b, h
<1>6. h \o (b \o r) = (h \o b) \o r
  BY <1>3, <1>5, ConcatAssociative, SMTT(30)
<1> QED BY <1>1, <1>3, <1>4, <1>6 DEF Part, r, b, h

\* What has been written stays as it is when more is.
LEMMA PartStays ==
    ASSUME NEW s \in BOOLEAN, NEW ps \in Seq(Product), NEW n \in 0 .. Len(ps)
    PROVE  Beginning(Part(s, ps, n), Part(s, ps, Len(ps)))
<1> DEFINE P(j) == Part(s, ps, j)
           D == {d \in 0 .. Len(ps) - n : ~Beginning(P(Len(ps) - d), P(Len(ps)))}
<1>1. Len(ps) \in Nat /\ n \in Nat /\ n <= Len(ps)
  BY LenProperties
<1>2. \A j \in 0 .. Len(ps) : P(j) \in Seq(Item) /\ Len(P(j)) \in Nat
  BY PartIs
<1> HIDE DEF P
<1>3. SUFFICES ASSUME D # {} PROVE FALSE
  <2>1. Len(ps) - n \in 0 .. Len(ps) - n /\ Len(ps) - (Len(ps) - n) = n
    BY <1>1
  <2> QED BY <2>1 DEF P
<1>4. D \subseteq Nat
  BY <1>1
<1>5. PICK d \in D : \A k \in D : d <= k
  BY <1>3, <1>4, LeastNatural
<1> DEFINE j == Len(ps) - d
<1>6. d \in 0 .. Len(ps) - n /\ ~Beginning(P(j), P(Len(ps)))
  BY <1>5
<1>7. d # 0
  <2>1. Beginning(P(Len(ps)), P(Len(ps)))
    BY <1>1, <1>2 DEF Beginning
  <2>2. d = 0 => j = Len(ps)
    BY <1>1
  <2> QED BY <1>6, <2>1, <2>2
<1>8. /\ d - 1 \in 0 .. Len(ps) - n /\ d - 1 \notin D /\ Len(ps) - (d - 1) = j + 1
      /\ j + 1 \in 1 .. Len(ps) /\ j \in 0 .. Len(ps) /\ j + 1 - 1 = j
  BY <1>1, <1>5, <1>6, <1>7
<1> HIDE DEF j
<1>9. Beginning(P(j + 1), P(Len(ps)))
  BY <1>8
<1>10. P(j + 1) = P(j) \o RecordOf(s, ps[j + 1]) /\ RecordOf(s, ps[j + 1]) \in Seq(Item)
  <2> DEFINE i == j + 1
  <2>1. i \in 1 .. Len(ps) /\ i - 1 = j
    BY <1>8
  <2> HIDE DEF i
  <2>2. Part(s, ps, i) = Part(s, ps, i - 1) \o RecordOf(s, ps[i]) /\ RecordOf(s, ps[i]) \in Seq(Item)
    BY <2>1, PartNext
  <2> QED BY <2>1, <2>2 DEF P, i
<1> DEFINE a == P(j)
           r == RecordOf(s, ps[j + 1])
<1>11. a \in Seq(Item) /\ r \in Seq(Item) /\ Len(a) \in Nat /\ Len(r) \in Nat
  BY <1>2, <1>8, <1>10, LenProperties
<1> HIDE DEF a, r
<1>12. Len(a \o r) = Len(a) + Len(r)
  BY <1>11, ConcatProperties
<1>13. \A k \in 1 .. Len(a) : (a \o r)[k] = a[k]
  BY <1>11, ConcatProperties
<1>14. Beginning(a \o r, P(Len(ps)))
  BY <1>9, <1>10 DEF a, r
<1>15. Len(P(Len(ps))) \in Nat
  BY <1>1, <1>2
<1>16. Beginning(a, P(Len(ps)))
  <2> DEFINE w == P(Len(ps))
  <2>1. Len(w) \in Nat /\ Len(a) + Len(r) <= Len(w)
    BY <1>12, <1>14, <1>15 DEF Beginning
  <2>2. \A k \in 1 .. Len(a) + Len(r) : (a \o r)[k] = w[k]
    BY <1>12, <1>14 DEF Beginning
  <2> HIDE DEF w
  <2>3. \A k \in 1 .. Len(a) : k \in 1 .. Len(a) + Len(r) /\ a[k] = w[k]
    BY <1>11, <1>13, <2>2
  <2>4. Len(a) <= Len(w)
    BY <1>11, <2>1
  <2>5. Beginning(a, w)
    BY <1>11, <2>3, <2>4 DEF Beginning
  <2> QED BY <2>5 DEF w
<1> QED BY <1>6, <1>16 DEF a

\* The record behind the first n is that of the next product.
LEMMA RecordStays ==
    ASSUME NEW s \in BOOLEAN, NEW ps \in Seq(Product), NEW n \in 1 .. Len(ps)
    PROVE  LET at == Len(Part(s, ps, n - 1))
               r == RecordOf(s, ps[n])
               w == Part(s, ps, Len(ps))
           IN  /\ at \in Nat /\ Len(r) \in Nat /\ Len(Part(s, ps, n)) = at + Len(r)
               /\ at + Len(r) <= Len(w) /\ \A k \in 1 .. Len(r) : w[at + k] = r[k]
<1> DEFINE a == Part(s, ps, n - 1)
           r == RecordOf(s, ps[n])
           w == Part(s, ps, Len(ps))
<1>1. Len(ps) \in Nat /\ n \in 0 .. Len(ps) /\ n - 1 \in 0 .. Len(ps)
  BY LenProperties
<1>2. a \in Seq(Item) /\ Len(a) \in Nat
  BY <1>1, PartIs
<1>3. r \in Seq(Item) /\ Len(r) \in Nat /\ Part(s, ps, n) = a \o r
  BY PartNext, LenProperties
<1>4. Beginning(Part(s, ps, n), w)
  BY <1>1, PartStays
<1> HIDE DEF a, r, w
<1>5. Len(a \o r) = Len(a) + Len(r)
  BY <1>2, <1>3, ConcatProperties
<1>6. ASSUME NEW k \in 1 .. Len(r) PROVE w[Len(a) + k] = r[k]
  <2>1. /\ Len(a) + k \in 1 .. Len(a) + Len(r) /\ ~(Len(a) + k <= Len(a))
        /\ Len(a) + k - Len(a) = k
    BY <1>2, <1>3
  <2>2. (a \o r)[Len(a) + k] = r[k]
    BY <1>2, <1>3, <2>1, ConcatProperties
  <2>3. w[Len(a) + k] = (a \o r)[Len(a) + k]
    BY <1>3, <1>4, <1>5, <2>1 DEF Beginning
  <2> QED BY <2>2, <2>3
<1>7. Len(a) + Len(r) <= Len(w)
  BY <1>3, <1>4, <1>5 DEF Beginning
<1> QED BY <1>2, <1>3, <1>5, <1>6, <1>7 DEF a, r, w

\* FileOf is the file of all records.
LEMMA FileIs ==
    ASSUME sds \in BOOLEAN, products \in Seq(Product)
    PROVE  FileOf(products) = Part(sds, products, Len(products))
<1> DEFINE R == Records(sds, products)
           N == Len(products)
<1>1. N \in Nat /\ \A n \in 1 .. N : products[n] \in Product
  BY LenProperties, ElementOfSeq
<1>2. \A n \in 1 .. N : R[n] \in Seq(Item)
  BY <1>1, RecordIs DEF Records
<1>3. R = [n \in 1 .. N |-> R[n]]
  BY DEF Records
<1>4. R = [n \in 1 .. N |-> Record(products[n])]
  BY DEF Records, RecordOf, Record
<1> HIDE DEF R
<1>5. R \in Seq(Seq(Item)) /\ Len(R) = N
  <2> HIDE DEF N
  <2>1. R \in [1 .. N -> Seq(Item)]
    BY <1>2, <1>3
  <2>2. R \in Seq(Seq(Item))
    BY <1>1, <2>1, SeqDef
  <2> QED BY <1>1, <2>1, <2>2, LenProperties
<1>6. IsStrung(Item, R, Len(R), Bodies(sds, products))
  BY <1>5, BodiesAre DEF R
<1>7. FlattenSeq(R) = Bodies(sds, products)[Len(R)]
  BY <1>5, <1>6, FlattenIs
<1> QED BY <1>4, <1>5, <1>7 DEF FileOf, Part

----------------------------------------------------------------------
\* The places in main after the products have been written, or not, and the
\* ones where it may be reading them.
Late == {"text", "written", "open", "rcount", "items", "print", "printed", "exit"}
Second == {"open", "rcount", "items", "print", "printed"}
Meant == Part(sds, products, Len(products))

RTypeOK ==
    /\ rpc \in {"start", "write", "records", "crashed"} \union Late
    /\ sds \in BOOLEAN /\ products \in Seq(Product) /\ res \in BOOLEAN /\ cut \in BOOLEAN

\* The file is the beginning of what was meant, and all of it if nobody has
\* cut it, ...
FileKept ==
    /\ file = Absent \/ Beginning(file, Meant)
    /\ ~cut => file = Meant
Written ==
    /\ rpc \in {"start", "write"} => rii = 0
    /\ rpc = "records" => rii \in 0 .. Len(products) /\ file = Part(sds, products, rii)
    /\ rpc \in Late /\ res => FileKept

\* ... the products read are the first ones, and the next one is where the
\* reading goes on, ...
ReadSoFar ==
    /\ file # Absent /\ rcount = Len(products)
    /\ read \in Seq(Product) /\ Len(read) <= Len(products)
    /\ \A n \in 1 .. Len(read) : read[n] = products[n]
    /\ rpos = Len(Part(sds, products, Len(read))) /\ rpos <= Len(file)

\* ... and main gets all of them or none.
RecordInv ==
    /\ RTypeOK /\ Written
    /\ rpc \in Second => res
    /\ rpc \in {"open", "rcount"} => rtotal = 0 /\ result = Absent
    /\ rpc = "rcount" => read = << >> /\ file # Absent
    /\ rpc = "items" => ReadSoFar /\ result = Absent /\ (sds => rtotal = 0)
    /\ rpc = "print" => \/ result = products /\ rtotal = Len(products)
                        \/ result = Absent /\ (sds => rtotal = 0)

\* A product that is all there is read as it was written.
LEMMA ProductStays ==
    ASSUME sds \in BOOLEAN, products \in Seq(Product), NEW n \in 1 .. Len(products),
           Beginning(file, Meant), Complete(Len(Part(sds, products, n - 1)))
    PROVE  LET at == Len(Part(sds, products, n - 1))
           IN  /\ ProductAt(at) = products[n]
               /\ at + Size(at) = Len(Part(sds, products, n))
               /\ at + Size(at) <= Len(file)
<1> DEFINE at == Len(Part(sds, products, n - 1))
           r == RecordOf(sds, products[n])
           p == products[n]
<1>1. /\ at \in Nat /\ Len(r) \in Nat /\ Len(Part(sds, products, n)) = at + Len(r)
      /\ at + Len(r) <= Len(Meant) /\ \A k \in 1 .. Len(r) : Meant[at + k] = r[k]
  BY RecordStays DEF Meant
<1>2. p \in Product
  BY ElementOfSeq
<1>3. p.id \in Ids /\ p.value \in Seq(Chars) /\ Len(p.value) \in Nat /\ p = [id |-> p.id, value |-> p.value]
  BY <1>2, LenProperties DEF Product
<1>4. file \in Seq(Item) /\ Len(file) \in Nat /\ Len(file) <= Len(Meant)
  BY LenProperties DEF Beginning
<1>5. Complete(at)
  OBVIOUS
<1> HIDE DEF at, p, r
<1>6. \A k \in 1 .. Len(r) : at + k <= Len(file) => file[at + k] = r[k]
  <2> SUFFICES ASSUME NEW k \in 1 .. Len(r), at + k <= Len(file) PROVE file[at + k] = r[k]
    OBVIOUS
  <2>1. at + k \in 1 .. Len(file)
    BY <1>1, <1>4
  <2> QED BY <1>1, <2>1 DEF Beginning
<1>7. CASE sds
  <2> DEFINE v == p.value
             h == <<p.id, Len(v)>>
  <2>1. r = h \o v
    BY <1>7 DEF r, p, RecordOf
  <2>2. h \in Seq(Item) /\ Len(h) = 2 /\ h[1] = p.id /\ h[2] = Len(v)
    BY <1>3 DEF Item
  <2>3. v \in Seq(Item) /\ Len(v) \in Nat
    BY <1>3, SeqMonotonic DEF Item
  <2> HIDE DEF v, h
  <2>4. Len(r) = Len(h) + Len(v)
    BY <2>1, <2>2, <2>3, ConcatProperties
  <2>5. r[1] = h[1] /\ r[2] = h[2]
    <3>1. 1 \in 1 .. Len(h) /\ 2 \in 1 .. Len(h)
      BY <2>2
    <3>2. (h \o v)[1] = h[1] /\ (h \o v)[2] = h[2]
      BY <2>2, <2>3, <3>1, ConcatLeft
    <3> QED BY <2>1, <3>2
  <2>6. ASSUME NEW k \in 1 .. Len(v) PROVE r[k + 2] = v[k]
    <3>1. (h \o v)[Len(h) + k] = v[k]
      <4>1. h \in Seq(Item) /\ v \in Seq(Item)
        BY <2>2, <2>3
      <4> QED BY <4>1, ConcatRight
    <3>2. Len(h) + k = k + 2
      BY <2>2
    <3> QED BY <2>1, <3>1, <3>2
  <2>7. at + 2 <= Len(file) /\ at + Size(at) <= Len(file)
    BY <1>5, <1>7 DEF Complete
  <2>8. file[at + 1] = p.id /\ file[at + 2] = Len(v)
    <3>1. 1 \in 1 .. Len(r) /\ 2 \in 1 .. Len(r) /\ at + 1 <= Len(file)
      BY <1>1, <1>4, <2>2, <2>3, <2>4, <2>7
    <3> QED BY <1>6, <2>2, <2>5, <2>7, <3>1
  <2>9. Size(at) = 2 + Len(v)
    BY <1>7, <2>8 DEF Size
  <2>10. ASSUME NEW k \in 1 .. Len(v) PROVE file[at + 2 + k] = v[k]
    <3>1. k + 2 \in 1 .. Len(r) /\ at + (k + 2) <= Len(file) /\ at + (k + 2) = at + 2 + k
      <4>1. Len(r) = 2 + Len(v) /\ Len(v) \in Nat /\ at \in Nat /\ Len(file) \in Nat
        BY <1>1, <1>4, <2>2, <2>3, <2>4
      <4>2. at + (2 + Len(v)) <= Len(file)
        BY <2>7, <2>9
      <4> QED BY <4>1, <4>2
    <3> QED BY <1>6, <2>6, <3>1
  <2>11. SubSeq(file, at + 3, at + Size(at)) = v
    <3>1. at + 2 \in Nat /\ at + 2 + Len(v) <= Len(file)
      BY <1>1, <2>3, <2>7, <2>9
    <3> DEFINE m == at + 2
               z == Len(v)
               c == SubSeq(file, m + 1, m + z)
    <3>2. file \in Seq(Item) /\ m \in Nat /\ z \in Nat /\ m + z <= Len(file)
      BY <1>4, <2>3, <3>1
    <3> HIDE DEF m, z
    <3>3. c \in Seq(Item)
      BY <3>2, PartOfSeq
    <3>4. Len(c) = z
      BY <3>2, PartOfSeq
    <3>5. \A k \in 1 .. z : c[k] = file[m + k]
      BY <3>2, PartOfSeq
    <3> HIDE DEF c
    <3> USE DEF m, z
    <3>6. \A k \in 1 .. Len(c) : c[k] = v[k]
      BY <2>10, <3>4, <3>5
    <3>7. c = v
      BY <2>3, <3>3, <3>4, <3>6, SeqEqual
    <3>8. at + 3 = at + 2 + 1 /\ at + Size(at) = at + 2 + Len(v)
      <4>1. at \in Nat /\ Len(v) \in Nat
        BY <1>1, <2>3
      <4>2. at + (2 + Len(v)) = at + 2 + Len(v) /\ at + 3 = at + 2 + 1
        BY <4>1
      <4> QED BY <2>9, <4>2
    <3> QED BY <3>7, <3>8 DEF c
  <2>12. ProductAt(at) = [id |-> p.id, value |-> v]
    BY <1>7, <2>8, <2>11 DEF ProductAt
  <2>13. at + Size(at) = at + Len(r)
    BY <2>2, <2>4, <2>9
  <2> QED BY <1>1, <1>3, <2>7, <2>12, <2>13 DEF v, at, p
<1>8. CASE ~sds
  <2>1. r = << <<p.id, p.value>> >> /\ Len(r) = 1 /\ r[1] = <<p.id, p.value>>
    BY <1>8 DEF r, p, RecordOf
  <2>2. Size(at) = 1 /\ at + 1 <= Len(file)
    BY <1>5, <1>8 DEF Size, Complete
  <2>3. file[at + 1] = <<p.id, p.value>>
    BY <1>6, <2>1, <2>2
  <2>4. ProductAt(at) = [id |-> p.id, value |-> p.value]
    BY <1>8, <2>3 DEF ProductAt
  <2> QED BY <1>1, <1>3, <2>1, <2>2, <2>4 DEF at, p
<1> QED BY <1>7, <1>8

LEMMA RecordInit == RInit => RecordInv
<1> SUFFICES ASSUME RInit PROVE RecordInv
  OBVIOUS
<1>1. products \in Seq(Product)
  BY EmptySeq DEF RInit
<1> QED BY <1>1 DEF RInit, RecordInv, RTypeOK, Written, Late, Second

LEMMA StartRecord ==
    ASSUME RecordInv, Start
    PROVE  RecordInv'
BY ListsAssumption DEF Start, RecordInv, RTypeOK, Written, Late, Second

LEMMA WritingRecord ==
    ASSUME RecordInv, Writing
    PROVE  RecordInv'
<1>1. /\ rpc \in {"write", "records", "text", "written"} /\ rpc' \in {"records", "text", "written", "exit"}
      /\ UNCHANGED <<sds, products, reading, cut>> /\ res' \in BOOLEAN
  BY DEF Writing, WriteTotal, WriteProduct, CloseWritten, WriteOpenFails, WriteFails, WriteText,
         WriteTextFails, WriteError, RecordInv, RTypeOK
<1>2. RTypeOK'
  BY <1>1 DEF RecordInv, RTypeOK, Late
<1>3. Meant' = Meant
  BY <1>1 DEF Meant
<1>4. sds \in BOOLEAN /\ products \in Seq(Product) /\ Len(products) \in Nat
  BY LenProperties DEF RecordInv, RTypeOK
<1>5. Written'
  <2>1. CASE WriteTotal
    <3>1. rii = 0 /\ rii' = 0 /\ file' = <<Len(products)>> /\ rpc' = "records"
      BY <2>1 DEF WriteTotal, RecordInv, Written
    <3>2. file' = Part(sds, products, 0) /\ 0 \in 0 .. Len(products)
      BY <1>4, <3>1, PartIs
    <3> QED BY <1>1, <3>1, <3>2 DEF Written, Late
  <2>2. CASE WriteProduct
    <3>1. /\ rii \in 0 .. Len(products) /\ rii < Len(products) /\ rii' = rii + 1
          /\ file = Part(sds, products, rii) /\ file' = file \o Record(products[rii + 1])
          /\ rpc' = "records"
      BY <2>2 DEF WriteProduct, RecordInv, Written
    <3>2. rii + 1 \in 1 .. Len(products) /\ rii + 1 \in 0 .. Len(products) /\ rii + 1 - 1 = rii
      BY <1>4, <3>1
    <3>3. Part(sds, products, rii + 1) = Part(sds, products, rii) \o RecordOf(sds, products[rii + 1])
      <4> DEFINE n == rii + 1
      <4>1. n \in 1 .. Len(products) /\ n - 1 = rii
        BY <1>4, <3>1, <3>2
      <4> HIDE DEF n
      <4>2. Part(sds, products, n) = Part(sds, products, n - 1) \o RecordOf(sds, products[n])
        BY <1>4, <4>1, PartNext
      <4> QED BY <4>1, <4>2 DEF n
    <3>4. Record(products[rii + 1]) = RecordOf(sds, products[rii + 1])
      BY DEF Record, RecordOf
    <3> QED BY <1>1, <3>1, <3>2, <3>3, <3>4 DEF Written, Late
  <2>3. CASE CloseWritten
    <3>1. file' = Meant /\ rpc' = "text"
      BY <2>3 DEF CloseWritten, RecordInv, Written, Meant
    <3>2. Beginning(Meant, Meant)
      BY <1>4, PartIs DEF Beginning, Meant
    <3> QED BY <1>3, <3>1, <3>2 DEF Written, FileKept
  <2>4. CASE WriteOpenFails \/ WriteFails \/ WriteTextFails \/ WriteError
    <3>1. ~res' /\ rpc' \in {"text", "written", "exit"}
      BY <2>4 DEF WriteOpenFails, WriteFails, WriteTextFails, WriteError
    <3> QED BY <3>1 DEF Written
  <2>5. CASE WriteText
    <3>1. rpc \in Late /\ rpc' = "written" /\ res' = res /\ file' = file /\ cut' = cut
      BY <1>1, <2>5 DEF WriteText, Late
    <3>2. res => FileKept
      BY <3>1 DEF RecordInv, Written
    <3> QED BY <1>3, <3>1, <3>2 DEF Written, FileKept
  <2> QED BY <2>1, <2>2, <2>3, <2>4, <2>5 DEF Writing
<1> QED BY <1>1, <1>2, <1>5 DEF RecordInv, Second

\* What reading a file, or not, leaves alone.
LEMMA WrittenStays ==
    ASSUME RecordInv, UNCHANGED <<sds, products, file, res, rii, cut>>,
           rpc \in Late, rpc' \in Late \union {"crashed"}
    PROVE  RTypeOK' /\ Written' /\ Meant' = Meant
<1>1. RTypeOK'
  BY DEF RecordInv, RTypeOK, Late
<1>2. Meant' = Meant
  BY DEF Meant
<1>3. res => FileKept
  BY DEF RecordInv, Written
<1>4. Written'
  BY <1>2, <1>3 DEF Written, FileKept, Late
<1> QED BY <1>1, <1>2, <1>4

LEMMA ReadProductRecord ==
    ASSUME RecordInv, ReadProduct
    PROVE  RecordInv'
<1>1. /\ rpc = "items" /\ rpc' = "items" /\ Len(read) < rcount /\ Complete(rpos)
      /\ read' = Append(read, ProductAt(rpos)) /\ rpos' = rpos + Size(rpos)
      /\ UNCHANGED <<sds, products, file, res, rii, pass, rcount, result, rtotal, faults, cut>>
  BY DEF ReadProduct
<1>2. RTypeOK' /\ Written'
  BY <1>1, WrittenStays DEF Late
<1>3. /\ ReadSoFar /\ result = Absent /\ (sds => rtotal = 0) /\ res
      /\ sds \in BOOLEAN /\ products \in Seq(Product) /\ Len(products) \in Nat
  BY <1>1, LenProperties DEF RecordInv, RTypeOK, Second
<1>4. Beginning(file, Meant)
  BY <1>1, <1>3 DEF RecordInv, Written, FileKept, ReadSoFar, Late
<1> DEFINE n == Len(read) + 1
<1>5. /\ read \in Seq(Product) /\ Len(read) \in Nat /\ n \in 1 .. Len(products) /\ n - 1 = Len(read)
      /\ rpos = Len(Part(sds, products, n - 1)) /\ Complete(Len(Part(sds, products, n - 1)))
  BY <1>1, <1>3, LenProperties DEF ReadSoFar
<1> HIDE DEF n
<1>6. ProductAt(rpos) = products[n]
  BY <1>3, <1>4, <1>5, ProductStays
<1>7. rpos + Size(rpos) = Len(Part(sds, products, n))
  BY <1>3, <1>4, <1>5, ProductStays
<1>8. rpos + Size(rpos) <= Len(file)
  BY <1>3, <1>4, <1>5, ProductStays
<1>9. products[n] \in Product
  BY <1>3, <1>5, ElementOfSeq
<1>10. /\ read' \in Seq(Product) /\ Len(read') = n
       /\ \A k \in 1 .. Len(read) : read'[k] = read[k]
       /\ read'[n] = products[n]
  <2>1. read' = Append(read, products[n]) /\ n = Len(read) + 1
    BY <1>1, <1>6 DEF n
  <2> QED BY <1>5, <1>9, <2>1, AppendProperties
<1>11. \A k \in 1 .. n : read'[k] = products[k]
  <2> SUFFICES ASSUME NEW k \in 1 .. n PROVE read'[k] = products[k]
    OBVIOUS
  <2>1. CASE k = n
    BY <1>10, <2>1
  <2>2. CASE k # n
    <3>1. k \in 1 .. Len(read)
      BY <1>5, <2>2
    <3> QED BY <1>3, <1>10, <3>1 DEF ReadSoFar
  <2> QED BY <2>1, <2>2
<1>12. ReadSoFar'
  <2>1. file' # Absent /\ rcount' = Len(products') /\ Len(read') <= Len(products')
    BY <1>1, <1>3, <1>5, <1>10 DEF ReadSoFar
  <2>2. rpos' = Len(Part(sds', products', Len(read'))) /\ rpos' <= Len(file')
    BY <1>1, <1>7, <1>8, <1>10
  <2>3. \A k \in 1 .. Len(read') : read'[k] = products'[k]
    BY <1>1, <1>10, <1>11
  <2> QED BY <1>10, <2>1, <2>2, <2>3 DEF ReadSoFar
<1> QED BY <1>1, <1>2, <1>3, <1>12 DEF RecordInv

LEMMA ReadCountRecord ==
    ASSUME RecordInv, ReadCount
    PROVE  RecordInv'
<1>1. /\ rpc = "rcount" /\ rpc' = "items" /\ file # << >> /\ rcount' = file[1]
      /\ rtotal' = (IF sds THEN rtotal ELSE file[1]) /\ rpos' = 1
      /\ UNCHANGED <<sds, products, file, res, rii, pass, read, result, faults, cut>>
  BY DEF ReadCount
<1>2. RTypeOK' /\ Written'
  BY <1>1, WrittenStays DEF Late
<1>3. /\ read = << >> /\ file # Absent /\ result = Absent /\ rtotal = 0 /\ res
      /\ sds \in BOOLEAN /\ products \in Seq(Product) /\ Len(products) \in Nat
  BY <1>1, LenProperties DEF RecordInv, RTypeOK, Second
<1>4. Beginning(file, Meant)
  BY <1>1, <1>3 DEF RecordInv, Written, FileKept, Late
<1>5. Len(file) \in Nat /\ Len(file) > 0
  BY <1>1, <1>4, EmptySeq, LenProperties DEF Beginning
<1>6. file[1] = Len(products)
  <2>1. 1 \in 1 .. Len(file) /\ Len(products) \in 0 .. Len(products)
    BY <1>3, <1>5
  <2>2. Meant[1] = Len(products)
    BY <1>3, <2>1, PartIs DEF Meant
  <2> QED BY <1>4, <2>1, <2>2 DEF Beginning
<1>7. Len(Part(sds, products, 0)) = 1
  <2>1. 0 \in 0 .. Len(products)
    BY <1>3
  <2> QED BY <1>3, <2>1, PartIs
<1>8. read \in Seq(Product) /\ Len(read) = 0 /\ 1 .. 0 = {}
  BY <1>3, EmptySeq
<1>9. ReadSoFar'
  <2>1. \A k \in 1 .. Len(read') : read'[k] = products'[k]
    BY <1>1, <1>8
  <2> QED BY <1>1, <1>3, <1>5, <1>6, <1>7, <1>8, <2>1 DEF ReadSoFar
<1> QED BY <1>1, <1>2, <1>3, <1>9 DEF RecordInv

LEMMA ReadDoneRecord ==
    ASSUME RecordInv, ReadDone
    PROVE  RecordInv'
<1>1. /\ rpc = "items" /\ rpc' = "print" /\ Len(read) = rcount /\ result' = read /\ rtotal' = rcount
      /\ UNCHANGED <<sds, products, file, res, rii, pass, rpos, rcount, read, faults, cut>>
  BY DEF ReadDone
<1>2. RTypeOK' /\ Written'
  BY <1>1, WrittenStays DEF Late
<1>3. ReadSoFar /\ res /\ products \in Seq(Product)
  BY <1>1 DEF RecordInv, RTypeOK, Second
<1>4. read = products
  BY <1>1, <1>3, SeqEqual DEF ReadSoFar
<1> QED BY <1>1, <1>2, <1>3, <1>4 DEF RecordInv, ReadSoFar

LEMMA ReadingRecord ==
    ASSUME RecordInv, Reading
    PROVE  RecordInv'
<1>1. CASE ReadProducts \/ OpenRead \/ ReadShort \/ ReadFails \/ PrintProducts \/ Exit
  <2>1. /\ rpc \in Late /\ rpc' \in Late \union {"crashed"}
        /\ UNCHANGED <<sds, products, file, res, rii, cut>>
    BY <1>1 DEF ReadProducts, OpenRead, ReadShort, ReadFails, PrintProducts, Exit, Late
  <2>2. RTypeOK' /\ Written'
    BY <2>1, WrittenStays
  <2>3. CASE ReadProducts
    BY <2>2, <2>3 DEF ReadProducts, RecordInv, Second
  <2>4. CASE OpenRead
    BY <2>2, <2>4 DEF OpenRead, RecordInv, Second
  <2>5. CASE ReadShort \/ ReadFails
    BY <2>2, <2>5 DEF ReadShort, ReadFails, RecordInv, Second, reading
  <2>6. CASE PrintProducts \/ Exit
    BY <2>2, <2>6 DEF PrintProducts, Exit, RecordInv, Second, reading
  <2> QED BY <1>1, <2>3, <2>4, <2>5, <2>6
<1>2. CASE MemoryFails
  BY <1>2 DEF MemoryFails, RecordInv, RTypeOK, Written, Late, Second
<1> QED BY <1>1, <1>2, ReadProductRecord, ReadCountRecord, ReadDoneRecord DEF Reading

\* What is left of the beginning of a file is one too.
LEMMA CutRecord ==
    ASSUME RecordInv, Cut
    PROVE  RecordInv'
<1>1. /\ rpc \in {"text", "written", "printed"} /\ file # Absent /\ cut' = TRUE
      /\ file' = Absent \/ \E n \in 0 .. Len(file) : file' = SubSeq(file, 1, n)
      /\ UNCHANGED <<rpc, sds, products, res, rii, reading, faults>>
  BY DEF Cut
<1>2. RTypeOK'
  BY <1>1 DEF RecordInv, RTypeOK
<1>3. Meant' = Meant
  BY <1>1 DEF Meant
<1>4. ASSUME res PROVE file' = Absent \/ Beginning(file', Meant)
  <2>1. Beginning(file, Meant)
    BY <1>1, <1>4 DEF RecordInv, Written, FileKept, Late
  <2>2. ASSUME NEW n \in 0 .. Len(file), file' = SubSeq(file, 1, n)
        PROVE  Beginning(file', Meant)
    <3>1. /\ file \in Seq(Item) /\ Len(file) \in Nat /\ Len(file) <= Len(Meant) /\ n \in Nat
          /\ 0 \in Nat /\ 0 + n <= Len(file)
      BY <2>1, LenProperties DEF Beginning
    <3> DEFINE z == 0
               c == SubSeq(file, z + 1, z + n)
    <3>2. z \in Nat /\ z + n <= Len(file) /\ z + 1 = 1 /\ z + n = n
      BY <3>1
    <3> HIDE DEF z
    <3>3. c \in Seq(Item)
      BY <3>1, <3>2, PartOfSeq
    <3>4. Len(c) = n
      BY <3>1, <3>2, PartOfSeq
    <3>5. \A k \in 1 .. n : c[k] = file[z + k]
      BY <3>1, <3>2, PartOfSeq
    <3>6. file' = c
      BY <2>2, <3>2
    <3> HIDE DEF c
    <3>7. Len(Meant) \in Nat
      <4>1. Len(products) \in 0 .. Len(products)
        BY LenProperties DEF RecordInv, RTypeOK
      <4> QED BY <4>1, PartIs DEF Meant, RecordInv, RTypeOK
    <3>8. \A k \in 1 .. n : k \in 1 .. Len(file) /\ c[k] = file[k]
      BY <3>1, <3>5 DEF z
    <3>9. \A k \in 1 .. n : c[k] = Meant[k]
      BY <2>1, <3>8 DEF Beginning
    <3>10. n <= Len(Meant)
      BY <3>1, <3>7
    <3> QED BY <3>3, <3>4, <3>6, <3>9, <3>10 DEF Beginning
  <2> QED BY <1>1, <2>2
<1>5. Written'
  BY <1>1, <1>3, <1>4 DEF Written, FileKept
<1> QED BY <1>1, <1>2, <1>5 DEF RecordInv, Second, reading

LEMMA StutterRecord ==
    ASSUME RecordInv, UNCHANGED rvars
    PROVE  RecordInv'
<1>1. UNCHANGED <<rpc, sds, products, file, res, rii, cut, pass, rpos, rcount, read, result, rtotal>>
  BY DEF rvars, reading
<1>2. RTypeOK' /\ Written' /\ (ReadSoFar => ReadSoFar')
  BY <1>1 DEF RecordInv, RTypeOK, Written, FileKept, Meant, ReadSoFar
<1> QED BY <1>1, <1>2 DEF RecordInv

LEMMA RecordInvariance == RSpec => []RecordInv
<1>1. RInit => RecordInv
  BY RecordInit
<1>2. RecordInv /\ [RNext]_rvars => RecordInv'
  BY StartRecord, WritingRecord, ReadingRecord, CutRecord, StutterRecord DEF RNext
<1> QED BY <1>1, <1>2, PTL DEF RSpec

\* Both programs read back the products they have written, or nothing, for any
\* list of products, whichever calls fail and however often the file is cut.
THEOREM RecordsReturn == RSpec => []RoundTrip
<1>1. RecordInv => RoundTrip
  <2> SUFFICES ASSUME RecordInv PROVE RoundTrip
    OBVIOUS
  <2>1. sds \in BOOLEAN /\ products \in Seq(Product) /\ RTypeOK
    BY DEF RecordInv, RTypeOK
  <2>2. rpc \notin {"start", "write", "records", "crashed"} /\ res /\ ~cut => file = FileOf(products)
    BY <2>1, FileIs DEF RecordInv, Written, FileKept, RTypeOK, Meant, Late
  <2>3. products # Absent
    BY <2>1, AbsentAssumption
  <2> QED BY <2>2, <2>3 DEF RoundTrip, RecordInv
<1> QED BY <1>1, RecordInvariance, PTL

----------------------------------------------------------------------
\* Sha1: quotients and remainders, in the form its sizes need.

LEMMA Divided ==
    ASSUME NEW a \in Nat, NEW b \in Nat \ {0}
    PROVE  a \div b \in Nat /\ a % b \in 0 .. b - 1 /\ a = b * (a \div b) + (a % b)
<1> DEFINE q == a \div b
           r == a % b
<1>1. q = a \div b /\ r = a % b
  OBVIOUS
<1>2. q \in Nat /\ r \in 0 .. b - 1
  OBVIOUS
<1> HIDE DEF q, r
<1>3. a = b * q + r
  BY <1>1, <1>2, SMTT(30)
<1> QED BY <1>1, <1>2, <1>3

LEMMA Undivided ==
    ASSUME NEW b \in Nat \ {0}, NEW r \in 0 .. b - 1
    PROVE  r % b = r /\ r \div b = 0
OBVIOUS

\* Multiples of a block.
LEMMA Multiple ==
    ASSUME NEW a \in Nat, NEW b \in Nat \ {0}, a % b = 0
    PROVE  \E q \in Nat : a = b * q
<1> DEFINE q == a \div b
           r == a % b
<1>1. q = a \div b /\ r = a % b
  OBVIOUS
<1> HIDE DEF q, r
<1>2. q \in Nat /\ a = b * q + r
  BY <1>1, Division
<1> QED BY <1>1, <1>2

\* A number between two neighbouring multiples is that far from the lower.
LEMMA PastMultiple ==
    ASSUME NEW b \in Nat \ {0}, NEW a \in Nat, a % b = 0, NEW n \in Nat, a <= n, n < a + b
    PROVE  n % b = n - a
<1>1. PICK q \in Nat : a = b * q
  BY Multiple
<1> DEFINE r == n - a
<1>2. r \in 0 .. b - 1 /\ n = b * q + r
  BY <1>1
<1> HIDE DEF r
<1>3. n \div b = q /\ n % b = r
  BY <1>1, <1>2, DivisionIs
<1> QED BY <1>3 DEF r

LEMMA NextMultiple ==
    ASSUME NEW b \in Nat \ {0}, NEW a \in Nat, a % b = 0
    PROVE  (a + b) % b = 0
<1>1. PICK q \in Nat : a = b * q
  BY Multiple
<1> DEFINE d == q + 1
           n == a + b
           r == 0
<1>2. n = b * d + r /\ d \in Nat /\ r \in 0 .. b - 1
  BY <1>1
<1> HIDE DEF d, n, r
<1>3. n \div b = d /\ n % b = r
  BY <1>2, DivisionIs
<1> QED BY <1>3 DEF n, r

LEMMA HashSizesAre ==
    /\ Block \in Nat \ {0} /\ Block > 2 /\ Word \in Nat \ {0} /\ ByteBits \in Nat \ {0}
    /\ \E q \in Nat \ {0} : Word = (Block * ByteBits) * q
    /\ \A n \in Nat : n * ByteBits < Word => n + Block <= Word
    /\ 2 * ByteBits < Word
<1>1. /\ Block \in Nat \ {0} /\ Block > 2 /\ Word \in Nat \ {0} /\ ByteBits \in Nat /\ ByteBits > 1
      /\ Word % (Block * ByteBits) = 0
  BY HashSizeAssumption DEF Field
<1> DEFINE u == Block * ByteBits
<1>2. u \in Nat \ {0}
  BY <1>1
<1>3. PICK q \in Nat : Word = u * q
  BY <1>1, <1>2, Multiple
<1>4. q # 0
  BY <1>1, <1>2, <1>3
<1>5. PICK c \in Nat : ByteBits = 2 + c
  <2>1. ByteBits - 2 \in Nat /\ ByteBits = 2 + (ByteBits - 2)
    BY <1>1
  <2> QED BY <2>1
<1>6. u = 2 * Block + Block * c /\ Block * c \in Nat
  BY <1>1, <1>5
<1>7. Word >= u
  <2>1. PICK e \in Nat : q = e + 1
    <3>1. q - 1 \in Nat /\ q = (q - 1) + 1
      BY <1>4
    <3> QED BY <3>1
  <2> HIDE DEF u
  <2>2. Word = u + u * e /\ u * e \in Nat
    BY <1>2, <1>3, <2>1
  <2> QED BY <1>2, <2>2
<1>8. ASSUME NEW n \in Nat, n * ByteBits < Word
      PROVE  n + Block <= Word
  <2>1. n * ByteBits = 2 * n + n * c /\ n * c \in Nat
    BY <1>5
  <2> HIDE DEF u
  <2> QED BY <1>1, <1>2, <1>6, <1>7, <1>8, <2>1
<1>9. 2 * ByteBits < Word
  <2>1. PICK d \in Nat : Block = 3 + d
    <3>1. Block - 3 \in Nat /\ Block = 3 + (Block - 3)
      BY <1>1
    <3> QED BY <3>1
  <2>2. u = 3 * ByteBits + d * ByteBits /\ d * ByteBits \in Nat
    BY <1>1, <2>1
  <2> HIDE DEF u
  <2> QED BY <1>1, <1>7, <2>2
<1> QED BY <1>1, <1>3, <1>4, <1>8, <1>9

\* The bytes that wait, from the low word of the counter.
LEMMA WaitingIs ==
    ASSUME NEW n \in Nat, NEW c, c = (n * ByteBits) % Word
    PROVE  (c \div ByteBits) % Block = n % Block
<1>1. /\ Block \in Nat \ {0} /\ Word \in Nat \ {0} /\ ByteBits \in Nat \ {0}
  BY HashSizesAre
<1>2. PICK q \in Nat \ {0} : Word = (Block * ByteBits) * q
  BY HashSizesAre
<1> DEFINE a == n * ByteBits
           d == a \div Word
<1>3. a \in Nat
  BY <1>1
<1> HIDE DEF d
<1>31. d = a \div Word /\ c = a % Word
  BY DEF d
<1>4. d \in Nat /\ c \in 0 .. Word - 1 /\ a = Word * d + c
  <2> HIDE DEF a
  <2>1. a \div Word \in Nat /\ a % Word \in 0 .. Word - 1 /\ a = Word * (a \div Word) + (a % Word)
    BY <1>1, <1>3, Divided
  <2> QED BY <1>31, <2>1
<1> DEFINE e == q * d
           m == n \div Block
           r == n % Block
<1>50. m = n \div Block /\ r = n % Block
  OBVIOUS
<1> HIDE DEF m, r
<1>5. m \in Nat /\ r \in 0 .. Block - 1 /\ n = Block * m + r
  BY <1>1, <1>50, Divided
<1>6. e \in Nat /\ Word * d = (Block * e) * ByteBits
  BY <1>1, <1>2, <1>4
<1> HIDE DEF e
<1> DEFINE x == n - Block * e
<1>7. c = ByteBits * x + 0
  <2>1. n * ByteBits = (Block * e) * ByteBits + c
    BY <1>4, <1>6
  <2>2. Block * e \in Nat
    BY <1>1, <1>6
  <2> DEFINE y == Block * e
  <2> HIDE DEF y
  <2>3. n * ByteBits = y * ByteBits + c /\ y \in Nat
    BY <2>1, <2>2 DEF y
  <2>4. c = ByteBits * (n - y)
    BY <1>1, <1>4, <2>3
  <2> QED BY <1>1, <1>4, <2>2, <2>4 DEF y
<1>8. x \in Nat
  <2>1. x \in Int
    BY <1>1, <1>6
  <2> HIDE DEF x
  <2>2. ~(x < 0)
    <3> SUFFICES ASSUME x < 0 PROVE FALSE
      OBVIOUS
    <3>1. PICK z \in Nat : x = - 1 - z
      <4>1. - x - 1 \in Nat /\ x = - 1 - (- x - 1)
        BY <2>1
      <4> QED BY <4>1
    <3>2. c = - ByteBits - ByteBits * z /\ ByteBits * z \in Nat
      BY <1>1, <1>7, <3>1
    <3> QED BY <1>1, <1>4, <3>2
  <2> QED BY <2>1, <2>2
<1>9. c \div ByteBits = x
  <2> HIDE DEF x
  <2>1. 0 \in 0 .. ByteBits - 1
    BY <1>1
  <2> QED BY <1>1, <1>7, <1>8, <2>1, DivisionIs
<1>10. x = Block * (m - e) + r /\ m - e \in Int
  BY <1>1, <1>5, <1>6
<1>11. m - e \in Nat
  <2> DEFINE f == m - e
  <2>1. f \in Int /\ x = Block * f + r
    BY <1>10
  <2> HIDE DEF f, x
  <2>2. ~(f < 0)
    <3> SUFFICES ASSUME f < 0 PROVE FALSE
      OBVIOUS
    <3>1. PICK z \in Nat : f = - 1 - z
      <4>1. - f - 1 \in Nat /\ f = - 1 - (- f - 1)
        BY <2>1
      <4> QED BY <4>1
    <3>2. x = - Block - Block * z + r /\ Block * z \in Nat
      BY <1>1, <1>5, <2>1, <3>1
    <3> QED BY <1>1, <1>5, <1>8, <3>2
  <2> QED BY <2>1, <2>2 DEF f
<1>12. x % Block = r
  <2> HIDE DEF x
  <2> QED BY <1>1, <1>5, <1>10, <1>11, DivisionIs
<1> QED BY <1>9, <1>12 DEF r

\* What is added to the counter, if it is less than a word.
LEMMA CountedIs ==
    ASSUME NEW n \in Nat, NEW m \in Nat, m * ByteBits < Word, count[1] = (n * ByteBits) % Word
    PROVE  /\ Counted(m)[1] = ((n + m) * ByteBits) % Word
           /\ count[2] = (n * ByteBits) \div Word /\ (n + m) * ByteBits < Word * Word =>
                 Counted(m)[2] = ((n + m) * ByteBits) \div Word
<1>1. Word \in Nat \ {0} /\ ByteBits \in Nat \ {0}
  BY HashSizesAre
<1> DEFINE a == n * ByteBits
           b == m * ByteBits
           c == count[1]
           d == a \div Word
           low == (c + b) % Word
<1>2. a \in Nat /\ b \in 0 .. Word - 1 /\ (n + m) * ByteBits = a + b
  BY <1>1
<1>3. d = a \div Word /\ c = a % Word
  OBVIOUS
<1> HIDE DEF d, a, b, c
<1>4. d \in Nat /\ c \in 0 .. Word - 1 /\ a = Word * d + c
  BY <1>1, <1>2, <1>3, Divided
<1> DEFINE carry == IF low < b THEN 1 ELSE 0
<1>5. Counted(m) = <<low, (count[2] + carry + b \div Word) % Word>>
  BY DEF Counted, c, b
<1>6. b \div Word = 0
  <2>1. b = Word * 0 + b
    BY <1>1, <1>2
  <2> QED BY <1>1, <1>2, <2>1, DivisionIs
<1>7. low = (a + b) % Word /\ (a + b) \div Word = d + carry
  <2>1. CASE c + b < Word
    <3>1. c + b \in 0 .. Word - 1 /\ c + b = Word * 0 + (c + b) /\ a + b = Word * d + (c + b)
      BY <1>1, <1>2, <1>4, <2>1
    <3>2. low = c + b
      BY <1>1, <3>1, DivisionIs
    <3>3. (a + b) % Word = c + b /\ (a + b) \div Word = d
      BY <1>1, <1>4, <3>1, DivisionIs
    <3>4. carry = 0
      BY <1>2, <1>4, <3>2
    <3> QED BY <1>4, <3>2, <3>3, <3>4
  <2>2. CASE ~(c + b < Word)
    <3>1. /\ c + b - Word \in 0 .. Word - 1 /\ c + b = Word * 1 + (c + b - Word)
          /\ a + b = Word * (d + 1) + (c + b - Word) /\ d + 1 \in Nat
      BY <1>1, <1>2, <1>4, <2>2
    <3>2. low = c + b - Word
      BY <1>1, <3>1, DivisionIs
    <3>3. (a + b) % Word = c + b - Word /\ (a + b) \div Word = d + 1
      BY <1>1, <3>1, DivisionIs
    <3>4. carry = 1
      BY <1>1, <1>2, <1>4, <3>2
    <3> QED BY <3>2, <3>3, <3>4
  <2> QED BY <2>1, <2>2
<1>8. ASSUME count[2] = a \div Word, a + b < Word * Word
      PROVE  (count[2] + carry + b \div Word) % Word = (a + b) \div Word
  <2> DEFINE e == (a + b) \div Word
  <2> HIDE DEF carry, low
  <2>1. e = d + carry /\ count[2] = d
    BY <1>7, <1>8 DEF d
  <2>2. e \in 0 .. Word - 1
    <3>1. a + b \in 0 .. Word * Word - 1
      BY <1>1, <1>2, <1>8
    <3> QED BY <1>1, <3>1, QuotientBelow
  <2>3. carry \in 0 .. 1
    BY DEF carry
  <2> HIDE DEF e
  <2>4. e % Word = e
    BY <1>1, <2>2, Undivided
  <2>5. count[2] + carry + b \div Word = e
    BY <1>4, <1>6, <2>1, <2>3
  <2> QED BY <2>4, <2>5 DEF e
<1> HIDE DEF low, carry
<1> QED BY <1>2, <1>5, <1>7, <1>8 DEF a

\* A byte with what it stands for.
Tagged == {"message", "one", "zero", "high", "low", "junk"} \X Nat

\* The bytes of the padded message of t bytes, by their places.
PaddedLength(t) == t + 1 + Zeros(t) + Field
PlacesOf(t) ==
    [k \in Nat |-> IF k <= t THEN <<"message", k>>
                   ELSE IF k = t + 1 THEN <<"one", 0>>
                   ELSE IF k <= t + 1 + Zeros(t) THEN <<"zero", 0>>
                   ELSE IF k = t + 2 + Zeros(t) THEN <<"high", (t * ByteBits) \div Word>>
                   ELSE <<"low", (t * ByteBits) % Word>>]

LEMMA ZerosIs ==
    ASSUME NEW t \in Nat
    PROVE  Zeros(t) \in 0 .. Block - 1 /\ PaddedLength(t) % Block = 0
<1>1. Block \in Nat \ {0}
  BY HashSizesAre
<1> DEFINE a == t + 1 + Field
           q == a \div Block
           r == a % Block
<1>2. a \in Nat
  BY DEF Field
<1>3. q = a \div Block /\ r = a % Block
  OBVIOUS
<1> HIDE DEF q, r
<1>4. q \in Nat /\ r \in 0 .. Block - 1 /\ a = Block * q + r
  <2> HIDE DEF a
  <2>1. a \div Block \in Nat /\ a % Block \in 0 .. Block - 1 /\ a = Block * (a \div Block) + (a % Block)
    BY <1>1, <1>2, Divided
  <2> QED BY <1>3, <2>1
<1>5. \E z \in 0 .. Block - 1 : (t + 1 + z + Field) % Block = 0
  <2>1. CASE r = 0
    <3> DEFINE n == t + 1 + 0 + Field
    <3>1. n = a
      BY <1>2 DEF Field
    <3>2. n % Block = 0
      BY <1>3, <2>1, <3>1
    <3>3. 0 \in 0 .. Block - 1
      BY <1>1
    <3> QED BY <3>2, <3>3
  <2>2. CASE r # 0
    <3> DEFINE z == Block - r
               n == t + 1 + z + Field
               d == q + 1
               o == 0
    <3>1. z \in 0 .. Block - 1
      BY <1>1, <1>4, <2>2
    <3>2. n = Block * d + o /\ d \in Nat /\ o \in 0 .. Block - 1
      BY <1>1, <1>4, <2>2 DEF Field
    <3> HIDE DEF n, d, o
    <3>3. n \div Block = d /\ n % Block = o
      BY <1>1, <3>2, DivisionIs
    <3> QED BY <3>1, <3>3 DEF n, o
  <2> QED BY <2>1, <2>2
<1>6. Zeros(t) \in 0 .. Block - 1 /\ (t + 1 + Zeros(t) + Field) % Block = 0
  BY <1>5 DEF Zeros
<1> QED BY <1>6 DEF PaddedLength

\* The places of the number of zeros are found where Waiting says.
LEMMA RoomIs ==
    ASSUME NEW t \in Nat, NEW n \in t + 1 .. t + 1 + Zeros(t)
    PROVE  n % Block = Block - Field <=> n = t + 1 + Zeros(t)
<1>1. Block \in Nat \ {0} /\ Block > 2
  BY HashSizesAre
<1> DEFINE z == Zeros(t)
           p == PaddedLength(t)
           q == n \div Block
           r == n % Block
<1>2. z \in 0 .. Block - 1 /\ p % Block = 0
  BY ZerosIs
<1>3. n \in Nat /\ p \in Nat /\ p = t + 1 + z + 2
  BY <1>1, <1>2 DEF PaddedLength, Field
<1> HIDE DEF z, p
<1>4. PICK m \in Nat : p = Block * m
  BY <1>1, <1>2, <1>3, Multiple
<1>5. q = n \div Block /\ r = n % Block
  OBVIOUS
<1> HIDE DEF q, r
<1>6. q \in Nat /\ r \in 0 .. Block - 1 /\ n = Block * q + r
  <2>1. n \div Block \in Nat /\ n % Block \in 0 .. Block - 1 /\ n = Block * (n \div Block) + (n % Block)
    BY <1>1, <1>3, Divided
  <2> QED BY <1>5, <2>1
<1>7. n + 2 <= p /\ p < n + 2 + Block
  BY <1>1, <1>2, <1>3 DEF z
<1> DEFINE d == m - q
<1>8. d \in Int /\ p - n = Block * d - r
  BY <1>1, <1>3, <1>4, <1>6
<1> HIDE DEF d
<1>9. r = Block - 2 => n + 2 = p
  <2> SUFFICES ASSUME r = Block - 2 PROVE n + 2 = p
    OBVIOUS
  <2> DEFINE e == d - 1
  <2>1. e \in Int /\ p - n = Block * e + 2
    BY <1>1, <1>8
  <2> HIDE DEF e
  <2>2. ~(e > 0)
    <3> SUFFICES ASSUME e > 0 PROVE FALSE
      OBVIOUS
    <3>1. PICK f \in Nat : e = f + 1
      <4>1. e - 1 \in Nat /\ e = e - 1 + 1
        BY <2>1
      <4> QED BY <4>1
    <3>2. p - n = Block * f + Block + 2 /\ Block * f \in Nat
      BY <1>1, <2>1, <3>1
    <3> QED BY <1>1, <1>3, <1>7, <3>2
  <2>3. ~(e < 0)
    <3> SUFFICES ASSUME e < 0 PROVE FALSE
      OBVIOUS
    <3>1. PICK f \in Nat : e = - 1 - f
      <4>1. - 1 - e \in Nat /\ e = - 1 - (- 1 - e)
        BY <2>1
      <4> QED BY <4>1
    <3>2. p - n = 2 - Block - Block * f /\ Block * f \in Nat
      BY <1>1, <2>1, <3>1
    <3> QED BY <1>1, <1>3, <1>7, <3>2
  <2>4. e = 0
    BY <2>1, <2>2, <2>3
  <2> QED BY <1>1, <1>3, <2>1, <2>4
<1>10. n + 2 = p => r = Block - 2
  <2> SUFFICES ASSUME n + 2 = p PROVE r = Block - 2
    OBVIOUS
  <2> DEFINE a == p - Block
  <2>1. \E f \in Nat : m = f + 1
    <3>1. m # 0
      BY <1>1, <1>3, <1>4 DEF z
    <3>2. m - 1 \in Nat /\ m = m - 1 + 1
      BY <3>1
    <3> QED BY <3>2
  <2>2. PICK f \in Nat : m = f + 1
    BY <2>1
  <2> DEFINE s == Block - 2
  <2>3. n = Block * f + s /\ s \in 0 .. Block - 1
    BY <1>1, <1>3, <1>4, <2>2
  <2> HIDE DEF s
  <2>4. n \div Block = f /\ n % Block = s
    BY <1>1, <2>3, DivisionIs
  <2> QED BY <1>5, <2>4 DEF s
<1>11. n + 2 = p <=> n = t + 1 + z
  BY <1>2, <1>3 DEF z
<1> QED BY <1>5, <1>9, <1>10, <1>11 DEF Field, z

LEMMA TaggedAre ==
    \A k \in Nat : /\ <<"message", k>> \in Tagged /\ <<"one", k>> \in Tagged
                   /\ <<"zero", k>> \in Tagged /\ <<"high", k>> \in Tagged
                   /\ <<"low", k>> \in Tagged /\ <<"junk", k>> \in Tagged
BY DEF Tagged

LEMMA FunctionAsSeq ==
    ASSUME NEW S, NEW n \in Nat, NEW f \in [1 .. n -> S]
    PROVE  f \in Seq(S) /\ Len(f) = n
<1>1. f \in Seq(S)
  BY SeqDef
<1> QED BY <1>1, LenProperties

LEMMA PlacesAre ==
    ASSUME NEW t \in Nat
    PROVE  /\ PlacesOf(t) \in [Nat -> Tagged]
           /\ \A k \in 1 .. t : PlacesOf(t)[k] = <<"message", k>>
           /\ PlacesOf(t)[t + 1] = <<"one", 0>>
           /\ \A k \in t + 2 .. t + 1 + Zeros(t) : PlacesOf(t)[k] = <<"zero", 0>>
           /\ PlacesOf(t)[t + 2 + Zeros(t)] = <<"high", (t * ByteBits) \div Word>>
           /\ PlacesOf(t)[t + 3 + Zeros(t)] = <<"low", (t * ByteBits) % Word>>
           /\ \A n \in Nat : \A k \in 1 .. t : PlacesOf(t + n)[k] = PlacesOf(t)[k]
<1> DEFINE z == Zeros(t)
           h == (t * ByteBits) \div Word
           l == (t * ByteBits) % Word
<1>1. z \in Nat
  BY ZerosIs, HashSizesAre
<1>2. h \in Nat /\ l \in Nat
  <2>1. Word \in Nat \ {0} /\ ByteBits \in Nat
    BY HashSizesAre
  <2>2. t * ByteBits \in Nat
    BY <2>1
  <2> QED BY <2>1, <2>2, Divided
<1> HIDE DEF z, h, l
<1>3. PlacesOf(t) = [k \in Nat |-> IF k <= t THEN <<"message", k>>
                   ELSE IF k = t + 1 THEN <<"one", 0>>
                   ELSE IF k <= t + 1 + z THEN <<"zero", 0>>
                   ELSE IF k = t + 2 + z THEN <<"high", h>>
                   ELSE <<"low", l>>]
  BY DEF PlacesOf, z, h, l
<1>4. PlacesOf(t) \in [Nat -> Tagged]
  <2>1. \A k \in Nat : <<"message", k>> \in Tagged
    BY TaggedAre
  <2>2. <<"one", 0>> \in Tagged /\ <<"zero", 0>> \in Tagged /\ <<"high", h>> \in Tagged /\ <<"low", l>> \in Tagged
    BY <1>2, TaggedAre
  <2> QED BY <1>3, <2>1, <2>2
<1>5. \A k \in 1 .. t : PlacesOf(t)[k] = <<"message", k>>
  BY <1>3
<1>6. PlacesOf(t)[t + 1] = <<"one", 0>>
  BY <1>3
<1>7. \A k \in t + 2 .. t + 1 + z : PlacesOf(t)[k] = <<"zero", 0>>
  BY <1>1, <1>3
<1>8. PlacesOf(t)[t + 2 + z] = <<"high", h>>
  BY <1>1, <1>3
<1>9. PlacesOf(t)[t + 3 + z] = <<"low", l>>
  BY <1>1, <1>3
<1>10. ASSUME NEW n \in Nat, NEW k \in 1 .. t
       PROVE  PlacesOf(t + n)[k] = PlacesOf(t)[k]
  <2>1. k <= t + n /\ k \in Nat /\ t + n \in Nat
    OBVIOUS
  <2>2. PlacesOf(t + n)[k] = <<"message", k>>
    BY <2>1 DEF PlacesOf
  <2> QED BY <1>5, <2>2
<1> QED BY <1>4, <1>5, <1>6, <1>7, <1>8, <1>9, <1>10 DEF z, h, l

LEMMA MessageIs ==
    ASSUME NEW t \in Nat, NEW n \in Nat
    PROVE  /\ Message(t, t + n) \in Seq(Tagged) /\ Len(Message(t, t + n)) = n
           /\ \A k \in 1 .. n : Message(t, t + n)[k] = <<"message", t + k>>
<1>1. Message(t, t + n) = [k \in 1 .. n |-> <<"message", t + k>>]
  BY DEF Message
<1>2. Message(t, t + n) \in [1 .. n -> Tagged]
  <2>1. \A k \in 1 .. n : t + k \in Nat
    OBVIOUS
  <2> QED BY <1>1, <2>1, TaggedAre
<1>3. \A k \in 1 .. n : Message(t, t + n)[k] = <<"message", t + k>>
  BY <1>1
<1> HIDE DEF Message
<1>4. Message(t, t + n) \in Seq(Tagged) /\ Len(Message(t, t + n)) = n
  BY <1>2, FunctionAsSeq
<1> QED BY <1>3, <1>4

LEMMA PaddedIs ==
    ASSUME NEW t \in Nat
    PROVE  /\ Padded(t) \in Seq(Tagged) /\ Len(Padded(t)) = PaddedLength(t)
           /\ \A k \in 1 .. PaddedLength(t) : Padded(t)[k] = PlacesOf(t)[k]
<1> DEFINE z == Zeros(t)
           m == Message(0, t)
           o == << <<"one", 0>> >>
           s == [k \in 1 .. z |-> <<"zero", 0>>]
           c == << <<"high", (t * ByteBits) \div Word>>, <<"low", (t * ByteBits) % Word>> >>
           g == PlacesOf(t)
<1>1. z \in Nat
  BY ZerosIs, HashSizesAre
<1>2. m \in Seq(Tagged) /\ Len(m) = t /\ \A k \in 1 .. t : m[k] = g[k]
  <2>1. Message(0, 0 + t) = Message(0, t) /\ \A k \in 1 .. t : 0 + k = k
    OBVIOUS
  <2>2. m \in Seq(Tagged) /\ Len(m) = t
    BY <2>1, MessageIs
  <2>3. \A k \in 1 .. t : m[k] = <<"message", k>>
    BY <2>1, MessageIs
  <2> QED BY <2>2, <2>3, PlacesAre
<1>3. o \in Seq(Tagged) /\ Len(o) = 1 /\ o[1] = g[t + 1]
  <2>1. o[1] = g[t + 1]
    BY PlacesAre
  <2>2. <<"one", 0>> \in Tagged
    BY TaggedAre
  <2> QED BY <2>1, <2>2
<1>4. s \in Seq(Tagged) /\ Len(s) = z /\ \A k \in 1 .. z : s[k] = g[t + 1 + k]
  <2>1. s \in Seq(Tagged) /\ Len(s) = z /\ \A k \in 1 .. z : s[k] = <<"zero", 0>>
    <3> HIDE DEF z
    <3>1. s \in [1 .. z -> Tagged] /\ \A k \in 1 .. z : s[k] = <<"zero", 0>>
      BY TaggedAre
    <3> HIDE DEF s
    <3> QED BY <1>1, <3>1, FunctionAsSeq
  <2>2. \A k \in 1 .. z : g[t + 1 + k] = <<"zero", 0>>
    <3>1. \A k \in 1 .. z : t + 1 + k \in t + 2 .. t + 1 + z
      BY <1>1
    <3> HIDE DEF z, g
    <3>2. \A k \in t + 2 .. t + 1 + z : g[k] = <<"zero", 0>>
      BY PlacesAre DEF g, z
    <3> QED BY <3>1, <3>2
  <2> HIDE DEF s, z, g
  <2> QED BY <2>1, <2>2
<1>5. c \in Seq(Tagged) /\ Len(c) = 2 /\ c[1] = g[t + 2 + z] /\ c[2] = g[t + 3 + z]
  <2>0. t + 2 + z \in Nat /\ t + 3 + z \in Nat
    BY <1>1
  <2>1. g \in [Nat -> Tagged]
    BY PlacesAre
  <2>2. c[1] = g[t + 2 + z] /\ c[2] = g[t + 3 + z]
    BY PlacesAre
  <2>3. c[1] \in Tagged /\ c[2] \in Tagged
    <3> HIDE DEF g, c
    <3> QED BY <2>0, <2>1, <2>2
  <2> QED BY <2>2, <2>3
<1>6. Padded(t) = m \o o \o s \o c
  BY DEF Padded
<1> HIDE DEF z, m, o, s, c, g
<1> DEFINE mo == m \o o
           ms == mo \o s
           mc == ms \o c
<1>7. mo \in Seq(Tagged) /\ Len(mo) = t + 1 /\ \A k \in 1 .. t + 1 : mo[k] = g[k]
  <2>1. mo \in Seq(Tagged) /\ Len(mo) = t + 1
    <3>1. mo \in Seq(Tagged)
      BY <1>2, <1>3
    <3>2. Len(mo) = Len(m) + Len(o)
      BY <1>2, <1>3, ConcatProperties
    <3> QED BY <1>2, <1>3, <3>1, <3>2
  <2>2. \A k \in 1 .. t : mo[k] = g[k]
    BY <1>2, <1>3, ConcatLeft
  <2>3. mo[t + 1] = g[t + 1]
    <3>1. 1 \in 1 .. Len(o)
      BY <1>3
    <3>2. mo[Len(m) + 1] = o[1]
      <4>1. m \in Seq(Tagged) /\ o \in Seq(Tagged)
        BY <1>2, <1>3
      <4> QED BY <3>1, <4>1, ConcatRight
    <3> QED BY <1>2, <1>3, <3>2
  <2> HIDE DEF mo
  <2> QED BY <2>1, <2>2, <2>3
<1> HIDE DEF mo
<1>8. ms \in Seq(Tagged) /\ Len(ms) = t + 1 + z /\ \A k \in 1 .. t + 1 + z : ms[k] = g[k]
  <2>1. ms \in Seq(Tagged) /\ Len(ms) = t + 1 + z
    <3>1. ms \in Seq(Tagged)
      BY <1>4, <1>7
    <3>2. Len(ms) = Len(mo) + Len(s)
      BY <1>4, <1>7, ConcatProperties
    <3> QED BY <1>4, <1>7, <3>1, <3>2
  <2>2. \A k \in 1 .. t + 1 : ms[k] = g[k]
    BY <1>4, <1>7, ConcatLeft
  <2>3. ASSUME NEW k \in 1 .. z
        PROVE  ms[t + 1 + k] = g[t + 1 + k]
    <3>1. k \in 1 .. Len(s)
      BY <1>4
    <3> QED BY <1>4, <1>7, <3>1, ConcatRight
  <2> HIDE DEF ms
  <2>4. ASSUME NEW k \in 1 .. t + 1 + z, ~(k <= t + 1)
        PROVE  ms[k] = g[k]
    <3>1. k - (t + 1) \in 1 .. z /\ k = t + 1 + (k - (t + 1))
      BY <1>1, <2>4
    <3> QED BY <2>3, <3>1
  <2>5. ASSUME NEW k \in 1 .. t + 1 + z
        PROVE  ms[k] = g[k]
    BY <1>1, <2>2, <2>4
  <2> QED BY <2>1, <2>5
<1> HIDE DEF ms
<1>9. mc \in Seq(Tagged) /\ Len(mc) = t + 1 + z + 2 /\ \A k \in 1 .. t + 1 + z + 2 : mc[k] = g[k]
  <2>1. mc \in Seq(Tagged) /\ Len(mc) = t + 1 + z + 2
    <3>1. mc \in Seq(Tagged)
      BY <1>5, <1>8
    <3>2. Len(mc) = Len(ms) + Len(c)
      BY <1>5, <1>8, ConcatProperties
    <3> QED BY <1>1, <1>5, <1>8, <3>1, <3>2
  <2>2. \A k \in 1 .. t + 1 + z : mc[k] = g[k]
    BY <1>5, <1>8, ConcatLeft
  <2>3. mc[t + 1 + z + 1] = c[1] /\ mc[t + 1 + z + 2] = c[2]
    <3>1. 1 \in 1 .. Len(c) /\ 2 \in 1 .. Len(c)
      BY <1>5
    <3>2. ms \in Seq(Tagged) /\ c \in Seq(Tagged)
      BY <1>5, <1>8
    <3>3. mc[Len(ms) + 1] = c[1]
      BY <3>1, <3>2, ConcatRight
    <3>4. mc[Len(ms) + 2] = c[2]
      BY <3>1, <3>2, ConcatRight
    <3> QED BY <1>8, <3>3, <3>4
  <2> HIDE DEF mc
  <2>4. t + 1 + z + 1 = t + 2 + z /\ t + 1 + z + 2 = t + 3 + z
    BY <1>1
  <2>5. ASSUME NEW k \in 1 .. t + 1 + z + 2
        PROVE  mc[k] = g[k]
    <3>1. k \in 1 .. t + 1 + z \/ k = t + 1 + z + 1 \/ k = t + 1 + z + 2
      BY <1>1
    <3> QED BY <1>5, <2>2, <2>3, <2>4, <3>1
  <2> QED BY <2>1, <2>5
<1> QED BY <1>6, <1>9 DEF PaddedLength, Field, mo, ms, mc, z, g

\* The blocks of a are the first places of g.
InBlocks(g, a) == a \in Seq(Tagged) /\ Len(a) % Block = 0 /\ \A k \in 1 .. Len(a) : a[k] = g[k]

\* The first n places of g are in blocks, in the buffer or, within an
\* update, in the rest of its argument.
Holds(g, n, p, a, b, d, i) ==
    /\ InBlocks(g, a)
    /\ b \in [1 .. Block -> Tagged] /\ d \in Seq(Tagged)
    /\ p = "loop" => /\ i \in 0 .. Len(d) /\ Len(d) + Block <= Word
                     /\ n = Len(a) + (Len(d) - i)
                     /\ \A k \in i + 1 .. Len(d) : d[k] = g[Len(a) + (k - i)]
    /\ p # "loop" => /\ Len(a) <= n /\ n < Len(a) + Block
                     /\ \A k \in 1 .. n - Len(a) : b[k] = g[Len(a) + k]

LEMMA FilledIs ==
    ASSUME buffer \in [1 .. Block -> Tagged], NEW j \in 0 .. Block - 1, NEW b \in Seq(Tagged),
           j + Len(b) <= Block
    PROVE  /\ Filled(j, b) \in [1 .. Block -> Tagged]
           /\ \A k \in 1 .. j : Filled(j, b)[k] = buffer[k]
           /\ \A k \in 1 .. Len(b) : Filled(j, b)[j + k] = b[k]
<1>1. Block \in Nat \ {0} /\ Len(b) \in Nat /\ j \in Nat
  BY HashSizesAre, LenProperties
<1>2. \A k \in 1 .. Len(b) : b[k] \in Tagged
  BY ElementOfSeq
<1> DEFINE f == Filled(j, b)
           m == Len(b)
<1>3. f = [k \in 1 .. Block |-> IF k > j /\ k <= j + m THEN b[k - j] ELSE buffer[k]]
  BY DEF Filled
<1> HIDE DEF f, m
<1>4. m \in Nat /\ j + m <= Block /\ \A k \in 1 .. m : b[k] \in Tagged
  BY <1>1, <1>2 DEF m
<1>5. ASSUME NEW k \in 1 .. Block
      PROVE  f[k] \in Tagged
  <2>1. CASE k > j /\ k <= j + m
    <3>1. k - j \in 1 .. m
      BY <1>1, <1>4, <2>1
    <3> QED BY <1>3, <1>4, <2>1, <3>1
  <2>2. CASE ~(k > j /\ k <= j + m)
    BY <1>3, <2>2
  <2> QED BY <2>1, <2>2
<1>6. f \in [1 .. Block -> Tagged]
  BY <1>3, <1>5
<1>7. ASSUME NEW k \in 1 .. j
      PROVE  f[k] = buffer[k]
  <2>1. k \in 1 .. Block /\ ~(k > j)
    BY <1>1
  <2> QED BY <1>3, <2>1
<1>8. ASSUME NEW k \in 1 .. m
      PROVE  f[j + k] = b[k]
  <2>1. j + k \in 1 .. Block /\ j + k > j /\ j + k <= j + m /\ j + k - j = k
    BY <1>1, <1>4
  <2> QED BY <1>3, <2>1
<1> QED BY <1>6, <1>7, <1>8 DEF f, m

\* A block of the next places of g is one more block that is right.
LEMMA BlockAdded ==
    ASSUME NEW g, NEW a, NEW c \in Seq(Tagged), InBlocks(g, a),
           Len(c) = Block, \A k \in 1 .. Block : c[k] = g[Len(a) + k]
    PROVE  InBlocks(g, a \o c) /\ Len(a \o c) = Len(a) + Block
<1>0. a \in Seq(Tagged) /\ Len(a) % Block = 0 /\ \A k \in 1 .. Len(a) : a[k] = g[k]
  BY DEF InBlocks
<1>1. Block \in Nat \ {0} /\ Len(a) \in Nat
  BY <1>0, HashSizesAre, LenProperties
<1> DEFINE e == a \o c
           m == Len(a)
<1>2. e \in Seq(Tagged)
  BY <1>0
<1>3. Len(e) = m + Block
  <2>1. Len(e) = Len(a) + Len(c)
    BY <1>0, ConcatProperties
  <2> QED BY <2>1
<1>4. \A k \in 1 .. m : e[k] = g[k]
  BY <1>0, ConcatLeft
<1>5. \A k \in 1 .. Block : e[m + k] = g[m + k]
  BY <1>0, ConcatRight
<1>6. (m + Block) % Block = 0
  BY <1>0, <1>1, NextMultiple
<1> HIDE DEF e, m
<1>7. ASSUME NEW k \in 1 .. m + Block
      PROVE  e[k] = g[k]
  <2>1. CASE k <= m
    BY <1>1, <1>4, <2>1 DEF m
  <2>2. CASE ~(k <= m)
    <3>1. k - m \in 1 .. Block /\ k = m + (k - m)
      BY <1>1, <2>2 DEF m
    <3> QED BY <1>5, <3>1
  <2> QED BY <2>1, <2>2
<1>8. InBlocks(g, e)
  BY <1>1, <1>2, <1>3, <1>6, <1>7 DEF InBlocks
<1> QED BY <1>3, <1>8 DEF e, m

LEMMA UpdateHolds ==
    ASSUME NEW g \in [Nat -> Tagged], NEW n \in Nat,
           Holds(g, n, hpc, absorbed, buffer, data, hii), count[1] = (n * ByteBits) % Word,
           NEW b \in Seq(Tagged), Len(b) * ByteBits < Word,
           \A k \in 1 .. Len(b) : b[k] = g[n + k], Update(b)
    PROVE  /\ Holds(g, n + Len(b), hpc', absorbed', buffer', data', hii')
           /\ hpc' \in {"idle", "loop"} /\ count' = Counted(Len(b))
<1>1. Block \in Nat \ {0} /\ Len(b) \in Nat /\ Len(absorbed) \in Nat
  BY HashSizesAre, LenProperties DEF Holds, InBlocks
<1> DEFINE m == Len(b)
           a == Len(absorbed)
           j == n - a
           h == Filled(j, SubSeq(b, 1, Block - j))
<1>2. /\ hpc = "idle" /\ absorbed \in Seq(Tagged) /\ a % Block = 0
      /\ InBlocks(g, absorbed) /\ buffer \in [1 .. Block -> Tagged] /\ data \in Seq(Tagged)
      /\ a <= n /\ n < a + Block /\ \A k \in 1 .. j : buffer[k] = g[a + k]
  BY DEF Holds, Update, InBlocks
<1>3. j \in 0 .. Block - 1
  BY <1>1, <1>2
<1>4. Waiting = j
  <2>1. Waiting = n % Block
    BY WaitingIs DEF Waiting
  <2>2. n % Block = j
    BY <1>1, <1>2, PastMultiple
  <2> QED BY <2>1, <2>2
<1>5. count' = Counted(m)
  BY DEF Update
<1>6. CASE j + m >= Block
  <2> DEFINE r == Block - j
             s == SubSeq(b, 1, r)
  <2>1. /\ absorbed' = absorbed \o h /\ buffer' = h
        /\ hii' = r /\ data' = b /\ hpc' = "loop"
    BY <1>4, <1>6 DEF Update, Transform
  <2>2. r \in Nat /\ r <= m /\ j + r = Block
    <3> HIDE DEF j, m
    <3>1. m \in Nat
      BY <1>1 DEF m
    <3> QED BY <1>1, <1>3, <1>6, <3>1
  <2>3. s \in Seq(Tagged) /\ Len(s) = r /\ \A k \in 1 .. r : s[k] = b[k]
    <3>1. 0 \in Nat /\ 0 + r <= Len(b) /\ 0 + 1 = 1 /\ 0 + r = r /\ \A k \in 1 .. r : 0 + k = k
      BY <2>2
    <3> HIDE DEF r
    <3>2. LET c == SubSeq(b, 0 + 1, 0 + r)
          IN  c \in Seq(Tagged) /\ Len(c) = r /\ \A k \in 1 .. r : c[k] = b[0 + k]
      BY <2>2, <3>1, PartOfSeq
    <3>3. SubSeq(b, 0 + 1, 0 + r) = s
      BY <3>1
    <3>4. s \in Seq(Tagged) /\ Len(s) = r /\ \A k \in 1 .. r : s[k] = b[0 + k]
      BY <3>2, <3>3
    <3> QED BY <3>1, <3>4
  <2> HIDE DEF s, r
  <2>4. h = Filled(j, s)
    BY DEF s, r
  <2> HIDE DEF h, j
  <2>5. /\ h \in [1 .. Block -> Tagged] /\ \A k \in 1 .. j : h[k] = buffer[k]
        /\ \A k \in 1 .. r : h[j + k] = s[k]
    <3>1. j + Len(s) <= Block
      BY <1>1, <2>2, <2>3
    <3> HIDE DEF a, m
    <3>2. Filled(j, s) \in [1 .. Block -> Tagged]
      BY <1>2, <1>3, <2>3, <3>1, FilledIs
    <3>3. \A k \in 1 .. j : Filled(j, s)[k] = buffer[k]
      BY <1>2, <1>3, <2>3, <3>1, FilledIs, ZenonT(30)
    <3>4. \A k \in 1 .. Len(s) : Filled(j, s)[j + k] = s[k]
      BY <1>2, <1>3, <2>3, <3>1, FilledIs, ZenonT(30)
    <3> QED BY <2>3, <2>4, <3>2, <3>3, <3>4
  <2>6. h \in Seq(Tagged) /\ Len(h) = Block
    BY <1>1, <2>5, FunctionAsSeq
  <2>7. \A k \in 1 .. Block : h[k] = g[a + k]
    <3> SUFFICES ASSUME NEW k \in 1 .. Block PROVE h[k] = g[a + k]
      OBVIOUS
    <3>1. CASE k <= j
      BY <1>2, <1>3, <2>5, <3>1 DEF j
    <3>2. CASE ~(k <= j)
      <4>1. k - j \in 1 .. r /\ k - j \in 1 .. m /\ k = j + (k - j) /\ n + (k - j) = a + k
        BY <1>1, <1>3, <2>2, <3>2 DEF j
      <4>2. h[k] = b[k - j]
        BY <2>3, <2>5, <4>1
      <4> QED BY <4>1, <4>2
    <3> QED BY <3>1, <3>2
  <2>8. InBlocks(g, absorbed') /\ Len(absorbed') = a + Block
    <3>1. InBlocks(g, absorbed \o h)
      BY <1>2, <2>6, <2>7, BlockAdded
    <3>2. Len(absorbed \o h) = a + Block
      BY <1>2, <2>6, <2>7, BlockAdded
    <3> QED BY <2>1, <3>1, <3>2
  <2>9. m + Block <= Word
    BY <1>1, HashSizesAre
  <2>10. n + m = (a + Block) + (m - r)
    BY <1>1, <2>2 DEF j, r
  <2>11. \A k \in r + 1 .. m : b[k] = g[(a + Block) + (k - r)]
    <3> SUFFICES ASSUME NEW k \in r + 1 .. m PROVE b[k] = g[(a + Block) + (k - r)]
      OBVIOUS
    <3>1. k \in 1 .. m /\ n + k = (a + Block) + (k - r)
      BY <1>1, <2>2 DEF j, r
    <3> QED BY <3>1
  <2>12. r \in 0 .. m
    BY <2>2, <1>1
  <2> HIDE DEF a
  <2>13. Holds(g, n + m, "loop", absorbed', h, b, r)
    BY <2>5, <2>8, <2>9, <2>10, <2>11, <2>12 DEF Holds
  <2> QED BY <1>5, <2>1, <2>13
<1>7. CASE ~(j + m >= Block)
  <2>1. buffer' = Filled(j, b) /\ UNCHANGED <<absorbed, data, hii, hpc>>
    BY <1>4, <1>7 DEF Update
  <2>2. j + m <= Block /\ j + m < Block
    BY <1>1, <1>3, <1>7
  <2> DEFINE f == Filled(j, b)
  <2> HIDE DEF j
  <2>3. f \in [1 .. Block -> Tagged]
    BY <1>2, <1>3, <2>2, FilledIs
  <2>4. \A k \in 1 .. j : f[k] = buffer[k]
    BY <1>2, <1>3, <2>2, FilledIs
  <2>5. \A k \in 1 .. m : f[j + k] = b[k]
    BY <1>2, <1>3, <2>2, FilledIs
  <2> HIDE DEF f
  <2>6. \A k \in 1 .. n + m - a : f[k] = g[a + k]
    <3> SUFFICES ASSUME NEW k \in 1 .. n + m - a PROVE f[k] = g[a + k]
      OBVIOUS
    <3>1. CASE k <= j
      <4>1. k \in 1 .. j
        BY <1>3, <3>1
      <4>2. buffer[k] = g[a + k]
        BY <1>2, <4>1 DEF j
      <4> QED BY <2>4, <4>1, <4>2
    <3>2. CASE ~(k <= j)
      <4>1. k - j \in 1 .. m /\ k = j + (k - j) /\ n + (k - j) = a + k
        BY <1>1, <1>3, <3>2 DEF j
      <4>2. f[k] = b[k - j]
        BY <2>5, <4>1
      <4> QED BY <4>1, <4>2
    <3> QED BY <3>1, <3>2
  <2>7. a <= n + m /\ n + m < a + Block
    BY <1>1, <1>2, <2>2 DEF j
  <2>8. Holds(g, n + m, "idle", absorbed, f, data, hii)
    BY <1>2, <2>3, <2>6, <2>7 DEF Holds
  <2> QED BY <1>2, <1>5, <2>1, <2>8 DEF f
<1> QED BY <1>6, <1>7

\* Within an update the sum with the length of a block does not wrap.
LEMMA MoreIs ==
    ASSUME hii \in 0 .. Len(data), data \in Seq(Tagged), Len(data) + Block <= Word
    PROVE  /\ MoreBlocks <=> hii + Block <= Len(data)
           /\ MoreBlocks => (hii + Block) % Word = hii + Block
<1> DEFINE m == Len(data)
<1>1. Block \in Nat \ {0} /\ Word \in Nat \ {0} /\ m \in Nat
  BY HashSizesAre, LenProperties
<1> HIDE DEF m
<1>2. hii \in 0 .. m /\ m + Block <= Word
  BY DEF m
<1>3. (hii + Block - 1) % Word = hii + Block - 1
  <2>1. hii + Block - 1 \in 0 .. Word - 1
    BY <1>1, <1>2
  <2> QED BY <1>1, <2>1, Undivided
<1>4. MoreBlocks <=> hii + Block - 1 < m
  BY <1>3 DEF MoreBlocks, m
<1>5. ASSUME hii + Block <= m
      PROVE  (hii + Block) % Word = hii + Block
  <2>1. hii + Block \in 0 .. Word - 1
    BY <1>1, <1>2, <1>5
  <2> QED BY <1>1, <2>1, Undivided
<1>6. hii + Block - 1 < m <=> hii + Block <= m
  BY <1>1, <1>2
<1> QED BY <1>4, <1>5, <1>6 DEF m

LEMMA BlockHolds ==
    ASSUME NEW g \in [Nat -> Tagged], NEW n \in Nat,
           Holds(g, n, hpc, absorbed, buffer, data, hii), UpdateBlock
    PROVE  Holds(g, n, hpc', absorbed', buffer', data', hii')
<1> DEFINE a == Len(absorbed)
           m == Len(data)
           r == hii + Block
           c == SubSeq(data, hii + 1, r)
<1>1. /\ hpc = "loop" /\ InBlocks(g, absorbed) /\ buffer \in [1 .. Block -> Tagged]
      /\ data \in Seq(Tagged) /\ hii \in 0 .. m /\ m + Block <= Word /\ n = a + (m - hii)
      /\ \A k \in hii + 1 .. m : data[k] = g[a + (k - hii)]
  BY DEF Holds, UpdateBlock
<1>2. Block \in Nat \ {0} /\ m \in Nat /\ a \in Nat
  BY <1>1, HashSizesAre, LenProperties DEF InBlocks
<1>3. r <= m /\ hii' = r
  BY <1>1, MoreIs DEF UpdateBlock
<1>4. absorbed' = absorbed \o c /\ UNCHANGED <<hpc, buffer, data>>
  BY DEF UpdateBlock, Transform
<1>5. c \in Seq(Tagged) /\ Len(c) = Block /\ \A k \in 1 .. Block : c[k] = data[hii + k]
  <2>1. hii \in Nat /\ hii + Block <= Len(data)
    BY <1>1, <1>2, <1>3
  <2>2. LET d == SubSeq(data, hii + 1, hii + Block)
        IN  d \in Seq(Tagged) /\ Len(d) = Block /\ \A i \in 1 .. Block : d[i] = data[hii + i]
    BY <1>1, <1>2, <2>1, PartOfSeq
  <2> QED BY <2>2
<1> HIDE DEF c
<1>6. \A k \in 1 .. Block : c[k] = g[a + k]
  <2> SUFFICES ASSUME NEW k \in 1 .. Block PROVE c[k] = g[a + k]
    OBVIOUS
  <2>1. hii + k \in hii + 1 .. m /\ hii + k - hii = k
    BY <1>1, <1>2, <1>3
  <2> HIDE DEF a
  <2>2. data[hii + k] = g[a + (hii + k - hii)]
    BY <1>1, <2>1
  <2> QED BY <1>5, <2>1, <2>2
<1>7. InBlocks(g, absorbed') /\ Len(absorbed') = a + Block
  <2>1. InBlocks(g, absorbed \o c)
    BY <1>1, <1>5, <1>6, BlockAdded
  <2>2. Len(absorbed \o c) = a + Block
    BY <1>1, <1>5, <1>6, BlockAdded
  <2> QED BY <1>4, <2>1, <2>2
<1>8. r \in 0 .. m /\ n = a + Block + (m - r)
  BY <1>1, <1>2, <1>3
<1>9. \A k \in r + 1 .. m : data[k] = g[a + Block + (k - r)]
  <2> SUFFICES ASSUME NEW k \in r + 1 .. m PROVE data[k] = g[a + Block + (k - r)]
    OBVIOUS
  <2>1. k \in hii + 1 .. m /\ a + (k - hii) = a + Block + (k - r)
    BY <1>1, <1>2
  <2> HIDE DEF a, r
  <2> QED BY <1>1, <2>1
<1> HIDE DEF a, r
<1>10. Holds(g, n, "loop", absorbed', buffer, data, r)
  BY <1>1, <1>7, <1>8, <1>9 DEF Holds
<1> QED BY <1>1, <1>3, <1>4, <1>10

LEMMA TailHolds ==
    ASSUME NEW g \in [Nat -> Tagged], NEW n \in Nat,
           Holds(g, n, hpc, absorbed, buffer, data, hii), UpdateTail
    PROVE  Holds(g, n, hpc', absorbed', buffer', data', hii')
<1> DEFINE a == Len(absorbed)
           m == Len(data)
           r == m - hii
           c == SubSeq(data, hii + 1, m)
           f == Filled(0, c)
<1>1. /\ hpc = "loop" /\ InBlocks(g, absorbed) /\ buffer \in [1 .. Block -> Tagged]
      /\ data \in Seq(Tagged) /\ hii \in 0 .. m /\ m + Block <= Word /\ n = a + (m - hii)
      /\ \A k \in hii + 1 .. m : data[k] = g[a + (k - hii)]
  BY DEF Holds, UpdateTail
<1>2. Block \in Nat \ {0} /\ m \in Nat /\ a \in Nat
  BY <1>1, HashSizesAre, LenProperties DEF InBlocks
<1>3. r \in Nat /\ r < Block
  <2>1. ~(hii + Block <= Len(data))
    BY <1>1, MoreIs DEF UpdateTail
  <2> QED BY <1>1, <1>2, <2>1
<1>4. buffer' = f /\ data' = << >> /\ hii' = 0 /\ hpc' = "idle" /\ absorbed' = absorbed
  BY DEF UpdateTail
<1>5. c \in Seq(Tagged) /\ Len(c) = r /\ \A k \in 1 .. r : c[k] = data[hii + k]
  <2>1. hii \in Nat /\ hii + r = m
    BY <1>1, <1>2
  <2> HIDE DEF r
  <2>2. LET d == SubSeq(data, hii + 1, hii + r)
        IN  d \in Seq(Tagged) /\ Len(d) = r /\ \A i \in 1 .. r : d[i] = data[hii + i]
    BY <1>1, <1>2, <1>3, <2>1, PartOfSeq
  <2> QED BY <2>1, <2>2
<1> HIDE DEF c
<1>6. f \in [1 .. Block -> Tagged] /\ \A k \in 1 .. r : f[0 + k] = c[k]
  <2>1. 0 \in 0 .. Block - 1 /\ 0 + Len(c) <= Block
    BY <1>2, <1>3, <1>5
  <2>2. f \in [1 .. Block -> Tagged]
    BY <1>1, <1>5, <2>1, FilledIs
  <2>3. \A k \in 1 .. Len(c) : f[0 + k] = c[k]
    BY <1>1, <1>5, <2>1, FilledIs
  <2> QED BY <1>5, <2>2, <2>3
<1> HIDE DEF f
<1>7. \A k \in 1 .. n - a : f[k] = g[a + k]
  <2> SUFFICES ASSUME NEW k \in 1 .. n - a PROVE f[k] = g[a + k]
    OBVIOUS
  <2>1. k \in 1 .. r /\ 0 + k = k /\ hii + k \in hii + 1 .. m /\ hii + k - hii = k
    BY <1>1, <1>2
  <2>2. f[k] = data[hii + k]
    <3> HIDE DEF r
    <3> QED BY <1>5, <1>6, <2>1
  <2> HIDE DEF a
  <2>3. data[hii + k] = g[a + (hii + k - hii)]
    BY <1>1, <2>1
  <2> QED BY <2>1, <2>2, <2>3
<1>8. a <= n /\ n < a + Block
  BY <1>1, <1>2, <1>3
<1>9. << >> \in Seq(Tagged)
  BY EmptySeq
<1>10. Holds(g, n, "idle", absorbed, f, << >>, 0)
  BY <1>1, <1>6, <1>7, <1>8, <1>9 DEF Holds
<1> QED BY <1>4, <1>10

LEMMA HoldsOther ==
    ASSUME NEW g, NEW h, NEW n \in Nat, \A k \in 1 .. n : h[k] = g[k],
           NEW p, p # "loop", NEW a, NEW b, NEW d, NEW i, Holds(g, n, p, a, b, d, i)
    PROVE  Holds(h, n, p, a, b, d, i)
<1>1. /\ a \in Seq(Tagged) /\ Len(a) % Block = 0 /\ \A k \in 1 .. Len(a) : a[k] = g[k]
      /\ b \in [1 .. Block -> Tagged] /\ d \in Seq(Tagged)
      /\ Len(a) <= n /\ n < Len(a) + Block /\ \A k \in 1 .. n - Len(a) : b[k] = g[Len(a) + k]
  BY DEF Holds, InBlocks
<1> DEFINE m == Len(a)
<1>2. m \in Nat
  BY <1>1, LenProperties
<1>3. \A k \in 1 .. m : a[k] = h[k]
  BY <1>1, <1>2
<1>4. \A k \in 1 .. n - m : b[k] = h[m + k]
  <2> SUFFICES ASSUME NEW k \in 1 .. n - m PROVE b[k] = h[m + k]
    OBVIOUS
  <2>1. m + k \in 1 .. n
    BY <1>2
  <2> QED BY <1>1, <2>1
<1> QED BY <1>1, <1>3, <1>4 DEF Holds, InBlocks

\* No update is so long that its bits do not fit into a word, and the whole
\* message has not more bits than two words count.
ShortUpdates ==
    /\ \A more \in Updates : more * ByteBits < Word
    /\ MaxTotal * ByteBits < Word * Word

Bits(n) == <<(n * ByteBits) % Word, (n * ByteBits) \div Word>>

\* n bytes of the padded message have been given to sha1_update.
Given(n) ==
    /\ Holds(PlacesOf(total), n, hpc, absorbed, buffer, data, hii)
    /\ count[1] = (n * ByteBits) % Word
    /\ phase = "data" => n = total /\ count = Bits(total)
    /\ phase = "pad" => n \in total + 1 .. total + 1 + Zeros(total)
    /\ phase = "length" => n = PaddedLength(total)

HashInv ==
    /\ total \in Nat /\ total <= MaxTotal
    /\ hpc \in {"idle", "loop", "done"} /\ phase \in {"data", "pad", "length"}
    /\ hpc = "done" => phase = "length"
    /\ phase # "data" => finalcount = Bits(total)
    /\ \E n \in Nat : Given(n)

LEMMA HashInit == HInit => HashInv
<1> SUFFICES ASSUME HInit PROVE HashInv
  OBVIOUS
<1>1. Block \in Nat \ {0} /\ Word \in Nat \ {0} /\ ByteBits \in Nat /\ MaxTotal \in Nat
  BY HashSizesAre, HashSizeAssumption
<1>2. << >> \in Seq(Tagged) /\ Len(<< >>) = 0 /\ 1 .. 0 = {}
  BY EmptySeq
<1>3. 0 % Block = 0 /\ 0 % Word = 0 /\ 0 \div Word = 0 /\ 0 * ByteBits = 0
  BY <1>1, Undivided
<1>4. buffer \in [1 .. Block -> Tagged]
  <2>1. <<"junk", 0>> \in Tagged
    BY TaggedAre
  <2> QED BY <2>1 DEF HInit
<1>5. InBlocks(PlacesOf(0), << >>)
  BY <1>2, <1>3 DEF InBlocks
<1>6. Holds(PlacesOf(0), 0, "idle", << >>, buffer, << >>, 0)
  BY <1>1, <1>2, <1>4, <1>5 DEF Holds
<1>7. Bits(0) = <<0, 0>>
  BY <1>3 DEF Bits
<1>8. Given(0)
  BY <1>3, <1>6, <1>7 DEF Given, HInit
<1> QED BY <1>1, <1>8 DEF HashInv, HInit

LEMMA AbsorbHash ==
    ASSUME ShortUpdates, HashInv, NEW more \in Updates, Absorb(more)
    PROVE  HashInv'
<1> DEFINE b == Message(total, total + more)
           g == PlacesOf(total)
           h == PlacesOf(total + more)
<1>1. /\ more \in Nat /\ total \in Nat /\ total + more \in Nat /\ MaxTotal \in Nat
      /\ Word \in Nat \ {0} /\ ByteBits \in Nat
  <2>1. more \in Nat /\ MaxTotal \in Nat
    BY HashSizeAssumption
  <2>2. total \in Nat
    BY DEF HashInv
  <2> QED BY <2>1, <2>2, HashSizesAre
<1>2. /\ phase = "data" /\ total + more <= MaxTotal /\ Update(b) /\ total' = total + more
      /\ UNCHANGED <<phase, finalcount>>
  BY DEF Absorb
<1>3. PICK n \in Nat : Given(n)
  BY DEF HashInv
<1>4. /\ Holds(g, total, hpc, absorbed, buffer, data, hii) /\ count = Bits(total)
      /\ count[1] = (total * ByteBits) % Word /\ hpc = "idle"
  BY <1>2, <1>3 DEF Given, Update
<1>5. b \in Seq(Tagged) /\ Len(b) = more /\ \A k \in 1 .. more : b[k] = <<"message", total + k>>
  BY <1>1, MessageIs
<1>6. g \in [Nat -> Tagged] /\ h \in [Nat -> Tagged] /\ \A k \in 1 .. total : h[k] = g[k]
  BY <1>1, PlacesAre
<1>7. \A k \in 1 .. more : b[k] = h[total + k]
  <2> SUFFICES ASSUME NEW k \in 1 .. more PROVE b[k] = h[total + k]
    OBVIOUS
  <2>1. total + k \in 1 .. total + more
    BY <1>1
  <2>2. h[total + k] = <<"message", total + k>>
    BY <1>1, <2>1, PlacesAre
  <2> QED BY <1>5, <2>2
<1> HIDE DEF b, g, h
<1>8. Holds(h, total, hpc, absorbed, buffer, data, hii)
  BY <1>1, <1>4, <1>6, HoldsOther
<1>9. Len(b) * ByteBits < Word /\ \A k \in 1 .. Len(b) : b[k] = h[total + k]
  BY <1>5, <1>7 DEF ShortUpdates
<1>10. Holds(h, total + Len(b), hpc', absorbed', buffer', data', hii')
  BY <1>1, <1>2, <1>4, <1>5, <1>6, <1>8, <1>9, UpdateHolds
<1>11. hpc' \in {"idle", "loop"} /\ count' = Counted(Len(b))
  BY <1>1, <1>2, <1>4, <1>5, <1>6, <1>8, <1>9, UpdateHolds
<1>12. count' = Bits(total + more)
  <2> DEFINE t == total + more
  <2>1. t * ByteBits < Word * Word
    <3>1. PICK e \in Nat : MaxTotal = t + e
      <4>1. MaxTotal - t \in Nat /\ MaxTotal = t + (MaxTotal - t)
        BY <1>1, <1>2
      <4> QED BY <4>1
    <3> HIDE DEF t
    <3>2. t \in Nat
      BY <1>1 DEF t
    <3>3. MaxTotal * ByteBits = t * ByteBits + e * ByteBits
      BY <1>1, <3>1, <3>2
    <3>4. t * ByteBits \in Nat /\ e * ByteBits \in Nat /\ MaxTotal * ByteBits < Word * Word /\ Word * Word \in Nat
      BY <1>1, <3>2 DEF ShortUpdates
    <3> QED BY <3>3, <3>4
  <2>2. count[2] = (total * ByteBits) \div Word
    BY <1>4 DEF Bits
  <2>3. more * ByteBits < Word
    BY DEF ShortUpdates
  <2>4. Counted(more)[1] = ((total + more) * ByteBits) % Word
    BY <1>1, <1>4, <2>3, CountedIs
  <2>5. Counted(more)[2] = ((total + more) * ByteBits) \div Word
    BY <1>1, <1>4, <2>1, <2>2, <2>3, CountedIs
  <2>6. Counted(more) = <<Counted(more)[1], Counted(more)[2]>>
    BY DEF Counted
  <2> QED BY <1>5, <1>11, <2>4, <2>5, <2>6 DEF Bits
<1>13. ASSUME NEW t \in Nat, t = total'
       PROVE  Given(t)'
  <2>1. Holds(PlacesOf(total'), t, hpc', absorbed', buffer', data', hii')
    BY <1>2, <1>5, <1>10, <1>13 DEF h
  <2>2. count'[1] = (t * ByteBits) % Word
    BY <1>2, <1>12, <1>13 DEF Bits
  <2>3. phase' = "data" /\ count' = Bits(total')
    BY <1>2, <1>12
  <2> QED BY <1>13, <2>1, <2>2, <2>3 DEF Given
<1>14. \E m \in Nat : Given(m)'
  BY <1>1, <1>2, <1>13
<1> QED BY <1>1, <1>2, <1>11, <1>14 DEF HashInv

LEMMA UpdateGiven ==
    ASSUME total \in Nat, NEW n \in Nat, Given(n), NEW b \in Seq(Tagged),
           Len(b) * ByteBits < Word, \A k \in 1 .. Len(b) : b[k] = PlacesOf(total)[n + k], Update(b)
    PROVE  /\ Holds(PlacesOf(total), n + Len(b), hpc', absorbed', buffer', data', hii')
           /\ count'[1] = ((n + Len(b)) * ByteBits) % Word
           /\ hpc' \in {"idle", "loop"}
<1> DEFINE g == PlacesOf(total)
<1>1. g \in [Nat -> Tagged] /\ Len(b) \in Nat
  BY PlacesAre, LenProperties
<1>2. Holds(g, n, hpc, absorbed, buffer, data, hii) /\ count[1] = (n * ByteBits) % Word
  BY DEF Given
<1> HIDE DEF g
<1>3. \A k \in 1 .. Len(b) : b[k] = g[n + k]
  BY DEF g
<1>4. Holds(g, n + Len(b), hpc', absorbed', buffer', data', hii')
  BY <1>1, <1>2, <1>3, UpdateHolds
<1>5. hpc' \in {"idle", "loop"} /\ count' = Counted(Len(b))
  BY <1>1, <1>2, <1>3, UpdateHolds
<1>6. Counted(Len(b))[1] = ((n + Len(b)) * ByteBits) % Word
  BY <1>1, <1>2, CountedIs
<1> QED BY <1>4, <1>5, <1>6 DEF g

LEMMA FinalHash ==
    ASSUME HashInv, Final
    PROVE  HashInv'
<1> DEFINE b == << <<"one", 0>> >>
<1>1. total \in Nat /\ total <= MaxTotal
  BY DEF HashInv
<1>2. phase = "data" /\ Update(b) /\ finalcount' = count /\ phase' = "pad" /\ UNCHANGED total
  BY DEF Final
<1>3. Given(total) /\ count = Bits(total)
  BY <1>2 DEF HashInv, Given
<1>4. b \in Seq(Tagged) /\ Len(b) = 1 /\ b[1] = <<"one", 0>>
  <2>1. <<"one", 0>> \in Tagged
    BY TaggedAre
  <2> QED BY <2>1
<1> HIDE DEF b
<1>5. Len(b) * ByteBits < Word /\ \A k \in 1 .. Len(b) : b[k] = PlacesOf(total)[total + k]
  <2>1. PlacesOf(total)[total + 1] = <<"one", 0>>
    BY <1>1, PlacesAre
  <2>2. 1 * ByteBits < Word
    BY HashSizesAre
  <2>3. \A k \in 1 .. 1 : k = 1
    OBVIOUS
  <2> QED BY <1>4, <2>1, <2>2, <2>3
<1>6. Holds(PlacesOf(total), total + 1, hpc', absorbed', buffer', data', hii')
  BY <1>1, <1>2, <1>3, <1>4, <1>5, UpdateGiven
<1>7. count'[1] = ((total + 1) * ByteBits) % Word /\ hpc' \in {"idle", "loop"}
  BY <1>1, <1>2, <1>3, <1>4, <1>5, UpdateGiven
<1>8. ASSUME NEW n \in Nat, n = total + 1
      PROVE  Given(n)'
  <2>1. Zeros(total) \in Nat
    BY <1>1, HashSizesAre, ZerosIs
  <2>2. n \in total + 1 .. total + 1 + Zeros(total)
    BY <1>1, <1>8, <2>1
  <2>3. Holds(PlacesOf(total'), n, hpc', absorbed', buffer', data', hii') /\ count'[1] = (n * ByteBits) % Word
    BY <1>2, <1>6, <1>7, <1>8
  <2>4. n \in total' + 1 .. total' + 1 + Zeros(total')
    BY <1>2, <2>2
  <2> QED BY <1>2, <2>3, <2>4 DEF Given
<1>9. \E n \in Nat : Given(n)'
  BY <1>1, <1>8
<1>10. finalcount' = Bits(total')
  BY <1>2, <1>3
<1> QED BY <1>1, <1>2, <1>7, <1>9, <1>10 DEF HashInv

LEMMA PadZeroHash ==
    ASSUME HashInv, PadZero
    PROVE  HashInv'
<1> DEFINE b == << <<"zero", 0>> >>
           z == Zeros(total)
<1>1. total \in Nat /\ total <= MaxTotal
  BY DEF HashInv
<1>2. phase = "pad" /\ ~RoomForLength /\ Update(b) /\ UNCHANGED <<phase, finalcount, total>>
  BY DEF PadZero
<1>3. PICK n \in Nat : Given(n)
  BY DEF HashInv
<1>4. n \in total + 1 .. total + 1 + z /\ count[1] = (n * ByteBits) % Word /\ z \in Nat
  BY <1>1, <1>2, <1>3, ZerosIs, HashSizesAre DEF Given
<1>5. n + 1 \in total + 2 .. total + 1 + z
  <2>1. n % Block # Block - Field
    BY <1>2, <1>4, WaitingIs DEF RoomForLength, Waiting
  <2>2. n # total + 1 + z
    BY <1>1, <1>4, <2>1, RoomIs
  <2> HIDE DEF z
  <2> QED BY <1>1, <1>4, <2>2
<1>6. b \in Seq(Tagged) /\ Len(b) = 1 /\ b[1] = <<"zero", 0>>
  <2>1. <<"zero", 0>> \in Tagged
    BY TaggedAre
  <2> QED BY <2>1
<1> HIDE DEF b
<1>7. Len(b) * ByteBits < Word /\ \A k \in 1 .. Len(b) : b[k] = PlacesOf(total)[n + k]
  <2>1. PlacesOf(total)[n + 1] = <<"zero", 0>>
    BY <1>1, <1>5, PlacesAre
  <2>2. 1 * ByteBits < Word
    BY HashSizesAre
  <2>3. \A k \in 1 .. 1 : k = 1
    OBVIOUS
  <2> QED BY <1>6, <2>1, <2>2, <2>3
<1>8. Holds(PlacesOf(total), n + 1, hpc', absorbed', buffer', data', hii')
  BY <1>1, <1>2, <1>3, <1>6, <1>7, UpdateGiven
<1>9. count'[1] = ((n + 1) * ByteBits) % Word /\ hpc' \in {"idle", "loop"}
  BY <1>1, <1>2, <1>3, <1>6, <1>7, UpdateGiven
<1>10. Given(n + 1)'
  <2>1. Holds(PlacesOf(total'), n + 1, hpc', absorbed', buffer', data', hii')
    BY <1>2, <1>8
  <2>2. n + 1 \in total' + 1 .. total' + 1 + Zeros(total')
    <3> HIDE DEF z
    <3>1. n + 1 \in total + 1 .. total + 1 + z
      BY <1>1, <1>4, <1>5
    <3> QED BY <1>2, <3>1 DEF z
  <2> QED BY <1>2, <1>9, <2>1, <2>2 DEF Given
<1>11. n + 1 \in Nat
  OBVIOUS
<1>12. finalcount' = Bits(total')
  BY <1>2 DEF HashInv
<1> QED BY <1>1, <1>2, <1>9, <1>10, <1>11, <1>12 DEF HashInv

LEMMA PadLengthHash ==
    ASSUME HashInv, PadLength
    PROVE  HashInv'
<1> DEFINE b == << <<"high", finalcount[2]>>, <<"low", finalcount[1]>> >>
           z == Zeros(total)
           n == total + 1 + z
<1>1. total \in Nat /\ total <= MaxTotal
  BY DEF HashInv
<1>2. /\ phase = "pad" /\ RoomForLength /\ Update(b) /\ phase' = "length"
      /\ UNCHANGED <<finalcount, total>>
  BY DEF PadLength
<1>3. Given(n) /\ n \in Nat /\ z \in Nat
  <2>1. PICK m \in Nat : Given(m)
    BY DEF HashInv
  <2>2. m \in total + 1 .. total + 1 + z /\ count[1] = (m * ByteBits) % Word /\ z \in Nat
    BY <1>1, <1>2, <2>1, ZerosIs, HashSizesAre DEF Given
  <2>3. m % Block = Block - Field
    BY <1>2, <2>2, WaitingIs DEF RoomForLength, Waiting
  <2>4. m = n
    BY <1>1, <2>2, <2>3, RoomIs
  <2> QED BY <2>1, <2>2, <2>4
<1>4. finalcount = Bits(total)
  BY <1>2 DEF HashInv
<1>5. b[1] = PlacesOf(total)[n + 1] /\ b[2] = PlacesOf(total)[n + 2]
  <2>1. n + 1 = total + 2 + z /\ n + 2 = total + 3 + z
    BY <1>1, <1>3
  <2>2. PlacesOf(total)[total + 2 + z] = <<"high", (total * ByteBits) \div Word>>
    BY <1>1, PlacesAre
  <2>3. PlacesOf(total)[total + 3 + z] = <<"low", (total * ByteBits) % Word>>
    BY <1>1, PlacesAre
  <2> QED BY <1>4, <2>1, <2>2, <2>3 DEF Bits
<1>6. b \in Seq(Tagged) /\ Len(b) = 2
  <2>1. PlacesOf(total) \in [Nat -> Tagged]
    BY <1>1, PlacesAre
  <2> HIDE DEF n
  <2>2. n + 1 \in Nat /\ n + 2 \in Nat
    BY <1>3
  <2>3. b[1] \in Tagged /\ b[2] \in Tagged
    BY <1>5, <2>1, <2>2
  <2> QED BY <2>3
<1> HIDE DEF b, n, z
<1>7. Len(b) * ByteBits < Word /\ \A k \in 1 .. Len(b) : b[k] = PlacesOf(total)[n + k]
  <2>1. 2 * ByteBits < Word
    BY HashSizesAre
  <2>2. \A k \in 1 .. 2 : k = 1 \/ k = 2
    OBVIOUS
  <2> QED BY <1>5, <1>6, <2>1, <2>2
<1>8. Holds(PlacesOf(total), n + 2, hpc', absorbed', buffer', data', hii')
  BY <1>1, <1>2, <1>3, <1>6, <1>7, UpdateGiven
<1>9. count'[1] = ((n + 2) * ByteBits) % Word /\ hpc' \in {"idle", "loop"}
  BY <1>1, <1>2, <1>3, <1>6, <1>7, UpdateGiven
<1>10. ASSUME NEW m \in Nat, m = n + 2
       PROVE  Given(m)'
  <2>1. Holds(PlacesOf(total'), m, hpc', absorbed', buffer', data', hii') /\ count'[1] = (m * ByteBits) % Word
    BY <1>2, <1>8, <1>9, <1>10
  <2>2. m = PaddedLength(total')
    BY <1>1, <1>2, <1>3, <1>10 DEF PaddedLength, Field, n, z
  <2> QED BY <1>2, <2>1, <2>2 DEF Given
<1>11. \E m \in Nat : Given(m)'
  BY <1>3, <1>10
<1>12. finalcount' = Bits(total')
  BY <1>2, <1>4
<1> QED BY <1>1, <1>2, <1>9, <1>11, <1>12 DEF HashInv

LEMMA RunningHash ==
    ASSUME HashInv, UpdateBlock \/ UpdateTail \/ Finished \/ UNCHANGED hvars
    PROVE  HashInv'
<1>1. PICK n \in Nat : Given(n)
  BY DEF HashInv
<1>2. UNCHANGED <<phase, count, finalcount, total>>
  BY DEF UpdateBlock, UpdateTail, Finished, hvars
<1>3. total \in Nat /\ PlacesOf(total) \in [Nat -> Tagged]
  BY PlacesAre DEF HashInv
<1>4. /\ Holds(PlacesOf(total), n, hpc', absorbed', buffer', data', hii')
      /\ hpc' \in {"idle", "loop", "done"} /\ (hpc' = "done" => phase' = "length")
  <2>1. Holds(PlacesOf(total), n, hpc, absorbed, buffer, data, hii)
    BY <1>1 DEF Given
  <2>2. CASE UpdateBlock
    <3>1. hpc' = "loop"
      BY <2>2 DEF UpdateBlock
    <3> QED BY <1>3, <2>1, <2>2, <3>1, BlockHolds
  <2>3. CASE UpdateTail
    <3>1. hpc' = "idle"
      BY <2>3 DEF UpdateTail
    <3> QED BY <1>3, <2>1, <2>3, <3>1, TailHolds
  <2>4. CASE Finished
    <3>1. /\ hpc = "idle" /\ hpc' = "done" /\ phase' = "length"
          /\ UNCHANGED <<absorbed, buffer, data, hii>>
      BY <2>4 DEF Finished
    <3>2. Holds(PlacesOf(total), n, "done", absorbed, buffer, data, hii)
      BY <2>1, <3>1 DEF Holds
    <3> QED BY <3>1, <3>2
  <2>5. CASE UNCHANGED hvars
    BY <2>1, <2>5 DEF hvars, HashInv
  <2> QED BY <2>2, <2>3, <2>4, <2>5
<1>5. Given(n)'
  <2>1. Holds(PlacesOf(total'), n, hpc', absorbed', buffer', data', hii')
    BY <1>2, <1>4
  <2> QED BY <1>1, <1>2, <2>1 DEF Given
<1> QED BY <1>2, <1>4, <1>5 DEF HashInv

LEMMA HashInvariance == ASSUME ShortUpdates PROVE HSpec => []HashInv
<1>1. HInit => HashInv
  BY HashInit
<1>2. HashInv /\ [HNext]_hvars => HashInv'
  <2> SUFFICES ASSUME HashInv, [HNext]_hvars PROVE HashInv'
    OBVIOUS
  <2>1. CASE \E more \in Updates : Absorb(more)
    BY <2>1, AbsorbHash
  <2>2. CASE Final
    BY <2>2, FinalHash
  <2>3. CASE PadZero
    BY <2>3, PadZeroHash
  <2>4. CASE PadLength
    BY <2>4, PadLengthHash
  <2>5. CASE UpdateBlock \/ UpdateTail \/ Finished \/ UNCHANGED hvars
    BY <2>5, RunningHash
  <2> QED BY <2>1, <2>2, <2>3, <2>4, <2>5 DEF HNext, HRunning
<1> QED BY <1>1, <1>2, PTL DEF HSpec

\* At the end the blocks are the whole padded message.
LEMMA DoneHashes == HashInv => HashesMessage
<1> SUFFICES ASSUME HashInv, hpc = "done" PROVE absorbed = Padded(total)
  BY DEF HashesMessage
<1> DEFINE a == Len(absorbed)
           n == PaddedLength(total)
           g == PlacesOf(total)
<1>1. total \in Nat /\ phase = "length"
  BY DEF HashInv
<1>2. Given(n)
  BY <1>1 DEF HashInv, Given
<1>3. /\ absorbed \in Seq(Tagged) /\ a % Block = 0 /\ a <= n /\ n < a + Block
      /\ \A k \in 1 .. a : absorbed[k] = g[k]
  BY <1>2 DEF Given, Holds, InBlocks
<1>4. n % Block = 0 /\ n \in Nat /\ Block \in Nat \ {0} /\ a \in Nat
  <2>1. Zeros(total) \in Nat
    BY <1>1, ZerosIs, HashSizesAre
  <2>2. n \in Nat
    BY <1>1, <2>1 DEF PaddedLength, Field
  <2> QED BY <1>1, <1>3, <2>2, ZerosIs, HashSizesAre, LenProperties
<1>5. a = n
  <2> HIDE DEF a, n
  <2>1. n % Block = n - a
    BY <1>3, <1>4, PastMultiple
  <2> QED BY <1>4, <2>1
<1>6. Padded(total) \in Seq(Tagged) /\ Len(Padded(total)) = n
  BY <1>1, PaddedIs
<1>7. \A k \in 1 .. n : Padded(total)[k] = g[k]
  BY <1>1, PaddedIs
<1> HIDE DEF n, g
<1>8. Len(absorbed) = Len(Padded(total)) /\ \A k \in 1 .. Len(absorbed) : absorbed[k] = Padded(total)[k]
  BY <1>3, <1>5, <1>6, <1>7
<1> QED BY <1>3, <1>6, <1>8, SeqEqual

\* However the message is cut into updates, and whatever is in the buffer at
\* first, the blocks transformed are those of the padded message, for every
\* size of a block, a word and a byte, if no single update has as many bits
\* as do not fit into a word: sha1_update counts those twice (sha1.c:85).
THEOREM HashesWhole == ASSUME ShortUpdates PROVE HSpec => []HashesMessage
<1>1. HSpec => []HashInv
  BY HashInvariance
<1>2. HashInv => HashesMessage
  BY DoneHashes
<1> QED BY <1>1, <1>2, PTL

----------------------------------------------------------------------

\* A round is undone, so two numbers have not the same.
LEMMA RoundIs ==
    ASSUME NEW q \in Pairs
    PROVE  Round(q) \in Pairs /\ Deround(Round(q)) = q
<1> DEFINE R == 0 .. ByteRange - 1
           a == q[1]
           b == q[2]
           s == Shuffle(b)
           x == ByteXor(a, s)
<1>1. a \in R /\ b \in R /\ q = <<a, b>>
  BY DEF Pairs
<1>2. s \in R
  <2>1. ByteRange \in Nat \ {0} /\ (- b - 1) * 4 + 2 \in Int
    BY <1>1, XorAssumption
  <2> DEFINE t == (- b - 1) * 4 + 2
  <2>2. s = t % ByteRange
    BY DEF Shuffle
  <2> HIDE DEF s, t
  <2>3. t \in Int
    BY <2>1 DEF t
  <2> QED BY <2>1, <2>2, <2>3
<1> HIDE DEF s
<1>3. x \in R /\ ByteXor(x, s) = a
  BY <1>1, <1>2, XorAssumption
<1>4. Round(q) = <<b, x>>
  BY DEF Round, s
<1> HIDE DEF x, a, b
<1>5. Round(q) \in Pairs
  BY <1>1, <1>3, <1>4 DEF Pairs
<1>6. Deround(Round(q)) = <<ByteXor(x, s), b>>
  BY <1>4 DEF Deround, s
<1> QED BY <1>1, <1>3, <1>5, <1>6

LEMMA BytesOfIs ==
    ASSUME NEW n \in 0 .. ByteRange * ByteRange - 1
    PROVE  BytesOf(n) \in Pairs /\ n = ByteRange * BytesOf(n)[2] + BytesOf(n)[1]
<1>1. ByteRange \in Nat \ {0} /\ n \in Nat
  BY XorAssumption
<1> DEFINE q == n \div ByteRange
           r == n % ByteRange
<1>2. q \in Nat /\ r \in 0 .. ByteRange - 1 /\ n = ByteRange * q + r
  <2>1. n \div ByteRange \in Nat /\ n % ByteRange \in 0 .. ByteRange - 1
        /\ n = ByteRange * (n \div ByteRange) + (n % ByteRange)
    BY <1>1, Divided
  <2> QED BY <2>1
<1>3. q \in 0 .. ByteRange - 1
  BY <1>1, QuotientBelow
<1>4. BytesOf(n) = <<r, q>>
  BY DEF BytesOf
<1> HIDE DEF q, r
<1> QED BY <1>2, <1>3, <1>4 DEF Pairs

LEMMA RoundsDiffer ==
    ASSUME NEW m \in 0 .. ByteRange * ByteRange - 1, NEW n \in 0 .. ByteRange * ByteRange - 1,
           Round(BytesOf(m)) = Round(BytesOf(n))
    PROVE  m = n
<1>1. BytesOf(m) \in Pairs /\ BytesOf(n) \in Pairs
  BY BytesOfIs
<1>2. BytesOf(m) = BytesOf(n)
  <2>1. Deround(Round(BytesOf(m))) = BytesOf(m) /\ Deround(Round(BytesOf(n))) = BytesOf(n)
    BY <1>1, RoundIs
  <2> QED BY <2>1
<1>3. m = ByteRange * BytesOf(m)[2] + BytesOf(m)[1] /\ n = ByteRange * BytesOf(n)[2] + BytesOf(n)[1]
  BY BytesOfIs
<1> QED BY <1>2, <1>3

\* The rounds printed are those of the numbers so far.
FeistelInv ==
    /\ fpc \in {"value", "rounded", "back", "loop"} /\ number \in Pairs
    /\ fpc = "rounded" => pair = Round(number)
    /\ fpc = "back" => pair = number
    /\ fii \in 0 .. ByteRange * ByteRange
    /\ outputs = {Round(BytesOf(k)) : k \in 0 .. fii - 1}
    /\ IsFiniteSet(outputs) /\ Cardinality(outputs) = fii

LEMMA FeistelInit == FInit => FeistelInv
<1> SUFFICES ASSUME FInit PROVE FeistelInv
  OBVIOUS
<1>1. ByteRange \in Nat \ {0} /\ ByteRange * ByteRange \in Nat /\ 0 \in 0 .. ByteRange - 1
  BY XorAssumption
<1>2. 0 \in 0 .. ByteRange * ByteRange
  BY <1>1
<1>3. 0 .. 0 - 1 = {}
  OBVIOUS
<1>4. IsFiniteSet({}) /\ Cardinality({}) = 0
  BY FS_EmptySet
<1>5. <<0, 0>> \in Pairs
  BY <1>1 DEF Pairs
<1>6. {Round(BytesOf(k)) : k \in 0 .. 0 - 1} = {}
  BY <1>3
<1> QED BY <1>2, <1>4, <1>5, <1>6 DEF FInit, FeistelInv

LEMMA NextRoundFeistel ==
    ASSUME FeistelInv, NextRound
    PROVE  FeistelInv'
<1> DEFINE v == Round(BytesOf(fii))
           squares == ByteRange * ByteRange
<1>1. squares \in Nat
  BY XorAssumption
<1>2. /\ fii \in 0 .. squares - 1 /\ fii' = fii + 1 /\ outputs' = outputs \union {v}
      /\ fpc' = "loop" /\ number' = number
  BY <1>1 DEF FeistelInv, NextRound
<1>3. IsFiniteSet(outputs) /\ Cardinality(outputs) = fii
  BY DEF FeistelInv
<1>4. outputs = {Round(BytesOf(k)) : k \in 0 .. fii - 1}
  BY DEF FeistelInv
<1>5. v \notin outputs
  <2> SUFFICES ASSUME NEW k \in 0 .. fii - 1, Round(BytesOf(k)) = v PROVE FALSE
    BY <1>4
  <2>1. k \in 0 .. squares - 1 /\ k # fii
    BY <1>1, <1>2
  <2> QED BY <1>2, <2>1, RoundsDiffer
<1>6. IsFiniteSet(outputs') /\ Cardinality(outputs') = fii + 1
  <2>1. IsFiniteSet(outputs \union {v}) /\ Cardinality(outputs \union {v}) = Cardinality(outputs) + 1
    BY <1>3, <1>5, FS_AddElement
  <2> QED BY <1>2, <1>3, <2>1
<1>7. outputs' = {Round(BytesOf(k)) : k \in 0 .. fii' - 1}
  <2>1. 0 .. fii' - 1 = (0 .. fii - 1) \union {fii}
    BY <1>1, <1>2
  <2> QED BY <1>2, <1>4, <2>1
<1>8. fii' \in 0 .. squares
  BY <1>1, <1>2
<1> QED BY <1>2, <1>6, <1>7, <1>8 DEF FeistelInv

\* The number comes back from its round, and no two of all numbers have the
\* same, whatever the range of a byte and whatever exclusive or is, so long
\* as it undoes itself.
THEOREM RoundsUndone == FSpec => []RoundsPermute
<1>1. FInit => FeistelInv
  BY FeistelInit
<1>2. FeistelInv /\ [FNext]_fvars => FeistelInv'
  <2> SUFFICES ASSUME FeistelInv, [FNext]_fvars PROVE FeistelInv'
    OBVIOUS
  <2>1. CASE Show
    <3>1. number' \in Pairs /\ pair' = Round(number') /\ fpc' = "rounded" /\ UNCHANGED <<fii, outputs>>
      BY <2>1 DEF Show
    <3> QED BY <3>1 DEF FeistelInv
  <2>2. CASE Undo
    <3>1. fpc = "rounded" /\ pair' = Deround(pair) /\ fpc' = "back" /\ UNCHANGED <<number, fii, outputs>>
      BY <2>2 DEF Undo
    <3>2. pair' = number
      BY <3>1, RoundIs DEF FeistelInv
    <3> QED BY <3>1, <3>2 DEF FeistelInv
  <2>3. CASE NextRound
    BY <2>3, NextRoundFeistel
  <2>4. CASE UNCHANGED fvars
    BY <2>4 DEF fvars, FeistelInv
  <2> QED BY <2>1, <2>2, <2>3, <2>4 DEF FNext
<1>3. FeistelInv => RoundsPermute
  BY DEF FeistelInv, RoundsPermute
<1> QED BY <1>1, <1>2, <1>3, PTL DEF FSpec

----------------------------------------------------------------------
\* Cidr.  f has the powers of two up to the m-th.
Doubles(m, f) == f \in [0 .. m -> Nat] /\ f[0] = 1 /\ \A n \in 1 .. m : f[n] = 2 * f[n - 1]

LEMMA DoublesExist ==
    ASSUME NEW N \in Nat
    PROVE  \E f : Doubles(N, f)
<1> DEFINE D == {m \in 0 .. N : ~ \E f : Doubles(m, f)}
<1>1. D \subseteq Nat
  OBVIOUS
<1>2. SUFFICES ASSUME D # {} PROVE FALSE
  OBVIOUS
<1> HIDE DEF D
<1>3. PICK m \in D : \A k \in D : m <= k
  BY <1>1, <1>2, LeastNatural
<1>4. m \in 0 .. N /\ ~ \E f : Doubles(m, f)
  BY <1>3 DEF D
<1>5. m # 0
  <2>1. Doubles(0, [n \in 0 .. 0 |-> 1])
    BY DEF Doubles
  <2> QED BY <1>4, <2>1
<1>6. m - 1 \in 0 .. N /\ m - 1 \notin D /\ m \in Nat \ {0}
  BY <1>3, <1>4, <1>5
<1>7. PICK f : Doubles(m - 1, f)
  BY <1>6 DEF D
<1>8. /\ f \in [0 .. m - 1 -> Nat] /\ f[0] = 1
      /\ \A n \in 1 .. m - 1 : f[n] = 2 * f[n - 1]
  BY <1>7 DEF Doubles
<1> DEFINE c == 2 * f[m - 1]
           g == [n \in 0 .. m |-> IF n = m THEN c ELSE f[n]]
<1>9. f[m - 1] \in Nat /\ c \in Nat
  BY <1>6, <1>8
<1> HIDE DEF c
<1>10. ASSUME NEW n \in 0 .. m PROVE g[n] \in Nat
  <2>1. CASE n = m
    BY <1>9, <2>1
  <2>2. CASE n # m
    <3>1. n \in 0 .. m - 1
      BY <1>6, <2>2
    <3>2. f[n] \in Nat
      BY <1>8, <3>1
    <3> QED BY <2>2, <3>2
  <2> QED BY <2>1, <2>2
<1>11. ASSUME NEW n \in 1 .. m PROVE g[n] = 2 * g[n - 1]
  <2>1. n \in 0 .. m /\ n - 1 \in 0 .. m /\ n - 1 # m
    BY <1>6
  <2>2. g[n - 1] = f[n - 1]
    BY <2>1
  <2>3. CASE n = m
    <3>1. g[n] = c
      BY <2>1, <2>3
    <3> QED BY <2>2, <2>3, <3>1 DEF c
  <2>4. CASE n # m
    <3>1. g[n] = f[n] /\ n \in 1 .. m - 1
      BY <1>6, <2>1, <2>4
    <3> HIDE DEF g
    <3> QED BY <1>8, <2>2, <3>1
  <2> QED BY <2>3, <2>4
<1>12. g \in [0 .. m -> Nat] /\ g[0] = 1
  BY <1>6, <1>8, <1>10
<1>13. Doubles(m, g)
  <2> HIDE DEF g
  <2> QED BY <1>11, <1>12 DEF Doubles
<1> QED BY <1>4, <1>13

LEMMA PowerIs ==
    /\ \A k \in 0 .. AddressBits : Power[k] \in Nat \ {0}
    /\ Power[0] = 1
    /\ \A k \in 1 .. AddressBits : Power[k] = 2 * Power[k - 1]
<1> DEFINE N == AddressBits
           Step(g, k) == IF k = 0 THEN 1 ELSE 2 * g[k - 1]
           Eq(g) == g = [k \in 0 .. N |-> Step(g, k)]
<1>1. N \in Nat
  BY OrAssumption
<1>2. PICK f : Doubles(N, f)
  BY <1>1, DoublesExist
<1>3. f \in [0 .. N -> Nat] /\ f[0] = 1 /\ \A n \in 1 .. N : f[n] = 2 * f[n - 1]
  BY <1>2 DEF Doubles
<1>4. ASSUME NEW k \in 0 .. N PROVE f[k] = Step(f, k)
  <2>1. CASE k = 0
    BY <1>3, <2>1
  <2>2. CASE k # 0
    <3>1. k \in 1 .. N
      BY <1>1, <2>2
    <3> QED BY <1>3, <2>2, <3>1
  <2> QED BY <2>1, <2>2
<1>5. Eq(f)
  <2> HIDE DEF Step, N
  <2> QED BY <1>3, <1>4
<1>6. Power = CHOOSE g : Eq(g)
  BY Zenon DEF Power
<1>7. Eq(Power)
  <2> HIDE DEF Eq
  <2> QED BY <1>5, <1>6
<1>8. \A k \in 0 .. N : Power[k] = Step(Power, k)
  <2> HIDE DEF Step, N
  <2> QED BY <1>7
<1>9. Power[0] = 1
  <2>1. 0 \in 0 .. N
    BY <1>1
  <2> QED BY <1>8, <2>1
<1>10. ASSUME NEW k \in 1 .. N PROVE Power[k] = 2 * Power[k - 1]
  <2>1. k \in 0 .. N /\ k # 0
    BY <1>1
  <2> QED BY <1>8, <2>1
<1>11. \A k \in 0 .. N : Power[k] \in Nat \ {0}
  <2> DEFINE D == {k \in 0 .. N : Power[k] \notin Nat \ {0}}
  <2>1. D \subseteq Nat
    OBVIOUS
  <2>2. SUFFICES ASSUME D # {} PROVE FALSE
    OBVIOUS
  <2> HIDE DEF D, N
  <2>3. PICK m \in D : \A k \in D : m <= k
    BY <2>1, <2>2, LeastNatural
  <2>4. m \in 0 .. N /\ Power[m] \notin Nat \ {0}
    BY <2>3 DEF D
  <2>5. m \in 1 .. N /\ m - 1 \in 0 .. N /\ m - 1 \notin D
    BY <1>1, <1>9, <2>3, <2>4
  <2>6. Power[m - 1] \in Nat \ {0} /\ Power[m] = 2 * Power[m - 1]
    BY <1>10, <2>5 DEF D
  <2> QED BY <2>4, <2>6
<1> QED BY <1>9, <1>10, <1>11

\* Every power of two up to the range of a word divides it.
LEMMA RangeIsMultiple ==
    ASSUME NEW k \in 0 .. AddressBits
    PROVE  \E t \in Nat \ {0} : AddressRange = Power[k] * t
<1> DEFINE N == AddressBits
           D == {d \in 0 .. N : ~ \E t \in Nat \ {0} : AddressRange = Power[N - d] * t}
<1>1. N \in Nat
  BY OrAssumption
<1>2. D = {}
  <2> SUFFICES ASSUME D # {} PROVE FALSE
    OBVIOUS
  <2>1. D \subseteq Nat
    OBVIOUS
  <2> HIDE DEF D, N
  <2>2. PICK m \in D : \A j \in D : m <= j
    BY <2>1, LeastNatural
  <2>3. m \in 0 .. N /\ ~ \E t \in Nat \ {0} : AddressRange = Power[N - m] * t
    BY <2>2 DEF D
  <2>4. m # 0
    <3>1. N - 0 = N /\ N \in 0 .. N
      BY <1>1
    <3>2. Power[N] \in Nat
      BY <3>1, PowerIs DEF N
    <3>3. AddressRange = Power[N - 0] * 1
      BY <3>1, <3>2 DEF AddressRange, N
    <3> QED BY <2>3, <3>3
  <2>5. m - 1 \in 0 .. N /\ m - 1 \notin D
    BY <1>1, <2>2, <2>3, <2>4
  <2>6. PICK t \in Nat \ {0} : AddressRange = Power[N - (m - 1)] * t
    BY <2>5 DEF D
  <2>7. N - (m - 1) \in 1 .. N /\ N - (m - 1) - 1 = N - m /\ N - m \in 0 .. N
    BY <1>1, <2>3, <2>4
  <2> DEFINE s == Power[N - m]
  <2>8. s \in Nat
    BY <2>7, PowerIs DEF N
  <2>9. Power[N - (m - 1)] = 2 * s
    <3>1. \A j \in 1 .. N : Power[j] = 2 * Power[j - 1]
      BY PowerIs DEF N
    <3> QED BY <2>7, <3>1
  <2> HIDE DEF s
  <2>10. AddressRange = s * (2 * t) /\ 2 * t \in Nat \ {0}
    BY <2>6, <2>8, <2>9
  <2> QED BY <2>3, <2>10 DEF s
<1>3. N - k \in 0 .. N /\ N - (N - k) = k
  BY <1>1
<1> QED BY <1>2, <1>3

\* What is printed, in terms of the number of the network among those of
\* its size.
LEMMA RangesAre ==
    ASSUME NEW a \in 0 .. All, NEW m \in 1 .. AddressBits
    PROVE  LET s == Power[AddressBits - m]
               q == a \div s
               b == s * q + s - 1
           IN  /\ Network(a, m) = s * q .. b
               /\ s \in Nat /\ s > 0 /\ q \in Nat /\ b \in 0 .. All /\ a \in s * q .. b
               /\ \A n \in Subnet(m) : Calculate(a, n).broadcast = b
               /\ \A n \in Subnet(m) : Calculate(a, n).from = (a + 1) % AddressRange
               /\ \A n \in Subnet(m) : Calculate(a, n).to = (b - 1) % AddressRange
<1> DEFINE P == AddressRange
           k == AddressBits - m
           s == Power[k]
           q == a \div s
           r == a % s
           b == s * q + s - 1
<1>1. AddressBits \in Nat /\ k \in 0 .. AddressBits
  BY OrAssumption
<1>2. s \in Nat /\ s > 0 /\ s \in Nat \ {0}
  <2>1. Power[k] \in Nat \ {0}
    BY <1>1, PowerIs
  <2> QED BY <2>1
<1>3. PICK t \in Nat \ {0} : P = s * t
  BY <1>1, RangeIsMultiple
<1>4. P \in Nat \ {0} /\ All = P - 1 /\ a \in Nat /\ a < P
  <2>1. P \in Nat \ {0}
    BY <1>1, PowerIs DEF AddressRange
  <2> QED BY <2>1 DEF All
<1>5. q = a \div s /\ r = a % s
  OBVIOUS
<1>6. WordOr(a, s - 1) = a - r + s - 1
  <2>1. k \in 0 .. AddressBits
    BY <1>1
  <2> QED BY <2>1, OrAssumption
<1> HIDE DEF s
<1>7. q \in Nat /\ r \in 0 .. s - 1 /\ a = s * q + r
  <2>1. a \div s \in Nat /\ a % s \in 0 .. s - 1 /\ a = s * (a \div s) + (a % s)
    BY <1>2, <1>4, Divided
  <2> QED BY <1>5, <2>1
<1>8. q \in 0 .. t - 1
  <2>1. a \in 0 .. s * t - 1
    BY <1>3, <1>4
  <2> QED BY <1>2, <2>1, QuotientBelow
<1> HIDE DEF q, r
<1>9. b \in 0 .. All /\ b < P
  <2>1. PICK e \in Nat : t = q + 1 + e
    <3>1. t - 1 - q \in Nat /\ t = q + 1 + (t - 1 - q)
      BY <1>8
    <3> QED BY <3>1
  <2>2. P = s * q + s + s * e /\ s * e \in Nat /\ s * q \in Nat
    BY <1>2, <1>3, <1>7, <2>1
  <2> QED BY <1>2, <1>4, <2>2
<1>10. a \in s * q .. b
  BY <1>2, <1>7
<1> DEFINE n1 == (All * s) % P
<1>11. n1 = P - s
  <2> DEFINE d == s - 1
             o == P - s
  <2>1. o \in 0 .. P - 1
    <3>1. PICK e \in Nat : t = 1 + e
      <4>1. t - 1 \in Nat /\ t = 1 + (t - 1)
        OBVIOUS
      <4> QED BY <4>1
    <3>2. P = s + s * e /\ s * e \in Nat
      BY <1>2, <1>3, <3>1
    <3> QED BY <1>2, <1>4, <3>2
  <2>2. All * s = P * d + o /\ d \in Nat
    <3> DEFINE x == P
    <3>1. All = x - 1 /\ x \in Nat
      BY <1>4
    <3>2. o = x - s
      OBVIOUS
    <3> HIDE DEF x, o
    <3>3. (x - 1) * s = x * (s - 1) + (x - s)
      BY <1>2, <3>1
    <3> QED BY <1>2, <3>1, <3>2, <3>3 DEF x
  <2> DEFINE w == All * s
  <2>3. w = P * d + o
    BY <2>2
  <2> HIDE DEF d, o, w
  <2>4. w \div P = d /\ w % P = o
    BY <1>4, <2>1, <2>2, <2>3, DivisionIs
  <2> QED BY <2>4 DEF o, w
<1>12. Subnet(m) = {P - s}
  <2>1. m # 0
    BY OrAssumption
  <2> QED BY <1>11, <2>1 DEF Subnet, s
<1>13. All - (P - s) = s - 1
  BY <1>2, <1>4
<1>14. WordOr(a, All - (P - s)) = b
  <2>1. a - r + s - 1 = b
    BY <1>2, <1>7
  <2> QED BY <1>6, <1>13, <2>1
<1>15. /\ Calculate(a, P - s).broadcast = b
       /\ Calculate(a, P - s).from = (a + 1) % P
       /\ Calculate(a, P - s).to = (b - 1) % P
  <2> HIDE DEF b
  <2> QED BY <1>14 DEF Calculate
<1>16. Network(a, m) = s * q .. b
  <2>1. Network(a, m) = {c \in 0 .. All : c \div s = q}
    BY DEF Network, s, q
  <2>2. ASSUME NEW c \in 0 .. All, c \div s = q PROVE c \in s * q .. b
    <3> DEFINE z == c % s
    <3>1. z = c % s /\ c \in Nat
      BY <1>4
    <3> HIDE DEF z
    <3>2. z \in 0 .. s - 1 /\ c = s * q + z
      <4>1. c % s \in 0 .. s - 1 /\ c = s * (c \div s) + (c % s)
        BY <1>2, <3>1, Divided
      <4> QED BY <2>2, <3>1, <4>1
    <3>3. s * q \in Nat
      BY <1>2, <1>7
    <3> QED BY <1>2, <3>1, <3>2, <3>3
  <2>3. ASSUME NEW c \in s * q .. b PROVE c \in 0 .. All /\ c \div s = q
    <3>1. s * q \in Nat
      BY <1>2, <1>7
    <3> DEFINE z == c - s * q
    <3>2. z \in 0 .. s - 1 /\ c = s * q + z /\ c \in 0 .. All
      BY <1>2, <1>4, <1>9, <3>1
    <3> HIDE DEF z
    <3>3. c \div s = q /\ c % s = z
      BY <1>2, <1>7, <3>2, DivisionIs
    <3> QED BY <3>2, <3>3
  <2> HIDE DEF b
  <2> QED BY <2>1, <2>2, <2>3
<1> HIDE DEF b, n1
<1>17. \A n \in Subnet(m) : Calculate(a, n).broadcast = b /\ Calculate(a, n).from = (a + 1) % P
                            /\ Calculate(a, n).to = (b - 1) % P
  BY <1>12, <1>15
<1> QED BY <1>2, <1>7, <1>9, <1>10, <1>16, <1>17 DEF b, s, q

\* What has been printed was computed from an address and a prefix.
CidrInv ==
    cstatus = 0 =>
       /\ ip \in 0 .. All /\ mask \in 0 .. AddressBits
       /\ \E n \in Subnet(mask) : out = Calculate(ip, n)

LEMMA CidrInvariance == CSpec => []CidrInv
<1>1. CInit => CidrInv
  BY DEF CInit, CidrInv
<1>2. CidrInv /\ [CNext]_cvars => CidrInv'
  BY DEF CidrInv, CNext, PrintRanges, Reject, cvars
<1> QED BY <1>1, <1>2, PTL DEF CSpec

\* For words of any number of bits, an or that sets the last bits, every
\* address and every prefix but the one of no length: the broadcast address
\* is the last one of the network, and the range of hosts holds what lies
\* between the argument and it, unless a sum wraps.
THEOREM NetworksRight == CSpec => []HostsOfNetwork
<1>1. CSpec => []CidrInv
  BY CidrInvariance
<1>2. CidrInv => HostsOfNetwork
  <2> SUFFICES ASSUME CidrInv, cstatus = 0, mask > 0 PROVE HostsOfNetwork
    BY DEF HostsOfNetwork
  <2> DEFINE net == Network(ip, mask)
             last == CHOOSE b \in net : \A c \in net : c <= b
             s == Power[AddressBits - mask]
             q == ip \div s
             first == s * q
             b == s * q + s - 1
  <2>1. ip \in 0 .. All /\ mask \in 1 .. AddressBits
    BY OrAssumption DEF CidrInv
  <2>2. PICK n \in Subnet(mask) : out = Calculate(ip, n)
    BY DEF CidrInv
  <2>3. /\ net = first .. b /\ s \in Nat /\ s > 0 /\ q \in Nat /\ b \in 0 .. All /\ ip \in first .. b
        /\ \A m \in Subnet(mask) : Calculate(ip, m).broadcast = b
        /\ \A m \in Subnet(mask) : Calculate(ip, m).from = (ip + 1) % AddressRange
        /\ \A m \in Subnet(mask) : Calculate(ip, m).to = (b - 1) % AddressRange
    BY <2>1, RangesAre
  <2>4. out.broadcast = b /\ out.from = (ip + 1) % AddressRange /\ out.to = (b - 1) % AddressRange
    BY <2>2, <2>3
  <2>5. first \in Nat /\ b \in Nat /\ b \in first .. b
    <3>1. s \in Nat /\ q \in Nat /\ b \in 0 .. All /\ ip \in first .. b
      <4> HIDE DEF b, first, s, q, net
      <4> QED BY <2>3
    <3>2. first \in Nat
      <4> HIDE DEF s, q
      <4> QED BY <3>1
    <3>3. All \in Int
      BY OrAssumption, PowerIs DEF All, AddressRange
    <3> HIDE DEF b, first, s
    <3> QED BY <3>1, <3>2, <3>3
  <2>6. AddressRange \in Nat \ {0} /\ All = AddressRange - 1
    <3>1. AddressBits \in 0 .. AddressBits
      BY OrAssumption
    <3> QED BY <3>1, PowerIs DEF All, AddressRange
  <2> HIDE DEF b, first
  <2>7. last = b
    <3>1. \A c \in first .. b : c <= b
      BY <2>3, <2>5
    <3>2. \A e \in first .. b : (\A c \in first .. b : c <= e) => e = b
      BY <2>3, <2>5
    <3>3. last \in first .. b /\ \A c \in first .. b : c <= last
      <4> HIDE DEF net
      <4> QED BY <2>3, <2>5, <3>1
    <3> QED BY <3>2, <3>3
  <2>8. ASSUME ip < All, last > 0
        PROVE  out.from .. out.to = {c \in net : ip < c /\ c < last}
    <3>1. (ip + 1) % AddressRange = ip + 1
      <4>1. ip + 1 \in 0 .. AddressRange - 1
        BY <2>1, <2>6, <2>8
      <4> QED BY <2>6, <4>1, Undivided
    <3>2. (b - 1) % AddressRange = b - 1
      <4>1. b - 1 \in 0 .. AddressRange - 1
        BY <2>3, <2>5, <2>6, <2>7, <2>8
      <4> QED BY <2>6, <4>1, Undivided
    <3>3. out.from .. out.to = ip + 1 .. b - 1
      BY <2>4, <3>1, <3>2
    <3>4. ip + 1 .. b - 1 = {c \in first .. b : ip < c /\ c < b}
      BY <2>3, <2>5
    <3> HIDE DEF net, last
    <3> QED BY <2>3, <2>7, <3>3, <3>4
  <2> QED BY <2>4, <2>7, <2>8 DEF HostsOfNetwork
<1> QED BY <1>1, <1>2, PTL
======================================================================
