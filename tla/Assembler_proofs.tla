-------------------------- MODULE Assembler_proofs --------------------------
(***************************************************************************)
(* Proofs about Assembly and about Installation, which both build on       *)
(* Assembler: for memories of any size and sources of any lines, of any    *)
(* length.                                                                 *)
(*                                                                         *)
(* Scanned says of what was read that there is a count of bytes after each *)
(* line that explains its size, its address, its label and the .BURN; a    *)
(* line extends that count.  The pass that redoes the .ALIGNs is a         *)
(* function of the lines it has done, and Passed says what it leaves of    *)
(* each line and each symbol.  The program that results is then Positioned:*)
(* its lines lie between the values of one rising sequence, from which its *)
(* properties follow but the one about object code, for which Weighs gives *)
(* the bytes of each line.                                                 *)
(*                                                                         *)
(* For Installation, the assembler gives a layout that is Placeable, and   *)
(* the chips of the memory are always Shaped as the layout of the          *)
(* operating system, however they were come by.  From that follows which   *)
(* chip answers each address, and so what loading, reading and writing do  *)
(* to each byte: the step of the flat memory that AddressSpace describes.  *)
(***************************************************************************)
EXTENDS Assembly, Installation, SequenceTheorems, WellFoundedInduction, TLAPS

-----------------------------------------------------------------------------
(* Remainders.                                                             *)

LEMMA Division ==
  ASSUME NEW n \in Int, NEW m \in Nat \ {0}
  PROVE  /\ n % m \in 0..m - 1
         /\ n \div m \in Int /\ n = (n \div m) * m + (n % m)
<1>1. n % m \in 0..m - 1 /\ n \div m \in Int
  OBVIOUS
<1>2. n = (n \div m) * m + (n % m)
  BY Z3T(30)
<1>3. QED
  BY <1>1, <1>2

\* A number is its own remainder if it is small, and multiples do not count.
LEMMA RemainderOfSum ==
  ASSUME NEW m \in Nat \ {0}, NEW q \in Int, NEW r \in 0..m - 1
  PROVE  (q * m + r) % m = r
BY Z3T(30)

LEMMA SmallRemainder ==
  ASSUME NEW m \in Nat \ {0}, NEW r \in 0..m - 1
  PROVE  r % m = r
<1>1. 0 * m + r = r
  OBVIOUS
<1>2. QED
  BY <1>1, RemainderOfSum

\* Remainders taken before an addition are taken again after it.
LEMMA RemainderInSum ==
  ASSUME NEW m \in Nat \ {0}, NEW a \in Int, NEW b \in Int
  PROVE  ((a % m) + b) % m = (a + b) % m
<1> DEFINE q == a \div m
           s == a % m
           p == (s + b) \div m
           t == (s + b) % m
<1>1. a = q * m + s /\ q \in Int /\ s \in Int
  BY Division
<1> HIDE DEF q, s
<1>2. s + b = p * m + t /\ p \in Int /\ t \in 0..m - 1
  <2>1. s + b \in Int
    BY <1>1
  <2>2. QED
    BY <2>1, Division
<1> HIDE DEF p, t
<1>3. (q + p) * m = q * m + p * m
  BY <1>1, <1>2
<1>4. a + b = (q + p) * m + t
  BY <1>1, <1>2, <1>3
<1>5. (a + b) % m = t
  <2>1. q + p \in Int
    BY <1>1, <1>2
  <2>2. ((q + p) * m + t) % m = t
    BY <1>2, <2>1, RemainderOfSum
  <2>3. QED
    BY <1>4, <2>2
<1>6. QED
  BY <1>5 DEF t, s

\* The size of an .ALIGN reaches the next boundary.
LEMMA AlignReaches ==
  ASSUME NEW m \in Nat \ {0}, NEW n \in Nat
  PROVE  /\ (m - (n % m)) % m \in Nat
         /\ (n + ((m - (n % m)) % m)) % m = 0
<1> DEFINE q == n \div m
           r == n % m
<1>1. n = q * m + r /\ q \in Int /\ r \in 0..m - 1
  BY Division
<1> HIDE DEF q, r
<1>2. CASE r = 0
  <2>1. m - r = 1 * m + 0 /\ n = q * m + 0
    BY <1>1, <1>2
  <2>2. (1 * m + 0) % m = 0 /\ (q * m + 0) % m = 0
    BY <1>1, RemainderOfSum
  <2>3. (m - r) % m = 0 /\ n % m = 0
    BY <2>1, <2>2
  <2>4. QED
    BY <1>2, <2>3 DEF r
<1>3. CASE r # 0
  <2>1. m - r \in 0..m - 1
    BY <1>1, <1>3
  <2>2. (m - r) % m = m - r
    BY <2>1, SmallRemainder
  <2>3. (q + 1) * m = q * m + m
    BY <1>1
  <2>4. n + (m - r) = (q + 1) * m + 0
    BY <1>1, <2>3
  <2>5. q + 1 \in Int /\ 0 \in 0..m - 1
    BY <1>1
  <2>6. ((q + 1) * m + 0) % m = 0
    BY <2>5, RemainderOfSum
  <2>7. QED
    BY <2>1, <2>2, <2>4, <2>6 DEF r
<1>4. QED
  BY <1>2, <1>3

\* The boundary below p is not below another boundary that p is not below.
LEMMA BoundaryBelow ==
  ASSUME NEW m \in Nat \ {0}, NEW p \in Nat, NEW a \in Nat, a % m = 0, a =< p
  PROVE  /\ p - (p % m) \in Nat /\ a =< p - (p % m)
         /\ (p - (p % m)) % m = 0
<1> DEFINE q == p \div m
           r == p % m
           c == a \div m
<1>1. p = q * m + r /\ q \in Int /\ r \in 0..m - 1
  BY Division
<1>2. a = c * m /\ c \in Int
  <2>1. a = c * m + (a % m) /\ c \in Int
    BY Division
  <2>2. c * m \in Int
    BY <2>1
  <2>3. QED
    BY <2>1, <2>2
<1> HIDE DEF q, r, c
<1>3. c =< q
  <2>1. SUFFICES ASSUME q + 1 =< c PROVE FALSE
    BY <1>1, <1>2
  <2>2. (q + 1) * m =< c * m
    BY <1>1, <1>2, <2>1, Z3T(30)
  <2>3. (q + 1) * m = q * m + m
    BY <1>1
  <2>4. QED
    BY <1>1, <1>2, <2>2, <2>3
<1>4. c * m =< q * m
  BY <1>1, <1>2, <1>3, Z3T(30)
<1>5. p - r = q * m + 0
  BY <1>1
<1>6. (q * m + 0) % m = 0
  BY <1>1, RemainderOfSum
<1>7. p - r \in Nat /\ a =< p - r /\ (p - r) % m = 0
  BY <1>1, <1>2, <1>4, <1>5, <1>6
<1>8. QED
  BY <1>7 DEF r

-----------------------------------------------------------------------------
(* Induction.                                                              *)

\* A set that holds 0 and the successor of each of its numbers holds all.
LEMMA Induction ==
    ASSUME NEW S, 0 \in S, \A n \in Nat : n \in S => n + 1 \in S
    PROVE  Nat \subseteq S
<1> DEFINE T == Nat \ S
           R == OpToRel(<, Nat)
<1>1. SUFFICES ASSUME T # {} PROVE FALSE
  OBVIOUS
<1>2. IsWellFoundedOn(R, Nat)
  BY NatLessThanWellFounded
<1>3. PICK x \in T : \A y \in T : ~(<<y, x>> \in R)
  <2>1. T \subseteq Nat
    OBVIOUS
  <2> HIDE DEF T, R
  <2>2. QED
    BY <1>1, <1>2, <2>1, WFMin
<1>4. x \in Nat /\ x \notin S
  OBVIOUS
<1>5. \A y \in T : ~(y < x)
  BY <1>3, <1>4 DEF OpToRel
<1>6. x # 0
  BY <1>4
<1>7. x - 1 \in Nat /\ x - 1 < x
  BY <1>4, <1>6
<1>8. x - 1 \in S
  BY <1>5, <1>7
<1>9. (x - 1) + 1 \in S
  BY <1>7, <1>8
<1>10. QED
  BY <1>4, <1>9

\* What never falls from one number to the next does not fall in all.
LEMMA Rising ==
  ASSUME NEW lo \in Nat, NEW hi \in Nat, lo =< hi, NEW f,
         \A k \in lo..hi : f[k] \in Nat,
         \A k \in lo + 1..hi : f[k - 1] =< f[k]
  PROVE  f[lo] =< f[hi]
<1> DEFINE D == {d \in Nat : lo + d =< hi => f[lo] =< f[lo + d]}
<1>1. 0 \in D
  <2>1. lo + 0 = lo /\ f[lo] \in Nat
    OBVIOUS
  <2>2. QED
    BY <2>1
<1>2. ASSUME NEW d \in Nat, d \in D PROVE d + 1 \in D
  <2>1. SUFFICES ASSUME lo + (d + 1) =< hi PROVE f[lo] =< f[lo + (d + 1)]
    OBVIOUS
  <2>2. lo + d =< hi /\ lo + d \in lo..hi /\ lo + (d + 1) \in lo + 1..hi
        /\ lo + (d + 1) \in lo..hi /\ (lo + (d + 1)) - 1 = lo + d /\ lo \in lo..hi
    BY <2>1
  <2>3. f[lo] =< f[lo + d]
    BY <1>2, <2>2
  <2>4. f[lo + d] =< f[lo + (d + 1)]
    BY <2>2
  <2>5. f[lo] \in Nat /\ f[lo + d] \in Nat /\ f[lo + (d + 1)] \in Nat
    BY <2>2
  <2> QED
    BY <2>3, <2>4, <2>5
<1>3. Nat \subseteq D
  <2> HIDE DEF D
  <2>1. QED
    BY <1>1, <1>2, Induction
<1>4. hi - lo \in D /\ lo + (hi - lo) = hi
  BY <1>3
<1>5. QED
  BY <1>4

\* What never changes from one number to the next is the same in all.
LEMMA Steady ==
  ASSUME NEW lo \in Nat, NEW hi \in Nat, lo =< hi, NEW f,
         \A k \in lo + 1..hi : f[k - 1] = f[k]
  PROVE  f[lo] = f[hi]
<1> DEFINE D == {d \in Nat : lo + d =< hi => f[lo] = f[lo + d]}
<1>1. 0 \in D
  <2>1. lo + 0 = lo
    OBVIOUS
  <2>2. QED
    BY <2>1
<1>2. ASSUME NEW d \in Nat, d \in D PROVE d + 1 \in D
  <2>1. SUFFICES ASSUME lo + (d + 1) =< hi PROVE f[lo] = f[lo + (d + 1)]
    OBVIOUS
  <2>2. lo + d =< hi /\ lo + (d + 1) \in lo + 1..hi /\ (lo + (d + 1)) - 1 = lo + d
    BY <2>1
  <2>3. f[lo] = f[lo + d]
    BY <1>2, <2>2
  <2>4. f[lo + d] = f[lo + (d + 1)]
    BY <2>2
  <2> QED
    BY <2>3, <2>4
<1>3. Nat \subseteq D
  <2> HIDE DEF D
  <2>1. QED
    BY <1>1, <1>2, Induction
<1>4. hi - lo \in D /\ lo + (hi - lo) = hi
  BY <1>3
<1>5. QED
  BY <1>4

-----------------------------------------------------------------------------
(* The scan.                                                               *)

Count(a) == Len(a.lines)

Legal(line) ==
    /\ line.command \in Commands /\ line.number \in Nat
    /\ line.command = "align" => line.number \in {2, 4, 8}
    /\ line.command \in {"burn", "equate", "block"} => line.number \in Address

\* at[i] is the count of bytes after line i.
Laid(a, at) ==
    /\ at \in [0..Count(a) -> Nat] /\ at[0] = 0 /\ at[Count(a)] = a.byteCount
    /\ \A i \in 1..Count(a) :
        /\ a.lines[i].emit = TRUE
        /\ a.lines[i].size = SizeAt(a.lines[i], at[i - 1])
        /\ at[i] = at[i - 1] + a.lines[i].size
        /\ a.lines[i].address = IF a.lines[i].command = "none" THEN -1 ELSE at[i - 1]

\* A line's label has the value of the line, and no other line has it.
Labelled(a, at) ==
    \A i \in 1..Count(a) :
        a.lines[i].label # NoSymbol =>
            /\ a.lines[i].command \notin {"none", "align"}
            /\ a.symbols[a.lines[i].label] =
                    IF a.lines[i].command = "equate" THEN Number(a.lines[i].number)
                                                     ELSE Location(at[i - 1])
            /\ \A j \in 1..Count(a) : a.lines[j].label = a.lines[i].label => i = j

\* The .BURN, if there is one only.
Burnt(a, at) ==
    /\ a.burnCount = 0 => \A i \in 1..Count(a) : a.lines[i].command # "burn"
    /\ a.burnCount = 1 => \E b \in 1..Count(a) :
            /\ \A i \in 1..Count(a) : a.lines[i].command = "burn" <=> i = b
            /\ a.burnAddress = at[b - 1] /\ a.burnValue = a.lines[b].number

Scanned(a) ==
    /\ a \in PartialAssembly
    /\ \A i \in 1..Count(a) : Legal(a.lines[i])
    /\ a.ended => Count(a) > 0 /\ a.lines[Count(a)].command = "end"
    /\ \E at : Laid(a, at) /\ Labelled(a, at) /\ Burnt(a, at)

LEMMA MemSizeType == MemSize \in Nat \ {0}
BY AssemblerAssumption, Z3T(30) DEF MemSize

LEMMA RemainderType == ASSUME NEW n \in Int PROVE n % MemSize \in Address
BY MemSizeType, Division DEF Address

LEMMA SizeType ==
  ASSUME NEW line, Legal(line), NEW n \in Nat
  PROVE  SizeAt(line, n) \in Nat
<1>1. CASE line.command = "align"
  <2>1. line.number \in Nat \ {0}
    BY <1>1 DEF Legal
  <2>2. (line.number - (n % line.number)) % line.number \in Nat
    BY <2>1, AlignReaches
  <2>3. QED
    BY <1>1, <2>2 DEF SizeAt
<1>2. CASE line.command # "align"
  BY <1>2 DEF SizeAt, Legal
<1>3. QED
  BY <1>1, <1>2

LEMMA SourceLegal == ASSUME NEW line \in SourceLine PROVE Legal(line)
BY DEF SourceLine, Legal

LEMMA PlacedLine ==
  ASSUME NEW line \in SourceLine, NEW a, a.byteCount \in Nat
  PROVE  LET p == Placed(a, line)
         IN  /\ p \in CodeLine /\ Legal(p)
             /\ p.command = line.command /\ p.label = line.label /\ p.number = line.number
             /\ p.emit = TRUE
             /\ p.size = SizeAt(line, a.byteCount) /\ p.size = SizeAt(p, a.byteCount)
             /\ p.address = IF line.command = "none" THEN -1 ELSE a.byteCount
<1> DEFINE p == Placed(a, line)
<1>1. Legal(line)
  BY SourceLegal
<1>2. SizeAt(line, a.byteCount) \in Nat
  BY <1>1, SizeType
<1>3. /\ p.command = line.command /\ p.label = line.label /\ p.number = line.number
      /\ p.emit = TRUE /\ p.size = SizeAt(line, a.byteCount)
      /\ p.address = IF line.command = "none" THEN -1 ELSE a.byteCount
  BY DEF Placed
<1>4. p \in CodeLine
  <2>1. line.command \in Commands /\ line.label \in Symbols \cup {NoSymbol}
        /\ line.operand \in Symbols \cup {NoSymbol} /\ line.number \in Nat
    BY DEF SourceLine
  <2>2. QED
    BY <1>2, <2>1 DEF Placed, CodeLine
<1> HIDE DEF p
<1>5. Legal(p)
  BY <1>1, <1>3 DEF Legal
<1>6. SizeAt(p, a.byteCount) = SizeAt(line, a.byteCount)
  BY <1>3 DEF SizeAt
<1>7. QED
  BY <1>3, <1>4, <1>5, <1>6 DEF p

LEMMA EntryTypes ==
  ASSUME NEW n \in Int
  PROVE  Absent \in Entry /\ Undefined \in Entry /\ Location(n) \in Entry /\ Number(n) \in Entry
<1>1. 0 \in Address /\ n % MemSize \in Address
  BY MemSizeType, RemainderType DEF Address
<1>2. QED
  BY <1>1 DEF Absent, Undefined, Location, Number, Entry

LEMMA EnteredType ==
  ASSUME NEW a, a.symbols \in SymbolTable, a.byteCount \in Nat, NEW line \in SourceLine
  PROVE  Entered(a, line) \in SymbolTable
<1>1. line.number \in Int /\ a.byteCount \in Int
  BY SourceLegal DEF Legal
<1>2. Number(line.number) \in Entry /\ Location(a.byteCount) \in Entry /\ Undefined \in Entry
  BY <1>1, EntryTypes
<1>3. \A s \in Symbols : a.symbols[s] \in Entry
  BY DEF SymbolTable
<1>4. QED
  BY <1>2, <1>3 DEF Entered, SymbolTable

\* What a line that is accepted adds.
LEMMA ProcessedParts ==
  ASSUME NEW a \in PartialAssembly, NEW line \in SourceLine
  PROVE  LET r == ProcessSourceLine(a, line)
             n == Count(a)
         IN  /\ Count(a) \in Nat /\ Count(r) = n + 1
             /\ \A i \in 1..n : r.lines[i] = a.lines[i]
             /\ r.lines[n + 1] = Placed(a, line)
             /\ r.symbols = Entered(a, line)
             /\ r.byteCount = a.byteCount + SizeAt(line, a.byteCount)
             /\ r.burnCount = a.burnCount + (IF line.command = "burn" THEN 1 ELSE 0)
             /\ r.burnValue = (IF line.command = "burn" THEN line.number ELSE a.burnValue)
             /\ r.burnAddress = (IF line.command = "burn" THEN a.byteCount ELSE a.burnAddress)
             /\ r.ended = (line.command = "end")
             /\ r \in PartialAssembly
<1> DEFINE r == ProcessSourceLine(a, line)
           n == Count(a)
           p == Placed(a, line)
<1>1. /\ a.lines \in Seq(CodeLine) /\ a.symbols \in SymbolTable /\ a.byteCount \in Nat
      /\ a.burnCount \in Nat /\ a.burnValue \in Address /\ a.burnAddress \in Nat
  BY DEF PartialAssembly
<1>2. p \in CodeLine
  BY <1>1, PlacedLine
<1>3. Legal(line) /\ SizeAt(line, a.byteCount) \in Nat
  BY <1>1, SourceLegal, SizeType
<1>4. Entered(a, line) \in SymbolTable
  BY <1>1, EnteredType
<1>5. r = [lines |-> Append(a.lines, p),
           symbols |-> Entered(a, line),
           byteCount |-> a.byteCount + SizeAt(line, a.byteCount),
           burnCount |-> a.burnCount + (IF line.command = "burn" THEN 1 ELSE 0),
           burnValue |-> (IF line.command = "burn" THEN line.number ELSE a.burnValue),
           burnAddress |-> (IF line.command = "burn" THEN a.byteCount ELSE a.burnAddress),
           ended |-> line.command = "end"]
  BY DEF ProcessSourceLine
<1> HIDE DEF r, p
<1>6. /\ r.lines = Append(a.lines, p)
      /\ r.symbols = Entered(a, line)
      /\ r.byteCount = a.byteCount + SizeAt(line, a.byteCount)
      /\ r.burnCount = a.burnCount + (IF line.command = "burn" THEN 1 ELSE 0)
      /\ r.burnValue = (IF line.command = "burn" THEN line.number ELSE a.burnValue)
      /\ r.burnAddress = (IF line.command = "burn" THEN a.byteCount ELSE a.burnAddress)
  BY <1>5
<1>7. r.ended = (line.command = "end")
  BY <1>5
<1>8. Append(a.lines, p) \in Seq(CodeLine)
  BY <1>1, <1>2, AppendProperties
<1>9. n \in Nat /\ Len(Append(a.lines, p)) = n + 1
  BY <1>1, <1>2, AppendProperties DEF Count
<1>10. (\A i \in 1..n : Append(a.lines, p)[i] = a.lines[i]) /\ Append(a.lines, p)[n + 1] = p
  BY <1>1, <1>2, AppendProperties DEF Count
<1>11. r \in PartialAssembly
  <2>1. (IF line.command = "burn" THEN line.number ELSE a.burnValue) \in Address
    BY <1>1, <1>3 DEF Legal
  <2>2. (line.command = "end") \in BOOLEAN
    OBVIOUS
  <2> DEFINE e == line.command = "end"
             v == IF line.command = "burn" THEN line.number ELSE a.burnValue
             s == Entered(a, line)
             l == Append(a.lines, p)
  <2>3. r = [lines |-> l, symbols |-> s,
             byteCount |-> a.byteCount + SizeAt(line, a.byteCount),
             burnCount |-> a.burnCount + (IF line.command = "burn" THEN 1 ELSE 0),
             burnValue |-> v,
             burnAddress |-> (IF line.command = "burn" THEN a.byteCount ELSE a.burnAddress),
             ended |-> e]
    BY <1>5
  <2>4. e \in BOOLEAN /\ v \in Address /\ s \in SymbolTable /\ l \in Seq(CodeLine)
    BY <1>4, <1>8, <2>1, <2>2
  <2> HIDE DEF e, v, s, l
  <2>5. QED
    BY <1>1, <1>3, <2>3, <2>4 DEF PartialAssembly
<1>12. QED
  BY <1>6, <1>7, <1>9, <1>10, <1>11 DEF r, p, Count

LEMMA ScanStarts == Scanned(EmptyAssembly)
<1> DEFINE a == EmptyAssembly
           at == [k \in 0..0 |-> 0]
<1>1. a.lines = <<>> /\ Count(a) = 0 /\ a.byteCount = 0 /\ a.ended = FALSE
  BY DEF EmptyAssembly, Count
<1>2. a \in PartialAssembly
  <2>1. 0 \in Address /\ Absent \in Entry
    BY MemSizeType, EntryTypes DEF Address
  <2>2. [s \in Symbols |-> Absent] \in SymbolTable
    BY <2>1 DEF SymbolTable
  <2>3. QED
    BY <2>1, <2>2 DEF EmptyAssembly, PartialAssembly
<1>3. at \in [0..0 -> Nat] /\ at[0] = 0
  OBVIOUS
<1> HIDE DEF a, at
<1>4. Laid(a, at) /\ Labelled(a, at) /\ Burnt(a, at)
  <2>1. 1..Count(a) = {}
    BY <1>1
  <2>2. Laid(a, at)
    BY <1>1, <1>3, <2>1 DEF Laid
  <2>3. Labelled(a, at)
    BY <2>1 DEF Labelled
  <2>4. a.burnCount = 0
    BY DEF a, EmptyAssembly
  <2>5. Burnt(a, at)
    BY <2>1, <2>4 DEF Burnt
  <2>6. QED
    BY <2>2, <2>3, <2>5
<1>5. QED
  BY <1>1, <1>2, <1>4 DEF Scanned, a

\* A line that is accepted keeps the symbols of the others.
LEMMA EnteredKeeps ==
  ASSUME NEW a \in PartialAssembly, NEW line \in SourceLine, ~Refused(a, line),
         NEW s \in Symbols, a.symbols[s].state = "single"
  PROVE  s # line.label /\ Entered(a, line)[s] = a.symbols[s]
<1>1. s # line.label
  BY AssemblerAssumption DEF Refused
<1>2. QED
  BY <1>1 DEF Entered

LEMMA ScanStep ==
  ASSUME NEW a, Scanned(a), NEW line \in SourceLine, ~Refused(a, line)
  PROVE  Scanned(ProcessSourceLine(a, line))
<1> DEFINE r == ProcessSourceLine(a, line)
           n == Count(a)
           p == Placed(a, line)
           size == SizeAt(line, a.byteCount)
<1>1. a \in PartialAssembly /\ (\A i \in 1..n : Legal(a.lines[i]))
  BY DEF Scanned
<1>2. a.byteCount \in Nat /\ a.lines \in Seq(CodeLine)
  BY <1>1 DEF PartialAssembly
<1>3. /\ n \in Nat /\ Count(r) = n + 1
      /\ \A i \in 1..n : r.lines[i] = a.lines[i]
      /\ r.lines[n + 1] = p
      /\ r.symbols = Entered(a, line)
      /\ r.byteCount = a.byteCount + size
      /\ r.burnCount = a.burnCount + (IF line.command = "burn" THEN 1 ELSE 0)
      /\ r.burnValue = (IF line.command = "burn" THEN line.number ELSE a.burnValue)
      /\ r.burnAddress = (IF line.command = "burn" THEN a.byteCount ELSE a.burnAddress)
      /\ r.ended = (line.command = "end")
      /\ r \in PartialAssembly
  BY <1>1, ProcessedParts
<1>4. /\ Legal(p)
      /\ p.command = line.command /\ p.label = line.label /\ p.number = line.number
      /\ p.emit = TRUE
      /\ p.size = size /\ p.size = SizeAt(p, a.byteCount)
      /\ p.address = IF line.command = "none" THEN -1 ELSE a.byteCount
  BY <1>2, PlacedLine
<1>5. size \in Nat
  BY <1>2, SourceLegal, SizeType
<1> HIDE DEF r, p, size
<1>6. PICK at : Laid(a, at) /\ Labelled(a, at) /\ Burnt(a, at)
  BY DEF Scanned
<1>7. at \in [0..n -> Nat] /\ at[0] = 0 /\ at[n] = a.byteCount
  BY <1>6 DEF Laid
<1> DEFINE as == [k \in 0..n + 1 |-> IF k = n + 1 THEN a.byteCount + size ELSE at[k]]
<1> HIDE DEF n
<1>8. /\ as \in [0..n + 1 -> Nat] /\ as[n + 1] = a.byteCount + size
      /\ \A k \in 0..n : as[k] = at[k]
  <2>1. \A k \in 0..n + 1 : k # n + 1 => k \in 0..n
    BY <1>3
  <2>2. \A k \in 0..n : k \in 0..n + 1 /\ k # n + 1
    BY <1>3
  <2>3. n + 1 \in 0..n + 1 /\ a.byteCount + size \in Nat
    BY <1>2, <1>3, <1>5
  <2>4. QED
    BY <1>7, <2>1, <2>2, <2>3
<1> HIDE DEF as
<1>9. as[0] = 0 /\ as[n] = a.byteCount
  <2>1. 0 \in 0..n /\ n \in 0..n
    BY <1>3
  <2>2. as[0] = at[0] /\ as[n] = at[n]
    BY <1>8, <2>1
  <2>3. QED
    BY <1>7, <2>2
<1>10. \A i \in 1..n + 1 : i # n + 1 => i \in 1..n /\ i - 1 \in 0..n /\ i \in 0..n
  BY <1>3
<1>11. Laid(r, as)
  <2>1. ASSUME NEW i \in 1..n + 1
        PROVE  /\ r.lines[i].emit = TRUE
               /\ r.lines[i].size = SizeAt(r.lines[i], as[i - 1])
               /\ as[i] = as[i - 1] + r.lines[i].size
               /\ r.lines[i].address = IF r.lines[i].command = "none" THEN -1 ELSE as[i - 1]
    <3>1. CASE i = n + 1
      <4>1. i - 1 = n
        BY <1>3, <3>1
      <4>2. QED
        BY <1>3, <1>4, <1>8, <1>9, <3>1, <4>1
    <3>2. CASE i # n + 1
      <4>1. i \in 1..n /\ as[i] = at[i] /\ as[i - 1] = at[i - 1] /\ r.lines[i] = a.lines[i]
        BY <1>3, <1>8, <1>10, <3>2
      <4>2. QED
        BY <1>6, <4>1 DEF Laid, n
    <3>3. QED
      BY <3>1, <3>2
  <2>2. QED
    BY <1>3, <1>8, <1>9, <2>1 DEF Laid
<1>12. Labelled(r, as)
  <2>1. ASSUME NEW j \in 1..n, a.lines[j].label # NoSymbol
        PROVE  a.lines[j].label # line.label /\ r.symbols[a.lines[j].label] = a.symbols[a.lines[j].label]
    <3>1. a.symbols[a.lines[j].label] =
            IF a.lines[j].command = "equate" THEN Number(a.lines[j].number) ELSE Location(at[j - 1])
      BY <1>6, <2>1 DEF Labelled, n
    <3>2. a.symbols[a.lines[j].label].state = "single"
      BY <3>1 DEF Number, Location
    <3>3. a.lines[j] \in CodeLine
      BY <1>2 DEF n, Count
    <3>4. a.lines[j].label \in Symbols
      BY <2>1, <3>3 DEF CodeLine
    <3>5. QED
      BY <1>1, <1>3, <3>2, <3>4, EnteredKeeps
  <2>2. ASSUME NEW i \in 1..n + 1, r.lines[i].label # NoSymbol
        PROVE  /\ r.lines[i].command \notin {"none", "align"}
               /\ r.symbols[r.lines[i].label] =
                    IF r.lines[i].command = "equate" THEN Number(r.lines[i].number)
                                                     ELSE Location(as[i - 1])
               /\ \A j \in 1..n + 1 : r.lines[j].label = r.lines[i].label => i = j
    <3>1. CASE i = n + 1
      <4>1. i - 1 = n /\ r.lines[i] = p
        BY <1>3, <3>1
      <4>2. line.label \in Symbols /\ line.label # NoSymbol
        BY <1>4, <2>2, <4>1 DEF SourceLine
      <4>3. line.command \notin {"none", "align"}
        BY <4>2 DEF Refused
      <4>4. Entered(a, line)[line.label] =
                IF line.command = "equate" THEN Number(line.number) ELSE Location(a.byteCount)
        BY <4>2 DEF Entered
      <4>5. \A j \in 1..n + 1 : r.lines[j].label = r.lines[i].label => i = j
        <5>1. SUFFICES ASSUME NEW j \in 1..n + 1, r.lines[j].label = line.label, j # n + 1 PROVE FALSE
          BY <1>4, <3>1, <4>1
        <5>2. j \in 1..n /\ r.lines[j] = a.lines[j]
          BY <1>3, <1>10, <5>1
        <5>3. QED
          BY <2>1, <4>2, <5>1, <5>2
      <4>6. QED
        BY <1>3, <1>4, <1>9, <4>1, <4>3, <4>4, <4>5
    <3>2. CASE i # n + 1
      <4>1. i \in 1..n /\ as[i - 1] = at[i - 1] /\ r.lines[i] = a.lines[i]
        BY <1>3, <1>8, <1>10, <3>2
      <4>2. /\ a.lines[i].command \notin {"none", "align"}
            /\ a.symbols[a.lines[i].label] =
                    IF a.lines[i].command = "equate" THEN Number(a.lines[i].number)
                                                     ELSE Location(at[i - 1])
            /\ \A j \in 1..n : a.lines[j].label = a.lines[i].label => i = j
        BY <1>6, <2>2, <4>1 DEF Labelled, n
      <4>3. a.lines[i].label # line.label /\ r.symbols[a.lines[i].label] = a.symbols[a.lines[i].label]
        BY <2>1, <2>2, <4>1
      <4>4. \A j \in 1..n + 1 : r.lines[j].label = r.lines[i].label => i = j
        <5>1. SUFFICES ASSUME NEW j \in 1..n + 1, r.lines[j].label = r.lines[i].label PROVE i = j
          OBVIOUS
        <5>2. j # n + 1
          BY <1>3, <1>4, <4>1, <4>3, <5>1
        <5>3. j \in 1..n /\ r.lines[j] = a.lines[j]
          BY <1>3, <1>10, <5>2
        <5>4. QED
          BY <4>1, <4>2, <5>1, <5>3
      <4>5. QED
        BY <4>1, <4>2, <4>3, <4>4
    <3>3. QED
      BY <3>1, <3>2
  <2>3. QED
    BY <1>3, <2>2 DEF Labelled
<1>13. Burnt(r, as)
  <2>1. a.burnCount \in Nat
    BY <1>1 DEF PartialAssembly
  <2>2. r.lines[n + 1].command = line.command /\ r.lines[n + 1].number = line.number
    BY <1>3, <1>4
  <2>3. ASSUME r.burnCount = 0 PROVE \A i \in 1..n + 1 : r.lines[i].command # "burn"
    <3>1. a.burnCount = 0 /\ line.command # "burn"
      BY <1>3, <2>1, <2>3
    <3>2. \A i \in 1..n : a.lines[i].command # "burn"
      BY <1>6, <3>1 DEF Burnt, n
    <3>3. QED
      BY <1>3, <1>10, <2>2, <3>1, <3>2
  <2>4. ASSUME r.burnCount = 1
        PROVE  \E b \in 1..n + 1 :
                 /\ \A i \in 1..n + 1 : r.lines[i].command = "burn" <=> i = b
                 /\ r.burnAddress = as[b - 1] /\ r.burnValue = r.lines[b].number
    <3>1. CASE line.command = "burn"
      <4>1. a.burnCount = 0
        BY <1>3, <2>1, <2>4, <3>1
      <4>2. \A i \in 1..n : a.lines[i].command # "burn"
        BY <1>6, <4>1 DEF Burnt, n
      <4>3. n + 1 \in 1..n + 1 /\ (n + 1) - 1 = n
        BY <1>3
      <4>4. \A i \in 1..n + 1 : r.lines[i].command = "burn" <=> i = n + 1
        BY <1>3, <1>10, <2>2, <3>1, <4>2
      <4>5. r.burnAddress = as[(n + 1) - 1] /\ r.burnValue = r.lines[n + 1].number
        BY <1>3, <1>9, <2>2, <3>1, <4>3
      <4>6. QED
        BY <4>3, <4>4, <4>5
    <3>2. CASE line.command # "burn"
      <4>1. a.burnCount = 1
        BY <1>3, <2>1, <2>4, <3>2
      <4>2. PICK b \in 1..n :
                 /\ \A i \in 1..n : a.lines[i].command = "burn" <=> i = b
                 /\ a.burnAddress = at[b - 1] /\ a.burnValue = a.lines[b].number
        BY <1>6, <4>1 DEF Burnt, n
      <4>3. b \in 1..n + 1 /\ b # n + 1 /\ b - 1 \in 0..n
        BY <1>3
      <4>4. \A i \in 1..n + 1 : r.lines[i].command = "burn" <=> i = b
        BY <1>3, <1>10, <2>2, <3>2, <4>2, <4>3
      <4>5. r.burnAddress = as[b - 1] /\ r.burnValue = r.lines[b].number
        BY <1>3, <1>8, <3>2, <4>2, <4>3
      <4>6. QED
        BY <4>3, <4>4, <4>5
    <3>3. QED
      BY <3>1, <3>2
  <2>5. QED
    BY <1>3, <2>3, <2>4 DEF Burnt
<1>14. \A i \in 1..Count(r) : Legal(r.lines[i])
  BY <1>1, <1>3, <1>4, <1>10 DEF n
<1>15. r.ended => Count(r) > 0 /\ r.lines[Count(r)].command = "end"
  <2>1. r.ended = (line.command = "end")
    BY <1>3
  <2>2. Count(r) > 0 /\ r.lines[Count(r)].command = line.command
    BY <1>3, <1>4
  <2>3. QED
    BY <2>1, <2>2
<1>16. QED
  BY <1>3, <1>11, <1>12, <1>13, <1>14, <1>15 DEF Scanned, r

-----------------------------------------------------------------------------
(* The pass over the lines of an operating system.                         *)

\* f holds what the pass has made after each line of order.
Passes(f, lines, symbols, order) ==
    /\ f[0] = [lines |-> lines, symbols |-> symbols, rolling |-> 0]
    /\ \A k \in 1..Len(order) : f[k] = AlignLine(f[k - 1], order[k])

\* The function that Aligned defines exists.
LEMMA PassExists ==
  ASSUME NEW lines, NEW symbols, NEW order \in Seq(Nat)
  PROVE  \E f : /\ Passes(f, lines, symbols, order)
                /\ Aligned(lines, symbols, order) = f[Len(order)]
<1> DEFINE start == [lines |-> lines, symbols |-> symbols, rolling |-> 0]
           Is(f, m) == f = [k \in 0..m |-> IF k = 0 THEN start ELSE AlignLine(f[k - 1], order[k])]
           D == {m \in Nat : \E f : Is(f, m)}
<1> HIDE DEF start
<1>1. 0 \in D
  <2> DEFINE f == [k \in 0..0 |-> start]
  <2>1. ASSUME NEW k \in 0..0
        PROVE  f[k] = IF k = 0 THEN start ELSE AlignLine(f[k - 1], order[k])
    BY <2>1
  <2>2. Is(f, 0)
    BY <2>1
  <2>3. QED
    BY <2>2
<1>2. ASSUME NEW m \in Nat, m \in D PROVE m + 1 \in D
  <2>1. PICK f : Is(f, m)
    BY <1>2
  <2> DEFINE g == [k \in 0..m + 1 |-> IF k = m + 1 THEN AlignLine(f[m], order[m + 1]) ELSE f[k]]
  <2>2. ASSUME NEW k \in 0..m + 1
        PROVE  g[k] = IF k = 0 THEN start ELSE AlignLine(g[k - 1], order[k])
    <3>1. CASE k = m + 1
      <4>1. k - 1 = m /\ m \in 0..m + 1 /\ m # m + 1 /\ k # 0
        BY <3>1
      <4>2. g[m] = f[m] /\ g[k] = AlignLine(f[m], order[m + 1])
        BY <3>1, <4>1
      <4> HIDE DEF g
      <4>3. QED
        BY <3>1, <4>1, <4>2
    <3>2. CASE k # m + 1
      <4>1. k \in 0..m
        BY <3>2
      <4>2. g[k] = f[k]
        BY <3>2
      <4>3. f[k] = IF k = 0 THEN start ELSE AlignLine(f[k - 1], order[k])
        BY <2>1, <4>1
      <4>4. CASE k = 0
        BY <4>2, <4>3, <4>4
      <4>5. CASE k # 0
        <5>1. k - 1 \in 0..m + 1 /\ k - 1 # m + 1
          BY <4>1, <4>5
        <5>2. g[k - 1] = f[k - 1]
          BY <5>1
        <5> HIDE DEF g
        <5>3. QED
          BY <4>2, <4>3, <4>5, <5>2
      <4>6. QED
        BY <4>4, <4>5
    <3>3. QED
      BY <3>1, <3>2
  <2>3. g = [k \in 0..m + 1 |-> g[k]]
    OBVIOUS
  <2> HIDE DEF g
  <2>4. Is(g, m + 1)
    BY <2>2, <2>3
  <2> HIDE DEF Is
  <2>5. m + 1 \in Nat
    OBVIOUS
  <2>6. QED
    BY <2>4, <2>5
<1>3. Nat \subseteq D
  <2> HIDE DEF D
  <2>1. QED
    BY <1>1, <1>2, Induction
<1>4. Len(order) \in Nat
  OBVIOUS
<1> DEFINE h == CHOOSE f : Is(f, Len(order))
<1>5. Is(h, Len(order))
  BY <1>3, <1>4
<1>6. Aligned(lines, symbols, order) = h[Len(order)]
  BY DEF Aligned, start
<1> HIDE DEF h
<1>7. h[0] = start
  <2>1. 0 \in 0..Len(order)
    BY <1>4
  <2>2. QED
    BY <1>5, <2>1
<1>8. ASSUME NEW k \in 1..Len(order) PROVE h[k] = AlignLine(h[k - 1], order[k])
  <2>1. k \in 0..Len(order) /\ k # 0
    BY <1>4
  <2>2. QED
    BY <1>5, <2>1
<1>9. QED
  BY <1>6, <1>7, <1>8 DEF Passes, start

\* A line is still the same one, wherever it has been moved.
Same(new, old) ==
    /\ new \in CodeLine
    /\ new.command = old.command /\ new.label = old.label /\ new.operand = old.operand
    /\ new.number = old.number /\ new.emit = old.emit

\* Line i of n is there to be passed.
Passable(n, i, pass) ==
    /\ n \in Nat /\ i \in 1..n
    /\ pass.lines \in [1..n -> CodeLine] /\ pass.rolling \in Int

\* A line that is no .ALIGN moves with the rest.
LineMoved(n, i, pass, line, q) ==
    /\ q.lines \in [1..n -> CodeLine] /\ q.rolling = pass.rolling
    /\ \A j \in 1..n : j # i => q.lines[j] = pass.lines[j]
    /\ Same(q.lines[i], line)
    /\ q.lines[i].address = Moved(line.address, pass.rolling)
    /\ q.lines[i].size = line.size
    /\ q.symbols = IF line.label # NoSymbol /\ pass.symbols[line.label].type = "location"
                   THEN [pass.symbols EXCEPT ![line.label] =
                           Location(Moved(line.address, pass.rolling))]
                   ELSE pass.symbols

LEMMA LineMoves ==
  ASSUME NEW n, NEW i, NEW pass, Passable(n, i, pass), pass.lines[i].command # "align"
  PROVE  LineMoved(n, i, pass, pass.lines[i], AlignLine(pass, i))
<1> SUFFICES ASSUME n \in Nat, i \in 1..n,
                    pass.lines \in [1..n -> CodeLine], pass.rolling \in Int,
                    NEW line, line = pass.lines[i], line.command # "align",
                    NEW q, q = AlignLine(pass, i)
             PROVE  LineMoved(n, i, pass, line, q)
  BY DEF Passable
<1> DEFINE start == Moved(line.address, pass.rolling)
           new == [pass.lines EXCEPT ![i].address = start, ![i].size = line.size]
<1>1. line \in CodeLine
  OBVIOUS
<1>2. start \in Int
  BY <1>1 DEF Moved, CodeLine
<1>3. q.lines = new
  BY DEF AlignLine
<1>4. q.rolling = pass.rolling
  BY DEF AlignLine
<1>5. q.symbols = IF line.label # NoSymbol /\ pass.symbols[line.label].type = "location"
                  THEN [pass.symbols EXCEPT ![line.label] = Location(start)] ELSE pass.symbols
  BY DEF AlignLine
<1> DEFINE moved == [[line EXCEPT !.address = start] EXCEPT !.size = line.size]
<1> HIDE DEF start
<1>6. moved \in CodeLine /\ moved.address = start /\ moved.size = line.size
  BY <1>1, <1>2 DEF CodeLine
<1>7. Same(moved, line)
  BY <1>1, <1>6 DEF Same, CodeLine
<1>8. new[i] = moved /\ (\A j \in 1..n : j # i => new[j] = pass.lines[j])
  OBVIOUS
<1>9. new \in [1..n -> CodeLine]
  <2>1. new = [j \in 1..n |-> new[j]]
    OBVIOUS
  <2>2. \A j \in 1..n : pass.lines[j] \in CodeLine
    OBVIOUS
  <2> HIDE DEF new, moved
  <2>3. \A j \in 1..n : new[j] \in CodeLine
    BY <1>6, <1>8, <2>2
  <2>4. QED
    BY <2>1, <2>3
<1> HIDE DEF new, moved
<1>10. QED
  BY <1>3, <1>4, <1>5, <1>6, <1>7, <1>8, <1>9 DEF start, LineMoved

\* An .ALIGN is made to begin on its boundary and to end where it did.
AlignMoved(n, i, pass, line, end, q) ==
    /\ q.lines \in [1..n -> CodeLine]
    /\ q.rolling = end - (end % line.number) - line.address
    /\ \A j \in 1..n : j # i => q.lines[j] = pass.lines[j]
    /\ Same(q.lines[i], line)
    /\ q.lines[i].address = end - (end % line.number)
    /\ q.lines[i].size = -(end % line.number)
    /\ q.symbols = pass.symbols

Alignable(line) ==
    /\ line.command = "align" /\ line.label = NoSymbol
    /\ line.number \in Nat \ {0} /\ line.address >= 0

EndsAt(line, pass) == line.address + pass.rolling + line.size

LEMMA AlignMoves ==
  ASSUME NEW n, NEW i, NEW pass, Passable(n, i, pass), Alignable(pass.lines[i]),
         EndsAt(pass.lines[i], pass) >= 0
  PROVE  AlignMoved(n, i, pass, pass.lines[i], EndsAt(pass.lines[i], pass), AlignLine(pass, i))
<1> SUFFICES ASSUME n \in Nat, i \in 1..n,
                    pass.lines \in [1..n -> CodeLine], pass.rolling \in Int,
                    NEW line, line = pass.lines[i], line.command = "align", line.label = NoSymbol,
                    line.number \in Nat \ {0}, line.address >= 0,
                    NEW end, end = line.address + pass.rolling + line.size, end >= 0,
                    NEW q, q = AlignLine(pass, i)
             PROVE  AlignMoved(n, i, pass, line, end, q)
  BY DEF Passable, Alignable, EndsAt
<1> DEFINE start == Moved(line.address, pass.rolling)
           stop == start + line.size
           block == stop - Remainder(stop, line.number)
           size == block - stop
           new == [pass.lines EXCEPT ![i].address = block, ![i].size = size]
<1>1. line \in CodeLine
  OBVIOUS
<1>2. line.address \in Int /\ line.size \in Int
  BY <1>1 DEF CodeLine
<1>3. start = line.address + pass.rolling
  BY <1>2 DEF Moved
<1>4. stop = end /\ end \in Nat
  BY <1>2, <1>3
<1>5. end % line.number \in Nat
  BY <1>4
<1>6. Remainder(stop, line.number) = end % line.number
  BY <1>4 DEF Remainder
<1>7. block = end - (end % line.number) /\ block \in Int
      /\ size = -(end % line.number) /\ size \in Int
  BY <1>4, <1>5, <1>6
<1>8. q.lines = new
  BY DEF AlignLine
<1>9. q.rolling = pass.rolling + (block - start)
  BY DEF AlignLine
<1>10. q.symbols = pass.symbols
  BY DEF AlignLine
<1> DEFINE moved == [[line EXCEPT !.address = block] EXCEPT !.size = size]
<1> HIDE DEF size, block, start, stop
<1>11. moved \in CodeLine /\ moved.address = block /\ moved.size = size
  BY <1>1, <1>7 DEF CodeLine
<1>12. Same(moved, line)
  BY <1>1, <1>11 DEF Same, CodeLine
<1>13. new[i] = moved /\ (\A j \in 1..n : j # i => new[j] = pass.lines[j])
  OBVIOUS
<1>14. new \in [1..n -> CodeLine]
  <2>1. new = [j \in 1..n |-> new[j]]
    OBVIOUS
  <2>2. \A j \in 1..n : pass.lines[j] \in CodeLine
    OBVIOUS
  <2> HIDE DEF new, moved
  <2>3. \A j \in 1..n : new[j] \in CodeLine
    BY <1>11, <1>13, <2>2
  <2>4. QED
    BY <2>1, <2>3
<1> HIDE DEF new, moved
<1>15. q.rolling = end - (end % line.number) - line.address
  <2>1. block \in Int
    BY <1>7
  <2>2. pass.rolling + (block - start) = block - line.address
    BY <1>2, <1>3, <2>1
  <2>3. QED
    BY <1>7, <1>9, <2>2
<1>16. QED
  BY <1>7, <1>8, <1>10, <1>11, <1>12, <1>13, <1>14, <1>15 DEF AlignMoved

\* What the pass starts from: the lines and symbols after the first move.
Delta(a) == (a.burnValue - a.byteCount + 1) % MemSize
Silenced(a) ==
    [i \in DOMAIN a.lines |->
        [a.lines[i] EXCEPT !.emit = @ /\ a.lines[i].address >= a.burnAddress]]
MovedLines(a) == Relocated(Silenced(a), Delta(a))
MovedSymbols(a) == SetOffset(a.symbols, Delta(a))
Order(b) == [k \in 1..b - 1 |-> b + 1 - k]

\* b is the line of the only .BURN.
Burns(a, at, b) ==
    /\ b \in 1..Count(a)
    /\ \A i \in 1..Count(a) : a.lines[i].command = "burn" <=> i = b
    /\ a.burnAddress = at[b - 1] /\ a.burnValue = a.lines[b].number

LEMMA DeltaType ==
  ASSUME NEW a \in PartialAssembly
  PROVE  Delta(a) \in Address /\ Delta(a) \in Nat
<1>1. a.burnValue - a.byteCount + 1 \in Int
  BY MemSizeType DEF PartialAssembly, Address
<1>2. QED
  BY <1>1, MemSizeType, RemainderType DEF Delta, Address

LEMMA MovedLine ==
  ASSUME NEW a \in PartialAssembly, NEW at, Laid(a, at), NEW i \in 1..Count(a)
  PROVE  LET line == MovedLines(a)[i]
             old == a.lines[i]
         IN  /\ line \in CodeLine
             /\ line.command = old.command /\ line.label = old.label
             /\ line.operand = old.operand /\ line.number = old.number
             /\ line.size = old.size
             /\ line.address = IF old.command = "none" THEN -1 ELSE at[i - 1] + Delta(a)
             /\ line.emit <=> old.address >= a.burnAddress
<1> DEFINE old == a.lines[i]
           e == old.emit /\ old.address >= a.burnAddress
           quiet == [old EXCEPT !.emit = e]
           line == [quiet EXCEPT !.address = Moved(quiet.address, Delta(a))]
<1>1. old \in CodeLine /\ i \in DOMAIN a.lines
  BY DEF PartialAssembly, Count
<1>2. MovedLines(a)[i] = line
  <2>1. DOMAIN Silenced(a) = DOMAIN a.lines /\ Silenced(a)[i] = quiet
    BY <1>1 DEF Silenced
  <2>2. QED
    BY <1>1, <2>1 DEF MovedLines, Relocated
<1>3. /\ old.emit = TRUE /\ at[i - 1] \in Nat
      /\ old.address = IF old.command = "none" THEN -1 ELSE at[i - 1]
  <2>1. i - 1 \in 0..Count(a)
    BY DEF PartialAssembly, Count
  <2>2. QED
    BY <2>1 DEF Laid
<1>4. e \in BOOLEAN /\ (e <=> old.address >= a.burnAddress)
  BY <1>3
<1> HIDE DEF e
<1>5. /\ quiet \in CodeLine /\ quiet.emit = e /\ quiet.address = old.address
      /\ quiet.command = old.command /\ quiet.label = old.label
      /\ quiet.operand = old.operand /\ quiet.number = old.number /\ quiet.size = old.size
  BY <1>1, <1>4 DEF CodeLine
<1> HIDE DEF quiet
<1>6. Moved(quiet.address, Delta(a)) =
        IF old.command = "none" THEN -1 ELSE at[i - 1] + Delta(a)
  BY <1>3, <1>5, DeltaType DEF Moved
<1>7. Moved(quiet.address, Delta(a)) \in Int
  BY <1>3, <1>6, DeltaType
<1>8. /\ line \in CodeLine /\ line.address = Moved(quiet.address, Delta(a))
      /\ line.command = quiet.command /\ line.label = quiet.label
      /\ line.operand = quiet.operand /\ line.number = quiet.number /\ line.size = quiet.size
  BY <1>5, <1>7 DEF CodeLine
<1>9. line.emit = quiet.emit
  BY <1>5 DEF CodeLine
<1> HIDE DEF line
<1>10. MovedLines(a)[i].emit <=> old.address >= a.burnAddress
  BY <1>2, <1>4, <1>5, <1>9
<1>11. QED
  BY <1>2, <1>5, <1>6, <1>8, <1>10 DEF old

LEMMA MovedLinesType ==
  ASSUME NEW a \in PartialAssembly, NEW at, Laid(a, at)
  PROVE  MovedLines(a) \in [1..Count(a) -> CodeLine] /\ Count(a) \in Nat
<1>1. DOMAIN a.lines = 1..Count(a) /\ Count(a) \in Nat
  BY DEF PartialAssembly, Count
<1>2. DOMAIN MovedLines(a) = 1..Count(a) /\ MovedLines(a) = [i \in DOMAIN MovedLines(a) |-> MovedLines(a)[i]]
  BY <1>1 DEF MovedLines, Relocated, Silenced
<1>3. \A i \in 1..Count(a) : MovedLines(a)[i] \in CodeLine
  BY MovedLine
<1>4. QED
  BY <1>1, <1>2, <1>3

LEMMA MovedSymbol ==
  ASSUME NEW a \in PartialAssembly, NEW at, Laid(a, at), Labelled(a, at),
         NEW i \in 1..Count(a), a.lines[i].label # NoSymbol
  PROVE  /\ a.lines[i].label \in Symbols
         /\ MovedSymbols(a)[a.lines[i].label] =
                IF a.lines[i].command = "equate" THEN Number(a.lines[i].number)
                ELSE [Location(at[i - 1]) EXCEPT !.offset = Delta(a)]
<1>1. a.lines[i] \in CodeLine /\ a.symbols \in SymbolTable
  BY DEF PartialAssembly, Count
<1>2. a.lines[i].label \in Symbols /\ DOMAIN a.symbols = Symbols
  BY <1>1 DEF CodeLine, SymbolTable
<1>3. a.symbols[a.lines[i].label] =
        IF a.lines[i].command = "equate" THEN Number(a.lines[i].number) ELSE Location(at[i - 1])
  BY DEF Labelled
<1>4. QED
  BY <1>2, <1>3 DEF MovedSymbols, SetOffset, Number, Location

LEMMA MovedSymbolsType ==
  ASSUME NEW a \in PartialAssembly
  PROVE  MovedSymbols(a) \in SymbolTable
<1>1. a.symbols \in [Symbols -> Entry] /\ Delta(a) \in Address
  BY DeltaType DEF PartialAssembly, SymbolTable
<1>2. \A e \in Entry : [e EXCEPT !.offset = Delta(a)] \in Entry
  BY <1>1 DEF Entry
<1>3. QED
  BY <1>1, <1>2 DEF MovedSymbols, SetOffset, SymbolTable

\* Where the bytes of line i end when the pass f is over.
EndOf(a, at, b, f, i) == at[i] + Delta(a) + (IF i >= b THEN 0 ELSE f[b - i].rolling)

\* A line that was old and has its bytes from p to q now.
Occupies(line, old, p, q) ==
    /\ Same(line, old)
    /\ p \in Nat /\ q \in Nat
    /\ line.address = IF old.command = "none" THEN -1 ELSE p
    /\ q = p + (IF line.size >= 0 THEN line.size ELSE -line.size)
    /\ old.command # "align" => line.size = old.size
    /\ old.command = "align" => p % old.number = 0 /\ line.size =< 0

\* The pass has dealt with the last k lines up to the .BURN, and no others.
Passed(a, at, b, f, k) ==
    LET L == MovedLines(a)
        S == MovedSymbols(a)
    IN  /\ f[k].rolling \in Int /\ Delta(a) + f[k].rolling >= 0
        /\ f[k].lines \in [1..Count(a) -> CodeLine]
        /\ f[k].symbols \in SymbolTable
        /\ \A i \in 1..Count(a) :
            IF b - k < i /\ i =< b
            THEN /\ Occupies(f[k].lines[i], L[i], EndOf(a, at, b, f, i - 1), EndOf(a, at, b, f, i))
                 /\ L[i].label # NoSymbol =>
                        f[k].symbols[L[i].label] =
                            IF L[i].command = "equate" THEN Number(L[i].number)
                            ELSE Location(EndOf(a, at, b, f, i - 1))
            ELSE /\ f[k].lines[i] = L[i]
                 /\ L[i].label # NoSymbol => f[k].symbols[L[i].label] = S[L[i].label]

LEMMA PassStarts ==
  ASSUME NEW a \in PartialAssembly, NEW at, Laid(a, at), NEW b, Burns(a, at, b),
         NEW f, Passes(f, MovedLines(a), MovedSymbols(a), Order(b))
  PROVE  Passed(a, at, b, f, 0)
<1>1. f[0] = [lines |-> MovedLines(a), symbols |-> MovedSymbols(a), rolling |-> 0]
  BY DEF Passes
<1>2. f[0].lines = MovedLines(a) /\ f[0].symbols = MovedSymbols(a) /\ f[0].rolling = 0
  BY <1>1
<1>3. b \in Int /\ \A i \in 1..Count(a) : ~(b - 0 < i /\ i =< b)
  BY DEF Burns
<1>4. MovedLines(a) \in [1..Count(a) -> CodeLine] /\ MovedSymbols(a) \in SymbolTable
      /\ Delta(a) \in Nat
  BY MovedLinesType, MovedSymbolsType, DeltaType
<1>5. QED
  BY <1>2, <1>3, <1>4 DEF Passed

\* The next line, i: what it is before the pass comes to it.
LEMMA NextLine ==
  ASSUME NEW a, Scanned(a), NEW at, Laid(a, at), NEW b, Burns(a, at, b),
         NEW f, Passes(f, MovedLines(a), MovedSymbols(a), Order(b)),
         NEW k \in Nat, k + 1 =< b - 1, Passed(a, at, b, f, k), NEW i, i = b - k
  PROVE  /\ b \in 1..Count(a) /\ i \in 1..Count(a) /\ i \in 2..b /\ Count(a) \in Nat
         /\ f[k + 1] = AlignLine(f[k], i)
         /\ f[k].lines[i] = MovedLines(a)[i]
         /\ at[i] \in Nat /\ at[i - 1] \in Nat /\ at[i] = at[i - 1] + a.lines[i].size
         /\ a.lines[i].size \in Nat
         /\ EndOf(a, at, b, f, i) = at[i] + Delta(a) + f[k].rolling
         /\ EndOf(a, at, b, f, i - 1) = at[i - 1] + Delta(a) + f[k + 1].rolling
<1>1. a \in PartialAssembly /\ Count(a) \in Nat
  BY DEF Scanned, PartialAssembly, Count
<1>2. b \in 1..Count(a)
  BY DEF Burns
<1>3. i \in 1..Count(a) /\ i \in 2..b /\ i - 1 \in 0..Count(a) /\ i \in 0..Count(a)
  BY <1>1, <1>2
<1>4. f[k + 1] = AlignLine(f[k], i)
  <2>1. Order(b) \in Seq(Nat) /\ Len(Order(b)) = b - 1
    BY <1>2 DEF Order
  <2>2. k + 1 \in 1..b - 1 /\ (k + 1) - 1 = k
    BY <1>2
  <2>3. Order(b)[k + 1] = i
    BY <1>2, <2>2 DEF Order
  <2>4. f[k + 1] = AlignLine(f[(k + 1) - 1], Order(b)[k + 1])
    BY <2>1, <2>2 DEF Passes
  <2>5. QED
    BY <2>2, <2>3, <2>4
<1>5. f[k].lines[i] = MovedLines(a)[i]
  <2>1. ~(b - k < i /\ i =< b)
    BY <1>2
  <2>2. QED
    BY <1>3, <2>1 DEF Passed
<1>6. at[i] \in Nat /\ at[i - 1] \in Nat /\ at[i] = at[i - 1] + a.lines[i].size
  BY <1>3 DEF Laid
<1>7. a.lines[i].size \in Nat
  <2>1. Legal(a.lines[i]) /\ a.lines[i].size = SizeAt(a.lines[i], at[i - 1])
    BY <1>3 DEF Scanned, Laid
  <2>2. QED
    BY <1>6, <2>1, SizeType
<1>8. EndOf(a, at, b, f, i) = at[i] + Delta(a) + f[k].rolling
  <2>1. CASE k = 0
    <3>1. f[0] = [lines |-> MovedLines(a), symbols |-> MovedSymbols(a), rolling |-> 0]
      BY DEF Passes
    <3>2. f[k].rolling = 0 /\ i >= b
      BY <1>2, <2>1, <3>1
    <3>3. QED
      BY <3>2 DEF EndOf
  <2>2. CASE k # 0
    <3>1. ~(i >= b) /\ b - i = k
      BY <1>2, <2>2
    <3>2. QED
      BY <3>1 DEF EndOf
  <2>3. QED
    BY <2>1, <2>2
<1>9. EndOf(a, at, b, f, i - 1) = at[i - 1] + Delta(a) + f[k + 1].rolling
  <2>1. ~(i - 1 >= b) /\ b - (i - 1) = k + 1
    BY <1>2
  <2>2. QED
    BY <2>1 DEF EndOf
<1>10. QED
  BY <1>1, <1>2, <1>3, <1>4, <1>5, <1>6, <1>7, <1>8, <1>9

\* What one step of the pass makes of its line and the symbols.
LEMMA LineIsPassed ==
  ASSUME NEW a, Scanned(a), NEW at, Laid(a, at), Labelled(a, at), NEW b, Burns(a, at, b),
         NEW f, Passes(f, MovedLines(a), MovedSymbols(a), Order(b)),
         NEW k \in Nat, k + 1 =< b - 1, Passed(a, at, b, f, k), NEW i, i = b - k
  PROVE  LET old == MovedLines(a)[i]
             q == f[k + 1]
         IN  /\ q.rolling \in Int /\ Delta(a) + q.rolling >= 0
             /\ q.lines \in [1..Count(a) -> CodeLine]
             /\ \A j \in 1..Count(a) : j # i => q.lines[j] = f[k].lines[j]
             /\ Occupies(q.lines[i], old, EndOf(a, at, b, f, i - 1), EndOf(a, at, b, f, i))
             /\ q.symbols = IF old.label # NoSymbol /\ f[k].symbols[old.label].type = "location"
                            THEN [f[k].symbols EXCEPT ![old.label] =
                                    Location(EndOf(a, at, b, f, i - 1))]
                            ELSE f[k].symbols
<1> DEFINE old == MovedLines(a)[i]
           q == f[k + 1]
           roll == f[k].rolling
           lo == EndOf(a, at, b, f, i - 1)
           hi == EndOf(a, at, b, f, i)
           d == Delta(a)
<1>1. /\ i \in 1..Count(a) /\ i \in 2..b /\ Count(a) \in Nat
      /\ q = AlignLine(f[k], i)
      /\ f[k].lines[i] = old
      /\ at[i] \in Nat /\ at[i - 1] \in Nat /\ at[i] = at[i - 1] + a.lines[i].size
      /\ a.lines[i].size \in Nat
      /\ hi = at[i] + d + roll /\ lo = at[i - 1] + d + q.rolling
  BY NextLine
<1>2. a \in PartialAssembly /\ Legal(a.lines[i])
  BY <1>1 DEF Scanned
<1>3. /\ old \in CodeLine /\ old.command = a.lines[i].command /\ old.label = a.lines[i].label
      /\ old.number = a.lines[i].number /\ old.size = a.lines[i].size
      /\ old.address = IF old.command = "none" THEN -1 ELSE at[i - 1] + d
  BY <1>1, <1>2, MovedLine
<1>4. d \in Nat /\ roll \in Int /\ d + roll >= 0 /\ f[k].lines \in [1..Count(a) -> CodeLine]
  BY <1>2, DeltaType DEF Passed
<1> DEFINE pass == f[k]
<1>8. /\ pass.lines \in [1..Count(a) -> CodeLine] /\ pass.rolling = roll /\ pass.rolling \in Int
      /\ Count(a) \in Nat /\ i \in 1..Count(a) /\ q = AlignLine(pass, i) /\ old = pass.lines[i]
  BY <1>1, <1>4
<1> HIDE DEF old, q, roll, lo, hi, d, pass
<1>9. /\ at[i - 1] \in Nat /\ at[i] = at[i - 1] + old.size /\ old.size \in Nat
      /\ hi = at[i] + d + roll /\ lo = at[i - 1] + d + q.rolling
  BY <1>1, <1>3
<1>10. d \in Nat /\ roll \in Int /\ d + roll >= 0
  BY <1>4
<1>5. CASE old.command # "align"
  <2>1. /\ q.lines \in [1..Count(a) -> CodeLine] /\ q.rolling = roll
        /\ \A j \in 1..Count(a) : j # i => q.lines[j] = f[k].lines[j]
        /\ Same(q.lines[i], old)
        /\ q.lines[i].address = Moved(old.address, roll)
        /\ q.lines[i].size = old.size
        /\ q.symbols = IF old.label # NoSymbol /\ f[k].symbols[old.label].type = "location"
                       THEN [f[k].symbols EXCEPT ![old.label] = Location(Moved(old.address, roll))]
                       ELSE f[k].symbols
    <3>1. /\ q.lines \in [1..Count(a) -> CodeLine] /\ q.rolling = pass.rolling
          /\ \A j \in 1..Count(a) : j # i => q.lines[j] = pass.lines[j]
          /\ Same(q.lines[i], old)
          /\ q.lines[i].address = Moved(old.address, pass.rolling)
          /\ q.lines[i].size = old.size
          /\ q.symbols = IF old.label # NoSymbol /\ pass.symbols[old.label].type = "location"
                         THEN [pass.symbols EXCEPT ![old.label] =
                                 Location(Moved(old.address, pass.rolling))]
                         ELSE pass.symbols
      <4>1. Passable(Count(a), i, pass)
        BY <1>8 DEF Passable
      <4>2. LineMoved(Count(a), i, pass, old, q)
        BY <1>5, <1>8, <4>1, LineMoves
      <4>3. QED
        BY <4>2 DEF LineMoved
    <3>2. QED
      BY <1>8, <3>1 DEF pass
  <2>2. lo = at[i - 1] + d + roll /\ hi = lo + old.size /\ lo \in Nat /\ hi \in Nat /\ old.size >= 0
    <3>1. q.rolling = roll
      BY <2>1
    <3>2. QED
      BY <1>9, <1>10, <3>1
  <2>3. Moved(old.address, roll) = IF old.command = "none" THEN -1 ELSE lo
    BY <1>1, <1>3, <1>4, <2>2 DEF Moved
  <2>4. Occupies(q.lines[i], old, lo, hi)
    BY <1>5, <2>1, <2>2, <2>3 DEF Occupies
  <2>5. old.label # NoSymbol => old.command # "none"
    BY <1>1, <1>3 DEF Labelled
  <2>6. q.symbols = IF old.label # NoSymbol /\ f[k].symbols[old.label].type = "location"
                    THEN [f[k].symbols EXCEPT ![old.label] = Location(lo)] ELSE f[k].symbols
    BY <2>1, <2>3, <2>5
  <2>7. QED
    BY <1>4, <2>1, <2>4, <2>6 DEF old, q, roll, lo, hi, d
<1>6. CASE old.command = "align"
  <2>1. old.label = NoSymbol
    BY <1>1, <1>3, <1>6 DEF Labelled
  <2>2. old.number \in Nat \ {0}
    BY <1>2, <1>3, <1>6 DEF Legal
  <2>3. old.address = at[i - 1] + d /\ old.address >= 0
    BY <1>1, <1>3, <1>4, <1>6
  <2>4. hi = old.address + roll + old.size /\ hi \in Nat /\ at[i] =< hi
    BY <1>9, <1>10, <2>3
  <2> DEFINE rest == hi % old.number
  <2>5. /\ q.lines \in [1..Count(a) -> CodeLine]
        /\ q.rolling = hi - rest - old.address
        /\ \A j \in 1..Count(a) : j # i => q.lines[j] = f[k].lines[j]
        /\ Same(q.lines[i], old)
        /\ q.lines[i].address = hi - rest
        /\ q.lines[i].size = -rest
        /\ q.symbols = f[k].symbols
    <3>1. hi = old.address + pass.rolling + old.size /\ hi >= 0
      BY <1>8, <2>4
    <3>2. /\ q.lines \in [1..Count(a) -> CodeLine]
          /\ q.rolling = hi - rest - old.address
          /\ \A j \in 1..Count(a) : j # i => q.lines[j] = pass.lines[j]
          /\ Same(q.lines[i], old)
          /\ q.lines[i].address = hi - rest
          /\ q.lines[i].size = -rest
          /\ q.symbols = pass.symbols
      <4>1. Passable(Count(a), i, pass)
        BY <1>8 DEF Passable
      <4>2. Alignable(old) /\ EndsAt(old, pass) = hi
        BY <1>6, <2>1, <2>2, <2>3, <3>1 DEF Alignable, EndsAt
      <4>3. AlignMoved(Count(a), i, pass, old, EndsAt(old, pass), q)
        BY <1>8, <3>1, <4>1, <4>2, AlignMoves
      <4>4. QED
        BY <4>2, <4>3 DEF AlignMoved
    <3>3. QED
      BY <3>2 DEF pass
  <2>6. at[i] % old.number = 0
    <3>1. a.lines[i].size = SizeAt(a.lines[i], at[i - 1])
      BY <1>1 DEF Laid
    <3>2. a.lines[i].size = (old.number - (at[i - 1] % old.number)) % old.number
      BY <1>3, <1>6, <3>1 DEF SizeAt
    <3>3. QED
      BY <1>1, <2>2, <3>2, AlignReaches
  <2>7. hi - rest \in Nat /\ at[i] =< hi - rest /\ (hi - rest) % old.number = 0
    BY <1>1, <2>2, <2>4, <2>6, BoundaryBelow
  <2>8. rest \in Nat
    BY <2>2, <2>4
  <2> HIDE DEF rest
  <2>9. lo = hi - rest
    BY <1>9, <1>10, <2>3, <2>5, <2>4, <2>8
  <2>10. q.rolling \in Int /\ d + q.rolling >= 0
    <3>1. q.rolling = hi - rest - old.address
      BY <2>5
    <3>2. hi - rest \in Nat /\ at[i - 1] =< hi - rest
      BY <1>9, <2>4, <2>7, <2>8
    <3>3. QED
      BY <1>9, <1>10, <2>3, <2>4, <2>8, <3>1, <3>2
  <2>11. Occupies(q.lines[i], old, lo, hi)
    <3>1. hi = lo + (IF q.lines[i].size >= 0 THEN q.lines[i].size ELSE -q.lines[i].size)
      BY <2>4, <2>5, <2>8, <2>9
    <3>2. lo \in Nat /\ hi \in Nat /\ q.lines[i].address = lo /\ lo % old.number = 0
          /\ q.lines[i].size =< 0
      BY <2>4, <2>5, <2>7, <2>8, <2>9
    <3>3. QED
      BY <1>6, <2>5, <3>1, <3>2 DEF Occupies
  <2>12. QED
    BY <2>1, <2>5, <2>10, <2>11 DEF old, q, roll, lo, hi, d
<1>7. QED
  BY <1>5, <1>6

LEMMA PassGoesOn ==
  ASSUME NEW a, Scanned(a), NEW at, Laid(a, at), Labelled(a, at), NEW b, Burns(a, at, b),
         NEW f, Passes(f, MovedLines(a), MovedSymbols(a), Order(b)),
         NEW k \in Nat, k + 1 =< b - 1, Passed(a, at, b, f, k)
  PROVE  Passed(a, at, b, f, k + 1)
<1> DEFINE i == b - k
           L == MovedLines(a)
           S == MovedSymbols(a)
           e(j) == EndOf(a, at, b, f, j)
           r == f[k + 1].symbols
           n == Count(a)
<1>1. /\ b \in 1..n /\ i \in 1..n /\ i \in 2..b /\ n \in Nat
      /\ f[k].lines[i] = L[i]
      /\ at[i - 1] \in Nat
      /\ e(i - 1) = at[i - 1] + Delta(a) + f[k + 1].rolling
  BY NextLine
<1>2. /\ f[k + 1].rolling \in Int /\ Delta(a) + f[k + 1].rolling >= 0
      /\ f[k + 1].lines \in [1..n -> CodeLine]
      /\ \A j \in 1..n : j # i => f[k + 1].lines[j] = f[k].lines[j]
      /\ Occupies(f[k + 1].lines[i], L[i], e(i - 1), e(i))
      /\ r = IF L[i].label # NoSymbol /\ f[k].symbols[L[i].label].type = "location"
             THEN [f[k].symbols EXCEPT ![L[i].label] = Location(e(i - 1))]
             ELSE f[k].symbols
  BY LineIsPassed
<1>3. a \in PartialAssembly
  BY DEF Scanned
<1>4. \A j \in 1..n : L[j].label = a.lines[j].label /\ L[j].command = a.lines[j].command
                      /\ L[j].number = a.lines[j].number
  BY <1>3, MovedLine
<1>5. \A j, m \in 1..n : L[j].label # NoSymbol /\ L[j].label = L[m].label => j = m
  BY <1>4 DEF Labelled
<1>6. f[k].symbols \in SymbolTable
  BY DEF Passed
<1>7. e(i - 1) \in Int
  BY <1>1, <1>2, <1>3, DeltaType
<1>8. r \in SymbolTable
  <2>1. Location(e(i - 1)) \in Entry
    BY <1>7, EntryTypes
  <2>2. QED
    BY <1>2, <1>6, <2>1 DEF SymbolTable
<1>9. ASSUME NEW j \in 1..n, j # i, L[j].label # NoSymbol
      PROVE  r[L[j].label] = f[k].symbols[L[j].label]
  <2>1. L[j].label # L[i].label
    BY <1>1, <1>5, <1>9
  <2>2. L[j].label \in Symbols
    BY <1>3, <1>4, <1>9, MovedSymbol
  <2>3. QED
    BY <1>2, <1>6, <2>1, <2>2 DEF SymbolTable
<1>10. ASSUME L[i].label # NoSymbol
       PROVE  r[L[i].label] = IF L[i].command = "equate" THEN Number(L[i].number)
                              ELSE Location(e(i - 1))
  <2>1. L[i].label \in Symbols /\
        S[L[i].label] = IF L[i].command = "equate" THEN Number(L[i].number)
                        ELSE [Location(at[i - 1]) EXCEPT !.offset = Delta(a)]
    BY <1>1, <1>3, <1>4, <1>10, MovedSymbol
  <2>2. f[k].symbols[L[i].label] = S[L[i].label]
    <3>1. ~(b - k < i /\ i =< b)
      BY <1>1
    <3>2. QED
      BY <1>1, <1>10, <3>1 DEF Passed
  <2>3. CASE L[i].command = "equate"
    <3>1. f[k].symbols[L[i].label].type = "number"
      BY <2>1, <2>2, <2>3 DEF Number
    <3>2. QED
      BY <1>2, <2>1, <2>2, <2>3, <3>1
  <2>4. CASE L[i].command # "equate"
    <3>1. f[k].symbols[L[i].label].type = "location"
      BY <2>1, <2>2, <2>4 DEF Location
    <3>2. QED
      BY <1>2, <1>6, <1>10, <2>1, <2>4, <3>1 DEF SymbolTable
  <2>5. QED
    BY <2>3, <2>4
<1> HIDE DEF e, r, L, S
<1>11. ASSUME NEW j \in 1..n
       PROVE  IF b - (k + 1) < j /\ j =< b
              THEN /\ Occupies(f[k + 1].lines[j], L[j], e(j - 1), e(j))
                   /\ L[j].label # NoSymbol =>
                        r[L[j].label] = IF L[j].command = "equate" THEN Number(L[j].number)
                                        ELSE Location(e(j - 1))
              ELSE /\ f[k + 1].lines[j] = L[j]
                   /\ L[j].label # NoSymbol => r[L[j].label] = S[L[j].label]
  <2>1. CASE j = i
    <3>1. b - (k + 1) < j /\ j =< b
      BY <1>1, <2>1
    <3>2. QED
      BY <1>2, <1>10, <2>1, <3>1
  <2>2. CASE j # i
    <3>1. (b - (k + 1) < j /\ j =< b) <=> (b - k < j /\ j =< b)
      BY <1>1, <2>2
    <3>2. IF b - k < j /\ j =< b
          THEN /\ Occupies(f[k].lines[j], L[j], e(j - 1), e(j))
               /\ L[j].label # NoSymbol =>
                    f[k].symbols[L[j].label] =
                        IF L[j].command = "equate" THEN Number(L[j].number)
                        ELSE Location(e(j - 1))
          ELSE /\ f[k].lines[j] = L[j]
               /\ L[j].label # NoSymbol => f[k].symbols[L[j].label] = S[L[j].label]
      BY DEF Passed, L, S, e
    <3>3. f[k + 1].lines[j] = f[k].lines[j]
      BY <1>2, <2>2
    <3>4. CASE b - k < j /\ j =< b
      BY <1>9, <2>2, <3>1, <3>2, <3>3, <3>4
    <3>5. CASE ~(b - k < j /\ j =< b)
      BY <1>9, <2>2, <3>1, <3>2, <3>3, <3>5
    <3>6. QED
      BY <3>4, <3>5
  <2>3. QED
    BY <2>1, <2>2
<1>12. QED
  BY <1>2, <1>8, <1>11 DEF Passed, L, S, e, r

LEMMA PassEnds ==
  ASSUME NEW a, Scanned(a), NEW at, Laid(a, at), Labelled(a, at), NEW b, Burns(a, at, b),
         NEW f, Passes(f, MovedLines(a), MovedSymbols(a), Order(b))
  PROVE  \A k \in 0..b - 1 : Passed(a, at, b, f, k)
<1> DEFINE D == {k \in Nat : k =< b - 1 => Passed(a, at, b, f, k)}
<1>1. a \in PartialAssembly /\ b \in Nat
  BY DEF Scanned, Burns
<1>2. 0 \in D
  BY <1>1, PassStarts
<1>3. ASSUME NEW k \in Nat, k \in D PROVE k + 1 \in D
  <2>1. SUFFICES ASSUME k + 1 =< b - 1 PROVE Passed(a, at, b, f, k + 1)
    OBVIOUS
  <2>2. Passed(a, at, b, f, k)
    BY <1>1, <1>3, <2>1
  <2>3. QED
    BY <2>1, <2>2, PassGoesOn
<1>4. Nat \subseteq D
  <2> HIDE DEF D
  <2>1. QED
    BY <1>2, <1>3, Induction
<1>5. QED
  BY <1>1, <1>4

-----------------------------------------------------------------------------
(* An accepted program.                                                    *)

\* The bytes of line i are those from pos[i - 1] to pos[i].
Positioned(p, pos) ==
    /\ p.lines \in Seq(CodeLine) /\ Len(p.lines) > 0
    /\ p.lines[Len(p.lines)].command = "end"
    /\ ~p.burn => pos[Len(p.lines)] < MemSize
    /\ \A i \in 1..Len(p.lines) :
        LET line == p.lines[i]
        IN  /\ line.label # NoSymbol =>
                    /\ line.command # "none"
                    /\ line.command = "equate" => ValueOf(p.symbols[line.label]) = line.number
            /\ (p.burn => i > 1) =>
                /\ pos[i - 1] \in Nat /\ pos[i] \in Nat
                /\ line.address = IF line.command = "none" THEN -1 ELSE pos[i - 1]
                /\ pos[i] = pos[i - 1] + (IF line.size >= 0 THEN line.size ELSE -line.size)
                /\ line.command = "none" => line.size = 0
                /\ line.command \in Instructions => line.size > 0
                /\ line.command = "align" =>
                        IF ~p.burn THEN line.size >= 0 /\ pos[i] % line.number = 0
                        ELSE i < BurnLine(p.lines) => pos[i - 1] % line.number = 0
                /\ line.label # NoSymbol /\ line.command # "equate" =>
                        ValueOf(p.symbols[line.label]) % MemSize = pos[i - 1] % MemSize

LEMMA SymbolValues ==
  ASSUME NEW n \in Nat, NEW d \in Nat
  PROVE  /\ ValueOf(Number(n)) = n % MemSize
         /\ ValueOf(Location(n)) % MemSize = n % MemSize
         /\ ValueOf([Location(n) EXCEPT !.offset = d]) % MemSize = (n + d) % MemSize
<1>0. n \in Int /\ d \in Int /\ 0 \in Int
  OBVIOUS
<1>1. n % MemSize \in Int
  BY MemSizeType
<1>2. ValueOf(Number(n)) = n % MemSize
  BY <1>1 DEF ValueOf, Number
<1>3. ValueOf(Location(n)) = (n % MemSize) + 0
  BY DEF ValueOf, Location
<1>4. ValueOf([Location(n) EXCEPT !.offset = d]) = (n % MemSize) + d
  BY DEF ValueOf, Location
<1>5. ((n % MemSize) + 0) % MemSize = (n + 0) % MemSize
  BY <1>0, MemSizeType, RemainderInSum
<1>6. ((n % MemSize) + d) % MemSize = (n + d) % MemSize
  BY <1>0, MemSizeType, RemainderInSum
<1>7. n + 0 = n
  OBVIOUS
<1>8. QED
  BY <1>2, <1>3, <1>4, <1>5, <1>6, <1>7

LEMMA EquateValue == ASSUME NEW n \in Address PROVE ValueOf(Number(n)) = n
<1>1. n \in Nat /\ n \in 0..MemSize - 1
  BY MemSizeType DEF Address
<1>2. n % MemSize = n
  BY <1>1, MemSizeType, SmallRemainder
<1>3. QED
  BY <1>1, <1>2, SymbolValues

\* The size and the end of a line as it was read.
LEMMA ReadLine ==
  ASSUME NEW a, Scanned(a), NEW at, Laid(a, at), NEW i \in 1..Count(a)
  PROVE  LET line == a.lines[i]
         IN  /\ at[i - 1] \in Nat /\ at[i] \in Nat /\ line.size \in Nat
             /\ at[i] = at[i - 1] + line.size
             /\ line \in CodeLine /\ Legal(line)
             /\ line.command = "none" => line.size = 0
             /\ line.command = "burn" => line.size = 0
             /\ line.command \in Instructions => line.size > 0
             /\ line.command = "align" => line.number \in Nat \ {0} /\ at[i] % line.number = 0
<1> DEFINE line == a.lines[i]
<1>1. a \in PartialAssembly /\ Legal(line)
  BY DEF Scanned
<1>2. i - 1 \in 0..Count(a) /\ i \in 0..Count(a) /\ line \in CodeLine
  BY <1>1 DEF PartialAssembly, Count
<1>3. at[i - 1] \in Nat /\ at[i] \in Nat /\ at[i] = at[i - 1] + line.size
      /\ line.size = SizeAt(line, at[i - 1])
  BY <1>2 DEF Laid
<1>4. line.size \in Nat
  BY <1>1, <1>3, SizeType
<1> HIDE DEF line
<1>5. /\ line.command = "none" => line.size = 0
      /\ line.command = "burn" => line.size = 0
      /\ line.command \in Instructions => line.size > 0
  BY <1>3 DEF SizeAt, Instructions
<1>6. ASSUME line.command = "align" PROVE line.number \in Nat \ {0} /\ at[i] % line.number = 0
  <2>1. line.number \in Nat \ {0}
    BY <1>1, <1>6 DEF Legal
  <2>2. line.size = (line.number - (at[i - 1] % line.number)) % line.number
    BY <1>3, <1>6 DEF SizeAt
  <2>3. QED
    BY <1>3, <2>1, <2>2, AlignReaches
<1>7. QED
  BY <1>1, <1>2, <1>3, <1>4, <1>5, <1>6 DEF line

LEMMA UserPositioned ==
  ASSUME NEW a, Scanned(a), UserAccepted(a, Imported)
  PROVE  \E at : Laid(a, at) /\ Positioned(UserProgram(a, Imported), at)
<1> DEFINE p == UserProgram(a, Imported)
           n == Count(a)
<1>1. a \in PartialAssembly /\ a.ended /\ ~(a.byteCount > MemSize - 1)
  BY DEF Scanned, UserAccepted, TooLarge
<1>2. n \in Nat /\ n > 0 /\ a.lines[n].command = "end" /\ a.lines \in Seq(CodeLine)
      /\ a.byteCount \in Nat
  BY <1>1 DEF Scanned, PartialAssembly, Count
<1>3. PICK at : Laid(a, at) /\ Labelled(a, at)
  BY DEF Scanned
<1>4. p.lines = a.lines /\ p.symbols = WithImports(a.symbols, Imported) /\ p.burn = FALSE
  BY DEF UserProgram
<1> HIDE DEF p
<1>5. at[n] < MemSize
  BY <1>1, <1>2, <1>3, MemSizeType DEF Laid
<1>6. ASSUME NEW i \in 1..n, a.lines[i].label # NoSymbol
      PROVE  /\ a.lines[i].command # "none"
             /\ a.lines[i].command = "equate" =>
                    ValueOf(p.symbols[a.lines[i].label]) = a.lines[i].number
             /\ a.lines[i].command # "equate" =>
                    ValueOf(p.symbols[a.lines[i].label]) % MemSize = at[i - 1] % MemSize
  <2> DEFINE s == a.lines[i].label
  <2>1. /\ a.lines[i].command # "none"
        /\ a.symbols[s] = IF a.lines[i].command = "equate" THEN Number(a.lines[i].number)
                          ELSE Location(at[i - 1])
    BY <1>3, <1>6 DEF Labelled
  <2>2. s \in Symbols
    BY <1>1, <1>3, <1>6, MovedSymbol
  <2>3. a.symbols[s].state = "single"
    BY <2>1 DEF Number, Location
  <2>4. p.symbols[s] = a.symbols[s]
    BY <1>4, <2>2, <2>3 DEF WithImports
  <2>5. a.lines[i].command = "equate" => a.lines[i].number \in Address
    BY <1>3, ReadLine DEF Legal
  <2>6. at[i - 1] \in Nat
    BY <1>3, ReadLine
  <2> HIDE DEF s
  <2>7. a.lines[i].command = "equate" => ValueOf(p.symbols[s]) = a.lines[i].number
    BY <2>1, <2>4, <2>5, EquateValue
  <2>8. a.lines[i].command # "equate" => ValueOf(p.symbols[s]) % MemSize = at[i - 1] % MemSize
    BY <2>1, <2>4, <2>6, SymbolValues
  <2>9. QED
    BY <2>1, <2>7, <2>8 DEF s
<1>7. ASSUME NEW i \in 1..n
      PROVE  LET line == a.lines[i]
             IN  /\ at[i - 1] \in Nat /\ at[i] \in Nat
                 /\ line.address = IF line.command = "none" THEN -1 ELSE at[i - 1]
                 /\ at[i] = at[i - 1] + (IF line.size >= 0 THEN line.size ELSE -line.size)
                 /\ line.command = "none" => line.size = 0
                 /\ line.command \in Instructions => line.size > 0
                 /\ line.command = "align" => line.size >= 0 /\ at[i] % line.number = 0
  <2>1. a.lines[i].address = IF a.lines[i].command = "none" THEN -1 ELSE at[i - 1]
    BY <1>3 DEF Laid
  <2>2. QED
    BY <1>3, <2>1, ReadLine
<1>8. Positioned(p, at)
  BY <1>2, <1>4, <1>5, <1>6, <1>7 DEF Positioned, Count
<1>9. QED
  BY <1>3, <1>8 DEF p

\* How an operating system was made: where its lines were, its .BURN and the pass.
Made(a, at, b, f) ==
    /\ Scanned(a) /\ Laid(a, at) /\ Labelled(a, at) /\ Burns(a, at, b)
    /\ Passes(f, MovedLines(a), MovedSymbols(a), Order(b))
    /\ Count(a) > 0 /\ a.lines[Count(a)].command = "end" /\ a.byteCount < MemSize
    /\ LET p == OperatingSystem(a)
       IN  /\ p.lines = f[b - 1].lines /\ p.symbols = f[b - 1].symbols /\ p.burn = TRUE
           /\ p.burnAddress = (a.burnValue - (a.byteCount - a.burnAddress) + 1) % MemSize
           /\ p.burnValue = a.burnValue

LEMMA OsMade ==
  ASSUME NEW a, Scanned(a), NEW force, OsAccepted(a, force)
  PROVE  \E at, b, f : Made(a, at, b, f)
<1>1. a \in PartialAssembly /\ a.ended /\ ~(a.byteCount > MemSize - 1) /\ a.burnCount = 1
  BY DEF Scanned, OsAccepted, TooLarge
<1>2. PICK at : Laid(a, at) /\ Labelled(a, at) /\ Burnt(a, at)
  BY DEF Scanned
<1>3. PICK b : Burns(a, at, b)
  BY <1>1, <1>2 DEF Burnt, Burns
<1>4. Count(a) \in Nat /\ a.byteCount \in Nat /\ b \in 1..Count(a) /\ DOMAIN a.lines = 1..Count(a)
  BY <1>1, <1>3 DEF PartialAssembly, Count, Burns
<1>5. Count(a) > 0 /\ a.lines[Count(a)].command = "end"
  BY <1>1 DEF Scanned
<1>6. BurnLine(a.lines) = b
  BY <1>3, <1>4 DEF BurnLine, Burns
<1>7. Order(b) \in Seq(Nat) /\ Len(Order(b)) = b - 1
  BY <1>4 DEF Order
<1>8. PICK f : /\ Passes(f, MovedLines(a), MovedSymbols(a), Order(b))
               /\ Aligned(MovedLines(a), MovedSymbols(a), Order(b)) = f[Len(Order(b))]
  BY <1>7, PassExists
<1>9. AlignUpwards(MovedLines(a), MovedSymbols(a), b) = f[b - 1]
  BY <1>7, <1>8 DEF AlignUpwards, Order
<1> DEFINE p == OperatingSystem(a)
<1>10. p = [lines |-> f[b - 1].lines, symbols |-> f[b - 1].symbols, burn |-> TRUE,
            burnAddress |-> (a.burnValue - (a.byteCount - a.burnAddress) + 1) % MemSize,
            burnValue |-> a.burnValue]
  BY <1>6, <1>9 DEF OperatingSystem, MovedLines, MovedSymbols, Silenced, Delta
<1> HIDE DEF p
<1>11. /\ p.lines = f[b - 1].lines /\ p.symbols = f[b - 1].symbols /\ p.burn = TRUE
       /\ p.burnAddress = (a.burnValue - (a.byteCount - a.burnAddress) + 1) % MemSize
       /\ p.burnValue = a.burnValue
  BY <1>10
<1>12. a.byteCount < MemSize
  BY <1>1, <1>4, MemSizeType
<1>13. Made(a, at, b, f)
  BY <1>2, <1>3, <1>5, <1>8, <1>11, <1>12 DEF Made, p
<1>14. QED
  BY <1>13

\* The lines of the operating system, up to the .BURN and after it.
LEMMA OsLines ==
  ASSUME NEW a, NEW at, NEW b, NEW f, Made(a, at, b, f)
  PROVE  LET p == OperatingSystem(a)
             L == MovedLines(a)
             e(i) == EndOf(a, at, b, f, i)
         IN  /\ p.lines \in Seq(CodeLine) /\ Len(p.lines) = Count(a) /\ Count(a) \in Nat
             /\ p.symbols \in SymbolTable /\ b \in 1..Count(a)
             /\ \A i \in 1..Count(a) : 1 < i /\ i =< b =>
                    /\ Occupies(p.lines[i], L[i], e(i - 1), e(i))
                    /\ L[i].label # NoSymbol =>
                            p.symbols[L[i].label] =
                                IF L[i].command = "equate" THEN Number(L[i].number)
                                ELSE Location(e(i - 1))
             /\ \A i \in 1..Count(a) : ~(1 < i /\ i =< b) =>
                    /\ p.lines[i] = L[i]
                    /\ L[i].label # NoSymbol => p.symbols[L[i].label] = MovedSymbols(a)[L[i].label]
<1> DEFINE p == OperatingSystem(a)
           L == MovedLines(a)
           e(i) == EndOf(a, at, b, f, i)
<1>1. /\ Scanned(a) /\ Laid(a, at) /\ Labelled(a, at) /\ Burns(a, at, b)
      /\ Passes(f, MovedLines(a), MovedSymbols(a), Order(b))
      /\ p.lines = f[b - 1].lines /\ p.symbols = f[b - 1].symbols
  BY DEF Made
<1>2. b \in 1..Count(a) /\ Count(a) \in Nat
  BY <1>1 DEF Burns, Scanned, PartialAssembly, Count
<1>3. Passed(a, at, b, f, b - 1)
  <2>1. b - 1 \in 0..b - 1
    BY <1>2
  <2>2. \A k \in 0..b - 1 : Passed(a, at, b, f, k)
    BY <1>1, PassEnds
  <2>3. QED
    BY <2>1, <2>2
<1>4. b - (b - 1) = 1
  BY <1>2
<1> HIDE DEF p, L, e
<1>5. p.lines \in [1..Count(a) -> CodeLine] /\ p.symbols \in SymbolTable
  BY <1>1, <1>3 DEF Passed
<1>6. p.lines \in Seq(CodeLine) /\ Len(p.lines) = Count(a)
  BY <1>2, <1>5
<1>7. ASSUME NEW i \in 1..Count(a)
      PROVE  IF 1 < i /\ i =< b
             THEN /\ Occupies(p.lines[i], L[i], e(i - 1), e(i))
                  /\ L[i].label # NoSymbol =>
                       p.symbols[L[i].label] =
                           IF L[i].command = "equate" THEN Number(L[i].number)
                           ELSE Location(e(i - 1))
             ELSE /\ p.lines[i] = L[i]
                  /\ L[i].label # NoSymbol => p.symbols[L[i].label] = MovedSymbols(a)[L[i].label]
  BY <1>1, <1>3, <1>4 DEF Passed, L, e
<1>8. QED
  BY <1>2, <1>5, <1>6, <1>7 DEF p, L, e

\* The ends of the lines of an operating system.
OsEnds(a, at, b, f) ==
    [i \in 0..Count(a) |-> IF i = 0 THEN 0 ELSE EndOf(a, at, b, f, i)]

\* A line of the operating system is the line that was read, but for its place.
LEMMA OsLineKept ==
  ASSUME NEW a, NEW at, NEW b, NEW f, Made(a, at, b, f), NEW i \in 1..Count(a)
  PROVE  LET line == OperatingSystem(a).lines[i]
             old == a.lines[i]
         IN  /\ line \in CodeLine
             /\ line.command = old.command /\ line.label = old.label
             /\ line.operand = old.operand /\ line.number = old.number
             /\ line.emit <=> old.address >= a.burnAddress
             /\ old.command # "align" => line.size = old.size
             /\ ~(1 < i /\ i =< b) =>
                    /\ line.size = old.size
                    /\ line.address = IF old.command = "none" THEN -1 ELSE at[i - 1] + Delta(a)
             /\ 1 < i /\ i =< b /\ old.command = "align" => line.size =< 0
<1> DEFINE line == OperatingSystem(a).lines[i]
           old == a.lines[i]
           L == MovedLines(a)[i]
<1>1. /\ L \in CodeLine
      /\ L.command = old.command /\ L.label = old.label
      /\ L.operand = old.operand /\ L.number = old.number /\ L.size = old.size
      /\ L.address = IF old.command = "none" THEN -1 ELSE at[i - 1] + Delta(a)
      /\ L.emit <=> old.address >= a.burnAddress
  BY MovedLine DEF Made, Scanned
<1>2. CASE 1 < i /\ i =< b
  <2>1. Occupies(line, L, EndOf(a, at, b, f, i - 1), EndOf(a, at, b, f, i))
    BY <1>2, OsLines
  <2> HIDE DEF line, L, old
  <2>2. /\ line \in CodeLine
        /\ line.command = L.command /\ line.label = L.label /\ line.operand = L.operand
        /\ line.number = L.number /\ line.emit = L.emit
        /\ L.command # "align" => line.size = L.size
        /\ L.command = "align" => line.size =< 0
    BY <2>1 DEF Occupies, Same
  <2>3. line.emit <=> old.address >= a.burnAddress
    <3>1. line.emit = L.emit
      BY <2>2
    <3>2. L.emit <=> old.address >= a.burnAddress
      BY <1>1
    <3>3. QED
      BY <3>1, <3>2
  <2>4. QED
    BY <1>1, <1>2, <2>2, <2>3 DEF line, old
<1>3. CASE ~(1 < i /\ i =< b)
  <2>1. line = L
    BY <1>3, OsLines
  <2> HIDE DEF L
  <2>2. QED
    BY <1>1, <1>3, <2>1
<1>4. QED
  BY <1>2, <1>3

\* A line that the pass reached has its bytes between two ends.
LEMMA OsLineEnds ==
  ASSUME NEW a, NEW at, NEW b, NEW f, Made(a, at, b, f), NEW i \in 1..Count(a), i > 1
  PROVE  LET line == OperatingSystem(a).lines[i]
             lo == EndOf(a, at, b, f, i - 1)
             hi == EndOf(a, at, b, f, i)
         IN  /\ lo \in Nat /\ hi \in Nat
             /\ line.address = IF line.command = "none" THEN -1 ELSE lo
             /\ hi = lo + (IF line.size >= 0 THEN line.size ELSE -line.size)
             /\ line.command = "align" /\ i < b => lo % line.number = 0
<1> DEFINE line == OperatingSystem(a).lines[i]
           old == a.lines[i]
           lo == EndOf(a, at, b, f, i - 1)
           hi == EndOf(a, at, b, f, i)
<1>1. /\ line.command = old.command /\ line.number = old.number
      /\ ~(1 < i /\ i =< b) =>
            /\ line.size = old.size
            /\ line.address = IF old.command = "none" THEN -1 ELSE at[i - 1] + Delta(a)
  BY OsLineKept
<1>2. i \in Nat /\ b \in Nat /\ i - 1 \in Nat
  BY OsLines
<1>3. CASE i =< b
  <2>1. Occupies(line, MovedLines(a)[i], lo, hi)
    BY <1>3, OsLines
  <2>2. MovedLines(a)[i].command = old.command /\ MovedLines(a)[i].number = old.number
    BY MovedLine DEF Made, Scanned
  <2> HIDE DEF line, old, lo, hi
  <2>3. QED
    BY <1>1, <2>1, <2>2 DEF Occupies, line, lo, hi
<1>4. CASE ~(i =< b)
  <2>1. /\ line.size = old.size
        /\ line.address = IF old.command = "none" THEN -1 ELSE at[i - 1] + Delta(a)
    BY <1>1, <1>4
  <2>2. at[i - 1] \in Nat /\ at[i] = at[i - 1] + old.size /\ old.size \in Nat
    BY ReadLine DEF Made
  <2>3. Delta(a) \in Nat
    BY DeltaType DEF Made, Scanned
  <2>4. lo = at[i - 1] + Delta(a) + 0 /\ hi = at[i] + Delta(a) + 0
    BY <1>2, <1>4 DEF EndOf
  <2> HIDE DEF line, old, lo, hi
  <2>5. lo = at[i - 1] + Delta(a) /\ hi = lo + old.size /\ lo \in Nat /\ hi \in Nat
    BY <2>2, <2>3, <2>4
  <2>6. line.address = IF line.command = "none" THEN -1 ELSE lo
    BY <1>1, <2>1, <2>5
  <2>7. hi = lo + (IF line.size >= 0 THEN line.size ELSE -line.size)
    BY <2>1, <2>2, <2>5
  <2>8. ~(i < b)
    BY <1>2, <1>4
  <2>9. QED
    BY <2>5, <2>6, <2>7, <2>8 DEF line, lo, hi
<1>5. QED
  BY <1>3, <1>4

\* A symbol has the value of its line.
LEMMA OsSymbol ==
  ASSUME NEW a, NEW at, NEW b, NEW f, Made(a, at, b, f), NEW i \in 1..Count(a),
         a.lines[i].label # NoSymbol
  PROVE  LET value == ValueOf(OperatingSystem(a).symbols[a.lines[i].label])
         IN  IF a.lines[i].command = "equate" THEN value = a.lines[i].number
             ELSE i > 1 => value % MemSize = EndOf(a, at, b, f, i - 1) % MemSize
<1> DEFINE entry == OperatingSystem(a).symbols[a.lines[i].label]
           old == a.lines[i]
           lo == EndOf(a, at, b, f, i - 1)
<1>1. a \in PartialAssembly /\ Laid(a, at) /\ Labelled(a, at) /\ Scanned(a)
  BY DEF Made, Scanned
<1>2. MovedLines(a)[i].label = old.label /\ MovedLines(a)[i].command = old.command
      /\ MovedLines(a)[i].number = old.number
  BY <1>1, MovedLine
<1>3. MovedSymbols(a)[old.label] =
        IF old.command = "equate" THEN Number(old.number)
        ELSE [Location(at[i - 1]) EXCEPT !.offset = Delta(a)]
  BY <1>1, MovedSymbol
<1>4. IF 1 < i /\ i =< b
      THEN entry = IF old.command = "equate" THEN Number(old.number) ELSE Location(lo)
      ELSE entry = MovedSymbols(a)[old.label]
  BY <1>2, OsLines
<1>5. Legal(old) /\ at[i - 1] \in Nat
  BY <1>1, ReadLine
<1>6. i \in Nat /\ b \in Nat
  BY OsLines
<1> HIDE DEF entry, old, lo
<1>7. CASE old.command = "equate"
  <2>1. entry = Number(old.number)
    BY <1>3, <1>4, <1>7
  <2>2. old.number \in Address
    BY <1>5, <1>7 DEF Legal
  <2>3. QED
    BY <1>7, <2>1, <2>2, EquateValue DEF entry, old
<1>8. CASE old.command # "equate"
  <2>1. ASSUME i > 1 PROVE ValueOf(entry) % MemSize = lo % MemSize
    <3>1. CASE i =< b
      <4>1. entry = Location(lo)
        BY <1>4, <1>6, <1>8, <2>1, <3>1
      <4>2. lo \in Nat
        BY <2>1, OsLineEnds DEF lo
      <4>3. QED
        BY <4>1, <4>2, SymbolValues
    <3>2. CASE ~(i =< b)
      <4>1. entry = [Location(at[i - 1]) EXCEPT !.offset = Delta(a)]
        BY <1>3, <1>4, <1>8, <3>2
      <4>2. Delta(a) \in Nat
        BY <1>1, DeltaType
      <4>3. lo = at[i - 1] + Delta(a)
        <5>1. i - 1 >= b
          BY <1>6, <3>2
        <5>2. lo = at[i - 1] + Delta(a) + 0
          BY <5>1 DEF lo, EndOf
        <5>3. QED
          BY <1>5, <4>2, <5>2
      <4>4. QED
        BY <1>5, <4>1, <4>2, <4>3, SymbolValues
    <3>3. QED
      BY <3>1, <3>2
  <2>2. QED
    BY <1>8, <2>1 DEF entry, old, lo
<1>9. QED
  BY <1>7, <1>8

LEMMA OsPositioned ==
  ASSUME NEW a, NEW at, NEW b, NEW f, Made(a, at, b, f)
  PROVE  /\ Positioned(OperatingSystem(a), OsEnds(a, at, b, f))
         /\ BurnLine(OperatingSystem(a).lines) = b
<1> DEFINE p == OperatingSystem(a)
           n == Count(a)
           pos == OsEnds(a, at, b, f)
           e(i) == EndOf(a, at, b, f, i)
<1>1. p.lines \in Seq(CodeLine) /\ Len(p.lines) = n /\ n \in Nat /\ b \in 1..n
  BY OsLines
<1>2. Laid(a, at) /\ Labelled(a, at) /\ Burns(a, at, b) /\ Scanned(a)
      /\ n > 0 /\ a.lines[n].command = "end" /\ p.burn = TRUE
  BY DEF Made
<1>3. \A i \in 1..n : /\ p.lines[i].command = a.lines[i].command
                      /\ p.lines[i].label = a.lines[i].label
                      /\ p.lines[i].number = a.lines[i].number
                      /\ a.lines[i].command # "align" => p.lines[i].size = a.lines[i].size
  BY OsLineKept
<1>4. BurnLine(p.lines) = b
  <2>1. DOMAIN p.lines = 1..n
    BY <1>1
  <2>2. \A i \in 1..n : p.lines[i].command = "burn" <=> i = b
    BY <1>2, <1>3 DEF Burns
  <2> HIDE DEF p, n
  <2>3. QED
    BY <1>1, <2>1, <2>2 DEF BurnLine
<1>5. \A i \in 1..n : pos[i] = e(i)
  BY <1>1 DEF OsEnds
<1> HIDE DEF p, pos, e
<1>6. ASSUME NEW i \in 1..n
      PROVE  LET line == p.lines[i]
             IN  /\ line.label # NoSymbol =>
                        /\ line.command # "none"
                        /\ line.command = "equate" => ValueOf(p.symbols[line.label]) = line.number
                 /\ i > 1 =>
                    /\ pos[i - 1] \in Nat /\ pos[i] \in Nat
                    /\ line.address = IF line.command = "none" THEN -1 ELSE pos[i - 1]
                    /\ pos[i] = pos[i - 1] + (IF line.size >= 0 THEN line.size ELSE -line.size)
                    /\ line.command = "none" => line.size = 0
                    /\ line.command \in Instructions => line.size > 0
                    /\ line.command = "align" =>
                            (i < BurnLine(p.lines) => pos[i - 1] % line.number = 0)
                    /\ line.label # NoSymbol /\ line.command # "equate" =>
                            ValueOf(p.symbols[line.label]) % MemSize = pos[i - 1] % MemSize
  <2> DEFINE line == p.lines[i]
             old == a.lines[i]
  <2>1. /\ line.command = old.command /\ line.label = old.label /\ line.number = old.number
        /\ old.command # "align" => line.size = old.size
    BY <1>3
  <2>2. /\ old.command = "none" => old.size = 0
        /\ old.command \in Instructions => old.size > 0
    BY <1>2, ReadLine
  <2>3. old.label # NoSymbol => old.command # "none"
    BY <1>2 DEF Labelled
  <2>4. old.label # NoSymbol =>
            IF old.command = "equate" THEN ValueOf(p.symbols[old.label]) = old.number
            ELSE i > 1 => ValueOf(p.symbols[old.label]) % MemSize = e(i - 1) % MemSize
    BY OsSymbol DEF p, e
  <2>5. i > 1 => /\ e(i - 1) \in Nat /\ e(i) \in Nat
                 /\ line.address = IF line.command = "none" THEN -1 ELSE e(i - 1)
                 /\ e(i) = e(i - 1) + (IF line.size >= 0 THEN line.size ELSE -line.size)
                 /\ line.command = "align" /\ i < b => e(i - 1) % line.number = 0
    BY OsLineEnds DEF p, e
  <2>6. pos[i] = e(i) /\ (i > 1 => pos[i - 1] = e(i - 1))
    <3>1. i > 1 => i - 1 \in 1..n
      BY <1>1
    <3>2. QED
      BY <1>5, <3>1
  <2> HIDE DEF line, old
  <2>7. /\ line.command = "none" => line.size = 0
        /\ line.command \in Instructions => line.size > 0
    BY <2>1, <2>2 DEF Instructions
  <2>8. /\ line.label # NoSymbol =>
                /\ line.command # "none"
                /\ line.command = "equate" => ValueOf(p.symbols[line.label]) = line.number
        /\ i > 1 /\ line.label # NoSymbol /\ line.command # "equate" =>
                ValueOf(p.symbols[line.label]) % MemSize = pos[i - 1] % MemSize
    BY <2>1, <2>3, <2>4, <2>6
  <2>9. QED
    BY <1>4, <2>5, <2>6, <2>7, <2>8 DEF line
<1>7. p.lines[n].command = "end"
  BY <1>1, <1>2, <1>3
<1>8. Positioned(p, pos)
  BY <1>1, <1>2, <1>6, <1>7 DEF Positioned
<1>9. QED
  BY <1>4, <1>8 DEF p, pos

-----------------------------------------------------------------------------
(* What holds of a program with its lines in position.                     *)

LEMMA Abutting ==
  ASSUME NEW pos, Positioned(program, pos)
  PROVE  LinesAbut
<1> SUFFICES ASSUME NEW i \in Lines, NEW j \in Lines, Follows(i, j), Reached(i)
             PROVE  Line(j).address = Line(i).address + Width(i)
  BY DEF LinesAbut
<1> DEFINE n == Len(program.lines)
<1>1. Lines = 1..n /\ n \in Nat
  BY DEF Positioned, Lines
<1>2. i < j /\ Line(i).address # -1 /\ Line(j).address # -1
      /\ \A k \in i + 1..j - 1 : Line(k).address = -1
  BY DEF Follows
<1>3. ASSUME NEW k \in 1..n, k >= i
      PROVE  /\ pos[k - 1] \in Nat /\ pos[k] \in Nat
             /\ Line(k).address = IF Line(k).command = "none" THEN -1 ELSE pos[k - 1]
             /\ pos[k] = pos[k - 1] + Width(k)
             /\ Line(k).command = "none" => Line(k).size = 0
  <2>1. program.burn => k > 1
    BY <1>1, <1>3 DEF Reached
  <2>2. QED
    BY <2>1 DEF Positioned, Line, Width
<1>4. i \in 1..n /\ j \in 1..n /\ j - 1 \in Nat /\ i =< j - 1 /\ i \in Nat
  BY <1>1, <1>2
<1>5. ASSUME NEW k \in i + 1..j - 1 PROVE pos[k - 1] = pos[k]
  <2>1. k \in 1..n /\ k >= i
    BY <1>4
  <2>2. pos[k - 1] \in Nat /\ Line(k).address = -1
    BY <1>2, <1>3, <2>1
  <2>3. Line(k).command = "none" /\ Line(k).size = 0
    BY <1>3, <2>1, <2>2
  <2>4. Width(k) = 0
    BY <2>3 DEF Width
  <2>5. QED
    BY <1>3, <2>1, <2>2, <2>4
<1>6. pos[i] = pos[j - 1]
  BY <1>4, <1>5, Steady
<1>7. Line(i).address = pos[i - 1] /\ pos[i] = pos[i - 1] + Width(i) /\ Line(j).address = pos[j - 1]
  BY <1>2, <1>3, <1>4
<1>8. QED
  BY <1>6, <1>7

LEMMA SymbolsNaming ==
  ASSUME NEW pos, Positioned(program, pos)
  PROVE  SymbolsNameTheirLines
<1> SUFFICES ASSUME NEW i \in Lines, Line(i).label # NoSymbol
             PROVE  LET value == ValueOf(program.symbols[Line(i).label])
                    IN IF Line(i).command = "equate" THEN value = Line(i).number
                       ELSE Reached(i) => value % MemSize = Line(i).address % MemSize
  BY DEF SymbolsNameTheirLines
<1>1. i \in 1..Len(program.lines)
  BY DEF Positioned, Lines
<1>2. Line(i).command # "none"
      /\ (Line(i).command = "equate" => ValueOf(program.symbols[Line(i).label]) = Line(i).number)
  BY <1>1 DEF Positioned, Line
<1>3. Reached(i) => Line(i).address = IF Line(i).command = "none" THEN -1 ELSE pos[i - 1]
  BY <1>1 DEF Positioned, Line, Reached
<1>4. Reached(i) /\ Line(i).command # "equate" =>
        ValueOf(program.symbols[Line(i).label]) % MemSize = pos[i - 1] % MemSize
  BY <1>1 DEF Positioned, Line, Reached
<1>5. QED
  BY <1>2, <1>3, <1>4

LEMMA Aligning ==
  ASSUME NEW pos, Positioned(program, pos)
  PROVE  AlignmentsHold
<1> SUFFICES ASSUME NEW i \in Lines, Line(i).command = "align"
             PROVE  IF ~program.burn THEN (Line(i).address + Line(i).size) % Line(i).number = 0
                    ELSE (i < BurnLine(program.lines) /\ Reached(i))
                            => Line(i).address % Line(i).number = 0
  BY DEF AlignmentsHold
<1>1. i \in 1..Len(program.lines)
  BY DEF Positioned, Lines
<1>2. Reached(i) =>
        /\ Line(i).address = pos[i - 1]
        /\ pos[i] = pos[i - 1] + (IF Line(i).size >= 0 THEN Line(i).size ELSE -Line(i).size)
        /\ IF ~program.burn THEN Line(i).size >= 0 /\ pos[i] % Line(i).number = 0
           ELSE i < BurnLine(program.lines) => pos[i - 1] % Line(i).number = 0
  BY <1>1 DEF Positioned, Line, Reached
<1>3. CASE ~program.burn
  <2>1. Reached(i)
    BY <1>3 DEF Reached
  <2>2. pos[i] = Line(i).address + Line(i).size /\ pos[i] % Line(i).number = 0
    BY <1>2, <1>3, <2>1
  <2>3. QED
    BY <1>3, <2>2
<1>4. CASE program.burn
  BY <1>2, <1>4
<1>5. QED
  BY <1>3, <1>4

\* -1 is the last address as a quint16.
LEMMA LastAddress == (-1) % MemSize = MemSize - 1
<1>1. -1 = (-1) * MemSize + (MemSize - 1) /\ MemSize - 1 \in 0..MemSize - 1 /\ -1 \in Int
  BY MemSizeType
<1>2. ((-1) * MemSize + (MemSize - 1)) % MemSize = MemSize - 1
  BY <1>1, MemSizeType, RemainderOfSum
<1>3. QED
  BY <1>1, <1>2

\* Every line after an instruction is entered at another address.
LEMMA Finding ==
  ASSUME NEW pos, Positioned(program, pos), ~program.burn,
         NEW i \in Lines, Line(i).command \in Instructions
  PROVE  CodeAt(program, Line(i).address) = i
<1> DEFINE n == Len(program.lines)
<1>1. Lines = 1..n /\ n \in Nat /\ i \in 1..n /\ n \in 1..n
  BY DEF Positioned, Lines
<1>2. ASSUME NEW k \in 1..n
      PROVE  /\ pos[k - 1] \in Nat /\ pos[k] \in Nat
             /\ Line(k).address = IF Line(k).command = "none" THEN -1 ELSE pos[k - 1]
             /\ pos[k] = pos[k - 1] + (IF Line(k).size >= 0 THEN Line(k).size ELSE -Line(k).size)
             /\ Line(k).size \in Int
             /\ Line(k).command \in Instructions => Line(k).size > 0
  <2>1. Line(k) \in CodeLine
    BY DEF Positioned, Line
  <2>2. Line(k).size \in Int
    BY <2>1 DEF CodeLine
  <2>3. QED
    BY <2>2 DEF Positioned, Line
<1>3. ASSUME NEW k \in 1..n PROVE pos[k - 1] =< pos[k]
  <2>1. pos[k - 1] \in Nat /\ Line(k).size \in Int
        /\ pos[k] = pos[k - 1] + (IF Line(k).size >= 0 THEN Line(k).size ELSE -Line(k).size)
    BY <1>2
  <2>2. CASE Line(k).size >= 0
    BY <2>1, <2>2
  <2>3. CASE ~(Line(k).size >= 0)
    BY <2>1, <2>3
  <2>4. QED
    BY <2>2, <2>3
<1>4. ASSUME NEW x \in 1..n, NEW y \in 1..n, x =< y PROVE pos[x] =< pos[y]
  <2>1. \A k \in x..y : pos[k] \in Nat
    <3>1. \A k \in x..y : k \in 1..n
      BY <1>1
    <3>2. QED
      BY <1>2, <3>1
  <2>2. \A k \in x + 1..y : pos[k - 1] =< pos[k]
    <3>1. \A k \in x + 1..y : k \in 1..n
      BY <1>1
    <3>2. QED
      BY <1>3, <3>1
  <2>3. x \in Nat /\ y \in Nat
    BY <1>1
  <2> HIDE DEF n
  <2>4. QED
    BY <1>4, <2>1, <2>2, <2>3, Rising
<1>5. pos[n] < MemSize
  BY DEF Positioned
<1> DEFINE A == Line(i).address
<1>6. A = pos[i - 1] /\ A \in Nat /\ A < pos[i] /\ pos[i] \in Nat
  <2>1. Line(i).command # "none"
    BY DEF Instructions
  <2>2. /\ pos[i - 1] \in Nat /\ A = pos[i - 1] /\ Line(i).size > 0 /\ Line(i).size \in Int
        /\ pos[i] = pos[i - 1] + (IF Line(i).size >= 0 THEN Line(i).size ELSE -Line(i).size)
    BY <1>1, <1>2, <2>1
  <2> HIDE DEF A
  <2>3. QED
    BY <2>2
<1>7. A < MemSize - 1 /\ A % MemSize = A
  <2>1. pos[i] =< pos[n] /\ pos[n] \in Nat
    BY <1>1, <1>2, <1>4
  <2> HIDE DEF A
  <2>2. A < MemSize - 1
    BY <1>5, <1>6, <2>1, MemSizeType
  <2>3. A \in 0..MemSize - 1
    BY <1>6, <2>2, MemSizeType
  <2>4. QED
    BY <2>2, <2>3, MemSizeType, SmallRemainder
<1> HIDE DEF A
<1>8. ASSUME NEW j \in 1..n, j > i PROVE Line(j).address % MemSize # A
  <2>1. /\ pos[j - 1] \in Nat /\ pos[j] \in Nat
        /\ Line(j).address = IF Line(j).command = "none" THEN -1 ELSE pos[j - 1]
    BY <1>2
  <2>2. CASE Line(j).command = "none"
    <3>1. Line(j).address = -1
      BY <2>1, <2>2
    <3>2. QED
      BY <1>6, <1>7, <3>1, LastAddress, MemSizeType
  <2>3. CASE Line(j).command # "none"
    <3>1. i \in 1..n /\ j - 1 \in 1..n /\ i =< j - 1 /\ n \in 1..n /\ j - 1 =< n
      BY <1>1, <1>8
    <3>2. pos[i] =< pos[j - 1] /\ pos[j - 1] =< pos[n] /\ pos[n] \in Nat
      BY <1>2, <1>4, <3>1
    <3>3. A < pos[j - 1] /\ pos[j - 1] \in 0..MemSize - 1
      BY <1>5, <1>6, <2>1, <3>2, MemSizeType
    <3>4. pos[j - 1] % MemSize = pos[j - 1]
      BY <3>3, MemSizeType, SmallRemainder
    <3>5. QED
      BY <1>6, <2>1, <2>3, <3>3, <3>4
  <2>4. QED
    BY <2>2, <2>3
<1> DEFINE at == LinesAt(program, A)
<1>9. at = {j \in 1..n : Line(j).address % MemSize = A}
  BY <1>1 DEF LinesAt, Line, Lines
<1>10. i \in at /\ \A j \in at : j \in Int /\ j =< i
  <2>1. i \in at
    BY <1>1, <1>7, <1>9 DEF A
  <2>2. ASSUME NEW j \in at PROVE j \in Int /\ j =< i
    <3>1. j \in 1..n /\ Line(j).address % MemSize = A
      BY <1>9
    <3>2. QED
      BY <1>1, <1>8, <3>1
  <2>3. QED
    BY <2>1, <2>2
<1> HIDE DEF at
<1>11. \A k \in at : (\A j \in at : j =< k) => k = i
  BY <1>1, <1>10
<1>12. CodeAt(program, A) = CHOOSE k \in at : \A j \in at : j =< k
  BY <1>10 DEF CodeAt, at
<1>13. QED
  BY <1>10, <1>11, <1>12 DEF A

-----------------------------------------------------------------------------
(* Object code.                                                            *)

\* c holds the object code of the first lines of p.
Codes(c, p) ==
    /\ c[0] = <<>>
    /\ \A i \in 1..Len(p.lines) : c[i] = c[i - 1] \o LineCode(p, i)

\* The function that ObjectCode defines exists.
LEMMA CodeExists ==
  ASSUME NEW p, Len(p.lines) \in Nat
  PROVE  \E c : Codes(c, p) /\ ObjectCode(p) = c[Len(p.lines)]
<1> DEFINE n == Len(p.lines)
           Is(c, m) == c = [k \in 0..m |-> IF k = 0 THEN <<>> ELSE c[k - 1] \o LineCode(p, k)]
           D == {m \in Nat : \E c : Is(c, m)}
<1>1. 0 \in D
  <2> DEFINE c == [k \in 0..0 |-> <<>>]
  <2>1. ASSUME NEW k \in 0..0
        PROVE  c[k] = IF k = 0 THEN <<>> ELSE c[k - 1] \o LineCode(p, k)
    BY <2>1
  <2>2. Is(c, 0)
    BY <2>1
  <2>3. QED
    BY <2>2
<1>2. ASSUME NEW m \in Nat, m \in D PROVE m + 1 \in D
  <2>1. PICK c : Is(c, m)
    BY <1>2
  <2> DEFINE g == [k \in 0..m + 1 |-> IF k = m + 1 THEN c[m] \o LineCode(p, m + 1) ELSE c[k]]
  <2>2. ASSUME NEW k \in 0..m + 1
        PROVE  g[k] = IF k = 0 THEN <<>> ELSE g[k - 1] \o LineCode(p, k)
    <3>1. CASE k = m + 1
      <4>1. k - 1 = m /\ m \in 0..m + 1 /\ m # m + 1 /\ k # 0
        BY <3>1
      <4>2. g[m] = c[m] /\ g[k] = c[m] \o LineCode(p, m + 1)
        BY <3>1, <4>1
      <4> HIDE DEF g
      <4>3. QED
        BY <3>1, <4>1, <4>2
    <3>2. CASE k # m + 1
      <4>1. k \in 0..m
        BY <3>2
      <4>2. g[k] = c[k]
        BY <3>2
      <4>3. c[k] = IF k = 0 THEN <<>> ELSE c[k - 1] \o LineCode(p, k)
        BY <2>1, <4>1
      <4>4. CASE k = 0
        BY <4>2, <4>3, <4>4
      <4>5. CASE k # 0
        <5>1. k - 1 \in 0..m + 1 /\ k - 1 # m + 1
          BY <4>1, <4>5
        <5>2. g[k - 1] = c[k - 1]
          BY <5>1
        <5> HIDE DEF g
        <5>3. QED
          BY <4>2, <4>3, <4>5, <5>2
      <4>6. QED
        BY <4>4, <4>5
    <3>3. QED
      BY <3>1, <3>2
  <2>3. g = [k \in 0..m + 1 |-> g[k]]
    OBVIOUS
  <2> HIDE DEF g
  <2>4. Is(g, m + 1)
    BY <2>2, <2>3
  <2> HIDE DEF Is
  <2>5. m + 1 \in Nat
    OBVIOUS
  <2>6. QED
    BY <2>4, <2>5
<1>3. Nat \subseteq D
  <2> HIDE DEF D
  <2>1. QED
    BY <1>1, <1>2, Induction
<1> DEFINE h == CHOOSE c : Is(c, n)
<1>4. Is(h, n)
  BY <1>3
<1>5. ObjectCode(p) = h[n]
  BY DEF ObjectCode
<1> HIDE DEF h
<1>6. h[0] = <<>>
  <2>1. 0 \in 0..n
    OBVIOUS
  <2>2. QED
    BY <1>4, <2>1
<1>7. ASSUME NEW k \in 1..n PROVE h[k] = h[k - 1] \o LineCode(p, k)
  <2>1. k \in 0..n /\ k # 0
    OBVIOUS
  <2>2. QED
    BY <1>4, <2>1
<1>8. QED
  BY <1>5, <1>6, <1>7 DEF Codes

\* A byte of line i, and m of them.
IsCell(cell, i) == cell.line = i /\ cell.value \in 0..ByteBase - 1
IsCode(c, i, m) ==
    /\ m \in Nat /\ c = [k \in 1..m |-> c[k]]
    /\ \A k \in 1..m : IsCell(c[k], i)

\* What a line is made of.
LEMMA CellLine == ASSUME NEW i, NEW v \in Int PROVE IsCell(Cell(i, v), i)
<1>1. v % ByteBase \in 0..ByteBase - 1
  BY AssemblerAssumption, Division
<1>2. QED
  BY <1>1 DEF Cell, IsCell

LEMMA CellsAreCode ==
  ASSUME NEW i, NEW v \in Int, NEW size \in Int
  PROVE  IsCode([k \in 1..size |-> Cell(i, v)], i, IF size >= 0 THEN size ELSE 0)
<1> DEFINE c == [k \in 1..size |-> Cell(i, v)]
           m == IF size >= 0 THEN size ELSE 0
<1>1. m \in Nat /\ 1..size = 1..m
  <2>1. CASE size >= 0
    BY <2>1
  <2>2. CASE ~(size >= 0)
    <3>1. 1..size = {} /\ 1..0 = {} /\ m = 0
      BY <2>2
    <3>2. QED
      BY <3>1
  <2>3. QED
    BY <2>1, <2>2
<1> HIDE DEF m
<1>2. c = [k \in 1..m |-> c[k]]
  BY <1>1
<1>3. \A k \in 1..m : c[k] = Cell(i, v)
  BY <1>1
<1> HIDE DEF c
<1>4. \A k \in 1..m : IsCell(c[k], i)
  BY <1>3, CellLine
<1>5. QED
  BY <1>1, <1>2, <1>4 DEF IsCode, c, m

LEMMA ThreeCells ==
  ASSUME NEW a, NEW b, NEW d
  PROVE  <<d>> \o <<a, b>> = <<d, a, b>>
<1> DEFINE S == {a, b, d}
           x == <<d>>
           y == <<a, b>>
           z == x \o y
           w == <<d, a, b>>
<1>1. x \in Seq(S) /\ y \in Seq(S) /\ w \in Seq(S)
  OBVIOUS
<1>2. Len(x) = 1 /\ Len(y) = 2 /\ Len(w) = 3 /\ x[1] = d /\ y[1] = a /\ y[2] = b
      /\ w[1] = d /\ w[2] = a /\ w[3] = b
  OBVIOUS
<1> HIDE DEF x, y, w
<1>3. /\ z \in Seq(S) /\ Len(z) = Len(x) + Len(y)
      /\ \A k \in 1..Len(x) + Len(y) : z[k] = IF k =< Len(x) THEN x[k] ELSE y[k - Len(x)]
  BY <1>1, ConcatProperties
<1> HIDE DEF z, S
<1>4. Len(z) = 3 /\ z[1] = d /\ z[2] = a /\ z[3] = b
  BY <1>2, <1>3
<1>5. \A k \in 1..Len(z) : z[k] = w[k]
  BY <1>2, <1>4
<1>6. z = w
  BY <1>1, <1>2, <1>3, <1>4, <1>5, SeqEqual
<1>7. QED
  BY <1>6 DEF z, x, y, w

\* The value of a symbol is a number.
LEMMA EntryValue ==
  ASSUME NEW symbols \in SymbolTable, NEW s \in Symbols
  PROVE  ValueOf(symbols[s]) \in Int
<1>1. symbols[s] \in Entry
  BY DEF SymbolTable
<1>2. symbols[s].base \in Int /\ symbols[s].offset \in Int
  BY <1>1, MemSizeType DEF Entry, Address
<1>3. QED
  BY <1>2 DEF ValueOf

LEMMA OperandIsCode ==
  ASSUME NEW p, NEW i, p.symbols \in SymbolTable, p.lines[i] \in CodeLine
  PROVE  /\ IsCode(OperandBytes(p, i), i, 2)
         /\ IsCode(<<Cell(i, 1)>> \o OperandBytes(p, i), i, 3)
<1> DEFINE value == IF p.lines[i].operand = NoSymbol THEN 0
                    ELSE ValueOf(p.symbols[p.lines[i].operand])
           a == Cell(i, value \div ByteBase)
           b == Cell(i, value % ByteBase)
           d == Cell(i, 1)
<1>1. OperandBytes(p, i) = <<a, b>>
  BY DEF OperandBytes
<1>2. IsCell(a, i) /\ IsCell(b, i) /\ IsCell(d, i)
  <2>1. value \in Int
    BY EntryValue DEF CodeLine
  <2> HIDE DEF value
  <2>2. value \div ByteBase \in Int /\ value % ByteBase \in Int /\ 1 \in Int
    BY <2>1, AssemblerAssumption, Division
  <2>3. QED
    BY <2>2, CellLine
<1> HIDE DEF a, b, d
<1>3. <<d>> \o <<a, b>> = <<d, a, b>>
  BY ThreeCells
<1>4. <<a, b>> = [k \in 1..2 |-> <<a, b>>[k]] /\ <<d, a, b>> = [k \in 1..3 |-> <<d, a, b>>[k]]
  OBVIOUS
<1>5. \A k \in 1..2 : IsCell(<<a, b>>[k], i)
  BY <1>2
<1>6. \A k \in 1..3 : IsCell(<<d, a, b>>[k], i)
  BY <1>2
<1>7. IsCode(<<a, b>>, i, 2)
  BY <1>4, <1>5 DEF IsCode
<1>8. IsCode(<<d, a, b>>, i, 3)
  BY <1>4, <1>6 DEF IsCode
<1>9. QED
  BY <1>1, <1>3, <1>7, <1>8 DEF d

\* The bytes of a line are as many as its size, unless it is silent.
LEMMA LineIsCode ==
  ASSUME NEW p, NEW i, p.lines[i] \in CodeLine, p.symbols \in SymbolTable,
         p.lines[i].command = "nonunary" => p.lines[i].size = 3,
         p.lines[i].command = "addrss" => p.lines[i].size = 2
  PROVE  IF ~p.lines[i].emit \/ (p.burn /\ p.lines[i].address < p.burnAddress)
         THEN IsCode(LineCode(p, i), i, 0)
         ELSE IsCode(LineCode(p, i), i, IF p.lines[i].size >= 0 THEN p.lines[i].size ELSE 0)
<1> DEFINE line == p.lines[i]
           quiet == ~line.emit \/ (p.burn /\ line.address < p.burnAddress)
           code == LineCode(p, i)
<1>1. line.size \in Int
  BY DEF CodeLine
<1>2. code = IF quiet THEN <<>>
             ELSE CASE line.command = "nonunary" -> <<Cell(i, 1)>> \o OperandBytes(p, i)
                    [] line.command = "addrss" -> OperandBytes(p, i)
                    [] line.command \in {"unary", "data"} -> [k \in 1..line.size |-> Cell(i, 1)]
                    [] OTHER -> [k \in 1..line.size |-> Cell(i, 0)]
  BY DEF LineCode
<1> HIDE DEF quiet, code, line
<1>3. CASE quiet
  <2>1. code = <<>>
    BY <1>2, <1>3
  <2>2. code = [k \in 1..0 |-> code[k]]
    BY <2>1
  <2>3. IsCode(code, i, 0)
    BY <2>2 DEF IsCode
  <2>4. QED
    BY <1>3, <2>3 DEF quiet, line, code
<1>4. CASE ~quiet
  <2>1. CASE line.command = "nonunary"
    <3>1. code = <<Cell(i, 1)>> \o OperandBytes(p, i) /\ line.size = 3
      BY <1>2, <1>4, <2>1 DEF line
    <3>2. IsCode(code, i, 3)
      BY <3>1, OperandIsCode
    <3>3. QED
      BY <1>4, <3>1, <3>2 DEF quiet, line, code
  <2>2. CASE line.command = "addrss"
    <3>1. code = OperandBytes(p, i) /\ line.size = 2
      BY <1>2, <1>4, <2>2 DEF line
    <3>2. IsCode(code, i, 2)
      BY <3>1, OperandIsCode
    <3>3. QED
      BY <1>4, <3>1, <3>2 DEF quiet, line, code
  <2>3. CASE line.command \notin {"nonunary", "addrss"}
    <3>1. \/ code = [k \in 1..line.size |-> Cell(i, 1)]
          \/ code = [k \in 1..line.size |-> Cell(i, 0)]
      BY <1>2, <1>4, <2>3
    <3>2. IsCode(code, i, IF line.size >= 0 THEN line.size ELSE 0)
      <4>1. 0 \in Int /\ 1 \in Int
        OBVIOUS
      <4>2. QED
        BY <1>1, <3>1, <4>1, CellsAreCode
    <3>3. QED
      BY <1>4, <3>2 DEF quiet, line, code
  <2>4. QED
    BY <2>1, <2>2, <2>3
<1>5. QED
  BY <1>3, <1>4

\* w[i] is the count of bytes of the first i lines.
Weighs(p, w) ==
    /\ Len(p.lines) \in Nat /\ w[0] = 0
    /\ \A i \in 0..Len(p.lines) : w[i] \in Nat
    /\ \A i \in 1..Len(p.lines) :
        w[i - 1] =< w[i] /\ IsCode(LineCode(p, i), i, w[i] - w[i - 1])

\* Byte k is between the ends of its line.
InLine(p, w, code, k) ==
    /\ code[k].line \in 1..Len(p.lines)
    /\ w[code[k].line - 1] < k /\ k =< w[code[k].line]
    /\ code[k].value \in 0..ByteBase - 1

\* Every byte of object code is in the line that it was generated for.
LEMMA CodeOfLines ==
  ASSUME NEW p, NEW w, Weighs(p, w)
  PROVE  /\ Len(ObjectCode(p)) = w[Len(p.lines)] /\ DOMAIN ObjectCode(p) = 1..w[Len(p.lines)]
         /\ \A k \in DOMAIN ObjectCode(p) : InLine(p, w, ObjectCode(p), k)
<1> DEFINE n == Len(p.lines)
           code(i) == LineCode(p, i)
           S == {code(j)[k] : j \in 1..n, k \in Nat}
<1>1. /\ n \in Nat /\ w[0] = 0 /\ \A i \in 0..n : w[i] \in Nat
      /\ \A i \in 1..n : w[i - 1] =< w[i] /\ IsCode(code(i), i, w[i] - w[i - 1])
  BY DEF Weighs
<1>2. PICK c : Codes(c, p) /\ ObjectCode(p) = c[n]
  BY <1>1, CodeExists
<1>3. c[0] = <<>> /\ \A i \in 1..n : c[i] = c[i - 1] \o code(i)
  BY <1>2 DEF Codes
<1> HIDE DEF n, code
<1>4. ASSUME NEW i \in 1..n
      PROVE  /\ code(i) \in Seq(S) /\ Len(code(i)) = w[i] - w[i - 1]
             /\ \A k \in 1..w[i] - w[i - 1] : IsCell(code(i)[k], i)
  <2> DEFINE m == w[i] - w[i - 1]
             e == code(i)
  <2>1. m \in Nat /\ e = [k \in 1..m |-> e[k]] /\ \A k \in 1..m : IsCell(e[k], i)
    BY <1>1 DEF IsCode
  <2>2. \A k \in 1..m : e[k] \in S
    <3>1. ASSUME NEW k \in 1..m PROVE e[k] \in S
      <4>1. k \in Nat
        BY <2>1
      <4>2. QED
        BY <4>1
    <3>2. QED
      BY <3>1
  <2> HIDE DEF m, e, S
  <2>3. e \in [1..m -> S]
    BY <2>1, <2>2
  <2>4. e \in Seq(S) /\ Len(e) = m
    BY <2>1, <2>3
  <2>5. QED
    BY <2>1, <2>4 DEF m, e
<1> HIDE DEF S
<1> DEFINE Good(i) == /\ c[i] \in Seq(S) /\ Len(c[i]) = w[i]
                      /\ \A k \in 1..w[i] : InLine(p, w, c[i], k)
           D == {i \in Nat : i =< n => Good(i)}
<1>5. 0 \in D
  <2>1. c[0] \in Seq(S) /\ Len(c[0]) = 0
    BY <1>3
  <2>2. 1..w[0] = {}
    BY <1>1
  <2>3. Good(0)
    BY <1>1, <2>1, <2>2
  <2> HIDE DEF Good
  <2>4. QED
    BY <2>3
<1>6. ASSUME NEW i \in Nat, i \in D PROVE i + 1 \in D
  <2>1. SUFFICES ASSUME i + 1 =< n PROVE Good(i + 1)
    <3> HIDE DEF Good
    <3>1. QED
      BY <2>1
  <2>2. i \in 0..n /\ i + 1 \in 1..n /\ i + 1 \in 0..n /\ (i + 1) - 1 = i /\ i =< n
    BY <1>1, <2>1
  <2>3. Good(i)
    <3> HIDE DEF Good
    <3>1. QED
      BY <1>6, <2>2
  <2> DEFINE x == c[i]
             y == code(i + 1)
             z == c[i + 1]
             u == w[i]
             v == w[i + 1]
  <2>4. /\ x \in Seq(S) /\ Len(x) = u /\ \A k \in 1..u : InLine(p, w, x, k)
    BY <2>3
  <2>5. y \in Seq(S) /\ Len(y) = v - u /\ \A k \in 1..v - u : IsCell(y[k], i + 1)
    BY <1>4, <2>2
  <2>6. z = x \o y
    BY <1>3, <2>2
  <2>7. u \in Nat /\ v \in Nat /\ u =< v
    BY <1>1, <2>2
  <2> HIDE DEF x, y, z, u, v
  <2>8. /\ z \in Seq(S) /\ Len(z) = Len(x) + Len(y)
        /\ \A k \in 1..Len(x) + Len(y) : z[k] = IF k =< Len(x) THEN x[k] ELSE y[k - Len(x)]
    BY <2>4, <2>5, <2>6, ConcatProperties
  <2>9. Len(z) = v
    BY <2>4, <2>5, <2>7, <2>8
  <2>10. ASSUME NEW k \in 1..v PROVE InLine(p, w, z, k)
    <3>1. CASE k =< u
      <4>1. k \in 1..u /\ z[k] = x[k]
        BY <2>4, <2>5, <2>7, <2>8, <3>1
      <4>2. InLine(p, w, x, k)
        BY <2>4, <4>1
      <4>3. QED
        BY <4>1, <4>2 DEF InLine
    <3>2. CASE k > u
      <4>1. k - u \in 1..v - u /\ z[k] = y[k - u]
        BY <2>4, <2>5, <2>7, <2>8, <3>2
      <4>2. z[k].line = i + 1 /\ z[k].value \in 0..ByteBase - 1
        BY <2>5, <4>1 DEF IsCell
      <4>3. w[(i + 1) - 1] < k /\ k =< w[i + 1]
        BY <2>2, <2>7, <3>2 DEF u, v
      <4>4. QED
        BY <2>2, <4>2, <4>3 DEF InLine, n
    <3>3. QED
      BY <2>7, <3>1, <3>2
  <2>11. QED
    BY <2>8, <2>9, <2>10 DEF z, v
<1>7. Nat \subseteq D
  <2> HIDE DEF D
  <2>1. QED
    BY <1>5, <1>6, Induction
<1>8. Good(n)
  <2> HIDE DEF Good
  <2>1. n \in D
    BY <1>1, <1>7
  <2>2. QED
    BY <1>1, <2>1
<1>9. DOMAIN c[n] = 1..w[n]
  BY <1>8
<1>10. QED
  BY <1>2, <1>8, <1>9 DEF n

\* The count of bytes never falls.
LEMMA CountRises ==
  ASSUME NEW a, Scanned(a), NEW at, Laid(a, at),
         NEW i \in 0..Count(a), NEW j \in 0..Count(a), i =< j
  PROVE  at[i] \in Nat /\ at[j] \in Nat /\ at[i] =< at[j]
<1>1. at \in [0..Count(a) -> Nat] /\ Count(a) \in Nat
  BY DEF Laid, Scanned, PartialAssembly, Count
<1>2. \A k \in i..j : at[k] \in Nat
  <2>1. \A k \in i..j : k \in 0..Count(a)
    BY <1>1
  <2>2. QED
    BY <1>1, <2>1
<1>3. \A k \in i + 1..j : at[k - 1] =< at[k]
  <2>1. ASSUME NEW k \in i + 1..j PROVE at[k - 1] =< at[k]
    <3>1. k \in 1..Count(a)
      BY <1>1
    <3>2. at[k - 1] \in Nat /\ a.lines[k].size \in Nat /\ at[k] = at[k - 1] + a.lines[k].size
      BY <3>1, ReadLine
    <3>3. QED
      BY <3>2
  <2>2. QED
    BY <2>1
<1>4. i \in Nat /\ j \in Nat
  BY <1>1
<1>5. at[i] =< at[j]
  BY <1>2, <1>3, <1>4, Rising
<1>6. QED
  BY <1>1, <1>5

\* The sizes of the lines whose bytes are fixed.
LEMMA FixedSizes ==
  ASSUME NEW a, Scanned(a), NEW at, Laid(a, at), NEW i \in 1..Count(a)
  PROVE  /\ a.lines[i].command = "nonunary" => a.lines[i].size = 3
         /\ a.lines[i].command = "addrss" => a.lines[i].size = 2
<1>1. a.lines[i].size = SizeAt(a.lines[i], at[i - 1])
  BY DEF Laid
<1>2. QED
  BY <1>1 DEF SizeAt

LEMMA UserSymbols ==
  ASSUME NEW symbols \in SymbolTable, NEW imported \in [Imports -> Address]
  PROVE  WithImports(symbols, imported) \in SymbolTable
<1>1. \A s \in Imports : Number(imported[s]) \in Entry
  <2>1. \A s \in Imports : imported[s] \in Int
    BY MemSizeType DEF Address
  <2>2. QED
    BY <2>1, EntryTypes
<1>2. QED
  BY <1>1 DEF WithImports, SymbolTable

LEMMA UserWeighs ==
  ASSUME NEW a, Scanned(a), NEW at, Laid(a, at), NEW imported \in [Imports -> Address]
  PROVE  Weighs(UserProgram(a, imported), at)
<1> DEFINE p == UserProgram(a, imported)
           n == Count(a)
<1>1. /\ p.lines = a.lines /\ p.burn = FALSE /\ Len(p.lines) = n
      /\ p.symbols \in SymbolTable
  BY UserSymbols DEF UserProgram, Count, Scanned, PartialAssembly
<1>2. n \in Nat /\ at[0] = 0 /\ \A i \in 0..n : at[i] \in Nat
  <2>1. n \in Nat
    BY DEF Scanned, PartialAssembly, Count
  <2>2. at \in [0..n -> Nat] /\ at[0] = 0
    BY DEF Laid
  <2>3. QED
    BY <2>1, <2>2
<1> HIDE DEF p
<1>3. ASSUME NEW i \in 1..n
      PROVE  at[i - 1] =< at[i] /\ IsCode(LineCode(p, i), i, at[i] - at[i - 1])
  <2>1. /\ at[i - 1] \in Nat /\ a.lines[i].size \in Nat /\ at[i] = at[i - 1] + a.lines[i].size
        /\ a.lines[i] \in CodeLine
    BY ReadLine
  <2>2. a.lines[i].emit = TRUE
    BY DEF Laid
  <2>3. IsCode(LineCode(p, i), i, IF a.lines[i].size >= 0 THEN a.lines[i].size ELSE 0)
    <3>1. /\ p.lines[i] \in CodeLine
          /\ p.lines[i].command = "nonunary" => p.lines[i].size = 3
          /\ p.lines[i].command = "addrss" => p.lines[i].size = 2
      BY <1>1, <2>1, FixedSizes
    <3>2. ~(~p.lines[i].emit \/ (p.burn /\ p.lines[i].address < p.burnAddress))
      BY <1>1, <2>2
    <3>3. IsCode(LineCode(p, i), i, IF p.lines[i].size >= 0 THEN p.lines[i].size ELSE 0)
      BY <1>1, <3>1, <3>2, LineIsCode
    <3>4. QED
      BY <1>1, <3>3
  <2>4. (IF a.lines[i].size >= 0 THEN a.lines[i].size ELSE 0) = at[i] - at[i - 1]
    BY <2>1
  <2>5. QED
    BY <2>1, <2>3, <2>4
<1>4. QED
  BY <1>1, <1>2, <1>3 DEF Weighs, p

LEMMA UserBytes ==
  ASSUME NEW a, Scanned(a), UserAccepted(a, Imported), program = UserProgram(a, Imported)
  PROVE  BytesLandOnTheirLines
<1> DEFINE code == ObjectCode(program)
           n == Count(a)
<1>1. PICK at : Laid(a, at)
  BY DEF Scanned
<1>2. Weighs(program, at)
  BY <1>1, UserWeighs, AssemblyAssumption
<1>3. DOMAIN code = 1..at[Len(program.lines)] /\ \A k \in DOMAIN code : InLine(program, at, code, k)
  BY <1>2, CodeOfLines
<1>4. program.lines = a.lines /\ program.burn = FALSE /\ program.burnAddress = 0
  BY DEF UserProgram
<1>5. a.byteCount \in Nat /\ a.byteCount < MemSize /\ at[n] = a.byteCount /\ n \in Nat
  BY <1>1, MemSizeType
  DEF UserAccepted, TooLarge, Laid, Scanned, PartialAssembly, Count
<1> HIDE DEF code
<1>6. ASSUME NEW k \in DOMAIN code
      PROVE  (0 + k - 1 - Line(code[k].line).address) % MemSize < Line(code[k].line).size
  <2> DEFINE l == code[k].line
             line == Line(l)
  <2>1. l \in 1..n /\ at[l - 1] < k /\ k =< at[l]
    BY <1>3, <1>4 DEF InLine, Count
  <2>2. k \in Int
    BY <1>3
  <2> HIDE DEF l
  <2>3. /\ at[l - 1] \in Nat /\ line.size \in Nat /\ at[l] = at[l - 1] + line.size
        /\ line.command = "none" => line.size = 0
    BY <1>1, <1>4, <2>1, ReadLine DEF Line
  <2>4. line.address = IF line.command = "none" THEN -1 ELSE at[l - 1]
    BY <1>1, <1>4, <2>1 DEF Laid, Line
  <2>5. at[l] =< at[n]
    <3>1. l \in 0..n /\ n \in 0..n /\ l =< n
      BY <1>5, <2>1
    <3>2. QED
      BY <1>1, <3>1, CountRises
  <2> HIDE DEF line
  <2>6. line.address = at[l - 1]
    BY <2>1, <2>2, <2>3, <2>4
  <2>7. 0 + k - 1 - line.address \in 0..MemSize - 1 /\ 0 + k - 1 - line.address < line.size
    BY <1>5, <2>1, <2>2, <2>3, <2>5, <2>6, MemSizeType
  <2>8. (0 + k - 1 - line.address) % MemSize = 0 + k - 1 - line.address
    BY <2>7, MemSizeType, SmallRemainder
  <2>9. QED
    BY <2>7, <2>8 DEF line, l
<1>7. QED
  BY <1>4, <1>6 DEF BytesLandOnTheirLines, code

\* The lines after the .BURN have all the bytes of an operating system.
OsWeights(a, at, b) == [i \in 0..Count(a) |-> IF i =< b THEN 0 ELSE at[i] - at[b]]

LEMMA RemainderBelow == ASSUME NEW n \in Nat, NEW m \in Nat \ {0} PROVE n % m =< n
<1>1. n = (n \div m) * m + (n % m) /\ n \div m \in Int /\ n % m \in 0..m - 1
  BY Division
<1>2. (n \div m) * m >= 0
  <2>1. CASE n \div m >= 0
    BY <1>1, <2>1, Z3T(30)
  <2>2. CASE n \div m =< -1
    <3>1. (n \div m) * m =< -m
      BY <1>1, <2>2, Z3T(30)
    <3>2. QED
      BY <1>1, <3>1
  <2>3. QED
    BY <1>1, <2>1, <2>2
<1>3. QED
  BY <1>1, <1>2

\* Where the first byte goes.
LEMMA OsStart ==
  ASSUME NEW a, NEW at, NEW b, NEW f, Made(a, at, b, f)
  PROVE  LET p == OperatingSystem(a)
         IN  /\ at[b - 1] = at[b] /\ at[b] \in Nat /\ at[b - 1] = a.burnAddress
             /\ p.burnAddress = (Delta(a) + at[b]) % MemSize
             /\ p.burnAddress =< Delta(a) + at[b] /\ p.burnAddress \in Address
             /\ p.burnAddress = (a.burnValue - (a.byteCount - at[b]) + 1) % MemSize
<1>1. Scanned(a) /\ Laid(a, at) /\ Burns(a, at, b) /\ b \in 1..Count(a)
  BY DEF Made, Burns
<1>2. a.lines[b].command = "burn" /\ a.burnAddress = at[b - 1]
  BY <1>1 DEF Burns
<1>3. at[b - 1] \in Nat /\ at[b] = at[b - 1] + a.lines[b].size /\ a.lines[b].size = 0
  BY <1>1, <1>2, ReadLine
<1>4. at[b - 1] = at[b] /\ at[b] \in Nat
  BY <1>3
<1> DEFINE s == OperatingSystem(a).burnAddress
           x == a.burnValue - a.byteCount + 1
<1>5. s = (a.burnValue - (a.byteCount - at[b]) + 1) % MemSize
  BY <1>2, <1>4 DEF Made
<1>6. a.burnValue \in Int /\ a.byteCount \in Int
  BY <1>1, MemSizeType DEF Scanned, PartialAssembly, Address
<1>7. x \in Int /\ a.burnValue - (a.byteCount - at[b]) + 1 = x + at[b]
  BY <1>4, <1>6
<1>8. ((x % MemSize) + at[b]) % MemSize = (x + at[b]) % MemSize
  <2>1. at[b] \in Int
    BY <1>4
  <2> HIDE DEF x
  <2>2. QED
    BY <1>7, <2>1, MemSizeType, RemainderInSum
<1>9. s = (Delta(a) + at[b]) % MemSize
  BY <1>5, <1>7, <1>8 DEF Delta
<1>10. Delta(a) + at[b] \in Nat
  BY <1>1, <1>4, DeltaType DEF Scanned
<1> DEFINE y == Delta(a) + at[b]
<1> HIDE DEF s, x
<1>11. s =< Delta(a) + at[b] /\ s \in Address
  <2>1. s = y % MemSize /\ y \in Nat /\ y \in Int
    BY <1>9, <1>10
  <2> HIDE DEF y
  <2>2. s =< y
    BY <2>1, MemSizeType, RemainderBelow
  <2>3. s \in Address
    BY <2>1, RemainderType
  <2>4. QED
    BY <2>2, <2>3 DEF y
<1>12. QED
  BY <1>2, <1>4, <1>5, <1>9, <1>11 DEF s

LEMMA OsWeighs ==
  ASSUME NEW a, NEW at, NEW b, NEW f, Made(a, at, b, f)
  PROVE  Weighs(OperatingSystem(a), OsWeights(a, at, b))
<1> DEFINE p == OperatingSystem(a)
           n == Count(a)
           w == OsWeights(a, at, b)
<1>1. /\ Scanned(a) /\ Laid(a, at) /\ p.burn = TRUE
      /\ Len(p.lines) = n /\ n \in Nat /\ b \in 1..n /\ p.symbols \in SymbolTable
  BY OsLines DEF Made
<1>2. at[b - 1] = at[b] /\ at[b] \in Nat /\ at[b - 1] = a.burnAddress
      /\ p.burnAddress =< Delta(a) + at[b] /\ p.burnAddress \in Int
  BY OsStart, MemSizeType DEF Address
<1>3. \A i \in 0..n : w[i] = IF i =< b THEN 0 ELSE at[i] - at[b]
  BY DEF OsWeights
<1> HIDE DEF w, p, n
<1>4. ASSUME NEW i \in 0..n PROVE w[i] \in Nat
  <2>1. CASE i =< b
    BY <1>3, <2>1
  <2>2. CASE ~(i =< b)
    <3>1. b \in 0..n /\ b =< i
      BY <1>1, <2>2
    <3>2. at[i] \in Nat /\ at[b] =< at[i]
      BY <1>1, <3>1, CountRises DEF n
    <3>3. QED
      BY <1>2, <1>3, <2>2, <3>2
  <2>3. QED
    BY <2>1, <2>2
<1>5. ASSUME NEW i \in 1..n
      PROVE  w[i - 1] =< w[i] /\ IsCode(LineCode(p, i), i, w[i] - w[i - 1])
  <2> DEFINE line == p.lines[i]
             old == a.lines[i]
             m == IF line.size >= 0 THEN line.size ELSE 0
             quiet == ~line.emit \/ (p.burn /\ line.address < p.burnAddress)
  <2>1. /\ line \in CodeLine /\ line.command = old.command
        /\ line.emit <=> old.address >= a.burnAddress
        /\ old.command # "align" => line.size = old.size
        /\ ~(1 < i /\ i =< b) =>
                /\ line.size = old.size
                /\ line.address = IF old.command = "none" THEN -1 ELSE at[i - 1] + Delta(a)
        /\ 1 < i /\ i =< b /\ old.command = "align" => line.size =< 0
    BY OsLineKept DEF p, n
  <2>2. /\ at[i - 1] \in Nat /\ at[i] \in Nat /\ old.size \in Nat
        /\ at[i] = at[i - 1] + old.size
        /\ old.command = "none" => old.size = 0
        /\ old.command = "burn" => old.size = 0
    BY <1>1, ReadLine DEF n
  <2>3. old.address = IF old.command = "none" THEN -1 ELSE at[i - 1]
    BY <1>1 DEF Laid, n
  <2>4. /\ line.command = "nonunary" => line.size = 3
        /\ line.command = "addrss" => line.size = 2
    <3>1. /\ old.command = "nonunary" => old.size = 3
          /\ old.command = "addrss" => old.size = 2
      BY <1>1, FixedSizes DEF n
    <3> HIDE DEF line, old
    <3>2. QED
      BY <2>1, <3>1
  <2>5. IF quiet THEN IsCode(LineCode(p, i), i, 0) ELSE IsCode(LineCode(p, i), i, m)
    BY <1>1, <2>1, <2>4, LineIsCode DEF p
  <2>6. line.size \in Int /\ i \in Nat /\ b \in Nat /\ i - 1 \in 0..n /\ i \in 0..n
    BY <1>1, <2>1 DEF CodeLine
  <2> HIDE DEF line, old, quiet, m
  <2>7. CASE i =< b
    <3>1. w[i] = 0 /\ w[i - 1] = 0
      BY <1>3, <2>6, <2>7
    <3>2. IsCode(LineCode(p, i), i, 0)
      <4>1. CASE quiet
        BY <2>5, <4>1
      <4>2. CASE ~quiet
        <5>1. line.emit
          BY <4>2 DEF quiet
        <5>2. old.address >= a.burnAddress
          BY <2>1, <5>1
        <5>3. at[i - 1] >= at[b - 1]
          BY <1>2, <2>2, <2>3, <5>2
        <5>4. old.size = 0
          <6>1. CASE i = b
            <7>1. at[i] = at[b] /\ at[i - 1] = at[b - 1]
              BY <6>1
            <7>2. at[i] = at[i - 1]
              BY <1>2, <7>1
            <7>3. QED
              BY <2>2, <7>2
          <6>2. CASE i # b
            <7>1. i =< b - 1 /\ b - 1 \in 0..n
              BY <1>1, <2>6, <2>7, <6>2
            <7>2. at[i] =< at[b - 1]
              BY <1>1, <2>6, <7>1, CountRises DEF n
            <7>3. QED
              BY <1>2, <2>2, <5>3, <7>2
          <6>3. QED
            BY <6>1, <6>2
        <5>5. m = 0
          <6>1. line.size =< 0
            BY <2>1, <2>6, <2>7, <5>4
          <6>2. QED
            BY <2>6, <6>1 DEF m
        <5>6. QED
          BY <2>5, <4>2, <5>5
      <4>3. QED
        BY <4>1, <4>2
    <3>3. QED
      BY <3>1, <3>2
  <2>8. CASE ~(i =< b)
    <3>1. w[i] = at[i] - at[b] /\ w[i - 1] = at[i - 1] - at[b]
      <4>1. w[i] = at[i] - at[b]
        BY <1>3, <2>6, <2>8
      <4>2. CASE i - 1 = b
        <5>1. w[i - 1] = 0
          BY <1>3, <2>6, <4>2
        <5>2. at[i - 1] = at[b]
          BY <4>2
        <5>3. at[b] - at[b] = 0
          BY <1>2
        <5>4. w[i - 1] = at[b] - at[b]
          BY <5>1, <5>3
        <5>5. QED
          BY <4>1, <5>2, <5>4
      <4>3. CASE i - 1 # b
        <5>1. ~(i - 1 =< b)
          BY <2>6, <2>8, <4>3
        <5>2. QED
          BY <1>3, <2>6, <4>1, <5>1
      <4>4. QED
        BY <4>2, <4>3
    <3>2. line.size = old.size /\ line.address = IF old.command = "none" THEN -1
                                                ELSE at[i - 1] + Delta(a)
      BY <2>1, <2>8
    <3>3. w[i] - w[i - 1] = old.size /\ w[i - 1] =< w[i] /\ m = old.size
      <4>1. at[i - 1] \in Nat /\ old.size \in Nat /\ at[b] \in Nat /\ at[i] = at[i - 1] + old.size
        BY <1>2, <2>2
      <4>2. w[i] - w[i - 1] = old.size /\ w[i - 1] =< w[i]
        BY <3>1, <4>1
      <4>3. m = old.size
        BY <3>2, <4>1 DEF m
      <4>4. QED
        BY <4>2, <4>3
    <3>4. at[b] =< at[i - 1]
      <4>1. b \in 0..n /\ b =< i - 1
        BY <1>1, <2>6, <2>8
      <4>2. QED
        BY <1>1, <2>6, <4>1, CountRises DEF n
    <3>5. CASE old.command = "none"
      <4>1. old.size = 0
        BY <2>2, <3>5
      <4>2. QED
        BY <2>5, <3>3, <4>1
    <3>6. CASE old.command # "none"
      <4>1. old.address >= a.burnAddress
        BY <1>2, <2>2, <2>3, <3>4, <3>6
      <4>2. Delta(a) \in Nat
        BY <1>1, DeltaType DEF Scanned
      <4>3. ~(line.address < p.burnAddress)
        BY <1>2, <2>2, <3>2, <3>4, <3>6, <4>2
      <4>4. ~quiet
        BY <2>1, <4>1, <4>3 DEF quiet
      <4>5. QED
        BY <2>5, <3>3, <4>4
    <3>7. QED
      BY <3>5, <3>6
  <2>9. QED
    BY <2>7, <2>8
<1>6. w[0] = 0
  BY <1>1, <1>3
<1>7. QED
  BY <1>1, <1>4, <1>5, <1>6 DEF Weighs, p, w

LEMMA OsBytes ==
  ASSUME NEW a, NEW at, NEW b, NEW f, Made(a, at, b, f), program = OperatingSystem(a)
  PROVE  BytesLandOnTheirLines
<1> DEFINE code == ObjectCode(program)
           n == Count(a)
           w == OsWeights(a, at, b)
           s == program.burnAddress
           d == Delta(a)
<1>1. /\ Scanned(a) /\ Laid(a, at) /\ b \in 1..n /\ n \in Nat /\ Len(program.lines) = n
      /\ program.burn = TRUE /\ program.burnValue = a.burnValue /\ a.byteCount < MemSize
  BY OsLines DEF Made
<1>2. a.byteCount \in Nat /\ a.burnValue \in Address /\ at[n] = a.byteCount /\ d \in Nat
  <2>1. a.byteCount \in Nat /\ a.burnValue \in Address /\ at[n] = a.byteCount
    BY <1>1 DEF Laid, Scanned, PartialAssembly
  <2>2. d \in Nat
    BY <1>1, DeltaType DEF Scanned
  <2>3. QED
    BY <2>1, <2>2
<1>3. /\ at[b] \in Nat /\ s = (d + at[b]) % MemSize /\ s \in Address
      /\ s = (a.burnValue - (a.byteCount - at[b]) + 1) % MemSize
  BY OsStart
<1>4. Weighs(program, w)
  BY OsWeighs
<1>5. /\ Len(code) = w[n] /\ DOMAIN code = 1..w[n]
      /\ \A k \in DOMAIN code : InLine(program, w, code, k)
  BY <1>1, <1>4, CodeOfLines
<1>6. /\ \A i \in 0..n : w[i] \in Nat
      /\ \A i \in 0..n : i =< b => w[i] = 0
      /\ \A i \in 0..n : ~(i =< b) => w[i] = at[i] - at[b]
  <2>1. \A i \in 0..n : w[i] \in Nat
    BY <1>1, <1>4 DEF Weighs
  <2>2. \A i \in 0..n : w[i] = IF i =< b THEN 0 ELSE at[i] - at[b]
    BY DEF OsWeights
  <2>3. QED
    BY <2>1, <2>2
<1> HIDE DEF code, w, s, d, n
<1>7. ASSUME NEW i \in 0..n, b =< i PROVE w[i] = at[i] - at[b]
  <2>1. CASE i = b
    <3>1. i =< b
      BY <1>1, <2>1
    <3>2. w[i] = 0
      BY <1>6, <3>1
    <3>3. at[b] - at[b] = 0
      BY <1>3
    <3>4. w[i] = at[b] - at[b]
      BY <3>2, <3>3
    <3>5. QED
      BY <2>1, <3>4
  <2>2. CASE i # b
    <3>1. ~(i =< b)
      BY <1>1, <1>7, <2>2
    <3>2. QED
      BY <1>6, <3>1
  <2>3. QED
    BY <2>1, <2>2
<1>8. (s + Len(code) - 1) % MemSize = a.burnValue
  <2> DEFINE x == a.burnValue - (a.byteCount - at[b]) + 1
             y == a.byteCount - at[b] - 1
  <2>1. Len(code) = a.byteCount - at[b]
    <3>1. n \in 0..n /\ b =< n
      BY <1>1
    <3>2. QED
      BY <1>2, <1>5, <1>7, <3>1
  <2>2. a.burnValue \in Nat /\ a.burnValue \in 0..MemSize - 1
    BY <1>2, MemSizeType DEF Address
  <2>3. x \in Int /\ y \in Int /\ x + y = a.burnValue
    BY <1>2, <1>3, <2>2
  <2>4. s \in Int
    BY <1>3, MemSizeType DEF Address
  <2>5. s + Len(code) - 1 = s + y
    BY <1>2, <1>3, <2>1, <2>4
  <2>6. s = x % MemSize
    BY <1>3
  <2> HIDE DEF x, y
  <2>7. ((x % MemSize) + y) % MemSize = (x + y) % MemSize
    BY <2>3, MemSizeType, RemainderInSum
  <2>8. a.burnValue % MemSize = a.burnValue
    BY <2>2, MemSizeType, SmallRemainder
  <2>9. (s + Len(code) - 1) % MemSize = ((x % MemSize) + y) % MemSize
    BY <2>5, <2>6
  <2>10. (x + y) % MemSize = a.burnValue
    BY <2>3, <2>8
  <2>11. QED
    BY <2>7, <2>9, <2>10
<1>9. ASSUME NEW k \in DOMAIN code
      PROVE  (s + k - 1 - Line(code[k].line).address) % MemSize < Line(code[k].line).size
  <2> DEFINE l == code[k].line
             line == Line(l)
             old == a.lines[l]
  <2>1. l \in 1..n /\ w[l - 1] < k /\ k =< w[l]
    BY <1>1, <1>5, <1>9 DEF InLine
  <2>2. k \in Int /\ s \in Int
    <3>1. n \in 0..n
      BY <1>1
    <3>2. w[n] \in Nat
      BY <1>6, <3>1
    <3>3. k \in 1..w[n]
      BY <1>5, <1>9
    <3>4. s \in Int
      BY <1>3, MemSizeType DEF Address
    <3>5. QED
      BY <3>2, <3>3, <3>4
  <2> HIDE DEF l
  <2>3. l - 1 \in 0..n /\ l \in 0..n /\ l \in Int /\ b \in Int
    BY <1>1, <2>1
  <2>4. b =< l - 1
    <3>1. SUFFICES ASSUME ~(b =< l - 1) PROVE FALSE
      OBVIOUS
    <3>2. l =< b /\ l - 1 =< b
      BY <2>3, <3>1
    <3>3. w[l] = 0 /\ w[l - 1] = 0
      BY <1>6, <2>3, <3>2
    <3>4. QED
      BY <2>1, <2>2, <3>3
  <2>5. w[l - 1] = at[l - 1] - at[b] /\ w[l] = at[l] - at[b]
    BY <1>7, <2>3, <2>4
  <2>6. ~(1 < l /\ l =< b)
    BY <2>3, <2>4
  <2>7. /\ line.size = old.size
        /\ line.address = IF old.command = "none" THEN -1 ELSE at[l - 1] + d
    BY <2>1, <2>6, OsLineKept DEF Line, d, n
  <2>8. /\ at[l - 1] \in Nat /\ at[l] \in Nat /\ old.size \in Nat /\ at[l] = at[l - 1] + old.size
        /\ old.command = "none" => old.size = 0
    BY <1>1, <2>1, ReadLine DEF n
  <2>9. at[l] =< a.byteCount /\ at[b] =< at[l - 1]
    <3>1. n \in 0..n /\ l =< n /\ b \in 0..n
      BY <1>1, <2>1
    <3>2. at[l] =< at[n]
      BY <1>1, <2>3, <3>1, CountRises DEF n
    <3>3. at[b] =< at[l - 1]
      BY <1>1, <2>3, <2>4, <3>1, CountRises DEF n
    <3>4. QED
      BY <1>2, <3>2, <3>3
  <2> HIDE DEF line, old
  <2>10. old.size > 0
    BY <1>3, <2>1, <2>2, <2>5, <2>8
  <2>11. line.address = at[l - 1] + d
    BY <2>7, <2>8, <2>10
  <2> DEFINE x == d + at[b]
             y == k - 1 - line.address
  <2>12. x \in Int /\ y \in Int /\ s + k - 1 - line.address = s + y
    BY <1>2, <1>3, <2>2, <2>8, <2>11
  <2>13. x + y = k - 1 - w[l - 1]
    BY <1>2, <1>3, <2>2, <2>5, <2>8, <2>11
  <2>14. x + y \in 0..MemSize - 1 /\ x + y < line.size
    <3>1. 0 =< k - 1 - w[l - 1] /\ k - 1 - w[l - 1] < old.size /\ k - 1 - w[l - 1] \in Int
      BY <1>3, <2>1, <2>2, <2>5, <2>8
    <3>2. old.size =< a.byteCount
      BY <1>2, <2>8, <2>9
    <3> DEFINE z == x + y
    <3>3. z \in Int /\ 0 =< z /\ z < old.size
      BY <2>13, <3>1
    <3> HIDE DEF z
    <3>4. z \in 0..MemSize - 1
      BY <1>1, <1>2, <2>8, <3>2, <3>3, MemSizeType
    <3>5. QED
      BY <2>7, <3>3, <3>4 DEF z
  <2>15. s = x % MemSize
    BY <1>3
  <2> HIDE DEF x, y
  <2>16. ((x % MemSize) + y) % MemSize = (x + y) % MemSize
    BY <2>12, MemSizeType, RemainderInSum
  <2>17. (x + y) % MemSize = x + y
    BY <2>14, MemSizeType, SmallRemainder
  <2>18. (s + k - 1 - line.address) % MemSize = x + y
    BY <2>12, <2>15, <2>16, <2>17
  <2>19. QED
    BY <2>14, <2>18 DEF line, l
<1>10. QED
  BY <1>1, <1>8, <1>9 DEF BytesLandOnTheirLines, code, s

-----------------------------------------------------------------------------
(* The behaviours.                                                         *)

\* The scan, and how the program came from it.
AssemblyInv ==
    /\ Scanned(asm)
    /\ outcome \in {"scanning", "refused", "user", "os", "failed"}
    /\ outcome = "user" => UserAccepted(asm, Imported) /\ program = UserProgram(asm, Imported)
    /\ outcome = "os" => (\E force \in BOOLEAN : OsAccepted(asm, force))
                          /\ program = OperatingSystem(asm)
    /\ outcome \notin {"user", "os"} => program = NoProgram

LEMMA AssemblyInvariant == AssemblySpec => []AssemblyInv
<1>1. AssemblyInit => AssemblyInv
  BY ScanStarts DEF AssemblyInit, AssemblyInv
<1>2. AssemblyInv /\ [AssemblyNext]_assemblyVars => AssemblyInv'
  <2> SUFFICES ASSUME AssemblyInv, [AssemblyNext]_assemblyVars PROVE AssemblyInv'
    OBVIOUS
  <2>1. ASSUME NEW line \in Sources, Scan(line) PROVE AssemblyInv'
    <3>1. line \in SourceLine /\ ~Refused(asm, line) /\ asm' = ProcessSourceLine(asm, line)
          /\ outcome = "scanning" /\ UNCHANGED <<outcome, program>>
      BY <2>1, AssemblyAssumption DEF Scan
    <3>2. Scanned(asm')
      BY <3>1, ScanStep DEF AssemblyInv
    <3>3. QED
      BY <3>1, <3>2 DEF AssemblyInv
  <2>2. ASSUME NEW line \in Sources, Refuse(line) PROVE AssemblyInv'
    <3>1. outcome = "scanning" /\ outcome' = "refused" /\ UNCHANGED <<asm, program>>
      BY <2>2 DEF Refuse
    <3>2. QED
      BY <3>1 DEF AssemblyInv
  <2>3. CASE AssembleUserProgram
    <3>1. UNCHANGED asm /\ outcome = "scanning" /\ program = NoProgram
      BY <2>3 DEF AssembleUserProgram, AssemblyInv
    <3>2. CASE UserAccepted(asm, Imported)
      <4>1. outcome' = "user" /\ program' = UserProgram(asm, Imported)
        BY <2>3, <3>2 DEF AssembleUserProgram
      <4>2. QED
        BY <3>1, <3>2, <4>1 DEF AssemblyInv
    <3>3. CASE ~UserAccepted(asm, Imported)
      <4>1. outcome' = "failed" /\ program' = program
        BY <2>3, <3>3 DEF AssembleUserProgram
      <4>2. QED
        BY <3>1, <4>1 DEF AssemblyInv
    <3>4. QED
      BY <3>2, <3>3
  <2>4. ASSUME NEW force \in BOOLEAN, AssembleOperatingSystem(force) PROVE AssemblyInv'
    <3>1. UNCHANGED asm /\ outcome = "scanning" /\ program = NoProgram
      BY <2>4 DEF AssembleOperatingSystem, AssemblyInv
    <3>2. CASE OsAccepted(asm, force)
      <4>1. outcome' = "os" /\ program' = OperatingSystem(asm)
        BY <2>4, <3>2 DEF AssembleOperatingSystem
      <4>2. QED
        BY <3>1, <3>2, <4>1 DEF AssemblyInv
    <3>3. CASE ~OsAccepted(asm, force)
      <4>1. outcome' = "failed" /\ program' = program
        BY <2>4, <3>3 DEF AssembleOperatingSystem
      <4>2. QED
        BY <3>1, <4>1 DEF AssemblyInv
    <3>4. QED
      BY <3>2, <3>3
  <2>5. CASE UNCHANGED assemblyVars
    BY <2>5 DEF assemblyVars, AssemblyInv
  <2>6. QED
    BY <2>1, <2>2, <2>3, <2>4, <2>5 DEF AssemblyNext
<1>3. QED
  BY <1>1, <1>2, PTL DEF AssemblySpec

\* A program that was accepted has its bytes in order.
LEMMA AcceptedIsPositioned ==
  ASSUME AssemblyInv, Accepted
  PROVE  \E pos : Positioned(program, pos)
<1>1. CASE outcome = "user"
  <2>1. UserAccepted(asm, Imported) /\ program = UserProgram(asm, Imported) /\ Scanned(asm)
    BY <1>1 DEF AssemblyInv
  <2>2. QED
    BY <2>1, UserPositioned
<1>2. CASE outcome = "os"
  <2>1. Scanned(asm) /\ program = OperatingSystem(asm) /\ \E force \in BOOLEAN : OsAccepted(asm, force)
    BY <1>2 DEF AssemblyInv
  <2>2. PICK at, b, f : Made(asm, at, b, f)
    BY <2>1, OsMade
  <2>3. Positioned(program, OsEnds(asm, at, b, f))
    BY <2>1, <2>2, OsPositioned
  <2>4. QED
    BY <2>3
<1>3. QED
  BY <1>1, <1>2 DEF Accepted

LEMMA ProgramType == ASSUME AssemblyInv PROVE program \in Program
<1>1. Scanned(asm) /\ asm \in PartialAssembly
  BY DEF AssemblyInv, Scanned
<1>2. 0 \in Address
  BY MemSizeType DEF Address
<1>3. CASE outcome \notin {"user", "os"}
  <2>1. EmptyAssembly.symbols = [s \in Symbols |-> Absent] /\ Absent \in Entry
    BY EntryTypes DEF EmptyAssembly
  <2>2. EmptyAssembly.symbols \in SymbolTable
    BY <2>1 DEF SymbolTable
  <2> DEFINE t == EmptyAssembly.symbols
             l == <<>>
  <2>3. l \in Seq(CodeLine)
    OBVIOUS
  <2>4. program = [lines |-> l, symbols |-> t, burn |-> FALSE, burnAddress |-> 0, burnValue |-> 0]
    BY <1>3 DEF AssemblyInv, NoProgram
  <2>5. t \in SymbolTable
    BY <2>2
  <2> HIDE DEF t, l
  <2>6. QED
    BY <1>2, <2>3, <2>4, <2>5 DEF Program
<1>4. CASE outcome = "user"
  <2> DEFINE t == WithImports(asm.symbols, Imported)
  <2>1. program = [lines |-> asm.lines, symbols |-> t, burn |-> FALSE,
                   burnAddress |-> 0, burnValue |-> 0]
    BY <1>4 DEF AssemblyInv, UserProgram
  <2>2. asm.lines \in Seq(CodeLine) /\ asm.symbols \in SymbolTable
    BY <1>1 DEF PartialAssembly
  <2>3. t \in SymbolTable
    BY <2>2, AssemblyAssumption, UserSymbols
  <2> HIDE DEF t
  <2>4. QED
    BY <1>2, <2>1, <2>2, <2>3 DEF Program
<1>5. CASE outcome = "os"
  <2>1. program = OperatingSystem(asm) /\ \E force \in BOOLEAN : OsAccepted(asm, force)
    BY <1>5 DEF AssemblyInv
  <2>2. PICK at, b, f : Made(asm, at, b, f)
    BY <1>1, <2>1, OsMade
  <2>3. program.lines \in Seq(CodeLine) /\ program.symbols \in SymbolTable
    BY <2>1, <2>2, OsLines
  <2>4. program.burnAddress \in Address
    BY <2>1, <2>2, OsStart
  <2>5. program.burnValue \in Address
    BY <1>1, <2>1, <2>2 DEF Made, PartialAssembly
  <2>6. program.burn = TRUE
    BY <2>1, <2>2 DEF Made
  <2>7. program = [lines |-> program.lines, symbols |-> program.symbols, burn |-> program.burn,
                   burnAddress |-> program.burnAddress, burnValue |-> program.burnValue]
    BY <2>1 DEF OperatingSystem
  <2>8. QED
    BY <2>3, <2>4, <2>5, <2>6, <2>7 DEF Program
<1>6. QED
  BY <1>3, <1>4, <1>5

\* The variables keep their types: no address is outside the memory in a
\* symbol table or a program.
THEOREM TypeCorrect == AssemblySpec => []AssemblyTypeOk
<1>1. AssemblyInv => AssemblyTypeOk
  BY ProgramType DEF AssemblyInv, Scanned, AssemblyTypeOk
<1>2. QED
  BY <1>1, AssemblyInvariant, PTL

\* The bytes of a line that the passes reached are followed by those of the
\* next line, in every program that IsaAsm makes of any source.
THEOREM LinesStayTogether == AssemblySpec => []LinesAbut
<1>1. AssemblyInv => LinesAbut
  BY AcceptedIsPositioned, Abutting DEF LinesAbut
<1>2. QED
  BY <1>1, AssemblyInvariant, PTL

\* A symbol has the address of its line, or the number of its .EQUATE, after
\* the program was relocated and its .ALIGNs redone.
THEOREM SymbolsAreWhereTheirLinesAre == AssemblySpec => []SymbolsNameTheirLines
<1>1. AssemblyInv => SymbolsNameTheirLines
  BY AcceptedIsPositioned, SymbolsNaming DEF SymbolsNameTheirLines
<1>2. QED
  BY <1>1, AssemblyInvariant, PTL

\* An .ALIGN ends on its boundary in a user program and begins on it before
\* the .BURN of an operating system.
THEOREM AlignmentsAreKept == AssemblySpec => []AlignmentsHold
<1>1. AssemblyInv => AlignmentsHold
  BY AcceptedIsPositioned, Aligning DEF AlignmentsHold
<1>2. QED
  BY <1>1, AssemblyInvariant, PTL

\* Every byte of object code is loaded inside its line, and the last one of
\* an operating system at the address of its .BURN.
THEOREM BytesAreLoadedInTheirLines == AssemblySpec => []BytesLandOnTheirLines
<1>1. AssemblyInv => BytesLandOnTheirLines
  <2> SUFFICES ASSUME AssemblyInv PROVE BytesLandOnTheirLines
    OBVIOUS
  <2>1. CASE outcome = "user"
    BY <2>1, UserBytes DEF AssemblyInv
  <2>2. CASE outcome = "os"
    <3>1. PICK at, b, f : Made(asm, at, b, f)
      BY <2>2, OsMade DEF AssemblyInv
    <3>2. QED
      BY <2>2, <3>1, OsBytes DEF AssemblyInv
  <2>3. CASE ~Accepted
    BY <2>3 DEF BytesLandOnTheirLines
  <2>4. QED
    BY <2>1, <2>2, <2>3 DEF Accepted
<1>2. QED
  BY <1>1, AssemblyInvariant, PTL

\* memAddressToCode finds every instruction of a user program by its address,
\* in programs of any length that are accepted.
THEOREM InstructionsAreFound == AssemblySpec => []InstructionsFoundByAddress
<1>1. AssemblyInv => InstructionsFoundByAddress
  <2> SUFFICES ASSUME AssemblyInv, outcome = "user", NEW i \in Lines,
                      Line(i).command \in Instructions
               PROVE  CodeAt(program, Line(i).address) = i
    BY DEF InstructionsFoundByAddress
  <2>1. Accepted /\ ~program.burn
    BY DEF AssemblyInv, Accepted, UserProgram
  <2>2. PICK pos : Positioned(program, pos)
    BY <2>1, AcceptedIsPositioned
  <2>3. QED
    BY <2>1, <2>2, Finding
<1>2. QED
  BY <1>1, AssemblyInvariant, PTL


-----------------------------------------------------------------------------
(* What the assembler gives the installation.                              *)

\* f holds what has been read of source after each of its lines.
Reads(f, source) ==
    /\ f[0] = [asm |-> EmptyAssembly, ok |-> TRUE]
    /\ \A k \in 1..Len(source) : f[k] = ReadNext(f[k - 1], source[k])

\* The function that Read defines exists.
LEMMA ReadExists ==
  ASSUME NEW source \in Seq(SourceLine)
  PROVE  \E f : Reads(f, source) /\ Read(source) = f[Len(source)]
<1> DEFINE start == [asm |-> EmptyAssembly, ok |-> TRUE]
           Is(f, m) == f = [k \in 0..m |-> IF k = 0 THEN start ELSE ReadNext(f[k - 1], source[k])]
           D == {m \in Nat : \E f : Is(f, m)}
<1> HIDE DEF start
<1>1. 0 \in D
  <2> DEFINE f == [k \in 0..0 |-> start]
  <2>1. ASSUME NEW k \in 0..0
        PROVE  f[k] = IF k = 0 THEN start ELSE ReadNext(f[k - 1], source[k])
    BY <2>1
  <2>2. Is(f, 0)
    BY <2>1
  <2>3. QED
    BY <2>2
<1>2. ASSUME NEW m \in Nat, m \in D PROVE m + 1 \in D
  <2>1. PICK f : Is(f, m)
    BY <1>2
  <2> DEFINE g == [k \in 0..m + 1 |-> IF k = m + 1 THEN ReadNext(f[m], source[m + 1]) ELSE f[k]]
  <2>2. ASSUME NEW k \in 0..m + 1
        PROVE  g[k] = IF k = 0 THEN start ELSE ReadNext(g[k - 1], source[k])
    <3>1. CASE k = m + 1
      <4>1. k - 1 = m /\ m \in 0..m + 1 /\ m # m + 1 /\ k # 0
        BY <3>1
      <4>2. g[m] = f[m] /\ g[k] = ReadNext(f[m], source[m + 1])
        BY <3>1, <4>1
      <4> HIDE DEF g
      <4>3. QED
        BY <3>1, <4>1, <4>2
    <3>2. CASE k # m + 1
      <4>1. k \in 0..m
        BY <3>2
      <4>2. g[k] = f[k]
        BY <3>2
      <4>3. f[k] = IF k = 0 THEN start ELSE ReadNext(f[k - 1], source[k])
        BY <2>1, <4>1
      <4>4. CASE k = 0
        BY <4>2, <4>3, <4>4
      <4>5. CASE k # 0
        <5>1. k - 1 \in 0..m + 1 /\ k - 1 # m + 1
          BY <4>1, <4>5
        <5>2. g[k - 1] = f[k - 1]
          BY <5>1
        <5> HIDE DEF g
        <5>3. QED
          BY <4>2, <4>3, <4>5, <5>2
      <4>6. QED
        BY <4>4, <4>5
    <3>3. QED
      BY <3>1, <3>2
  <2>3. g = [k \in 0..m + 1 |-> g[k]]
    OBVIOUS
  <2> HIDE DEF g
  <2>4. Is(g, m + 1)
    BY <2>2, <2>3
  <2> HIDE DEF Is
  <2>5. m + 1 \in Nat
    OBVIOUS
  <2>6. QED
    BY <2>4, <2>5
<1>3. Nat \subseteq D
  <2> HIDE DEF D
  <2>1. QED
    BY <1>1, <1>2, Induction
<1>4. Len(source) \in Nat
  OBVIOUS
<1> DEFINE h == CHOOSE f : Is(f, Len(source))
<1>5. Is(h, Len(source))
  BY <1>3, <1>4
<1>6. Read(source) = h[Len(source)]
  BY DEF Read, start
<1> HIDE DEF h
<1>7. h[0] = start
  <2>1. 0 \in 0..Len(source)
    BY <1>4
  <2>2. QED
    BY <1>5, <2>1
<1>8. ASSUME NEW k \in 1..Len(source) PROVE h[k] = ReadNext(h[k - 1], source[k])
  <2>1. k \in 0..Len(source) /\ k # 0
    BY <1>4
  <2>2. QED
    BY <1>5, <2>1
<1>9. QED
  BY <1>6, <1>7, <1>8 DEF Reads, start

\* What has been read of a source is laid out line by line.
LEMMA ReadIsScanned ==
  ASSUME NEW source \in Seq(SourceLine)
  PROVE  Scanned(Read(source).asm)
<1>1. PICK f : Reads(f, source) /\ Read(source) = f[Len(source)]
  BY ReadExists
<1> DEFINE D == {k \in Nat : k =< Len(source) => Scanned(f[k].asm)}
<1>2. 0 \in D
  BY <1>1, ScanStarts DEF Reads
<1>3. ASSUME NEW k \in Nat, k \in D PROVE k + 1 \in D
  <2>1. SUFFICES ASSUME k + 1 =< Len(source) PROVE Scanned(f[k + 1].asm)
    OBVIOUS
  <2>2. Len(source) \in Nat
    OBVIOUS
  <2>3. k =< Len(source) /\ k + 1 \in 1..Len(source) /\ (k + 1) - 1 = k
    BY <2>1, <2>2
  <2>4. Scanned(f[k].asm)
    BY <1>3, <2>3
  <2>5. source[k + 1] \in SourceLine
    BY <2>3
  <2>6. f[k + 1] = ReadNext(f[k], source[k + 1])
    BY <1>1, <2>3 DEF Reads
  <2> DEFINE scan == f[k]
             line == source[k + 1]
  <2> HIDE DEF scan, line
  <2>7. Scanned(ReadNext(scan, line).asm)
    <3>0. f[k] = scan /\ Scanned(scan.asm) /\ line \in SourceLine
      BY <2>4, <2>5 DEF scan, line
    <3>1. CASE scan.asm.ended \/ ~scan.ok
      BY <3>0, <3>1 DEF ReadNext
    <3>2. CASE ~(scan.asm.ended \/ ~scan.ok)
      <4>1. CASE Refused(scan.asm, line)
        <5>1. ReadNext(scan, line) = [scan EXCEPT !.ok = FALSE]
          BY <3>2, <4>1 DEF ReadNext
        <5>2. QED
          BY <3>0, <5>1
      <4>2. CASE ~Refused(scan.asm, line)
        <5>1. ReadNext(scan, line) = [scan EXCEPT !.asm = ProcessSourceLine(@, line)]
          BY <3>2, <4>2 DEF ReadNext
        <5>2. Scanned(ProcessSourceLine(scan.asm, line))
          BY <3>0, <4>2, ScanStep
        <5>3. QED
          BY <5>1, <5>2
      <4>3. QED
        BY <4>1, <4>2
    <3>3. QED
      BY <3>1, <3>2
  <2>8. QED
    BY <2>6, <2>7 DEF scan, line
<1>4. Nat \subseteq D
  <2> HIDE DEF D
  <2>1. QED
    BY <1>2, <1>3, Induction
<1>5. Len(source) \in Nat
  OBVIOUS
<1>6. QED
  BY <1>1, <1>4, <1>5

\* What an operating system asks of memory: its code ends at the .BURN, and
\* its ports are two and not on the first byte of a chip.
Placeable(layout) ==
    /\ layout.code \in Seq(Byte)
    /\ layout.start \in Address /\ layout.start # 0 /\ layout.start + Len(layout.code) =< MemSize
    /\ layout.in \in Address /\ layout.out \in Address /\ layout.in # layout.out
    /\ {layout.in, layout.out} \cap {0, layout.start} = {}

\* The values of the object code of a program are bytes.
LEMMA CodeIsBytes ==
  ASSUME NEW p, NEW w, Weighs(p, w)
  PROVE  LET bytes == [k \in DOMAIN ObjectCode(p) |-> ObjectCode(p)[k].value]
         IN  bytes \in Seq(Byte) /\ Len(bytes) = w[Len(p.lines)]
<1> DEFINE c == ObjectCode(p)
           n == w[Len(p.lines)]
           bytes == [k \in DOMAIN c |-> c[k].value]
<1>1. DOMAIN c = 1..n /\ \A k \in DOMAIN c : InLine(p, w, c, k)
  BY CodeOfLines
<1>2. n \in Nat
  <2>1. Len(p.lines) \in 0..Len(p.lines)
    BY DEF Weighs
  <2>2. QED
    BY <2>1 DEF Weighs
<1> HIDE DEF c, n
<1>3. \A k \in 1..n : c[k].value \in Byte
  BY <1>1 DEF InLine, Byte
<1>4. bytes \in [1..n -> Byte]
  BY <1>1, <1>3
<1> HIDE DEF bytes
<1>5. bytes \in Seq(Byte) /\ Len(bytes) = n
  BY <1>2, <1>4
<1>6. QED
  BY <1>5 DEF bytes, c, n

\* The built-in operating system can be installed.
LEMMA DefaultIsInstallable == DefaultOs \in Installable
BY InstallationAssumption DEF Installable, Assembles, OsAccepted

\* The operating system and its code, and what is in its symbol table.
LEMMA BuiltParts ==
  ASSUME NEW source \in Installable
  PROVE  /\ Built[source].burnAddress \in Address /\ Built[source].burnValue \in Address
         /\ CodeOf[source] \in Seq(Byte)
         /\ Built[source].burnAddress + Len(CodeOf[source]) = Built[source].burnValue + 1
         /\ Built[source].symbols \in SymbolTable
<1> DEFINE a == Read(source).asm
           p == Built[source]
           n == Count(a)
<1>1. source \in Seq(SourceLine) /\ OsAccepted(a, FALSE)
  BY InstallationAssumption DEF Installable, Assembles
<1>2. p = OperatingSystem(a)
  BY DEF Built
<1>3. p.burnAddress # 0 /\ a.byteCount =< p.burnValue + 1
  BY InstallationAssumption
<1>4. CodeOf[source] = [k \in DOMAIN ObjectCode(p) |-> ObjectCode(p)[k].value]
  BY DEF CodeOf
<1>5. Scanned(a)
  BY <1>1, ReadIsScanned
<1> HIDE DEF a, p, n
<1>6. PICK at, b, f : Made(a, at, b, f)
  BY <1>1, <1>5, OsMade
<1>7. Len(p.lines) = n /\ n \in Nat /\ b \in 1..n /\ p.symbols \in SymbolTable
  BY <1>2, <1>6, OsLines DEF n
<1>8. /\ at[b] \in Nat /\ p.burnAddress \in Address
      /\ p.burnAddress = (a.burnValue - (a.byteCount - at[b]) + 1) % MemSize
  BY <1>2, <1>6, OsStart
<1>9. p.burnValue = a.burnValue /\ Laid(a, at) /\ Scanned(a)
  BY <1>2, <1>6 DEF Made
<1>10. a.byteCount \in Nat /\ a.burnValue \in Address /\ at[n] = a.byteCount
  BY <1>9 DEF Laid, Scanned, PartialAssembly, n
<1>11. Weighs(p, OsWeights(a, at, b))
  BY <1>2, <1>6, OsWeighs
<1>12. CodeOf[source] \in Seq(Byte) /\ Len(CodeOf[source]) = OsWeights(a, at, b)[n]
  BY <1>4, <1>7, <1>11, CodeIsBytes
<1>13. at[b] =< at[n]
  BY <1>7, <1>9, CountRises DEF n
<1>14. Len(CodeOf[source]) = a.byteCount - at[b]
  <2>1. n \in 0..n /\ (n =< b => n = b)
    BY <1>7
  <2>2. OsWeights(a, at, b)[n] = IF n =< b THEN 0 ELSE at[n] - at[b]
    BY <2>1 DEF OsWeights, n
  <2>3. CASE n =< b
    <3>1. n = b
      BY <2>1, <2>3
    <3>2. at[n] = at[b]
      BY <3>1
    <3>3. OsWeights(a, at, b)[n] = 0
      BY <2>2, <2>3
    <3>4. QED
      BY <1>8, <1>10, <1>12, <3>2, <3>3
  <2>4. CASE ~(n =< b)
    <3>1. OsWeights(a, at, b)[n] = at[n] - at[b]
      BY <2>2, <2>4
    <3>2. QED
      BY <1>10, <1>12, <3>1
  <2>5. QED
    BY <2>3, <2>4
<1>15. p.burnAddress + Len(CodeOf[source]) = p.burnValue + 1
  <2> DEFINE x == a.burnValue - (a.byteCount - at[b]) + 1
  <2>1. a.burnValue \in Int /\ a.burnValue < MemSize /\ a.byteCount =< a.burnValue + 1 /\ MemSize \in Nat
    BY <1>3, <1>9, <1>10, MemSizeType DEF Address
  <2>2. x \in 0..MemSize
    BY <1>8, <1>10, <1>13, <2>1
  <2>3. p.burnAddress = x % MemSize /\ x = a.burnValue + 1 - Len(CodeOf[source])
    BY <1>8, <1>10, <1>14, <2>1
  <2> HIDE DEF x
  <2>4. x # MemSize
    <3>1. SUFFICES ASSUME x = MemSize PROVE FALSE
      OBVIOUS
    <3>2. x = 1 * MemSize + 0 /\ 0 \in 0..MemSize - 1
      BY <3>1, MemSizeType
    <3>3. (1 * MemSize + 0) % MemSize = 0
      BY <3>2, MemSizeType, RemainderOfSum
    <3>4. x % MemSize = 0
      BY <3>2, <3>3
    <3>5. QED
      BY <1>3, <2>3, <3>4
  <2>5. x \in 0..MemSize - 1
    BY <2>1, <2>2, <2>4
  <2>6. x % MemSize = x
    BY <2>5, MemSizeType, SmallRemainder
  <2>7. Len(CodeOf[source]) \in Int
    BY <1>8, <1>10, <1>14
  <2>8. QED
    BY <1>9, <2>1, <2>3, <2>6, <2>7
<1>16. QED
  BY <1>7, <1>8, <1>9, <1>10, <1>12, <1>15 DEF p

LEMMA PortType ==
  ASSUME NEW source \in Installable, NEW s \in Symbols
  PROVE  PortOf(source, s) \in Address
<1>1. Built[source].symbols \in SymbolTable
  BY BuiltParts
<1>2. ValueOf(Built[source].symbols[s]) \in Int
  BY <1>1, EntryValue
<1>3. QED
  BY <1>2, RemainderType DEF PortOf

LEMMA LayoutIsPlaceable ==
  ASSUME NEW source \in Installable
  PROVE  Placeable(LayoutOf(source))
<1> DEFINE l == LayoutOf(source)
           s == Built[source].burnAddress
           n == Len(CodeOf[source])
           v == Built[source].burnValue
<1>1. l.start = s /\ l.code = CodeOf[source]
      /\ l.in = PortOf(source, "charIn") /\ l.out = PortOf(source, "charOut")
  BY DEF LayoutOf
<1>2. s \in Address /\ v \in Address /\ CodeOf[source] \in Seq(Byte) /\ s + n = v + 1
  BY BuiltParts
<1>3. "charIn" \in Symbols /\ "charOut" \in Symbols
  BY InstallationAssumption
<1>4. PortOf(source, "charIn") \in Address /\ PortOf(source, "charOut") \in Address
  BY <1>3, PortType
<1>5. /\ s # 0 /\ PortOf(source, "charIn") # PortOf(source, "charOut")
      /\ {PortOf(source, "charIn"), PortOf(source, "charOut")} \cap {0, s} = {}
  BY InstallationAssumption
<1>6. s + n =< MemSize
  BY <1>2, MemSizeType DEF Address
<1> HIDE DEF l, s, n, v
<1>7. QED
  BY <1>1, <1>2, <1>4, <1>5, <1>6 DEF Placeable, l, n

\* The code of a user program is a sequence of bytes, whatever it imports.
LEMMA ProgramIsBytes ==
  ASSUME NEW source \in ProgramSources, NEW system \in Installable
  PROVE  ProgramCode(source, system) \in Seq(Byte)
<1> DEFINE a == Read(source).asm
           imported == [s \in Imports |-> PortOf(system, s)]
           p == UserProgram(a, imported)
           bytes == [k \in DOMAIN ObjectCode(p) |-> ObjectCode(p)[k].value]
<1>1. source \in Seq(SourceLine)
  BY InstallationAssumption
<1>2. Scanned(a)
  BY <1>1, ReadIsScanned
<1>3. imported \in [Imports -> Address]
  BY PortType, AssemblerAssumption
<1>4. ProgramCode(source, system) = IF Read(source).ok /\ UserAccepted(a, imported)
                                    THEN bytes ELSE <<>>
  BY DEF ProgramCode
<1> HIDE DEF a, imported
<1>5. PICK at : Laid(a, at)
  BY <1>2 DEF Scanned
<1>6. Weighs(p, at)
  BY <1>2, <1>3, <1>5, UserWeighs
<1> HIDE DEF p
<1>7. bytes \in Seq(Byte)
  BY <1>6, CodeIsBytes
<1> HIDE DEF bytes
<1>8. QED
  BY <1>4, <1>7

LEMMA CodesAreBytes == ASSUME NEW code \in ObjectCodes PROVE code \in Seq(Byte)
<1>1. CASE code = <<>>
  BY <1>1
<1>2. CASE \E s \in Installable : code = CodeOf[s]
  BY <1>2, BuiltParts
<1>3. CASE \E s \in Installable, q \in ProgramSources : code = ProgramCode(q, s)
  BY <1>3, ProgramIsBytes
<1>4. QED
  BY <1>1, <1>2, <1>3 DEF ObjectCodes

-----------------------------------------------------------------------------
(* Chips.                                                                  *)

LEMMA GreatestIs ==
  ASSUME NEW S, S \subseteq Int, NEW g \in S, \A m \in S : m <= g
  PROVE  Greatest(S) = g
<1> DEFINE h == CHOOSE n \in S : \A m \in S : m <= n
<1>1. \E n \in S : \A m \in S : m <= n
  OBVIOUS
<1>2. h \in S /\ \A m \in S : m <= h
  BY <1>1
<1>3. Greatest(S) = h
  BY DEF Greatest
<1> HIDE DEF h
<1>4. h <= g /\ g <= h /\ h \in Int /\ g \in Int
  BY <1>2
<1>5. QED
  BY <1>3, <1>4

LEMMA LeastIsIn ==
  ASSUME NEW S, S \subseteq Nat, S # {}
  PROVE  Least(S) \in S
<1> DEFINE R == OpToRel(<, Nat)
<1>1. IsWellFoundedOn(R, Nat)
  BY NatLessThanWellFounded
<1>2. PICK x \in S : \A y \in S : ~(<<y, x>> \in R)
  <2> HIDE DEF R
  <2>1. QED
    BY <1>1, WFMin
<1>3. \A y \in S : ~(y < x)
  BY <1>2 DEF OpToRel
<1>4. \A y \in S : x <= y
  BY <1>3
<1>5. QED
  BY <1>4 DEF Least

LEMMA AddressIs == MemoryAddress = Address
BY DEF MemoryAddress, Address, MemSize

LEMMA ByteBaseType == ByteBase \in Nat \ {0} /\ 0 \in Byte
BY AssemblerAssumption DEF Byte

\* A chip that answers size addresses from base.
Chip(chip, type, base, size) ==
    IsChip(chip) /\ chip.type = type /\ chip.base = base /\ chip.size = size

LEMMA NewChipType ==
  ASSUME NEW type \in ChipTypes, NEW size \in 0..MemSize
  PROVE  Chip(NewChip(type, size), type, 0, size) /\ NewChip(type, size).links = 0
<1>1. Zeros(size) \in [0..size - 1 -> Byte]
  BY ByteBaseType DEF Zeros
<1>2. 0 \in MemoryAddress
  BY MemSizeType, AddressIs DEF Address
<1>3. QED
  BY <1>1, <1>2 DEF NewChip, Chip, IsChip, MemSize

LEMMA ResizedType ==
  ASSUME NEW chip, IsChip(chip), NEW size \in 0..MemSize
  PROVE  /\ Chip(Resized(chip, size), chip.type, chip.base, size)
         /\ Resized(chip, size).links = chip.links
<1>1. Zeros(size) \in [0..size - 1 -> Byte]
  BY ByteBaseType DEF Zeros
<1>2. CASE chip.size = size
  BY <1>2 DEF Resized, Chip
<1>3. CASE chip.size # size
  <2>1. Resized(chip, size) = [chip EXCEPT !.size = size, !.cells = Zeros(size)]
    BY <1>3 DEF Resized
  <2> HIDE DEF Resized
  <2>2. QED
    BY <1>1, <2>1 DEF Chip, IsChip, MemSize
<1>4. QED
  BY <1>2, <1>3

\* Chips that ConstructMemoryDevice may find.
Reusable(chips) ==
    /\ 0 \in DOMAIN chips /\ chips[0].type = "RAM"
    /\ \A b \in DOMAIN chips : IsChip(chips[b]) /\ chips[b].base = b

\* Chips in the places that a layout gives them.
Shaped(chips, layout) ==
    /\ DOMAIN chips = {0, layout.start, layout.in, layout.out}
    /\ Chip(chips[0], "RAM", 0, layout.start)
    /\ Chip(chips[layout.start], "ROM", layout.start, Len(layout.code))
    /\ Chip(chips[layout.in], "IDEV", layout.in, 1) /\ chips[layout.in].links = 1
    /\ Chip(chips[layout.out], "ODEV", layout.out, 1) /\ chips[layout.out].links = 1

LEMMA ShapedIsReusable ==
  ASSUME NEW chips, NEW layout, Shaped(chips, layout)
  PROVE  Reusable(chips)
BY DEF Shaped, Reusable, Chip

LEMMA Disconnected ==
  ASSUME NEW chips, Reusable(chips)
  PROVE  LET left == RemoveAllChips(chips)
         IN  /\ Reusable(left)
             /\ \A b \in DOMAIN left : left[b].links = 0
<1> DEFINE left == RemoveAllChips(chips)
<1>1. DOMAIN left = DOMAIN chips
  BY DEF RemoveAllChips
<1>2. ASSUME NEW b \in DOMAIN chips
      PROVE  /\ IsChip(left[b]) /\ left[b].base = b /\ left[b].links = 0
             /\ left[b].type = chips[b].type
  <2>1. left[b] = [chips[b] EXCEPT !.links = 0]
    BY DEF RemoveAllChips
  <2>2. IsChip(chips[b]) /\ chips[b].base = b
    BY DEF Reusable
  <2> DEFINE chip == chips[b]
             new == left[b]
  <2> HIDE DEF chip, left, new
  <2>3. new = [chip EXCEPT !.links = 0] /\ IsChip(chip)
    BY <2>1, <2>2 DEF chip, new
  <2>4. IsChip(new) /\ new.base = chip.base /\ new.links = 0 /\ new.type = chip.type
    BY <2>3 DEF IsChip
  <2>5. QED
    BY <2>2, <2>4 DEF chip, new
<1>3. QED
  <2> HIDE DEF left
  <2>1. Reusable(left)
    BY <1>1, <1>2 DEF Reusable
  <2>2. QED
    BY <1>1, <1>2, <2>1 DEF left

\* Chips that have been taken out of the memory.
Unused(chips) ==
    \A b \in DOMAIN chips :
        b \in Nat /\ IsChip(chips[b]) /\ chips[b].base = b /\ chips[b].links = 0

\* A specification is met by a new chip or an old one of its type, and the
\* chips at other addresses stay.
LEMMA SpecIsMet ==
  ASSUME NEW state, Unused(state.cache),
         NEW spec, spec.type \in ChipTypes, spec.start \in Address, spec.size \in 0..MemSize
  PROVE  LET next == PlaceSpec(state, spec)
             a == spec.start
         IN  /\ Unused(next.cache)
             /\ DOMAIN next.chips = DOMAIN state.chips \cup {a}
             /\ \A b \in DOMAIN state.chips : b # a => next.chips[b] = state.chips[b]
             /\ spec.type # "RAM" => Chip(next.chips[a], spec.type, a, spec.size)
             /\ 0 \in DOMAIN state.cache /\ state.cache[0].type = "RAM" /\ spec.type = "RAM" =>
                    Chip(next.chips[a], "RAM", a, spec.size)
             /\ spec.type \in Ports => next.chips[a].links = 1
<1> DEFINE cache == state.cache
           fitting == {b \in DOMAIN cache : GetChipType(cache[b]) = spec.type}
           used == IF fitting = {} THEN {} ELSE {Least(fitting)}
           chip == IF fitting = {} THEN NewChip(spec.type, spec.size) ELSE cache[Least(fitting)]
           new == Resized(chip, spec.size)
           next == PlaceSpec(state, spec)
           a == spec.start
<1>1. next = [cache |-> [b \in DOMAIN cache \ used |-> cache[b]],
              chips |-> InsertChip(state.chips, new, a)]
  BY DEF PlaceSpec
<1>2. /\ IsChip(chip) /\ chip.links = 0
      /\ spec.type # "RAM" => chip.type = spec.type
      /\ 0 \in DOMAIN cache /\ cache[0].type = "RAM" /\ spec.type = "RAM" => chip.type = "RAM"
  <2>1. CASE fitting = {}
    <3>1. chip = NewChip(spec.type, spec.size)
      BY <2>1
    <3>2. Chip(chip, spec.type, 0, spec.size) /\ chip.links = 0
      BY <3>1, NewChipType
    <3> HIDE DEF chip
    <3>3. QED
      BY <3>2 DEF Chip
  <2>2. CASE fitting # {}
    <3>1. fitting \subseteq Nat
      BY DEF Unused
    <3> DEFINE l == Least(fitting)
    <3>2. l \in fitting
      <4> HIDE DEF fitting
      <4>1. QED
        BY <2>2, <3>1, LeastIsIn
    <3>3. chip = cache[l]
      BY <2>2
    <3>4. l \in DOMAIN cache /\ GetChipType(cache[l]) = spec.type
      <4> HIDE DEF l
      <4>1. QED
        BY <3>2
    <3>5. IsChip(cache[l]) /\ cache[l].links = 0
      BY <3>4 DEF Unused
    <3>6. spec.type # "RAM" => cache[l].type = spec.type
      BY <3>4 DEF GetChipType
    <3>7. ASSUME 0 \in DOMAIN cache, cache[0].type = "RAM", spec.type = "RAM"
          PROVE  l = 0
      <4>1. 0 \in fitting
        BY <3>7 DEF GetChipType
      <4>2. \A m \in fitting : 0 <= m
        BY <3>1
      <4>3. \E n \in fitting : \A m \in fitting : n <= m
        BY <4>1, <4>2
      <4> DEFINE h == CHOOSE n \in fitting : \A m \in fitting : n <= m
      <4>4. l = h
        BY DEF Least
      <4> HIDE DEF fitting
      <4>5. h \in fitting /\ \A m \in fitting : h <= m
        BY <4>3
      <4> HIDE DEF h, l
      <4>6. h \in Nat /\ h <= 0
        BY <3>1, <4>1, <4>5
      <4>7. QED
        BY <4>4, <4>6
    <3> HIDE DEF l, chip
    <3>8. QED
      BY <3>3, <3>5, <3>6, <3>7
  <2>3. QED
    BY <2>1, <2>2
<1> HIDE DEF chip, used
<1>3. Chip(new, chip.type, chip.base, spec.size) /\ new.links = 0
  BY <1>2, ResizedType
<1> HIDE DEF new
<1> DEFINE put == [new EXCEPT !.base = a, !.links = IF new.type \in Ports THEN @ + 1 ELSE @]
<1>4. /\ next.chips[a] = put
      /\ DOMAIN next.chips = DOMAIN state.chips \cup {a}
      /\ \A b \in DOMAIN state.chips : b # a => next.chips[b] = state.chips[b]
  <2>1. next.chips = InsertChip(state.chips, new, a)
    BY <1>1
  <2> HIDE DEF next
  <2>2. QED
    BY <2>1 DEF InsertChip
<1>5. Chip(put, chip.type, a, spec.size) /\ (new.type \in Ports => put.links = 1)
  <2>1. new.links = 0 /\ IsChip(new) /\ new.type = chip.type /\ new.size = spec.size
    BY <1>3 DEF Chip
  <2>2. a \in MemoryAddress
    BY AddressIs
  <2>3. IsChip(put)
    BY <2>1, <2>2 DEF IsChip
  <2>4. put.type = chip.type /\ put.base = a /\ put.size = spec.size
    BY <2>1 DEF IsChip
  <2>5. new.type \in Ports => put.links = 1
    BY <2>1 DEF IsChip
  <2> HIDE DEF put
  <2>6. QED
    BY <2>3, <2>4, <2>5 DEF Chip
<1>6. Unused(next.cache)
  <2>1. next.cache = [b \in DOMAIN cache \ used |-> cache[b]]
    BY <1>1
  <2> HIDE DEF next
  <2>2. QED
    BY <2>1 DEF Unused
<1> HIDE DEF put, next
<1>7. spec.type \in Ports => next.chips[a].links = 1
  <2>1. spec.type \in Ports => spec.type # "RAM"
    BY DEF Ports
  <2>2. new.type = chip.type
    BY <1>3 DEF Chip
  <2>3. QED
    BY <1>2, <1>4, <1>5, <2>1, <2>2
<1>8. QED
  BY <1>2, <1>4, <1>5, <1>6, <1>7 DEF next

LEMMA LayoutNumbers ==
  ASSUME NEW layout, Placeable(layout)
  PROVE  /\ layout.start \in Nat /\ layout.start # 0 /\ layout.start < MemSize
         /\ Len(layout.code) \in Nat /\ layout.start + Len(layout.code) =< MemSize
         /\ MemSize \in Nat
         /\ layout.in \in Address /\ layout.out \in Address /\ layout.in # layout.out
         /\ layout.in # 0 /\ layout.in # layout.start
         /\ layout.out # 0 /\ layout.out # layout.start
<1>1. Len(layout.code) \in Nat
  BY DEF Placeable
<1>2. layout.start \in Address /\ MemSize \in Nat
  BY MemSizeType DEF Placeable
<1>3. layout.start \in Nat /\ layout.start < MemSize
  BY <1>2 DEF Address
<1>4. layout.start # 0 /\ layout.start + Len(layout.code) =< MemSize
  BY DEF Placeable
<1>5. /\ layout.in \in Address /\ layout.out \in Address /\ layout.in # layout.out
      /\ layout.in # 0 /\ layout.in # layout.start
      /\ layout.out # 0 /\ layout.out # layout.start
  BY DEF Placeable
<1>6. QED
  BY <1>1, <1>2, <1>3, <1>4, <1>5

\* The chips that loadOperatingSystem asks for.
SpecsOf(layout) ==
    << [type |-> "RAM", start |-> 0, size |-> layout.start],
       [type |-> "ROM", start |-> layout.start, size |-> Len(layout.code)],
       [type |-> "IDEV", start |-> layout.in, size |-> 1],
       [type |-> "ODEV", start |-> layout.out, size |-> 1] >>

\* The four steps of ConstructMemoryDevice.
LEMMA FourSteps ==
  ASSUME NEW chips, NEW specs, Len(specs) = 4
  PROVE  LET p0 == [cache |-> RemoveAllChips(chips), chips |-> <<>>]
             p1 == PlaceSpec(p0, specs[1])
             p2 == PlaceSpec(p1, specs[2])
             p3 == PlaceSpec(p2, specs[3])
             p4 == PlaceSpec(p3, specs[4])
         IN  ConstructMemoryDevice(chips, specs) = p4.chips
<1> DEFINE p0 == [cache |-> RemoveAllChips(chips), chips |-> <<>>]
           p1 == PlaceSpec(p0, specs[1])
           p2 == PlaceSpec(p1, specs[2])
           p3 == PlaceSpec(p2, specs[3])
           p4 == PlaceSpec(p3, specs[4])
           Is(f, m) == f = [k \in 0..m |-> IF k = 0 THEN p0 ELSE PlaceSpec(f[k - 1], specs[k])]
           g == [k \in 0..4 |-> IF k = 0 THEN p0 ELSE IF k = 1 THEN p1 ELSE IF k = 2 THEN p2
                                ELSE IF k = 3 THEN p3 ELSE p4]
           h == CHOOSE f : Is(f, Len(specs))
<1>1. /\ p1 = PlaceSpec(p0, specs[1]) /\ p2 = PlaceSpec(p1, specs[2])
      /\ p3 = PlaceSpec(p2, specs[3]) /\ p4 = PlaceSpec(p3, specs[4])
  OBVIOUS
<1>2. ConstructMemoryDevice(chips, specs) = h[Len(specs)].chips
  BY DEF ConstructMemoryDevice
<1> HIDE DEF p0, p1, p2, p3, p4
<1>3. g[0] = p0 /\ g[1] = p1 /\ g[2] = p2 /\ g[3] = p3 /\ g[4] = p4
  OBVIOUS
<1>4. g = [k \in 0..4 |-> g[k]]
  OBVIOUS
<1> HIDE DEF g
<1>5. ASSUME NEW k \in 0..4
      PROVE  g[k] = IF k = 0 THEN p0 ELSE PlaceSpec(g[k - 1], specs[k])
  <2>1. CASE k = 0
    BY <1>3, <2>1
  <2>2. CASE k = 1
    <3>1. g[k - 1] = g[0] /\ g[k] = g[1] /\ specs[k] = specs[1] /\ k # 0
      BY <2>2
    <3>2. QED
      BY <1>1, <1>3, <3>1
  <2>3. CASE k = 2
    <3>1. g[k - 1] = g[1] /\ g[k] = g[2] /\ specs[k] = specs[2] /\ k # 0
      BY <2>3
    <3>2. QED
      BY <1>1, <1>3, <3>1
  <2>4. CASE k = 3
    <3>1. g[k - 1] = g[2] /\ g[k] = g[3] /\ specs[k] = specs[3] /\ k # 0
      BY <2>4
    <3>2. QED
      BY <1>1, <1>3, <3>1
  <2>5. CASE k = 4
    <3>1. g[k - 1] = g[3] /\ g[k] = g[4] /\ specs[k] = specs[4] /\ k # 0
      BY <2>5
    <3>2. QED
      BY <1>1, <1>3, <3>1
  <2>6. QED
    BY <2>1, <2>2, <2>3, <2>4, <2>5
<1>6. Is(g, 4)
  BY <1>4, <1>5
<1>7. Is(h, 4)
  BY <1>6
<1> HIDE DEF h
<1>8. /\ h[0] = p0 /\ h[1] = PlaceSpec(h[1 - 1], specs[1]) /\ h[2] = PlaceSpec(h[2 - 1], specs[2])
      /\ h[3] = PlaceSpec(h[3 - 1], specs[3]) /\ h[4] = PlaceSpec(h[4 - 1], specs[4])
  BY <1>7
<1>9. 1 - 1 = 0 /\ 2 - 1 = 1 /\ 3 - 1 = 2 /\ 4 - 1 = 3
  OBVIOUS
<1>10. h[4] = p4
  <2>1. h[1] = p1
    BY <1>1, <1>8, <1>9
  <2>2. h[2] = p2
    BY <1>1, <1>8, <1>9, <2>1
  <2>3. h[3] = p3
    BY <1>1, <1>8, <1>9, <2>2
  <2>4. QED
    BY <1>1, <1>8, <1>9, <2>3
<1>11. QED
  BY <1>2, <1>10 DEF p0, p1, p2, p3, p4

\* Whatever chips are reused, they come to lie as the layout says.
LEMMA Constructed ==
  ASSUME NEW chips, Reusable(chips), NEW layout, Placeable(layout)
  PROVE  Shaped(ConstructMemoryDevice(chips, SpecsOf(layout)), layout)
<1> DEFINE specs == SpecsOf(layout)
           p0 == [cache |-> RemoveAllChips(chips), chips |-> <<>>]
           p1 == PlaceSpec(p0, specs[1])
           p2 == PlaceSpec(p1, specs[2])
           p3 == PlaceSpec(p2, specs[3])
           p4 == PlaceSpec(p3, specs[4])
           s == layout.start
           n == Len(layout.code)
           in == layout.in
           out == layout.out
<1>1. /\ n \in 0..MemSize /\ s \in Address /\ s \in 0..MemSize /\ s # 0 /\ s # in /\ s # out
      /\ in \in Address /\ out \in Address /\ in # out /\ in # 0 /\ out # 0
      /\ 0 \in Address /\ 1 \in 0..MemSize
  <2>1. /\ s \in Nat /\ s # 0 /\ s < MemSize /\ n \in Nat /\ s + n =< MemSize /\ MemSize \in Nat
        /\ in \in Address /\ out \in Address /\ in # out /\ in # 0 /\ in # s /\ out # 0 /\ out # s
    BY LayoutNumbers
  <2> HIDE DEF s, n, in, out
  <2>2. s \in Address /\ 0 \in Address
    BY <2>1 DEF Address
  <2>3. n \in 0..MemSize /\ s \in 0..MemSize /\ 1 \in 0..MemSize
    BY <2>1
  <2>4. QED
    BY <2>1, <2>2, <2>3
<1>2. /\ specs[1].type = "RAM" /\ specs[1].start = 0 /\ specs[1].size = s
      /\ specs[2].type = "ROM" /\ specs[2].start = s /\ specs[2].size = n
      /\ specs[3].type = "IDEV" /\ specs[3].start = in /\ specs[3].size = 1
      /\ specs[4].type = "ODEV" /\ specs[4].start = out /\ specs[4].size = 1
      /\ Len(specs) = 4
  BY DEF SpecsOf
<1>3. ConstructMemoryDevice(chips, specs) = p4.chips
  <2> HIDE DEF specs
  <2>1. QED
    BY <1>2, FourSteps
<1>4. /\ Unused(p0.cache) /\ 0 \in DOMAIN p0.cache /\ p0.cache[0].type = "RAM"
      /\ DOMAIN p0.chips = {}
  <2> DEFINE left == RemoveAllChips(chips)
  <2>1. Reusable(left) /\ \A b \in DOMAIN left : left[b].links = 0
    BY Disconnected
  <2>2. \A b \in DOMAIN left : b \in Nat
    <3>1. \A b \in DOMAIN left : left[b].base \in Address /\ left[b].base = b
      BY <2>1, AddressIs DEF Reusable, IsChip
    <3>2. QED
      BY <3>1, MemSizeType DEF Address
  <2>3. p0.cache = left /\ p0.chips = <<>>
    OBVIOUS
  <2> HIDE DEF left
  <2>4. QED
    BY <2>1, <2>2, <2>3 DEF Reusable, Unused
<1> HIDE DEF p0, specs, s, n, in, out
<1>5. /\ Unused(p1.cache) /\ DOMAIN p1.chips = {0}
      /\ Chip(p1.chips[0], "RAM", 0, s)
  <2>1. specs[1].type \in ChipTypes
    BY <1>2 DEF ChipTypes
  <2>2. QED
    BY <1>1, <1>2, <1>4, <2>1, SpecIsMet
<1> HIDE DEF p1
<1>6. /\ Unused(p2.cache) /\ DOMAIN p2.chips = {0, s}
      /\ p2.chips[0] = p1.chips[0] /\ Chip(p2.chips[s], "ROM", s, n)
  <2>1. specs[2].type \in ChipTypes /\ specs[2].type # "RAM"
    BY <1>2 DEF ChipTypes
  <2>2. QED
    BY <1>1, <1>2, <1>5, <2>1, SpecIsMet
<1> HIDE DEF p2
<1>7. /\ Unused(p3.cache) /\ DOMAIN p3.chips = {0, s, in}
      /\ p3.chips[0] = p2.chips[0] /\ p3.chips[s] = p2.chips[s]
      /\ Chip(p3.chips[in], "IDEV", in, 1) /\ p3.chips[in].links = 1
  <2>1. specs[3].type \in ChipTypes /\ specs[3].type # "RAM" /\ specs[3].type \in Ports
    BY <1>2 DEF ChipTypes, Ports
  <2>2. QED
    BY <1>1, <1>2, <1>6, <2>1, SpecIsMet
<1> HIDE DEF p3
<1>8. /\ DOMAIN p4.chips = {0, s, in, out}
      /\ p4.chips[0] = p3.chips[0] /\ p4.chips[s] = p3.chips[s] /\ p4.chips[in] = p3.chips[in]
      /\ Chip(p4.chips[out], "ODEV", out, 1) /\ p4.chips[out].links = 1
  <2>1. specs[4].type \in ChipTypes /\ specs[4].type # "RAM" /\ specs[4].type \in Ports
    BY <1>2 DEF ChipTypes, Ports
  <2>2. QED
    BY <1>1, <1>2, <1>7, <2>1, SpecIsMet
<1> HIDE DEF p4
<1>9. Shaped(p4.chips, layout)
  BY <1>5, <1>6, <1>7, <1>8 DEF Shaped, s, n, in, out
<1>10. QED
  BY <1>3, <1>9 DEF specs

-----------------------------------------------------------------------------
(* Addresses.                                                              *)

\* The base address of the chip that answers an address, if one does.
Home(layout, a) ==
    IF a \in {layout.in, layout.out} THEN a ELSE IF a < layout.start THEN 0 ELSE layout.start

KindAt(layout, a) == Space!KindIn(layout, a)

LEMMA KindIs ==
  ASSUME NEW layout, Placeable(layout), NEW a \in Address
  PROVE  /\ a = layout.in => KindAt(layout, a) = "IDEV"
         /\ a = layout.out => KindAt(layout, a) = "ODEV"
         /\ a \notin {layout.in, layout.out} =>
                /\ a < layout.start => KindAt(layout, a) = "RAM"
                /\ a >= layout.start /\ a < layout.start + Len(layout.code) =>
                        KindAt(layout, a) = "ROM"
                /\ a >= layout.start + Len(layout.code) => KindAt(layout, a) = "NIL"
<1> DEFINE s == layout.start
           n == Len(layout.code)
           in == layout.in
           out == layout.out
<1>1. s \in Nat /\ n \in Nat /\ in # out
  BY LayoutNumbers
<1>2. a \in Int
  BY MemSizeType DEF Address
<1>3. KindAt(layout, a) =
        CASE a = out -> "ODEV"
          [] a = in /\ a # out -> "IDEV"
          [] a \in s..s + n - 1 /\ a \notin {in, out} -> "ROM"
          [] a < s /\ a \notin {in, out} -> "RAM"
          [] OTHER -> "NIL"
  BY DEF KindAt, Space!KindIn
<1> HIDE DEF s, n, in, out
<1>4. CASE a = out
  <2>1. KindAt(layout, a) = "ODEV"
    BY <1>1, <1>3, <1>4
  <2>2. QED
    BY <1>1, <1>4, <2>1 DEF in, out
<1>5. CASE a = in
  <2>1. a # out
    BY <1>1, <1>5
  <2>2. KindAt(layout, a) = "IDEV"
    BY <1>3, <1>5, <2>1
  <2>3. QED
    BY <1>5, <2>1, <2>2 DEF in, out
<1>6. CASE a \notin {in, out}
  <2>1. CASE a < s
    <3>1. ~(a \in s..s + n - 1) /\ a # in /\ a # out
      BY <1>1, <1>2, <1>6, <2>1
    <3>2. KindAt(layout, a) = "RAM"
      BY <1>3, <1>6, <2>1, <3>1
    <3>3. ~(a >= s) /\ ~(a >= s + n)
      BY <1>1, <1>2, <2>1
    <3>4. QED
      BY <1>6, <3>1, <3>2, <3>3 DEF s, n, in, out
  <2>2. CASE a >= s /\ a < s + n
    <3>1. a \in s..s + n - 1 /\ a # in /\ a # out
      BY <1>1, <1>2, <1>6, <2>2
    <3>2. ~(a < s) /\ ~(a >= s + n)
      BY <1>1, <1>2, <2>2
    <3>3. KindAt(layout, a) = "ROM"
      BY <1>3, <1>6, <3>1, <3>2
    <3>4. QED
      BY <1>6, <3>1, <3>2, <3>3 DEF s, n, in, out
  <2>3. CASE a >= s + n
    <3>1. ~(a \in s..s + n - 1) /\ a # in /\ a # out /\ ~(a < s) /\ ~(a < s + n)
      BY <1>1, <1>2, <1>6, <2>3
    <3>2. KindAt(layout, a) = "NIL"
      BY <1>3, <1>6, <3>1
    <3>3. QED
      BY <1>6, <3>1, <3>2 DEF s, n, in, out
  <2>4. QED
    BY <1>1, <1>2, <2>1, <2>2, <2>3
<1>7. QED
  BY <1>4, <1>5, <1>6

\* The chips that cover an address.
LEMMA CoveringIs ==
  ASSUME NEW layout, Placeable(layout), NEW chips, Shaped(chips, layout), NEW a \in Address
  PROVE  \A b : b \in Covering(chips, a) <=>
            \/ b = 0 /\ a < layout.start
            \/ b = layout.start /\ a >= layout.start /\ a < layout.start + Len(layout.code)
            \/ b = layout.in /\ a = layout.in
            \/ b = layout.out /\ a = layout.out
<1> DEFINE s == layout.start
           n == Len(layout.code)
           in == layout.in
           out == layout.out
<1>1. s \in Nat /\ n \in Nat /\ in \in Int /\ out \in Int
  BY LayoutNumbers, MemSizeType DEF Address
<1>2. a \in Int /\ a >= 0
  BY MemSizeType DEF Address
<1>3. /\ DOMAIN chips = {0, s, in, out}
      /\ chips[0].size = s /\ chips[s].size = n /\ chips[in].size = 1 /\ chips[out].size = 1
  BY DEF Shaped, Chip
<1>4. \A b : b \in Covering(chips, a) <=> b \in DOMAIN chips /\ b <= a /\ a < b + chips[b].size
  BY DEF Covering
<1> HIDE DEF s, n, in, out
<1>5. 0 <= a /\ a < 0 + chips[0].size <=> a < s
  BY <1>1, <1>2, <1>3
<1>6. s <= a /\ a < s + chips[s].size <=> a >= s /\ a < s + n
  BY <1>1, <1>2, <1>3
<1>7. in <= a /\ a < in + chips[in].size <=> a = in
  BY <1>1, <1>2, <1>3
<1>8. out <= a /\ a < out + chips[out].size <=> a = out
  BY <1>1, <1>2, <1>3
<1>9. ASSUME NEW b
      PROVE  b \in Covering(chips, a) <=>
                \/ b = 0 /\ a < s
                \/ b = s /\ a >= s /\ a < s + n
                \/ b = in /\ a = in
                \/ b = out /\ a = out
  <2>1. CASE b \in DOMAIN chips
    <3>1. b = 0 \/ b = s \/ b = in \/ b = out
      BY <1>3, <2>1
    <3>2. b \in Covering(chips, a) <=> b <= a /\ a < b + chips[b].size
      BY <1>4, <2>1
    <3>3. QED
      BY <1>5, <1>6, <1>7, <1>8, <3>1, <3>2, Zenon
  <2>2. CASE b \notin DOMAIN chips
    BY <1>3, <1>4, <2>2
  <2>3. QED
    BY <2>1, <2>2
<1>10. QED
  BY <1>9 DEF s, n, in, out

\* The chip that answers an address.
Answers(chips, layout, a) ==
    LET h == Home(layout, a)
    IN  /\ h \in DOMAIN chips /\ h \in Int /\ ChipAt(chips, a) = chips[h]
        /\ IsChip(chips[h]) /\ chips[h].base = h /\ chips[h].type = KindAt(layout, a)
        /\ a - h \in 0..chips[h].size - 1

LEMMA Answered ==
  ASSUME NEW layout, Placeable(layout), NEW chips, Shaped(chips, layout), NEW a \in Address
  PROVE  /\ KindAt(layout, a) # "NIL" => Answers(chips, layout, a)
         /\ KindAt(layout, a) = "NIL" => ChipAt(chips, a) = NilChip
         /\ ChipAt(chips, a).type = KindAt(layout, a)
<1> DEFINE s == layout.start
           n == Len(layout.code)
           in == layout.in
           out == layout.out
           c == Covering(chips, a)
           h == Home(layout, a)
           k == KindAt(layout, a)
<1>1. /\ s \in Nat /\ s # 0 /\ n \in Nat /\ in \in Int /\ out \in Int
      /\ in # out /\ in # 0 /\ out # 0 /\ in # s /\ out # s
  BY LayoutNumbers, MemSizeType DEF Address
<1>2. a \in Int /\ a >= 0
  BY MemSizeType DEF Address
<1>3. /\ DOMAIN chips = {0, s, in, out}
      /\ Chip(chips[0], "RAM", 0, s) /\ Chip(chips[s], "ROM", s, n)
      /\ Chip(chips[in], "IDEV", in, 1) /\ Chip(chips[out], "ODEV", out, 1)
  BY DEF Shaped
<1>4. \A b : b \in c <=> \/ b = 0 /\ a < s
                         \/ b = s /\ a >= s /\ a < s + n
                         \/ b = in /\ a = in
                         \/ b = out /\ a = out
  BY CoveringIs
<1>5. /\ a = in => k = "IDEV"
      /\ a = out => k = "ODEV"
      /\ a \notin {in, out} =>
            /\ a < s => k = "RAM"
            /\ a >= s /\ a < s + n => k = "ROM"
            /\ a >= s + n => k = "NIL"
  BY KindIs
<1>6. h = IF a \in {in, out} THEN a ELSE IF a < s THEN 0 ELSE s
  BY DEF Home
<1>7. ChipAt(chips, a) = IF c = {} THEN NilChip ELSE chips[Greatest(c)]
  BY DEF ChipAt
<1>8. \A b \in c : b \in Int /\ b <= a
  BY <1>1, <1>2, <1>4
<1> HIDE DEF s, n, in, out, c, h, k
<1>9. ASSUME h \in c, \A b \in c : b <= h PROVE ChipAt(chips, a) = chips[h]
  <2>1. c \subseteq Int
    BY <1>8
  <2>2. Greatest(c) = h
    BY <1>9, <2>1, GreatestIs
  <2>3. QED
    BY <1>7, <1>9, <2>2
<1> DEFINE A == /\ h \in DOMAIN chips /\ h \in Int /\ ChipAt(chips, a) = chips[h]
                /\ IsChip(chips[h]) /\ chips[h].base = h /\ chips[h].type = k
                /\ a - h \in 0..chips[h].size - 1
<1>10. CASE a = in
  <2>1. h = in /\ k = "IDEV" /\ h \in c /\ h = a
    BY <1>4, <1>5, <1>6, <1>10
  <2>2. ChipAt(chips, a) = chips[h]
    BY <1>8, <1>9, <2>1
  <2>3. Chip(chips[h], "IDEV", h, 1) /\ h \in DOMAIN chips /\ h \in Int
    BY <1>1, <1>3, <2>1
  <2>4. a - h \in 0..1 - 1
    BY <1>2, <2>1
  <2>5. A /\ k # "NIL"
    BY <2>1, <2>2, <2>3, <2>4 DEF Chip
  <2>6. QED
    BY <2>5 DEF Answers, h, k
<1>11. CASE a = out
  <2>1. h = out /\ k = "ODEV" /\ h \in c /\ h = a
    BY <1>4, <1>5, <1>6, <1>11
  <2>2. ChipAt(chips, a) = chips[h]
    BY <1>8, <1>9, <2>1
  <2>3. Chip(chips[h], "ODEV", h, 1) /\ h \in DOMAIN chips /\ h \in Int
    BY <1>1, <1>3, <2>1
  <2>4. a - h \in 0..1 - 1
    BY <1>2, <2>1
  <2>5. A /\ k # "NIL"
    BY <2>1, <2>2, <2>3, <2>4 DEF Chip
  <2>6. QED
    BY <2>5 DEF Answers, h, k
<1>12. CASE a \notin {in, out} /\ a < s
  <2>1. h = 0 /\ k = "RAM" /\ h \in c
    BY <1>4, <1>5, <1>6, <1>12
  <2>2. \A b \in c : b = 0
    BY <1>1, <1>2, <1>4, <1>12
  <2>3. ChipAt(chips, a) = chips[h]
    <3>1. \A b \in c : b <= h
      BY <2>1, <2>2
    <3>2. QED
      BY <1>9, <2>1, <3>1
  <2>4. Chip(chips[h], "RAM", h, s) /\ h \in DOMAIN chips /\ h \in Int
    BY <1>1, <1>3, <2>1
  <2>5. a - h \in 0..s - 1
    BY <1>1, <1>2, <1>12, <2>1
  <2>6. A /\ k # "NIL"
    BY <2>1, <2>3, <2>4, <2>5 DEF Chip
  <2>7. QED
    BY <2>6 DEF Answers, h, k
<1>13. CASE a \notin {in, out} /\ a >= s /\ a < s + n
  <2>1. h = s /\ k = "ROM" /\ h \in c
    BY <1>1, <1>2, <1>4, <1>5, <1>6, <1>13
  <2>2. \A b \in c : b = s
    BY <1>1, <1>2, <1>4, <1>13
  <2>3. ChipAt(chips, a) = chips[h]
    <3>1. \A b \in c : b <= h
      BY <1>1, <2>1, <2>2
    <3>2. QED
      BY <1>9, <2>1, <3>1
  <2>4. Chip(chips[h], "ROM", h, n) /\ h \in DOMAIN chips /\ h \in Int
    BY <1>1, <1>3, <2>1
  <2>5. a - h \in 0..n - 1
    BY <1>1, <1>2, <1>13, <2>1
  <2>6. A /\ k # "NIL"
    BY <2>1, <2>3, <2>4, <2>5 DEF Chip
  <2>7. QED
    BY <2>6 DEF Answers, h, k
<1>14. CASE a \notin {in, out} /\ a >= s + n
  <2>1. k = "NIL"
    BY <1>5, <1>14
  <2>2. c = {}
    BY <1>1, <1>2, <1>4, <1>14
  <2>3. ChipAt(chips, a) = NilChip /\ NilChip.type = "NIL"
    BY <1>7, <2>2 DEF NilChip
  <2>4. QED
    BY <2>1, <2>3 DEF k
<1>15. QED
  BY <1>1, <1>2, <1>10, <1>11, <1>12, <1>13, <1>14

\* An address has a kind just when a chip covers it.
LEMMA Covered ==
  ASSUME NEW layout, Placeable(layout), NEW chips, Shaped(chips, layout), NEW a \in Address
  PROVE  Covering(chips, a) # {} <=> KindAt(layout, a) # "NIL"
<1> DEFINE s == layout.start
           n == Len(layout.code)
           in == layout.in
           out == layout.out
           c == Covering(chips, a)
           k == KindAt(layout, a)
<1>1. s \in Nat /\ n \in Nat
  BY LayoutNumbers
<1>2. a \in Int
  BY MemSizeType DEF Address
<1>3. \A b : b \in c <=> \/ b = 0 /\ a < s
                         \/ b = s /\ a >= s /\ a < s + n
                         \/ b = in /\ a = in
                         \/ b = out /\ a = out
  BY CoveringIs
<1>4. /\ a = in => k = "IDEV"
      /\ a = out => k = "ODEV"
      /\ a \notin {in, out} =>
            /\ a < s => k = "RAM"
            /\ a >= s /\ a < s + n => k = "ROM"
            /\ a >= s + n => k = "NIL"
  BY KindIs
<1> HIDE DEF s, n, in, out, c, k
<1>5. CASE a = in
  <2>1. in \in c /\ k # "NIL"
    BY <1>3, <1>4, <1>5
  <2>2. QED
    BY <2>1 DEF c, k
<1>6. CASE a = out
  <2>1. out \in c /\ k # "NIL"
    BY <1>3, <1>4, <1>6
  <2>2. QED
    BY <2>1 DEF c, k
<1>7. CASE a \notin {in, out} /\ a < s
  <2>1. 0 \in c /\ k # "NIL"
    BY <1>3, <1>4, <1>7
  <2>2. QED
    BY <2>1 DEF c, k
<1>8. CASE a \notin {in, out} /\ a >= s /\ a < s + n
  <2>1. s \in c /\ k # "NIL"
    BY <1>3, <1>4, <1>8
  <2>2. QED
    BY <2>1 DEF c, k
<1>9. CASE a \notin {in, out} /\ a >= s + n
  <2>1. c = {} /\ k = "NIL"
    BY <1>1, <1>2, <1>3, <1>4, <1>9
  <2>2. QED
    BY <2>1 DEF c, k
<1>10. QED
  BY <1>1, <1>2, <1>5, <1>6, <1>7, <1>8, <1>9

\* The last address that has memory.
EndsWithCode(layout, last, end) ==
    layout.in < end /\ layout.out < end => last = end - 1

LEMMA LastIs ==
  ASSUME NEW layout, Placeable(layout), NEW chips, Shaped(chips, layout)
  PROVE  LET last == MaxAddress(chips)
             end == layout.start + Len(layout.code)
         IN  /\ last \in Address /\ KindAt(layout, last) # "NIL"
             /\ \A a \in Address : KindAt(layout, a) # "NIL" => a <= last
             /\ EndsWithCode(layout, last, end)
<1> DEFINE s == layout.start
           n == Len(layout.code)
           in == layout.in
           out == layout.out
           e == s + n
           T == {b + chips[b].size : b \in DOMAIN chips}
           g == Greatest(T)
           last == MaxAddress(chips)
<1>1. /\ s \in Nat /\ s # 0 /\ n \in Nat /\ s + n =< MemSize /\ MemSize \in Nat
      /\ in \in Nat /\ out \in Nat /\ in < MemSize /\ out < MemSize
  BY LayoutNumbers DEF Address
<1>2. /\ DOMAIN chips = {0, s, in, out}
      /\ chips[0].size = s /\ chips[s].size = n /\ chips[in].size = 1 /\ chips[out].size = 1
  BY DEF Shaped, Chip
<1>3. last = g - 1
  BY DEF MaxAddress
<1> HIDE DEF s, n, in, out, last
<1>4. T = {s, e, in + 1, out + 1}
  <2>1. T = {0 + chips[0].size, s + chips[s].size, in + chips[in].size, out + chips[out].size}
    BY <1>2
  <2>2. 0 + chips[0].size = s
    BY <1>1, <1>2
  <2> HIDE DEF T
  <2>3. QED
    BY <1>2, <2>1, <2>2
<1>5. e \in Nat /\ s <= e /\ in + 1 \in Nat /\ out + 1 \in Nat /\ e =< MemSize
  BY <1>1
<1> HIDE DEF e
<1>6. T \subseteq Int
  <2> HIDE DEF T
  <2>1. QED
    BY <1>1, <1>4, <1>5
<1>7. ASSUME NEW x \in T, \A y \in T : y <= x PROVE g = x
  <2> HIDE DEF T
  <2>1. QED
    BY <1>6, <1>7, GreatestIs
<1>8. /\ g \in T /\ \A y \in T : y <= g
      /\ in < e /\ out < e => g = e
  <2> HIDE DEF T, g
  <2>1. CASE in < e /\ out < e
    <3>1. e \in T /\ \A y \in T : y <= e
      BY <1>1, <1>4, <1>5, <2>1
    <3>2. g = e
      BY <1>7, <3>1
    <3>3. QED
      BY <3>1, <3>2
  <2>2. CASE in >= e /\ in >= out
    <3>1. in + 1 \in T /\ \A y \in T : y <= in + 1
      BY <1>1, <1>4, <1>5, <2>2
    <3>2. g = in + 1
      BY <1>7, <3>1
    <3>3. ~(in < e)
      BY <1>1, <1>5, <2>2
    <3>4. QED
      BY <3>1, <3>2, <3>3
  <2>3. CASE out >= e /\ out >= in
    <3>1. out + 1 \in T /\ \A y \in T : y <= out + 1
      BY <1>1, <1>4, <1>5, <2>3
    <3>2. g = out + 1
      BY <1>7, <3>1
    <3>3. ~(out < e)
      BY <1>1, <1>5, <2>3
    <3>4. QED
      BY <3>1, <3>2, <3>3
  <2>4. (in < e /\ out < e) \/ (in >= e /\ in >= out) \/ (out >= e /\ out >= in)
    BY <1>1, <1>5
  <2>5. QED
    BY <2>1, <2>2, <2>3, <2>4
<1>9. g \in Nat /\ g # 0 /\ g =< MemSize /\ s <= g
  <2> HIDE DEF T, g
  <2>1. s \in T /\ g \in {s, e, in + 1, out + 1}
    BY <1>4, <1>8
  <2>2. s <= g /\ g \in Nat
    BY <1>1, <1>5, <1>8, <2>1
  <2>3. g =< MemSize
    BY <1>1, <1>5, <2>1
  <2>4. QED
    BY <1>1, <2>2, <2>3
<1>10. last \in Address
  <2> HIDE DEF g
  <2>1. QED
    BY <1>1, <1>3, <1>9 DEF Address
<1>11. \A b : b \in Covering(chips, last) <=>
            \/ b = 0 /\ last < s
            \/ b = s /\ last >= s /\ last < e
            \/ b = in /\ last = in
            \/ b = out /\ last = out
  BY <1>10, CoveringIs DEF s, e, n, in, out
<1>12. Covering(chips, last) # {}
  <2> HIDE DEF T, g
  <2>1. last \in Int /\ last = g - 1 /\ g \in {s, e, in + 1, out + 1}
    BY <1>3, <1>4, <1>8, <1>9
  <2>2. CASE g = in + 1 \/ g = out + 1
    <3>1. last = in \/ last = out
      BY <1>1, <2>1, <2>2
    <3>2. QED
      BY <1>11, <3>1
  <2>3. CASE g = s
    <3>1. last < s
      BY <1>1, <2>1, <2>3
    <3>2. QED
      BY <1>11, <3>1
  <2>4. CASE g = e
    <3>1. last < s \/ (last >= s /\ last < e)
      BY <1>1, <1>5, <2>1, <2>4
    <3>2. QED
      BY <1>11, <3>1
  <2>5. QED
    BY <2>1, <2>2, <2>3, <2>4
<1>13. KindAt(layout, last) # "NIL"
  BY <1>10, <1>12, Covered
<1>14. ASSUME NEW a \in Address, KindAt(layout, a) # "NIL" PROVE a <= last
  <2>1. PICK b : b \in Covering(chips, a)
    BY <1>14, Covered
  <2>2. b \in DOMAIN chips /\ a < b + chips[b].size
    BY <2>1 DEF Covering
  <2>3. b + chips[b].size \in T
    BY <2>2
  <2>4. b + chips[b].size <= g /\ b + chips[b].size \in Int
    <3> HIDE DEF T, g
    <3>1. QED
      BY <1>6, <1>8, <2>3
  <2>5. a \in Int
    BY MemSizeType DEF Address
  <2> HIDE DEF g
  <2>6. QED
    BY <1>3, <1>9, <2>2, <2>4, <2>5
<1>15. in < e /\ out < e => last = e - 1
  <2> HIDE DEF g
  <2>1. QED
    BY <1>3, <1>8
<1>16. QED
  BY <1>10, <1>13, <1>14, <1>15 DEF EndsWithCode, last, e, s, n, in, out

-----------------------------------------------------------------------------
(* Bytes.                                                                  *)

\* Chips that differ in their cells only.
Alike(new, old) ==
    /\ DOMAIN new = DOMAIN old
    /\ \A b \in DOMAIN old :
        /\ IsChip(new[b]) /\ new[b].type = old[b].type /\ new[b].base = old[b].base
        /\ new[b].size = old[b].size /\ new[b].links = old[b].links

LEMMA ShapeKept ==
  ASSUME NEW layout, NEW old, Shaped(old, layout), NEW new, Alike(new, old)
  PROVE  Shaped(new, layout)
<1>1. /\ DOMAIN old = {0, layout.start, layout.in, layout.out} /\ DOMAIN new = DOMAIN old
  BY DEF Shaped, Alike
<1>2. ASSUME NEW b \in DOMAIN old, NEW type, NEW base, NEW size, Chip(old[b], type, base, size)
      PROVE  Chip(new[b], type, base, size) /\ new[b].links = old[b].links
  BY <1>2 DEF Alike, Chip
<1>3. QED
  BY <1>1, <1>2 DEF Shaped

LEMMA CellIs ==
  ASSUME NEW layout, Placeable(layout), NEW chips, Shaped(chips, layout), NEW a \in Address
  PROVE  /\ KindAt(layout, a) # "NIL" =>
                CellAt(chips, a) = chips[Home(layout, a)].cells[a - Home(layout, a)]
         /\ KindAt(layout, a) = "NIL" => CellAt(chips, a) = 0
         /\ CellAt(chips, a) \in Byte
<1> DEFINE h == Home(layout, a)
           chip == ChipAt(chips, a)
<1>1. CellAt(chips, a) = IF chip.type = "NIL" THEN 0 ELSE chip.cells[a - chip.base]
  BY DEF CellAt
<1>2. chip.type = KindAt(layout, a)
  BY Answered
<1>3. CASE KindAt(layout, a) = "NIL"
  <2>1. CellAt(chips, a) = 0
    BY <1>1, <1>2, <1>3
  <2>2. QED
    BY <1>3, <2>1, ByteBaseType
<1>4. CASE KindAt(layout, a) # "NIL"
  <2>1. Answers(chips, layout, a)
    BY <1>4, Answered
  <2>2. chip = chips[h] /\ IsChip(chips[h]) /\ chips[h].base = h /\ a - h \in 0..chips[h].size - 1
    BY <2>1 DEF Answers
  <2> HIDE DEF chip, h
  <2>3. CellAt(chips, a) = chips[h].cells[a - h]
    BY <1>1, <1>2, <1>4, <2>2
  <2>4. chips[h].cells[a - h] \in Byte
    BY <2>2 DEF IsChip
  <2>5. QED
    BY <1>4, <2>3, <2>4 DEF h
<1>5. QED
  BY <1>3, <1>4

LEMMA SetCellIs ==
  ASSUME NEW layout, Placeable(layout), NEW chips, Shaped(chips, layout),
         NEW a \in Address, NEW v \in Byte
  PROVE  LET new == SetCell(chips, a, v)
         IN  /\ Shaped(new, layout)
             /\ \A x \in Address :
                    CellAt(new, x) = IF x = a /\ KindAt(layout, a) # "NIL" THEN v
                                     ELSE CellAt(chips, x)
<1> DEFINE h == Home(layout, a)
           chip == ChipAt(chips, a)
           new == SetCell(chips, a, v)
<1>1. new = IF chip.type = "NIL" THEN chips
            ELSE [chips EXCEPT ![chip.base].cells[a - chip.base] = v]
  BY DEF SetCell
<1>2. chip.type = KindAt(layout, a)
  BY Answered
<1>3. CASE KindAt(layout, a) = "NIL"
  <2>1. new = chips
    BY <1>1, <1>2, <1>3
  <2> HIDE DEF new
  <2>2. QED
    BY <1>3, <2>1 DEF new
<1>4. CASE KindAt(layout, a) # "NIL"
  <2>1. Answers(chips, layout, a)
    BY <1>4, Answered
  <2>2. /\ chip = chips[h] /\ IsChip(chips[h]) /\ chips[h].base = h
        /\ a - h \in 0..chips[h].size - 1 /\ h \in DOMAIN chips /\ h \in Int
    BY <2>1 DEF Answers
  <2> HIDE DEF chip, h, new
  <2>3. new = [chips EXCEPT ![h].cells[a - h] = v]
    BY <1>1, <1>2, <1>4, <2>2
  <2> DEFINE put == [chips[h] EXCEPT !.cells[a - h] = v]
  <2>4. new = [chips EXCEPT ![h] = put]
    BY <2>3
  <2>5. /\ IsChip(put) /\ put.type = chips[h].type /\ put.base = chips[h].base
        /\ put.size = chips[h].size /\ put.links = chips[h].links
    BY <2>2 DEF IsChip
  <2>6. /\ put.cells[a - h] = v
        /\ \A i \in 0..chips[h].size - 1 : i # a - h => put.cells[i] = chips[h].cells[i]
    BY <2>2 DEF IsChip
  <2> HIDE DEF put
  <2>7. DOMAIN new = DOMAIN chips /\ new[h] = put /\ \A b \in DOMAIN chips : b # h => new[b] = chips[b]
    BY <2>2, <2>4
  <2>8. Alike(new, chips)
    <3>1. ASSUME NEW b \in DOMAIN chips
          PROVE  /\ IsChip(new[b]) /\ new[b].type = chips[b].type /\ new[b].base = chips[b].base
                 /\ new[b].size = chips[b].size /\ new[b].links = chips[b].links
      <4>1. IsChip(chips[b])
        BY ShapedIsReusable DEF Reusable
      <4>2. QED
        BY <2>5, <2>7, <4>1
    <3>2. QED
      BY <2>7, <3>1 DEF Alike
  <2>9. Shaped(new, layout)
    BY <2>8, ShapeKept
  <2>10. ASSUME NEW x \in Address PROVE CellAt(new, x) = IF x = a THEN v ELSE CellAt(chips, x)
    <3> DEFINE g == Home(layout, x)
    <3>1. CASE KindAt(layout, x) = "NIL"
      <4>1. CellAt(new, x) = 0 /\ CellAt(chips, x) = 0 /\ x # a
        BY <1>4, <2>9, <3>1, CellIs
      <4>2. QED
        BY <4>1
    <3>2. CASE KindAt(layout, x) # "NIL"
      <4>1. CellAt(new, x) = new[g].cells[x - g] /\ CellAt(chips, x) = chips[g].cells[x - g]
        BY <2>9, <3>2, CellIs
      <4>2. Answers(chips, layout, x)
        BY <3>2, Answered
      <4>3. g \in DOMAIN chips /\ g \in Int /\ x - g \in 0..chips[g].size - 1
        BY <4>2 DEF Answers
      <4>4. CASE x = a
        <5>1. g = h
          BY <4>4 DEF h
        <5> HIDE DEF g
        <5>2. QED
          BY <2>6, <2>7, <4>1, <4>4, <5>1
      <4>5. CASE x # a
        <5>1. x \in Int /\ a \in Int
          BY MemSizeType DEF Address
        <5> HIDE DEF g
        <5>2. CASE g = h
          <6>1. x - g # a - h /\ x - g \in 0..chips[h].size - 1
            BY <2>2, <4>3, <4>5, <5>1, <5>2
          <6>2. put.cells[x - g] = chips[h].cells[x - g]
            BY <2>6, <6>1
          <6>3. QED
            BY <2>7, <4>1, <4>5, <5>2, <6>2
        <5>3. CASE g # h
          BY <2>7, <4>1, <4>3, <4>5, <5>3
        <5>4. QED
          BY <5>2, <5>3
      <4>6. QED
        BY <4>4, <4>5
    <3>3. QED
      BY <3>1, <3>2
  <2>11. QED
    BY <1>4, <2>9, <2>10 DEF new
<1>5. QED
  BY <1>3, <1>4

\* Chips given new cells keep their shape.
Refilling(new, old) ==
    /\ DOMAIN new = DOMAIN old
    /\ \A b \in DOMAIN old : \E cells \in [0..old[b].size - 1 -> Byte] :
        new[b] = [old[b] EXCEPT !.cells = cells]

LEMMA Refilled ==
  ASSUME NEW layout, NEW old, Shaped(old, layout), NEW new, Refilling(new, old)
  PROVE  Shaped(new, layout)
<1>1. ASSUME NEW b \in DOMAIN old
      PROVE  /\ IsChip(new[b]) /\ new[b].type = old[b].type /\ new[b].base = old[b].base
             /\ new[b].size = old[b].size /\ new[b].links = old[b].links
  <2>1. PICK cells \in [0..old[b].size - 1 -> Byte] : new[b] = [old[b] EXCEPT !.cells = cells]
    BY DEF Refilling
  <2>2. IsChip(old[b])
    BY ShapedIsReusable DEF Reusable
  <2>3. QED
    BY <2>1, <2>2 DEF IsChip
<1>2. Alike(new, old)
  BY <1>1 DEF Alike, Refilling
<1>3. QED
  BY <1>2, ShapeKept

LEMMA ClearIs ==
  ASSUME NEW layout, Placeable(layout), NEW m, Shaped(m.chips, layout)
  PROVE  LET new == ClearMemory(m)
         IN  /\ Shaped(new.chips, layout) /\ new.error = FALSE
             /\ \A x \in Address : CellAt(new.chips, x) = 0
<1> DEFINE new == ClearMemory(m)
           old == m.chips
           blank(b) == [i \in DOMAIN old[b].cells |-> 0]
<1>1. /\ new.chips = [b \in DOMAIN old |-> [old[b] EXCEPT !.cells = blank(b)]]
      /\ new.error = FALSE
  BY DEF ClearMemory
<1> HIDE DEF new, old
<1>2. DOMAIN new.chips = DOMAIN old
      /\ \A b \in DOMAIN old : new.chips[b] = [old[b] EXCEPT !.cells = blank(b)]
  BY <1>1
<1>3. ASSUME NEW b \in DOMAIN old
      PROVE  /\ blank(b) \in [0..old[b].size - 1 -> Byte]
             /\ \A i \in 0..old[b].size - 1 : new.chips[b].cells[i] = 0
  <2>1. IsChip(old[b])
    BY ShapedIsReusable DEF Reusable, old
  <2>2. DOMAIN old[b].cells = 0..old[b].size - 1
    BY <2>1 DEF IsChip
  <2>3. blank(b) \in [0..old[b].size - 1 -> Byte] /\ \A i \in 0..old[b].size - 1 : blank(b)[i] = 0
    BY <2>2, ByteBaseType
  <2>4. new.chips[b].cells = blank(b)
    <3>1. new.chips[b] = [old[b] EXCEPT !.cells = blank(b)]
      BY <1>2
    <3> HIDE DEF blank
    <3>2. QED
      BY <2>1, <3>1 DEF IsChip
  <2> HIDE DEF blank
  <2>5. QED
    BY <2>3, <2>4
<1> HIDE DEF blank
<1>4. Shaped(new.chips, layout)
  <2>1. Shaped(old, layout)
    BY DEF old
  <2>2. Refilling(new.chips, old)
    BY <1>2, <1>3 DEF Refilling
  <2>3. QED
    BY <2>1, <2>2, Refilled
<1>5. ASSUME NEW x \in Address PROVE CellAt(new.chips, x) = 0
  <2>1. CASE KindAt(layout, x) = "NIL"
    BY <1>4, <2>1, CellIs
  <2>2. CASE KindAt(layout, x) # "NIL"
    <3> DEFINE g == Home(layout, x)
    <3>1. CellAt(new.chips, x) = new.chips[g].cells[x - g]
      BY <1>4, <2>2, CellIs
    <3>2. Answers(old, layout, x)
      BY <2>2, Answered DEF old
    <3>3. g \in DOMAIN old /\ x - g \in 0..old[g].size - 1
      BY <3>2 DEF Answers
    <3> HIDE DEF g
    <3>4. QED
      BY <1>3, <3>1, <3>3
  <2>3. QED
    BY <2>1, <2>2
<1>6. QED
  BY <1>1, <1>4, <1>5 DEF new

\* What setByte stores of some values: those that meet a chip.
LEMMA LoadIs ==
  ASSUME NEW layout, Placeable(layout), NEW m, Shaped(m.chips, layout),
         NEW start \in Nat, NEW values \in Seq(Byte)
  PROVE  LET new == LoadValues(m, start, values)
         IN  /\ Shaped(new.chips, layout)
             /\ \A x \in Address :
                    CellAt(new.chips, x) =
                        IF KindAt(layout, x) # "NIL" /\ x \in start..start + Len(values) - 1
                        THEN values[x - start + 1] ELSE CellAt(m.chips, x)
             /\ new.error \in BOOLEAN
             /\ new.error <=> \/ m.error
                              \/ \E x \in Address :
                                    /\ x \in start..start + Len(values) - 1
                                    /\ x <= MaxAddress(m.chips) /\ KindAt(layout, x) = "NIL"
<1> DEFINE old == m.chips
           loaded == LoadedAddresses(old, start, values)
           target(b, i) == {x \in loaded : x = b + i /\ ChipAt(old, x).base = b}
           filled(b) == [i \in DOMAIN old[b].cells |->
                            IF target(b, i) # {} THEN values[b + i - start + 1] ELSE old[b].cells[i]]
           new == LoadValues(m, start, values)
           n == Len(values)
<1>1. /\ new.chips = [b \in DOMAIN old |-> [old[b] EXCEPT !.cells = filled(b)]]
      /\ new.error = (m.error \/ \E x \in loaded : ChipAt(old, x).type = "NIL")
  BY DEF LoadValues
<1>2. n \in Nat /\ \A k \in 1..n : values[k] \in Byte
  OBVIOUS
<1>3. \A x : x \in loaded <=> x \in start..start + n - 1 /\ x <= MaxAddress(old)
  BY DEF LoadedAddresses
<1>4. /\ MaxAddress(old) \in Address
      /\ \A x \in Address : KindAt(layout, x) # "NIL" => x <= MaxAddress(old)
  BY LastIs
<1>5. loaded \subseteq Address
  <2>1. MaxAddress(old) \in Int /\ MaxAddress(old) <= MemSize - 1 /\ MemSize \in Int
    BY <1>4, MemSizeType DEF Address
  <2>2. ASSUME NEW x \in loaded PROVE x \in Address
    <3>1. x \in start..start + n - 1 /\ x <= MaxAddress(old)
      BY <1>3
    <3> HIDE DEF n, loaded, old
    <3>2. x \in Nat
      BY <1>2, <3>1
    <3>3. QED
      BY <2>1, <3>1, <3>2 DEF Address
  <2>3. QED
    BY <2>2
<1>6. \A b, i : target(b, i) # {} <=> b + i \in loaded /\ ChipAt(old, b + i).base = b
  <2> HIDE DEF loaded, old
  <2>1. QED
    OBVIOUS
<1> HIDE DEF new, old, loaded, n, target
<1>7. Shaped(old, layout) /\ Reusable(old)
  <2>1. Shaped(old, layout)
    BY DEF old
  <2>2. QED
    BY <2>1, ShapedIsReusable
<1>8. DOMAIN new.chips = DOMAIN old
      /\ \A b \in DOMAIN old : new.chips[b] = [old[b] EXCEPT !.cells = filled(b)]
  BY <1>1
<1>9. ASSUME NEW b \in DOMAIN old
      PROVE  /\ filled(b) \in [0..old[b].size - 1 -> Byte]
             /\ \A i \in 0..old[b].size - 1 :
                    new.chips[b].cells[i] = IF target(b, i) # {} THEN values[b + i - start + 1]
                                            ELSE old[b].cells[i]
  <2>1. IsChip(old[b]) /\ b \in Nat
    <3>1. IsChip(old[b]) /\ old[b].base = b
      BY <1>7 DEF Reusable
    <3>2. b \in Address
      BY <3>1, AddressIs DEF IsChip
    <3>3. QED
      BY <3>1, <3>2, MemSizeType DEF Address
  <2>2. DOMAIN old[b].cells = 0..old[b].size - 1 /\ \A i \in 0..old[b].size - 1 : old[b].cells[i] \in Byte
    BY <2>1 DEF IsChip
  <2>3. ASSUME NEW i \in 0..old[b].size - 1
        PROVE  (IF target(b, i) # {} THEN values[b + i - start + 1] ELSE old[b].cells[i]) \in Byte
    <3>1. CASE target(b, i) # {}
      <4>1. b + i \in start..start + n - 1
        BY <1>3, <1>6, <3>1
      <4>2. old[b].size \in Int
        BY <2>1, AddressIs, MemSizeType DEF IsChip, MemSize
      <4>3. b + i - start + 1 \in 1..n
        BY <1>2, <2>1, <4>1, <4>2
      <4>4. QED
        BY <1>2, <3>1, <4>3
    <3>2. CASE target(b, i) = {}
      BY <2>2, <3>2
    <3>3. QED
      BY <3>1, <3>2
  <2>4. filled(b) \in [0..old[b].size - 1 -> Byte]
        /\ \A i \in 0..old[b].size - 1 :
              filled(b)[i] = IF target(b, i) # {} THEN values[b + i - start + 1] ELSE old[b].cells[i]
    BY <2>2, <2>3
  <2>5. new.chips[b].cells = filled(b)
    <3>1. new.chips[b] = [old[b] EXCEPT !.cells = filled(b)]
      BY <1>8
    <3> HIDE DEF filled
    <3>2. QED
      BY <2>1, <3>1 DEF IsChip
  <2> HIDE DEF filled
  <2>6. QED
    BY <2>4, <2>5
<1> HIDE DEF filled
<1>10. Shaped(new.chips, layout)
  <2>1. Refilling(new.chips, old)
    BY <1>8, <1>9 DEF Refilling
  <2>2. QED
    BY <1>7, <2>1, Refilled
<1>11. ASSUME NEW x \in Address
       PROVE  CellAt(new.chips, x) =
                IF KindAt(layout, x) # "NIL" /\ x \in start..start + n - 1
                THEN values[x - start + 1] ELSE CellAt(old, x)
  <2>1. CASE KindAt(layout, x) = "NIL"
    <3>1. CellAt(new.chips, x) = 0 /\ CellAt(old, x) = 0
      BY <1>7, <1>10, <2>1, CellIs
    <3>2. QED
      BY <2>1, <3>1
  <2>2. CASE KindAt(layout, x) # "NIL"
    <3> DEFINE g == Home(layout, x)
    <3>1. CellAt(new.chips, x) = new.chips[g].cells[x - g] /\ CellAt(old, x) = old[g].cells[x - g]
      BY <1>7, <1>10, <2>2, CellIs
    <3>2. Answers(old, layout, x)
      BY <1>7, <2>2, Answered
    <3>3. /\ g \in DOMAIN old /\ g \in Int /\ x - g \in 0..old[g].size - 1
          /\ ChipAt(old, x).base = g
      BY <3>2 DEF Answers
    <3> HIDE DEF g
    <3>4. x \in Int /\ g + (x - g) = x
      BY <3>3, MemSizeType DEF Address
    <3>5. target(g, x - g) # {} <=> x \in start..start + n - 1
      <4>1. target(g, x - g) # {} <=> g + (x - g) \in loaded /\ ChipAt(old, g + (x - g)).base = g
        BY <1>6
      <4>2. target(g, x - g) # {} <=> x \in loaded
        BY <3>3, <3>4, <4>1
      <4>3. x <= MaxAddress(old)
        BY <1>4, <2>2
      <4>4. QED
        BY <1>3, <4>2, <4>3
    <3>6. new.chips[g].cells[x - g] = IF target(g, x - g) # {} THEN values[g + (x - g) - start + 1]
                                      ELSE old[g].cells[x - g]
      BY <1>9, <3>3
    <3>7. values[g + (x - g) - start + 1] = values[x - start + 1]
      <4>1. g + (x - g) - start + 1 = x - start + 1
        BY <3>3, <3>4
      <4>2. QED
        BY <4>1
    <3>8. QED
      BY <2>2, <3>1, <3>5, <3>6, <3>7
  <2>3. QED
    BY <2>1, <2>2
<1>12. new.error <=> \/ m.error
                     \/ \E x \in Address : /\ x \in start..start + n - 1
                                           /\ x <= MaxAddress(old) /\ KindAt(layout, x) = "NIL"
  <2>1. (\E x \in loaded : ChipAt(old, x).type = "NIL")
          <=> \E x \in Address : /\ x \in start..start + n - 1
                                 /\ x <= MaxAddress(old) /\ KindAt(layout, x) = "NIL"
    <3>1. \A x \in Address : ChipAt(old, x).type = KindAt(layout, x)
      BY <1>7, Answered
    <3>2. QED
      BY <1>3, <1>5, <3>1
  <2>2. QED
    BY <1>1, <2>1
<1>13. new.error \in BOOLEAN
  BY <1>1
<1>14. QED
  BY <1>10, <1>11, <1>12, <1>13 DEF new, old, n

-----------------------------------------------------------------------------
(* What memory shows.                                                      *)

KindsIn(chips) == [a \in Address |-> ChipAt(chips, a).type]
CellsIn(chips) == [a \in Address |-> CellAt(chips, a)]
Fresh(layout) == Space!With(Space!Blank, layout.start, layout.code)

LEMMA KindsAre ==
  ASSUME NEW layout, Placeable(layout), NEW chips, Shaped(chips, layout)
  PROVE  KindsIn(chips) = Space!KindsOf(layout)
<1>1. \A a \in Address : ChipAt(chips, a).type = Space!KindIn(layout, a)
  BY Answered DEF KindAt
<1>2. QED
  BY <1>1 DEF KindsIn, Space!KindsOf

\* The cells of a memory that was just built and loaded.
LEMMA FreshIs ==
  ASSUME NEW layout, Placeable(layout), NEW a \in Address
  PROVE  Fresh(layout)[a] = IF a \in layout.start..layout.start + Len(layout.code) - 1
                            THEN layout.code[a - layout.start + 1] ELSE 0
BY DEF Fresh, Space!With, Space!Blank

LEMMA LoadedIs ==
  ASSUME NEW chips, Reusable(chips), NEW source \in Installable
  PROVE  LET l == LayoutOf(source)
             m == Loaded(chips, source)
         IN  /\ Shaped(m.chips, l) /\ m.error = FALSE
             /\ KindsIn(m.chips) = Space!KindsOf(l) /\ CellsIn(m.chips) = Fresh(l)
<1> DEFINE l == LayoutOf(source)
           built == ConstructMemoryDevice(chips, SpecsOf(l))
           cleared == ClearMemory([chips |-> built, error |-> FALSE])
           m == Loaded(chips, source)
           n == Len(l.code)
<1>1. Placeable(l)
  BY LayoutIsPlaceable
<1>2. Specs(source) = SpecsOf(l) /\ Built[source].burnAddress = l.start /\ CodeOf[source] = l.code
  BY DEF Specs, SpecsOf, LayoutOf
<1>3. m = LoadValues(cleared, l.start, l.code)
  BY <1>2 DEF Loaded
<1> HIDE DEF l, m
<1>4. Shaped(built, l)
  BY <1>1, Constructed
<1>5. /\ Shaped(cleared.chips, l) /\ cleared.error = FALSE
      /\ \A x \in Address : CellAt(cleared.chips, x) = 0
  <2> DEFINE before == [chips |-> built, error |-> FALSE]
  <2>1. before.chips = built
    OBVIOUS
  <2> HIDE DEF before, built
  <2>2. Shaped(before.chips, l)
    BY <1>4, <2>1
  <2>3. QED
    BY <1>1, <2>2, ClearIs DEF before
<1> HIDE DEF built, cleared
<1>6. l.start \in Nat /\ l.code \in Seq(Byte) /\ n \in Nat /\ l.start + n =< MemSize
  BY <1>1, LayoutNumbers DEF Placeable
<1>7. /\ Shaped(m.chips, l)
      /\ \A x \in Address :
            CellAt(m.chips, x) =
                IF KindAt(l, x) # "NIL" /\ x \in l.start..l.start + n - 1
                THEN l.code[x - l.start + 1] ELSE CellAt(cleared.chips, x)
      /\ m.error \in BOOLEAN
      /\ m.error <=> \/ cleared.error
                     \/ \E x \in Address :
                            /\ x \in l.start..l.start + n - 1
                            /\ x <= MaxAddress(cleared.chips) /\ KindAt(l, x) = "NIL"
  <2> DEFINE s == l.start
             code == l.code
  <2>1. s \in Nat /\ code \in Seq(Byte) /\ m = LoadValues(cleared, s, code)
    BY <1>3, <1>6
  <2> HIDE DEF s, code
  <2>2. /\ Shaped(m.chips, l)
        /\ \A x \in Address :
              CellAt(m.chips, x) =
                  IF KindAt(l, x) # "NIL" /\ x \in s..s + Len(code) - 1
                  THEN code[x - s + 1] ELSE CellAt(cleared.chips, x)
        /\ m.error \in BOOLEAN
        /\ m.error <=> \/ cleared.error
                       \/ \E x \in Address :
                              /\ x \in s..s + Len(code) - 1
                              /\ x <= MaxAddress(cleared.chips) /\ KindAt(l, x) = "NIL"
    BY <1>1, <1>5, <2>1, LoadIs
  <2>3. QED
    BY <2>2 DEF s, code
<1>8. ASSUME NEW x \in Address, x \in l.start..l.start + n - 1 PROVE KindAt(l, x) # "NIL"
  <2>1. x >= l.start /\ x < l.start + n
    BY <1>6, <1>8
  <2>2. x = l.in \/ x = l.out \/ x \notin {l.in, l.out}
    OBVIOUS
  <2>3. QED
    BY <1>1, <2>1, <2>2, KindIs DEF n
<1>9. m.error = FALSE
  BY <1>5, <1>7, <1>8
<1>10. CellsIn(m.chips) = Fresh(l)
  <2>1. \A x \in Address : CellAt(m.chips, x) = Fresh(l)[x]
    <3>1. ASSUME NEW x \in Address PROVE CellAt(m.chips, x) = Fresh(l)[x]
      <4>1. Fresh(l)[x] = IF x \in l.start..l.start + n - 1 THEN l.code[x - l.start + 1] ELSE 0
        BY <1>1, FreshIs DEF n
      <4>2. CellAt(cleared.chips, x) = 0
        BY <1>5
      <4>3. CASE x \in l.start..l.start + n - 1
        <5>1. KindAt(l, x) # "NIL"
          BY <1>8, <4>3
        <5>2. CellAt(m.chips, x) = l.code[x - l.start + 1]
          BY <1>7, <4>3, <5>1
        <5>3. QED
          BY <4>1, <4>3, <5>2
      <4>4. CASE x \notin l.start..l.start + n - 1
        <5>1. CellAt(m.chips, x) = 0
          BY <1>7, <4>2, <4>4
        <5>2. QED
          BY <4>1, <4>4, <5>1
      <4>5. QED
        BY <4>3, <4>4
    <3>2. QED
      BY <3>1
  <2>2. Fresh(l) = [x \in Address |-> Fresh(l)[x]]
    BY DEF Fresh, Space!With
  <2>3. QED
    BY <2>1, <2>2 DEF CellsIn
<1>11. KindsIn(m.chips) = Space!KindsOf(l)
  BY <1>1, <1>7, KindsAre
<1>12. QED
  BY <1>7, <1>9, <1>10, <1>11 DEF l, m

\* Object code that is loaded over it.
LEMMA OverlaidIs ==
  ASSUME NEW chips, Reusable(chips), NEW source \in Installable, NEW code \in Seq(Byte)
  PROVE  LET l == LayoutOf(source)
             m == LoadValues(Loaded(chips, source), 0, code)
         IN  /\ Shaped(m.chips, l) /\ m.error \in BOOLEAN
             /\ KindsIn(m.chips) = Space!KindsOf(l)
             /\ CellsIn(m.chips) = Space!Overlay(Space!KindsOf(l), Fresh(l), code)
             /\ m.error = Space!MeetsGap(Space!KindsOf(l), code)
<1> DEFINE l == LayoutOf(source)
           fresh == Loaded(chips, source)
           m == LoadValues(fresh, 0, code)
           n == Len(code)
           kinds == Space!KindsOf(l)
           last == MaxAddress(fresh.chips)
<1>1. Placeable(l)
  BY LayoutIsPlaceable
<1>2. Shaped(fresh.chips, l) /\ fresh.error = FALSE /\ CellsIn(fresh.chips) = Fresh(l)
  BY LoadedIs
<1>3. n \in Nat /\ 0 \in Nat
  OBVIOUS
<1> HIDE DEF l, fresh
<1>4. /\ Shaped(m.chips, l)
      /\ \A x \in Address :
            CellAt(m.chips, x) = IF KindAt(l, x) # "NIL" /\ x \in 0..0 + n - 1
                                 THEN code[x - 0 + 1] ELSE CellAt(fresh.chips, x)
      /\ m.error \in BOOLEAN
      /\ m.error <=> \/ fresh.error
                     \/ \E x \in Address :
                            /\ x \in 0..0 + n - 1
                            /\ x <= last /\ KindAt(l, x) = "NIL"
  BY <1>1, <1>2, <1>3, LoadIs
<1>5. /\ last \in Address /\ KindAt(l, last) # "NIL"
      /\ \A a \in Address : KindAt(l, a) # "NIL" => a <= last
  BY <1>1, <1>2, LastIs
<1>6. \A a \in Address : kinds[a] = KindAt(l, a)
  BY DEF Space!KindsOf, KindAt
<1> HIDE DEF m, kinds, last, n
<1>7. \A a \in Address : a \in Int /\ a >= 0
  BY MemSizeType DEF Address
<1>8. CellsIn(m.chips) = Space!Overlay(kinds, Fresh(l), code)
  <2>1. ASSUME NEW x \in Address
        PROVE  CellAt(m.chips, x) = IF kinds[x] # "NIL" /\ x < n THEN code[x + 1] ELSE Fresh(l)[x]
    <3>1. x \in Int /\ x >= 0
      BY <1>7
    <3>2. x \in 0..0 + n - 1 <=> x < n
      BY <1>3, <3>1
    <3>3. code[x - 0 + 1] = code[x + 1]
      <4>1. x - 0 + 1 = x + 1
        BY <3>1
      <4>2. QED
        BY <4>1
    <3>4. CellAt(fresh.chips, x) = Fresh(l)[x]
      BY <1>2 DEF CellsIn
    <3>5. kinds[x] = KindAt(l, x)
      BY <1>6
    <3>6. QED
      BY <1>4, <3>2, <3>3, <3>4, <3>5
  <2>2. QED
    BY <2>1 DEF CellsIn, Space!Overlay, n
<1>9. Space!MeetsGap(kinds, code) <=> m.error
  <2>1. Space!MeetsGap(kinds, code) <=>
            \E a \in 0..n - 1 : kinds[a] = "NIL" /\ \E b \in Address : a <= b /\ kinds[b] # "NIL"
    BY DEF Space!MeetsGap, Space!Reachable, n
  <2>2. ASSUME NEW a \in 0..n - 1, kinds[a] = "NIL", NEW b \in Address, a <= b, kinds[b] # "NIL"
        PROVE  m.error
    <3>1. b \in Int /\ b < MemSize /\ MemSize \in Int
      BY MemSizeType DEF Address
    <3>2. a \in Int /\ a >= 0
      BY <1>3
    <3>3. a \in Address
      BY <2>2, <3>1, <3>2 DEF Address
    <3>4. KindAt(l, a) = "NIL" /\ KindAt(l, b) # "NIL"
      BY <1>6, <2>2, <3>3
    <3>5. b <= last /\ last \in Int
      BY <1>5, <1>7, <3>4
    <3>6. a <= last
      BY <2>2, <3>1, <3>2, <3>5
    <3>7. a \in 0..0 + n - 1
      BY <1>3, <2>2
    <3>8. QED
      BY <1>4, <3>3, <3>4, <3>6, <3>7
  <2>3. ASSUME m.error
        PROVE  \E a \in 0..n - 1 : kinds[a] = "NIL" /\ \E b \in Address : a <= b /\ kinds[b] # "NIL"
    <3>1. PICK a \in Address : a \in 0..0 + n - 1 /\ a <= last /\ KindAt(l, a) = "NIL"
      BY <1>2, <1>4, <2>3
    <3>2. a \in 0..n - 1
      BY <1>3, <3>1
    <3>3. QED
      BY <1>5, <1>6, <3>1, <3>2
  <2>4. QED
    BY <2>1, <2>2, <2>3
<1>10. Space!MeetsGap(kinds, code) \in BOOLEAN
  BY DEF Space!MeetsGap
<1>11. m.error = Space!MeetsGap(kinds, code)
  BY <1>4, <1>9, <1>10
<1>12. KindsIn(m.chips) = kinds
  BY <1>1, <1>4, KindsAre DEF kinds
<1>13. QED
  BY <1>4, <1>8, <1>11, <1>12 DEF l, m, kinds, fresh

\* Where the kinds are.
LEMMA KindMeans ==
  ASSUME NEW layout, Placeable(layout), NEW a \in Address
  PROVE  /\ KindAt(layout, a) = "ODEV" <=> a = layout.out
         /\ KindAt(layout, a) = "IDEV" <=> a = layout.in
         /\ KindAt(layout, a) = "ROM" <=>
                /\ a \notin {layout.in, layout.out}
                /\ a >= layout.start /\ a < layout.start + Len(layout.code)
<1> DEFINE s == layout.start
           e == layout.start + Len(layout.code)
           in == layout.in
           out == layout.out
           k == KindAt(layout, a)
<1>1. s \in Int /\ e \in Int /\ a \in Int /\ in # out
  BY LayoutNumbers, MemSizeType DEF Address
<1>2. /\ a = in => k = "IDEV"
      /\ a = out => k = "ODEV"
      /\ a \notin {in, out} =>
            /\ a < s => k = "RAM"
            /\ a >= s /\ a < e => k = "ROM"
            /\ a >= e => k = "NIL"
  BY KindIs
<1> HIDE DEF s, e, in, out, k
<1>3. a < s \/ (a >= s /\ a < e) \/ a >= e
  BY <1>1
<1>4. a < s => ~(a >= s)
  BY <1>1
<1>5. a >= e => ~(a < e)
  BY <1>1
<1>6. /\ k = "ODEV" <=> a = out
      /\ k = "IDEV" <=> a = in
      /\ k = "ROM" <=> a \notin {in, out} /\ a >= s /\ a < e
  <2>1. CASE a \in {in, out}
    BY <1>1, <1>2, <2>1
  <2>2. CASE a \notin {in, out}
    BY <1>2, <1>3, <1>4, <1>5, <2>2
  <2>3. QED
    BY <2>1, <2>2
<1>7. QED
  BY <1>6 DEF s, e, in, out, k

LEMMA WriteIs ==
  ASSUME NEW layout, Placeable(layout), NEW m, Shaped(m.chips, layout), m.error \in BOOLEAN,
         NEW a \in Address, NEW v \in Byte
  PROVE  LET new == WriteByte(m, a, v)
             k == KindAt(layout, a)
         IN  /\ Shaped(new.chips, layout)
             /\ new.error \in BOOLEAN /\ new.error = (m.error \/ k = "NIL")
             /\ \A x \in Address :
                    CellAt(new.chips, x) = IF x = a /\ k \notin {"ROM", "NIL"} THEN v
                                           ELSE CellAt(m.chips, x)
             /\ OutputWritten(m.chips, a, v) = IF k = "ODEV" THEN <<v>> ELSE <<>>
<1> DEFINE new == WriteByte(m, a, v)
           k == KindAt(layout, a)
           chip == ChipAt(m.chips, a)
           put == SetCell(m.chips, a, v)
<1>1. chip.type = k
  BY Answered
<1>2. new.chips = (IF k = "ROM" THEN m.chips ELSE put) /\ new.error = (m.error \/ k = "NIL")
  BY <1>1 DEF WriteByte
<1>3. /\ Shaped(put, layout)
      /\ \A x \in Address : CellAt(put, x) = IF x = a /\ k # "NIL" THEN v ELSE CellAt(m.chips, x)
  BY SetCellIs
<1>4. OutputWritten(m.chips, a, v) = IF k = "ODEV" THEN [i \in 1..chip.links |-> v] ELSE <<>>
  BY <1>1 DEF OutputWritten
<1>5. ASSUME k = "ODEV" PROVE chip.links = 1
  <2>1. a = layout.out
    BY <1>5, KindMeans
  <2>2. Answers(m.chips, layout, a)
    BY <1>5, Answered
  <2>3. chip = m.chips[layout.out]
    BY <2>1, <2>2 DEF Answers, Home
  <2>4. QED
    BY <2>3 DEF Shaped
<1> HIDE DEF new, k, chip, put
<1>6. OutputWritten(m.chips, a, v) = IF k = "ODEV" THEN <<v>> ELSE <<>>
  <2>1. [i \in 1..1 |-> v] = <<v>>
    OBVIOUS
  <2>2. QED
    BY <1>4, <1>5, <2>1
<1>7. new.error \in BOOLEAN
  BY <1>2
<1>8. CASE k = "ROM"
  <2>1. new.chips = m.chips
    BY <1>2, <1>8
  <2>2. QED
    BY <1>2, <1>6, <1>7, <1>8, <2>1 DEF new, k
<1>9. CASE k # "ROM"
  <2>1. new.chips = put
    BY <1>2, <1>9
  <2>2. QED
    BY <1>2, <1>3, <1>6, <1>7, <1>9, <2>1 DEF new, k
<1>10. QED
  BY <1>8, <1>9

LEMMA ReadIs ==
  ASSUME NEW layout, Placeable(layout), NEW m, Shaped(m.chips, layout), m.error \in BOOLEAN,
         NEW a \in Address, NEW typed \in Byte
  PROVE  LET read == ReadByte(m, a, typed)
             k == KindAt(layout, a)
         IN  /\ Shaped(read.memory.chips, layout)
             /\ read.memory.error \in BOOLEAN /\ read.memory.error = (m.error \/ k = "NIL")
             /\ \A x \in Address :
                    CellAt(read.memory.chips, x) = IF x = a /\ k = "IDEV" THEN typed
                                                   ELSE CellAt(m.chips, x)
             /\ read.value = IF k = "IDEV" THEN typed ELSE CellAt(m.chips, a)
             /\ read.value \in Byte
<1> DEFINE read == ReadByte(m, a, typed)
           k == KindAt(layout, a)
           chip == ChipAt(m.chips, a)
           put == SetCell(m.chips, a, typed)
           chips == IF k = "IDEV" THEN put ELSE m.chips
<1>1. chip.type = k
  BY Answered
<1>2. /\ read.memory.chips = chips /\ read.memory.error = (m.error \/ k = "NIL")
      /\ read.value = CellAt(chips, a)
  BY <1>1 DEF ReadByte
<1>3. /\ Shaped(put, layout)
      /\ \A x \in Address : CellAt(put, x) = IF x = a /\ k # "NIL" THEN typed ELSE CellAt(m.chips, x)
  BY SetCellIs
<1>4. CellAt(m.chips, a) \in Byte
  BY CellIs
<1> HIDE DEF read, k, chip, put
<1>5. read.memory.error \in BOOLEAN
  BY <1>2
<1>6. CASE k = "IDEV"
  <2>1. chips = put
    BY <1>6
  <2> HIDE DEF chips
  <2>2. read.value = typed
    BY <1>2, <1>3, <1>6, <2>1
  <2>3. QED
    BY <1>2, <1>3, <1>5, <1>6, <2>1, <2>2 DEF read, k
<1>7. CASE k # "IDEV"
  <2>1. chips = m.chips
    BY <1>7
  <2> HIDE DEF chips
  <2>2. QED
    BY <1>2, <1>4, <1>5, <1>7, <2>1 DEF read, k
<1>8. QED
  BY <1>6, <1>7

-----------------------------------------------------------------------------
(* The behaviours of the installation.                                     *)

\* The read-only bytes are those of the operating system.
Intact(chips, layout) ==
    \A a \in Address : KindAt(layout, a) = "ROM" => CellAt(chips, a) = Fresh(layout)[a]

InstallInv ==
    /\ os \in Installable
    /\ Shaped(memory.chips, LayoutOf(os)) /\ memory.error \in BOOLEAN
    /\ ports = PortsOf(os)
    /\ pane \in ObjectCodes
    /\ pristine \in BOOLEAN /\ emitted \in Seq(Byte) /\ bus \in Byte
    /\ pristine => Intact(memory.chips, LayoutOf(os))

LEMMA FreshIsIntact ==
  ASSUME NEW layout, NEW chips, CellsIn(chips) = Fresh(layout)
  PROVE  Intact(chips, layout)
<1>1. \A a \in Address : CellsIn(chips)[a] = CellAt(chips, a)
  BY DEF CellsIn
<1>2. QED
  BY <1>1 DEF Intact

LEMMA NothingShown == <<>> \in Seq(Byte) /\ 0 \in Byte
BY ByteBaseType

\* The memory that the window is built with.
LEMMA FirstIsReusable == Reusable(InsertChip(<<>>, NewChip("RAM", MemSize), 0))
<1> DEFINE ram == NewChip("RAM", MemSize)
           chips == InsertChip(<<>>, ram, 0)
<1>1. Chip(ram, "RAM", 0, MemSize)
  BY NewChipType, MemSizeType DEF ChipTypes
<1>2. chips = [b \in {0} |->
                [ram EXCEPT !.base = 0, !.links = IF ram.type \in Ports THEN @ + 1 ELSE @]]
  BY DEF InsertChip
<1> HIDE DEF ram, chips
<1>3. /\ DOMAIN chips = {0}
      /\ chips[0] = [ram EXCEPT !.base = 0, !.links = IF ram.type \in Ports THEN @ + 1 ELSE @]
  BY <1>2
<1>4. IsChip(chips[0]) /\ chips[0].base = 0 /\ chips[0].type = "RAM"
  BY <1>1, <1>3 DEF Chip, IsChip
<1>5. QED
  BY <1>3, <1>4 DEF Reusable, chips, ram

\* An operating system that has just been loaded.
LEMMA LoadStep ==
  ASSUME InstallInv, os' \in Installable, LoadOperatingSystem(os'), pane' \in ObjectCodes
  PROVE  InstallInv' /\ Space!Install(LayoutOf(os'))
<1> DEFINE l == LayoutOf(os')
<1>1. Reusable(memory.chips)
  BY ShapedIsReusable DEF InstallInv
<1>2. /\ memory' = Loaded(memory.chips, os') /\ ports' = PortsOf(os')
      /\ pristine' = TRUE /\ emitted' = <<>> /\ bus' = 0
  BY DEF LoadOperatingSystem
<1>3. /\ Shaped(memory'.chips, l) /\ memory'.error = FALSE
      /\ KindsIn(memory'.chips) = Space!KindsOf(l) /\ CellsIn(memory'.chips) = Fresh(l)
  BY <1>1, <1>2, LoadedIs
<1>4. Intact(memory'.chips, l)
  BY <1>3, FreshIsIntact
<1>5. InstallInv'
  BY <1>2, <1>3, <1>4, NothingShown DEF InstallInv
<1>6. Space!Install(l)
  BY <1>2, <1>3 DEF Space!Install, Space!Idle, KindsIn, CellsIn, Fresh
<1>7. QED
  BY <1>5, <1>6

\* Object code that is loaded over it.
LEMMA LoadObjectStep ==
  ASSUME InstallInv, LoadObject
  PROVE  InstallInv' /\ Space!InstallAndLoad(LayoutOf(os), pane)
<1> DEFINE l == LayoutOf(os)
           kinds == Space!KindsOf(l)
<1>1. os \in Installable /\ pane \in Seq(Byte) /\ Reusable(memory.chips) /\ Placeable(l)
  BY ShapedIsReusable, CodesAreBytes, LayoutIsPlaceable DEF InstallInv
<1>2. /\ memory' = LoadValues(Loaded(memory.chips, os), 0, pane) /\ ports' = PortsOf(os)
      /\ pristine' = (Len(pane) <= Built[os].burnAddress) /\ emitted' = <<>> /\ bus' = 0
      /\ os' = os /\ pane' = pane
  BY DEF LoadObject
<1>3. /\ Shaped(memory'.chips, l) /\ memory'.error \in BOOLEAN
      /\ KindsIn(memory'.chips) = kinds
      /\ CellsIn(memory'.chips) = Space!Overlay(kinds, Fresh(l), pane)
      /\ memory'.error = Space!MeetsGap(kinds, pane)
  BY <1>1, <1>2, OverlaidIs
<1>4. ASSUME pristine' PROVE Intact(memory'.chips, l)
  <2>1. Len(pane) <= l.start /\ Len(pane) \in Nat /\ l.start \in Nat
    <3>1. l.start = Built[os].burnAddress
      BY DEF LayoutOf
    <3>2. Len(pane) <= Built[os].burnAddress
      BY <1>2, <1>4
    <3> HIDE DEF l
    <3>3. Len(pane) \in Nat /\ l.start \in Nat
      BY <1>1, LayoutNumbers
    <3>4. QED
      BY <3>1, <3>2, <3>3
  <2> HIDE DEF l
  <2>2. ASSUME NEW a \in Address, KindAt(l, a) = "ROM" PROVE CellAt(memory'.chips, a) = Fresh(l)[a]
    <3>1. a >= l.start
      BY <1>1, <2>2, KindMeans
    <3>2. a \in Int
      BY MemSizeType DEF Address
    <3>3. ~(a < Len(pane))
      BY <2>1, <3>1, <3>2
    <3>4. Space!Overlay(kinds, Fresh(l), pane)[a] = Fresh(l)[a]
      BY <3>3 DEF Space!Overlay
    <3>5. CellsIn(memory'.chips)[a] = CellAt(memory'.chips, a)
      BY DEF CellsIn
    <3>6. QED
      BY <1>3, <3>4, <3>5
  <2>3. QED
    BY <2>2 DEF Intact, l
<1>5. pristine' \in BOOLEAN
  BY <1>2
<1>6. InstallInv'
  BY <1>2, <1>3, <1>4, <1>5, NothingShown DEF InstallInv
<1>7. Space!InstallAndLoad(l, pane)
  BY <1>2, <1>3 DEF Space!InstallAndLoad, Space!Idle, KindsIn, CellsIn, Fresh
<1>8. QED
  BY <1>6, <1>7

LEMMA ClearStep ==
  ASSUME InstallInv, ClearMemoryCommand
  PROVE  InstallInv' /\ Space!Clear
<1> DEFINE l == LayoutOf(os)
<1>1. os \in Installable /\ Shaped(memory.chips, l) /\ Placeable(l)
  BY LayoutIsPlaceable DEF InstallInv
<1>2. /\ memory' = ClearMemory(memory) /\ pristine' = FALSE /\ emitted' = <<>> /\ bus' = 0
      /\ os' = os /\ ports' = ports /\ pane' = pane
  BY DEF ClearMemoryCommand
<1> HIDE DEF l
<1>3. /\ Shaped(memory'.chips, l) /\ memory'.error = FALSE
      /\ \A x \in Address : CellAt(memory'.chips, x) = 0
  BY <1>1, <1>2, ClearIs
<1>4. KindsIn(memory'.chips) = KindsIn(memory.chips)
  BY <1>1, <1>3, KindsAre
<1>5. CellsIn(memory'.chips) = Space!Blank
  BY <1>3 DEF CellsIn, Space!Blank
<1>6. InstallInv'
  BY <1>2, <1>3, NothingShown DEF InstallInv, l
<1>7. Space!Clear
  BY <1>2, <1>3, <1>4, <1>5 DEF Space!Clear, Space!Idle, KindsIn, CellsIn
<1>8. QED
  BY <1>6, <1>7

LEMMA WriteStep ==
  ASSUME InstallInv, NEW a \in Touched, NEW v \in Values, CpuWrites(a, v)
  PROVE  InstallInv' /\ Space!Write(a, v)
<1> DEFINE l == LayoutOf(os)
           k == KindAt(l, a)
           kind == KindsIn(memory.chips)
           cell == CellsIn(memory.chips)
<1>1. os \in Installable /\ Shaped(memory.chips, l) /\ memory.error \in BOOLEAN /\ Placeable(l)
  BY LayoutIsPlaceable DEF InstallInv
<1>2. a \in Address /\ v \in Byte
  BY InstallationAssumption
<1>3. /\ memory' = WriteByte(memory, a, v)
      /\ emitted' = IF a = ports.out THEN OutputWritten(memory.chips, a, v) ELSE <<>>
      /\ bus' = 0 /\ os' = os /\ ports' = ports /\ pane' = pane /\ pristine' = pristine
  BY DEF CpuWrites
<1>4. ports.out = l.out
  BY DEF InstallInv, PortsOf, LayoutOf
<1> HIDE DEF l
<1>5. /\ Shaped(memory'.chips, l)
      /\ memory'.error \in BOOLEAN /\ memory'.error = (memory.error \/ k = "NIL")
      /\ \A x \in Address :
            CellAt(memory'.chips, x) = IF x = a /\ k \notin {"ROM", "NIL"} THEN v
                                       ELSE CellAt(memory.chips, x)
      /\ OutputWritten(memory.chips, a, v) = IF k = "ODEV" THEN <<v>> ELSE <<>>
  BY <1>1, <1>2, <1>3, WriteIs
<1>6. k = "ODEV" <=> a = l.out
  BY <1>1, <1>2, KindMeans
<1>7. emitted' = IF k = "ODEV" THEN <<v>> ELSE <<>>
  BY <1>3, <1>4, <1>5, <1>6
<1>8. KindsIn(memory'.chips) = kind /\ kind[a] = k
  <2>1. KindsIn(memory'.chips) = kind
    BY <1>1, <1>5, KindsAre
  <2>2. kind[a] = k
    BY <1>1, <1>2, Answered DEF KindsIn
  <2>3. QED
    BY <2>1, <2>2
<1> HIDE DEF k, kind
<1>9. CellsIn(memory'.chips) = IF kind[a] \in {"ROM", "NIL"} THEN cell ELSE [cell EXCEPT ![a] = v]
  BY <1>2, <1>5, <1>8 DEF CellsIn
<1>10. pristine => Intact(memory'.chips, l)
  <2>1. ASSUME pristine, NEW x \in Address, KindAt(l, x) = "ROM"
        PROVE  CellAt(memory'.chips, x) = Fresh(l)[x]
    <3>1. CellAt(memory.chips, x) = Fresh(l)[x]
      BY <2>1 DEF InstallInv, Intact, l
    <3>2. ~(x = a /\ k \notin {"ROM", "NIL"})
      BY <2>1 DEF k
    <3>3. CellAt(memory'.chips, x) = CellAt(memory.chips, x)
      BY <1>5, <3>2
    <3>4. QED
      BY <3>1, <3>3
  <2>2. QED
    BY <2>1 DEF Intact
<1>11. emitted' \in Seq(Byte)
  BY <1>2, <1>7
<1>12. InstallInv'
  BY <1>3, <1>5, <1>10, <1>11, NothingShown DEF InstallInv, l
<1> HIDE DEF cell
<1>13. memory'.error = (memory.error \/ kind[a] = "NIL")
  BY <1>5, <1>8
<1>14. emitted' = IF kind[a] = "ODEV" THEN <<v>> ELSE <<>>
  BY <1>7, <1>8
<1>15. Space!Write(a, v)
  BY <1>3, <1>8, <1>9, <1>13, <1>14 DEF Space!Write, KindsIn, CellsIn, kind, cell
<1>16. QED
  BY <1>12, <1>15

LEMMA ReadStep ==
  ASSUME InstallInv, NEW a \in Touched, NEW typed \in Values, CpuReads(a, typed)
  PROVE  InstallInv' /\ Space!Read(a, typed)
<1> DEFINE l == LayoutOf(os)
           k == KindAt(l, a)
           kind == KindsIn(memory.chips)
           cell == CellsIn(memory.chips)
           read == ReadByte(memory, a, typed)
<1>1. os \in Installable /\ Shaped(memory.chips, l) /\ memory.error \in BOOLEAN /\ Placeable(l)
  BY LayoutIsPlaceable DEF InstallInv
<1>2. a \in Address /\ typed \in Byte
  BY InstallationAssumption
<1>3. /\ memory' = read.memory /\ bus' = read.value /\ emitted' = <<>>
      /\ os' = os /\ ports' = ports /\ pane' = pane /\ pristine' = pristine
  BY DEF CpuReads
<1> HIDE DEF l
<1>4. /\ Shaped(read.memory.chips, l)
      /\ read.memory.error \in BOOLEAN /\ read.memory.error = (memory.error \/ k = "NIL")
      /\ \A x \in Address :
            CellAt(read.memory.chips, x) = IF x = a /\ k = "IDEV" THEN typed
                                           ELSE CellAt(memory.chips, x)
      /\ read.value = IF k = "IDEV" THEN typed ELSE CellAt(memory.chips, a)
      /\ read.value \in Byte
  BY <1>1, <1>2, ReadIs
<1> HIDE DEF read
<1>5. /\ Shaped(memory'.chips, l)
      /\ memory'.error \in BOOLEAN /\ memory'.error = (memory.error \/ k = "NIL")
      /\ \A x \in Address :
            CellAt(memory'.chips, x) = IF x = a /\ k = "IDEV" THEN typed
                                       ELSE CellAt(memory.chips, x)
      /\ bus' = IF k = "IDEV" THEN typed ELSE CellAt(memory.chips, a)
      /\ bus' \in Byte
  BY <1>3, <1>4
<1>6. KindsIn(memory'.chips) = kind /\ kind[a] = k
  <2>1. KindsIn(memory'.chips) = kind
    BY <1>1, <1>5, KindsAre
  <2>2. kind[a] = k
    BY <1>1, <1>2, Answered DEF KindsIn
  <2>3. QED
    BY <2>1, <2>2
<1> HIDE DEF k, kind
<1>7. /\ CellsIn(memory'.chips) = IF kind[a] = "IDEV" THEN [cell EXCEPT ![a] = typed] ELSE cell
      /\ cell[a] = CellAt(memory.chips, a)
  BY <1>2, <1>5, <1>6 DEF CellsIn
<1>8. pristine => Intact(memory'.chips, l)
  <2>1. ASSUME pristine, NEW x \in Address, KindAt(l, x) = "ROM"
        PROVE  CellAt(memory'.chips, x) = Fresh(l)[x]
    <3>1. CellAt(memory.chips, x) = Fresh(l)[x]
      BY <2>1 DEF InstallInv, Intact, l
    <3>2. ~(x = a /\ k = "IDEV")
      BY <2>1 DEF k
    <3>3. CellAt(memory'.chips, x) = CellAt(memory.chips, x)
      BY <1>5, <3>2
    <3>4. QED
      BY <3>1, <3>3
  <2>2. QED
    BY <2>1 DEF Intact
<1>9. InstallInv'
  BY <1>3, <1>5, <1>8, NothingShown DEF InstallInv, l
<1> HIDE DEF cell
<1>10. memory'.error = (memory.error \/ kind[a] = "NIL")
  BY <1>5, <1>6
<1>11. bus' = IF kind[a] = "IDEV" THEN typed ELSE cell[a]
  BY <1>5, <1>6, <1>7
<1>12. Space!Read(a, typed)
  BY <1>3, <1>6, <1>7, <1>10, <1>11 DEF Space!Read, KindsIn, CellsIn, kind, cell
<1>13. QED
  BY <1>9, <1>12

\* The pane is changed, and nothing else.
LEMMA PaneStep ==
  ASSUME InstallInv, pane' \in ObjectCodes,
         UNCHANGED <<memory, os, ports, pristine, emitted, bus>>
  PROVE  InstallInv' /\ UNCHANGED Space!vars
<1>1. InstallInv'
  BY DEF InstallInv
<1>2. UNCHANGED Space!vars
  BY DEF Space!vars
<1>3. QED
  BY <1>1, <1>2

LEMMA StartStep ==
  ASSUME Init
  PROVE  InstallInv /\ Space!Init
<1> DEFINE l == LayoutOf(os)
           first == InsertChip(<<>>, NewChip("RAM", MemSize), 0)
<1>1. os \in Installable
  BY DefaultIsInstallable DEF Init
<1>2. /\ memory = Loaded(first, os) /\ ports = PortsOf(os) /\ pane = <<>>
      /\ pristine = TRUE /\ emitted = <<>> /\ bus = 0
  BY DEF Init
<1>3. Reusable(first)
  BY FirstIsReusable
<1> HIDE DEF first
<1>4. /\ Shaped(memory.chips, l) /\ memory.error = FALSE
      /\ KindsIn(memory.chips) = Space!KindsOf(l) /\ CellsIn(memory.chips) = Fresh(l)
  BY <1>1, <1>2, <1>3, LoadedIs
<1>5. Intact(memory.chips, l)
  BY <1>4, FreshIsIntact
<1>6. pane \in ObjectCodes
  BY <1>2 DEF ObjectCodes
<1>7. InstallInv
  BY <1>1, <1>2, <1>4, <1>5, <1>6, NothingShown DEF InstallInv
<1>8. l \in Layouts
  BY <1>1 DEF Layouts
<1> HIDE DEF l
<1>9. Space!Init
  BY <1>2, <1>4, <1>8 DEF Space!Init, KindsIn, CellsIn, Fresh
<1>10. QED
  BY <1>7, <1>9

LEMMA EveryStep ==
  ASSUME InstallInv, [Next]_vars
  PROVE  InstallInv' /\ [Space!Next]_(Space!vars)
<1>1. os \in Installable /\ LayoutOf(os) \in Layouts /\ pane \in ObjectCodes
  BY DEF InstallInv, Layouts
<1>2. ASSUME NEW source \in OsSources, InstallNewOs(source)
      PROVE  InstallInv' /\ Space!Next
  <2>1. /\ os' = (IF source \in Installable THEN source ELSE os)
        /\ pane' = (IF source \in Installable THEN CodeOf[source] ELSE <<>>)
        /\ LoadOperatingSystem(os')
    BY <1>2 DEF InstallNewOs
  <2>2. os' \in Installable /\ pane' \in ObjectCodes
    BY <1>1, <2>1 DEF ObjectCodes
  <2>3. InstallInv' /\ Space!Install(LayoutOf(os'))
    BY <2>1, <2>2, LoadStep
  <2>4. LayoutOf(os') \in Layouts
    BY <2>2 DEF Layouts
  <2>5. QED
    BY <2>3, <2>4 DEF Space!Next
<1>3. CASE ReinstallDefaultOs
  <2>1. os' = DefaultOs /\ pane' = pane /\ LoadOperatingSystem(os')
    BY <1>3 DEF ReinstallDefaultOs
  <2>2. os' \in Installable /\ pane' \in ObjectCodes
    BY <1>1, <2>1, DefaultIsInstallable
  <2>3. InstallInv' /\ Space!Install(LayoutOf(os'))
    BY <2>1, <2>2, LoadStep
  <2>4. LayoutOf(os') \in Layouts
    BY <2>2 DEF Layouts
  <2>5. QED
    BY <2>3, <2>4 DEF Space!Next
<1>4. ASSUME NEW source \in ProgramSources, AssembleUser(source)
      PROVE  InstallInv' /\ UNCHANGED Space!vars
  <2>1. pane' = ProgramCode(source, os) /\ UNCHANGED <<memory, os, ports, pristine, emitted, bus>>
    BY <1>4 DEF AssembleUser
  <2>2. pane' \in ObjectCodes
    BY <1>1, <2>1 DEF ObjectCodes
  <2>3. QED
    BY <2>1, <2>2, PaneStep
<1>5. CASE FileNew
  <2>1. pane' = <<>> /\ UNCHANGED <<memory, os, ports, pristine, emitted, bus>>
    BY <1>5 DEF FileNew
  <2>2. pane' \in ObjectCodes
    BY <2>1 DEF ObjectCodes
  <2>3. QED
    BY <2>1, <2>2, PaneStep
<1>6. CASE LoadObject
  <2>1. InstallInv' /\ Space!InstallAndLoad(LayoutOf(os), pane)
    BY <1>6, LoadObjectStep
  <2>2. QED
    BY <1>1, <2>1 DEF Space!Next
<1>7. CASE ClearMemoryCommand
  <2>1. InstallInv' /\ Space!Clear
    BY <1>7, ClearStep
  <2>2. QED
    BY <2>1 DEF Space!Next
<1>8. ASSUME NEW a \in Touched, NEW v \in Values, CpuWrites(a, v)
      PROVE  InstallInv' /\ Space!Next
  <2>1. InstallInv' /\ Space!Write(a, v)
    BY <1>8, WriteStep
  <2>2. QED
    BY <2>1 DEF Space!Next
<1>9. ASSUME NEW a \in Touched, NEW v \in Values, CpuReads(a, v)
      PROVE  InstallInv' /\ Space!Next
  <2>1. InstallInv' /\ Space!Read(a, v)
    BY <1>9, ReadStep
  <2>2. QED
    BY <2>1 DEF Space!Next
<1>10. CASE UNCHANGED vars
  <2>1. pane' = pane /\ UNCHANGED <<memory, os, ports, pristine, emitted, bus>>
    BY <1>10 DEF vars
  <2>2. QED
    BY <1>1, <2>1, PaneStep
<1>11. QED
  BY <1>2, <1>3, <1>4, <1>5, <1>6, <1>7, <1>8, <1>9, <1>10 DEF Next

LEMMA InstallInvariant == Spec => []InstallInv
<1>1. Init => InstallInv
  BY StartStep
<1>2. InstallInv /\ [Next]_vars => InstallInv'
  BY EveryStep
<1>3. QED
  BY <1>1, <1>2, PTL DEF Spec

\* Every chip keeps its type and as many cells as its size, and its place in
\* the map is its own base address; the commands of the window only ever
\* choose an operating system that assembles.
THEOREM ChipsStayWhole == Spec => []TypeOk
<1>1. InstallInv => TypeOk
  <2> SUFFICES ASSUME InstallInv PROVE TypeOk
    OBVIOUS
  <2>1. Reusable(memory.chips)
    BY ShapedIsReusable DEF InstallInv
  <2>2. os \in Installable /\ pane \in Seq(Byte)
    BY CodesAreBytes DEF InstallInv
  <2>3. ports \in [in : Address, out : Address]
    <3>1. PortOf(os, "charIn") \in Address /\ PortOf(os, "charOut") \in Address
      BY <2>2, PortType, InstallationAssumption
    <3>2. ports = [in |-> PortOf(os, "charIn"), out |-> PortOf(os, "charOut")]
      BY DEF InstallInv, PortsOf
    <3>3. QED
      BY <3>1, <3>2
  <2>4. QED
    BY <2>1, <2>2, <2>3 DEF TypeOk, Reusable, InstallInv
<1>2. QED
  BY <1>1, InstallInvariant, PTL

\* Whatever was installed before, and whatever chips were used again for it,
\* the chips at charIn and charOut are an input chip and an output chip of one
\* byte, connected once, and the widget listens to their addresses.
THEOREM PortsAreConnectedOnce == Spec => []PortsAnswer
<1>1. InstallInv => PortsAnswer
  <2> SUFFICES ASSUME InstallInv PROVE PortsAnswer
    OBVIOUS
  <2> DEFINE l == LayoutOf(os)
  <2>1. Placeable(l) /\ Shaped(memory.chips, l) /\ ports = PortsOf(os)
    BY LayoutIsPlaceable DEF InstallInv
  <2>2. l.in = PortOf(os, "charIn") /\ l.out = PortOf(os, "charOut")
    BY DEF LayoutOf
  <2> HIDE DEF l
  <2>3. l.in \in Address /\ l.out \in Address
    BY <2>1, LayoutNumbers
  <2>4. ChipAt(memory.chips, l.in) = memory.chips[l.in]
    <3>1. KindAt(l, l.in) # "NIL"
      BY <2>1, <2>3, KindIs
    <3>2. Answers(memory.chips, l, l.in)
      BY <2>1, <2>3, <3>1, Answered
    <3>3. QED
      BY <3>2 DEF Answers, Home
  <2>5. ChipAt(memory.chips, l.out) = memory.chips[l.out]
    <3>1. KindAt(l, l.out) # "NIL"
      BY <2>1, <2>3, KindIs
    <3>2. Answers(memory.chips, l, l.out)
      BY <2>1, <2>3, <3>1, Answered
    <3>3. QED
      BY <3>2 DEF Answers, Home
  <2>6. QED
    BY <2>1, <2>2, <2>4, <2>5 DEF PortsAnswer, Shaped, Chip
<1>2. QED
  BY <1>1, InstallInvariant, PTL

\* The last address of the memory, from which the stack pointer is found, is
\* the one that .BURN names, from which the trap vector is found, unless a
\* port lies beyond it.
THEOREM VectorsAreAtTheBurn == Spec => []VectorsAgree
<1>1. InstallInv => VectorsAgree
  <2> SUFFICES ASSUME InstallInv, ports.in < Built[os].burnValue, ports.out < Built[os].burnValue
               PROVE  MaxAddress(memory.chips) = Built[os].burnValue
    BY DEF VectorsAgree
  <2> DEFINE l == LayoutOf(os)
             v == Built[os].burnValue
             last == MaxAddress(memory.chips)
  <2>1. Placeable(l) /\ Shaped(memory.chips, l) /\ ports = PortsOf(os) /\ os \in Installable
    BY LayoutIsPlaceable DEF InstallInv
  <2>2. l.in = ports.in /\ l.out = ports.out
    BY <2>1 DEF LayoutOf, PortsOf
  <2>3. l.start + Len(l.code) = v + 1 /\ v \in Int
    <3>1. l.start = Built[os].burnAddress /\ l.code = CodeOf[os]
      BY DEF LayoutOf
    <3>2. v \in Address /\ Built[os].burnAddress + Len(CodeOf[os]) = v + 1
      BY <2>1, BuiltParts
    <3> HIDE DEF l, v
    <3>3. QED
      BY <3>1, <3>2, MemSizeType DEF Address
  <2>4. l.in < v /\ l.out < v
    BY <2>2
  <2> HIDE DEF l, v, last
  <2>5. EndsWithCode(l, last, l.start + Len(l.code))
    BY <2>1, LastIs DEF last
  <2>6. l.in \in Int /\ l.out \in Int
    BY <2>1, LayoutNumbers, MemSizeType DEF Address
  <2>7. last = v
    <3>1. EndsWithCode(l, last, v + 1)
      BY <2>3, <2>5
    <3>2. l.in < v + 1 /\ l.out < v + 1 /\ (v + 1) - 1 = v
      BY <2>3, <2>4, <2>6
    <3>3. QED
      BY <3>1, <3>2 DEF EndsWithCode
  <2>8. QED
    BY <2>7 DEF last, v
<1>2. QED
  BY <1>1, InstallInvariant, PTL

\* Until memory is cleared or object code is loaded over it, every byte of
\* the operating system is where the assembler said, whatever programs write.
THEOREM OperatingSystemSurvives == Spec => []OsSurvivesPrograms
<1>1. InstallInv => OsSurvivesPrograms
  <2> SUFFICES ASSUME InstallInv, pristine, NEW j \in DOMAIN CodeOf[os],
                      Built[os].burnAddress + j - 1 \notin {ports.in, ports.out}
               PROVE  CellAt(memory.chips, Built[os].burnAddress + j - 1) = CodeOf[os][j]
    BY DEF OsSurvivesPrograms
  <2> DEFINE l == LayoutOf(os)
             s == l.start
             n == Len(l.code)
             a == s + j - 1
  <2>1. /\ Placeable(l) /\ ports = PortsOf(os) /\ os \in Installable
        /\ Intact(memory.chips, l)
    BY LayoutIsPlaceable DEF InstallInv
  <2>2. l.in = ports.in /\ l.out = ports.out /\ s = Built[os].burnAddress /\ l.code = CodeOf[os]
    BY <2>1 DEF LayoutOf, PortsOf
  <2> HIDE DEF l
  <2>3. s \in Nat /\ n \in Nat /\ s + n =< MemSize /\ MemSize \in Nat
    BY <2>1, LayoutNumbers
  <2>4. j \in 1..n
    <3>1. l.code \in Seq(Byte)
      BY <2>1 DEF Placeable
    <3>2. j \in DOMAIN l.code
      BY <2>2
    <3>3. QED
      BY <3>1, <3>2
  <2> HIDE DEF s, n
  <2>5. a \in Int /\ a >= s /\ a < s + n /\ a - s + 1 = j
    BY <2>3, <2>4
  <2>6. a \in Address
    BY <2>3, <2>5 DEF Address
  <2>7. a = Built[os].burnAddress + j - 1 /\ a \notin {l.in, l.out}
    BY <2>2
  <2> HIDE DEF a
  <2>8. KindAt(l, a) = "ROM"
    BY <2>1, <2>5, <2>6, <2>7, KindMeans DEF s, n
  <2>9. CellAt(memory.chips, a) = Fresh(l)[a]
    BY <2>1, <2>6, <2>8 DEF Intact
  <2>10. Fresh(l)[a] = l.code[j]
    <3>1. Fresh(l)[a] = IF a \in s..s + n - 1 THEN l.code[a - s + 1] ELSE 0
      BY <2>1, <2>6, FreshIs DEF s, n
    <3>2. a \in s..s + n - 1
      BY <2>3, <2>5
    <3>3. QED
      BY <2>5, <3>1, <3>2
  <2>11. QED
    BY <2>2, <2>7, <2>9, <2>10
<1>2. QED
  BY <1>1, InstallInvariant, PTL

\* The chips, overlapping, used again, resized and connected anew, are a flat
\* memory: each command installs a layout, loads over it or clears it, and
\* each use of an address by the CPU is a use of one byte.
THEOREM ChipsAreOneMemory == Spec => ImplementsAddressSpace
<1>1. Init => Space!Init
  BY StartStep
<1>2. InstallInv /\ [Next]_vars => [Space!Next]_(Space!vars)
  BY EveryStep
<1>3. QED
  BY <1>1, <1>2, InstallInvariant, PTL DEF Spec, ImplementsAddressSpace, Space!Spec

=============================================================================
