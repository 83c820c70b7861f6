----------------------------- MODULE EarlyProof -----------------------------
(***************************************************************************)
(* Proofs about Early: a call of memset, memcpy or memmove writes the      *)
(* bytes it was asked for, a printer prints its number, and init_boot      *)
(* keeps what the loader's tags say.                                       *)
(***************************************************************************)
EXTENDS Early, Recursion

-----------------------------------------------------------------------------
(* Quotient and remainder.                                                 *)
LEMMA DivMod ==
  ASSUME NEW P \in Nat \ {0}, NEW x \in Nat
  PROVE  x = P * (x \div P) + (x % P) /\ x % P \in 0 .. P - 1 /\ x \div P \in Nat
  BY SMT

(* A multiple, down and up.                                                *)
LEMMA Multiple == ASSUME NEW P \in Nat \ {0}, NEW q \in Nat PROVE (P * q) % P = 0
  BY SMT

LEMMA RoundDown == ASSUME NEW P \in Nat \ {0}, NEW x \in Nat PROVE (x - (x % P)) % P = 0
<1>1. x = P * (x \div P) + (x % P) /\ x \div P \in Nat /\ x % P \in 0 .. P - 1  BY DivMod
<1>2. PICK m \in Nat : m = P * (x \div P)  BY <1>1
<1>3. x - (x % P) = m  BY <1>1, <1>2
<1> QED BY <1>1, <1>2, <1>3, Multiple

LEMMA RoundUp == ASSUME NEW P \in Nat \ {0}, NEW x \in Nat PROVE (x + (P - (x % P))) % P = 0
  BY SMT

-----------------------------------------------------------------------------
(* Copying.  Count bytes are written; they are the first of the target, or *)
(* the last if the copy goes backward.                                     *)
Pending == left + Block * chunks
Count == call.n - Pending
Low(k) == IF Backward THEN call.dst + call.n - k ELSE call.dst
Value(a) == IF call.fn = "memset" THEN Fill ELSE a - call.dst + call.src
Position(base, k) == IF Backward THEN base + call.n - k ELSE base + k

(* The memory f has the first k bytes.                                     *)
Holds(f, k) ==
  /\ f \in [Addresses -> Int]
  /\ \A a \in Addresses : f[a] = IF Low(k) <= a /\ a < Low(k) + k THEN Value(a) ELSE a

(* The bytes before the first boundary.                                    *)
Lead ==
  IF call.fn = "memmove" /\ call.dst > call.src THEN (call.dst + call.n) % Block
  ELSE (Block - (call.dst % Block)) % Block

(* Where the next block goes.                                              *)
Target == IF Backward THEN d - Block ELSE d

Active == call \in Copies /\ Supported(call)

Bounds ==
  /\ call.dst + call.n <= Top /\ call.src + call.n <= Top
  /\ left \in Nat /\ chunks \in Nat /\ Pending <= call.n
Phases ==
  /\ phase \in {"align", "broadcast", "load", "store", "tail", "rep", "done"}
  /\ phase \in {"align", "rep", "tail", "done"} => chunks = 0
  /\ phase \in {"broadcast", "load", "store"} => chunks > 0
  /\ phase = "load" => call.fn # "memset"
  /\ phase = "broadcast" => call.fn = "memset"
  /\ phase = "rep" => ~Backward
  /\ phase = "done" => left = 0 \/ (Count = 0 /\ call.dst = call.src /\ call.fn # "memset")
  /\ phase = "align" /\ call.fn # "memset" => call.sse /\ Count <= Lead
Pointers ==
  /\ phase # "done" => d = Position(call.dst, Count)
  /\ phase # "done" /\ call.fn # "memset" =>
       s = Position(call.src, IF phase = "store" THEN Count + Block ELSE Count)
Contents ==
  ~clobbered =>
    /\ Holds(mem, Count)
    /\ phase = "store" => \A i \in Lanes : xmm[i] = Value(Target + i)
Going == Bounds /\ Phases /\ Pointers /\ Contents

Untouched ==
  /\ mem = [a \in Addresses |-> a] /\ chunks = 0 /\ ~clobbered /\ call = NoCall
CopyInv ==
  /\ phase = "idle" => Untouched
  /\ Active => Going

LEMMA CallTypes ==
  ASSUME Active
  PROVE  /\ call.fn \in {"memset", "memcpy", "memmove"} /\ call.sse \in BOOLEAN
         /\ call.dst \in Nat /\ call.src \in Nat /\ call.n \in Nat
         /\ Block \in Nat \ {0} /\ Top \in Nat /\ Addresses = 0..Top
  BY LibraryAssumption DEF Active, Copies, Addresses

LEMMA InBlocks ==
  ASSUME NEW n \in Nat
  PROVE  /\ n \div Block \in Nat /\ n % Block \in Nat /\ n % Block < Block
         /\ (n % Block) + Block * (n \div Block) = n
         /\ n >= Block => n \div Block > 0
<1>1. Block \in Nat \ {0}  BY LibraryAssumption
<1>2. n = Block * (n \div Block) + (n % Block) /\ n % Block \in 0 .. Block - 1 /\ n \div Block \in Nat
  BY <1>1, DivMod
<1>3. n \div Block = 0 => n < Block  BY <1>1, <1>2
<1> QED BY <1>1, <1>2, <1>3

LEMMA OneBlock ==
  ASSUME NEW k \in Nat, k > 0
  PROVE  /\ Block * k = Block * (k - 1) + Block /\ Block * (k - 1) \in Nat /\ Block * k \in Nat
         /\ k = 1 => Block * k = Block
  BY LibraryAssumption

(* After Lead bytes the pointer is at a boundary.                          *)
LEMMA AtBoundary ==
  ASSUME Active
  PROVE  Lead \in Nat /\ Position(call.dst, Lead) % Block = 0
<1>1. Block \in Nat \ {0} /\ call.dst \in Nat /\ call.n \in Nat  BY CallTypes
<1>2. CASE Backward
  <2>1. PICK e \in Nat : e = call.dst + call.n  BY <1>1
  <2>2. Lead = e % Block  BY <1>2, <2>1 DEF Backward, Lead
  <2>4. e % Block \in 0 .. Block - 1  BY <1>1, DivMod
  <2>0. PICK l \in Nat : l = Lead  BY <2>2, <2>4
  <2>3. Position(call.dst, Lead) = e - Lead  BY <1>1, <1>2, <2>0, <2>1 DEF Position
  <2>5. (e - (e % Block)) % Block = 0  BY <1>1, RoundDown
  <2> QED BY <2>2, <2>3, <2>4, <2>5
<1>3. CASE ~Backward
  <2>1. PICK e \in Nat : e = call.dst  BY <1>1
  <2>2. Lead = (Block - (e % Block)) % Block /\ Position(call.dst, Lead) = e + Lead
    BY <1>3, <2>1 DEF Backward, Lead, Position
  <2>3. e % Block \in 0..Block - 1  BY <1>1, DivMod
  <2>4. CASE e % Block = 0
    <3>1. (Block - (e % Block)) % Block = 0  BY <1>1, <2>4
    <3> QED BY <2>2, <2>4, <3>1
  <2>5. CASE e % Block # 0
    <3>1. Block - (e % Block) \in 0..Block - 1  BY <1>1, <2>3, <2>5
    <3>2. (Block - (e % Block)) % Block = Block - (e % Block)  BY <1>1, <3>1
    <3>3. (e + (Block - (e % Block))) % Block = 0  BY <1>1, RoundUp
    <3> QED BY <2>2, <3>1, <3>2, <3>3
  <2> QED BY <2>4, <2>5
<1> QED BY <1>2, <1>3

(* What is read has not been written: the call overlaps only in a way its  *)
(* direction allows.                                                       *)
LEMMA Unread ==
  ASSUME Active, call.fn # "memset", NEW f, NEW k \in Nat, NEW m \in Nat, k + m <= call.n, Holds(f, k),
         call.src + call.n <= Top, call.fn = "memmove" /\ ~call.sse => ~Backward,
         NEW b \in Int, Position(call.src, IF Backward THEN k + m ELSE k) <= b,
         b < Position(call.src, IF Backward THEN k + m ELSE k) + m
  PROVE  b \in Addresses /\ f[b] = b
<1>1. b \in 0..Top  BY CallTypes DEF Position
<1>2. ~(Low(k) <= b /\ b < Low(k) + k)
  <2>1. CASE Backward  BY <2>1, CallTypes, SMTT(40) DEF Position, Low, Backward
  <2>2. CASE ~Backward
    <3>1. call.dst <= call.src \/ call.src + call.n <= call.dst
      BY <2>2, CallTypes DEF Active, Supported, Backward
    <3> QED BY <2>2, <3>1, CallTypes, SMTT(40) DEF Position, Low
  <2> QED BY <2>1, <2>2
<1> QED BY <1>1, <1>2, CallTypes DEF Holds

(* m more bytes.                                                           *)
LEMMA More ==
  ASSUME Active, NEW f, NEW g, NEW k \in Nat, NEW m \in Nat, k + m <= call.n, Holds(f, k),
         NEW to \in Int, to = Position(call.dst, IF Backward THEN k + m ELSE k),
         g \in [Addresses -> Int],
         \A a \in Addresses : g[a] = IF to <= a /\ a < to + m THEN Value(a) ELSE f[a]
  PROVE  Holds(g, k + m)
<1> SUFFICES ASSUME NEW a \in Addresses
             PROVE  g[a] = IF Low(k + m) <= a /\ a < Low(k + m) + (k + m) THEN Value(a) ELSE a
  BY DEF Holds
<1>1. a \in Nat  BY CallTypes
<1>2. f[a] = IF Low(k) <= a /\ a < Low(k) + k THEN Value(a) ELSE a  BY DEF Holds
<1>3. g[a] = IF to <= a /\ a < to + m THEN Value(a) ELSE f[a]  OBVIOUS
<1>4. CASE Backward
  <2>1. to = Low(k + m) /\ Low(k) = to + m  BY <1>4, CallTypes, SMTT(40) DEF Low, Position
  <2> QED BY <1>1, <1>2, <1>3, <2>1, CallTypes, SMTT(40)
<1>5. CASE ~Backward
  <2>1. Low(k + m) = Low(k) /\ to = Low(k) + k /\ Low(k) \in Nat  BY <1>5, CallTypes DEF Low, Position
  <2> QED BY <1>1, <1>2, <1>3, <2>1
<1> QED BY <1>4, <1>5

-----------------------------------------------------------------------------
LEMMA CopyStart ==
  ASSUME CopyInv, NEW c \in Copies, Copy(c) PROVE CopyInv'
<1>1. phase = "idle" /\ c.dst + c.n <= Top /\ c.src + c.n <= Top /\ call' = c /\ left' = c.n
      /\ UNCHANGED <<mem, chunks, xmm, clobbered>>
  BY DEF Copy
<1>2. chunks' = 0 /\ ~clobbered' /\ mem' = [a \in Addresses |-> a]  BY <1>1 DEF CopyInv, Untouched
<1>3. phase' \in {"done", "align", "rep"}  BY DEF Copy
<1>4. SUFFICES ASSUME Active' PROVE Going'  BY <1>3 DEF CopyInv
<1>5. /\ c.fn \in {"memset", "memcpy", "memmove"} /\ c.sse \in BOOLEAN /\ c.dst \in Nat /\ c.src \in Nat /\ c.n \in Nat
      /\ Block \in Nat \ {0} /\ Top \in Nat /\ Addresses = 0..Top
  BY <1>1, <1>4, LibraryAssumption DEF Copies, Addresses
<1>6. Block * chunks' = 0  BY <1>2, <1>5
<1>7. Pending' = c.n /\ Count' = 0  BY <1>1, <1>5, <1>6 DEF Pending, Count
<1>8. Backward' <=> c.fn = "memmove" /\ c.dst > c.src  BY <1>1 DEF Backward
<1>9. d' = Position(call.dst, 0)' /\ s' = Position(call.src, 0)'
  BY <1>1, <1>5, <1>8 DEF Copy, Position
<1>10. Lead' \in Nat
  <2>1. PICK e \in Nat : e = c.dst + c.n  BY <1>5
  <2>2. c.dst % Block \in 0 .. Block - 1 /\ e % Block \in 0 .. Block - 1  BY <1>5, <2>1, DivMod
  <2>3. PICK l \in Nat : l = Block - (c.dst % Block)  BY <1>5, <2>2
  <2>4. l % Block \in 0 .. Block - 1  BY <1>5, <2>3, DivMod
  <2>5. Lead' \in {e % Block, l % Block}  BY <1>1, <2>1, <2>3 DEF Lead
  <2> QED BY <2>2, <2>4, <2>5
<1>11. Bounds'  BY <1>1, <1>2, <1>5, <1>7 DEF Bounds
<1>12. Phases'
  <2>1. phase' = "done" => c.fn = "memmove" /\ c.dst = c.src  BY DEF Copy
  <2>2. phase' = "align" => c.sse  BY DEF Copy
  <2>3. phase' = "rep" => ~c.sse \/ c.dst = c.src  BY <1>5 DEF Copy
  <2>4. phase' = "rep" => ~Backward'
    <3>1. Supported(c)  BY <1>1, <1>4 DEF Active
    <3> QED BY <1>5, <1>8, <2>3, <3>1 DEF Supported
  <2> QED BY <1>1, <1>2, <1>3, <1>7, <1>10, <2>1, <2>2, <2>4 DEF Phases
<1>13. Pointers'  BY <1>3, <1>7, <1>9 DEF Pointers
<1>14. Contents'
  <2>1. mem' \in [Addresses -> Int] /\ \A a \in Addresses : mem'[a] = a  BY <1>2, <1>5
  <2>2. Holds(mem, Count)'
    <3>1. \A a \in Addresses : ~(Low(Count)' <= a /\ a < Low(Count)' + Count')
      BY <1>1, <1>5, <1>7, <1>8 DEF Low
    <3> QED BY <2>1, <3>1 DEF Holds
  <2> QED BY <1>3, <2>2 DEF Contents
<1> QED BY <1>11, <1>12, <1>13, <1>14 DEF Going

-----------------------------------------------------------------------------
LEMMA SameCall ==
  ASSUME UNCHANGED call
  PROVE  /\ (Backward' <=> Backward) /\ (Active' <=> Active) /\ Lead' = Lead
         /\ \A f, k : Holds(f, k)' <=> Holds(f, k)
         /\ \A b, k : Position(b, k)' = Position(b, k)
         /\ \A a : Value(a)' = Value(a)
  BY DEF Backward, Active, Lead, Holds, Low, Value, Position

LEMMA HoldsThen ==
  ASSUME UNCHANGED call, NEW f, NEW k, mem' = f, Count' = k, Holds(f, k) PROVE Holds(mem, Count)'
  BY DEF Holds, Low, Backward, Value

LEMMA CountIs ==
  ASSUME Active, Bounds
  PROVE  Block * chunks \in Nat /\ Pending \in Nat /\ Count \in Nat /\ Count <= call.n /\ Pending = call.n - Count
<1>1. Block * chunks \in Nat  BY CallTypes DEF Bounds
<1>2. Pending \in Nat  BY <1>1 DEF Bounds, Pending
<1> QED BY <1>1, <1>2, CallTypes DEF Bounds, Count

(* Positions, and the next ones.                                           *)
Moves(b, k, j, m) ==
  /\ Position(b, k) \in Int /\ Position(b, j) \in Int
  /\ Backward => Position(b, k) = b + call.n - k /\ Position(b, j) = Position(b, k) - m
  /\ ~Backward => Position(b, k) = b + k /\ Position(b, j) = Position(b, k) + m
LEMMA Next1 ==
  ASSUME Active, NEW b \in Nat, NEW k \in Nat, NEW m \in Nat, NEW j, j = k + m
  PROVE  Moves(b, k, j, m)
<1>1. call.n \in Nat  BY CallTypes
<1> QED BY <1>1 DEF Position, Moves

(* Align, the rest and rep movsb: one byte.                                *)
LEMMA StepByte ==
  ASSUME Active, Going, phase \in {"align", "tail", "rep"}, left > 0, Step, UNCHANGED <<call, chunks, clobbered>>
  PROVE  /\ Count' = Count + 1 /\ Bounds' /\ d' = Position(call.dst, Count + 1)
         /\ call.fn # "memset" => s' = Position(call.src, Count + 1)
         /\ ~clobbered => Holds(mem, Count)'
<1>1. PICK k \in Nat : k = Count  BY CountIs DEF Going
<1>2. PICK b : b = Block * chunks  OBVIOUS
<1>0. call.n \in Nat /\ call.dst \in Nat /\ call.src \in Nat /\ Top \in Nat /\ Addresses = 0..Top  BY CallTypes
<1>3. b \in Nat /\ left \in Nat /\ k + left + b = call.n /\ k <= call.n
  <2>1. b \in Nat /\ left \in Nat  BY <1>2, CountIs DEF Going, Bounds
  <2>2. k = call.n - (left + b)  BY <1>1, <1>2 DEF Count, Pending
  <2> QED BY <1>0, <2>1, <2>2
<1>4. Block * chunks' = b /\ left' = left - 1  BY <1>2 DEF Step
<1>5. Count' = k + 1 /\ Pending' = left + b - 1  BY <1>0, <1>3, <1>4 DEF Count, Pending
<1>6. Bounds'
  BY <1>0, <1>3, <1>4, <1>5 DEF Bounds, Going
<1>7. d = Position(call.dst, k) /\ (call.fn # "memset" => s = Position(call.src, k))
  BY <1>1 DEF Going, Pointers
<1>p. Moves(call.dst, k, k + 1, 1) /\ Moves(call.src, k, k + 1, 1)
  <2>1. 1 \in Nat  OBVIOUS
  <2> QED BY <1>0, <2>1, Next1, Zenon
<1>8. d' = Position(call.dst, k + 1)  BY <1>7, <1>p DEF Step, Moves
<1>9. call.fn # "memset" => s' = Position(call.src, k + 1)  BY <1>7, <1>p DEF Step, Moves
<1>10. ASSUME ~clobbered PROVE Holds(mem, Count)'
  <2>1. Holds(mem, k)  BY <1>1, <1>10 DEF Going, Contents
  <2>2. PICK to : to = Position(call.dst, IF Backward THEN k + 1 ELSE k)  OBVIOUS
  <2>3. PICK from : from = Position(call.src, IF Backward THEN k + 1 ELSE k)  OBVIOUS
  <2>4. to \in Int /\ from \in Int /\ to \in Addresses
    <3>1. call.dst + call.n <= Top  BY DEF Going, Bounds
    <3>2. k < call.n  BY <1>0, <1>3
    <3>3. CASE Backward
      <4>1. to = call.dst + call.n - k - 1 /\ from \in Int  BY <1>0, <1>p, <2>2, <2>3, <3>3, SMTT(40) DEF Moves
      <4> QED BY <1>0, <3>1, <3>2, <4>1, SMTT(40)
    <3>4. CASE ~Backward
      <4>1. to = call.dst + k /\ from \in Int  BY <1>p, <2>2, <2>3, <3>4 DEF Moves
      <4> QED BY <1>0, <3>1, <3>2, <4>1
    <3> QED BY <3>3, <3>4
  <2>5. IF Backward THEN to = d - 1 /\ (call.fn # "memset" => from = s - 1)
                    ELSE to = d /\ (call.fn # "memset" => from = s)
    BY <1>7, <1>p, <2>2, <2>3 DEF Moves
  <2>6. mem' = [mem EXCEPT ![to] = IF call.fn = "memset" THEN Fill ELSE mem[from]]
    BY <2>5 DEF Step, Byte, Backward
  <2>7. call.fn # "memset" => from \in Addresses /\ mem[from] = from
    <3>1. k + 1 <= call.n  BY <1>3
    <3>2. call.fn = "memmove" /\ ~call.sse => ~Backward
      BY CallTypes DEF Active, Supported, Backward
    <3>3. from < Position(call.src, IF Backward THEN k + 1 ELSE k) + 1 /\ Position(call.src, IF Backward THEN k + 1 ELSE k) <= from
      BY <2>3, <2>4
    <3> QED BY <2>1, <2>4, <3>1, <3>2, <3>3, Unread DEF Going, Bounds
  <2>8. call.fn # "memset" => Value(to) = from
    <3>1. CASE Backward
      <4>1. to = call.dst + call.n - k - 1 /\ from = call.src + call.n - k - 1  BY <1>0, <1>p, <2>2, <2>3, <3>1, SMTT(40) DEF Moves
      <4> QED BY <1>0, <4>1 DEF Value
    <3>2. CASE ~Backward
      <4>1. to = call.dst + k /\ from = call.src + k  BY <1>p, <2>2, <2>3, <3>2 DEF Moves
      <4> QED BY <1>0, <4>1 DEF Value
    <3> QED BY <3>1, <3>2
  <2>9. PICK g : g = mem'  OBVIOUS
  <2>10. g \in [Addresses -> Int] /\ \A a \in Addresses : g[a] = IF a = to THEN Value(to) ELSE mem[a]
    BY <2>1, <2>4, <2>6, <2>7, <2>8, <2>9 DEF Holds, Value, Fill
  <2>11. \A a \in Addresses : g[a] = IF to <= a /\ a < to + 1 THEN Value(a) ELSE mem[a]
    BY <1>0, <2>4, <2>10
  <2>12. Holds(g, k + 1)  BY <1>3, <2>1, <2>2, <2>4, <2>10, <2>11, More
  <2> QED BY <1>5, <2>9, <2>12, HoldsThen
<1> QED BY <1>1, <1>5, <1>6, <1>8, <1>9, <1>10

LEMMA StillHolds ==
  ASSUME Going, UNCHANGED <<call, mem, clobbered>>, Count' = Count PROVE ~clobbered' => Holds(mem, Count)'
<1>1. PICK k : k = Count  OBVIOUS
<1>2. PICK f : f = mem  OBVIOUS
<1>3. ~clobbered => Holds(f, k)  BY <1>1, <1>2 DEF Going, Contents
<1> QED BY <1>1, <1>2, <1>3, HoldsThen

LEMMA AlignStep ==
  ASSUME CopyInv, Active, Align PROVE Going'
<1>1. Going /\ phase = "align" /\ ~Aligned /\ left > 0 /\ Step /\ UNCHANGED <<call, chunks, phase, xmm, clobbered>>
  BY DEF Align, CopyInv
<1>2. /\ Count' = Count + 1 /\ Bounds' /\ d' = Position(call.dst, Count + 1)
      /\ call.fn # "memset" => s' = Position(call.src, Count + 1)
      /\ ~clobbered => Holds(mem, Count)'
  BY <1>1, StepByte
<1>3. PICK k \in Nat : k = Count  BY <1>1, CountIs DEF Going
<1>4. call.fn # "memset" => Count' <= Lead'
  <2>1. Lead' = Lead /\ Lead \in Nat  BY <1>1, SameCall, AtBoundary
  <2>2. d = Position(call.dst, k)  BY <1>1, <1>3 DEF Going, Pointers
  <2>3. k # Lead  BY <1>1, <2>2, AtBoundary DEF Aligned
  <2>4. call.fn # "memset" => k <= Lead  BY <1>1, <1>3 DEF Going, Phases
  <2> QED BY <1>2, <1>3, <2>1, <2>3, <2>4
<1>5. Phases'  BY <1>1, <1>4 DEF Going, Phases
<1>6. Pointers'
  <2>1. PICK j : j = Count + 1  OBVIOUS
  <2>2. Count' = j /\ d' = Position(call.dst, j) /\ (call.fn # "memset" => s' = Position(call.src, j))  BY <1>2, <2>1
  <2> QED BY <1>1, <2>2 DEF Pointers, Position, Backward
<1>7. Contents'  BY <1>1, <1>2 DEF Contents
<1> QED BY <1>2, <1>5, <1>6, <1>7 DEF Going

LEMMA RestStep ==
  ASSUME CopyInv, Active, Rest PROVE Going'
<1>1. Going /\ phase = "tail" /\ UNCHANGED <<call, chunks, xmm, clobbered>>  BY DEF Rest, CopyInv
<1>2. CASE left > 0 /\ Step /\ UNCHANGED phase
  <2>1. /\ Count' = Count + 1 /\ Bounds' /\ d' = Position(call.dst, Count + 1)
        /\ call.fn # "memset" => s' = Position(call.src, Count + 1)
        /\ ~clobbered => Holds(mem, Count)'
    BY <1>1, <1>2, StepByte
  <2>2. Phases'  BY <1>1, <1>2 DEF Going, Phases
  <2>3. Pointers'
    <3>1. PICK j : j = Count + 1  OBVIOUS
    <3>2. Count' = j /\ d' = Position(call.dst, j) /\ (call.fn # "memset" => s' = Position(call.src, j))  BY <2>1, <3>1
    <3> QED BY <1>1, <1>2, <3>2 DEF Pointers, Position, Backward
  <2>4. Contents'  BY <1>1, <1>2, <2>1 DEF Contents
  <2> QED BY <2>1, <2>2, <2>3, <2>4 DEF Going
<1>3. CASE ~(left > 0) /\ phase' = "done" /\ UNCHANGED <<mem, d, s, left>>
  <2>1. left = 0  BY <1>1, <1>3 DEF Going, Bounds
  <2>2. Count' = Count  BY <1>1, <1>3 DEF Count, Pending
  <2>3. Bounds'  BY <1>1, <1>3 DEF Going, Bounds, Pending
  <2>4. Phases'  BY <1>1, <1>3, <2>1 DEF Going, Phases
  <2>5. Pointers'  BY <1>3 DEF Pointers
  <2>6. Contents'  BY <1>1, <1>3, <2>2, StillHolds DEF Contents
  <2> QED BY <2>3, <2>4, <2>5, <2>6 DEF Going
<1> QED BY <1>1, <1>2, <1>3 DEF Rest

LEMMA RepStep ==
  ASSUME CopyInv, Active, Rep PROVE Going'
<1>1. Going /\ phase = "rep" /\ ~Backward /\ UNCHANGED <<call, chunks, xmm, clobbered>>
  BY DEF Rep, CopyInv, Going, Phases
<1>2. CASE left # 0 /\ Byte(d, s) /\ left' = left - 1 /\ UNCHANGED phase /\ d' = d + 1 /\ s' = s + 1
  <2>0. Step /\ left > 0  BY <1>1, <1>2 DEF Step, Going, Bounds
  <2>1. /\ Count' = Count + 1 /\ Bounds' /\ d' = Position(call.dst, Count + 1)
        /\ call.fn # "memset" => s' = Position(call.src, Count + 1)
        /\ ~clobbered => Holds(mem, Count)'
    BY <1>1, <2>0, StepByte
  <2>2. Phases'  BY <1>1, <1>2 DEF Going, Phases, Backward
  <2>3. Pointers'
    <3>1. PICK j : j = Count + 1  OBVIOUS
    <3>2. Count' = j /\ d' = Position(call.dst, j) /\ (call.fn # "memset" => s' = Position(call.src, j))  BY <2>1, <3>1
    <3> QED BY <1>1, <1>2, <3>2 DEF Pointers, Position, Backward
  <2>4. Contents'  BY <1>1, <1>2, <2>1 DEF Contents
  <2> QED BY <2>1, <2>2, <2>3, <2>4 DEF Going
<1>3. CASE left = 0 /\ phase' = "done" /\ UNCHANGED <<mem, d, s, left>>
  <2>2. Count' = Count  BY <1>1, <1>3 DEF Count, Pending
  <2>3. Bounds'  BY <1>1, <1>3 DEF Going, Bounds, Pending
  <2>4. Phases'  BY <1>1, <1>3 DEF Going, Phases
  <2>5. Pointers'  BY <1>3 DEF Pointers
  <2>6. Contents'  BY <1>1, <1>3, <2>2, StillHolds DEF Contents
  <2> QED BY <2>3, <2>4, <2>5, <2>6 DEF Going
<1> QED BY <1>1, <1>2, <1>3 DEF Rep

LEMMA ToBlocksStep ==
  ASSUME CopyInv, Active, ToBlocks PROVE Going'
<1>1. Going /\ phase = "align" /\ (Aligned \/ left = 0) /\ UNCHANGED <<call, mem, d, s, xmm, clobbered>>
      /\ chunks' = left \div Block /\ left' = left % Block
  BY DEF ToBlocks, CopyInv
<1>2. PICK n \in Nat : n = left  BY <1>1 DEF Going, Bounds
<1>3. chunks' \in Nat /\ left' \in Nat /\ left' + Block * chunks' = n /\ (n >= Block => chunks' > 0)
  BY <1>1, <1>2, InBlocks
<1>4. chunks = 0 /\ Block * chunks = 0  BY <1>1, CallTypes DEF Going, Phases
<1>5. Pending = n /\ Pending' = n  BY <1>2, <1>3, <1>4 DEF Pending
<1>6. Count' = Count /\ Bounds'  BY <1>1, <1>3, <1>5 DEF Count, Going, Bounds
<1>7. call.fn # "memset" => chunks' > 0
  <2> SUFFICES ASSUME call.fn # "memset" PROVE n >= Block  BY <1>3
  <2>1. Whole(call)  BY <1>1 DEF Going, Phases, Active, Supported
  <2>2. call.n >= Lead + Block  BY <2>1 DEF Whole, Lead
  <2>3. Count <= Lead  BY <1>1 DEF Going, Phases
  <2>4. Count = call.n - n  BY <1>5 DEF Count
  <2>5. PICK l \in Nat : l = Lead  BY AtBoundary
  <2>6. PICK k \in Nat : k = Count  BY <1>1, CountIs DEF Going
  <2> QED BY <2>2, <2>3, <2>4, <2>5, <2>6, CallTypes
<1>8. phase' = IF chunks' = 0 THEN "tail" ELSE IF call.fn = "memset" THEN "broadcast" ELSE "load"
  BY <1>7 DEF ToBlocks
<1>9. Phases'  BY <1>1, <1>3, <1>7, <1>8 DEF Phases
<1>10. Pointers'
  <2>1. PICK k : k = Count  OBVIOUS
  <2>2. Count' = k /\ d' = Position(call.dst, k) /\ (call.fn # "memset" => s' = Position(call.src, k))
    BY <1>1, <1>6, <2>1 DEF Going, Pointers
  <2> QED BY <1>1, <1>8, <2>2 DEF Pointers, Position, Backward
<1>11. Contents'  BY <1>1, <1>6, <1>8, StillHolds DEF Contents
<1> QED BY <1>6, <1>9, <1>10, <1>11 DEF Going

LEMMA BroadcastStep ==
  ASSUME CopyInv, Active, Broadcast PROVE Going'
<1>1. Going /\ phase = "broadcast" /\ phase' = "store" /\ UNCHANGED <<call, mem, d, s, left, chunks, clobbered>>
  BY DEF Broadcast, CopyInv
<1>2. call.fn = "memset" /\ call'.fn = "memset" /\ chunks > 0  BY <1>1 DEF Going, Phases
<1>3. Count' = Count /\ Bounds'  BY <1>1 DEF Going, Bounds, Pending, Count
<1>4. Phases'  BY <1>1, <1>2 DEF Phases
<1>5. Pointers'
  <2>1. PICK k : k = Count  OBVIOUS
  <2>2. Count' = k /\ d' = Position(call.dst, k)  BY <1>1, <1>3, <2>1 DEF Going, Pointers
  <2> QED BY <1>1, <1>2, <2>2 DEF Pointers, Position, Backward
<1>6. \A i \in Lanes : xmm'[i] = Value(Target + i)'  BY <1>2 DEF Broadcast, Value
<1>7. Contents'  BY <1>1, <1>3, <1>6, StillHolds DEF Contents
<1> QED BY <1>3, <1>4, <1>5, <1>7 DEF Going

LEMMA InterruptStep ==
  ASSUME CopyInv, Active, Interrupt PROVE Going'
<1>1. Going /\ phase = "store" /\ clobbered' /\ UNCHANGED <<call, mem, d, s, left, chunks, phase>>
  BY DEF Interrupt, CopyInv
<1>2. Bounds' /\ Count' = Count  BY <1>1 DEF Going, Bounds, Pending, Count
<1>3. Phases'  BY <1>1, <1>2 DEF Going, Phases
<1>4. Pointers'  BY <1>1 DEF Going, Pointers, Position, Backward, Count, Pending
<1>5. Contents'  BY <1>1 DEF Contents
<1> QED BY <1>2, <1>3, <1>4, <1>5 DEF Going

(* A block that is still to be copied fits.                                *)
LEMMA Room ==
  ASSUME Active, Going, chunks > 0
  PROVE  /\ Count \in Nat /\ Count + Block <= call.n /\ Block * chunks = Block * (chunks - 1) + Block
         /\ Block * (chunks - 1) \in Nat /\ left + Block * (chunks - 1) + Block = Pending
<1>1. chunks \in Nat /\ left \in Nat /\ Block \in Nat  BY CallTypes DEF Going, Bounds
<1>2. PICK b : b = Block * (chunks - 1)  OBVIOUS
<1>3. Block * chunks = b + Block /\ b \in Nat  BY <1>1, <1>2, OneBlock
<1>4. Pending = left + b + Block  BY <1>1, <1>3 DEF Pending
<1>5. Count \in Nat /\ Pending = call.n - Count  BY CountIs DEF Going
<1>6. call.n \in Nat  BY CallTypes
<1> QED BY <1>1, <1>2, <1>3, <1>4, <1>5, <1>6

LEMMA LoadStep ==
  ASSUME CopyInv, Active, Load PROVE Going'
<1>1. Going /\ phase = "load" /\ phase' = "store" /\ UNCHANGED <<call, mem, d, left, chunks, clobbered>>
  BY DEF Load, CopyInv
<1>2. call.fn # "memset" /\ chunks > 0  BY <1>1 DEF Going, Phases
<1>3. Count' = Count /\ Bounds'  BY <1>1 DEF Going, Bounds, Pending, Count
<1>4. Phases'  BY <1>1, <1>2 DEF Phases
<1>5. PICK k \in Nat : k = Count /\ k + Block <= call.n  BY <1>1, <1>2, Room
<1>6. d = Position(call.dst, k) /\ s = Position(call.src, k)  BY <1>1, <1>2, <1>5 DEF Going, Pointers
<1>7. call.n \in Nat /\ call.dst \in Nat /\ call.src \in Nat /\ Block \in Nat \ {0}  BY CallTypes
<1>8. Moves(call.dst, k, k + Block, Block) /\ Moves(call.src, k, k + Block, Block)
  <2>1. Block \in Nat  BY <1>7
  <2> QED BY <1>7, <2>1, Next1, Zenon
<1>9. s' = Position(call.src, k + Block)  BY <1>1, <1>6, <1>8 DEF Load, Moves
<1>10. Pointers'
  <2>1. PICK j : j = k + Block  OBVIOUS
  <2>2. Count' = k /\ Count' + Block = j /\ d' = Position(call.dst, k) /\ s' = Position(call.src, j)
    BY <1>1, <1>3, <1>5, <1>6, <1>9, <2>1
  <2> QED BY <1>1, <2>2 DEF Pointers, Position, Backward
<1>11. PICK from : from = IF Backward THEN s - Block ELSE s  OBVIOUS
<1>12. xmm' = [i \in Lanes |-> mem[from + i]]  BY <1>11 DEF Load
<1>13. from = Position(call.src, IF Backward THEN k + Block ELSE k) /\ from \in Int
  BY <1>6, <1>8, <1>11 DEF Moves
<1>14. ASSUME ~clobbered, NEW i \in Lanes PROVE xmm'[i] = Value(Target + i)'
  <2>1. i \in 0..Block - 1  BY DEF Lanes
  <2>2. PICK b \in Int : b = from + i  BY <1>7, <1>13, <2>1
  <2>3. from <= b /\ b < from + Block  BY <1>7, <1>13, <2>1, <2>2
  <2>4. Holds(mem, k)  BY <1>1, <1>5, <1>14 DEF Going, Contents
  <2>5. Block \in Nat  BY <1>7
  <2>6. call.fn = "memmove" /\ ~call.sse => ~Backward
    BY CallTypes DEF Active, Supported, Backward
  <2>7. call.src + call.n <= Top  BY <1>1 DEF Going, Bounds
  <2>8. mem[b] = b
    <3>1. PICK f : f = mem  OBVIOUS
    <3>2. Holds(f, k)  BY <2>4, <3>1
    <3>3. f[b] = b  BY <1>2, <1>5, <1>13, <2>3, <2>5, <2>6, <2>7, <3>2, Unread
    <3> QED BY <3>1, <3>3
  <2>9. xmm'[i] = b  BY <1>12, <2>2, <2>8
  <2>10. PICK to : to = Target  OBVIOUS
  <2>11. to \in Int /\ from = to - call.dst + call.src
    BY <1>6, <1>7, <1>8, <1>11, <2>10 DEF Target, Moves
  <2>12. Value(to + i) = b  BY <1>2, <1>7, <2>1, <2>2, <2>11 DEF Value
  <2>13. Target' = to  BY <1>1, <2>10 DEF Target, Backward
  <2>14. Value(Target + i)' = Value(to + i)  BY <1>1, <2>13 DEF Value
  <2> QED BY <2>9, <2>12, <2>14
<1>15. Contents'  BY <1>1, <1>3, <1>14, StillHolds DEF Contents
<1> QED BY <1>3, <1>4, <1>10, <1>15 DEF Going

LEMMA StoreStep ==
  ASSUME CopyInv, Active, Store PROVE Going'
<1>1. Going /\ phase = "store" /\ UNCHANGED <<call, s, left, xmm, clobbered>> /\ chunks' = chunks - 1
      /\ phase' = IF chunks = 1 THEN "tail" ELSE IF call.fn = "memset" THEN "store" ELSE "load"
  BY DEF Store, StopsAt, CopyInv
<1>2. chunks > 0 /\ chunks \in Nat /\ left \in Nat  BY <1>1 DEF Going, Phases, Bounds
<1>3. PICK k \in Nat : k = Count /\ k + Block <= call.n  BY <1>1, <1>2, Room
<1>4. call.n \in Nat /\ call.dst \in Nat /\ call.src \in Nat /\ Block \in Nat \ {0} /\ Top \in Nat /\ Addresses = 0..Top
  BY CallTypes
<1>5. Pending' + Block = Pending /\ Pending' \in Nat
  <2>1. PICK b : b = Block * (chunks - 1)  OBVIOUS
  <2>2. left + b + Block = Pending /\ b \in Nat  BY <1>1, <1>2, <2>1, Room
  <2>3. Pending' = left + b  BY <1>1, <2>1 DEF Pending
  <2> QED BY <1>2, <1>4, <2>2, <2>3
<1>6. Count' = k + Block
  <2>1. PICK q \in Nat : q = Pending'  BY <1>5
  <2>2. Pending = q + Block  BY <1>5, <2>1
  <2>3. k = call.n - (q + Block)  BY <1>3, <2>2 DEF Count
  <2>4. Count' = call.n - q  BY <1>1, <2>1 DEF Count
  <2> QED BY <1>4, <2>1, <2>3, <2>4
<1>7. Bounds'  BY <1>1, <1>2, <1>4, <1>5 DEF Going, Bounds
<1>8. Phases'  BY <1>1, <1>2 DEF Going, Phases
<1>9. Moves(call.dst, k, k + Block, Block)
  <2>1. Block \in Nat  BY <1>4
  <2> QED BY <1>4, <2>1, Next1, Zenon
<1>10. d = Position(call.dst, k) /\ (call.fn # "memset" => s = Position(call.src, k + Block))
  BY <1>1, <1>3 DEF Going, Pointers
<1>11. PICK to : to = Target  OBVIOUS
<1>12. /\ to = Position(call.dst, IF Backward THEN k + Block ELSE k) /\ to \in Int
       /\ d' = Position(call.dst, k + Block)
       /\ mem' = [a \in Addresses |-> IF a \in to..to + Block - 1 THEN xmm[a - to] ELSE mem[a]]
  BY <1>9, <1>10, <1>11 DEF Moves, Target, Store
<1>13. Pointers'
  <2>1. PICK j : j = k + Block  OBVIOUS
  <2>2. Count' = j /\ d' = Position(call.dst, j) /\ (call.fn # "memset" => s' = Position(call.src, j))
    BY <1>1, <1>6, <1>10, <1>12, <2>1
  <2> QED BY <1>1, <2>2 DEF Pointers, Position, Backward
<1>14. ASSUME ~clobbered PROVE Holds(mem, Count)'
  <2>1. Holds(mem, k) /\ \A i \in Lanes : xmm[i] = Value(to + i)  BY <1>1, <1>3, <1>11, <1>14 DEF Going, Contents
  <2>2. PICK g : g = mem'  OBVIOUS
  <2>3. ASSUME NEW a \in Addresses PROVE g[a] = IF to <= a /\ a < to + Block THEN Value(a) ELSE mem[a]
    <3>1. a \in Nat  BY <1>4
    <3>2. CASE a \in to..to + Block - 1
      <4>1. PICK i \in Int : i = a - to  BY <1>12, <3>1
      <4>2. i \in Lanes /\ to + i = a  BY <1>4, <1>12, <3>1, <3>2, <4>1 DEF Lanes
      <4>3. xmm[i] = Value(a)  BY <2>1, <4>2
      <4>4. g[a] = xmm[i]  BY <1>12, <2>2, <3>2, <4>1
      <4> QED BY <1>4, <1>12, <3>1, <3>2, <4>3, <4>4
    <3>3. CASE a \notin to..to + Block - 1  BY <1>4, <1>12, <2>2, <3>1, <3>3
    <3> QED BY <3>2, <3>3
  <2>4. g \in [Addresses -> Int]
    <3>1. \A a \in Addresses : Value(a) \in Int /\ mem[a] \in Int  BY <1>4, <2>1 DEF Value, Fill, Holds
    <3>2. g = [a \in Addresses |-> g[a]]  BY <1>12, <2>2
    <3> QED BY <2>3, <3>1, <3>2
  <2>5. PICK f : f = mem  OBVIOUS
  <2>6. Holds(f, k) /\ \A a \in Addresses : g[a] = IF to <= a /\ a < to + Block THEN Value(a) ELSE f[a]  BY <2>1, <2>3, <2>5
  <2>7. Block \in Nat  BY <1>4
  <2>8. Holds(g, k + Block)  BY <1>3, <1>12, <2>4, <2>6, <2>7, More
  <2> QED BY <1>1, <1>6, <2>2, <2>8, HoldsThen
<1>15. ASSUME ~clobbered, phase' = "store" PROVE \A i \in Lanes : xmm'[i] = Value(Target + i)'
  <2>1. call.fn = "memset"  BY <1>1, <1>15
  <2>2. \A i \in Lanes : xmm[i] = Fill  BY <1>1, <1>15, <2>1 DEF Going, Contents, Value
  <2> QED BY <1>1, <2>1, <2>2 DEF Value
<1>16. Contents'  BY <1>1, <1>14, <1>15 DEF Contents
<1> QED BY <1>7, <1>8, <1>13, <1>16 DEF Going

LEMMA CopyStep ==
  ASSUME CopyInv, [Calls]_library PROVE CopyInv'
<1>1. ASSUME NEW c \in Copies, Copy(c) PROVE CopyInv'  BY <1>1, CopyStart
<1>2. ASSUME NEW p \in Prints, PrintNumber(p) PROVE CopyInv'
  <2>1. p.fn \notin {"memset", "memcpy", "memmove"}  BY DEF Prints
  <2>2. \A c \in Copies : c.fn \in {"memset", "memcpy", "memmove"}  BY DEF Copies
  <2>3. ~Active'  BY <1>2, <2>1, <2>2 DEF PrintNumber, Active
  <2>4. phase' # "idle"  BY <1>2 DEF PrintNumber
  <2> QED BY <2>3, <2>4 DEF CopyInv
<1>3. CASE Align \/ ToBlocks \/ Broadcast \/ Load \/ Store \/ Interrupt \/ Rest \/ Rep
  <2>1. UNCHANGED call /\ phase' # "idle"
    BY <1>3 DEF Align, ToBlocks, Broadcast, Load, Store, Interrupt, Rest, Rep
  <2>2. Active' <=> Active  BY <2>1, SameCall
  <2>3. ASSUME Active PROVE Going'
    BY <1>3, <2>3, AlignStep, ToBlocksStep, BroadcastStep, LoadStep, StoreStep, InterruptStep, RestStep, RepStep
  <2> QED BY <2>1, <2>2, <2>3 DEF CopyInv
<1>5. CASE PrintsOn
  <2>1. UNCHANGED call /\ phase \in {"number", "divide"} /\ phase' # "idle"
    BY <1>5 DEF PrintsOn, Call32, Divide, udivmod64, Call64, Putchars
  <2>2. ~Active  BY <2>1 DEF CopyInv, Going, Phases
  <2>3. ~Active'  BY <2>1, <2>2, SameCall
  <2> QED BY <2>1, <2>3 DEF CopyInv
<1>4. CASE UNCHANGED library
  BY <1>4 DEF library, CopyInv, Untouched, Active, Going, Bounds, Phases, Pointers, Contents, Holds, Low, Value, Target, Position,
              Count, Pending, Lead, Backward
<1> QED BY <1>1, <1>2, <1>3, <1>4, <1>5 DEF Calls, LibraryNext

(* What CopyExact says of the memory.                                      *)
Copied ==
  mem = [a \in Addresses |->
           IF a \notin call.dst..call.dst + call.n - 1 THEN a
           ELSE IF call.fn = "memset" THEN Fill ELSE a - call.dst + call.src]

(* Every call of a kind these functions support writes the bytes it was    *)
(* asked for, whatever the size of the block register and of the memory,   *)
(* unless a handler used the register in between.                          *)
THEOREM CopiesExact == Spec => []CopyExact
<1>1. Init => CopyInv
  <2> SUFFICES ASSUME Init PROVE CopyInv  OBVIOUS
  <2>1. phase = "idle" /\ call = NoCall /\ chunks = 0 /\ ~clobbered /\ mem = [a \in Addresses |-> a]  BY DEF Init, LibraryInit
  <2>2. \A c \in Copies : c.fn \in {"memset", "memcpy", "memmove"}  BY DEF Copies
  <2>3. call.fn = "none"  BY <2>1 DEF NoCall
  <2> QED BY <2>1, <2>2, <2>3 DEF CopyInv, Untouched, Active
<1>2. CopyInv /\ [Next]_<<boot, library>> => CopyInv'
  <2>1. [Next]_<<boot, library>> => [Calls]_library  BY DEF Next, init_boot
  <2> QED BY <2>1, CopyStep
<1>3. CopyInv => CopyExact
  <2> SUFFICES ASSUME Active, Going PROVE phase # "runaway" /\ (phase = "done" /\ ~clobbered => Copied)
    BY DEF CopyInv, CopyExact, Active, Copied
  <2>1. phase # "runaway"  BY DEF Going, Phases
  <2>2. ASSUME phase = "done", ~clobbered PROVE Copied
    <3>1. PICK k \in Nat : k = Count  BY CountIs DEF Going
    <3>2. Holds(mem, k)  BY <2>2, <3>1 DEF Going, Contents
    <3>3. call.n \in Nat /\ call.dst \in Nat /\ call.src \in Nat /\ Addresses = 0..Top /\ Top \in Nat  BY CallTypes
    <3>4. chunks = 0 /\ left \in Nat  BY <2>2 DEF Going, Phases, Bounds
    <3>5. Pending = left
      <4>1. Block * chunks = 0  BY <3>4, CallTypes
      <4> QED BY <3>4, <4>1 DEF Pending
    <3>6. CASE left = 0
      <4>1. k = call.n  BY <3>1, <3>3, <3>5, <3>6 DEF Count
      <4>2. Low(k) = call.dst  BY <3>3, <4>1 DEF Low
      <4>3. \A a \in Addresses : mem[a] = IF call.dst <= a /\ a < call.dst + call.n THEN Value(a) ELSE a
        BY <3>2, <4>1, <4>2 DEF Holds
      <4> QED BY <3>2, <3>3, <4>3 DEF Holds, Value, Copied
    <3>7. CASE k = 0 /\ call.dst = call.src /\ call.fn # "memset"
      <4>1. \A a \in Addresses : mem[a] = a
        <5>1. Low(k) \in Int  BY <3>3, <3>7 DEF Low
        <5> QED BY <3>2, <3>3, <3>7, <5>1 DEF Holds
      <4> QED BY <3>2, <3>3, <3>7, <4>1 DEF Holds, Copied
    <3> QED BY <2>2, <3>1, <3>6, <3>7 DEF Going, Phases
  <2> QED BY <2>1, <2>2
<1> QED BY <1>1, <1>2, <1>3, PTL DEF Spec

-----------------------------------------------------------------------------
(* Printing numbers.                                                       *)
LEMMA DivUnique ==
  ASSUME NEW b \in Nat \ {0}, NEW p \in Nat, NEW r \in Nat, NEW q \in Nat, NEW t \in Nat, r < b, t < b,
         b * p + r = b * q + t
  PROVE  p = q /\ r = t
<1>1. ASSUME NEW u \in Nat, NEW v \in Nat, NEW m \in Nat, NEW n \in Nat, m < b, n < b, b * u + m = b * v + n, u < v
      PROVE FALSE
  <2>1. PICK e \in Nat : v = u + e + 1  BY <1>1
  <2>2. b * v = b * u + b * e + b  BY <2>1
  <2>3. b * u \in Nat /\ b * e \in Nat  OBVIOUS
  <2> QED BY <1>1, <2>2, <2>3
<1>2. ~(p < q) /\ ~(q < p)  BY <1>1
<1>3. p = q  BY <1>2
<1>4. PICK w \in Nat : w = b * p  OBVIOUS
<1> QED BY <1>3, <1>4

(* The next bit of a quotient.                                             *)
LEMMA Halving ==
  ASSUME NEW P \in Nat \ {0}, NEW v \in Nat
  PROVE  /\ v \div P \in Nat /\ v \div (2 * P) \in Nat /\ (v \div P) % 2 \in {0, 1}
         /\ v \div P = 2 * (v \div (2 * P)) + ((v \div P) % 2)
<1>1. PICK y \in Nat, m \in Nat : y = v \div P /\ m < P /\ v = P * y + m  BY DivMod
<1>2. PICK z \in Nat, t \in Nat : z = y \div 2 /\ t = y % 2 /\ t < 2 /\ y = 2 * z + t  BY DivMod
<1>3. PICK D \in Nat \ {0} : D = 2 * P  OBVIOUS
<1>4. PICK q \in Nat, n \in Nat : q = v \div D /\ n < D /\ v = D * q + n  BY DivMod
<1>5. PICK j \in Nat : j = P * t + m /\ j < D
  <2>1. t = 0 \/ t = 1  BY <1>2
  <2>2. P * t \in Nat /\ (t = 0 => P * t = 0) /\ (t = 1 => P * t = P)  OBVIOUS
  <2> QED BY <1>1, <1>3, <2>1, <2>2
<1>6. P * y = D * z + P * t  BY <1>2, <1>3
<1>7. PICK e \in Nat, a \in Nat, c \in Nat : e = D * z /\ a = P * t /\ c = D * q  OBVIOUS
<1>8. c + n = e + j
  <2>1. v = c + n  BY <1>4, <1>7
  <2>2. v = (e + a) + m  BY <1>1, <1>6, <1>7
  <2>3. j = a + m  BY <1>5, <1>7
  <2> QED BY <1>1, <1>4, <1>5, <1>7, <2>1, <2>2, <2>3
<1>9. q = z  BY <1>4, <1>5, <1>7, <1>8, DivUnique
<1>10. v \div (2 * P) = q  BY <1>3, <1>4, Zenon
<1>11. y = 2 * q + t /\ t \in {0, 1}  BY <1>2, <1>9
<1>12. (v \div P) % 2 = t  BY <1>1, <1>2, Zenon
<1> QED BY <1>1, <1>4, <1>10, <1>11, <1>12

PowStep == [i \in Nat |-> [v \in Nat \ {0} |-> 2 * v]]

(* Pow is what its recursion says.                                         *)
LEMMA PowIs ==
  /\ Pow[0] = 1
  /\ \A k \in 0..Bits : Pow[k] \in Nat \ {0}
  /\ \A k \in 1..Bits : Pow[k] = 2 * Pow[k - 1]
<1>0. Bits \in Nat \ {0}  BY LibraryAssumption
<1> DEFINE g == CHOOSE a : a = [k \in 0..Bits |-> IF k = 0 THEN 1 ELSE 2 * a[k - 1]]
<1>1. IsStep(Nat \ {0}, PowStep) /\ 1 \in Nat \ {0}  BY DEF IsStep, PowStep
<1>2. PICK f : Iterates(Nat \ {0}, 1, PowStep, f)  BY <1>1, IterationExists
<1>3. f \in [Nat -> Nat \ {0}] /\ f[0] = 1 /\ \A n \in Nat : f[n + 1] = 2 * f[n]
  BY <1>2 DEF Iterates, PowStep
<1>4. PICK h : h = [k \in 0..Bits |-> f[k]]  OBVIOUS
<1>5. ASSUME NEW k \in 0..Bits, k # 0 PROVE h[k - 1] = f[k - 1] /\ f[k] = 2 * f[k - 1]
  <2>1. PICK j \in Nat : j = k - 1 /\ j \in 0..Bits /\ j + 1 = k  BY <1>0, <1>5
  <2>2. f[j + 1] = 2 * f[j]  BY <1>3
  <2> QED BY <1>4, <2>1, <2>2
<1>6. h = [k \in 0..Bits |-> IF k = 0 THEN 1 ELSE 2 * h[k - 1]]  BY <1>3, <1>4, <1>5
<1>7. g = [k \in 0..Bits |-> IF k = 0 THEN 1 ELSE 2 * g[k - 1]]  BY <1>6, Zenon
<1>8. Pow = g  BY DEF Pow
<1> HIDE DEF g
<1>9. g[0] = 1  BY <1>0, <1>7
<1>10. ASSUME NEW k \in 1..Bits PROVE g[k] = 2 * g[k - 1]
  <2>1. k \in 0..Bits /\ k # 0  OBVIOUS
  <2> QED BY <1>7, <2>1
<1>11. \A k \in 0..Bits : g[k] \in Nat \ {0}
  <2> DEFINE S == {n \in Nat : n <= Bits => g[n] \in Nat \ {0}}
  <2>1. 0 \in S  BY <1>9
  <2>2. ASSUME NEW n \in Nat, n \in S PROVE n + 1 \in S
    <3> SUFFICES ASSUME n + 1 <= Bits PROVE g[n + 1] \in Nat \ {0}  OBVIOUS
    <3>1. PICK k : k = n + 1  OBVIOUS
    <3>2. k \in 1..Bits /\ k - 1 = n  BY <1>0, <3>1
    <3>3. g[k] = 2 * g[n]  BY <1>10, <3>2
    <3> QED BY <1>0, <2>2, <3>1, <3>3
  <2>3. Nat \subseteq S
    <3> HIDE DEF S
    <3> QED BY <2>1, <2>2, NatInd
  <2> QED BY <1>0, <2>3
<1> QED BY <1>8, <1>9, <1>10, <1>11

(* The powers as numbers, and what they bound.                             *)
LEMMA Widths ==
  /\ Pow[Bits - 1] \in Nat \ {0} /\ Pow[Bits] \in Nat /\ Pow[Bits] = 2 * Pow[Bits - 1]
  /\ \A b \in Bases : b \in Nat /\ b >= 2 /\ b <= Pow[Bits - 1]
<1>1. Bits \in Nat \ {0} /\ Bases \subseteq 2..Pow[Bits - 1]  BY LibraryAssumption
<1>2. Bits - 1 \in 0..Bits /\ Bits \in 1..Bits /\ Bits \in 0..Bits  BY <1>1
<1>3. Pow[Bits - 1] \in Nat \ {0} /\ Pow[Bits] \in Nat /\ Pow[Bits] = 2 * Pow[Bits - 1]  BY <1>2, PowIs
<1> QED BY <1>1, <1>3

-----------------------------------------------------------------------------
(* Digits read from the left.                                              *)
Reads(f, v, t, b) ==
  /\ f \in [0..Len(t) -> Nat] /\ f[0] = v
  /\ \A k \in 1..Len(t) : f[k] = f[k - 1] * b + t[k]

HornerStep(t, b) == [i \in Nat |-> [v \in Nat |-> IF i < Len(t) THEN v * b + t[i + 1] ELSE v]]

LEMMA HornerIs ==
  ASSUME NEW v \in Nat, NEW b \in Nat, NEW t \in Seq(Nat)
  PROVE  Reads(Horner(v, t, b), v, t, b)
<1>0. Len(t) \in Nat /\ \A k \in 1..Len(t) : t[k] \in Nat  OBVIOUS
<1> DEFINE g == CHOOSE a : a = [k \in 0..Len(t) |-> IF k = 0 THEN v ELSE a[k - 1] * b + t[k]]
<1>1. IsStep(Nat, HornerStep(t, b))
  <2>1. ASSUME NEW i \in Nat, NEW u \in Nat PROVE (IF i < Len(t) THEN u * b + t[i + 1] ELSE u) \in Nat
    <3>1. CASE i < Len(t)
      <4>1. PICK j : j = i + 1 /\ j \in 1..Len(t)  BY <1>0, <3>1
      <4>2. PICK x \in Nat : x = t[i + 1]  BY <1>0, <4>1
      <4>3. u * b \in Nat  OBVIOUS
      <4> QED BY <3>1, <4>2, <4>3
    <3>2. CASE ~(i < Len(t))  BY <3>2
    <3> QED BY <3>1, <3>2
  <2> QED BY <2>1 DEF IsStep, HornerStep
<1>2. PICK f : Iterates(Nat, v, HornerStep(t, b), f)  BY <1>1, IterationExists
<1>3. f \in [Nat -> Nat] /\ f[0] = v /\ \A n \in Nat : f[n + 1] = IF n < Len(t) THEN f[n] * b + t[n + 1] ELSE f[n]
  BY <1>2 DEF Iterates, HornerStep
<1>4. PICK h : h = [k \in 0..Len(t) |-> f[k]]  OBVIOUS
<1>5. ASSUME NEW k \in 0..Len(t), k # 0 PROVE h[k - 1] = f[k - 1] /\ f[k] = f[k - 1] * b + t[k]
  <2>1. PICK j \in Nat : j = k - 1 /\ j \in 0..Len(t) /\ j + 1 = k /\ j < Len(t)  BY <1>0, <1>5
  <2>2. f[j + 1] = f[j] * b + t[j + 1]  BY <1>3, <2>1
  <2> QED BY <1>4, <2>1, <2>2
<1>6. h = [k \in 0..Len(t) |-> IF k = 0 THEN v ELSE h[k - 1] * b + t[k]]
  <2>1. \A k \in 0..Len(t) : f[k] = IF k = 0 THEN v ELSE h[k - 1] * b + t[k]  BY <1>3, <1>5
  <2> QED BY <1>4, <2>1
<1>7. g = [k \in 0..Len(t) |-> IF k = 0 THEN v ELSE g[k - 1] * b + t[k]]  BY <1>6, Zenon
<1>8. Horner(v, t, b) = g  BY DEF Horner
<1> HIDE DEF g
<1>9. g[0] = v  BY <1>0, <1>7
<1>10. ASSUME NEW k \in 1..Len(t) PROVE g[k] = g[k - 1] * b + t[k]
  <2>1. k \in 0..Len(t) /\ k # 0  OBVIOUS
  <2> QED BY <1>7, <2>1
<1>11. \A k \in 0..Len(t) : g[k] \in Nat
  <2> DEFINE S == {n \in Nat : n <= Len(t) => g[n] \in Nat}
  <2>1. 0 \in S  BY <1>9
  <2>2. ASSUME NEW n \in Nat, n \in S PROVE n + 1 \in S
    <3> SUFFICES ASSUME n + 1 <= Len(t) PROVE g[n + 1] \in Nat  OBVIOUS
    <3>1. PICK k : k = n + 1  OBVIOUS
    <3>2. k \in 1..Len(t) /\ k - 1 = n  BY <1>0, <3>1
    <3>3. g[k] = g[n] * b + t[k]  BY <1>10, <3>2
    <3>4. PICK u \in Nat : u = g[n]  BY <1>0, <2>2
    <3>5. u * b \in Nat /\ t[k] \in Nat  BY <1>0, <3>2
    <3> QED BY <3>1, <3>3, <3>4, <3>5
  <2>3. Nat \subseteq S
    <3> HIDE DEF S
    <3> QED BY <2>1, <2>2, NatInd
  <2> QED BY <1>0, <2>3
<1>12. g \in [0..Len(t) -> Nat]  BY <1>7, <1>11
<1> QED BY <1>8, <1>9, <1>10, <1>12 DEF Reads

(* What digits stand for behind v.                                         *)
Behind(v, t, b) == Horner(v, t, b)[Len(t)]

LEMMA BehindNone == ASSUME NEW v \in Nat, NEW b \in Nat PROVE Behind(v, <<>>, b) = v
<1>0. <<>> \in Seq(Nat) /\ Len(<<>>) = 0  OBVIOUS
<1>1. PICK t : t = <<>> /\ t \in Seq(Nat) /\ Len(t) = 0  BY <1>0, Zenon
<1>2. Reads(Horner(v, t, b), v, t, b)  BY <1>1, HornerIs
<1> QED BY <1>1, <1>2 DEF Reads, Behind

LEMMA Prepend ==
  ASSUME NEW x \in Nat, NEW u \in Seq(Nat), NEW t, t = <<x>> \o u
  PROVE  t \in Seq(Nat) /\ Len(t) = Len(u) + 1 /\ t[1] = x /\ \A k \in 1..Len(u) : t[k + 1] = u[k]
  OBVIOUS

(* A digit in front of others is a digit behind v.                         *)
LEMMA BehindMore ==
  ASSUME NEW v \in Nat, NEW b \in Nat, NEW x \in Nat, NEW u \in Seq(Nat), NEW w \in Nat, w = v * b + x
  PROVE  Behind(v, <<x>> \o u, b) = Behind(w, u, b)
<1>1. PICK t : t = <<x>> \o u  OBVIOUS
<1>2. t \in Seq(Nat) /\ Len(t) = Len(u) + 1 /\ t[1] = x /\ \A k \in 1..Len(u) : t[k + 1] = u[k]  BY <1>1, Prepend
<1>3. PICK f : f = Horner(v, t, b)  OBVIOUS
<1>4. PICK g : g = Horner(w, u, b)  OBVIOUS
<1>5. Reads(f, v, t, b)  BY <1>2, <1>3, HornerIs
<1>6. Reads(g, w, u, b)  BY <1>4, HornerIs
<1>7. PICK n \in Nat : n = Len(u)  OBVIOUS
<1> DEFINE S == {k \in Nat : k <= n => f[k + 1] = g[k]}
<1>8. 0 \in S
  <2>1. 1 \in 1..Len(t) /\ 1 - 1 = 0 /\ 0 + 1 = 1  BY <1>2, <1>7
  <2>2. f[1] = f[0] * b + t[1] /\ f[0] = v /\ g[0] = w  BY <1>5, <1>6, <2>1 DEF Reads
  <2> QED BY <1>2, <2>1, <2>2
<1>9. ASSUME NEW k \in Nat, k \in S PROVE k + 1 \in S
  <2> SUFFICES ASSUME k + 1 <= n PROVE f[(k + 1) + 1] = g[k + 1]  OBVIOUS
  <2>1. PICK j \in 1..Len(u), i \in 1..Len(t) : j = k + 1 /\ i = (k + 1) + 1 /\ j - 1 = k /\ i - 1 = k + 1 /\ i = j + 1
    BY <1>2, <1>7
  <2>2. f[i] = f[i - 1] * b + t[i]  BY <1>5 DEF Reads
  <2>3. g[j] = g[j - 1] * b + u[j]  BY <1>6 DEF Reads
  <2>4. t[i] = u[j]  BY <1>2, <2>1
  <2>5. f[k + 1] = g[k]  BY <1>9, <1>7
  <2> QED BY <2>1, <2>2, <2>3, <2>4, <2>5
<1>10. Nat \subseteq S
  <2> HIDE DEF S
  <2> QED BY <1>8, <1>9, NatInd
<1>11. f[n + 1] = g[n]  BY <1>10
<1> QED BY <1>1, <1>2, <1>3, <1>4, <1>7, <1>11 DEF Behind

-----------------------------------------------------------------------------
Absolute(v) == IF v < 0 THEN -v ELSE v
Sign(v) == IF v < 0 THEN <<Minus>> ELSE <<>>

(* n and the digits owed behind it are still the number v.                 *)
Printing(n, o, b, v) ==
  n \in Nat /\ n < Pow[Bits] /\ o \in Seq(0..b - 1) /\ (o # <<>> => n >= 1) /\ Behind(n, o, b) = Absolute(v)

(* With k bits to go, the bits above are divided: q is m shifted by k.     *)
Dividing(n, b, q, r, k) ==
  n >= b /\ k \in 0..Bits /\ r \in Nat /\ r < b /\ \E m \in Nat : q = Pow[k] * m /\ m * b + r = n \div Pow[k]

NumInv ==
  /\ phase \in {"number", "divide"} =>
       call \in Prints /\ Printing(rest, owed, call.base, call.val) /\ digits = Sign(call.val)
  /\ phase = "divide" => Dividing(rest, call.base, quot, rem, bit)
  /\ NumbersExact

LEMMA PrintTypes ==
  ASSUME NEW p \in Prints
  PROVE  /\ p.base \in Nat /\ p.base >= 2 /\ p.base <= Pow[Bits - 1] /\ p.val \in Int
         /\ p.fn \in {"print_uint32", "print_uint64", "print_signed32", "print_signed64"}
         /\ -Pow[Bits - 1] <= p.val /\ p.val < Pow[Bits]
<1>1. PICK W \in Nat, H \in Nat : W = Pow[Bits] /\ H = Pow[Bits - 1] /\ W = 2 * H  BY Widths
<1>2. p.base \in Bases  BY DEF Prints
<1>3. p.fn \in {"print_uint32", "print_uint64", "print_signed32", "print_signed64"}  BY DEF Prints
<1>4. p.val \in 0..W - 1 \/ p.val \in -H..H - 1  BY <1>1 DEF Prints
<1>5. p.val \in Int /\ -H <= p.val /\ p.val < W  BY <1>1, <1>4
<1> QED BY <1>1, <1>2, <1>3, <1>5, Widths

(* A digit is split off and owed.                                          *)
LEMMA SplitsOff ==
  ASSUME NEW n, NEW o, NEW b \in Nat, NEW v, b >= 2, Printing(n, o, b, v), n >= b,
         NEW q \in Nat, NEW r \in Nat, r < b, n = q * b + r
  PROVE  Printing(q, <<r>> \o o, b, v)
<1>1. n \in Nat /\ n < Pow[Bits] /\ o \in Seq(0..b - 1) /\ Behind(n, o, b) = Absolute(v)  BY DEF Printing
<1>2. o \in Seq(Nat) /\ r \in 0..b - 1  BY <1>1
<1>3. Behind(q, <<r>> \o o, b) = Behind(n, o, b)  BY <1>1, <1>2, BehindMore
<1>4. <<r>> \o o \in Seq(0..b - 1)  BY <1>1, <1>2
<1>5. q >= 1 /\ q <= n
  <2>1. q = 0 => q * b = 0  OBVIOUS
  <2>2. q # 0  BY <2>1
  <2>3. PICK c \in Nat : b = 2 + c  OBVIOUS
  <2>4. PICK e \in Nat : e = q * c  BY <2>3
  <2>5. q * b = 2 * q + e  BY <2>3, <2>4
  <2> QED BY <1>1, <2>2, <2>5
<1>6. Pow[Bits] \in Nat  BY Widths
<1> QED BY <1>1, <1>3, <1>4, <1>5, <1>6 DEF Printing

LEMMA BitSplit ==
  ASSUME NEW b \in Nat, NEW m \in Nat, NEW r \in Nat, NEW c \in {0, 1}, NEW y \in Nat, m * b + r = y
  PROVE  /\ (2 * m) * b + (2 * r + c) = 2 * y + c
         /\ (2 * m + 1) * b + (2 * r + c - b) = 2 * y + c
<1>1. PICK e \in Nat : e = m * b  OBVIOUS
<1>2. (2 * m) * b = 2 * e /\ (2 * m + 1) * b = 2 * e + b  BY <1>1
<1> QED BY <1>1, <1>2

(* The next bit is divided; the shifted remainder does not wrap.           *)
LEMMA DividesOn ==
  ASSUME NEW n \in Nat, NEW b \in Nat, NEW q, NEW r, NEW k, Dividing(n, b, q, r, k), k > 0, b <= Pow[Bits - 1],
         NEW j, j = k - 1, NEW t, t = ((2 * r) % Pow[Bits]) + Bit(n, j)
  PROVE  IF t >= b THEN Dividing(n, b, q + Pow[j], t - b, j) ELSE Dividing(n, b, q, t, j)
<1>0. Bits \in Nat  BY LibraryAssumption
<1>1. n >= b /\ k \in 0..Bits /\ r \in Nat /\ r < b  BY DEF Dividing
<1>2. k \in 1..Bits /\ j \in 0..Bits  BY <1>0, <1>1
<1>3. PICK P \in Nat \ {0}, D \in Nat \ {0} : P = Pow[j] /\ D = Pow[k] /\ D = 2 * P  BY <1>2, PowIs
<1>4. PICK m \in Nat : q = D * m /\ m * b + r = n \div D  BY <1>3 DEF Dividing
<1>5. PICK y \in Nat, c \in {0, 1}, z \in Nat : y = n \div D /\ c = Bit(n, j) /\ z = n \div P /\ z = 2 * y + c
  <2>1. n \div P \in Nat /\ n \div (2 * P) \in Nat /\ (n \div P) % 2 \in {0, 1}
        /\ n \div P = 2 * (n \div (2 * P)) + ((n \div P) % 2)  BY Halving
  <2>2. Bit(n, j) = (n \div P) % 2  BY <1>3 DEF Bit
  <2> QED BY <1>3, <2>1, <2>2
<1>6. t = 2 * r + c
  <2>1. PICK W \in Nat, H \in Nat : W = Pow[Bits] /\ H = Pow[Bits - 1] /\ W = 2 * H  BY Widths
  <2>2. 2 * r < W /\ 2 * r \in Nat  BY <1>1, <2>1
  <2>3. (2 * r) % W = 2 * r  BY <2>1, <2>2
  <2> QED BY <1>5, <2>1, <2>3
<1>7. m * b + r = y  BY <1>4, <1>5
<1>8. (2 * m) * b + (2 * r + c) = z /\ (2 * m + 1) * b + (2 * r + c - b) = z  BY <1>1, <1>5, <1>7, BitSplit
<1>9. ASSUME t >= b PROVE Dividing(n, b, q + Pow[j], t - b, j)
  <2>1. PICK l \in Nat : l = 2 * m + 1  OBVIOUS
  <2>2. q + P = P * l  BY <1>3, <1>4, <2>1
  <2>3. l * b + (t - b) = z  BY <1>6, <1>8, <2>1
  <2>4. t - b \in Nat /\ t - b < b  BY <1>1, <1>6, <1>9
  <2> QED BY <1>1, <1>2, <1>3, <1>5, <2>2, <2>3, <2>4 DEF Dividing
<1>10. ASSUME ~(t >= b) PROVE Dividing(n, b, q, t, j)
  <2>1. PICK l \in Nat : l = 2 * m  OBVIOUS
  <2>2. q = P * l  BY <1>3, <1>4, <2>1
  <2>3. l * b + t = z  BY <1>6, <1>8, <2>1
  <2>4. t \in Nat /\ t < b  BY <1>1, <1>6, <1>10
  <2> QED BY <1>1, <1>2, <1>3, <1>5, <2>2, <2>3, <2>4 DEF Dividing
<1> QED BY <1>9, <1>10

(* The division begins with no bit divided and ends with all of them.      *)
LEMMA DividesFirst ==
  ASSUME NEW n \in Nat, NEW b \in Nat, n < Pow[Bits], n >= b, b > 0 PROVE Dividing(n, b, 0, 0, Bits)
<1>1. Bits \in 0..Bits  BY LibraryAssumption
<1>2. PICK W \in Nat : W = Pow[Bits]  BY Widths
<1>3. n \div W = 0  BY <1>2
<1>4. W * 0 = 0 /\ 0 * b + 0 = 0  BY <1>2
<1> QED BY <1>1, <1>2, <1>3, <1>4 DEF Dividing

LEMMA DividesLast ==
  ASSUME NEW n \in Nat, NEW b \in Nat, NEW q, NEW r, Dividing(n, b, q, r, 0)
  PROVE  q \in Nat /\ r \in Nat /\ r < b /\ n = q * b + r
<1>1. PICK m \in Nat : q = Pow[0] * m /\ m * b + r = n \div Pow[0]  BY DEF Dividing
<1>2. Pow[0] = 1  BY PowIs
<1>3. n \div 1 = n /\ 1 * m = m  OBVIOUS
<1>4. r \in Nat /\ r < b  BY DEF Dividing
<1> QED BY <1>1, <1>2, <1>3, <1>4

(* What NumbersExact says of the digits t of the number v.                 *)
ExactDigits(t, v, b) ==
  LET shown == IF v < 0 THEN Tail(t) ELSE t
      value == Horner(0, shown, b)[Len(shown)]
  IN  /\ \A i \in DOMAIN shown : shown[i] \in 0..b - 1
      /\ shown[1] = 0 => Len(shown) = 1
      /\ v = IF v < 0 /\ t[1] = Minus THEN -value ELSE value

LEMMA ExactIs == NumbersExact <=> (phase = "printed" => ExactDigits(digits, call.val, call.base))
  BY DEF NumbersExact, ExactDigits

LEMMA SignFirst ==
  ASSUME NEW x, NEW m, NEW o, NEW X, x \in X, o \in Seq(X)
  PROVE  /\ <<>> \o <<x>> \o o = <<x>> \o o
         /\ Tail(<<m>> \o <<x>> \o o) = <<x>> \o o /\ (<<m>> \o <<x>> \o o)[1] = m
  OBVIOUS

LEMMA PrintsLast ==
  ASSUME NEW n, NEW o, NEW b \in Nat, NEW v \in Int, b >= 2, Printing(n, o, b, v), ~(n >= b)
  PROVE  ExactDigits(Sign(v) \o <<n % b>> \o o, v, b)
<1>1. n \in Nat /\ n < b /\ o \in Seq(0..b - 1) /\ (o # <<>> => n >= 1) /\ Behind(n, o, b) = Absolute(v)
  BY DEF Printing
<1>2. n % b = n /\ n \in 0..b - 1  BY <1>1
<1>3. PICK u : u = <<n>> \o o  OBVIOUS
<1>4. u \in Seq(0..b - 1) /\ u[1] = n  BY <1>1, <1>2, <1>3
<1>5. PICK t : t = Sign(v) \o <<n>> \o o  OBVIOUS
<1>6. (v < 0 => u = Tail(t) /\ t[1] = Minus) /\ (~(v < 0) => u = t)
  <2>1. <<>> \o <<n>> \o o = u /\ Tail(<<Minus>> \o <<n>> \o o) = u /\ (<<Minus>> \o <<n>> \o o)[1] = Minus
    BY <1>1, <1>2, <1>3
  <2>2. (v < 0 => Sign(v) = <<Minus>>) /\ (~(v < 0) => Sign(v) = <<>>)  BY DEF Sign
  <2> QED BY <1>5, <2>1, <2>2, Zenon
<1>7. u[1] = 0 => Len(u) = 1  BY <1>1, <1>2, <1>3
<1>8. Behind(0, u, b) = Absolute(v)
  <2>1. o \in Seq(Nat) /\ n = 0 * b + n  BY <1>1
  <2>2. Behind(0, u, b) = Behind(n, o, b)  BY <1>1, <1>3, <2>1, BehindMore
  <2> QED BY <1>1, <2>2
<1>9. \A i \in DOMAIN u : u[i] \in 0..b - 1  BY <1>4
<1>10. v = IF v < 0 THEN -Behind(0, u, b) ELSE Behind(0, u, b)  BY <1>8 DEF Absolute
<1>11. ExactDigits(t, v, b)
  <2>1. CASE v < 0  BY <1>6, <1>7, <1>9, <1>10, <2>1 DEF ExactDigits, Behind
  <2>2. CASE ~(v < 0)  BY <1>6, <1>7, <1>9, <1>10, <2>2 DEF ExactDigits, Behind
  <2> QED BY <2>1, <2>2
<1> QED BY <1>2, <1>5, <1>11

-----------------------------------------------------------------------------
(* The steps.                                                              *)
LEMMA NumberStart ==
  ASSUME NEW p \in Prints, PrintNumber(p) PROVE NumInv'
<1>1. /\ phase' = "number" /\ call' = p /\ rest' = Magnitude(p) /\ owed' = <<>> /\ digits' = Sign(p.val)
  BY DEF PrintNumber, Sign
<1>2. p.val \in Int /\ p.base \in Nat /\ -Pow[Bits - 1] <= p.val /\ p.val < Pow[Bits]  BY PrintTypes
<1>3. PICK W \in Nat, H \in Nat \ {0} : W = Pow[Bits] /\ H = Pow[Bits - 1] /\ W = 2 * H  BY Widths
<1>4. PICK v \in Int : v = p.val /\ -H <= v /\ v < W  BY <1>2, <1>3
<1>5. Magnitude(p) = Absolute(v) /\ Absolute(v) \in Nat /\ Absolute(v) < W
  <2>1. CASE v >= 0  BY <1>3, <1>4, <2>1 DEF Magnitude, Absolute
  <2>2. CASE ~(v >= 0)
    <3>1. PICK a \in Nat : a = -v /\ a < W  BY <1>3, <1>4, <2>2
    <3>2. a % W = a  BY <1>3, <3>1
    <3>3. Negated32(v) = a /\ Negated64(v) = a  BY <1>3, <3>1, <3>2 DEF Negated32, Negated64
    <3> QED BY <1>4, <2>2, <3>1, <3>3 DEF Magnitude, Absolute
  <2> QED BY <2>1, <2>2
<1>6. PICK n \in Nat : n = Magnitude(p) /\ n = Absolute(p.val) /\ n < Pow[Bits]  BY <1>3, <1>4, <1>5
<1>7. Behind(n, <<>>, p.base) = n  BY <1>2, BehindNone
<1>8. <<>> \in Seq(0..p.base - 1)  OBVIOUS
<1>9. Printing(n, <<>>, p.base, p.val)  BY <1>6, <1>7, <1>8 DEF Printing
<1>10. (call \in Prints /\ Printing(rest, owed, call.base, call.val) /\ digits = Sign(call.val))'
  <2>1. rest' = n  BY <1>1, <1>6
  <2>2. Printing(rest', owed', call'.base, call'.val)  BY <1>1, <1>9, <2>1, Zenon
  <2>3. Printing(rest, owed, call.base, call.val)'  BY <2>2 DEF Printing, Behind, Horner, Absolute
  <2> QED BY <1>1, <2>3 DEF Sign
<1>11. NumbersExact'  BY <1>1 DEF NumbersExact
<1> QED BY <1>1, <1>10, <1>11 DEF NumInv

(* NumInv next, from its values next.                                      *)
LEMMA NumNext ==
  ASSUME NEW n, NEW o, NEW p, NEW t, rest' = n, owed' = o, call' = p, digits' = t, phase' # "printed",
         p \in Prints, Printing(n, o, p.base, p.val), t = Sign(p.val),
         phase' = "divide" => Dividing(n, p.base, quot', rem', bit')
  PROVE  NumInv'
<1>1. Printing(rest', owed', call'.base, call'.val) /\ digits' = Sign(call'.val) /\ call' \in Prints  BY Zenon
<1>2. (call \in Prints /\ Printing(rest, owed, call.base, call.val) /\ digits = Sign(call.val))'
  BY <1>1 DEF Printing, Behind, Horner, Absolute, Sign, Prints
<1>3. phase' = "divide" => Dividing(rest', call'.base, quot', rem', bit')  BY Zenon
<1>4. (phase = "divide" => Dividing(rest, call.base, quot, rem, bit))'  BY <1>3 DEF Dividing
<1>5. NumbersExact'  BY DEF NumbersExact
<1> QED BY <1>2, <1>4, <1>5 DEF NumInv

LEMMA ExactThen ==
  ASSUME NEW t, NEW v, NEW b, digits' = t, call'.val = v, call'.base = b, ExactDigits(t, v, b)
  PROVE  ExactDigits(digits, call.val, call.base)'
<1>1. ExactDigits(digits', call'.val, call'.base)  BY Zenon
<1> QED BY <1>1 DEF ExactDigits, Horner

LEMMA Call32Step ==
  ASSUME NumInv, Call32 PROVE NumInv'
<1>1. /\ phase = "number" /\ phase' = "number" /\ call' = call /\ digits' = digits /\ rest >= call.base
      /\ owed' = <<rest % call.base>> \o owed /\ rest' = rest \div call.base
  BY DEF Call32, PrintsMore
<1>2. call \in Prints /\ Printing(rest, owed, call.base, call.val) /\ digits = Sign(call.val)  BY <1>1 DEF NumInv
<1>3. PICK b \in Nat : b = call.base /\ b >= 2  BY <1>2, PrintTypes
<1>4. PICK n \in Nat : n = rest  BY <1>2 DEF Printing
<1>a. b \in Nat \ {0}  BY <1>3
<1>5. PICK q \in Nat, r \in Nat : q = n \div b /\ r = n % b /\ r < b /\ n = b * q + r  BY <1>a, DivMod
<1>6. n = q * b + r  BY <1>5
<1>7. Printing(q, <<r>> \o owed, b, call.val)  BY <1>1, <1>2, <1>3, <1>4, <1>5, <1>6, SplitsOff
<1>8. rest' = q /\ owed' = <<r>> \o owed  BY <1>1, <1>3, <1>4, <1>5
<1>9. Printing(q, <<r>> \o owed, call.base, call.val)  BY <1>3, <1>7, Zenon
<1> QED BY <1>1, <1>2, <1>8, <1>9, NumNext

LEMMA DivideStep ==
  ASSUME NumInv, Divide PROVE NumInv'
<1>1. /\ phase = "number" /\ phase' = "divide" /\ call' = call /\ digits' = digits /\ rest >= call.base
      /\ owed' = owed /\ rest' = rest /\ quot' = 0 /\ rem' = 0 /\ (call.base # 0 => bit' = Bits)
  BY DEF Divide, PrintsMore
<1>2. call \in Prints /\ Printing(rest, owed, call.base, call.val) /\ digits = Sign(call.val)  BY <1>1 DEF NumInv
<1>3. PICK b \in Nat : b = call.base /\ b >= 2  BY <1>2, PrintTypes
<1>4. PICK n \in Nat : n = rest /\ n < Pow[Bits]  BY <1>2 DEF Printing
<1>5. Dividing(n, b, 0, 0, Bits)  BY <1>1, <1>3, <1>4, DividesFirst
<1>6. Dividing(rest, call.base, quot', rem', bit')  BY <1>1, <1>3, <1>4, <1>5
<1> QED BY <1>1, <1>2, <1>6, NumNext

LEMMA BitStep ==
  ASSUME NumInv, udivmod64 PROVE NumInv'
<1>1. /\ phase = "divide" /\ phase' = "divide" /\ call' = call /\ digits' = digits /\ bit > 0 /\ bit' = bit - 1
      /\ owed' = owed /\ rest' = rest
  BY DEF udivmod64
<1>2. call \in Prints /\ Printing(rest, owed, call.base, call.val) /\ digits = Sign(call.val)
      /\ Dividing(rest, call.base, quot, rem, bit)
  BY <1>1 DEF NumInv
<1>3. PICK b \in Nat : b = call.base /\ b <= Pow[Bits - 1]  BY <1>2, PrintTypes
<1>4. PICK n \in Nat : n = rest  BY <1>2 DEF Printing
<1>5. PICK j : j = bit - 1  OBVIOUS
<1>6. PICK t : t = ((2 * rem) % Pow[Bits]) + Bit(n, j)  OBVIOUS
<1>7. IF t >= b THEN Dividing(n, b, quot + Pow[j], t - b, j) ELSE Dividing(n, b, quot, t, j)
  BY <1>1, <1>2, <1>3, <1>4, <1>5, <1>6, DividesOn
<1>8. IF t >= b THEN rem' = t - b /\ quot' = quot + Pow[j] ELSE rem' = t /\ quot' = quot
  BY <1>3, <1>4, <1>5, <1>6 DEF udivmod64
<1>9. Dividing(rest, call.base, quot', rem', bit')  BY <1>1, <1>3, <1>4, <1>5, <1>7, <1>8
<1> QED BY <1>1, <1>2, <1>9, NumNext

LEMMA Call64Step ==
  ASSUME NumInv, Call64 PROVE NumInv'
<1>1. /\ phase = "divide" /\ bit = 0 /\ phase' = "number" /\ call' = call /\ digits' = digits
      /\ owed' = <<rem>> \o owed /\ rest' = quot
  BY DEF Call64
<1>2. call \in Prints /\ Printing(rest, owed, call.base, call.val) /\ digits = Sign(call.val)
      /\ Dividing(rest, call.base, quot, rem, 0)
  BY <1>1 DEF NumInv
<1>3. PICK b \in Nat : b = call.base /\ b >= 2  BY <1>2, PrintTypes
<1>4. PICK n \in Nat : n = rest /\ n >= b  BY <1>2, <1>3 DEF Printing, Dividing
<1>5. quot \in Nat /\ rem \in Nat /\ rem < b /\ n = quot * b + rem  BY <1>2, <1>3, <1>4, DividesLast
<1>6. Printing(quot, <<rem>> \o owed, b, call.val)  BY <1>2, <1>3, <1>4, <1>5, SplitsOff
<1>7. Printing(quot, <<rem>> \o owed, call.base, call.val)  BY <1>3, <1>6, Zenon
<1> QED BY <1>1, <1>2, <1>7, NumNext

LEMMA PutcharsStep ==
  ASSUME NumInv, Putchars PROVE NumInv'
<1>1. /\ phase = "number" /\ phase' = "printed" /\ call' = call /\ ~(rest >= call.base)
      /\ digits' = digits \o <<rest % call.base>> \o owed
  BY DEF Putchars, PrintsMore
<1>2. call \in Prints /\ Printing(rest, owed, call.base, call.val) /\ digits = Sign(call.val)  BY <1>1 DEF NumInv
<1>3. PICK b \in Nat : b = call.base /\ b >= 2  BY <1>2, PrintTypes
<1>4. PICK v \in Int : v = call.val  BY <1>2, PrintTypes
<1>5. ExactDigits(Sign(v) \o <<rest % b>> \o owed, v, b)  BY <1>1, <1>2, <1>3, <1>4, PrintsLast
<1>6. ExactDigits(digits', call.val, call.base)  BY <1>1, <1>2, <1>3, <1>4, <1>5, Zenon
<1>7. ExactDigits(digits, call.val, call.base)'  BY <1>1, <1>6, ExactThen
<1>8. NumbersExact'
  <2>1. NumbersExact' <=> (phase = "printed" => ExactDigits(digits, call.val, call.base))'  BY ExactIs, PTL
  <2> QED BY <1>7, <2>1
<1> QED BY <1>1, <1>8 DEF NumInv

LEMMA NumStep ==
  ASSUME NumInv, [Calls]_library PROVE NumInv'
<1>1. ASSUME NEW c \in Copies, Copy(c) PROVE NumInv'
  <2>1. phase' \in {"done", "align", "rep"}  BY <1>1 DEF Copy
  <2> QED BY <2>1 DEF NumInv, NumbersExact
<1>2. ASSUME NEW p \in Prints, PrintNumber(p) PROVE NumInv'  BY <1>2, NumberStart
<1>3. CASE Align \/ ToBlocks \/ Broadcast \/ Load \/ Store \/ Interrupt \/ Rest \/ Rep
  <2>1. phase' \in {"align", "tail", "runaway", "broadcast", "load", "store", "done", "rep"}
    BY <1>3 DEF Align, ToBlocks, Broadcast, Load, Store, StopsAt, Interrupt, Rest, Rep
  <2> QED BY <2>1 DEF NumInv, NumbersExact
<1>4. CASE PrintsOn  BY <1>4, Call32Step, DivideStep, BitStep, Call64Step, PutcharsStep DEF PrintsOn
<1>5. CASE UNCHANGED library
  <2>1. UNCHANGED <<phase, call, digits, rest, owed, quot, rem, bit>>  BY <1>5 DEF library, printer, division
  <2>2. (phase \in {"number", "divide"} =>
           call \in Prints /\ Printing(rest, owed, call.base, call.val) /\ digits = Sign(call.val))'
    BY <2>1 DEF NumInv
  <2>3. (phase = "divide" => Dividing(rest, call.base, quot, rem, bit))'  BY <2>1 DEF NumInv
  <2>4. NumbersExact' <=> (phase = "printed" => ExactDigits(digits, call.val, call.base))'  BY ExactIs, PTL
  <2>5. NumbersExact <=> (phase = "printed" => ExactDigits(digits, call.val, call.base))  BY ExactIs
  <2>6. NumbersExact'  BY <2>1, <2>4, <2>5 DEF NumInv
  <2> QED BY <2>2, <2>3, <2>6 DEF NumInv
<1> QED BY <1>1, <1>2, <1>3, <1>4, <1>5 DEF Calls, LibraryNext

(* What is printed is the number, whatever the width of the words and the  *)
(* base: the long division that print_uint64 calls is a division, its      *)
(* remainder never wraps, and of the lowest number the absolute value is   *)
(* printed too.                                                            *)
THEOREM NumbersRight == Spec => []NumbersExact
<1>1. Init => NumInv
  <2> SUFFICES ASSUME Init PROVE NumInv  OBVIOUS
  <2>1. phase = "idle"  BY DEF Init, LibraryInit
  <2> QED BY <2>1 DEF NumInv, NumbersExact
<1>2. NumInv /\ [Next]_<<boot, library>> => NumInv'
  <2>1. [Next]_<<boot, library>> => [Calls]_library  BY DEF Next, init_boot
  <2> QED BY <2>1, NumStep
<1>3. NumInv => NumbersExact  BY DEF NumInv
<1> QED BY <1>1, <1>2, <1>3, PTL DEF Spec

-----------------------------------------------------------------------------
(* The walk over the tags.                                                 *)
LEMMA UpGrows ==
  ASSUME NEW a \in Nat PROVE Up(a) \in Nat /\ Up(a) >= a
<1>1. PICK P \in Nat \ {0} : P = MULTIBOOT_TAG_ALIGN  BY BootInfoAssumption
<1>2. PICK x \in Nat : x = a + P - 1  BY <1>1
<1>3. x = P * (x \div P) + (x % P) /\ x % P \in 0 .. P - 1 /\ x \div P \in Nat  BY <1>1, DivMod
<1>4. PICK y \in Nat : y = (x \div P) * P  BY <1>3
<1>5. y = P * (x \div P)  BY <1>3, <1>4
<1>6. Up(a) = y  BY <1>1, <1>2, <1>4 DEF Up
<1> QED BY <1>1, <1>2, <1>3, <1>5, <1>6

AddressStep == [i \in Nat |-> [v \in Nat |-> IF i + 1 \in DOMAIN tags /\ i > 0 THEN v + Up(tags[i].size) ELSE v]]

(* Address is what its recursion says.                                     *)
LEMMA AddressIs ==
  ASSUME AList(tags)
  PROVE  /\ Address[1] = Header
         /\ \A k \in DOMAIN tags : Address[k] \in Nat
         /\ \A k \in DOMAIN tags : k + 1 \in DOMAIN tags => Address[k + 1] = Address[k] + Up(tags[k].size)
<1>0. Len(tags) \in Nat \ {0} /\ DOMAIN tags = 1..Len(tags) /\ \A k \in DOMAIN tags : Up(tags[k].size) \in Nat
  BY UpGrows DEF AList
<1> DEFINE g == CHOOSE a : a = [k \in DOMAIN tags |-> IF k = 1 THEN Header ELSE a[k - 1] + Up(tags[k - 1].size)]
<1>1. Header \in Nat /\ IsStep(Nat, AddressStep)
  BY <1>0 DEF IsStep, AddressStep, Header
<1>2. PICK f : Iterates(Nat, Header, AddressStep, f)
  BY <1>1, IterationExists
<1>3. /\ f \in [Nat -> Nat] /\ f[0] = Header
      /\ \A n \in Nat : f[n + 1] = IF n + 1 \in DOMAIN tags /\ n > 0 THEN f[n] + Up(tags[n].size) ELSE f[n]
  BY <1>2 DEF Iterates, AddressStep
<1>4. PICK h : h = [k \in DOMAIN tags |-> f[k]]  OBVIOUS
<1>5. f[1] = Header
  <2>1. 0 + 1 = 1 /\ ~(0 > 0) /\ 0 \in Nat  OBVIOUS
  <2> QED BY <1>3, <2>1
<1>6. ASSUME NEW k \in DOMAIN tags, k # 1
      PROVE  h[k - 1] = f[k - 1] /\ f[k] = f[k - 1] + Up(tags[k - 1].size)
  <2>1. k - 1 \in DOMAIN tags /\ k - 1 \in Nat /\ k - 1 > 0 /\ (k - 1) + 1 = k  BY <1>0, <1>6
  <2>2. PICK j : j = k - 1  OBVIOUS
  <2>3. f[j + 1] = f[j] + Up(tags[j].size)  BY <1>3, <2>1, <2>2
  <2> QED BY <1>4, <2>1, <2>2, <2>3
<1>7. h = [k \in DOMAIN tags |-> IF k = 1 THEN Header ELSE h[k - 1] + Up(tags[k - 1].size)]
  BY <1>4, <1>5, <1>6
<1>8. g = [k \in DOMAIN tags |-> IF k = 1 THEN Header ELSE g[k - 1] + Up(tags[k - 1].size)]
  BY <1>7, Zenon
<1>9. Address = g  BY DEF Address
<1> HIDE DEF g
<1>10. 1 \in DOMAIN tags  BY <1>0
<1>11. g[1] = Header  BY <1>8, <1>10
<1>12. ASSUME NEW k \in DOMAIN tags, k + 1 \in DOMAIN tags PROVE g[k + 1] = g[k] + Up(tags[k].size)
  <2>1. (k + 1) - 1 = k /\ k + 1 # 1  BY <1>0, <1>12
  <2>2. PICK j : j = k + 1  OBVIOUS
  <2>3. g[j] = g[j - 1] + Up(tags[j - 1].size)  BY <1>8, <1>12, <2>1, <2>2
  <2> QED BY <2>1, <2>2, <2>3
<1>13. \A k \in DOMAIN tags : g[k] \in Nat
  <2> DEFINE S == {n \in Nat : n + 1 \in DOMAIN tags => g[n + 1] \in Nat}
  <2>1. 0 \in S  BY <1>11 DEF Header
  <2>2. ASSUME NEW n \in Nat, n \in S PROVE n + 1 \in S
    <3> SUFFICES ASSUME (n + 1) + 1 \in DOMAIN tags PROVE g[(n + 1) + 1] \in Nat  OBVIOUS
    <3>1. n + 1 \in DOMAIN tags  BY <1>0
    <3>2. PICK k : k = n + 1  OBVIOUS
    <3>3. g[k] \in Nat /\ k \in DOMAIN tags /\ k + 1 \in DOMAIN tags  BY <2>2, <3>1, <3>2
    <3>4. g[k + 1] = g[k] + Up(tags[k].size)  BY <1>12, <3>3
    <3>5. g[k + 1] \in Nat  BY <1>0, <3>3, <3>4
    <3> QED BY <3>2, <3>5
  <2>3. Nat \subseteq S
    <3> HIDE DEF S
    <3> QED BY <2>1, <2>2, NatInd
  <2>4. ASSUME NEW k \in DOMAIN tags PROVE g[k] \in Nat
    <3>1. k - 1 \in Nat /\ (k - 1) + 1 = k  BY <1>0
    <3>2. k - 1 \in S  BY <2>3, <3>1
    <3> QED BY <3>1, <3>2
  <2> QED BY <2>4
<1> QED BY <1>9, <1>11, <1>12, <1>13

(* The tags lie one after the other, and inside the information.           *)
LEMMA Rising ==
  ASSUME AList(tags)
  PROVE  /\ \A j, k \in DOMAIN tags : j < k => Address[j] < Address[k]
         /\ \A k \in DOMAIN tags : Address[k] < End
<1>0. PICK last \in Nat \ {0} : last = Len(tags) /\ DOMAIN tags = 1..last
  BY Zenon DEF AList
<1>1. PICK f : f = Address  OBVIOUS
<1>2. ASSUME NEW k \in DOMAIN tags PROVE f[k] \in Nat /\ (k + 1 \in DOMAIN tags => f[k] < f[k + 1])
  <2>1. f[k] \in Nat  BY <1>1, AddressIs
  <2>2. ASSUME k + 1 \in DOMAIN tags PROVE f[k] < f[k + 1]
    <3>1. PICK w \in Nat : w = tags[k].size /\ w >= 8  BY DEF AList
    <3>2. Up(w) \in Nat /\ Up(w) >= w  BY <3>1, UpGrows
    <3>3. f[k + 1] = f[k] + Up(w)  BY <1>1, <2>2, <3>1, AddressIs
    <3> QED BY <2>1, <3>1, <3>2, <3>3
  <2> QED BY <2>1, <2>2
<1>3. \A j, k \in DOMAIN tags : j < k => f[j] < f[k]
  <2> DEFINE S == {n \in Nat : \A j, k \in DOMAIN tags : k = j + n + 1 => f[j] < f[k]}
  <2>1. 0 \in S
    <3> SUFFICES ASSUME NEW j \in DOMAIN tags, NEW k \in DOMAIN tags, k = j + 0 + 1 PROVE f[j] < f[k]  OBVIOUS
    <3>1. k = j + 1  BY <1>0
    <3> QED BY <1>2, <3>1
  <2>2. ASSUME NEW n \in Nat, n \in S PROVE n + 1 \in S
    <3> SUFFICES ASSUME NEW j \in DOMAIN tags, NEW k \in DOMAIN tags, k = j + (n + 1) + 1 PROVE f[j] < f[k]  OBVIOUS
    <3>1. PICK i \in DOMAIN tags : i = j + n + 1 /\ k = i + 1  BY <1>0
    <3>2. f[j] < f[i]  BY <2>2, <3>1
    <3>3. f[i] < f[k] /\ f[i] \in Nat /\ f[j] \in Nat /\ f[k] \in Nat  BY <1>2, <3>1
    <3> QED BY <3>2, <3>3
  <2>3. Nat \subseteq S
    <3> HIDE DEF S
    <3> QED BY <2>1, <2>2, NatInd
  <2>4. ASSUME NEW j \in DOMAIN tags, NEW k \in DOMAIN tags, j < k PROVE f[j] < f[k]
    <3>1. PICK n \in Nat : n = k - j - 1 /\ k = j + n + 1  BY <1>0, <2>4
    <3>2. n \in S  BY <2>3
    <3> QED BY <3>1, <3>2
  <2> QED BY <2>4
<1>4. ASSUME NEW k \in DOMAIN tags PROVE f[k] < End
  <2>1. last \in DOMAIN tags  BY <1>0
  <2>2. PICK w \in Nat : w = tags[last].size /\ w >= 8  BY <2>1 DEF AList
  <2>3. End = f[last] + w  BY <1>0, <1>1, <2>2 DEF End
  <2>4. k = last \/ k < last  BY <1>0
  <2>5. f[k] \in Nat /\ f[last] \in Nat  BY <1>2, <2>1
  <2>6. f[k] <= f[last]  BY <1>3, <2>1, <2>4, <2>5
  <2> QED BY <2>2, <2>3, <2>5, <2>6
<1> QED BY <1>1, <1>3, <1>4, Zenon

(* The walk finds at an address the tag that is there.                     *)
LEMMA TagHere ==
  ASSUME AList(tags), NEW k \in DOMAIN tags
  PROVE  TagAt(Address[k]) = tags[k]
<1>1. PICK f : f = Address  OBVIOUS
<1>2. PICK j \in DOMAIN tags : j = CHOOSE i \in DOMAIN tags : f[i] = f[k]
  <2>1. \E i \in DOMAIN tags : f[i] = f[k]  OBVIOUS
  <2> QED BY <2>1
<1>3. f[j] = f[k]  BY <1>2
<1>4. j \in Int /\ k \in Int /\ f[j] \in Nat /\ f[k] \in Nat  BY <1>1, AddressIs DEF AList
<1>5. \A a, b \in DOMAIN tags : a < b => f[a] < f[b]  BY <1>1, Rising
<1>6. ~(j < k)  BY <1>3, <1>4, <1>5
<1>7. ~(k < j)  BY <1>3, <1>4, <1>5
<1>8. j = k  BY <1>4, <1>6, <1>7
<1> QED BY <1>1, <1>2, <1>8 DEF TagAt

(* k is the last of the first m tags that is in ks, or there is none.      *)
IsLast(k, ks, m) == (k = 0 \/ k \in ks) /\ \A j \in ks : j <= m => j <= k

(* What the walk has kept of the first m tags.                             *)
IsRecord(b) ==
  b = [mmap_base |-> b.mmap_base, mmap_entries |-> b.mmap_entries, framebuffer |-> b.framebuffer,
       boot_source |-> b.boot_source]
MapIs(b, k) ==
  /\ b.mmap_entries = IF k = 0 THEN 0 ELSE tags[k].entries
  /\ k # 0 => b.mmap_base = Address[k] + 16
FrameIs(b, k) == b.framebuffer = IF k = 0 THEN 0 ELSE tags[k].addr
KeptMap(b, m) == \E k \in 0..m : IsLast(k, Maps, m) /\ MapIs(b, k)
KeptFrame(b, m) == \E k \in 0..m : IsLast(k, Frames, m) /\ FrameIs(b, k)
KeptSource(b, m) == b.boot_source = "UEFI" <=> \E k \in Uefi : k <= m
KeptOf(b, m) == IsRecord(b) /\ KeptMap(b, m) /\ KeptFrame(b, m) /\ KeptSource(b, m)

(* The number of entries is that of the tag.                               *)
LEMMA EntriesExact ==
  ASSUME AList(tags), NEW k \in DOMAIN tags, tags[k].type = "MMAP"
  PROVE  Entries(tags[k]) = tags[k].entries
<1>1. PICK w, e, n : w = tags[k].size /\ e = tags[k].entry_size /\ n = tags[k].entries  OBVIOUS
<1>2. e \in Nat \ {0} /\ n \in Nat /\ w = 16 + n * e  BY <1>1 DEF AList
<1>3. PICK p \in Nat : p = n * e  BY <1>2
<1>4. p \div e = n
  <2>1. p = e * n  BY <1>2, <1>3
  <2>2. p = e * (p \div e) + (p % e) /\ p % e \in 0 .. e - 1 /\ p \div e \in Nat  BY <1>2, <1>3, DivMod
  <2> QED BY <1>2, <1>3, <2>1, <2>2, Multiple
<1>5. w - 16 = p  BY <1>2, <1>3
<1> QED BY <1>1, <1>4, <1>5 DEF Entries

LEMMA KeepStep ==
  ASSUME AList(tags), NEW k \in DOMAIN tags, at = Address[k], KeptOf(bootdata, k - 1)
  PROVE  KeptOf(Keep(bootdata, tags[k]), k)
<1>0. k \in Nat \ {0} /\ DOMAIN tags = 1..Len(tags) /\ Len(tags) \in Nat  BY DEF AList
<1>1. PICK b, c, g : b = bootdata /\ c = Keep(bootdata, tags[k]) /\ g = tags[k]  OBVIOUS
<1>2. IsRecord(b) /\ KeptMap(b, k - 1) /\ KeptFrame(b, k - 1) /\ KeptSource(b, k - 1)
  BY <1>1 DEF KeptOf
<1>3. PICK base, e : base = Address[k] + 16 /\ e = Entries(g)  OBVIOUS
<1>4. g.type = "MMAP" => e = g.entries  BY <1>1, <1>3, EntriesExact
<1>5. c = CASE g.type = "MMAP" -> [b EXCEPT !.mmap_base = base, !.mmap_entries = e]
            [] g.type = "FRAMEBUFFER" /\ g.fbType # INDEXED -> [b EXCEPT !.framebuffer = g.addr]
            [] g.type \in {"EFI_MMAP", "EFI32_IH"} -> [b EXCEPT !.boot_source = "UEFI"]
            [] OTHER -> b
  BY <1>1, <1>3 DEF Keep, Framebuffer
<1>6. /\ Maps \subseteq DOMAIN tags /\ (k \in Maps <=> g.type = "MMAP")
      /\ Frames \subseteq DOMAIN tags /\ (k \in Frames <=> g.type = "FRAMEBUFFER" /\ g.fbType # INDEXED)
      /\ Uefi \subseteq DOMAIN tags /\ (k \in Uefi <=> g.type \in {"EFI_MMAP", "EFI32_IH"})
  BY <1>1 DEF Maps, Frames, Uefi
<1>7. /\ IsRecord(c)
      /\ c.mmap_base = IF k \in Maps THEN base ELSE b.mmap_base
      /\ c.mmap_entries = IF k \in Maps THEN e ELSE b.mmap_entries
      /\ c.framebuffer = IF k \in Frames THEN g.addr ELSE b.framebuffer
      /\ c.boot_source = IF k \in Uefi THEN "UEFI" ELSE b.boot_source
  <2>1. PICK p, q, r, u : b = [mmap_base |-> p, mmap_entries |-> q, framebuffer |-> r, boot_source |-> u]
    BY <1>2 DEF IsRecord
  <2>2. CASE g.type = "MMAP"  BY <1>5, <1>6, <2>1, <2>2 DEF IsRecord
  <2>3. CASE g.type = "FRAMEBUFFER" /\ g.fbType # INDEXED  BY <1>5, <1>6, <2>1, <2>3 DEF IsRecord
  <2>4. CASE g.type \in {"EFI_MMAP", "EFI32_IH"}
    <3>1. g.type # "MMAP" /\ g.type # "FRAMEBUFFER"  BY <2>4
    <3> QED BY <1>5, <1>6, <2>1, <2>4, <3>1 DEF IsRecord
  <2>5. CASE k \notin Maps /\ k \notin Frames /\ k \notin Uefi  BY <1>5, <1>6, <2>1, <2>5 DEF IsRecord
  <2> QED BY <1>6, <2>2, <2>3, <2>4, <2>5
<1>8. \A j \in DOMAIN tags : j \in Nat /\ (j <= k <=> j = k \/ j <= k - 1)  BY <1>0
<1>9. ASSUME NEW ks, ks \subseteq DOMAIN tags, k \in ks PROVE IsLast(k, ks, k)
  BY <1>9 DEF IsLast
<1>10. ASSUME NEW ks, NEW j, ks \subseteq DOMAIN tags, k \notin ks, IsLast(j, ks, k - 1) PROVE IsLast(j, ks, k)
  BY <1>8, <1>10 DEF IsLast
<1>11. 0..k - 1 \subseteq 0..k /\ k \in 0..k  BY <1>0
<1>12. KeptMap(c, k)
  <2>1. CASE k \in Maps
    <3>1. IsLast(k, Maps, k) /\ c.mmap_entries = tags[k].entries /\ c.mmap_base = Address[k] + 16
      BY <1>1, <1>3, <1>4, <1>6, <1>7, <1>9, <2>1
    <3>2. MapIs(c, k)  BY <1>0, <3>1 DEF MapIs
    <3> QED BY <1>11, <3>1, <3>2 DEF KeptMap
  <2>2. CASE k \notin Maps
    <3>1. PICK j \in 0..k - 1 : IsLast(j, Maps, k - 1) /\ MapIs(b, j)  BY <1>2 DEF KeptMap
    <3>2. IsLast(j, Maps, k)  BY <1>6, <1>10, <2>2, <3>1
    <3>3. MapIs(c, j) /\ j \in 0..k  BY <1>7, <1>11, <2>2, <3>1 DEF MapIs
    <3> QED BY <3>2, <3>3 DEF KeptMap
  <2> QED BY <2>1, <2>2
<1>13. KeptFrame(c, k)
  <2>1. CASE k \in Frames
    <3>1. IsLast(k, Frames, k) /\ c.framebuffer = tags[k].addr  BY <1>1, <1>6, <1>7, <1>9, <2>1
    <3>2. FrameIs(c, k)  BY <1>0, <3>1 DEF FrameIs
    <3> QED BY <1>11, <3>1, <3>2 DEF KeptFrame
  <2>2. CASE k \notin Frames
    <3>1. PICK j \in 0..k - 1 : IsLast(j, Frames, k - 1) /\ FrameIs(b, j)  BY <1>2 DEF KeptFrame
    <3>2. IsLast(j, Frames, k)  BY <1>6, <1>10, <2>2, <3>1
    <3>3. FrameIs(c, j) /\ j \in 0..k  BY <1>7, <1>11, <2>2, <3>1 DEF FrameIs
    <3> QED BY <3>2, <3>3 DEF KeptFrame
  <2> QED BY <2>1, <2>2
<1>14. KeptSource(c, k)
  <2>1. CASE k \in Uefi  BY <1>0, <1>7, <2>1 DEF KeptSource
  <2>2. CASE k \notin Uefi
    <3>1. c.boot_source = b.boot_source  BY <1>7, <2>2
    <3>2. \A j \in Uefi : j <= k <=> j <= k - 1  BY <1>6, <1>8, <2>2
    <3> QED BY <1>2, <3>1, <3>2 DEF KeptSource
  <2> QED BY <2>1, <2>2
<1> QED BY <1>1, <1>7, <1>12, <1>13, <1>14 DEF KeptOf

InfoInv ==
  /\ tags \in TagLists
  /\ stage \in {"entry", "walk", "panic", "done"}
  /\ stage = "entry" => at = Header /\ bootdata = Nothing
  /\ stage = "walk" => \E k \in DOMAIN tags : at = Address[k] /\ KeptOf(bootdata, k - 1)
  /\ stage = "done" => KeptOf(bootdata, Len(tags) - 1)

LEMMA NothingKept == ASSUME AList(tags) PROVE KeptOf(Nothing, 0)
<1>1. \A k \in DOMAIN tags : k \in Nat \ {0}  BY DEF AList
<1>2. \A ks : ks \subseteq DOMAIN tags => IsLast(0, ks, 0)  BY <1>1 DEF IsLast
<1>3. Maps \subseteq DOMAIN tags /\ Frames \subseteq DOMAIN tags /\ Uefi \subseteq DOMAIN tags
  BY DEF Maps, Frames, Uefi
<1>4. IsLast(0, Maps, 0) /\ IsLast(0, Frames, 0)  BY <1>2, <1>3
<1>5. ~ \E k \in Uefi : k <= 0  BY <1>1, <1>3
<1>6. 0 \in 0..0  OBVIOUS
<1> QED BY <1>4, <1>5, <1>6 DEF KeptOf, IsRecord, KeptMap, KeptFrame, KeptSource, MapIs, FrameIs, Nothing

(* All this is about the tags, which stay.                                 *)
LEMMA Same ==
  ASSUME UNCHANGED tags
  PROVE  /\ Address' = Address
         /\ \A m : KeptOf(bootdata, m)' <=> KeptOf(bootdata', m)
<1>1. Address' = Address  BY DEF Address
<1>2. Maps' = Maps /\ Frames' = Frames /\ Uefi' = Uefi  BY DEF Maps, Frames, Uefi
<1>3. PICK c : c = bootdata'  OBVIOUS
<1>4. ASSUME NEW k PROVE (MapIs(bootdata, k)' <=> MapIs(c, k)) /\ (FrameIs(bootdata, k)' <=> FrameIs(c, k))
  BY <1>1, <1>3 DEF MapIs, FrameIs
<1>5. ASSUME NEW m PROVE KeptMap(bootdata, m)' <=> KeptMap(c, m)
  BY <1>2, <1>3, <1>4 DEF KeptMap, IsLast
<1>6. ASSUME NEW m PROVE KeptFrame(bootdata, m)' <=> KeptFrame(c, m)
  BY <1>2, <1>3, <1>4 DEF KeptFrame, IsLast
<1>7. ASSUME NEW m PROVE KeptSource(bootdata, m)' <=> KeptSource(c, m)
  BY <1>2, <1>3 DEF KeptSource
<1>8. IsRecord(bootdata)' <=> IsRecord(c)  BY <1>3 DEF IsRecord
<1>9. ASSUME NEW m PROVE KeptOf(bootdata, m)' <=> KeptOf(c, m)
  BY <1>5, <1>6, <1>7, <1>8 DEF KeptOf
<1> QED BY <1>1, <1>3, <1>9

LEMMA InfoStep ==
  ASSUME InfoInv, [BootNext]_boot PROVE InfoInv'
<1>0. AList(tags) /\ 1 \in DOMAIN tags /\ DOMAIN tags = 1..Len(tags) /\ Len(tags) \in Nat
  BY BootInfoAssumption DEF InfoInv, AList
<1>1. CASE Enter
  <2>1. tags' = tags /\ stage' \in {"walk", "panic"} /\ at' = Address[1] /\ bootdata' = Nothing
    BY <1>0, <1>1, AddressIs DEF Enter, InfoInv
  <2>2. KeptOf(Nothing, 1 - 1)  BY <1>0, NothingKept
  <2>3. at' = Address'[1] /\ KeptOf(bootdata, 1 - 1)'
    BY <2>1, <2>2, Same
  <2> QED BY <1>0, <2>1, <2>3 DEF InfoInv
<1>2. CASE ReadTag
  <2>1. PICK k \in DOMAIN tags : at = Address[k] /\ KeptOf(bootdata, k - 1)
    BY <1>2 DEF InfoInv, ReadTag, Walking
  <2>2. TagAt(at) = tags[k]  BY <1>0, <2>1, TagHere
  <2>3. ~IsEnd(tags[k]) /\ bootdata' = Keep(bootdata, tags[k]) /\ at' = at + Up(tags[k].size) /\ UNCHANGED <<tags, stage>>
        /\ stage = "walk"
    BY <1>2, <2>2 DEF ReadTag, NextTag, Walking
  <2>4. k # Len(tags)  BY <1>0, <2>3 DEF AList
  <2>5. PICK j : j = k + 1 /\ j \in DOMAIN tags /\ j - 1 = k  BY <1>0, <2>4
  <2>6. at' = Address[j]  BY <1>0, <2>1, <2>3, <2>5, AddressIs
  <2>7. KeptOf(bootdata', j - 1)  BY <1>0, <2>1, <2>3, <2>5, KeepStep
  <2>8. at' = Address'[j] /\ KeptOf(bootdata, j - 1)'
    BY <2>3, <2>6, <2>7, Same
  <2> QED BY <2>3, <2>5, <2>8 DEF InfoInv
<1>3. CASE Finish
  <2>1. PICK k \in DOMAIN tags : at = Address[k] /\ KeptOf(bootdata, k - 1)
    BY <1>3 DEF InfoInv, Finish, Walking
  <2>2. TagAt(at) = tags[k] /\ at < End  BY <1>0, <2>1, TagHere, Rising
  <2>3. IsEnd(tags[k]) /\ stage' = "done" /\ UNCHANGED <<tags, at, bootdata>>  BY <1>3, <2>2 DEF Finish
  <2>4. k = Len(tags)  BY <1>0, <2>3 DEF AList
  <2>5. KeptOf(bootdata, Len(tags) - 1)  BY <2>1, <2>4
  <2>6. KeptOf(bootdata, Len(tags) - 1)'
    BY <2>3, <2>5, Same
  <2> QED BY <2>3, <2>6 DEF InfoInv
<1>4. CASE UNCHANGED boot
  <2>1. UNCHANGED <<tags, stage, at, bootdata>>  BY <1>4 DEF boot
  <2>2. \A m : KeptOf(bootdata, m)' <=> KeptOf(bootdata, m)  BY <2>1, Same
  <2>3. Address' = Address  BY <2>1, Same
  <2> QED BY <2>1, <2>2, <2>3 DEF InfoInv
<1> QED BY <1>1, <1>2, <1>3, <1>4 DEF BootNext

(* The greatest of the kept ones is the last of all, for the end tag is of *)
(* no kind that is kept.                                                   *)
LEMMA LastIs ==
  ASSUME AList(tags), NEW ks, ks \subseteq DOMAIN tags, Len(tags) \notin ks,
         NEW k \in 0..Len(tags) - 1, IsLast(k, ks, Len(tags) - 1)
  PROVE  LastOf(ks) = k
<1>0. PICK m \in Nat \ {0} : m = Len(tags) /\ DOMAIN tags = 1..m  BY Zenon DEF AList
<1>1. \A j \in ks : j \in Nat \ {0} /\ j <= m - 1 /\ j <= k  BY <1>0 DEF IsLast
<1>2. k \in Nat  BY <1>0
<1>3. CASE k = 0
  <2>1. ks = {}  BY <1>1, <1>3
  <2> QED BY <1>3, <2>1 DEF LastOf
<1>4. CASE k \in ks
  <2>1. \E i \in ks : \A j \in ks : j <= i  BY <1>1, <1>4
  <2>2. PICK i \in ks : i = CHOOSE x \in ks : \A j \in ks : j <= x  BY <2>1
  <2>3. \A j \in ks : j <= i  BY <2>1, <2>2
  <2>4. i = k  BY <1>1, <1>2, <1>4, <2>3
  <2> QED BY <1>4, <2>2, <2>4 DEF LastOf
<1> QED BY <1>3, <1>4 DEF IsLast

(* What init_boot keeps is what the loader's tags say, however many there  *)
(* are, of whatever sizes.                                                 *)
THEOREM InfoKept == Spec => []InfoExact
<1>1. Init => InfoInv
  BY DEF Init, BootInit, InfoInv
<1>2. InfoInv /\ [Next]_<<boot, library>> => InfoInv'
  <2>1. [Next]_<<boot, library>> => [BootNext]_boot  BY DEF Next, init_boot, Calls
  <2> QED BY <2>1, InfoStep
<1>3. InfoInv => InfoExact
  <2> SUFFICES ASSUME InfoInv PROVE InfoExact  OBVIOUS
  <2>0. AList(tags)  BY BootInfoAssumption DEF InfoInv
  <2>1. Walking /\ at < End => at \in Starts  BY DEF InfoInv, Walking, Starts
  <2>2. ASSUME stage = "done"
        PROVE  /\ bootdata.mmap_entries = IF LastOf(Maps) = 0 THEN 0 ELSE tags[LastOf(Maps)].entries
               /\ LastOf(Maps) # 0 => bootdata.mmap_base = Address[LastOf(Maps)] + 16
               /\ bootdata.framebuffer = IF LastOf(Frames) = 0 THEN 0 ELSE tags[LastOf(Frames)].addr
               /\ bootdata.boot_source = "UEFI" <=> Uefi # {}
    <3>1. PICK m : m = Len(tags) - 1  OBVIOUS
    <3>2. KeptMap(bootdata, m) /\ KeptFrame(bootdata, m) /\ KeptSource(bootdata, m)
      BY <2>2, <3>1 DEF InfoInv, KeptOf
    <3>3. tags[Len(tags)].type = "END"  BY <2>0 DEF AList, IsEnd
    <3>4. /\ Maps \subseteq DOMAIN tags /\ Len(tags) \notin Maps
          /\ Frames \subseteq DOMAIN tags /\ Len(tags) \notin Frames
          /\ Uefi \subseteq DOMAIN tags /\ Len(tags) \notin Uefi
      BY <3>3 DEF Maps, Frames, Uefi
    <3>5. PICK k \in 0..m : IsLast(k, Maps, m) /\ MapIs(bootdata, k)  BY <3>2 DEF KeptMap
    <3>6. LastOf(Maps) = k  BY <2>0, <3>1, <3>4, <3>5, LastIs
    <3>7. PICK j \in 0..m : IsLast(j, Frames, m) /\ FrameIs(bootdata, j)  BY <3>2 DEF KeptFrame
    <3>8. LastOf(Frames) = j  BY <2>0, <3>1, <3>4, <3>7, LastIs
    <3>9. \A i \in Uefi : i <= m  BY <2>0, <3>1, <3>4 DEF AList
    <3>10. bootdata.boot_source = "UEFI" <=> Uefi # {}  BY <3>2, <3>9 DEF KeptSource
    <3> QED BY <3>5, <3>6, <3>7, <3>8, <3>10 DEF MapIs, FrameIs
  <2> QED BY <2>1, <2>2 DEF InfoExact
<1> QED BY <1>1, <1>2, <1>3, PTL DEF Spec

=============================================================================
